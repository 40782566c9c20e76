----------------------------- MODULE EdgeProofs -----------------------------
(***************************************************************************)
(* Proofs about the components around the pipeline.                        *)
(*                                                                         *)
(* The dead-letter queue, for any number of rows, concurrent replays and   *)
(* retries, with every failure of WebhookReplay.                           *)
(*                                                                         *)
(* The nine components of Edge, one section each: the inductive invariant  *)
(* that the component's module states holds at first and is kept by every  *)
(* action. The theorems at the end put the nine together.                  *)
(***************************************************************************)
EXTENDS Edge, WebhookReplay, SequenceTheorems, FiniteSetTheorems, TLAPS

\* A row that is there is a Row, a call that runs has a pc and a row.
LEMMA Shapes ==
    ASSUME TypeOK
    PROVE  /\ \A d \in Ids : dlq[d] # Absent => dlq[d] \in Row
           /\ \A d \in Ids : dlq[d] = Absent => dlq[d].status = "absent"
           /\ \A d \in Ids : dlq[d].status \in Status => dlq[d] \in Row
           /\ \A c \in Calls : calls[c] = Idle \/ calls[c].pc # "idle"
           /\ \A c \in Calls : calls[c].pc # "idle" =>
                 /\ calls[c] # Idle
                 /\ calls[c].id \in Ids
                 /\ calls[c].pc \in {"publish", "mark", "failed", "update"}
                 /\ calls[c] = [pc |-> calls[c].pc, id |-> calls[c].id]
  <1>1. Absent.status = "absent" /\ Idle.pc = "idle"
    BY DEF Absent, Idle
  <1>2. \A d \in Ids : dlq[d] \in Row \/ dlq[d] = Absent
    BY DEF TypeOK
  <1>3. \A c \in Calls : \/ calls[c] = Idle
                         \/ calls[c] \in [pc : {"publish", "mark", "failed", "update"}, id : Ids]
    BY DEF TypeOK
  <1>4. \A d \in Ids : dlq[d] = Absent => dlq[d].status = "absent"
    BY <1>1
  <1>5. \A d \in Ids : dlq[d].status \in Status => dlq[d] \in Row
    BY <1>2, <1>4 DEF Status
  <1>6. \A c \in Calls : calls[c] = Idle \/ calls[c].pc # "idle"
    BY <1>3
  <1>7. ASSUME NEW c \in Calls, calls[c].pc # "idle"
        PROVE  /\ calls[c] # Idle
               /\ calls[c].id \in Ids
               /\ calls[c].pc \in {"publish", "mark", "failed", "update"}
               /\ calls[c] = [pc |-> calls[c].pc, id |-> calls[c].id]
    BY <1>1, <1>3, <1>7
  <1> QED BY <1>2, <1>4, <1>5, <1>6, <1>7

\* Nothing is queued, running or published at first.
LEMMA DlqInit == Init => DlqInv
  <1> SUFFICES ASSUME Init PROVE DlqInv
    OBVIOUS
  <1>1. Absent.status = "absent" /\ Idle.pc = "idle"
    BY DEF Absent, Idle
  <1>2. TypeOK
    BY <1>1, WebhookReplayAssumption DEF Init, TypeOK
  <1>3. \A d \in Ids : dlq[d] = Absent
    BY DEF Init
  <1>4. \A c \in Calls : calls[c] = Idle
    BY DEF Init
  <1> QED BY <1>1, <1>2, <1>3, <1>4
          DEF DlqInv, StatusConsistent, ReplayedPublished, CallsPresent, MarksPublished,
              UpdatesPending

\* The rows' part of the invariant, for one row.
RowOK(row) ==
    row # Absent =>
        CASE row.status = "pending" ->
                row.retry_count < MaxAutoRetries /\ row.next_retry = row.retry_count + 1
          [] row.status = "abandoned" ->
                /\ row.retry_count = MaxAutoRetries /\ row.next_retry = 0
                /\ row.outcome = "failure"
          [] row.status = "replayed" -> row.next_retry = 0 /\ row.outcome = "success"

\* A new row, a replayed row and a row after a failure are well typed and consistent.
LEMMA EnqueuedRow ==
    LET row == [status |-> "pending", retry_count |-> 0, next_retry |-> 1, outcome |-> "none"]
    IN  row \in Row /\ row # Absent /\ row.status = "pending" /\ RowOK(row)
  <1> DEFINE row == [status |-> "pending", retry_count |-> 0, next_retry |-> 1, outcome |-> "none"]
  <1>1. row \in Row
    BY WebhookReplayAssumption DEF Row, Status
  <1>2. row.status = "pending" /\ Absent.status = "absent"
    BY DEF Absent
  <1> QED BY <1>1, <1>2, WebhookReplayAssumption DEF RowOK

LEMMA FailedRow ==
    ASSUME NEW row \in Row, row.status = "pending", RowOK(row)
    PROVE  /\ Failed(row) \in Row /\ Failed(row) # Absent /\ RowOK(Failed(row))
           /\ Failed(row).status \in {"pending", "abandoned"}
  <1>1. row.retry_count \in Nat /\ row.retry_count < MaxAutoRetries
    <2>1. row # Absent
      BY DEF Absent
    <2> QED BY <2>1 DEF RowOK, Row
  <1>2. CASE row.retry_count + 1 >= MaxAutoRetries
    <2>1. Failed(row) = [status |-> "abandoned", retry_count |-> row.retry_count + 1,
                         next_retry |-> 0, outcome |-> "failure"]
      BY <1>2 DEF Failed
    <2>2. row.retry_count + 1 = MaxAutoRetries
      BY <1>1, <1>2, WebhookReplayAssumption
    <2>3. Failed(row) # Absent
      BY <2>1 DEF Absent
    <2> QED BY <1>1, <2>1, <2>2, <2>3, WebhookReplayAssumption DEF Row, Status, RowOK
  <1>3. CASE ~ (row.retry_count + 1 >= MaxAutoRetries)
    <2>1. Failed(row) = [status |-> "pending", retry_count |-> row.retry_count + 1,
                         next_retry |-> row.retry_count + 2, outcome |-> "failure"]
      BY <1>1, <1>3 DEF Failed
    <2>2. /\ row.retry_count + 1 < MaxAutoRetries
          /\ row.retry_count + 2 \in 0 .. Backoffs
      BY <1>1, <1>3, WebhookReplayAssumption
    <2>3. Failed(row) # Absent
      BY <2>1 DEF Absent
    <2> QED BY <1>1, <2>1, <2>2, <2>3, WebhookReplayAssumption DEF Row, Status, RowOK
  <1> QED BY <1>2, <1>3

LEMMA ReplayedRow ==
    ASSUME NEW row \in Row
    PROVE  /\ Replayed(row) \in Row /\ Replayed(row) # Absent /\ RowOK(Replayed(row))
           /\ Replayed(row).status = "replayed"
  <1>1. /\ Replayed(row) \in Row
        /\ Replayed(row).status = "replayed" /\ Replayed(row).next_retry = 0
        /\ Replayed(row).outcome = "success"
    BY WebhookReplayAssumption DEF Replayed, Row, Status
  <1>2. Replayed(row) # Absent
    BY <1>1 DEF Absent
  <1> QED BY <1>1, <1>2 DEF RowOK

\* What a call's move to another label, or its return, does to the calls.
LEMMA CallMoves ==
    ASSUME TypeOK, NEW c \in Calls, calls[c].pc # "idle",
           NEW label \in {"publish", "mark", "failed", "update"}
    PROVE  /\ Goto(c, label) => /\ calls'[c] = [pc |-> label, id |-> calls[c].id]
                               /\ \A b \in Calls \ {c} : calls'[b] = calls[b]
                               /\ DOMAIN calls' = Calls
           /\ Return(c) => /\ calls'[c] = Idle
                          /\ \A b \in Calls \ {c} : calls'[b] = calls[b]
                          /\ DOMAIN calls' = Calls
  <1>1. calls[c] = [pc |-> calls[c].pc, id |-> calls[c].id]
    BY Shapes
  <1>2. DOMAIN calls = Calls
    BY DEF TypeOK
  <1>3. [calls[c] EXCEPT !.pc = label] = [pc |-> label, id |-> calls[c].id]
    BY <1>1
  <1> QED BY <1>2, <1>3 DEF Goto, Return

\* StatusConsistent is RowOK of every row.
LEMMA RowsOK == StatusConsistent <=> \A d \in Ids : RowOK(dlq[d])
  BY DEF StatusConsistent, RowOK

\* A new row disturbs no other row and no call.
LEMMA StepEnqueue ==
    ASSUME DlqInv, NEW d \in Ids, Enqueue(d)
    PROVE  DlqInv'
  <1> DEFINE row == [status |-> "pending", retry_count |-> 0, next_retry |-> 1, outcome |-> "none"]
  <1>1. row \in Row /\ row # Absent /\ row.status = "pending" /\ RowOK(row)
    BY EnqueuedRow
  <1> HIDE DEF row
  <1>2. /\ dlq'[d] = row /\ dlq[d] = Absent
        /\ \A f \in Ids \ {d} : dlq'[f] = dlq[f]
        /\ DOMAIN dlq' = Ids
        /\ UNCHANGED <<locked, calls, stream, evidence>>
    BY DEF Enqueue, DlqInv, TypeOK, row
  <1>3. TypeOK'
    <2>1. \A f \in Ids : dlq'[f] \in Row \union {Absent}
      BY <1>1, <1>2 DEF DlqInv, TypeOK
    <2>2. dlq' \in [Ids -> Row \union {Absent}]
      BY <1>2, <2>1 DEF Enqueue
    <2> QED BY <1>2, <2>2 DEF DlqInv, TypeOK
  <1>4. StatusConsistent'
    <2>1. \A f \in Ids : RowOK(dlq'[f])
      BY <1>1, <1>2, RowsOK DEF DlqInv
    <2> QED BY <2>1 DEF StatusConsistent, RowOK
  <1>5. ReplayedPublished'
    BY <1>1, <1>2 DEF DlqInv, ReplayedPublished
  <1>6. CallsPresent' /\ MarksPublished'
    BY <1>1, <1>2, Shapes DEF DlqInv, CallsPresent, MarksPublished
  <1>7. UpdatesPending'
    <2> SUFFICES ASSUME NEW c \in Calls, calls[c].pc = "update"
                 PROVE  dlq'[calls[c].id].status = "pending"
      BY <1>2 DEF UpdatesPending
    <2>1. calls[c].id \in Ids /\ dlq[calls[c].id].status = "pending"
      BY Shapes DEF DlqInv, UpdatesPending
    <2> QED BY <1>1, <1>2, <2>1
  <1> QED BY <1>3, <1>4, <1>5, <1>6, <1>7 DEF DlqInv

\* The label of a call, and the row it is at, after a step of call c.
Moved(c) ==
    /\ calls' \in [Calls -> [pc : {"publish", "mark", "failed", "update"}, id : Ids] \union {Idle}]
    /\ \A b \in Calls \ {c} : calls'[b] = calls[b]

\* A step of a call that leaves the rows alone keeps the invariant if the call
\* owns what its new label relies on.
LEMMA StepCall ==
    ASSUME DlqInv, NEW c \in Calls, Moved(c),
           UNCHANGED <<dlq, evidence>>,
           stream \subseteq stream', stream' \subseteq Entry,
           locked' \in [Ids -> Calls \union {NoCall}],
           \A b \in Calls, d \in Ids : locked'[d] = b <=> calls'[b] = [pc |-> "update", id |-> d],
           calls'[c] # Idle => dlq[calls'[c].id] # Absent,
           calls'[c].pc = "mark" => \E entry \in stream' : entry.payload = calls'[c].id,
           calls'[c].pc = "update" => dlq[calls'[c].id].status = "pending"
    PROVE  DlqInv'
  <1>1. TypeOK'
    BY DEF DlqInv, TypeOK, Moved
  <1>2. StatusConsistent' /\ ReplayedPublished'
    BY DEF DlqInv, StatusConsistent, ReplayedPublished
  <1>3. ASSUME NEW b \in Calls
        PROVE  /\ calls'[b] # Idle => dlq'[calls'[b].id] # Absent
               /\ calls'[b].pc = "mark" => \E entry \in stream' : entry.payload = calls'[b].id
               /\ calls'[b].pc = "update" => dlq'[calls'[b].id].status = "pending"
    <2>1. CASE b = c
      BY <2>1
    <2>2. CASE b # c
      <3>1. calls'[b] = calls[b]
        BY <2>2 DEF Moved
      <3> QED BY <3>1 DEF DlqInv, CallsPresent, MarksPublished, UpdatesPending
    <2> QED BY <2>1, <2>2
  <1>4. CallsPresent' /\ MarksPublished' /\ UpdatesPending'
    BY <1>3 DEF CallsPresent, MarksPublished, UpdatesPending
  <1> QED BY <1>1, <1>2, <1>4 DEF DlqInv

\* A call that rewrites its row and returns keeps the invariant if no other call
\* has the row locked.
LEMMA StepRow ==
    ASSUME DlqInv, NEW c \in Calls, Moved(c), calls[c].pc # "idle", calls'[c] = Idle,
           NEW row \in Row, row # Absent, RowOK(row),
           dlq' = [dlq EXCEPT ![calls[c].id] = row],
           row.status = "replayed" => \E entry \in stream : entry.payload = calls[c].id,
           \A b \in Calls \ {c} : locked[calls[c].id] # b,
           locked' \in [Ids -> Calls \union {NoCall}],
           \A b \in Calls, d \in Ids : locked'[d] = b <=> calls'[b] = [pc |-> "update", id |-> d],
           UNCHANGED <<stream, evidence>>
    PROVE  DlqInv'
  <1>1. /\ calls[c].id \in Ids
        /\ dlq'[calls[c].id] = row
        /\ \A d \in Ids : d # calls[c].id => dlq'[d] = dlq[d]
    BY Shapes DEF DlqInv, TypeOK
  <1>2. Idle.pc = "idle"
    BY DEF Idle
  <1>3. TypeOK'
    <2>1. dlq' \in [Ids -> Row \union {Absent}]
      BY <1>1 DEF DlqInv, TypeOK
    <2> QED BY <2>1 DEF DlqInv, TypeOK, Moved
  <1>4. StatusConsistent'
    <2>1. \A d \in Ids : RowOK(dlq'[d])
      BY <1>1, RowsOK DEF DlqInv
    <2> QED BY <2>1 DEF StatusConsistent, RowOK
  <1>5. ReplayedPublished'
    BY <1>1 DEF DlqInv, ReplayedPublished
  <1>6. ASSUME NEW b \in Calls
        PROVE  /\ calls'[b] # Idle => dlq'[calls'[b].id] # Absent
               /\ calls'[b].pc = "mark" => \E entry \in stream' : entry.payload = calls'[b].id
               /\ calls'[b].pc = "update" => dlq'[calls'[b].id].status = "pending"
    <2>1. CASE b = c
      BY <1>2, <2>1
    <2>2. CASE b # c /\ calls[b] = Idle
      BY <1>2, <2>2 DEF Moved
    <2>3. CASE b # c /\ calls[b] # Idle
      <3>1. calls'[b] = calls[b] /\ calls[b].id \in Ids
        BY <2>3, Shapes DEF Moved, DlqInv
      <3>2. calls'[b] # Idle => dlq'[calls'[b].id] # Absent
        BY <1>1, <3>1 DEF DlqInv, CallsPresent
      <3>3. calls'[b].pc = "mark" => \E entry \in stream' : entry.payload = calls'[b].id
        BY <3>1 DEF DlqInv, MarksPublished
      <3>4. ASSUME calls[b].pc = "update" PROVE dlq'[calls[b].id].status = "pending"
        <4>1. calls[b] = [pc |-> "update", id |-> calls[b].id]
          BY <3>4, Shapes DEF DlqInv
        <4>2. locked[calls[b].id] = b
          BY <3>1, <4>1 DEF DlqInv, TypeOK
        <4>3. calls[b].id # calls[c].id
          BY <2>3, <4>2
        <4> QED BY <1>1, <3>1, <3>4, <4>3 DEF DlqInv, UpdatesPending
      <3> QED BY <3>1, <3>2, <3>3, <3>4
    <2> QED BY <2>1, <2>2, <2>3
  <1>7. CallsPresent' /\ MarksPublished' /\ UpdatesPending'
    BY <1>6 DEF CallsPresent, MarksPublished, UpdatesPending
  <1> QED BY <1>3, <1>4, <1>5, <1>7 DEF DlqInv

\* Moving on and returning are moves of one call.
LEMMA MovesAre ==
    ASSUME TypeOK, NEW c \in Calls, calls[c].pc # "idle",
           NEW label \in {"publish", "mark", "failed", "update"}
    PROVE  /\ Goto(c, label) => /\ Moved(c)
                               /\ calls'[c] # Idle /\ calls'[c].pc = label
                               /\ calls'[c].id = calls[c].id
                               /\ calls'[c] = [pc |-> label, id |-> calls[c].id]
           /\ Return(c) => Moved(c) /\ calls'[c] = Idle
  <1>1. calls[c].id \in Ids /\ calls[c] # Idle
    BY Shapes
  <1>2. Idle.pc = "idle"
    BY DEF Idle
  <1>3. ASSUME Goto(c, label)
        PROVE  /\ Moved(c)
               /\ calls'[c] # Idle /\ calls'[c].pc = label
               /\ calls'[c].id = calls[c].id
               /\ calls'[c] = [pc |-> label, id |-> calls[c].id]
    <2>1. calls'[c] = [pc |-> label, id |-> calls[c].id]
      BY <1>3, CallMoves
    <2>2. calls'[c].pc = label /\ calls'[c].id = calls[c].id /\ calls'[c] # Idle
      BY <1>2, <2>1
    <2>3. \A b \in Calls \ {c} : calls'[b] = calls[b]
      BY <1>3, CallMoves
    <2>4. calls' = [calls EXCEPT ![c] = [pc |-> label, id |-> calls[c].id]]
      BY <1>3, <2>1 DEF Goto, TypeOK
    <2>5. calls' \in [Calls -> {Idle} \union
                               [pc : {"publish", "mark", "failed", "update"}, id : Ids]]
      BY <1>1, <2>4 DEF TypeOK
    <2> QED BY <2>1, <2>2, <2>3, <2>5 DEF Moved
  <1>4. Return(c) => Moved(c) /\ calls'[c] = Idle
    BY DEF Return, TypeOK, Moved
  <1> QED BY <1>3, <1>4

\* A call that returns holds no lock afterwards.
LEMMA Unlocks ==
    ASSUME TypeOK, NEW c \in Calls, calls[c].pc # "idle", Unlock(c), Return(c)
    PROVE  /\ locked' \in [Ids -> Calls \union {NoCall}]
           /\ \A b \in Calls, d \in Ids :
                 locked'[d] = b <=> calls'[b] = [pc |-> "update", id |-> d]
  <1>1. locked' \in [Ids -> Calls \union {NoCall}]
    BY DEF TypeOK, Unlock
  <1>2. Moved(c) /\ calls'[c] = Idle /\ Idle.pc = "idle"
    BY MovesAre DEF Idle
  <1>3. ASSUME NEW b \in Calls, NEW d \in Ids
        PROVE  locked'[d] = b <=> calls'[b] = [pc |-> "update", id |-> d]
    <2>1. locked'[d] = IF locked[d] = c THEN NoCall ELSE locked[d]
      BY DEF Unlock
    <2>2. locked[d] = b <=> calls[b] = [pc |-> "update", id |-> d]
      BY DEF TypeOK
    <2>3. NoCall # b
      BY WebhookReplayAssumption
    <2>4. CASE b = c
      <3>1. calls'[b] # [pc |-> "update", id |-> d]
        BY <1>2, <2>4
      <3> QED BY <2>1, <2>3, <2>4, <3>1
    <2>5. CASE b # c
      BY <1>2, <2>1, <2>2, <2>3, <2>5 DEF Moved
    <2> QED BY <2>4, <2>5
  <1> QED BY <1>1, <1>3

\* A call that takes no lock leaves the locks as they were.
LEMMA LocksStay ==
    ASSUME TypeOK, NEW c \in Calls, Moved(c), UNCHANGED locked,
           calls[c].pc # "update", calls'[c].pc # "update"
    PROVE  /\ locked' \in [Ids -> Calls \union {NoCall}]
           /\ \A b \in Calls, d \in Ids :
                 locked'[d] = b <=> calls'[b] = [pc |-> "update", id |-> d]
  <1>1. locked' \in [Ids -> Calls \union {NoCall}]
    BY DEF TypeOK
  <1>2. ASSUME NEW b \in Calls, NEW d \in Ids
        PROVE  locked'[d] = b <=> calls'[b] = [pc |-> "update", id |-> d]
    <2>1. locked[d] = b <=> calls[b] = [pc |-> "update", id |-> d]
      BY DEF TypeOK
    <2>2. CASE b = c
      <3>1. calls[b] # [pc |-> "update", id |-> d] /\ calls'[b] # [pc |-> "update", id |-> d]
        BY <2>2
      <3> QED BY <2>1, <3>1
    <2>3. CASE b # c
      BY <2>1, <2>3 DEF Moved
    <2> QED BY <2>2, <2>3
  <1> QED BY <1>1, <1>2

\* Get: the row is there, and the call relies on nothing else.
LEMMA StepGet ==
    ASSUME DlqInv, NEW c \in Calls, NEW d \in Ids, Get(c, d)
    PROVE  DlqInv'
  <1>1. Idle.pc = "idle" /\ Absent.status = "absent"
    BY DEF Idle, Absent
  <1>2. /\ calls[c] = Idle
        /\ calls'[c] = [pc |-> "publish", id |-> d]
        /\ Moved(c)
    BY DEF Get, DlqInv, TypeOK, Moved
  <1>3. calls'[c].pc = "publish" /\ calls'[c].id = d
    BY <1>2
  <1>4. dlq[d] # Absent
    BY <1>1 DEF Get
  <1>5. /\ locked' \in [Ids -> Calls \union {NoCall}]
        /\ \A b \in Calls, f \in Ids : locked'[f] = b <=> calls'[b] = [pc |-> "update", id |-> f]
    BY <1>1, <1>2, <1>3, LocksStay DEF Get, DlqInv
  <1>6. UNCHANGED <<dlq, evidence, stream>> /\ stream \subseteq Entry
    BY DEF Get, DlqInv, TypeOK
  <1> QED BY <1>2, <1>3, <1>4, <1>5, <1>6, StepCall

\* The publication, whatever the caller hears of it.
LEMMA StepPublish ==
    ASSUME DlqInv, NEW c \in Calls, Publish(c) \/ PublishFails(c)
    PROVE  DlqInv'
  <1>1. /\ calls[c].pc = "publish" /\ calls[c].pc # "idle"
        /\ UNCHANGED <<dlq, locked, evidence>>
    BY DEF Publish, PublishFails
  <1>2. calls[c].id \in Ids /\ calls[c] # Idle /\ TypeOK
    BY <1>1, Shapes DEF DlqInv
  <1>3. dlq[calls[c].id] # Absent
    BY <1>2 DEF DlqInv, CallsPresent
  <1>4. stream \subseteq stream' /\ stream' \subseteq Entry
    BY <1>2 DEF Publish, PublishFails, Republished, DlqInv, TypeOK, Entry
  <1>5. CASE Publish(c)
    <2>1. Goto(c, "mark") /\ [event_hash |-> Unhashed, payload |-> calls[c].id] \in stream'
      BY <1>5 DEF Publish, Republished
    <2>2. /\ Moved(c) /\ calls'[c].pc = "mark" /\ calls'[c].id = calls[c].id
      BY <1>1, <1>2, <2>1, MovesAre
    <2>3. \E entry \in stream' : entry.payload = calls'[c].id
      BY <2>1, <2>2
    <2>4. /\ locked' \in [Ids -> Calls \union {NoCall}]
          /\ \A b \in Calls, f \in Ids : locked'[f] = b <=> calls'[b] = [pc |-> "update", id |-> f]
      BY <1>1, <1>2, <2>2, LocksStay
    <2> QED BY <1>1, <1>3, <1>4, <2>2, <2>3, <2>4, StepCall
  <1>6. CASE PublishFails(c)
    <2>1. Goto(c, "failed")
      BY <1>6 DEF PublishFails
    <2>2. /\ Moved(c) /\ calls'[c].pc = "failed" /\ calls'[c].id = calls[c].id
      BY <1>1, <1>2, <2>1, MovesAre
    <2>3. /\ locked' \in [Ids -> Calls \union {NoCall}]
          /\ \A b \in Calls, f \in Ids : locked'[f] = b <=> calls'[b] = [pc |-> "update", id |-> f]
      BY <1>1, <1>2, <2>2, LocksStay
    <2> QED BY <1>1, <1>3, <1>4, <2>2, <2>3, StepCall
  <1> QED BY <1>5, <1>6

\* txGet locks a pending row that nobody has locked.
LEMMA StepTxGet ==
    ASSUME DlqInv, NEW c \in Calls, TxGet(c)
    PROVE  DlqInv'
  <1> DEFINE d == calls[c].id
  <1>1. /\ calls[c].pc = "failed" /\ calls[c].pc # "idle" /\ locked[d] = NoCall
        /\ dlq[d].status = "pending" /\ locked' = [locked EXCEPT ![d] = c]
        /\ Goto(c, "update") /\ UNCHANGED <<dlq, stream, evidence>>
    BY DEF TxGet
  <1>2. d \in Ids /\ calls[c] # Idle /\ TypeOK
    BY <1>1, Shapes DEF DlqInv
  <1>3. /\ Moved(c) /\ calls'[c].pc = "update" /\ calls'[c].id = d
        /\ calls'[c] = [pc |-> "update", id |-> d]
    BY <1>1, <1>2, MovesAre
  <1>4. dlq[d] # Absent /\ stream \subseteq Entry
    BY <1>2 DEF DlqInv, CallsPresent, TypeOK
  <1>5. locked' \in [Ids -> Calls \union {NoCall}]
    BY <1>1, <1>2 DEF TypeOK
  <1>6. ASSUME NEW b \in Calls, NEW f \in Ids
        PROVE  locked'[f] = b <=> calls'[b] = [pc |-> "update", id |-> f]
    <2>1. locked[f] = b <=> calls[b] = [pc |-> "update", id |-> f]
      BY <1>2 DEF TypeOK
    <2>2. locked'[f] = IF f = d THEN c ELSE locked[f]
      BY <1>1, <1>2 DEF TypeOK
    <2>3. CASE b = c
      <3>1. locked[f] # c
        BY <1>1, <2>1, <2>3
      <3>2. calls'[b] = [pc |-> "update", id |-> f] <=> f = d
        BY <1>3, <2>3
      <3> QED BY <2>2, <2>3, <3>1, <3>2
    <2>4. CASE b # c
      <3>1. calls'[b] = calls[b]
        BY <1>3, <2>4 DEF Moved
      <3>2. f = d => locked[f] # b
        BY <1>1, WebhookReplayAssumption
      <3> QED BY <2>1, <2>2, <2>4, <3>1, <3>2
    <2> QED BY <2>3, <2>4
  <1> HIDE DEF d
  <1> QED BY <1>1, <1>3, <1>4, <1>5, <1>6, StepCall

\* A call that returns without a change of its row.
LEMMA StepReturn ==
    ASSUME DlqInv, NEW c \in Calls, TxGetTerminal(c) \/ Abort(c)
    PROVE  DlqInv'
  <1>1. TypeOK /\ Idle.pc = "idle" /\ stream \subseteq Entry
    BY DEF DlqInv, Idle, TypeOK
  <1>2. calls[c].pc # "idle" /\ Return(c) /\ UNCHANGED <<dlq, stream, evidence>>
    BY <1>1, Shapes DEF TxGetTerminal, Abort
  <1>3. Moved(c) /\ calls'[c] = Idle /\ calls'[c].pc = "idle"
    BY <1>1, <1>2, MovesAre
  <1>4. /\ locked' \in [Ids -> Calls \union {NoCall}]
        /\ \A b \in Calls, f \in Ids : locked'[f] = b <=> calls'[b] = [pc |-> "update", id |-> f]
    <2>1. CASE TxGetTerminal(c)
      BY <1>1, <1>3, <2>1, LocksStay DEF TxGetTerminal
    <2>2. CASE Abort(c)
      BY <1>1, <1>2, <2>2, Unlocks DEF Abort
    <2> QED BY <2>1, <2>2
  <1> QED BY <1>1, <1>2, <1>3, <1>4, StepCall

\* MarkReplayed: the payload is in the stream, and nobody has the row locked.
LEMMA StepMarkReplayed ==
    ASSUME DlqInv, NEW c \in Calls, MarkReplayed(c)
    PROVE  DlqInv'
  <1> DEFINE d == calls[c].id
             row == Replayed(dlq[d])
  <1>1. /\ calls[c].pc = "mark" /\ calls[c].pc # "idle" /\ locked[d] = NoCall
        /\ dlq' = [dlq EXCEPT ![d] = row] /\ Return(c) /\ UNCHANGED <<locked, stream, evidence>>
    BY DEF MarkReplayed
  <1>2. d \in Ids /\ calls[c] # Idle /\ TypeOK /\ Idle.pc = "idle"
    BY <1>1, Shapes DEF DlqInv, Idle
  <1>3. dlq[d] \in Row
    BY <1>2, Shapes DEF DlqInv, CallsPresent
  <1>4. row \in Row /\ row # Absent /\ RowOK(row)
    BY <1>3, ReplayedRow
  <1>5. \E entry \in stream : entry.payload = d
    BY <1>1 DEF DlqInv, MarksPublished
  <1>6. Moved(c) /\ calls'[c] = Idle
    BY <1>1, <1>2, MovesAre
  <1>7. /\ locked' \in [Ids -> Calls \union {NoCall}]
        /\ \A b \in Calls, f \in Ids : locked'[f] = b <=> calls'[b] = [pc |-> "update", id |-> f]
    BY <1>1, <1>2, <1>6, LocksStay
  <1>8. \A b \in Calls \ {c} : locked[d] # b
    BY <1>1, WebhookReplayAssumption
  <1> HIDE DEF row
  <1> QED BY <1>1, <1>4, <1>5, <1>6, <1>7, <1>8, StepRow

\* MarkRetryFailed's update: the call has its pending row locked.
LEMMA StepUpdate ==
    ASSUME DlqInv, NEW c \in Calls, Update(c)
    PROVE  DlqInv'
  <1> DEFINE d == calls[c].id
             row == Failed(dlq[d])
  <1>1. /\ calls[c].pc = "update" /\ calls[c].pc # "idle"
        /\ dlq' = [dlq EXCEPT ![d] = row] /\ Unlock(c) /\ Return(c)
        /\ UNCHANGED <<stream, evidence>>
    BY DEF Update
  <1>2. d \in Ids /\ calls[c] = [pc |-> "update", id |-> d] /\ TypeOK
    BY <1>1, Shapes DEF DlqInv
  <1>3. dlq[d].status = "pending" /\ dlq[d] \in Row /\ RowOK(dlq[d])
    BY <1>1, <1>2, Shapes, RowsOK DEF DlqInv, UpdatesPending, Status
  <1>4. row \in Row /\ row # Absent /\ RowOK(row) /\ row.status # "replayed"
    BY <1>3, FailedRow
  <1>5. locked[d] = c
    BY <1>2 DEF TypeOK
  <1>6. Moved(c) /\ calls'[c] = Idle
    BY <1>1, <1>2, MovesAre
  <1>7. /\ locked' \in [Ids -> Calls \union {NoCall}]
        /\ \A b \in Calls, f \in Ids : locked'[f] = b <=> calls'[b] = [pc |-> "update", id |-> f]
    BY <1>1, <1>2, Unlocks
  <1> HIDE DEF row
  <1> QED BY <1>1, <1>4, <1>5, <1>6, <1>7, StepRow

\* Nothing but the sealed entries changes: the invariant hardly looks at them.
LEMMA StepFrame ==
    ASSUME DlqInv, UNCHANGED <<dlq, locked, calls, stream>>, evidence' \subseteq stream
    PROVE  DlqInv'
  <1>1. TypeOK'
    BY DEF DlqInv, TypeOK
  <1>2. StatusConsistent'
    <2>1. \A d \in Ids : RowOK(dlq'[d])
      BY RowsOK DEF DlqInv
    <2> QED BY <2>1 DEF StatusConsistent, RowOK
  <1>3. ReplayedPublished'
    BY DEF DlqInv, ReplayedPublished
  <1>4. CallsPresent' /\ MarksPublished' /\ UpdatesPending'
    BY DEF DlqInv, CallsPresent, MarksPublished, UpdatesPending
  <1> QED BY <1>1, <1>2, <1>3, <1>4 DEF DlqInv

\* Sub 1 seals an entry of the stream.
LEMMA StepSeal ==
    ASSUME DlqInv, NEW entry \in Entry, Seal(entry)
    PROVE  DlqInv'
  <1>1. UNCHANGED <<dlq, locked, calls, stream>> /\ evidence' \subseteq stream
    BY DEF Seal, DlqInv, TypeOK
  <1> QED BY <1>1, StepFrame

\* Every step keeps the invariant.
LEMMA DlqStep == DlqInv /\ [Next]_vars => DlqInv'
  <1> SUFFICES ASSUME DlqInv, [Next]_vars PROVE DlqInv'
    OBVIOUS
  <1>1. CASE \E d \in Ids : Enqueue(d)
    BY <1>1, StepEnqueue
  <1>2. CASE \E c \in Calls, d \in Ids : Get(c, d)
    BY <1>2, StepGet
  <1>3. CASE \E c \in Calls : Publish(c) \/ PublishFails(c)
    BY <1>3, StepPublish
  <1>4. CASE \E c \in Calls : MarkReplayed(c)
    BY <1>4, StepMarkReplayed
  <1>5. CASE \E c \in Calls : TxGet(c)
    BY <1>5, StepTxGet
  <1>6. CASE \E c \in Calls : TxGetTerminal(c) \/ Abort(c)
    BY <1>6, StepReturn
  <1>7. CASE \E c \in Calls : Update(c)
    BY <1>7, StepUpdate
  <1>8. CASE \E entry \in Entry : Seal(entry)
    BY <1>8, StepSeal
  <1>9. CASE UNCHANGED vars
    BY <1>9, StepFrame DEF vars, DlqInv, TypeOK
  <1>10. CASE \E c \in Calls, d \in Ids : Refuse(c, d)
    BY <1>9, <1>10 DEF Refuse
  <1> QED BY <1>1, <1>2, <1>3, <1>4, <1>5, <1>6, <1>7, <1>8, <1>9, <1>10 DEF Next, Step

(***************************************************************************)
(* DlqInv holds in every state: whatever fails, and however many calls     *)
(* replay a row at the same time, the queue's rows, locks and calls agree. *)
(***************************************************************************)
THEOREM DlqInvariant == Spec => []DlqInv
  BY DlqInit, DlqStep, PTL DEF Spec

(***************************************************************************)
(* A pending row has the retry of its schedule ahead, and a row without    *)
(* one is replayed, or abandoned after exactly MaxAutoRetries failures     *)
(* (MarkRetryFailed).                                                      *)
(***************************************************************************)
THEOREM StatusesConsistent == Spec => []StatusConsistent
  <1>1. DlqInv => StatusConsistent
    BY DEF DlqInv
  <1> QED BY <1>1, DlqInvariant, PTL

(***************************************************************************)
(* A row is marked replayed only if its payload is in the stream,          *)
(* whichever of the concurrent calls of replay marks it.                   *)
(***************************************************************************)
THEOREM ReplayedArePublished == Spec => []ReplayedPublished
  <1>1. DlqInv => ReplayedPublished
    BY DEF DlqInv
  <1> QED BY <1>1, DlqInvariant, PTL

\* One step never takes a row out of its terminal status.
LEMMA TerminalStep ==
    ASSUME DlqInv, [Next]_vars, NEW d \in Ids
    PROVE  /\ dlq[d].status = "replayed" => dlq'[d] = dlq[d]
           /\ dlq[d].status = "abandoned" => dlq'[d].status # "pending"
  <1>1. CASE \E f \in Ids : Enqueue(f)
    <2>1. PICK f \in Ids : Enqueue(f)
      BY <1>1
    <2>2. dlq[f].status = "absent"
      BY <2>1 DEF Enqueue, Absent
    <2>3. d # f => dlq'[d] = dlq[d]
      BY <2>1 DEF Enqueue, DlqInv, TypeOK
    <2> QED BY <2>2, <2>3
  <1>2. CASE \E c \in Calls : MarkReplayed(c)
    <2>1. PICK c \in Calls : MarkReplayed(c)
      BY <1>2
    <2>2. CASE d = calls[c].id
      <3>1. dlq'[d] = Replayed(dlq[d])
        BY <2>1, <2>2 DEF MarkReplayed, DlqInv, TypeOK
      <3>2. dlq'[d].status = "replayed"
        BY <3>1 DEF Replayed
      <3>3. ASSUME dlq[d].status = "replayed" PROVE Replayed(dlq[d]) = dlq[d]
        <4>1. dlq[d] \in Row /\ RowOK(dlq[d])
          BY <3>3, Shapes, RowsOK DEF DlqInv, Status
        <4>2. dlq[d] # Absent
          BY <3>3 DEF Absent
        <4>3. dlq[d].next_retry = 0 /\ dlq[d].outcome = "success"
          BY <3>3, <4>1, <4>2 DEF RowOK
        <4> QED BY <3>3, <4>1, <4>3 DEF Replayed, Row
      <3> QED BY <3>1, <3>2, <3>3
    <2>3. CASE d # calls[c].id
      BY <2>1, <2>3 DEF MarkReplayed, DlqInv, TypeOK
    <2> QED BY <2>2, <2>3
  <1>3. CASE \E c \in Calls : Update(c)
    <2>1. PICK c \in Calls : Update(c)
      BY <1>3
    <2>2. calls[c].pc = "update" /\ dlq[calls[c].id].status = "pending"
      BY <2>1 DEF Update, DlqInv, UpdatesPending
    <2>3. d # calls[c].id => dlq'[d] = dlq[d]
      BY <2>1 DEF Update, DlqInv, TypeOK
    <2> QED BY <2>2, <2>3
  <1>4. CASE UNCHANGED dlq
    BY <1>4
  <1> QED BY <1>1, <1>2, <1>3, <1>4
          DEF Next, Step, Get, Refuse, Publish, PublishFails, TxGet, TxGetTerminal, Abort, Seal,
              vars

(***************************************************************************)
(* No call takes a replayed row back or makes an abandoned one pending     *)
(* again, although calls record their outcomes in any order (txGet,        *)
(* MarkReplayed, MarkRetryFailed).                                         *)
(***************************************************************************)
THEOREM TerminalRowsStay == Spec => TerminalStays
  <1>1. DlqInv /\ [Next]_vars =>
          [\A d \in Ids : /\ dlq[d].status = "replayed" => dlq'[d] = dlq[d]
                          /\ dlq[d].status = "abandoned" => dlq'[d].status # "pending"]_vars
    BY TerminalStep
  <1> QED BY <1>1, DlqInvariant, PTL DEF Spec, TerminalStays

\* The components extend FiniteSets on their own.
LEMMA EdgeCardinality ==
    \A S : /\ LN!Cardinality(S) = Cardinality(S) /\ PO!Cardinality(S) = Cardinality(S)
           /\ RE!Cardinality(S) = Cardinality(S) /\ BU!Cardinality(S) = Cardinality(S)
           /\ AC!Cardinality(S) = Cardinality(S) /\ AK!Cardinality(S) = Cardinality(S)
  BY DEF LN!Cardinality, PO!Cardinality, RE!Cardinality, BU!Cardinality, AC!Cardinality,
         AK!Cardinality, Cardinality

-----------------------------------------------------------------------------
(***************************************************************************)
(* LnurlAuth, for any challenges, wallets and replicas. In Edge x1 is    *)
(* challenges, x2 linkedKeys, x3 pendingTokens, x4 callbacks, x5 browser,  *)
(* x6 polls and x7 issued.                                                 *)
(*                                                                         *)
(* A challenge that was used was marked by one callback, the one wallet    *)
(* that later steps of that callback go on with, and a pair of tokens is   *)
(* at one place only: to be issued, waiting in one replica, or given to    *)
(* the browser.                                                            *)
(***************************************************************************)
LEMMA LnurlConstants ==
    {"waiting", "missed", "gone", "none"} \intersect Wallets = {} /\ MaxPolls \in Nat
  BY EdgeAssumption

\* The words for "no wallet" are no wallets.
LEMMA LoginWords == \A x \in {"waiting", "missed", "gone", LN!None} : x \notin Wallets
  BY LnurlConstants DEF LN!None

\* Before any challenge is issued there is nothing to be wrong.
LEMMA LoginInit == LN!Init => LN!LoginInv
  <1> SUFFICES ASSUME LN!Init PROVE LN!LoginInv
    OBVIOUS
  <1>1. LN!TypeOK
    BY LnurlConstants DEF LN!Init, LN!TypeOK, LN!Challenge, LN!NoCall, LN!None
  <1>2. LN!MarkedForOne
    BY DEF LN!Init, LN!MarkedForOne, LN!NoCall
  <1>3. LN!IssuedToOne
    BY DEF LN!Init, LN!IssuedToOne
  <1>4. LN!TokenInOnePlace
    BY LoginWords DEF LN!Init, LN!TokenInOnePlace
  <1> QED BY <1>1, <1>2, <1>3, <1>4 DEF LN!LoginInv

\* A challenge that is used stays as it is.
LEMMA RowsChange ==
    ASSUME LN!LoginInv, x1' \in [Challenges -> LN!Challenge],
           \A k \in Challenges : x1[k].status = "used" =>
              x1'[k].status = "used" /\ x1'[k].linked_id = x1[k].linked_id,
           UNCHANGED <<x2, x3, x4, x5, x6, x7>>
    PROVE  LN!LoginInv'
  <1>1. LN!TypeOK'
    BY DEF LN!LoginInv, LN!TypeOK
  <1>2. LN!MarkedForOne'
    BY DEF LN!LoginInv, LN!MarkedForOne
  <1>3. LN!IssuedToOne'
    BY DEF LN!LoginInv, LN!IssuedToOne
  <1>4. LN!TokenInOnePlace'
    BY DEF LN!LoginInv, LN!TokenInOnePlace
  <1> QED BY <1>1, <1>2, <1>3, <1>4 DEF LN!LoginInv

\* Callbacks that end, or have yet to mark, hold nothing.
LEMMA CallbackChanges ==
    ASSUME LN!LoginInv, NEW w \in Wallets, NEW c,
           c = LN!NoCall \/ \E k \in Challenges, p \in Replicas : c = <<"mark", k, p>>,
           x4' = [x4 EXCEPT ![w] = c],
           UNCHANGED <<x1, x2, x3, x5, x6, x7>>
    PROVE  LN!LoginInv'
  <1>1. LN!TypeOK'
    BY DEF LN!LoginInv, LN!TypeOK
  <1>2. \A v \in Wallets, k \in Challenges, p \in Replicas :
            x4'[v] \in {<<"upsert", k, p>>, <<"issue", k, p>>} => x4'[v] = x4[v]
    BY DEF LN!LoginInv, LN!TypeOK, LN!NoCall
  <1>3. LN!MarkedForOne'
    BY <1>2 DEF LN!LoginInv, LN!MarkedForOne
  <1>4. LN!IssuedToOne'
    BY DEF LN!LoginInv, LN!IssuedToOne
  <1>5. LN!TokenInOnePlace'
    BY DEF LN!LoginInv, LN!TokenInOnePlace
  <1> QED BY <1>1, <1>3, <1>4, <1>5 DEF LN!LoginInv

\* MarkUsed: of two callbacks for a challenge one marks it, for its wallet.
LEMMA MarkKeeps ==
    ASSUME LN!LoginInv, NEW w \in Wallets, NEW k \in Challenges, NEW p \in Replicas,
           LN!MarkUsed(w, k, p)
    PROVE  LN!LoginInv'
  <1>1. CASE ~LN!Markable(x1[k])
    BY <1>1, CallbackChanges DEF LN!MarkUsed
  <1>2. CASE LN!Markable(x1[k])
    <2>1. /\ x4[w] = <<"mark", k, p>>
          /\ x1' = [x1 EXCEPT ![k].status = "used", ![k].linked_id = w]
          /\ x4' = [x4 EXCEPT ![w] = <<"upsert", k, p>>]
          /\ UNCHANGED <<x2, x3, x5, x6, x7>>
      BY <1>2 DEF LN!MarkUsed
    <2>3. x1[k].status = "pending" /\ x1[k] \in LN!Challenge
      BY <1>2 DEF LN!Markable, LN!LoginInv, LN!TypeOK
    <2>4. /\ x1' \in [Challenges -> LN!Challenge]
          /\ x1'[k].status = "used" /\ x1'[k].linked_id = w
          /\ \A j \in Challenges \ {k} : x1'[j] = x1[j]
      BY <2>1, <2>3 DEF LN!LoginInv, LN!TypeOK, LN!Challenge
    <2>5. LN!TypeOK'
      BY <2>1, <2>4 DEF LN!LoginInv, LN!TypeOK
    <2>6. \A j \in Challenges : x1[j].status = "used" => j # k
      BY <2>3
    <2>7. \A v \in Wallets : <<k, v>> \notin x7
      BY <2>6 DEF LN!LoginInv, LN!IssuedToOne
    <2>8. ASSUME NEW v \in Wallets, NEW j \in Challenges, NEW q \in Replicas,
                 x4'[v] \in {<<"upsert", j, q>>, <<"issue", j, q>>}
          PROVE  /\ x1'[j].status = "used" /\ x1'[j].linked_id = v
                 /\ \A u \in Wallets : <<j, u>> \notin x7'
                 /\ x4'[v][1] = "issue" => v \in x2'
      <3>1. CASE v = w
        <4>1. x4'[v] = <<"upsert", k, p>>
          BY <2>1, <3>1 DEF LN!LoginInv, LN!TypeOK
        <4>2. j = k /\ x4'[v][1] = "upsert"
          BY <4>1, <2>8
        <4> QED BY <4>2, <3>1, <2>4, <2>7, <2>1
      <3>2. CASE v # w
        <4>1. x4'[v] = x4[v]
          BY <2>1, <3>2 DEF LN!LoginInv, LN!TypeOK
        <4>2. /\ x1[j].status = "used" /\ x1[j].linked_id = v
              /\ \A u \in Wallets : <<j, u>> \notin x7
              /\ x4[v][1] = "issue" => v \in x2
          BY <4>1, <2>8 DEF LN!LoginInv, LN!MarkedForOne
        <4> QED BY <4>1, <4>2, <2>1, <2>4, <2>6
      <3> QED BY <3>1, <3>2
    <2>9. LN!MarkedForOne'
      BY <2>8 DEF LN!MarkedForOne
    <2>10. LN!IssuedToOne'
      BY <2>1, <2>4, <2>6 DEF LN!LoginInv, LN!IssuedToOne
    <2>11. LN!TokenInOnePlace'
      BY <2>1 DEF LN!LoginInv, LN!TokenInOnePlace
    <2> QED BY <2>5, <2>9, <2>10, <2>11 DEF LN!LoginInv
  <1> QED BY <1>1, <1>2

\* UpsertLinkedKey: the wallet that marked the challenge is linked.
LEMMA UpsertKeeps ==
    ASSUME LN!LoginInv, NEW w \in Wallets, NEW k \in Challenges, NEW p \in Replicas,
           LN!UpsertLinkedKey(w, k, p)
    PROVE  LN!LoginInv'
  <1>1. x4' = [x4 EXCEPT ![w] = <<"issue", k, p>>]
    BY DEF LN!UpsertLinkedKey
  <1>2. LN!TypeOK'
    BY <1>1 DEF LN!UpsertLinkedKey, LN!LoginInv, LN!TypeOK
  <1>3. ASSUME NEW v \in Wallets, NEW j \in Challenges, NEW q \in Replicas,
               x4'[v] \in {<<"upsert", j, q>>, <<"issue", j, q>>}
        PROVE  /\ x1'[j].status = "used" /\ x1'[j].linked_id = v
               /\ \A u \in Wallets : <<j, u>> \notin x7'
               /\ x4'[v][1] = "issue" => v \in x2'
    <2>1. CASE v = w
      <3>1. j = k /\ x4[w] = <<"upsert", k, p>>
        BY <1>1, <1>3, <2>1 DEF LN!UpsertLinkedKey, LN!LoginInv, LN!TypeOK
      <3>2. /\ x1[k].status = "used" /\ x1[k].linked_id = w
            /\ \A u \in Wallets : <<k, u>> \notin x7
        BY <3>1 DEF LN!LoginInv, LN!MarkedForOne
      <3> QED BY <3>1, <3>2, <2>1 DEF LN!UpsertLinkedKey
    <2>2. CASE v # w
      <3>1. x4'[v] = x4[v]
        BY <1>1, <2>2 DEF LN!LoginInv, LN!TypeOK
      <3> QED BY <3>1, <1>3 DEF LN!LoginInv, LN!MarkedForOne, LN!UpsertLinkedKey
    <2> QED BY <2>1, <2>2
  <1>4. LN!MarkedForOne'
    BY <1>3 DEF LN!MarkedForOne
  <1>5. LN!IssuedToOne'
    BY DEF LN!UpsertLinkedKey, LN!LoginInv, LN!IssuedToOne
  <1>6. LN!TokenInOnePlace'
    BY DEF LN!UpsertLinkedKey, LN!LoginInv, LN!TokenInOnePlace
  <1> QED BY <1>2, <1>4, <1>5, <1>6 DEF LN!LoginInv

\* IssueJWT: the one token of a challenge is issued, to one replica or to none.
LEMMA IssueKeeps ==
    ASSUME LN!LoginInv, NEW w \in Wallets, NEW k \in Challenges, NEW p \in Replicas,
           LN!IssueJWT(w, k, p)
    PROVE  LN!LoginInv'
  <1>1. /\ x4[w] = <<"issue", k, p>>
        /\ x3' = [x3 EXCEPT ![p][k] = w]
        /\ x7' = x7 \union {<<k, w>>}
        /\ x4' = [x4 EXCEPT ![w] = LN!NoCall]
        /\ UNCHANGED <<x1, x2, x5, x6>>
    BY DEF LN!IssueJWT
  <1>2. LN!TypeOK'
    BY <1>1 DEF LN!LoginInv, LN!TypeOK
  <1>3. /\ x1[k].status = "used" /\ x1[k].linked_id = w
        /\ \A u \in Wallets : <<k, u>> \notin x7
        /\ w \in x2
    <2>1. x4[w][1] = "issue"
      BY <1>1
    <2> QED BY <1>1, <2>1 DEF LN!LoginInv, LN!MarkedForOne
  <1>4. ASSUME NEW v \in Wallets, NEW j \in Challenges, NEW q \in Replicas,
               x4'[v] \in {<<"upsert", j, q>>, <<"issue", j, q>>}
        PROVE  /\ x1'[j].status = "used" /\ x1'[j].linked_id = v
               /\ \A u \in Wallets : <<j, u>> \notin x7'
               /\ x4'[v][1] = "issue" => v \in x2'
    <2>1. v # w
      BY <1>1, <1>4 DEF LN!NoCall, LN!LoginInv, LN!TypeOK
    <2>2. x4'[v] = x4[v]
      BY <1>1, <2>1 DEF LN!LoginInv, LN!TypeOK
    <2>3. /\ x1[j].status = "used" /\ x1[j].linked_id = v
          /\ \A u \in Wallets : <<j, u>> \notin x7
          /\ x4[v][1] = "issue" => v \in x2
      BY <2>2, <1>4 DEF LN!LoginInv, LN!MarkedForOne
    <2>4. j # k
      BY <2>3, <1>3, <2>1
    <2> QED BY <2>2, <2>3, <2>4, <1>1
  <1>5. LN!MarkedForOne'
    BY <1>4 DEF LN!MarkedForOne
  <1>6. LN!IssuedToOne'
    BY <1>1, <1>3 DEF LN!LoginInv, LN!IssuedToOne
  <1>7. \A j \in Challenges, q \in Replicas :
            x3'[q][j] = IF j = k /\ q = p THEN w ELSE x3[q][j]
    BY <1>1 DEF LN!LoginInv, LN!TypeOK
  <1>8. x5[k] \notin Wallets /\ \A q \in Replicas : x3[q][k] = LN!None
    <2>1. x5[k] \notin Wallets
      BY <1>3 DEF LN!LoginInv, LN!TokenInOnePlace
    <2>2. \A q \in Replicas : x3[q][k] \in Wallets \union {LN!None}
      BY DEF LN!LoginInv, LN!TypeOK
    <2> QED BY <1>3, <2>1, <2>2 DEF LN!LoginInv, LN!TokenInOnePlace
  <1>9. ASSUME NEW j \in Challenges
        PROVE  /\ x5'[j] \in Wallets => <<j, x5'[j]>> \in x7'
               /\ \A q \in Replicas : x3'[q][j] # LN!None =>
                     /\ <<j, x3'[q][j]>> \in x7'
                     /\ x5'[j] \notin Wallets
                     /\ \A r \in Replicas : x3'[r][j] # LN!None => r = q
    <2>1. CASE j = k
      BY <2>1, <1>1, <1>7, <1>8
    <2>2. CASE j # k
      BY <2>2, <1>1, <1>7 DEF LN!LoginInv, LN!TokenInOnePlace
    <2> QED BY <2>1, <2>2
  <1>10. LN!TokenInOnePlace'
    BY <1>9 DEF LN!TokenInOnePlace
  <1> QED BY <1>2, <1>5, <1>6, <1>10 DEF LN!LoginInv

\* The browser learns something, and tokens may go from where they wait.
LEMMA TokensMove ==
    ASSUME LN!LoginInv,
           x6' \in [Challenges -> 0..MaxPolls],
           x5' \in [Challenges -> {"waiting", "missed", "gone"} \union Wallets],
           x3' \in [Replicas -> [Challenges -> Wallets \union {LN!None}]],
           \A k \in Challenges, p \in Replicas :
              x3'[p][k] = x3[p][k] \/ x3'[p][k] = LN!None,
           \A k \in Challenges : x5'[k] \in Wallets =>
              \/ x5'[k] = x5[k]
              \/ \E p \in Replicas :
                    /\ x5'[k] = x3[p][k]
                    /\ x3'[p][k] = LN!None,
           UNCHANGED <<x1, x2, x4, x7>>
    PROVE  LN!LoginInv'
  <1>1. LN!TypeOK'
    BY DEF LN!LoginInv, LN!TypeOK
  <1>2. LN!MarkedForOne'
    BY DEF LN!LoginInv, LN!MarkedForOne
  <1>3. LN!IssuedToOne'
    BY DEF LN!LoginInv, LN!IssuedToOne
  <1>4. ASSUME NEW k \in Challenges
        PROVE  /\ x5'[k] \in Wallets => <<k, x5'[k]>> \in x7'
               /\ \A p \in Replicas : x3'[p][k] # LN!None =>
                     /\ <<k, x3'[p][k]>> \in x7'
                     /\ x5'[k] \notin Wallets
                     /\ \A q \in Replicas : x3'[q][k] # LN!None => q = p
    <2>1. /\ x5[k] \in Wallets => <<k, x5[k]>> \in x7
          /\ \A p \in Replicas : x3[p][k] # LN!None =>
                /\ <<k, x3[p][k]>> \in x7
                /\ x5[k] \notin Wallets
                /\ \A q \in Replicas : x3[q][k] # LN!None => q = p
      BY DEF LN!LoginInv, LN!TokenInOnePlace
    <2>2. x5'[k] \in Wallets => <<k, x5'[k]>> \in x7'
      BY <2>1, LoginWords
    <2>3. ASSUME NEW p \in Replicas, x3'[p][k] # LN!None
          PROVE  /\ <<k, x3'[p][k]>> \in x7'
                 /\ x5'[k] \notin Wallets
                 /\ \A q \in Replicas : x3'[q][k] # LN!None => q = p
      <3>1. x3'[p][k] = x3[p][k]
        BY <2>3
      <3>2. \A q \in Replicas : x3'[q][k] # LN!None => q = p
        BY <2>1, <2>3, <3>1
      <3>3. x5'[k] \notin Wallets
        BY <2>1, <2>3, <3>1, LoginWords
      <3> QED BY <2>1, <2>3, <3>1, <3>2, <3>3
    <2> QED BY <2>2, <2>3
  <1>5. LN!TokenInOnePlace'
    BY <1>4 DEF LN!TokenInOnePlace
  <1> QED BY <1>1, <1>2, <1>3, <1>5 DEF LN!LoginInv

\* pollSession: the browser takes the token from the replica that holds it.
LEMMA PollKeeps ==
    ASSUME LN!LoginInv, NEW k \in Challenges, NEW p \in Replicas, LN!pollSession(k, p)
    PROVE  LN!LoginInv'
  <1>1. /\ x5[k] = "waiting" /\ x6[k] < MaxPolls
        /\ x6' = [x6 EXCEPT ![k] = @ + 1]
        /\ UNCHANGED <<x1, x2, x4, x7>>
    BY DEF LN!pollSession
  <1>2. x6' \in [Challenges -> 0..MaxPolls]
    BY <1>1, LnurlConstants DEF LN!LoginInv, LN!TypeOK
  <1>3. CASE x3[p][k] # LN!None
    <2>1. /\ x3' = [x3 EXCEPT ![p][k] = LN!None]
          /\ x5' \in {[x5 EXCEPT ![k] = x3[p][k]], x5}
      BY <1>3 DEF LN!pollSession, LN!TakeToken
    <2>2. /\ x3' \in [Replicas -> [Challenges -> Wallets \union {LN!None}]]
          /\ \A j \in Challenges, q \in Replicas :
                x3'[q][j] = IF j = k /\ q = p THEN LN!None ELSE x3[q][j]
      BY <2>1 DEF LN!LoginInv, LN!TypeOK
    <2>3. x3[p][k] \in Wallets
      BY <1>3 DEF LN!LoginInv, LN!TypeOK
    <2>4. /\ x5' \in [Challenges -> {"waiting", "missed", "gone"} \union Wallets]
          /\ \A j \in Challenges :
                x5'[j] = x5[j] \/ (j = k /\ x5'[j] = x3[p][k])
      BY <2>1, <2>3 DEF LN!LoginInv, LN!TypeOK
    <2> QED BY <1>1, <1>2, <2>2, <2>4, TokensMove
  <1>4. CASE x3[p][k] = LN!None
    <2>1. x5' = [x5 EXCEPT ![k] = "missed"] /\ UNCHANGED x3
      BY <1>4 DEF LN!pollSession
    <2>2. /\ x5' \in [Challenges -> {"waiting", "missed", "gone"} \union Wallets]
          /\ \A j \in Challenges : x5'[j] = x5[j] \/ x5'[j] = "missed"
          /\ x3' \in [Replicas -> [Challenges -> Wallets \union {LN!None}]]
      BY <2>1 DEF LN!LoginInv, LN!TypeOK
    <2> QED BY <1>1, <1>2, <2>1, <2>2, LoginWords, TokensMove
  <1> QED BY <1>3, <1>4

\* Every action of Lnurl keeps the invariant.
LEMMA LoginStep == LN!LoginInv /\ [LN!Next]_(LN!vars) => LN!LoginInv'
  <1> SUFFICES ASSUME LN!LoginInv, [LN!Next]_(LN!vars) PROVE LN!LoginInv'
    OBVIOUS
  <1>1. ASSUME NEW k \in Challenges, LN!getLNURL(k) PROVE LN!LoginInv'
    <2>1. /\ x1' \in [Challenges -> LN!Challenge]
          /\ \A j \in Challenges : x1[j].status = "used" => x1'[j] = x1[j]
      BY <1>1 DEF LN!getLNURL, LN!LoginInv, LN!TypeOK, LN!Challenge
    <2> QED BY <1>1, <2>1, RowsChange DEF LN!getLNURL
  <1>2. ASSUME NEW k \in Challenges, LN!Expires(k) PROVE LN!LoginInv'
    <2>1. /\ x1' \in [Challenges -> LN!Challenge]
          /\ \A j \in Challenges : /\ x1'[j].status = x1[j].status
                                   /\ x1'[j].linked_id = x1[j].linked_id
      BY <1>2 DEF LN!Expires, LN!LoginInv, LN!TypeOK, LN!Challenge
    <2> QED BY <1>2, <2>1, RowsChange DEF LN!Expires
  <1>3. ASSUME NEW k \in Challenges, LN!pollChallenge(k) PROVE LN!LoginInv'
    <2>1. /\ x5' \in [Challenges -> {"waiting", "missed", "gone"} \union Wallets]
          /\ \A j \in Challenges : x5'[j] = x5[j] \/ x5'[j] \in {"gone", "waiting"}
          /\ x3 \in [Replicas -> [Challenges -> Wallets \union {LN!None}]]
          /\ x6 \in [Challenges -> 0..MaxPolls]
      BY <1>3 DEF LN!pollChallenge, LN!LoginInv, LN!TypeOK
    <2> QED BY <1>3, <2>1, LoginWords, TokensMove DEF LN!pollChallenge
  <1>4. ASSUME NEW k \in Challenges, NEW w \in Wallets, NEW p \in Replicas, LN!challenge(w, k, p)
        PROVE  LN!LoginInv'
    BY <1>4, CallbackChanges DEF LN!challenge
  <1>5. ASSUME NEW w \in Wallets, LN!CallbackFails(w) PROVE LN!LoginInv'
    BY <1>5, CallbackChanges DEF LN!CallbackFails
  <1>6. ASSUME NEW p \in Replicas, LN!Restart(p) PROVE LN!LoginInv'
    <2>1. /\ x5 \in [Challenges -> {"waiting", "missed", "gone"} \union Wallets]
          /\ x3' \in [Replicas -> [Challenges -> Wallets \union {LN!None}]]
          /\ \A k \in Challenges, q \in Replicas :
                x3'[q][k] = x3[q][k] \/ x3'[q][k] = LN!None
          /\ x6 \in [Challenges -> 0..MaxPolls]
      BY <1>6 DEF LN!Restart, LN!LoginInv, LN!TypeOK
    <2> QED BY <1>6, <2>1, TokensMove DEF LN!Restart
  <1>7. CASE UNCHANGED LN!vars
    <2>1. x1 \in [Challenges -> LN!Challenge]
      BY DEF LN!LoginInv, LN!TypeOK
    <2> QED BY <1>7, <2>1, RowsChange DEF LN!vars
  <1> QED BY <1>1, <1>2, <1>3, <1>4, <1>5, <1>6, <1>7, MarkKeeps, UpsertKeeps, IssueKeeps, PollKeeps
             DEF LN!Next

\* A challenge has at most one token, and where it is its wallet is the row's.
LEMMA LoginOnce == LN!LoginInv => LN!OneLoginPerChallenge
  <1> SUFFICES ASSUME LN!LoginInv, NEW k \in Challenges
               PROVE  /\ Cardinality({i \in x7 : i[1] = k}) <= 1
                      /\ \A w \in Wallets :
                            x5[k] = w \/ (\E p \in Replicas : x3[p][k] = w) =>
                                /\ <<k, w>> \in x7 /\ w \in x2
                                /\ x1[k].status = "used" /\ x1[k].linked_id = w
                      /\ x5[k] \in Wallets =>
                            \A p \in Replicas : x3[p][k] = LN!None
    BY EdgeCardinality DEF LN!OneLoginPerChallenge
  <1>1. Cardinality({i \in x7 : i[1] = k}) <= 1
    <2> DEFINE I == {i \in x7 : i[1] = k}
    <2>1. \A i \in I : i = <<k, x1[k].linked_id>>
      BY DEF LN!LoginInv, LN!TypeOK, LN!IssuedToOne
    <2>2. I = {} \/ I = {<<k, x1[k].linked_id>>}
      BY <2>1
    <2>3. Cardinality(I) \in {0, 1}
      BY <2>2, FS_EmptySet, FS_Singleton
    <2> QED BY <2>3
  <1>2. ASSUME NEW w \in Wallets, x5[k] = w \/ (\E p \in Replicas : x3[p][k] = w)
        PROVE  <<k, w>> \in x7
    BY <1>2, LoginWords DEF LN!LoginInv, LN!TokenInOnePlace
  <1>3. x5[k] \in Wallets => \A p \in Replicas : x3[p][k] = LN!None
    BY DEF LN!LoginInv, LN!TokenInOnePlace
  <1> QED BY <1>1, <1>2, <1>3 DEF LN!LoginInv, LN!IssuedToOne

-----------------------------------------------------------------------------
(***************************************************************************)
(* SquareAuth, for any number of requests, states and pairs. x1 is cookie, *)
(* x2 session, x3 codes, x4 live, x5 successor, x6 row, x7 request, x8     *)
(* issued and x9 faults.                                                   *)
(*                                                                         *)
(* A pair that a request carries was issued and no other request carries   *)
(* it; that is what makes a stored pair the one that Square accepts.       *)
(***************************************************************************)
LEMMA SquareConstants ==
    MaxPairs \in Nat /\ MaxFaults \in Nat
  BY EdgeAssumption

\* What a request of SquareAuth carries.
SquareRequest ==
    [at : {"idle", "exchange", "refresh", "store"}, state : States \union {SQ!None},
     token : SQ!Tokens]

\* At first no pair is stored, carried or accepted.
LEMMA PairInit == SQ!Init => SQ!PairInv
  <1> SUFFICES ASSUME SQ!Init PROVE SQ!PairInv
    OBVIOUS
  <1> USE SquareConstants
  <1>1. SQ!Idle \in SquareRequest /\ SQ!Idle.at = "idle" /\ SQ!Idle.token = 0
    BY DEF SquareRequest, SQ!Idle, SQ!Tokens
  <1>2. x7 \in [Requests -> SquareRequest]
    BY <1>1 DEF SQ!Init
  <1>3. x5 \in [1..MaxPairs -> SQ!Tokens] /\ x8 \in SQ!Tokens /\ x6 \in SQ!Tokens
    BY DEF SQ!Init, SQ!Tokens
  <1>4. SQ!TypeOK
    <2>1. x1 \in States \union {SQ!None} /\ x3 \in [States -> {"new", "given", "spent"}]
      BY DEF SQ!Init
    <2>2. x4 \subseteq SQ!Tokens \ {0} /\ x9 \in 0..MaxFaults
      BY DEF SQ!Init
    <2>3. x2 \in BOOLEAN
      BY DEF SQ!Init
    <2> QED BY <1>2, <1>3, <2>1, <2>2, <2>3 DEF SQ!TypeOK, SquareRequest
  <1>5. SQ!HeldWasIssued /\ SQ!HeldAlone /\ SQ!StoredPairUsable
    BY <1>1 DEF SQ!Init, SQ!HeldWasIssued, SQ!HeldAlone, SQ!StoredPairUsable
  <1> QED BY <1>4, <1>5 DEF SQ!PairInv

\* Request r gets a new place x, and nothing that is about to be stored is touched.
RequestMoved(r, x) ==
    /\ x7' = [x7 EXCEPT ![r] = x]
    /\ x1' \in States \union {SQ!None} /\ x2' \in BOOLEAN
    /\ x3' \in [States -> {"new", "given", "spent"}]
    /\ x5' \in [1..MaxPairs -> SQ!Tokens]
    /\ x8' \in SQ!Tokens /\ x8 <= x8' /\ x9' \in 0..MaxFaults
    /\ x4' \subseteq 1..x8' /\ x6' \in SQ!Tokens /\ x6' <= x8' /\ x.token <= x8'
    /\ \A q \in Requests \ {r} : x7[q].at = "store" =>
          x7[q].token \in x4' /\ x7[q].token # x6'
    /\ x.at = "store" => x.token \in x4' /\ x.token # x6'
    /\ \A q \in Requests \ {r} :
          /\ x.at = "store" /\ x7[q].at \in {"store", "refresh"} => x7[q].token # x.token
          /\ x.at = "refresh" /\ x7[q].at = "store" => x7[q].token # x.token

\* What is held stays apart then.
LEMMA HeldKept ==
    ASSUME SQ!PairInv, NEW r \in Requests, NEW x \in SquareRequest, RequestMoved(r, x)
    PROVE  SQ!TypeOK' /\ SQ!HeldWasIssued' /\ SQ!HeldAlone'
  <1> USE SquareConstants DEF RequestMoved
  <1>1. /\ x7 \in [Requests -> SquareRequest] /\ x8 \in SQ!Tokens
        /\ x7' \in [Requests -> SquareRequest]
        /\ x7'[r] = x /\ \A q \in Requests \ {r} : x7'[q] = x7[q]
    BY DEF SQ!PairInv, SQ!TypeOK, SquareRequest
  <1>2. SQ!TypeOK'
    BY <1>1 DEF SQ!TypeOK, SquareRequest, SQ!Tokens
  <1>3. \A q \in Requests : x7[q].token \in Nat /\ x7[q].token <= x8
    BY <1>1 DEF SQ!PairInv, SQ!HeldWasIssued, SquareRequest, SQ!Tokens
  <1>4. \A q \in Requests : x7'[q].token <= x8'
    BY <1>1, <1>3 DEF SQ!Tokens
  <1>5. SQ!HeldWasIssued'
    BY <1>4 DEF SQ!HeldWasIssued
  <1>6. ASSUME NEW p \in Requests, x7'[p].at = "store"
        PROVE  /\ x7'[p].token \in x4' /\ x7'[p].token # x6'
               /\ \A q \in Requests \ {p} :
                     x7'[q].at \in {"store", "refresh"} =>
                        x7'[q].token # x7'[p].token
    <2>1. CASE p = r
      BY <2>1, <1>1, <1>6
    <2>2. CASE p # r
      <3>1. /\ x7[p].at = "store" /\ x7'[p] = x7[p]
            /\ \A q \in Requests \ {p} :
                  x7[q].at \in {"store", "refresh"} => x7[q].token # x7[p].token
        BY <2>2, <1>1, <1>6 DEF SQ!PairInv, SQ!HeldAlone
      <3>2. x.at \in {"store", "refresh"} => x.token # x7[p].token
        BY <2>2, <3>1
      <3> QED BY <2>2, <1>1, <3>1, <3>2
    <2> QED BY <2>1, <2>2
  <1>7. SQ!HeldAlone'
    BY <1>6 DEF SQ!HeldAlone
  <1> QED BY <1>2, <1>5, <1>7

\* The types, and that a request that holds nothing threatens nothing.
LEMMA RequestTypes ==
    ASSUME SQ!PairInv
    PROVE  /\ x7 \in [Requests -> SquareRequest]
           /\ SQ!Idle \in SquareRequest /\ SQ!Idle.at = "idle" /\ SQ!Idle.token = 0
           /\ x1 \in States \union {SQ!None} /\ x2 \in BOOLEAN
           /\ x3 \in [States -> {"new", "given", "spent"}]
           /\ x5 \in [1..MaxPairs -> SQ!Tokens]
           /\ x8 \in SQ!Tokens /\ x6 \in SQ!Tokens /\ x9 \in 0..MaxFaults
           /\ x8 \in Nat /\ x8 <= MaxPairs /\ x6 \in Nat /\ x6 <= x8
           /\ x4 \subseteq 1..x8
           /\ \A q \in Requests : x7[q].token \in Nat /\ x7[q].token <= x8
           /\ \A q \in Requests : x7[q].at = "store" =>
                 x7[q].token \in x4 /\ x7[q].token # x6
  <1> USE SquareConstants
  <1>1. x7 \in [Requests -> SquareRequest] /\ x8 \in SQ!Tokens /\ x6 \in SQ!Tokens
    BY DEF SQ!PairInv, SQ!TypeOK, SquareRequest
  <1>2. SQ!Idle \in SquareRequest /\ SQ!Idle.at = "idle" /\ SQ!Idle.token = 0
    BY DEF SquareRequest, SQ!Idle, SQ!Tokens
  <1>3. \A q \in Requests : x7[q].token \in Nat
    BY <1>1 DEF SquareRequest, SQ!Tokens
  <1>4. /\ x1 \in States \union {SQ!None} /\ x2 \in BOOLEAN
        /\ x3 \in [States -> {"new", "given", "spent"}]
        /\ x5 \in [1..MaxPairs -> SQ!Tokens]
        /\ x9 \in 0..MaxFaults
    BY DEF SQ!PairInv, SQ!TypeOK
  <1> QED BY <1>1, <1>2, <1>3, <1>4 DEF SQ!PairInv, SQ!HeldWasIssued, SQ!HeldAlone, SQ!Tokens

\* A request ends with nothing issued, stored or revoked.
LEMMA RequestEndKeeps ==
    ASSUME SQ!PairInv, NEW r \in Requests, x7' = [x7 EXCEPT ![r] = SQ!Idle],
           x1' \in States \union {SQ!None}, UNCHANGED <<x2, x3, x4, x5, x6, x8>>,
           \/ x9' = x9 /\ x7[r].at # "store"
           \/ x9' \in 0..MaxFaults /\ x9' # 0
    PROVE  SQ!PairInv'
  <1> USE SquareConstants, RequestTypes
  <1>1. SQ!TypeOK' /\ SQ!HeldWasIssued' /\ SQ!HeldAlone'
    <2>1. RequestMoved(r, SQ!Idle)
      BY DEF RequestMoved
    <2> QED BY <2>1, HeldKept
  <1>2. SQ!StoredPairUsable'
    <2> SUFFICES ASSUME x6' # 0, x9' = 0
                 PROVE  \/ x6' \in x4'
                        \/ \E q \in Requests : /\ x7'[q].at = "store"
                                               /\ x7'[q].token = x5'[x6']
                                               /\ x5'[x6'] # 0
      BY DEF SQ!StoredPairUsable
    <2>1. \A q \in Requests : x7[q].at = "store" => x7'[q] = x7[q]
      OBVIOUS
    <2>2. \/ x6 \in x4
          \/ \E q \in Requests : /\ x7[q].at = "store"
                                 /\ x7[q].token = x5[x6]
                                 /\ x5[x6] # 0
      BY DEF SQ!PairInv, SQ!StoredPairUsable
    <2> QED BY <2>1, <2>2
  <1> QED BY <1>1, <1>2 DEF SQ!PairInv

\* handleCallback: Square calls back with a code for a state that is the session's.
LEMMA SquareCallbackKeeps ==
    ASSUME SQ!PairInv, NEW r \in Requests, NEW s \in States, SQ!handleCallback(r, s)
    PROVE  SQ!PairInv'
  <1> USE SquareConstants, RequestTypes
  <1> DEFINE x == [at |-> "exchange", state |-> s, token |-> 0]
  <1>1. /\ x7' = [x7 EXCEPT ![r] = x] /\ x7[r].at = "idle"
        /\ UNCHANGED <<x1, x2, x3, x4, x5, x6, x8, x9>>
    BY DEF SQ!handleCallback
  <1>2. x \in SquareRequest /\ x.at = "exchange" /\ x.token = 0
    BY DEF SquareRequest, SQ!Tokens
  <1> HIDE DEF x
  <1>3. SQ!TypeOK' /\ SQ!HeldWasIssued' /\ SQ!HeldAlone'
    <2>1. RequestMoved(r, x)
      BY <1>1, <1>2 DEF RequestMoved
    <2> QED BY <1>1, <1>2, <2>1, HeldKept
  <1>4. \A q \in Requests : x7[q].at = "store" => x7'[q] = x7[q]
    BY <1>1
  <1>5. SQ!StoredPairUsable'
    BY <1>1, <1>4 DEF SQ!PairInv, SQ!StoredPairUsable
  <1> QED BY <1>3, <1>5 DEF SQ!PairInv

\* handleDashboard: a page of a connected merchant asks Square for a new pair.
LEMMA DashboardKeeps ==
    ASSUME SQ!PairInv, NEW r \in Requests, SQ!handleDashboard(r)
    PROVE  SQ!PairInv'
  <1> USE SquareConstants, RequestTypes
  <1> DEFINE x == [at |-> "refresh", state |-> SQ!None, token |-> x6]
  <1>1. /\ x7' = [x7 EXCEPT ![r] = x] /\ x7[r].at = "idle"
        /\ UNCHANGED <<x1, x2, x3, x4, x5, x6, x8, x9>>
    BY DEF SQ!handleDashboard
  <1>2. x \in SquareRequest /\ x.at = "refresh" /\ x.token = x6
    BY DEF SquareRequest, SQ!PairInv, SQ!TypeOK
  <1> HIDE DEF x
  <1>3. SQ!TypeOK' /\ SQ!HeldWasIssued' /\ SQ!HeldAlone'
    <2>1. RequestMoved(r, x)
      BY <1>1, <1>2 DEF RequestMoved
    <2> QED BY <1>1, <1>2, <2>1, HeldKept
  <1>4. \A q \in Requests : x7[q].at = "store" => x7'[q] = x7[q]
    BY <1>1
  <1>5. SQ!StoredPairUsable'
    BY <1>1, <1>4 DEF SQ!PairInv, SQ!StoredPairUsable
  <1> QED BY <1>3, <1>5 DEF SQ!PairInv

\* ExchangeCode: Square issues a pair that nobody held.
LEMMA ExchangeKeeps ==
    ASSUME SQ!PairInv, NEW r \in Requests, SQ!ExchangeCode(r)
    PROVE  SQ!PairInv'
  <1> USE SquareConstants, RequestTypes
  <1>1. /\ x7[r].at = "exchange"
        /\ x1' \in States \union {SQ!None}
        /\ UNCHANGED <<x2, x5, x6, x9>>
    BY DEF SQ!ExchangeCode, SQ!PairInv, SQ!TypeOK
  <1>2. CASE SQ!Answer(r) /\ UNCHANGED <<x3, x4, x8>>
    BY <1>1, <1>2, RequestEndKeeps DEF SQ!Answer
  <1>3. CASE /\ SQ!Issue
             /\ x3' = [x3 EXCEPT ![x7[r].state] = "spent"]
             /\ x4' = x4 \union {x8'}
             /\ x7' = [x7 EXCEPT ![r] = [@ EXCEPT !.at = "store", !.token = x8']]
    <2> DEFINE x == [x7[r] EXCEPT !.at = "store", !.token = x8']
    <2>1. x8' = x8 + 1 /\ x8' \in SQ!Tokens /\ x4' \subseteq 1..x8'
      BY <1>3 DEF SQ!Issue, SQ!Tokens
    <2>2. x \in SquareRequest /\ x.at = "store" /\ x.token = x8'
      BY <2>1 DEF SquareRequest
    <2>3. x7' = [x7 EXCEPT ![r] = x] /\ x4' = x4 \union {x8'}
      BY <1>3
    <2>4. x3' \in [States -> {"new", "given", "spent"}]
      BY <1>3 DEF SQ!PairInv, SQ!TypeOK
    <2> HIDE DEF x
    <2>5. /\ \A q \in Requests : x7[q].token # x8'
          /\ x6' = x6 /\ x6 # x8' /\ x6 <= x8' /\ x6 \in SQ!Tokens
      BY <1>1, <2>1 DEF SQ!PairInv, SQ!TypeOK
    <2>6. SQ!TypeOK' /\ SQ!HeldWasIssued' /\ SQ!HeldAlone'
      <3>1. RequestMoved(r, x)
        BY <1>1, <2>1, <2>2, <2>3, <2>4, <2>5 DEF RequestMoved
      <3> QED BY <1>1, <2>1, <2>2, <2>3, <2>4, <2>5, <3>1, HeldKept
    <2>7. \A q \in Requests : x7[q].at = "store" => x7'[q] = x7[q]
      BY <1>1, <2>3
    <2>8. SQ!StoredPairUsable'
      BY <1>1, <2>3, <2>7 DEF SQ!PairInv, SQ!StoredPairUsable
    <2> QED BY <2>6, <2>8 DEF SQ!PairInv
  <1> QED BY <1>2, <1>3 DEF SQ!ExchangeCode

\* Square replaces the pair n that r asked it to replace.
LEMMA Replaced ==
    ASSUME SQ!PairInv, NEW r \in Requests, x7[r].at = "refresh", x7[r].token \in x4,
           x8 < MaxPairs, x8' = x8 + 1,
           x4' = (x4 \ {x7[r].token}) \union {x8'},
           x5' = [x5 EXCEPT ![x7[r].token] = x8']
    PROVE  /\ x8' \in SQ!Tokens /\ x8 <= x8' /\ x4' \subseteq 1..x8'
           /\ x5' \in [1..MaxPairs -> SQ!Tokens]
           /\ \A n \in 1..MaxPairs :
                 x5'[n] = IF n = x7[r].token THEN x8' ELSE x5[n]
           /\ \A q \in Requests : x7[q].token # x8'
           /\ x6 # x8' /\ x6 <= x8' /\ x6 \in SQ!Tokens
           /\ \A q \in Requests \ {r} : x7[q].at = "store" =>
                 x7[q].token \in x4' /\ x7[q].token # x6
  <1> USE SquareConstants, RequestTypes
  <1>1. x8' \in SQ!Tokens /\ x8 <= x8' /\ x4' \subseteq 1..x8'
    BY DEF SQ!Tokens
  <1>2. /\ x5' \in [1..MaxPairs -> SQ!Tokens]
        /\ \A n \in 1..MaxPairs :
              x5'[n] = IF n = x7[r].token THEN x8' ELSE x5[n]
    BY <1>1 DEF SQ!PairInv, SQ!TypeOK
  <1>3. \A q \in Requests \ {r} : x7[q].at = "store" => x7[q].token # x7[r].token
    BY DEF SQ!PairInv, SQ!HeldAlone
  <1> QED BY <1>1, <1>2, <1>3 DEF SQ!Tokens

\* RefreshToken: Square replaces the pair by its successor, once.
LEMMA RefreshKeeps ==
    ASSUME SQ!PairInv, NEW r \in Requests, SQ!RefreshToken(r)
    PROVE  SQ!PairInv'
  <1> USE SquareConstants, RequestTypes
  <1>1. x7[r].at = "refresh" /\ UNCHANGED <<x1, x2, x3, x6, x9>>
    BY DEF SQ!RefreshToken
  <1>2. CASE SQ!Answer(r) /\ UNCHANGED <<x4, x5, x8>>
    BY <1>1, <1>2, RequestEndKeeps DEF SQ!Answer, SQ!PairInv, SQ!TypeOK
  <1>3. CASE /\ x7[r].token \in x4 /\ SQ!Issue
             /\ x4' = (x4 \ {x7[r].token}) \union {x8'}
             /\ x5' = [x5 EXCEPT ![x7[r].token] = x8']
             /\ x7' = [x7 EXCEPT ![r].at = "store", ![r].token = x8']
    <2> DEFINE x == [x7[r] EXCEPT !.at = "store", !.token = x8']
    <2>1. /\ x8' \in SQ!Tokens /\ x8 <= x8' /\ x4' \subseteq 1..x8'
          /\ x5' \in [1..MaxPairs -> SQ!Tokens]
          /\ \A n \in 1..MaxPairs :
                x5'[n] = IF n = x7[r].token THEN x8' ELSE x5[n]
          /\ \A q \in Requests : x7[q].token # x8'
          /\ x6 # x8' /\ x6 <= x8' /\ x6 \in SQ!Tokens
          /\ \A q \in Requests \ {r} : x7[q].at = "store" =>
                x7[q].token \in x4' /\ x7[q].token # x6
      BY <1>1, <1>3, Replaced DEF SQ!Issue
    <2>2. x \in SquareRequest /\ x.at = "store" /\ x.token = x8'
      BY <2>1 DEF SquareRequest
    <2>3. x7' = [x7 EXCEPT ![r] = x]
      BY <1>3
    <2> HIDE DEF x
    <2>4. x.token \in x4' /\ x8' # 0 /\ x8' <= x8'
      BY <1>3, <2>1, <2>2 DEF SQ!Issue
    <2>5. SQ!TypeOK' /\ SQ!HeldWasIssued' /\ SQ!HeldAlone'
      <3>1. RequestMoved(r, x)
        BY <1>1, <2>1, <2>2, <2>3, <2>4 DEF RequestMoved
      <3> QED BY <1>1, <2>1, <2>2, <2>3, <2>4, <3>1, HeldKept
    <2>6. x7'[r] = x /\ \A q \in Requests : x7[q].at = "store" => x7'[q] = x7[q]
      BY <1>1, <2>3
    <2>7. SQ!StoredPairUsable'
      <3> SUFFICES ASSUME x6 # 0, x9 = 0
                   PROVE  \/ x6 \in x4'
                          \/ \E q \in Requests : /\ x7'[q].at = "store"
                                                 /\ x7'[q].token = x5'[x6]
                                                 /\ x5'[x6] # 0
        BY <1>1 DEF SQ!StoredPairUsable
      <3>1. x6 \in 1..MaxPairs
        OBVIOUS
      <3>2. CASE x6 = x7[r].token
        <4>1. x5'[x6] = x8'
          BY <2>1, <3>1, <3>2
        <4> QED BY <2>2, <2>4, <2>6, <4>1
      <3>3. CASE x6 # x7[r].token
        <4>1. x5'[x6] = x5[x6]
          BY <2>1, <3>1, <3>3
        <4>2. \/ x6 \in x4
              \/ \E q \in Requests : /\ x7[q].at = "store"
                                     /\ x7[q].token = x5[x6]
                                     /\ x5[x6] # 0
          BY DEF SQ!PairInv, SQ!StoredPairUsable
        <4> QED BY <1>3, <2>6, <3>3, <4>1, <4>2
      <3> QED BY <3>2, <3>3
    <2> QED BY <2>5, <2>7 DEF SQ!PairInv
  <1> QED BY <1>2, <1>3 DEF SQ!RefreshToken

\* RefreshLost: the reply with the successor is lost.
LEMMA LostKeeps ==
    ASSUME SQ!PairInv, NEW r \in Requests, SQ!RefreshLost(r)
    PROVE  SQ!PairInv'
  <1> USE SquareConstants, RequestTypes
  <1>1. /\ x7[r].at = "refresh" /\ x7[r].token \in x4 /\ SQ!Fault /\ SQ!Issue
        /\ x4' = (x4 \ {x7[r].token}) \union {x8'}
        /\ x5' = [x5 EXCEPT ![x7[r].token] = x8']
        /\ x7' = [x7 EXCEPT ![r] = SQ!Idle]
        /\ UNCHANGED <<x1, x2, x3, x6>>
    BY DEF SQ!RefreshLost, SQ!Answer
  <1>2. /\ x8' \in SQ!Tokens /\ x8 <= x8' /\ x4' \subseteq 1..x8'
        /\ x5' \in [1..MaxPairs -> SQ!Tokens]
        /\ x6 <= x8' /\ x6 \in SQ!Tokens
        /\ \A q \in Requests \ {r} : x7[q].at = "store" =>
              x7[q].token \in x4' /\ x7[q].token # x6
    BY <1>1, Replaced DEF SQ!Issue
  <1>3. x9' \in 0..MaxFaults /\ x9' # 0
    BY <1>1 DEF SQ!Fault, SQ!PairInv, SQ!TypeOK
  <1>4. SQ!TypeOK' /\ SQ!HeldWasIssued' /\ SQ!HeldAlone'
    <2>1. RequestMoved(r, SQ!Idle)
      BY <1>1, <1>2, <1>3 DEF RequestMoved, SQ!Issue
    <2> QED BY <2>1, HeldKept
  <1>5. SQ!StoredPairUsable'
    BY <1>3 DEF SQ!StoredPairUsable
  <1> QED BY <1>4, <1>5 DEF SQ!PairInv

\* StoreToken: the pair that a request carries becomes the stored one.
LEMMA StoreKeeps ==
    ASSUME SQ!PairInv, NEW r \in Requests, SQ!StoreToken(r)
    PROVE  SQ!PairInv'
  <1> USE SquareConstants, RequestTypes
  <1>1. /\ x7[r].at = "store"
        /\ x6' = x7[r].token
        /\ x7' = [x7 EXCEPT ![r] = SQ!Idle]
        /\ x2' \in BOOLEAN
        /\ UNCHANGED <<x1, x3, x4, x5, x8, x9>>
    BY DEF SQ!StoreToken, SQ!Upserted, SQ!Answer, SQ!PairInv, SQ!TypeOK
  <1>2. x6' \in SQ!Tokens /\ x6' <= x8 /\ x6' \in x4
    BY <1>1 DEF SquareRequest
  <1>3. \A q \in Requests \ {r} : x7[q].at = "store" => x7[q].token # x6'
    BY <1>1 DEF SQ!PairInv, SQ!HeldAlone
  <1>4. SQ!TypeOK' /\ SQ!HeldWasIssued' /\ SQ!HeldAlone'
    <2>1. RequestMoved(r, SQ!Idle)
      BY <1>1, <1>2, <1>3 DEF RequestMoved
    <2> QED BY <2>1, HeldKept
  <1>5. SQ!StoredPairUsable'
    BY <1>1, <1>2 DEF SQ!StoredPairUsable
  <1> QED BY <1>4, <1>5 DEF SQ!PairInv

\* Nothing happens to the requests.
LEMMA RequestsStay ==
    ASSUME SQ!PairInv, UNCHANGED <<x4, x5, x7, x8, x9>>,
           x1' \in States \union {SQ!None}, (x2' \in BOOLEAN),
           x3' \in [States -> {"new", "given", "spent"}],
           x6' \in {0, x6}
    PROVE  SQ!PairInv'
  <1> USE SquareConstants, RequestTypes
  <1>1. SQ!TypeOK'
    BY DEF SQ!PairInv, SQ!TypeOK, SQ!Tokens
  <1>2. SQ!HeldWasIssued'
    BY DEF SQ!PairInv, SQ!HeldWasIssued
  <1>3. \A q \in Requests : x7[q].at = "store" => x7[q].token # x6'
    OBVIOUS
  <1>4. SQ!HeldAlone'
    BY <1>3 DEF SQ!PairInv, SQ!HeldAlone
  <1>5. SQ!StoredPairUsable'
    BY DEF SQ!PairInv, SQ!StoredPairUsable
  <1> QED BY <1>1, <1>2, <1>4, <1>5 DEF SQ!PairInv

\* Every action of SquareAuth keeps the invariant.
LEMMA PairStep == SQ!PairInv /\ [SQ!Next]_(SQ!vars) => SQ!PairInv'
  <1> SUFFICES ASSUME SQ!PairInv, [SQ!Next]_(SQ!vars) PROVE SQ!PairInv'
    OBVIOUS
  <1>1. ASSUME NEW s \in States, SQ!handleAuthorize(s) PROVE SQ!PairInv'
    BY <1>1, RequestsStay DEF SQ!handleAuthorize, SQ!PairInv, SQ!TypeOK
  <1>2. ASSUME NEW r \in Requests, SQ!StoreFails(r) PROVE SQ!PairInv'
    <2>1. x9' \in 0..MaxFaults /\ x9' # 0
      BY <1>2, SquareConstants DEF SQ!StoreFails, SQ!Fault, SQ!PairInv, SQ!TypeOK
    <2> QED BY <1>2, <2>1, RequestEndKeeps DEF SQ!StoreFails, SQ!Answer, SQ!PairInv, SQ!TypeOK
  <1>3. CASE SQ!handleDisconnect
    BY <1>3, RequestsStay DEF SQ!handleDisconnect, SQ!PairInv, SQ!TypeOK
  <1>4. CASE UNCHANGED SQ!vars
    BY <1>4, RequestsStay DEF SQ!vars, SQ!PairInv, SQ!TypeOK
  <1> QED BY <1>1, <1>2, <1>3, <1>4, SquareCallbackKeeps, DashboardKeeps, ExchangeKeeps,
             RefreshKeeps, LostKeeps, StoreKeeps
             DEF SQ!Next

-----------------------------------------------------------------------------
(***************************************************************************)
(* The poller, for any shops, number of documents, dates and fetch limit.  *)
(* x1 is source, x2 garbled, x3 cursor, x4 todo, x5 batch, x6 latestDate,  *)
(* x7 stage, x8 sent and x9 snags.                                         *)
(*                                                                         *)
(* Every cursor is a date of a document of its shop; while a batch is      *)
(* published, what it has not reached yet and what was not sent is never   *)
(* older than the date the cursor would be moved to.                       *)
(***************************************************************************)
LEMMA PollerConstants ==
    /\ MaxDocs \in Nat /\ MaxDate \in Nat /\ fetchLimit \in Nat /\ MaxSnags \in Nat
    /\ IsFiniteSet(Shops)
  BY EdgeAssumption

\* The types of the poller, taken apart.
LEMMA PollerTypes ==
    ASSUME PO!TypeOK
    PROVE  /\ x1 \in [Shops -> Seq(PO!Dates)]
           /\ \A m \in Shops : Len(x1[m]) \in Nat /\ Len(x1[m]) <= MaxDocs
           /\ \A m \in Shops : \A i \in 1..Len(x1[m]) : x1[m][i] \in Nat \ {0}
           /\ x3 \in [Shops -> 0..MaxDate]
           /\ x4 \in Seq(Shops) /\ x5 \in Seq(1..MaxDocs)
           /\ x6 \in Nat /\ x9 \in 0..MaxSnags
           /\ (x7 # "waiting") <=> (x4 # << >>)
           /\ x7 # "waiting" => PO!Current \in Shops /\ Tail(x4) \in Seq(Shops)
  <1>1. /\ x1 \in [Shops -> Seq(PO!Dates)] /\ \A m \in Shops : Len(x1[m]) <= MaxDocs
        /\ x3 \in [Shops -> 0..MaxDate]
        /\ x4 \in Seq(Shops) /\ x5 \in Seq(1..MaxDocs)
        /\ x6 \in 0..MaxDate /\ x9 \in 0..MaxSnags
        /\ x7 = "waiting" <=> x4 = << >>
    BY DEF PO!TypeOK
  <1>2. ASSUME NEW m \in Shops
        PROVE  /\ Len(x1[m]) \in Nat
               /\ \A i \in 1..Len(x1[m]) : x1[m][i] \in Nat \ {0}
    <2>1. x1[m] \in Seq(PO!Dates)
      BY <1>1
    <2>2. Len(x1[m]) \in Nat /\ \A i \in 1..Len(x1[m]) : x1[m][i] \in PO!Dates
      BY <2>1
    <2> QED BY <2>2 DEF PO!Dates
  <1>3. x4 # << >> => Head(x4) \in Shops /\ Tail(x4) \in Seq(Shops)
    BY <1>1
  <1> QED BY <1>1, <1>2, <1>3 DEF PO!Current

\* At first no cursor is stored and no shop is being polled.
LEMMA CursorInit == PO!Init => PO!CursorInv
  <1> SUFFICES ASSUME PO!Init PROVE PO!CursorInv
    OBVIOUS
  <1> USE PollerConstants
  <1>1. x1 \in [Shops -> Seq(PO!Dates)] /\ \A m \in Shops : Len(x1[m]) = 0
    BY DEF PO!Init
  <1>2. PO!TypeOK
    BY <1>1 DEF PO!Init, PO!TypeOK
  <1>3. PO!NothingLeftBehind /\ PO!SourceInOrder /\ PO!CursorFromSource
    BY <1>1 DEF PO!Init, PO!NothingLeftBehind, PO!SourceInOrder, PO!CursorFromSource
  <1>4. PO!BatchLeavesNothing /\ PO!LatestLeavesNothing
    BY DEF PO!Init, PO!BatchLeavesNothing, PO!LatestLeavesNothing
  <1> QED BY <1>2, <1>3, <1>4 DEF PO!CursorInv

\* What NothingLeftBehind and CursorFromSource say of one cursor.
CursorRight(m) ==
    /\ \A i \in 1..Len(x1[m]) : x1[m][i] < x3[m] => <<m, i>> \in x8 \union x2
    /\ x3[m] # 0 => \E j \in 1..Len(x1[m]) : x1[m][j] = x3[m]

\* The next merchant's turn, or the next tick: nothing is under way.
LEMMA TurnEnds ==
    ASSUME PO!CursorInv, x1' = x1, x2' = x2, x8' = x8,
           x3' \in [Shops -> 0..MaxDate], x9' \in 0..MaxSnags,
           x4' \in Seq(Shops), x7' = IF x4' = << >> THEN "waiting" ELSE "fetch",
           x5' \in {<< >>, x5}, x6' \in {0, x6},
           \A m \in Shops : CursorRight(m)'
    PROVE  PO!CursorInv'
  <1>1. PO!TypeOK'
    <2>1. x5' \in Seq(1..MaxDocs) /\ Len(x5') <= fetchLimit
      <3>1. CASE x5' = << >>
        BY <3>1, PollerConstants
      <3>2. CASE x5' = x5
        BY <3>2 DEF PO!CursorInv, PO!TypeOK
      <3> QED BY <3>1, <3>2
    <2>2. x6' \in 0..MaxDate
      BY PollerConstants DEF PO!CursorInv, PO!TypeOK
    <2>3. x7' \in {"waiting", "fetch"} /\ (x7' = "waiting" <=> x4' = << >>)
      OBVIOUS
    <2>4. /\ x1' \in [Shops -> Seq(PO!Dates)] /\ \A m \in Shops : Len(x1'[m]) <= MaxDocs
          /\ x2' \subseteq PO!Documents /\ x8' \subseteq PO!Documents
      BY DEF PO!CursorInv, PO!TypeOK, PO!Documents
    <2> QED BY <2>1, <2>2, <2>3, <2>4 DEF PO!TypeOK, PO!Dates, PO!Documents
  <1>2. PO!SourceInOrder'
    BY DEF PO!CursorInv, PO!SourceInOrder
  <1>3. PO!NothingLeftBehind'
    <2> SUFFICES ASSUME NEW m \in Shops, NEW i \in 1..Len(x1[m]),
                        ~(<<m, i>> \in x8 \union x2)
                 PROVE  i \in PO!Since(m)'
      BY DEF PO!NothingLeftBehind
    <2>1. x1[m][i] \in Nat /\ x3'[m] \in Nat
      <3>1. x1[m][i] \in Nat
        BY PollerTypes DEF PO!CursorInv
      <3>2. x3'[m] \in Nat
        BY PollerConstants
      <3> QED BY <3>1, <3>2
    <2>2. ~(x1[m][i] < x3'[m])
      BY DEF CursorRight
    <2> QED BY <2>1, <2>2 DEF PO!Since
  <1>4. PO!CursorFromSource'
    BY DEF CursorRight, PO!CursorFromSource
  <1>5. PO!BatchLeavesNothing' /\ PO!LatestLeavesNothing'
    BY DEF PO!BatchLeavesNothing, PO!LatestLeavesNothing
  <1> QED BY <1>1, <1>2, <1>3, <1>4, <1>5 DEF PO!CursorInv

\* The parts of the invariant about one shop's cursor.
LEMMA CursorsRight == PO!CursorInv => \A m \in Shops : CursorRight(m)
  <1> SUFFICES ASSUME PO!CursorInv, NEW m \in Shops PROVE CursorRight(m)
    OBVIOUS
  <1>1. ASSUME NEW i \in 1..Len(x1[m]), x1[m][i] < x3[m]
        PROVE  <<m, i>> \in x8 \union x2
    <2>1. x1[m][i] \in Nat /\ x3[m] \in Nat
      BY PollerTypes, PollerConstants DEF PO!CursorInv
    <2>2. i \notin PO!Since(m)
      BY <1>1, <2>1 DEF PO!Since
    <2> QED BY <2>2 DEF PO!CursorInv, PO!NothingLeftBehind
  <1> QED BY <1>1 DEF PO!CursorInv, PO!CursorFromSource, CursorRight

\* Cursors that stay as they were, with the source and what is done, stay right.
LEMMA CursorsKept ==
    ASSUME PO!CursorInv, UNCHANGED <<x1, x2, x3, x8>>
    PROVE  \A m \in Shops : CursorRight(m)'
  BY CursorsRight DEF CursorRight

\* Going on to the next shop leaves the invariant as the cursors are.
LEMMA NextMerchantKeeps ==
    ASSUME PO!CursorInv, x7 # "waiting", PO!NextMerchant,
           x1' = x1, x2' = x2, x8' = x8,
           x3' \in [Shops -> 0..MaxDate], x9' \in 0..MaxSnags,
           \A m \in Shops : CursorRight(m)'
    PROVE  PO!CursorInv'
  <1>1. /\ x4' \in Seq(Shops) /\ x7' = (IF x4' = << >> THEN "waiting" ELSE "fetch")
        /\ x5' = << >> /\ x6' = 0
    BY PollerTypes DEF PO!CursorInv, PO!NextMerchant, PO!Poll
  <1> QED BY <1>1, TurnEnds

\* A failure is counted.
LEMMA FailureTypes == ASSUME PO!CursorInv, PO!Failure PROVE x9' \in 0..MaxSnags
  BY PollerConstants DEF PO!CursorInv, PO!TypeOK, PO!Failure

\* tick: the shops are listed anew.
LEMMA PollTickKeeps == ASSUME PO!CursorInv, PO!tick PROVE PO!CursorInv'
  <1>1. /\ x4' \in PO!InOrder /\ x7' = (IF x4' = << >> THEN "waiting" ELSE "fetch")
        /\ UNCHANGED <<x1, x2, x3, x5, x6, x8, x9>>
    BY DEF PO!tick, PO!Poll
  <1>2. Cardinality(Shops) \in Nat
    BY PollerConstants, FS_CardinalityType
  <1>3. x4' \in Seq(Shops)
    BY EdgeCardinality, <1>1, <1>2 DEF PO!InOrder
  <1>4. x3' \in [Shops -> 0..MaxDate] /\ x9' \in 0..MaxSnags
    BY <1>1, PollerTypes DEF PO!CursorInv
  <1>5. \A m \in Shops : CursorRight(m)'
    BY <1>1, CursorsKept
  <1> QED BY <1>1, <1>3, <1>4, <1>5, TurnEnds

\* A fetch returns nothing but what it was asked for, with nothing missed between.
LEMMA FetchedInOrder ==
    ASSUME NEW D, D \subseteq 1..MaxDocs, NEW docs \in PO!limitDocs(D)
    PROVE  /\ docs \in Seq(1..MaxDocs) /\ Len(docs) <= fetchLimit
           /\ \A k \in 1..Len(docs) :
                 /\ docs[k] \in D
                 /\ \A i \in D : i < docs[k] => \E j \in 1..(k - 1) : docs[j] = i
  <1> USE PollerConstants
  <1> DEFINE n == IF Cardinality(D) > fetchLimit THEN fetchLimit ELSE Cardinality(D)
  <1>1. Cardinality(D) \in Nat
    <2>1. IsFiniteSet(1..MaxDocs)
      BY FS_Interval
    <2> QED BY <2>1, FS_Subset, FS_CardinalityType
  <1>2. n \in Nat /\ n <= fetchLimit
    BY <1>1
  <1> HIDE DEF n
  <1>3. /\ docs \in [1..n -> D]
        /\ \A k \in DOMAIN docs :
              \A i \in D : i < docs[k] <=> \E j \in DOMAIN docs : j < k /\ docs[j] = i
    BY EdgeCardinality DEF PO!limitDocs, n
  <1>4. docs \in Seq(1..MaxDocs) /\ Len(docs) = n /\ DOMAIN docs = 1..n
    <2>1. docs \in [1..n -> 1..MaxDocs]
      BY <1>3
    <2> QED BY <1>2, <2>1
  <1>5. ASSUME NEW k \in 1..n, NEW i \in D, i < docs[k]
        PROVE  \E j \in 1..(k - 1) : docs[j] = i
    <2>1. PICK j \in 1..n : j < k /\ docs[j] = i
      BY <1>3, <1>4, <1>5
    <2>2. j \in 1..(k - 1)
      BY <1>2, <2>1
    <2> QED BY <2>1, <2>2
  <1> QED BY <1>2, <1>3, <1>4, <1>5

\* fetchDocuments: the oldest documents since the cursor, up to the limit.
LEMMA PollFetchKeeps == ASSUME PO!CursorInv, PO!fetchDocuments PROVE PO!CursorInv'
  <1> DEFINE m == PO!Current
  <1>1. PICK docs \in PO!limitDocs(PO!Since(m)) :
            IF docs = << >> THEN PO!NextMerchant
            ELSE x5' = docs /\ x6' = 0 /\ x7' = "publish" /\ UNCHANGED x4
    BY DEF PO!fetchDocuments
  <1>2. x7 = "fetch" /\ UNCHANGED <<x1, x2, x3, x8, x9>>
    BY DEF PO!fetchDocuments
  <1>3. /\ m \in Shops
        /\ x3' \in [Shops -> 0..MaxDate] /\ x9' \in 0..MaxSnags
    BY <1>2, PollerTypes DEF PO!CursorInv
  <1>4. \A s \in Shops : CursorRight(s)'
    BY <1>2, CursorsKept
  <1>5. CASE docs = << >>
    BY <1>1, <1>2, <1>3, <1>4, <1>5, NextMerchantKeeps
  <1>6. CASE docs # << >>
    <2>1. x5' = docs /\ x6' = 0 /\ x7' = "publish" /\ x4' = x4
      BY <1>1, <1>6
    <2>2. PO!Since(m) \subseteq 1..MaxDocs /\ PO!Since(m) \subseteq 1..Len(x1[m])
      BY <1>3, PollerTypes, PollerConstants DEF PO!CursorInv, PO!Since
    <2>3. /\ docs \in Seq(1..MaxDocs) /\ Len(docs) <= fetchLimit
          /\ \A k \in 1..Len(docs) :
                /\ docs[k] \in PO!Since(m)
                /\ \A i \in PO!Since(m) : i < docs[k] => \E j \in 1..(k - 1) : docs[j] = i
      BY <2>2, FetchedInOrder
    <2>4. PO!TypeOK'
      BY <1>2, <2>1, <2>3, PollerConstants DEF PO!CursorInv, PO!TypeOK, PO!Documents
    <2>5. PO!SourceInOrder' /\ PO!NothingLeftBehind' /\ PO!CursorFromSource'
      BY <1>2
         DEF PO!CursorInv, PO!SourceInOrder, PO!NothingLeftBehind, PO!CursorFromSource, PO!Since
    <2>6. PO!Current' = m
      BY <2>1 DEF PO!Current
    <2>7. ASSUME NEW k \in 1..Len(docs)
          PROVE  /\ docs[k] <= Len(x1[m])
                 /\ \A i \in 1..(docs[k] - 1) :
                       <<m, i>> \in x8 \union x2 \/ \E j \in 1..(k - 1) : docs[j] = i
      <3>1. docs[k] \in 1..Len(x1[m]) /\ Len(x1[m]) \in Nat
        BY <1>3, <2>2, <2>3, PollerTypes DEF PO!CursorInv
      <3>2. ASSUME NEW i \in 1..(docs[k] - 1)
            PROVE  <<m, i>> \in x8 \union x2 \/ \E j \in 1..(k - 1) : docs[j] = i
        <4>1. i \in 1..Len(x1[m]) /\ i < docs[k]
          BY <3>1
        <4>2. CASE i \in PO!Since(m)
          BY <2>3, <4>1, <4>2
        <4>3. CASE i \notin PO!Since(m)
          BY <1>3, <4>1, <4>3 DEF PO!CursorInv, PO!NothingLeftBehind
        <4> QED BY <4>2, <4>3
      <3> QED BY <3>1, <3>2
    <2> HIDE DEF m
    <2>8. PO!BatchLeavesNothing'
      BY <1>2, <2>1, <2>6, <2>7 DEF PO!BatchLeavesNothing
    <2>9. PO!LatestLeavesNothing'
      BY <2>1 DEF PO!LatestLeavesNothing
    <2> QED BY <2>4, <2>5, <2>8, <2>9 DEF PO!CursorInv
  <1> QED BY <1>5, <1>6

\* wrapAndPublish: a document is published, cannot be parsed, or fails and ends the turn.
LEMMA PollPublishKeeps == ASSUME PO!CursorInv, PO!wrapAndPublish PROVE PO!CursorInv'
  <1> USE PollerConstants
  <1> DEFINE m == PO!Current
             h == Head(x5)
             Done(i) == <<m, i>> \in x8' \union x2
  <1>1. /\ x7 = "publish" /\ x5 # << >> /\ x5' = Tail(x5)
        /\ UNCHANGED <<x1, x2, x3, x4, x7, x9>>
    BY DEF PO!wrapAndPublish
  <1>2. \/ <<m, h>> \in x2 /\ x8' = x8 /\ x6' = x6
        \/ /\ x8' = x8 \union {<<m, h>>}
           /\ x6' = IF x1[m][h] > x6 THEN x1[m][h] ELSE x6
    BY DEF PO!wrapAndPublish
  <1>3. m \in Shops /\ x5 \in Seq(1..MaxDocs) /\ x6 \in Nat /\ Len(x5) \in Nat
    BY <1>1, PollerTypes DEF PO!CursorInv
  <1>4. /\ h = x5[1] /\ 1 \in 1..Len(x5)
        /\ x5' \in Seq(1..MaxDocs) /\ Len(x5') = Len(x5) - 1
        /\ \A k \in 1..Len(x5') : x5'[k] = x5[k + 1] /\ k + 1 \in 1..Len(x5)
    BY <1>1, <1>3
  <1>5. ASSUME NEW k \in 1..Len(x5)
        PROVE  /\ x5[k] \in 1..Len(x1[m])
               /\ \A i \in 1..(x5[k] - 1) :
                     <<m, i>> \in x8 \union x2 \/ \E j \in 1..(k - 1) : x5[j] = i
    <2>1. x5[k] \in 1..MaxDocs /\ Len(x1[m]) \in Nat
      BY <1>3, PollerTypes DEF PO!CursorInv
    <2> QED BY <1>1, <2>1 DEF PO!CursorInv, PO!BatchLeavesNothing
  <1>6. /\ h \in 1..Len(x1[m])
        /\ \A i \in 1..(h - 1) : <<m, i>> \in x8 \union x2
    <2>1. \A i \in 1..(x5[1] - 1) : <<m, i>> \in x8 \union x2
      BY <1>4, <1>5
    <2> QED BY <1>4, <1>5, <2>1
  <1>7. h \in 1..MaxDocs /\ x1[m][h] \in 1..MaxDate
    <2>1. x1[m] \in Seq(PO!Dates)
      BY <1>3, PollerTypes DEF PO!CursorInv
    <2> QED BY <1>3, <1>4, <1>6, <2>1 DEF PO!Dates
  <1> HIDE DEF h, m
  <1>8. \A i \in 1..h : Done(i)
    <2>1. \A i \in 1..h : i \in 1..(h - 1) \/ i = h
      BY <1>7
    <2> QED BY <1>2, <1>6, <2>1
  <1>9. \A s, i : <<s, i>> \in x8 \union x2 => <<s, i>> \in x8' \union x2
    BY <1>2
  <1>10. PO!TypeOK'
    <2>1. x8' \subseteq PO!Documents
      BY <1>2, <1>3, <1>7 DEF PO!Documents, PO!CursorInv, PO!TypeOK
    <2>2. x6' \in 0..MaxDate
      BY <1>2, <1>7 DEF PO!CursorInv, PO!TypeOK
    <2>3. Len(x5') <= fetchLimit
      BY <1>3, <1>4 DEF PO!CursorInv, PO!TypeOK
    <2> QED BY <1>1, <1>4, <2>1, <2>2, <2>3 DEF PO!CursorInv, PO!TypeOK, PO!Documents
  <1>11. PO!SourceInOrder'
    BY <1>1 DEF PO!CursorInv, PO!SourceInOrder
  <1>12. PO!NothingLeftBehind' /\ PO!CursorFromSource'
    BY <1>1, <1>9 DEF PO!CursorInv, PO!NothingLeftBehind, PO!CursorFromSource, PO!Since
  <1>13. PO!Current' = m
    BY <1>1 DEF PO!Current, m
  <1>14. ASSUME NEW k \in 1..Len(x5')
         PROVE  /\ x5'[k] <= Len(x1[m])
                /\ \A i \in 1..(x5'[k] - 1) : Done(i) \/ \E j \in 1..(k - 1) : x5'[j] = i
    <2>1. /\ x5'[k] = x5[k + 1] /\ k + 1 \in 1..Len(x5)
          /\ x5[k + 1] \in 1..Len(x1[m])
      BY <1>4, <1>5
    <2>2. Len(x1[m]) \in Nat /\ Len(x5') \in Nat
      BY <1>3, <1>4, PollerTypes DEF PO!CursorInv
    <2>3. ASSUME NEW i \in 1..(x5'[k] - 1)
          PROVE  Done(i) \/ \E j \in 1..(k - 1) : x5'[j] = i
      <3>1. CASE <<m, i>> \in x8 \union x2
        BY <1>9, <3>1
      <3>2. ASSUME NEW j \in 1..k, x5[j] = i PROVE Done(i) \/ \E n \in 1..(k - 1) : x5'[n] = i
        <4>1. CASE j = 1
          BY <1>4, <1>7, <1>8, <3>2, <4>1
        <4>2. CASE j # 1
          <5>1. j - 1 \in 1..(k - 1) /\ j - 1 \in 1..Len(x5') /\ (j - 1) + 1 = j
            BY <2>2, <4>2
          <5>2. x5'[j - 1] = i
            BY <1>4, <3>2, <5>1
          <5> QED BY <5>1, <5>2
        <4> QED BY <4>1, <4>2
      <3>3. (k + 1) - 1 = k
        BY <2>2
      <3>4. \/ <<m, i>> \in x8 \union x2
            \/ \E j \in 1..k : x5[j] = i
        BY <1>5, <2>1, <2>3, <3>3
      <3> QED BY <3>1, <3>2, <3>4
    <2> QED BY <2>1, <2>2, <2>3
  <1>15. PO!BatchLeavesNothing'
    BY <1>1, <1>13, <1>14 DEF PO!BatchLeavesNothing
  <1>16. PO!LatestLeavesNothing'
    <2> SUFFICES ASSUME x6' # 0
                 PROVE  \E j \in 1..Len(x1[m]) :
                           x1[m][j] = x6' /\ \A i \in 1..j : Done(i)
      BY <1>1, <1>13 DEF PO!LatestLeavesNothing
    <2>1. CASE x6' = x1[m][h]
      BY <1>6, <1>8, <2>1
    <2>2. CASE x6' = x6
      <3>1. PICK j \in 1..Len(x1[m]) :
                x1[m][j] = x6 /\ \A i \in 1..j : <<m, i>> \in x8 \union x2
        BY <1>1, <2>2 DEF PO!CursorInv, PO!LatestLeavesNothing, m
      <3> QED BY <1>9, <2>2, <3>1
    <2> QED BY <1>2, <2>1, <2>2
  <1> QED BY <1>10, <1>11, <1>12, <1>15, <1>16 DEF PO!CursorInv

\* saveCursor: the cursor moves to the latest date that was reached.
LEMMA CursorSaveKeeps == ASSUME PO!CursorInv, PO!saveCursor PROVE PO!CursorInv'
  <1> USE PollerConstants
  <1> DEFINE m == PO!Current
  <1>1. x7 = "publish" /\ PO!NextMerchant /\ UNCHANGED <<x1, x2, x8>>
    BY DEF PO!saveCursor
  <1>2. x9' \in 0..MaxSnags
    BY FailureTypes, PollerTypes DEF PO!CursorInv, PO!saveCursor
  <1>3. m \in Shops /\ x3 \in [Shops -> 0..MaxDate] /\ x6 \in 0..MaxDate
    BY <1>1, PollerTypes DEF PO!CursorInv, PO!TypeOK
  <1>4. CASE x3' = x3
    BY <1>1, <1>2, <1>3, <1>4, CursorsKept, NextMerchantKeeps
  <1>5. CASE x6 > 0 /\ x3' = [x3 EXCEPT ![m] = x6]
    <2>1. PICK j \in 1..Len(x1[m]) :
              x1[m][j] = x6 /\ \A i \in 1..j : <<m, i>> \in x8 \union x2
      BY <1>1, <1>3, <1>5 DEF PO!CursorInv, PO!LatestLeavesNothing
    <2>2. /\ x3' \in [Shops -> 0..MaxDate] /\ x3'[m] = x1[m][j]
          /\ \A s \in Shops \ {m} : x3'[s] = x3[s]
      BY <1>3, <1>5, <2>1
    <2> HIDE DEF m
    <2>3. ASSUME NEW i \in 1..Len(x1[m]), x1[m][i] < x3'[m]
          PROVE  <<m, i>> \in x8 \union x2
      <3>1. Len(x1[m]) \in Nat /\ x1[m][i] \in Nat /\ x1[m][j] \in Nat
        BY <1>3, <2>1, PollerTypes DEF PO!CursorInv
      <3>2. j <= i => x1[m][j] <= x1[m][i]
        BY <1>3, <2>1 DEF PO!CursorInv, PO!SourceInOrder
      <3>3. i \in 1..j
        BY <2>2, <2>3, <3>1, <3>2
      <3> QED BY <2>1, <3>3
    <2>4. \A s \in Shops : CursorRight(s)'
      BY <1>1, <2>1, <2>2, <2>3, CursorsRight DEF CursorRight
    <2> QED BY <1>1, <1>2, <2>2, <2>4, NextMerchantKeeps
  <1> QED BY <1>4, <1>5 DEF PO!saveCursor

\* DocumentAppears: a new document is dated no earlier than those that were there.
LEMMA AppearKeeps == ASSUME PO!CursorInv, NEW m \in Shops, PO!DocumentAppears(m) PROVE PO!CursorInv'
  <1> USE PollerConstants
  <1>1. PICK date \in PO!Dates :
            /\ \A i \in 1..Len(x1[m]) : x1[m][i] <= date
            /\ x1' = [x1 EXCEPT ![m] = Append(@, date)]
    BY DEF PO!DocumentAppears
  <1>2. /\ Len(x1[m]) < MaxDocs
        /\ x2' \in {x2, x2 \union {<<m, Len(x1[m]) + 1>>}}
        /\ UNCHANGED <<x3, x4, x5, x6, x7, x8, x9>>
    BY DEF PO!DocumentAppears
  <1>3. /\ x1 \in [Shops -> Seq(PO!Dates)]
        /\ \A s \in Shops : Len(x1[s]) \in Nat /\ Len(x1[s]) <= MaxDocs
        /\ \A s \in Shops : \A i \in 1..Len(x1[s]) : x1[s][i] \in Nat
    BY PollerTypes DEF PO!CursorInv
  <1>4. x1[m] \in Seq(PO!Dates)
    BY <1>3
  <1>5. /\ Append(x1[m], date) \in Seq(PO!Dates)
        /\ Len(Append(x1[m], date)) = Len(x1[m]) + 1
        /\ Append(x1[m], date)[Len(x1[m]) + 1] = date
        /\ \A i \in 1..Len(x1[m]) : Append(x1[m], date)[i] = x1[m][i]
    BY <1>4
  <1>6. /\ x1' \in [Shops -> Seq(PO!Dates)]
        /\ x1'[m] = Append(x1[m], date)
        /\ \A s \in Shops \ {m} : x1'[s] = x1[s]
    BY <1>1, <1>3, <1>5
  <1>7. \A s \in Shops :
            /\ Len(x1'[s]) = IF s = m THEN Len(x1[m]) + 1 ELSE Len(x1[s])
            /\ \A i \in 1..Len(x1[s]) : x1'[s][i] = x1[s][i]
    BY <1>5, <1>6
  <1>8. x1'[m][Len(x1[m]) + 1] = date /\ Len(x1'[m]) = Len(x1[m]) + 1
    BY <1>5, <1>6
  <1>9. \A s \in Shops : Len(x1'[s]) \in Nat /\ Len(x1[s]) <= Len(x1'[s])
    BY <1>3, <1>7
  <1>10. PO!TypeOK'
    <2>1. x2' \subseteq PO!Documents
      BY <1>2, <1>3 DEF PO!Documents, PO!CursorInv, PO!TypeOK
    <2>2. \A s \in Shops : Len(x1'[s]) <= MaxDocs
      BY <1>2, <1>3, <1>7
    <2> QED BY <1>2, <1>6, <2>1, <2>2 DEF PO!CursorInv, PO!TypeOK, PO!Documents
  <1>11. PO!SourceInOrder'
    <2> SUFFICES ASSUME NEW s \in Shops, NEW i \in 1..Len(x1'[s]), NEW j \in 1..Len(x1'[s]),
                        i <= j
                 PROVE  x1'[s][i] <= x1'[s][j]
      BY DEF PO!SourceInOrder
    <2>1. CASE j \in 1..Len(x1[s])
      <3>1. i \in 1..Len(x1[s])
        BY <1>3, <2>1
      <3> QED BY <1>7, <2>1, <3>1 DEF PO!CursorInv, PO!SourceInOrder
    <2>2. CASE j \notin 1..Len(x1[s])
      <3>1. s = m /\ j = Len(x1[m]) + 1
        BY <1>3, <1>7, <2>2
      <3>2. CASE i = j
        BY <1>8, <3>1, <3>2 DEF PO!Dates
      <3>3. CASE i # j
        <4>1. i \in 1..Len(x1[m])
          BY <1>3, <1>7, <3>1, <3>3
        <4> QED BY <1>1, <1>7, <1>8, <3>1, <4>1
      <3> QED BY <3>2, <3>3
    <2> QED BY <2>1, <2>2
  <1>12. x3[m] <= date
    <2>1. CASE x3[m] = 0
      BY <2>1 DEF PO!Dates
    <2>2. CASE x3[m] # 0
      <3>1. PICK j \in 1..Len(x1[m]) : x1[m][j] = x3[m]
        BY <2>2 DEF PO!CursorInv, PO!CursorFromSource
      <3> QED BY <1>1, <3>1
    <2> QED BY <2>1, <2>2
  <1>13. PO!NothingLeftBehind'
    <2> SUFFICES ASSUME NEW s \in Shops, NEW i \in 1..Len(x1'[s])
                 PROVE  <<s, i>> \in x8' \union x2' \/ i \in PO!Since(s)'
      BY DEF PO!NothingLeftBehind
    <2>1. CASE i \in 1..Len(x1[s])
      <3>1. <<s, i>> \in x8 \union x2 \/ i \in PO!Since(s)
        BY <2>1 DEF PO!CursorInv, PO!NothingLeftBehind
      <3>2. i \in PO!Since(s) => i \in PO!Since(s)'
        BY <1>2, <1>7, <2>1 DEF PO!Since
      <3> QED BY <1>2, <3>1, <3>2
    <2>2. CASE i \notin 1..Len(x1[s])
      <3>1. s = m /\ i = Len(x1[m]) + 1
        BY <1>3, <1>7, <2>2
      <3>2. x1'[s][i] = date
        BY <1>8, <3>1
      <3>3. date >= x3'[s]
        BY <1>2, <1>12, <3>1, PollerTypes DEF PO!CursorInv, PO!Dates
      <3> QED BY <3>2, <3>3 DEF PO!Since
    <2> QED BY <2>1, <2>2
  <1>14. PO!CursorFromSource'
    <2> SUFFICES ASSUME NEW s \in Shops, x3[s] # 0
                 PROVE  \E j \in 1..Len(x1'[s]) : x1'[s][j] = x3[s]
      BY <1>2 DEF PO!CursorFromSource
    <2>1. PICK j \in 1..Len(x1[s]) : x1[s][j] = x3[s]
      BY DEF PO!CursorInv, PO!CursorFromSource
    <2>2. j \in 1..Len(x1'[s])
      BY <1>3, <1>9
    <2> QED BY <1>7, <2>1, <2>2
  <1>15. x7 = "publish" => PO!Current \in Shops /\ PO!Current' = PO!Current
    BY <1>2, PollerTypes DEF PO!CursorInv, PO!Current
  <1>16. PO!BatchLeavesNothing'
    <2> SUFFICES ASSUME x7 = "publish", NEW k \in 1..Len(x5)
                 PROVE  /\ x5[k] <= Len(x1'[PO!Current])
                        /\ \A i \in 1..(x5[k] - 1) :
                              \/ <<PO!Current, i>> \in x8 \union x2'
                              \/ \E j \in 1..(k - 1) : x5[j] = i
      BY <1>2, <1>15 DEF PO!BatchLeavesNothing
    <2>1. /\ x5[k] <= Len(x1[PO!Current])
          /\ \A i \in 1..(x5[k] - 1) :
                \/ <<PO!Current, i>> \in x8 \union x2
                \/ \E j \in 1..(k - 1) : x5[j] = i
      BY DEF PO!CursorInv, PO!BatchLeavesNothing
    <2>2. x5[k] \in Nat
      <3>1. x5 \in Seq(1..MaxDocs)
        BY PollerTypes DEF PO!CursorInv
      <3> QED BY <3>1
    <2>3. x5[k] <= Len(x1'[PO!Current])
      BY <1>3, <1>9, <1>15, <2>1, <2>2
    <2> QED BY <1>2, <2>1, <2>3
  <1>17. PO!LatestLeavesNothing'
    <2> SUFFICES ASSUME x7 = "publish", x6 # 0
                 PROVE  \E j \in 1..Len(x1'[PO!Current]) :
                           /\ x1'[PO!Current][j] = x6
                           /\ \A i \in 1..j : <<PO!Current, i>> \in x8 \union x2'
      BY <1>2, <1>15 DEF PO!LatestLeavesNothing
    <2>1. PICK j \in 1..Len(x1[PO!Current]) :
              /\ x1[PO!Current][j] = x6
              /\ \A i \in 1..j : <<PO!Current, i>> \in x8 \union x2
      BY DEF PO!CursorInv, PO!LatestLeavesNothing
    <2>2. j \in 1..Len(x1'[PO!Current])
      BY <1>3, <1>9, <1>15
    <2> QED BY <1>2, <1>7, <1>15, <2>1, <2>2
  <1> QED BY <1>10, <1>11, <1>13, <1>14, <1>16, <1>17 DEF PO!CursorInv

\* CursorExpires: a shop without a cursor is read from the start.
LEMMA CursorExpiresKeeps ==
    ASSUME PO!CursorInv, NEW m \in Shops, PO!CursorExpires(m)
    PROVE  PO!CursorInv'
  <1>1. /\ x3' = [x3 EXCEPT ![m] = 0] /\ x9' \in 0..MaxSnags
        /\ UNCHANGED <<x1, x2, x4, x5, x6, x7, x8>>
    BY FailureTypes DEF PO!CursorExpires
  <1>2. /\ x3' \in [Shops -> 0..MaxDate] /\ x3'[m] = 0
        /\ \A s \in Shops \ {m} : x3'[s] = x3[s]
    BY <1>1, PollerTypes, PollerConstants DEF PO!CursorInv
  <1>3. PO!TypeOK'
    BY <1>1, <1>2 DEF PO!CursorInv, PO!TypeOK, PO!Documents
  <1>4. PO!SourceInOrder' /\ PO!BatchLeavesNothing' /\ PO!LatestLeavesNothing'
    BY <1>1
       DEF PO!CursorInv, PO!SourceInOrder, PO!BatchLeavesNothing, PO!LatestLeavesNothing, PO!Current
  <1>5. PO!CursorFromSource'
    BY <1>1, <1>2 DEF PO!CursorInv, PO!CursorFromSource
  <1>6. PO!NothingLeftBehind'
    <2> SUFFICES ASSUME NEW s \in Shops, NEW i \in 1..Len(x1[s])
                 PROVE  <<s, i>> \in x8 \union x2 \/ i \in PO!Since(s)'
      BY <1>1 DEF PO!NothingLeftBehind
    <2>1. CASE s = m
      <3>1. x1[s][i] >= x3'[s]
        BY <1>2, <2>1, PollerTypes DEF PO!CursorInv
      <3> QED BY <1>1, <3>1 DEF PO!Since
    <2>2. CASE s # m
      <3>1. PO!Since(s)' = PO!Since(s)
        BY <1>1, <1>2, <2>2 DEF PO!Since
      <3> QED BY <3>1 DEF PO!CursorInv, PO!NothingLeftBehind
    <2> QED BY <2>1, <2>2
  <1> QED BY <1>3, <1>4, <1>5, <1>6 DEF PO!CursorInv

\* Every action of the poller keeps the invariant.
LEMMA CursorStep == PO!CursorInv /\ [PO!Next]_(PO!vars) => PO!CursorInv'
  <1> SUFFICES ASSUME PO!CursorInv, [PO!Next]_(PO!vars) PROVE PO!CursorInv'
    OBVIOUS
  <1>1. x3 \in [Shops -> 0..MaxDate]
    BY PollerTypes DEF PO!CursorInv
  <1>2. CASE PO!fetchFails
    BY <1>1, <1>2, CursorsKept, FailureTypes, NextMerchantKeeps DEF PO!fetchFails
  <1>3. CASE PO!publishFails
    BY <1>1, <1>3, CursorsKept, FailureTypes, NextMerchantKeeps DEF PO!publishFails
  <1>4. CASE PO!Restart
    <2>1. x4' \in Seq(Shops) /\ x4' = << >> /\ x7' = "waiting"
      BY <1>4 DEF PO!Restart
    <2> QED BY <1>1, <1>4, <2>1, CursorsKept, FailureTypes, TurnEnds DEF PO!Restart
  <1>5. CASE UNCHANGED PO!vars
    BY <1>5
       DEF PO!vars, PO!CursorInv, PO!TypeOK, PO!SourceInOrder, PO!NothingLeftBehind,
           PO!CursorFromSource, PO!BatchLeavesNothing, PO!LatestLeavesNothing, PO!Since, PO!Current,
           PO!Documents
  <1> QED BY <1>2, <1>3, <1>4, <1>5, PollTickKeeps, PollFetchKeeps, PollPublishKeeps,
             CursorSaveKeeps, AppearKeeps, CursorExpiresKeeps
             DEF PO!Next

-----------------------------------------------------------------------------
(***************************************************************************)
(* Receipts and their workflows, for any receipts, clerks and engines. x1  *)
(* is documents, x2 definition, x3 executions, x4 clerk, x5 engine, x6     *)
(* clock, x7 stamps and x8 endings.                                        *)
(*                                                                         *)
(* One engine at a time holds the row of an execution, and what it read is *)
(* still so; an execution that ended did so once, with the status it has,  *)
(* and a receipt has the completed_at of its first closing.                *)
(***************************************************************************)
LEMMA ReceivingConstants ==
    MaxExecutions \in Nat /\ MaxAdvances \in Nat /\ IsFiniteSet(Clerks)
  BY EdgeAssumption

\* The parts of the invariant about receipts and clerks, and about executions.
OfficeTypes ==
    /\ x1 \in [Receipts -> [status : {"in_transit", "closed", "cancelled"},
                                   completed_at : 0..x6, variance : BOOLEAN]]
    /\ x4 \in [Clerks -> {RE!Idle} \union ({"resolve", "kickoff"} \X Receipts)]
    /\ x6 \in 0..MaxExecutions
    /\ x7 \in [Receipts -> SUBSET (1..x6)]

\* The parts of the invariant about executions and engines.
FlowTypes ==
    /\ x3 \in Seq(RE!Execution)
    /\ x5 \in [Engines -> {RE!Idle} \union ({"locked", "read"} \X (1..Len(x3)))]
    /\ x8 \in Seq(Seq(RE!Terminal)) /\ Len(x8) = Len(x3)

\* An execution ended once at most, with the status it has.
EndingsRight ==
    \A x \in 1..Len(x3) :
        /\ Len(x8[x]) <= 1
        /\ IF x8[x] = << >> THEN x3[x].status \notin RE!Terminal
                                 ELSE x3[x].status = Head(x8[x])

FlowInv == FlowTypes /\ EndingsRight /\ RE!OneHolder /\ RE!ReadIsOpen

\* The clerks who are between two statements.
Busy == {c \in Clerks : x4[c] # RE!Idle}

\* The invariant is that of receipts, that of executions, and their count.
LEMMA FinishParts ==
    RE!FinishInv <=> /\ OfficeTypes /\ x2 \in BOOLEAN /\ FlowInv
                     /\ RE!FirstStampKept /\ RE!ClosesCounted
  <1> USE ReceivingConstants
  <1>1. ASSUME RE!FinishInv
        PROVE  /\ OfficeTypes /\ x2 \in BOOLEAN /\ FlowInv
               /\ RE!FirstStampKept /\ RE!ClosesCounted
    <2>1. DOMAIN x3 = 1..Len(x3)
      BY <1>1 DEF RE!FinishInv, RE!TypeOK
    <2> QED BY <1>1, <2>1
               DEF RE!FinishInv, RE!TypeOK, RE!FinishedStays, OfficeTypes, FlowInv, FlowTypes,
                   EndingsRight
  <1>2. ASSUME OfficeTypes, x2 \in BOOLEAN, FlowInv, RE!FirstStampKept, RE!ClosesCounted
        PROVE  RE!FinishInv
    <2>1. x3 \in Seq(RE!Execution) /\ DOMAIN x3 = 1..Len(x3)
      BY <1>2 DEF FlowInv, FlowTypes
    <2>2. Len(x3) \in Nat /\ x6 \in Nat /\ x6 <= MaxExecutions
      BY <1>2, <2>1 DEF OfficeTypes
    <2>3. IsFiniteSet(Busy) /\ Cardinality(Busy) \in Nat
      BY FS_Subset, FS_CardinalityType DEF Busy
    <2>4. Len(x3) <= x6
      BY EdgeCardinality, <1>2, <2>2, <2>3 DEF RE!ClosesCounted, Busy
    <2>5. RE!TypeOK
      BY <1>2, <2>1, <2>2, <2>4 DEF RE!TypeOK, OfficeTypes, FlowInv, FlowTypes
    <2>6. ASSUME NEW d \in Receipts
          PROVE  Cardinality(x7[d]) <= 1 /\ x1[d].completed_at \in x7[d] \union {0}
      <3>1. x7[d] = {x1[d].completed_at} \ {0}
        BY <1>2 DEF RE!FirstStampKept
      <3>2. CASE x1[d].completed_at = 0
        <4>1. x7[d] = {}
          BY <3>1, <3>2
        <4> QED BY <3>2, <4>1, FS_EmptySet
      <3>3. CASE x1[d].completed_at # 0
        <4>1. x7[d] = {x1[d].completed_at}
          BY <3>1, <3>3
        <4>2. Cardinality(x7[d]) = 1
          BY <4>1, FS_Singleton
        <4> QED BY <4>1, <4>2
      <3> QED BY <3>2, <3>3
    <2>7. RE!FinishedStays
      BY EdgeCardinality, <1>2, <2>1, <2>4, <2>6 DEF RE!FinishedStays, FlowInv, EndingsRight
    <2> QED BY <1>2, <2>5, <2>7 DEF RE!FinishInv, FlowInv
  <1> QED BY <1>1, <1>2

\* The same of the next state.
LEMMA FinishPartsNext ==
    ASSUME OfficeTypes', (x2 \in BOOLEAN)', FlowInv', RE!FirstStampKept', RE!ClosesCounted'
    PROVE  RE!FinishInv'
  BY FinishParts, PTL

\* At first no execution has started.
LEMMA FinishInit == RE!Init => RE!FinishInv
  <1> SUFFICES ASSUME RE!Init PROVE RE!FinishInv
    OBVIOUS
  <1> USE ReceivingConstants
  <1>1. OfficeTypes
    <2>1. x1 = [d \in Receipts |->
                          [status |-> "in_transit", completed_at |-> 0, variance |-> FALSE]]
      BY DEF RE!Init
    <2>2. x4 = [c \in Clerks |-> RE!Idle] /\ x6 = 0 /\ x7 = [d \in Receipts |-> {}]
      BY DEF RE!Init
    <2> QED BY <2>1, <2>2 DEF OfficeTypes
  <1>2. x3 = << >> /\ x8 = << >> /\ Len(x3) = 0
    BY DEF RE!Init
  <1>3. FlowInv
    BY <1>2 DEF RE!Init, FlowInv, FlowTypes, EndingsRight, RE!OneHolder, RE!ReadIsOpen, RE!Idle
  <1>4. RE!FirstStampKept
    BY DEF RE!Init, RE!FirstStampKept
  <1>5. RE!ClosesCounted
    <2>1. x4 = [c \in Clerks |-> RE!Idle] /\ x6 = 0
      BY DEF RE!Init
    <2>2. {c \in Clerks : x4[c] # RE!Idle} = {}
      BY <2>1
    <2> QED BY EdgeCardinality, <1>2, <2>1, <2>2, FS_EmptySet DEF RE!ClosesCounted
  <1>6. x2 \in BOOLEAN
    BY DEF RE!Init
  <1> QED BY <1>1, <1>3, <1>4, <1>5, <1>6, FinishParts

\* One clerk goes to v.
LEMMA BusyChanges ==
    ASSUME OfficeTypes, NEW c \in Clerks, NEW v, x4' = [x4 EXCEPT ![c] = v]
    PROVE  /\ Cardinality(Busy) \in Nat /\ Cardinality(Busy') \in Nat
           /\ Cardinality(Busy') <= Cardinality(Busy) + 1
           /\ x4[c] # RE!Idle => Cardinality(Busy') <= Cardinality(Busy)
           /\ x4[c] # RE!Idle /\ v = RE!Idle => Cardinality(Busy') = Cardinality(Busy) - 1
  <1>1. IsFiniteSet(Busy) /\ Cardinality(Busy) \in Nat
    BY ReceivingConstants, FS_Subset, FS_CardinalityType DEF Busy
  <1>2. Busy' = IF v = RE!Idle THEN Busy \ {c} ELSE Busy \union {c}
    BY DEF Busy, OfficeTypes
  <1>3. x4[c] # RE!Idle <=> c \in Busy
    BY DEF Busy
  <1>4. CASE v = RE!Idle
    <2>1. Busy' = Busy \ {c}
      BY <1>2, <1>4
    <2>2. Cardinality(Busy \ {c}) = IF c \in Busy THEN Cardinality(Busy) - 1 ELSE Cardinality(Busy)
      BY <1>1, FS_RemoveElement
    <2>3. Cardinality(Busy \ {c}) \in Nat
      BY <1>1, FS_RemoveElement, FS_CardinalityType
    <2> QED BY <1>1, <1>3, <2>1, <2>2, <2>3
  <1>5. CASE v # RE!Idle
    <2>1. Busy' = Busy \union {c}
      BY <1>2, <1>5
    <2>2. Cardinality(Busy \union {c}) =
             IF c \in Busy THEN Cardinality(Busy) ELSE Cardinality(Busy) + 1
      BY <1>1, FS_AddElement
    <2> QED BY <1>1, <1>3, <1>5, <2>1, <2>2
  <1> QED BY <1>4, <1>5

\* What leaves the executions alone keeps what is said of them.
LEMMA FlowsKept ==
    ASSUME FlowInv, UNCHANGED RE!flows PROVE FlowInv'
  BY DEF RE!flows, FlowInv, FlowTypes, EndingsRight, RE!OneHolder, RE!ReadIsOpen

\* What leaves the receipts alone keeps what is said of them.
LEMMA OfficeKept ==
    ASSUME OfficeTypes, RE!FirstStampKept, UNCHANGED RE!office
    PROVE  OfficeTypes' /\ RE!FirstStampKept'
  BY DEF RE!office, OfficeTypes, RE!FirstStampKept

\* The first status update of a receipt stamps it, and no other does.
LEMMA StampKeeps ==
    ASSUME OfficeTypes, RE!FirstStampKept, x6 < MaxExecutions,
           NEW d \in Receipts, NEW s \in {"closed", "cancelled"}, RE!UpdateDocumentStatus(d, s),
           x4' \in [Clerks -> {RE!Idle} \union ({"resolve", "kickoff"} \X Receipts)]
    PROVE  OfficeTypes' /\ RE!FirstStampKept'
  <1> USE ReceivingConstants
  <1> DEFINE at == RE!Completed(x1[d], x6')
  <1>1. /\ x6' = x6 + 1 /\ x6 \in Nat
        /\ x1' = [x1 EXCEPT ![d].status = s, ![d].completed_at = at]
        /\ x7' = [x7 EXCEPT ![d] = @ \union {at}]
    BY DEF RE!UpdateDocumentStatus, OfficeTypes
  <1>2. x1[d].completed_at \in 0..x6
    BY DEF OfficeTypes
  <1>3. at \in 1..x6' /\ (x1[d].completed_at # 0 => at = x1[d].completed_at)
    BY <1>1, <1>2 DEF RE!Completed
  <1> HIDE DEF at
  <1>4. x1' \in [Receipts -> [status : {"in_transit", "closed", "cancelled"},
                                     completed_at : 0..x6', variance : BOOLEAN]]
    <2> DEFINE ReceiptRow(n) == [status : {"in_transit", "closed", "cancelled"},
                          completed_at : 0..n, variance : BOOLEAN]
    <2>1. 0..x6 \subseteq 0..x6'
      BY <1>1
    <2>2. ReceiptRow(x6) \subseteq ReceiptRow(x6')
      BY <2>1
    <2>3. x1 \in [Receipts -> ReceiptRow(x6)]
      BY DEF OfficeTypes
    <2>4. [x1[d] EXCEPT !.status = s, !.completed_at = at] \in ReceiptRow(x6')
      <3>1. x1[d] \in ReceiptRow(x6') /\ at \in 0..x6'
        BY <1>1, <1>3, <2>2, <2>3
      <3> QED BY <3>1
    <2> HIDE DEF ReceiptRow
    <2>5. x1' = [x1 EXCEPT ![d] = [x1[d] EXCEPT !.status = s, !.completed_at = at]]
      BY <1>1
    <2>6. x1' \in [Receipts -> ReceiptRow(x6')]
      BY <2>2, <2>3, <2>4, <2>5
    <2> QED BY <2>6 DEF ReceiptRow
  <1>5. x7' \in [Receipts -> SUBSET (1..x6')]
    BY <1>1, <1>3 DEF OfficeTypes
  <1>6. OfficeTypes'
    BY <1>1, <1>4, <1>5 DEF OfficeTypes
  <1>7. ASSUME NEW e \in Receipts PROVE x7'[e] = {x1'[e].completed_at} \ {0}
    <2>1. CASE e = d
      <3>1. x1'[d].completed_at = at /\ x7'[d] = x7[d] \union {at}
        BY <1>1 DEF OfficeTypes
      <3>2. x7[d] = {x1[d].completed_at} \ {0}
        BY DEF RE!FirstStampKept
      <3>3. x7[d] \subseteq {at} /\ at # 0
        BY <1>3, <3>2
      <3> QED BY <2>1, <3>1, <3>3
    <2>2. CASE e # d
      <3>1. x1'[e] = x1[e] /\ x7'[e] = x7[e]
        BY <1>1, <2>2 DEF OfficeTypes
      <3> QED BY <3>1 DEF RE!FirstStampKept
    <2> QED BY <2>1, <2>2
  <1> QED BY <1>6, <1>7 DEF RE!FirstStampKept

\* An engine that goes to v, on executions that stay: it lets the lock go, keeps
\* it, or takes a free one.
LEMMA EngineMoves ==
    ASSUME FlowInv, NEW n \in Engines, NEW v,
           x5' = [x5 EXCEPT ![n] = v], UNCHANGED <<x3, x8>>,
           \/ v = RE!Idle
           \/ \E x \in 1..Len(x3) :
                 \/ /\ v = <<"locked", x>>
                    /\ \A m \in Engines : x5[m] \notin {<<"locked", x>>, <<"read", x>>}
                 \/ /\ v = <<"read", x>> /\ x5[n] = <<"locked", x>>
                    /\ x3[x].status \notin RE!Terminal
    PROVE  FlowInv'
  <1>1. x5 \in [Engines -> {RE!Idle} \union ({"locked", "read"} \X (1..Len(x3)))]
    BY DEF FlowInv, FlowTypes
  <1>2. \A m \in Engines : x5[m] # RE!Idle =>
            \E y \in 1..Len(x3) : x5[m] \in {<<"locked", y>>, <<"read", y>>}
    BY <1>1
  <1>3. /\ x5'[n] = v /\ \A m \in Engines \ {n} : x5'[m] = x5[m]
        /\ x5' \in [Engines -> {RE!Idle} \union ({"locked", "read"} \X (1..Len(x3)))]
    BY <1>1
  <1>4. FlowTypes'
    BY <1>3 DEF FlowInv, FlowTypes
  <1>5. EndingsRight'
    BY DEF FlowInv, EndingsRight
  <1>6. RE!ReadIsOpen'
    <2> SUFFICES ASSUME NEW m \in Engines, NEW x \in DOMAIN x3, x5'[m] = <<"read", x>>
                 PROVE  x3[x].status \notin RE!Terminal
      BY DEF RE!ReadIsOpen
    <2>1. CASE m = n
      <3>1. v = <<"read", x>> /\ v # RE!Idle
        BY <1>3, <2>1 DEF RE!Idle
      <3>2. PICK y \in 1..Len(x3) : v = <<"read", y>> /\ x3[y].status \notin RE!Terminal
        BY <3>1
      <3>3. y = x
        BY <3>1, <3>2
      <3> QED BY <3>2, <3>3
    <2>2. CASE m # n
      BY <1>3, <2>2 DEF FlowInv, RE!ReadIsOpen
    <2> QED BY <2>1, <2>2
  <1>7. ASSUME NEW m \in Engines \ {n}, v # RE!Idle, x5[m] # RE!Idle
        PROVE  v[2] # x5[m][2]
    <2>1. PICK y \in 1..Len(x3) : x5[m] \in {<<"locked", y>>, <<"read", y>>}
      BY <1>2, <1>7
    <2>2. x5[m][2] = y
      BY <2>1
    <2>3. ASSUME NEW x \in 1..Len(x3), v = <<"locked", x>>,
                 \A k \in Engines : x5[k] \notin {<<"locked", x>>, <<"read", x>>}
          PROVE  v[2] # x5[m][2]
      <3>1. v[2] = x
        BY <2>3
      <3> QED BY <2>1, <2>2, <2>3, <3>1
    <2>4. ASSUME NEW x \in 1..Len(x3), v = <<"read", x>>, x5[n] = <<"locked", x>>
          PROVE  v[2] # x5[m][2]
      <3>1. v[2] = x /\ x5[n][2] = x /\ x5[n] # RE!Idle
        BY <2>4 DEF RE!Idle
      <3> QED BY <1>7, <3>1 DEF FlowInv, RE!OneHolder
    <2> QED BY <1>7, <2>3, <2>4
  <1>8. RE!OneHolder'
    <2> SUFFICES ASSUME NEW m \in Engines, NEW k \in Engines, x5'[m] # RE!Idle,
                        x5'[k] # RE!Idle, x5'[m][2] = x5'[k][2], m # k
                 PROVE  FALSE
      BY DEF RE!OneHolder
    <2>1. CASE m # n /\ k # n
      BY <1>3, <2>1 DEF FlowInv, RE!OneHolder
    <2>2. CASE m = n
      BY <1>3, <1>7, <2>2
    <2>3. CASE k = n
      BY <1>3, <1>7, <2>3
    <2> QED BY <2>1, <2>2, <2>3
  <1> QED BY <1>4, <1>5, <1>6, <1>8 DEF FlowInv

\* The holder of x writes its row and lets the lock go.
LEMMA RowWritten ==
    ASSUME FlowInv, NEW n \in Engines, NEW x \in 1..Len(x3), x5[n] = <<"read", x>>,
           NEW e \in RE!Execution, x3' = [x3 EXCEPT ![x] = e],
           x5' = [x5 EXCEPT ![n] = RE!Idle],
           \/ e.status \notin RE!Terminal /\ x8' = x8
           \/ /\ e.status \in RE!Terminal
              /\ x8' = [x8 EXCEPT ![x] = Append(@, e.status)]
    PROVE  FlowInv' /\ Len(x3') = Len(x3)
  <1>1. /\ x3 \in Seq(RE!Execution) /\ x8 \in Seq(Seq(RE!Terminal))
        /\ Len(x8) = Len(x3) /\ DOMAIN x3 = 1..Len(x3)
        /\ x5 \in [Engines -> {RE!Idle} \union ({"locked", "read"} \X (1..Len(x3)))]
    BY DEF FlowInv, FlowTypes
  <1>2. x3[x].status \notin RE!Terminal /\ x8[x] = << >>
    <2>1. x3[x].status \notin RE!Terminal
      BY <1>1 DEF FlowInv, RE!ReadIsOpen
    <2>2. x8[x] \in Seq(RE!Terminal)
      BY <1>1
    <2>3. x8[x] # << >> => Head(x8[x]) \in RE!Terminal
      BY <2>2
    <2> QED BY <2>1, <2>3 DEF FlowInv, EndingsRight
  <1>3. /\ x3' \in Seq(RE!Execution) /\ Len(x3') = Len(x3)
        /\ x3'[x] = e
        /\ \A y \in 1..Len(x3) : y # x => x3'[y] = x3[y]
    BY <1>1, ExceptSeq
  <1>4. ASSUME e.status \in RE!Terminal
        PROVE  LET h == Append(x8[x], e.status)
               IN  h \in Seq(RE!Terminal) /\ Len(h) = 1 /\ h # << >> /\ Head(h) = e.status
    BY <1>2, <1>4
  <1>5. /\ x8' \in Seq(Seq(RE!Terminal)) /\ Len(x8') = Len(x8)
        /\ \A y \in 1..Len(x3) : y # x => x8'[y] = x8[y]
        /\ x8'[x] = IF e.status \in RE!Terminal THEN Append(x8[x], e.status) ELSE x8[x]
    <2>1. CASE e.status \in RE!Terminal
      <3> DEFINE h == Append(x8[x], e.status)
      <3>1. h \in Seq(RE!Terminal) /\ x8' = [x8 EXCEPT ![x] = h]
        BY <1>4, <2>1
      <3> HIDE DEF h
      <3>2. x \in 1..Len(x8)
        BY <1>1
      <3>3. /\ x8' \in Seq(Seq(RE!Terminal)) /\ Len(x8') = Len(x8)
            /\ x8'[x] = h
            /\ \A y \in 1..Len(x8) : y # x => x8'[y] = x8[y]
        BY <1>1, <3>1, <3>2, ExceptSeq
      <3> QED BY <1>1, <2>1, <3>3 DEF h
    <2>2. CASE e.status \notin RE!Terminal
      BY <1>1, <2>2
    <2> QED BY <2>1, <2>2
  <1>6. /\ x5'[n] = RE!Idle /\ \A m \in Engines \ {n} : x5'[m] = x5[m]
        /\ x5' \in [Engines -> {RE!Idle} \union ({"locked", "read"} \X (1..Len(x3)))]
    BY <1>1
  <1>7. FlowTypes'
    BY <1>1, <1>3, <1>5, <1>6 DEF FlowTypes
  <1>8. EndingsRight'
    <2> SUFFICES ASSUME NEW y \in 1..Len(x3)
                 PROVE  /\ Len(x8'[y]) <= 1
                        /\ IF x8'[y] = << >> THEN x3'[y].status \notin RE!Terminal
                           ELSE x3'[y].status = Head(x8'[y])
      BY <1>3 DEF EndingsRight
    <2>1. CASE y # x
      BY <1>3, <1>5, <2>1 DEF FlowInv, EndingsRight
    <2>2. CASE y = x /\ e.status \in RE!Terminal
      BY <1>3, <1>4, <1>5, <2>2
    <2>3. CASE y = x /\ e.status \notin RE!Terminal
      BY <1>2, <1>3, <1>5, <2>3
    <2> QED BY <2>1, <2>2, <2>3
  <1>9. RE!OneHolder'
    BY <1>6 DEF FlowInv, RE!OneHolder
  <1>10. RE!ReadIsOpen'
    <2> SUFFICES ASSUME NEW m \in Engines, NEW y \in 1..Len(x3), x5'[m] = <<"read", y>>
                 PROVE  x3'[y].status \notin RE!Terminal
      BY <1>3 DEF RE!ReadIsOpen
    <2>1. m # n /\ x5[m] = <<"read", y>>
      BY <1>6 DEF RE!Idle
    <2>2. x5[m] # RE!Idle /\ x5[m][2] = y /\ x5[n] # RE!Idle /\ x5[n][2] = x
      BY <2>1 DEF RE!Idle
    <2>3. y # x
      BY <2>1, <2>2 DEF FlowInv, RE!OneHolder
    <2> QED BY <1>1, <1>3, <2>1, <2>3 DEF FlowInv, RE!ReadIsOpen
  <1> QED BY <1>3, <1>7, <1>8, <1>9, <1>10 DEF FlowInv

\* The invariant after a step of the engines.
LEMMA FlowStep ==
    ASSUME RE!FinishInv, UNCHANGED <<RE!office, x2>>, FlowInv',
           Len(x3') = Len(x3)
    PROVE  RE!FinishInv'
  <1>1. RE!ClosesCounted'
    BY FinishParts DEF RE!ClosesCounted, RE!office
  <1>2. OfficeTypes' /\ RE!FirstStampKept'
    BY FinishParts, OfficeKept
  <1>3. (x2 \in BOOLEAN)'
    BY FinishParts
  <1> QED BY <1>1, <1>2, <1>3, FinishPartsNext

\* The invariant after a step of the office that starts no execution.
LEMMA OfficeStep ==
    ASSUME RE!FinishInv, UNCHANGED RE!flows, (x2 \in BOOLEAN)', OfficeTypes', RE!FirstStampKept',
           x6 \in Nat, x6' \in Nat, Cardinality(Busy) \in Nat, Cardinality(Busy') \in Nat,
           Cardinality(Busy') - Cardinality(Busy) <= x6' - x6
    PROVE  RE!FinishInv'
  <1>1. FlowInv'
    BY FinishParts, FlowsKept
  <1>2. Len(x3) \in Nat /\ Len(x3') = Len(x3)
    BY FinishParts DEF FlowInv, FlowTypes, RE!flows
  <1>3. RE!ClosesCounted'
    BY EdgeCardinality, <1>2, FinishParts DEF RE!ClosesCounted, Busy
  <1> QED BY <1>1, <1>3, FinishPartsNext

\* KickOff: a clerk starts the workflow of a receipt.
LEMMA KickOffKeeps ==
    ASSUME RE!FinishInv, NEW c \in Clerks, NEW d \in Receipts, RE!KickOff(c, d)
    PROVE  RE!FinishInv'
  <1> USE ReceivingConstants
  <1> DEFINE e == [ref |-> d, status |-> "pending", advances |-> 0]
             n == Len(x3) + 1
  <1>1. /\ x4[c] = <<"kickoff", d>> /\ x4' = [x4 EXCEPT ![c] = RE!Idle]
        /\ x3' = Append(x3, e) /\ x8' = Append(x8, << >>)
        /\ UNCHANGED <<x1, x2, x6, x7, x5>>
    BY DEF RE!KickOff
  <1>2. e \in RE!Execution /\ e.status \notin RE!Terminal
    BY DEF RE!Execution, RE!Terminal
  <1> HIDE DEF e
  <1>3. /\ x3 \in Seq(RE!Execution) /\ Len(x3) \in Nat
        /\ x8 \in Seq(Seq(RE!Terminal)) /\ Len(x8) = Len(x3)
        /\ << >> \in Seq(RE!Terminal)
    BY FinishParts DEF FlowInv, FlowTypes
  <1>4. /\ x3' \in Seq(RE!Execution) /\ Len(x3') = n
        /\ x8' \in Seq(Seq(RE!Terminal)) /\ Len(x8') = n
        /\ x3'[n] = e /\ x8'[n] = << >>
    BY <1>1, <1>2, <1>3
  <1>5. \A x \in 1..Len(x3) : x3'[x] = x3[x] /\ x8'[x] = x8[x]
    BY <1>1, <1>2, <1>3
  <1>6. \A x \in 1..n : x = n \/ x \in 1..Len(x3)
    BY <1>3
  <1>7. FlowTypes'
    <2>1. 1..Len(x3) \subseteq 1..Len(x3')
      BY <1>3, <1>4
    <2> QED BY <1>1, <1>4, <2>1, FinishParts DEF FlowInv, FlowTypes
  <1>8. EndingsRight'
    <2> SUFFICES ASSUME NEW x \in 1..n
                 PROVE  /\ Len(x8'[x]) <= 1
                        /\ IF x8'[x] = << >> THEN x3'[x].status \notin RE!Terminal
                           ELSE x3'[x].status = Head(x8'[x])
      BY <1>4 DEF EndingsRight
    <2>1. CASE x = n
      BY <1>2, <1>4, <2>1
    <2>2. CASE x \in 1..Len(x3)
      BY <1>5, <2>2, FinishParts DEF FlowInv, EndingsRight
    <2> QED BY <1>6, <2>1, <2>2
  <1>9. RE!OneHolder'
    BY <1>1, FinishParts DEF FlowInv, RE!OneHolder
  <1>10. RE!ReadIsOpen'
    <2> SUFFICES ASSUME NEW m \in Engines, NEW x \in 1..n, x5[m] = <<"read", x>>
                 PROVE  x3'[x].status \notin RE!Terminal
      BY <1>1, <1>4 DEF RE!ReadIsOpen
    <2>1. CASE x = n
      BY <1>2, <1>4, <2>1
    <2>2. CASE x \in 1..Len(x3)
      <3>1. x \in DOMAIN x3
        BY <1>3, <2>2
      <3> QED BY <1>5, <2>2, <3>1, FinishParts DEF FlowInv, RE!ReadIsOpen
    <2> QED BY <1>6, <2>1, <2>2
  <1>11. /\ OfficeTypes /\ RE!FirstStampKept /\ (x2 \in BOOLEAN)'
    BY <1>1, FinishParts
  <1>12. OfficeTypes' /\ RE!FirstStampKept'
    BY <1>1, <1>11 DEF OfficeTypes, RE!FirstStampKept
  <1>13. RE!ClosesCounted'
    <2>1. x4[c] # RE!Idle
      BY <1>1 DEF RE!Idle
    <2>2. Cardinality(Busy) \in Nat /\ Cardinality(Busy') = Cardinality(Busy) - 1
      BY <1>1, <1>11, <2>1, BusyChanges
    <2>3. x6 \in Nat
      BY <1>11 DEF OfficeTypes
    <2> QED BY EdgeCardinality, <1>1, <1>3, <1>4, <2>2, <2>3, FinishParts DEF RE!ClosesCounted, Busy
  <1> QED BY <1>7, <1>8, <1>9, <1>10, <1>11, <1>12, <1>13, FinishPartsNext DEF FlowInv

\* Every action of Receiving keeps the invariant.
LEMMA FinishStep == RE!FinishInv /\ [RE!Next]_(RE!vars) => RE!FinishInv'
  <1> SUFFICES ASSUME RE!FinishInv, [RE!Next]_(RE!vars) PROVE RE!FinishInv'
    OBVIOUS
  <1> USE ReceivingConstants
  <1>1. OfficeTypes /\ (x2 \in BOOLEAN) /\ FlowInv /\ RE!FirstStampKept
    BY FinishParts
  <1>2. /\ x3 \in Seq(RE!Execution) /\ DOMAIN x3 = 1..Len(x3)
        /\ x6 \in Nat /\ x6 <= MaxExecutions
    BY <1>1 DEF FlowInv, FlowTypes, OfficeTypes
  <1>3. IsFiniteSet(Busy) /\ Cardinality(Busy) \in Nat
    BY FS_Subset, FS_CardinalityType DEF Busy
  <1>4. CASE RE!RegisterDefinition
    <2>1. UNCHANGED <<RE!office, RE!flows>> /\ (x2 \in BOOLEAN)'
      BY <1>4 DEF RE!RegisterDefinition
    <2>2. Busy' = Busy /\ x6' = x6
      BY <2>1 DEF Busy, RE!office
    <2> QED BY <1>1, <1>2, <1>3, <2>1, <2>2, OfficeKept, OfficeStep
  <1>5. ASSUME NEW d \in Receipts, RE!Cancel(d) PROVE RE!FinishInv'
    <2>1. /\ x6 < MaxExecutions /\ RE!UpdateDocumentStatus(d, "cancelled")
          /\ UNCHANGED <<x2, x4, RE!flows>>
      BY <1>5 DEF RE!Cancel
    <2>2. x4' \in [Clerks -> {RE!Idle} \union ({"resolve", "kickoff"} \X Receipts)]
      BY <1>1, <2>1 DEF OfficeTypes
    <2>3. OfficeTypes' /\ RE!FirstStampKept'
      BY <1>1, <2>1, <2>2, StampKeeps
    <2>4. Busy' = Busy /\ x6' = x6 + 1
      BY <2>1 DEF Busy, RE!UpdateDocumentStatus
    <2> QED BY <1>1, <1>2, <1>3, <2>1, <2>3, <2>4, OfficeStep
  <1>6. ASSUME NEW d \in Receipts, RE!receivingLineDiscrepancyAction(d) PROVE RE!FinishInv'
    <2>1. /\ x1' = [x1 EXCEPT ![d].variance = TRUE]
          /\ UNCHANGED <<x2, x4, x6, x7, RE!flows>>
      BY <1>6 DEF RE!receivingLineDiscrepancyAction
    <2>2. x1' \in [Receipts -> [status : {"in_transit", "closed", "cancelled"},
                                       completed_at : 0..x6, variance : BOOLEAN]]
      BY <1>1, <2>1 DEF OfficeTypes
    <2>3. OfficeTypes'
      BY <1>1, <2>1, <2>2 DEF OfficeTypes
    <2>4. \A e \in Receipts : x1'[e].completed_at = x1[e].completed_at
      BY <1>1, <2>1 DEF OfficeTypes
    <2>5. RE!FirstStampKept'
      BY <1>1, <2>1, <2>4 DEF RE!FirstStampKept
    <2>6. Busy' = Busy /\ x6' = x6
      BY <2>1 DEF Busy
    <2> QED BY <1>1, <1>2, <1>3, <2>1, <2>3, <2>5, <2>6, OfficeStep
  <1>7. ASSUME NEW c \in Clerks, NEW d \in Receipts, RE!receivingCloseAction(c, d)
        PROVE  RE!FinishInv'
    <2>1. /\ x6 < MaxExecutions /\ RE!UpdateDocumentStatus(d, "closed")
          /\ x4' = [x4 EXCEPT ![c] = <<"resolve", d>>]
          /\ UNCHANGED <<x2, RE!flows>>
      BY <1>7 DEF RE!receivingCloseAction
    <2>2. x4' \in [Clerks -> {RE!Idle} \union ({"resolve", "kickoff"} \X Receipts)]
      BY <1>1, <2>1 DEF OfficeTypes
    <2>3. OfficeTypes' /\ RE!FirstStampKept'
      BY <1>1, <2>1, <2>2, StampKeeps
    <2>4. x6' = x6 + 1
      BY <2>1 DEF RE!UpdateDocumentStatus
    <2>5. Cardinality(Busy') \in Nat /\ Cardinality(Busy') <= Cardinality(Busy) + 1
      BY <1>1, <2>1, BusyChanges
    <2> QED BY <1>1, <1>2, <1>3, <2>1, <2>3, <2>4, <2>5, OfficeStep
  <1>8. ASSUME NEW c \in Clerks, UNCHANGED <<x1, x2, x6, x7, RE!flows>>,
               NEW v \in {RE!Idle} \union ({"resolve", "kickoff"} \X Receipts),
               x4[c] # RE!Idle, x4' = [x4 EXCEPT ![c] = v]
        PROVE  RE!FinishInv'
    <2>1. x4' \in [Clerks -> {RE!Idle} \union ({"resolve", "kickoff"} \X Receipts)]
      BY <1>1, <1>8 DEF OfficeTypes
    <2>2. OfficeTypes' /\ RE!FirstStampKept'
      BY <1>1, <1>8, <2>1 DEF OfficeTypes, RE!FirstStampKept
    <2>3. Cardinality(Busy') \in Nat /\ Cardinality(Busy') <= Cardinality(Busy)
      BY <1>1, <1>8, BusyChanges
    <2> QED BY <1>1, <1>2, <1>3, <1>8, <2>2, <2>3, OfficeStep
  <1>9. ASSUME NEW c \in Clerks, NEW d \in Receipts, RE!GetDefinitionByCode(c, d)
        PROVE  RE!FinishInv'
    <2>1. /\ x4[c] # RE!Idle /\ UNCHANGED <<x1, x2, x6, x7, RE!flows>>
          /\ \/ x4' = [x4 EXCEPT ![c] = <<"kickoff", d>>]
             \/ x4' = [x4 EXCEPT ![c] = RE!Idle]
      <3>1. x4[c] = <<"resolve", d>> /\ UNCHANGED <<x1, x2, x6, x7, RE!flows>>
        BY <1>9 DEF RE!GetDefinitionByCode
      <3>2. x4[c] # RE!Idle
        BY <3>1 DEF RE!Idle
      <3>3. CASE x2
        BY <1>9, <3>1, <3>2, <3>3 DEF RE!GetDefinitionByCode
      <3>4. CASE ~x2
        BY <1>9, <3>1, <3>2, <3>4 DEF RE!GetDefinitionByCode
      <3> QED BY <3>3, <3>4
    <2> QED BY <1>8, <2>1
  <1>10. ASSUME NEW c \in Clerks, RE!KickOffFails(c) PROVE RE!FinishInv'
    BY <1>8, <1>10 DEF RE!KickOffFails
  <1>11. ASSUME NEW n \in Engines, RE!RollsBack(n) PROVE RE!FinishInv'
    <2>1. x5' = [x5 EXCEPT ![n] = RE!Idle] /\ UNCHANGED <<RE!office, x2, x3, x8>>
      BY <1>11 DEF RE!RollsBack
    <2> QED BY <1>1, <2>1, EngineMoves, FlowStep
  <1>12. ASSUME NEW n \in Engines, NEW x \in 1..Len(x3), RE!acquireLock(n, x) PROVE RE!FinishInv'
    <2>1. /\ x5' = [x5 EXCEPT ![n] = <<"locked", x>>]
          /\ \A m \in Engines : x5[m] \notin {<<"locked", x>>, <<"read", x>>}
          /\ UNCHANGED <<RE!office, x2, x3, x8>>
      BY <1>12 DEF RE!acquireLock
    <2> QED BY <1>1, <2>1, EngineMoves, FlowStep
  <1>13. ASSUME NEW n \in Engines, NEW x \in 1..Len(x3), RE!txGetExecution(n, x)
         PROVE  RE!FinishInv'
    <2>1. /\ x5[n] = <<"locked", x>> /\ UNCHANGED <<RE!office, x2, x3, x8>>
          /\ \/ x5' = [x5 EXCEPT ![n] = RE!Idle]
             \/ /\ x5' = [x5 EXCEPT ![n] = <<"read", x>>]
                /\ x3[x].status \notin RE!Terminal
      BY <1>13 DEF RE!txGetExecution, RE!isTerminal
    <2> QED BY <1>1, <2>1, EngineMoves, FlowStep
  <1>14. ASSUME NEW x \in 1..Len(x3)
         PROVE  /\ x3[x].ref \in Receipts
                /\ x3[x].status \in {"pending", "running"} \union RE!Terminal
                /\ x3[x].advances \in 0..MaxAdvances
                /\ x3[x] \in RE!Execution
    <2>1. x3[x] \in RE!Execution
      BY <1>2
    <2> QED BY <2>1 DEF RE!Execution
  <1>15. ASSUME NEW n \in Engines, NEW x \in 1..Len(x3), RE!Advance(n, x) PROVE RE!FinishInv'
    <2> DEFINE e == [x3[x] EXCEPT !.status = "running", !.advances = @ + 1]
    <2>1. /\ x5[n] = <<"read", x>> /\ x3[x].advances < MaxAdvances
          /\ x3' = [x3 EXCEPT ![x] = e]
          /\ x5' = [x5 EXCEPT ![n] = RE!Idle]
          /\ UNCHANGED <<RE!office, x2, x8>>
      BY <1>15 DEF RE!Advance
    <2>2. e \in RE!Execution /\ e.status = "running"
      <3>1. x3[x] \in RE!Execution /\ x3[x].advances + 1 \in 0..MaxAdvances
        BY <1>14, <2>1
      <3> QED BY <3>1 DEF RE!Execution
    <2> HIDE DEF e
    <2>3. e.status \notin RE!Terminal
      BY <2>2 DEF RE!Terminal
    <2>4. FlowInv' /\ Len(x3') = Len(x3)
      BY <1>1, <2>1, <2>2, <2>3, RowWritten
    <2> QED BY <2>1, <2>4, FlowStep
  <1>16. ASSUME NEW n \in Engines, NEW x \in 1..Len(x3), RE!Complete(n, x) PROVE RE!FinishInv'
    <2>1. PICK status \in RE!Terminal :
              /\ x3' = [x3 EXCEPT ![x].status = status]
              /\ x8' = [x8 EXCEPT ![x] = Append(@, status)]
      BY <1>16 DEF RE!Complete
    <2> DEFINE e == [x3[x] EXCEPT !.status = status]
    <2>2. /\ x5[n] = <<"read", x>> /\ x5' = [x5 EXCEPT ![n] = RE!Idle]
          /\ UNCHANGED <<RE!office, x2>>
          /\ x3' = [x3 EXCEPT ![x] = e]
      BY <1>16, <2>1 DEF RE!Complete
    <2>3. e \in RE!Execution /\ e.status = status
      BY <1>14 DEF RE!Execution
    <2> HIDE DEF e
    <2>4. FlowInv' /\ Len(x3') = Len(x3)
      BY <1>1, <2>1, <2>2, <2>3, RowWritten
    <2> QED BY <2>2, <2>4, FlowStep
  <1>17. CASE UNCHANGED RE!vars
    <2>1. UNCHANGED RE!office /\ UNCHANGED RE!flows /\ x3' = x3
      BY <1>17 DEF RE!vars, RE!office, RE!flows
    <2>2. x2' = x2
      BY <1>17 DEF RE!vars
    <2>3. FlowInv'
      BY <1>1, <2>1, FlowsKept
    <2> QED BY <2>1, <2>2, <2>3, FlowStep
  <1> QED BY <1>2, <1>4, <1>5, <1>6, <1>7, <1>9, <1>10, <1>11, <1>12, <1>13, <1>15, <1>16, <1>17,
             KickOffKeeps
             DEF RE!Next

-----------------------------------------------------------------------------
(***************************************************************************)
(* Purchase orders, for any suppliers, orders and buyers. x1 is suppliers, *)
(* x2 orders, x3 update and x4 overtaken.                                  *)
(*                                                                         *)
(* A buyer that has read an order and checked the transition writes what   *)
(* the status that it read allows; an order follows the course of the      *)
(* statuses unless a write was overtaken.                                  *)
(***************************************************************************)
LEMMA PurchasingConstants ==
    MaxUpdates \in Nat
  BY EdgeAssumption

\* A row of an order, and a change that a buyer is making.
OrderShape ==
    [status : PU!Statuses, submitted_at : BOOLEAN, closed_at : BOOLEAN, updates : 0..MaxUpdates]
ChangeShape == [order : PONumbers, to : PU!Statuses, seen : 0..MaxUpdates]

\* The types of orders and changes, taken apart.
LEMMA OrderTypes ==
    ASSUME PU!TypeOK
    PROVE  /\ \A n \in PONumbers : x2[n] = PU!NoOrder \/ x2[n] \in OrderShape
           /\ \A n \in PONumbers : x2[n] \in OrderShape <=> x2[n].status \in PU!Statuses
           /\ \A n \in PONumbers : x2[n].updates \in Nat
           /\ \A b \in Buyers : x3[b] # PU!NoUpdate => x3[b] \in ChangeShape
           /\ PU!NoUpdate \notin ChangeShape
  <1> USE PurchasingConstants
  <1>1. \A n \in PONumbers : x2[n] = PU!NoOrder \/ x2[n] \in OrderShape
    BY DEF PU!TypeOK, OrderShape
  <1>2. PU!NoOrder.status \notin PU!Statuses /\ PU!NoOrder.updates = 0
    BY DEF PU!NoOrder, PU!Statuses
  <1>3. \A n \in PONumbers :
           x2[n] \in OrderShape => x2[n].status \in PU!Statuses /\ x2[n].updates \in Nat
    BY DEF OrderShape
  <1>4. \A b \in Buyers : x3[b] # PU!NoUpdate => x3[b] \in ChangeShape
    BY DEF PU!TypeOK, ChangeShape
  <1>5. PU!NoUpdate \notin ChangeShape
    BY DEF PU!NoUpdate, ChangeShape, PU!Statuses
  <1> QED BY <1>1, <1>2, <1>3, <1>4, <1>5

\* At first there are no orders.
LEMMA OrderInit == PU!Init => PU!OrderInv
  <1> SUFFICES ASSUME PU!Init PROVE PU!OrderInv
    OBVIOUS
  <1>1. /\ x1 = {} /\ x4 = {}
        /\ \A n \in PONumbers : x2[n] = PU!NoOrder
        /\ \A b \in Buyers : x3[b] = PU!NoUpdate
    BY DEF PU!Init
  <1>2. PU!TypeOK
    BY DEF PU!Init, PU!TypeOK
  <1>3. PU!NoOrder.status = "none" /\ PU!NoOrder.updates = 0 /\ PU!NoOrder.closed_at = FALSE
    BY DEF PU!NoOrder
  <1>4. PU!StampsMatchStatus
    BY <1>1, <1>3 DEF PU!StampsMatchStatus
  <1>5. PU!ChecksHold /\ PU!OrdersOnCourse
    BY <1>1 DEF PU!ChecksHold, PU!OrdersOnCourse, PU!OnCourse
  <1> QED BY <1>2, <1>4, <1>5 DEF PU!OrderInv

\* What StampsMatchStatus and OrdersOnCourse say of one order.
OrderRight(n) ==
    LET o == x2[n]
    IN  /\ o.status \in {"submitted", "received", "closed"} => o.submitted_at
        /\ o.status \in {"closed", "cancelled"} => o.closed_at
        /\ n \notin x4 => PU!OnCourse(o)

AllOrdersRight == \A n \in PONumbers : OrderRight(n)

\* The parts of the invariant about one order.
LEMMA OrdersRight ==
    /\ PU!OrderInv => \A n \in PONumbers : OrderRight(n)
    /\ AllOrdersRight => PU!StampsMatchStatus /\ PU!OrdersOnCourse
  <1>1. PU!NoOrder.status = "none" /\ PU!NoOrder.updates = 0 /\ PU!NoOrder.closed_at = FALSE
    BY DEF PU!NoOrder
  <1>2. PU!OrderInv => \A n \in PONumbers : OrderRight(n)
    BY DEF PU!OrderInv, PU!StampsMatchStatus, PU!OrdersOnCourse, OrderRight
  <1>3. ASSUME AllOrdersRight PROVE PU!StampsMatchStatus /\ PU!OrdersOnCourse
    <2>1. ASSUME NEW n \in PONumbers
          PROVE  LET o == x2[n]
                 IN  /\ o.status \in {"submitted", "received", "closed"} => o.submitted_at
                     /\ o.status \in {"closed", "cancelled"} => o.closed_at
                     /\ n \notin x4 =>
                           /\ o.closed_at => o.status \in {"closed", "cancelled"}
                           /\ o.status = "received" <=> o.updates = 2 /\ ~o.closed_at
                           /\ PU!OnCourse(o)
      <3>1. OrderRight(n)
        BY <1>3 DEF AllOrdersRight
      <3>2. ASSUME PU!OnCourse(x2[n])
            PROVE  /\ x2[n].closed_at => x2[n].status \in {"closed", "cancelled"}
                   /\ x2[n].status = "received" <=> x2[n].updates = 2 /\ ~x2[n].closed_at
        BY <1>1, <3>2 DEF PU!OnCourse
      <3> QED BY <3>1, <3>2 DEF OrderRight
    <2> QED BY <2>1 DEF PU!StampsMatchStatus, PU!OrdersOnCourse
  <1> QED BY <1>2, <1>3

\* Orders stay, and so do the checks that are under way or fewer of them.
LEMMA OrdersStay ==
    ASSUME PU!OrderInv, x2' = x2, x4' = x4, x1' \subseteq Suppliers,
           x3' \in [Buyers -> {PU!NoUpdate} \union ChangeShape],
           \A b \in Buyers : x3'[b] # PU!NoUpdate => x3'[b] = x3[b]
    PROVE  PU!OrderInv'
  <1>1. PU!TypeOK'
    BY DEF PU!OrderInv, PU!TypeOK, ChangeShape, PU!NoUpdate, PU!NoOrder, PU!Statuses
  <1>2. PU!StampsMatchStatus' /\ PU!OrdersOnCourse'
    BY DEF PU!OrderInv, PU!StampsMatchStatus, PU!OrdersOnCourse, PU!OnCourse, PU!NoOrder
  <1>3. PU!ChecksHold'
    <2> SUFFICES ASSUME NEW b \in Buyers, x3'[b] # PU!NoUpdate
                 PROVE  LET o == x2[x3'[b].order]
                        IN  /\ o.status \in PU!Statuses /\ x3'[b].seen <= o.updates
                            /\ x3'[b].seen = o.updates => PU!validTransition(o.status, x3'[b].to)
                            /\ x3'[b].to \in {"received", "closed"} => o.submitted_at
      BY DEF PU!ChecksHold
    <2>1. x3'[b] = x3[b]
      OBVIOUS
    <2> QED BY <2>1 DEF PU!OrderInv, PU!ChecksHold
  <1> QED BY <1>1, <1>2, <1>3 DEF PU!OrderInv

\* poCreate: an order starts as a draft without stamps.
LEMMA OrderCreateKeeps == ASSUME PU!OrderInv, NEW n \in PONumbers, PU!poCreate(n) PROVE PU!OrderInv'
  <1> USE PurchasingConstants
  <1> DEFINE o == [x2[n] EXCEPT !.status = "draft"]
  <1>1. /\ x2[n] = PU!NoOrder /\ x2' = [x2 EXCEPT ![n] = o]
        /\ UNCHANGED <<x1, x3, x4>>
    BY DEF PU!poCreate
  <1>2. o \in OrderShape /\ o.status = "draft" /\ o.updates = 0 /\ ~o.closed_at
    <2> DEFINE Blank == [status : PU!Statuses \union {"none"}, submitted_at : BOOLEAN,
                         closed_at : BOOLEAN, updates : 0..MaxUpdates]
    <2>1. PU!NoOrder \in Blank
      BY DEF PU!NoOrder
    <2>2. PU!NoOrder.updates = 0 /\ ~PU!NoOrder.closed_at
      BY DEF PU!NoOrder
    <2>3. \A e \in Blank : LET d == [e EXCEPT !.status = "draft"]
                          IN  /\ d \in OrderShape /\ d.status = "draft"
                              /\ d.updates = e.updates /\ d.closed_at = e.closed_at
      BY DEF OrderShape, PU!Statuses
    <2> HIDE DEF Blank
    <2>4. o = [PU!NoOrder EXCEPT !.status = "draft"]
      BY <1>1
    <2> HIDE DEF o
    <2> QED BY <2>1, <2>2, <2>3, <2>4
  <1> HIDE DEF o
  <1>3. x2'[n] = o /\ \A m \in PONumbers : m # n => x2'[m] = x2[m]
    BY <1>1 DEF PU!OrderInv, PU!TypeOK
  <1>4. PU!TypeOK'
    BY <1>1, <1>2 DEF PU!OrderInv, PU!TypeOK, OrderShape, PU!NoUpdate, PU!NoOrder
  <1>5. ASSUME NEW m \in PONumbers PROVE OrderRight(m)'
    <2>1. CASE m = n
      BY <1>2, <1>3, <2>1 DEF OrderRight, PU!OnCourse
    <2>2. CASE m # n
      BY <1>1, <1>3, <2>2, OrdersRight DEF OrderRight
    <2> QED BY <2>1, <2>2
  <1>6. PU!ChecksHold'
    <2>1. \A b \in Buyers : x3[b] # PU!NoUpdate =>
             /\ x3[b].order \in PONumbers
             /\ x2[x3[b].order].status \in PU!Statuses
      BY OrderTypes DEF PU!OrderInv, PU!ChecksHold, ChangeShape
    <2>2. x2[n].status \notin PU!Statuses
      BY <1>1 DEF PU!NoOrder, PU!Statuses
    <2> QED BY <1>1, <1>3, <2>1, <2>2 DEF PU!OrderInv, PU!ChecksHold
  <1>7. PU!StampsMatchStatus' /\ PU!OrdersOnCourse'
    <2>1. AllOrdersRight'
      BY <1>5 DEF AllOrdersRight
    <2> QED BY <2>1, OrdersRight, PTL
  <1> QED BY <1>4, <1>6, <1>7 DEF PU!OrderInv

\* Get: a buyer reads an order and checks the transition.
LEMMA OrderGetKeeps == ASSUME PU!OrderInv, NEW b \in Buyers, PU!Get(b) PROVE PU!OrderInv'
  <1> USE PurchasingConstants
  <1>1. PICK n \in PONumbers, to \in PU!Statuses :
            /\ PU!validTransition(x2[n].status, to) /\ x2[n].updates < MaxUpdates
            /\ x3' = [x3 EXCEPT ![b] = [order |-> n, to |-> to, seen |-> x2[n].updates]]
    BY DEF PU!Get
  <1> DEFINE u == [order |-> n, to |-> to, seen |-> x2[n].updates]
  <1>2. UNCHANGED <<x1, x2, x4>>
    BY DEF PU!Get
  <1>3. /\ u \in ChangeShape /\ u.order = n /\ u.to = to /\ u.seen = x2[n].updates
        /\ x3' = [x3 EXCEPT ![b] = u]
    BY <1>1, OrderTypes DEF PU!OrderInv, ChangeShape
  <1> HIDE DEF u
  <1>4. x3'[b] = u /\ \A c \in Buyers : c # b => x3'[c] = x3[c]
    BY <1>3 DEF PU!OrderInv, PU!TypeOK
  <1>5. PU!TypeOK'
    BY <1>2, <1>3 DEF PU!OrderInv, PU!TypeOK, ChangeShape, PU!NoUpdate, PU!NoOrder, PU!Statuses
  <1>6. PU!StampsMatchStatus' /\ PU!OrdersOnCourse'
    BY <1>2 DEF PU!OrderInv, PU!StampsMatchStatus, PU!OrdersOnCourse, PU!OnCourse, PU!NoOrder
  <1>7. /\ x2[n].status \in PU!Statuses
        /\ to \in {"received", "closed"} => x2[n].submitted_at
    <2>1. x2[n].status \in {"draft", "submitted", "received"}
      BY <1>1 DEF PU!validTransition
    <2>2. to \in {"received", "closed"} => x2[n].status \in {"submitted", "received"}
      BY <1>1 DEF PU!validTransition
    <2> QED BY <2>1, <2>2, OrdersRight DEF OrderRight, PU!Statuses
  <1>8. ASSUME NEW c \in Buyers, x3'[c] # PU!NoUpdate
        PROVE  LET o == x2[x3'[c].order]
               IN  /\ o.status \in PU!Statuses /\ x3'[c].seen <= o.updates
                   /\ x3'[c].seen = o.updates => PU!validTransition(o.status, x3'[c].to)
                   /\ x3'[c].to \in {"received", "closed"} => o.submitted_at
    <2>1. CASE c = b
      <3>1. x2[n].updates <= x2[n].updates
        BY OrderTypes DEF PU!OrderInv
      <3> QED BY <1>1, <1>3, <1>4, <1>7, <2>1, <3>1
    <2>2. CASE c # b
      BY <1>4, <1>8, <2>2 DEF PU!OrderInv, PU!ChecksHold
    <2> QED BY <2>1, <2>2
  <1>9. PU!ChecksHold'
    BY <1>2, <1>8 DEF PU!ChecksHold
  <1> QED BY <1>5, <1>6, <1>9 DEF PU!OrderInv

\* UpdateStatus: the status is written, whatever the row says by now.
LEMMA OrderUpdateKeeps ==
    ASSUME PU!OrderInv, NEW b \in Buyers, PU!UpdateStatus(b)
    PROVE  PU!OrderInv'
  <1> USE PurchasingConstants
  <1> DEFINE n == x3[b].order
             to == x3[b].to
             o == x2[n]
             p == [o EXCEPT !.status = to, !.submitted_at = @ \/ to = "submitted",
                            !.closed_at = @ \/ to \in {"closed", "cancelled"}, !.updates = @ + 1]
  <1>1. /\ x3[b] # PU!NoUpdate /\ o.updates < MaxUpdates
        /\ x2' = [x2 EXCEPT ![n] = p]
        /\ x4' = IF o.updates = x3[b].seen THEN x4 ELSE x4 \union {n}
        /\ x3' = [x3 EXCEPT ![b] = PU!NoUpdate]
        /\ UNCHANGED x1
    BY DEF PU!UpdateStatus
  <1>2. n \in PONumbers /\ to \in PU!Statuses /\ x3[b].seen \in Nat
    BY <1>1, OrderTypes DEF PU!OrderInv, ChangeShape
  <1>3. /\ o.status \in PU!Statuses /\ x3[b].seen <= o.updates
        /\ x3[b].seen = o.updates => PU!validTransition(o.status, to)
        /\ to \in {"received", "closed"} => o.submitted_at
    BY <1>1 DEF PU!OrderInv, PU!ChecksHold
  <1>4. o \in OrderShape
    BY <1>2, <1>3, OrderTypes DEF PU!OrderInv
  <1> HIDE DEF n, to, o
  <1>5. o.updates \in Nat /\ o.submitted_at \in BOOLEAN /\ o.closed_at \in BOOLEAN
    BY <1>4 DEF OrderShape
  <1>6. /\ p \in OrderShape /\ p.status = to /\ p.updates = o.updates + 1
        /\ p.submitted_at <=> o.submitted_at \/ to = "submitted"
        /\ p.closed_at <=> o.closed_at \/ to \in {"closed", "cancelled"}
    <2> DEFINE sub == o.submitted_at \/ to = "submitted"
               end == o.closed_at \/ to \in {"closed", "cancelled"}
    <2>1. sub \in BOOLEAN /\ end \in BOOLEAN
      BY <1>5
    <2>2. o.updates + 1 \in 0..MaxUpdates
      BY <1>1, <1>5
    <2>3. p = [o EXCEPT !.status = to, !.submitted_at = sub, !.closed_at = end, !.updates = @ + 1]
      OBVIOUS
    <2>4. (sub <=> o.submitted_at \/ to = "submitted")
          /\ (end <=> o.closed_at \/ to \in {"closed", "cancelled"})
      OBVIOUS
    <2> HIDE DEF p, sub, end
    <2>5. /\ p \in OrderShape /\ p.status = to /\ p.updates = o.updates + 1
          /\ p.submitted_at = sub /\ p.closed_at = end
      BY <1>2, <1>4, <2>1, <2>2, <2>3 DEF OrderShape
    <2> QED BY <2>4, <2>5
  <1> HIDE DEF p
  <1>7. x2'[n] = p /\ x2[n] = o /\ \A m \in PONumbers : m # n => x2'[m] = x2[m]
    BY <1>1, <1>2 DEF PU!OrderInv, PU!TypeOK, o
  <1>8. \A c \in Buyers : x3'[c] # PU!NoUpdate => x3'[c] = x3[c]
    BY <1>1 DEF PU!OrderInv, PU!TypeOK
  <1>9. PU!TypeOK'
    BY <1>1, <1>2, <1>6 DEF PU!OrderInv, PU!TypeOK, OrderShape, PU!NoUpdate, PU!NoOrder, PU!Statuses
  <1>10. ASSUME NEW m \in PONumbers PROVE OrderRight(m)'
    <2>1. CASE m = n
      <3>1. /\ to \in {"submitted", "received", "closed"} => p.submitted_at
            /\ to \in {"closed", "cancelled"} => p.closed_at
        BY <1>3, <1>6
      <3>2. ASSUME n \notin x4' PROVE PU!OnCourse(p)
        <4>1. n \notin x4 /\ x3[b].seen = o.updates /\ PU!validTransition(o.status, to)
          BY <1>1, <1>3, <3>2
        <4>2. PU!OnCourse(o)
          BY <1>2, <1>7, <4>1 DEF PU!OrderInv, PU!OrdersOnCourse
        <4>3. o # PU!NoOrder
          BY <1>3 DEF PU!NoOrder, PU!Statuses
        <4> QED BY <1>5, <1>6, <4>1, <4>2, <4>3 DEF PU!OnCourse, PU!validTransition
      <3> QED BY <1>6, <1>7, <2>1, <3>1, <3>2 DEF OrderRight
    <2>2. CASE m # n
      <3>1. OrderRight(m) /\ x2'[m] = x2[m] /\ (m \in x4' <=> m \in x4)
        BY <1>1, <1>7, <2>2, OrdersRight
      <3> QED BY <3>1 DEF OrderRight
    <2> QED BY <2>1, <2>2
  <1>11. ASSUME NEW c \in Buyers, x3'[c] # PU!NoUpdate
         PROVE  LET q == x2'[x3'[c].order]
                IN  /\ q.status \in PU!Statuses /\ x3'[c].seen <= q.updates
                    /\ x3'[c].seen = q.updates => PU!validTransition(q.status, x3'[c].to)
                    /\ x3'[c].to \in {"received", "closed"} => q.submitted_at
    <2>1. /\ x3'[c] = x3[c] /\ x3[c] # PU!NoUpdate
          /\ x3[c].order \in PONumbers /\ x3[c].seen \in Nat
      BY <1>8, <1>11, OrderTypes DEF PU!OrderInv, ChangeShape
    <2>2. LET q == x2[x3[c].order]
          IN  /\ q.status \in PU!Statuses /\ x3[c].seen <= q.updates
              /\ x3[c].seen = q.updates => PU!validTransition(q.status, x3[c].to)
              /\ x3[c].to \in {"received", "closed"} => q.submitted_at
      BY <2>1 DEF PU!OrderInv, PU!ChecksHold
    <2>3. CASE x3[c].order = n
      BY <1>2, <1>5, <1>6, <1>7, <2>1, <2>2, <2>3
    <2>4. CASE x3[c].order # n
      BY <1>7, <2>1, <2>2, <2>4
    <2> QED BY <2>3, <2>4
  <1>12. PU!ChecksHold'
    BY <1>11 DEF PU!ChecksHold
  <1>13. PU!StampsMatchStatus' /\ PU!OrdersOnCourse'
    <2>1. AllOrdersRight'
      BY <1>10 DEF AllOrdersRight
    <2> QED BY <2>1, OrdersRight, PTL
  <1> QED BY <1>9, <1>12, <1>13 DEF PU!OrderInv

\* Every action of Purchasing keeps the invariant.
LEMMA OrderStep == PU!OrderInv /\ [PU!Next]_(PU!vars) => PU!OrderInv'
  <1> SUFFICES ASSUME PU!OrderInv, [PU!Next]_(PU!vars) PROVE PU!OrderInv'
    OBVIOUS
  <1>1. x3 \in [Buyers -> {PU!NoUpdate} \union ChangeShape] /\ x1 \subseteq Suppliers
    BY DEF PU!OrderInv, PU!TypeOK, ChangeShape
  <1>2. ASSUME NEW s \in Suppliers, PU!suppliersCreate(s) PROVE PU!OrderInv'
    BY <1>1, <1>2, OrdersStay DEF PU!suppliersCreate
  <1>3. ASSUME NEW b \in Buyers, PU!UpdateFails(b) PROVE PU!OrderInv'
    <2>1. x3' \in [Buyers -> {PU!NoUpdate} \union ChangeShape]
      BY <1>1, <1>3 DEF PU!UpdateFails
    <2>2. \A c \in Buyers : x3'[c] # PU!NoUpdate => x3'[c] = x3[c]
      BY <1>1, <1>3 DEF PU!UpdateFails
    <2> QED BY <1>1, <1>3, <2>1, <2>2, OrdersStay DEF PU!UpdateFails
  <1>4. CASE UNCHANGED PU!vars
    BY <1>1, <1>4, OrdersStay DEF PU!vars
  <1> QED BY <1>2, <1>3, <1>4, OrderCreateKeeps, OrderGetKeeps, OrderUpdateKeeps DEF PU!Next

-----------------------------------------------------------------------------
(***************************************************************************)
(* Budgets, for any payers, integers of any width and number of payments.  *)
(* x1 is budget, x2 payment, x3 rowLock, x4 pays and x5 charged.           *)
(*                                                                         *)
(* A payer past SELECT ... FOR UPDATE holds the lock of the row and what   *)
(* it read is what the row says; what the row says was consumed is the     *)
(* number of units charged.                                                *)
(***************************************************************************)
LEMMA BudgetsConstants ==
    "nobody" \notin Payers /\ MaxInt \in Nat /\ MaxPays \in Nat
  BY EdgeAssumption

\* The types of a budget that is there or not, without the charges.
PaidTypes ==
    /\ x1 \in [limit : 0..MaxInt, hard : BOOLEAN, consumed : 0..MaxInt,
                   status : {"active", "locked"}]
    /\ x3 \in Payers \union {BU!Nobody} /\ x4 \in 0..MaxPays

\* A sum that fits an integer is not wrapped.
LEMMA WrapNothing == ASSUME NEW n \in 0..MaxInt PROVE BU!Wrapped(n) = n
  <1> USE BudgetsConstants
  <1>1. (n + MaxInt + 1) % (2 * MaxInt + 2) = n + MaxInt + 1
    <2> DEFINE m == 2 * MaxInt + 2
               k == n + MaxInt + 1
    <2>1. m \in Nat \ {0} /\ k \in Nat /\ k < m
      OBVIOUS
    <2> HIDE DEF m, k
    <2>2. k % m = k
      BY <2>1
    <2> QED BY <2>2 DEF m, k
  <1> QED BY <1>1 DEF BU!Wrapped

\* A charge of s satoshis is s units.
LEMMA UnitsCount ==
  ASSUME NEW n, NEW s \in Nat
  PROVE  IsFiniteSet({n} \X (1..s)) /\ Cardinality({n} \X (1..s)) = s
  <1>1. IsFiniteSet({n}) /\ Cardinality({n}) = 1
    BY FS_Singleton
  <1>2. IsFiniteSet(1..s) /\ Cardinality(1..s) = s
    BY FS_Interval
  <1> DEFINE one == {n}
             units == 1..s
  <1>3. /\ IsFiniteSet(one \X units)
        /\ Cardinality(one \X units) = Cardinality(one) * Cardinality(units)
    <2> HIDE DEF one, units
    <2> QED BY <1>1, <1>2, FS_Product DEF one, units
  <1>4. 1 * s = s
    OBVIOUS
  <1> QED BY <1>1, <1>2, <1>3, <1>4

\* Charges are finitely many.
LEMMA ChargedFinite == ASSUME x5 \subseteq (1..MaxPays) \X BU!Amounts PROVE IsFiniteSet(x5)
  <1>1. IsFiniteSet(1..MaxPays) /\ IsFiniteSet(BU!Amounts)
    BY FS_Interval, BudgetsConstants DEF BU!Amounts
  <1>2. IsFiniteSet((1..MaxPays) \X BU!Amounts)
    BY <1>1, FS_Product
  <1> QED BY <1>2, FS_Subset

\* At first there is no budget and nothing is charged.
LEMMA PaidInit == BU!Init => BU!PaidInv
  <1> USE BudgetsConstants
  <1> SUFFICES ASSUME BU!Init PROVE BU!PaidInv
    OBVIOUS
  <1>1. BU!TypeOK
    BY DEF BU!Init, BU!TypeOK, BU!NoPayment, BU!Nobody
  <1>2. BU!HardLimitHolds
    BY EdgeCardinality, FS_EmptySet DEF BU!Init, BU!HardLimitHolds
  <1>3. BU!RowIsHeld /\ BU!RequestsNumbered /\ BU!NoBudgetNoCharge
    BY DEF BU!Init, BU!RowIsHeld, BU!RequestsNumbered, BU!NoBudgetNoCharge, BU!NoPayment, BU!Nobody
  <1> QED BY <1>1, <1>2, <1>3 DEF BU!PaidInv

\* A payment in progress.
PaymentShape == [at : {"idle", "select", "check"}, satoshis : 0..MaxInt, consumed : 0..MaxInt,
            try : 0..MaxPays]

\* CreateBudget: a budget of which nothing is consumed.
LEMMA BudgetCreateKeeps == ASSUME BU!PaidInv, BU!CreateBudget PROVE BU!PaidInv'
  <1> USE BudgetsConstants
  <1>1. x1.limit = 0 /\ UNCHANGED <<x2, x3, x4, x5>>
    BY DEF BU!CreateBudget
  <1>2. PICK limit \in BU!Amounts, hard \in BOOLEAN :
            x1' = [x1 EXCEPT !.limit = limit, !.hard = hard]
    BY DEF BU!CreateBudget
  <1>3. /\ x1' \in [limit : 0..MaxInt, hard : BOOLEAN, consumed : 0..MaxInt,
                        status : {"active", "locked"}]
        /\ x1'.consumed = x1.consumed /\ x1'.limit = limit
    <2> DEFINE Hard == BOOLEAN
               Budget(H) == [limit : 0..MaxInt, hard : H, consumed : 0..MaxInt,
                             status : {"active", "locked"}]
    <2>1. x1 \in Budget(BOOLEAN) /\ limit \in 0..MaxInt /\ hard \in BOOLEAN
      BY DEF BU!PaidInv, BU!TypeOK, BU!Amounts
    <2>2. x1 \in Budget(Hard) /\ hard \in Hard
      BY <2>1
    <2> HIDE DEF Hard
    <2>3. x1' \in Budget(Hard) /\ x1'.consumed = x1.consumed /\ x1'.limit = limit
      BY <1>2, <2>1, <2>2
    <2> QED BY <2>3 DEF Hard
  <1>4. BU!TypeOK'
    BY <1>1, <1>3 DEF BU!PaidInv, BU!TypeOK
  <1>5. x1.consumed = 0
    BY <1>1 DEF BU!PaidInv, BU!NoBudgetNoCharge
  <1>6. BU!HardLimitHolds'
    BY <1>1, <1>3, <1>5 DEF BU!PaidInv, BU!HardLimitHolds, BU!Amounts
  <1>7. BU!RowIsHeld' /\ BU!RequestsNumbered'
    BY <1>1, <1>3 DEF BU!PaidInv, BU!RowIsHeld, BU!RequestsNumbered
  <1>8. BU!NoBudgetNoCharge'
    BY <1>3 DEF BU!NoBudgetNoCharge, BU!Amounts
  <1> QED BY <1>4, <1>6, <1>7, <1>8 DEF BU!PaidInv

\* UpdateBudgetStatus: a budget is locked or unlocked.
LEMMA BudgetStatusKeeps == ASSUME BU!PaidInv, BU!UpdateBudgetStatus PROVE BU!PaidInv'
  <1> USE BudgetsConstants
  <1>1. UNCHANGED <<x2, x3, x4, x5>>
    BY DEF BU!UpdateBudgetStatus
  <1>2. PICK status \in {"active", "locked"} : x1' = [x1 EXCEPT !.status = status]
    BY DEF BU!UpdateBudgetStatus
  <1>3. /\ x1' \in [limit : 0..MaxInt, hard : BOOLEAN, consumed : 0..MaxInt,
                        status : {"active", "locked"}]
        /\ x1'.consumed = x1.consumed /\ x1'.limit = x1.limit
        /\ x1'.hard = x1.hard
    BY <1>2 DEF BU!PaidInv, BU!TypeOK
  <1>4. BU!TypeOK'
    BY <1>1, <1>3 DEF BU!PaidInv, BU!TypeOK
  <1>5. BU!HardLimitHolds'
    BY <1>1, <1>3 DEF BU!PaidInv, BU!HardLimitHolds
  <1>6. BU!RowIsHeld' /\ BU!RequestsNumbered' /\ BU!NoBudgetNoCharge'
    BY <1>1, <1>3 DEF BU!PaidInv, BU!RowIsHeld, BU!RequestsNumbered, BU!NoBudgetNoCharge
  <1> QED BY <1>4, <1>5, <1>6 DEF BU!PaidInv

\* consume: a payer asks for a charge.
LEMMA ConsumeAskKeeps == ASSUME BU!PaidInv, NEW p \in Payers, BU!consume(p) PROVE BU!PaidInv'
  <1> USE BudgetsConstants
  <1>1. /\ x2[p].at = "idle" /\ x4 < MaxPays /\ x1.limit > 0 /\ x4' = x4 + 1
        /\ UNCHANGED <<x1, x3, x5>>
    BY DEF BU!consume
  <1>2. PICK satoshis \in BU!Amounts :
            x2' = [x2 EXCEPT ![p] = [at |-> "select", satoshis |-> satoshis,
                                               consumed |-> 0, try |-> x4']]
    BY DEF BU!consume
  <1> DEFINE r == [at |-> "select", satoshis |-> satoshis, consumed |-> 0, try |-> x4']
  <1>3. /\ r \in PaymentShape /\ r.at = "select" /\ r.satoshis = satoshis /\ r.try = x4 + 1
        /\ x2' = [x2 EXCEPT ![p] = r]
    BY <1>1, <1>2 DEF BU!PaidInv, BU!TypeOK, PaymentShape, BU!Amounts
  <1> HIDE DEF r
  <1>4. x2'[p] = r /\ \A q \in Payers : q # p => x2'[q] = x2[q]
    BY <1>3 DEF BU!PaidInv, BU!TypeOK
  <1>5. BU!TypeOK'
    BY <1>1, <1>3 DEF BU!PaidInv, BU!TypeOK, PaymentShape
  <1>6. BU!HardLimitHolds'
    BY <1>1 DEF BU!PaidInv, BU!HardLimitHolds
  <1>7. BU!RowIsHeld'
    <2>1. x3 # p
      BY <1>1 DEF BU!PaidInv, BU!TypeOK, BU!RowIsHeld, BU!Nobody
    <2> QED BY <1>1, <1>3, <1>4, <2>1 DEF BU!PaidInv, BU!TypeOK, BU!RowIsHeld, BU!Nobody
  <1>8. BU!RequestsNumbered'
    <2>1. \A q \in Payers : x2'[q].try \in 0..x4'
      BY <1>1, <1>3, <1>4 DEF BU!PaidInv, BU!TypeOK, BU!RequestsNumbered
    <2>2. \A q \in Payers : x2'[q].at # "idle" =>
             x2'[q].try # 0 /\ x2'[q].satoshis \in BU!Amounts
      BY <1>1, <1>3, <1>4 DEF BU!PaidInv, BU!TypeOK, BU!RequestsNumbered
    <2>3. \A q \in Payers : x2[q].try # x4 + 1
      BY DEF BU!PaidInv, BU!TypeOK, BU!RequestsNumbered
    <2>4. \A q, u \in Payers : x2'[q].at # "idle" /\ x2'[q].try = x2'[u].try => q = u
      BY <1>1, <1>3, <1>4, <2>3 DEF BU!PaidInv, BU!TypeOK, BU!RequestsNumbered
    <2>5. \A c \in x5 : c[1] \in 1..x4' /\ \A q \in Payers : x2'[q].try # c[1]
      BY <1>1, <1>3, <1>4 DEF BU!PaidInv, BU!TypeOK, BU!RequestsNumbered
    <2> QED BY <1>1, <2>1, <2>2, <2>4, <2>5 DEF BU!RequestsNumbered
  <1>9. BU!NoBudgetNoCharge'
    BY <1>1 DEF BU!PaidInv, BU!TypeOK, BU!NoBudgetNoCharge
  <1> QED BY <1>5, <1>6, <1>7, <1>8, <1>9 DEF BU!PaidInv

\* SelectForUpdate: the row is read under its lock.
LEMMA ConsumeSelectKeeps ==
    ASSUME BU!PaidInv, NEW p \in Payers, BU!SelectForUpdate(p)
    PROVE  BU!PaidInv'
  <1> USE BudgetsConstants
  <1>1. /\ x2[p].at = "select" /\ x3 = BU!Nobody /\ x3' = p
        /\ UNCHANGED <<x1, x4, x5>>
    BY DEF BU!SelectForUpdate, BU!RowFree
  <1> DEFINE r == [x2[p] EXCEPT !.at = "check", !.consumed = x1.consumed]
  <1>2. x2' = [x2 EXCEPT ![p] = r]
    BY DEF BU!SelectForUpdate, BU!PaidInv, BU!TypeOK
  <1>3. /\ r \in PaymentShape /\ r.at = "check" /\ r.consumed = x1.consumed
        /\ r.try = x2[p].try /\ r.satoshis = x2[p].satoshis
    BY DEF BU!PaidInv, BU!TypeOK, PaymentShape
  <1> HIDE DEF r
  <1>4. x2'[p] = r /\ \A q \in Payers : q # p => x2'[q] = x2[q]
    BY <1>2 DEF BU!PaidInv, BU!TypeOK
  <1>5. BU!TypeOK'
    BY <1>1, <1>2, <1>3 DEF BU!PaidInv, BU!TypeOK, PaymentShape
  <1>6. BU!HardLimitHolds'
    BY <1>1 DEF BU!PaidInv, BU!HardLimitHolds
  <1>7. BU!RowIsHeld'
    BY <1>1, <1>3, <1>4 DEF BU!PaidInv, BU!RowIsHeld, BU!Nobody
  <1>8. BU!RequestsNumbered'
    BY <1>1, <1>3, <1>4 DEF BU!PaidInv, BU!RequestsNumbered
  <1>9. BU!NoBudgetNoCharge'
    BY <1>1, <1>4 DEF BU!PaidInv, BU!NoBudgetNoCharge
  <1> QED BY <1>5, <1>6, <1>7, <1>8, <1>9 DEF BU!PaidInv

\* What a request leaves behind that goes, rolled back or refused.
LEMMA ConsumeLeaveKeeps ==
  ASSUME BU!PaidInv, NEW p \in Payers, x2[p].at # "idle",
         x2' = [x2 EXCEPT ![p] = BU!NoPayment],
         x3' = IF x3 = p THEN BU!Nobody ELSE x3,
         UNCHANGED <<x1, x4, x5>>
  PROVE  BU!PaidInv'
  <1> USE BudgetsConstants
  <1>1. BU!NoPayment \in PaymentShape /\ BU!NoPayment.at = "idle" /\ BU!NoPayment.try = 0
    BY DEF BU!NoPayment, PaymentShape
  <1>2. x2'[p] = BU!NoPayment /\ \A q \in Payers : q # p => x2'[q] = x2[q]
    BY DEF BU!PaidInv, BU!TypeOK
  <1>3. BU!TypeOK'
    BY <1>1 DEF BU!PaidInv, BU!TypeOK, PaymentShape
  <1>4. BU!HardLimitHolds'
    BY DEF BU!PaidInv, BU!HardLimitHolds
  <1>5. BU!RowIsHeld'
    BY <1>1, <1>2 DEF BU!PaidInv, BU!TypeOK, BU!RowIsHeld, BU!Nobody
  <1>6. BU!RequestsNumbered'
    BY <1>1, <1>2 DEF BU!PaidInv, BU!TypeOK, BU!RequestsNumbered
  <1>7. BU!NoBudgetNoCharge'
    BY <1>1, <1>2 DEF BU!PaidInv, BU!NoBudgetNoCharge
  <1> QED BY <1>3, <1>4, <1>5, <1>6, <1>7 DEF BU!PaidInv

\* Consume: the row is charged if the sum is within the limit.
LEMMA ConsumeKeeps == ASSUME BU!PaidInv, NEW p \in Payers, BU!Consume(p) PROVE BU!PaidInv'
  <1> USE BudgetsConstants
  <1> DEFINE sum == x1.consumed + x2[p].satoshis
             new == {x2[p].try} \X (1..x2[p].satoshis)
  <1>1. /\ x2[p].at = "check" /\ x2' = [x2 EXCEPT ![p] = BU!NoPayment]
        /\ x3' = BU!Nobody /\ UNCHANGED x4
    BY DEF BU!Consume
  <1>2. x3 = p /\ x2[p].consumed = x1.consumed
    BY <1>1 DEF BU!PaidInv, BU!RowIsHeld, BU!Nobody
  <1>3. CASE BU!HardLimitHit(p) \/ sum > MaxInt
    <2>1. UNCHANGED <<x1, x5>>
      BY <1>3 DEF BU!Consume
    <2> QED BY <1>1, <1>2, <2>1, ConsumeLeaveKeeps
  <1>4. CASE ~BU!HardLimitHit(p) /\ ~(sum > MaxInt)
    <2>1. x1' = [x1 EXCEPT !.consumed = sum] /\ x5' = x5 \union new
      BY <1>4 DEF BU!Consume
    <2>2. /\ x2[p].satoshis \in BU!Amounts /\ x2[p].try \in 1..x4
          /\ x1.consumed \in 0..MaxInt /\ x1.limit \in 0..MaxInt
      BY <1>1 DEF BU!PaidInv, BU!TypeOK, BU!RequestsNumbered
    <2>3. sum \in 0..MaxInt
      BY <1>4, <2>2 DEF BU!Amounts
    <2>4. x1.hard => sum <= x1.limit
      <3>1. BU!Wrapped(sum) = sum
        BY <2>3, WrapNothing
      <3>2. BU!Wrapped(x2[p].consumed + x2[p].satoshis) = sum
        BY <1>2, <3>1
      <3>3. ~(x1.hard /\ BU!Wrapped(x2[p].consumed + x2[p].satoshis) > x1.limit)
        BY <1>4 DEF BU!HardLimitHit
      <3>4. ~(x1.hard /\ sum > x1.limit)
        BY <3>2, <3>3
      <3>5. ~(sum > x1.limit) => sum <= x1.limit
        BY <2>2, <2>3
      <3> QED BY <3>4, <3>5
    <2> HIDE DEF sum
    <2>5. /\ x1' \in [limit : 0..MaxInt, hard : BOOLEAN, consumed : 0..MaxInt,
                          status : {"active", "locked"}]
          /\ x1'.consumed = sum /\ x1'.limit = x1.limit
          /\ x1'.hard = x1.hard
      BY <2>1, <2>3 DEF BU!PaidInv, BU!TypeOK
    <2>6. new \subseteq (1..MaxPays) \X BU!Amounts /\ \A c \in new : c[1] = x2[p].try
      BY <2>2 DEF BU!PaidInv, BU!TypeOK, BU!Amounts
    <2>7. BU!NoPayment \in PaymentShape /\ BU!NoPayment.at = "idle" /\ BU!NoPayment.try = 0
      BY DEF BU!NoPayment, PaymentShape
    <2>8. x2'[p] = BU!NoPayment /\ \A q \in Payers : q # p => x2'[q] = x2[q]
      BY <1>1 DEF BU!PaidInv, BU!TypeOK
    <2>9. BU!TypeOK'
      <3>1. x2' \in [Payers -> PaymentShape]
        BY <1>1, <2>7 DEF BU!PaidInv, BU!TypeOK, PaymentShape
      <3>2. x5' \subseteq (1..MaxPays) \X BU!Amounts
        BY <2>1, <2>6 DEF BU!PaidInv, BU!TypeOK
      <3> HIDE DEF new
      <3> QED BY <1>1, <2>5, <3>1, <3>2 DEF BU!PaidInv, BU!TypeOK, PaymentShape
    <2>10. BU!HardLimitHolds'
      <3>1. x5 \intersect new = {}
        BY <2>6 DEF BU!PaidInv, BU!RequestsNumbered
      <3>2. IsFiniteSet(new) /\ Cardinality(new) = x2[p].satoshis
        <4>1. x2[p].satoshis \in Nat
          BY <2>2 DEF BU!Amounts
        <4> QED BY <4>1, UnitsCount
      <3>3. IsFiniteSet(x5)
        BY ChargedFinite DEF BU!PaidInv, BU!TypeOK
      <3> HIDE DEF new
      <3>4. Cardinality(x5 \union new) = Cardinality(x5) + Cardinality(new)
        <4>1. Cardinality(x5 \union new)
                = Cardinality(x5) + Cardinality(new) - Cardinality(x5 \intersect new)
          BY <3>2, <3>3, FS_Union
        <4>2. Cardinality(x5 \intersect new) = 0
          BY <3>1, FS_EmptySet
        <4>3. Cardinality(x5) \in Nat /\ Cardinality(new) \in Nat
          BY <3>2, <3>3, FS_CardinalityType
        <4> QED BY <4>1, <4>2, <4>3
      <3>5. Cardinality(x5') = sum
        BY EdgeCardinality, <2>1, <3>2, <3>4 DEF BU!PaidInv, BU!HardLimitHolds, sum
      <3> QED BY EdgeCardinality, <2>4, <2>5, <3>5 DEF BU!HardLimitHolds
    <2>11. BU!RowIsHeld'
      BY <1>1, <1>2, <2>7, <2>8 DEF BU!PaidInv, BU!TypeOK, BU!RowIsHeld, BU!Nobody
    <2>12. BU!RequestsNumbered'
      <3>1. \A q \in Payers : q # p => x2[q].try # x2[p].try
        BY <1>1 DEF BU!PaidInv, BU!RequestsNumbered
      <3>6. \A q \in Payers : x2'[q].try \in 0..x4'
        BY <1>1, <2>7, <2>8 DEF BU!PaidInv, BU!TypeOK, BU!RequestsNumbered
      <3>2. \A q \in Payers : x2'[q].at # "idle" =>
               x2'[q].try # 0 /\ x2'[q].satoshis \in BU!Amounts
        BY <1>1, <2>7, <2>8 DEF BU!PaidInv, BU!RequestsNumbered
      <3>3. \A q, u \in Payers :
               x2'[q].at # "idle" /\ x2'[q].try = x2'[u].try => q = u
        BY <1>1, <2>7, <2>8 DEF BU!PaidInv, BU!TypeOK, BU!RequestsNumbered
      <3>4. \A c \in x5 : c[1] \in 1..x4' /\ \A q \in Payers : x2'[q].try # c[1]
        BY <1>1, <2>7, <2>8 DEF BU!PaidInv, BU!TypeOK, BU!RequestsNumbered
      <3>5. \A c \in new : c[1] \in 1..x4' /\ \A q \in Payers : x2'[q].try # c[1]
        BY <1>1, <2>2, <2>6, <2>7, <2>8, <3>1 DEF BU!PaidInv, BU!TypeOK
      <3> QED BY <2>1, <3>2, <3>3, <3>4, <3>5, <3>6 DEF BU!RequestsNumbered
    <2>13. BU!NoBudgetNoCharge'
      BY <1>1, <2>2, <2>5 DEF BU!PaidInv, BU!TypeOK, BU!NoBudgetNoCharge
    <2> QED BY <2>9, <2>10, <2>11, <2>12, <2>13 DEF BU!PaidInv
  <1> QED BY <1>3, <1>4

\* Every action of Budgets keeps the invariant.
LEMMA PaidStep == BU!PaidInv /\ [BU!Next]_(BU!vars) => BU!PaidInv'
  <1> SUFFICES ASSUME BU!PaidInv, [BU!Next]_(BU!vars) PROVE BU!PaidInv'
    OBVIOUS
  <1>1. ASSUME NEW p \in Payers, BU!Rollback(p) PROVE BU!PaidInv'
    BY <1>1, ConsumeLeaveKeeps DEF BU!Rollback
  <1>2. CASE UNCHANGED BU!vars
    BY <1>2
       DEF BU!vars, BU!PaidInv, BU!TypeOK, BU!HardLimitHolds, BU!RowIsHeld, BU!RequestsNumbered,
           BU!NoBudgetNoCharge
  <1> QED BY <1>1, <1>2, BudgetCreateKeeps, BudgetStatusKeeps, ConsumeAskKeeps, ConsumeSelectKeeps,
             ConsumeKeeps
             DEF BU!Next

-----------------------------------------------------------------------------
(***************************************************************************)
(* The guards of log-in and of API keys, for any callers, thresholds and   *)
(* limit. x1 is failed, x2 lockout, x3 minute, x4 apiKey, x5 call, x6      *)
(* guesses, x7 served, x8 calls and x9 errors.                             *)
(*                                                                         *)
(* Guesses are bounded because each is accounted for: by the counter of    *)
(* its bucket, by a request that has guessed and not counted yet, by a     *)
(* Valkey command that failed, or by one of the callers that passed the    *)
(* check before the lockout was set.                                       *)
(***************************************************************************)
LEMMA AccessConstants ==
    /\ Threshold \in Nat \ {0} /\ IPThreshold \in Nat \ {0} /\ RateLimitRPM \in Nat
    /\ MaxCalls \in Nat /\ MaxErrors \in Nat /\ IsFiniteSet(Callers)
  BY EdgeAssumption

\* Where a request of Access can be.
CallPlaces == {<<"idle">>} \union (AC!Steps \X AC!Buckets \X BOOLEAN)

\* A place of a request by its step and bucket, whatever it brings.
Stands(v, s, k) == IF s = "idle" THEN v = <<"idle">> ELSE \E good \in BOOLEAN : v = <<s, k, good>>
\* The steps that count for a bucket, as Access has them of a request.
PastOf(s, k, b) == \/ s = "verify" /\ (k = "key" <=> b = "key")
                   \/ s = "check" /\ k = "ip" /\ b = "account"
OwingOf(s, k, b) == \/ s = "count" /\ k = b
                    \/ s \in {"count", "lock"} /\ k = "account" /\ b = "ip"
LockingOf(s, k, b) == s = "lock" /\ k = b

\* One request goes from a step and bucket to another.
CallShifts(s, k, s2, k2) ==
    \E c \in Callers : \E v \in CallPlaces :
       /\ Stands(x5[c], s, k) /\ Stands(v, s2, k2)
       /\ x5' = [x5 EXCEPT ![c] = v]

\* The numbers that the invariant relates to the counters of a bucket.
AllSteps == AC!Steps \union {"idle"}
Passed(b) == AC!Number(AC!PastAt(b))
Owed(b) == AC!Number(AC!OwingAt(b))
StillPending(b) == AC!Number(AC!OwingAt(b) \union AC!LockingAt(b))

\* The parts of the invariant about one bucket, and about the rate limit.
BucketRight(b) ==
    /\ x6[b] + Passed(b) < AC!Limit(b) + Cardinality(Callers) + x9
    /\ x6[b] <= x1[b] + Owed(b) + x9
    /\ b \in x2 \/ x6[b] < AC!Limit(b) + StillPending(b) + x9
AllBucketsRight == \A b \in AC!Buckets : BucketRight(b)
ServedRight == x7 <= RateLimitRPM + x9 /\ x7 <= x3 + x9

\* Callers are finitely many.
LEMMA CallersCount == IsFiniteSet(Callers) /\ Cardinality(Callers) \in Nat
  BY AccessConstants, FS_CardinalityType

\* A number of requests is at most that of the callers.
LEMMA NumberType ==
  ASSUME NEW places
  PROVE  /\ IsFiniteSet({c \in Callers : x5[c] \in places})
         /\ AC!Number(places) \in Nat /\ AC!Number(places) <= Cardinality(Callers)
  <1>1. {c \in Callers : x5[c] \in places} \subseteq Callers
    OBVIOUS
  <1> QED BY EdgeCardinality, <1>1, CallersCount, FS_Subset, FS_CardinalityType DEF AC!Number

LEMMA NumberTypeNext == ASSUME NEW places PROVE AC!Number(places)' \in Nat
  <1>1. {c \in Callers : x5'[c] \in places} \subseteq Callers
    OBVIOUS
  <1> QED BY EdgeCardinality, <1>1, CallersCount, FS_Subset, FS_CardinalityType DEF AC!Number

\* The invariant, taken apart by bucket.
LEMMA LockoutParts == AC!LockoutInv <=> AC!TypeOK /\ AllBucketsRight /\ ServedRight
  <1>1. AC!LockoutInv => AC!TypeOK /\ AllBucketsRight /\ ServedRight
    BY EdgeCardinality
       DEF AC!LockoutInv, AC!GuessesCounted, AC!GuessesBounded, AllBucketsRight, BucketRight,
           ServedRight, Passed, Owed, StillPending
  <1>2. ASSUME AC!TypeOK, AllBucketsRight, ServedRight PROVE AC!LockoutInv
    <2>1. AC!GuessesCounted /\ x7 <= x3 + x9
      BY EdgeCardinality, <1>2
         DEF AC!GuessesCounted, AllBucketsRight, BucketRight, ServedRight, Passed, Owed,
             StillPending
    <2>2. AC!GuessesBounded
      <3> SUFFICES ASSUME NEW b \in AC!Buckets
                   PROVE  x6[b] < AC!Limit(b) + Cardinality(Callers) + x9
        BY EdgeCardinality, <1>2 DEF AC!GuessesBounded, ServedRight
      <3>1. x6[b] + Passed(b) < AC!Limit(b) + Cardinality(Callers) + x9
        BY <1>2 DEF AllBucketsRight, BucketRight
      <3>2. Passed(b) \in Nat
        BY NumberType DEF Passed
      <3>3. x6[b] \in Nat /\ x9 \in Nat /\ AC!Limit(b) \in Nat
        BY <1>2, AccessConstants DEF AC!TypeOK, AC!Limit
      <3> QED BY <3>1, <3>2, <3>3, CallersCount
    <2> QED BY <1>2, <2>1, <2>2 DEF AC!LockoutInv
  <1> QED BY <1>1, <1>2

LEMMA LockoutPartsNext == AC!LockoutInv' <=> AC!TypeOK' /\ AllBucketsRight' /\ ServedRight'
  BY LockoutParts, PTL

\* A request that moves changes a number by one at most.
LEMMA MoveCount ==
  ASSUME x5 \in [Callers -> CallPlaces], NEW c \in Callers, NEW v, NEW places,
         x5' = [x5 EXCEPT ![c] = v]
  PROVE  AC!Number(places)' = AC!Number(places) + (IF v \in places THEN 1 ELSE 0)
                                          - (IF x5[c] \in places THEN 1 ELSE 0)
  <1> DEFINE S == {d \in Callers : x5[d] \in places}
             T == {d \in Callers : x5'[d] \in places}
  <1>1. IsFiniteSet(S) /\ Cardinality(S) \in Nat
    BY NumberType, FS_CardinalityType
  <1>2. (c \in S <=> x5[c] \in places) /\ (c \in T <=> v \in places)
    OBVIOUS
  <1>3. T \ {c} = S \ {c}
    OBVIOUS
  <1>4. AC!Number(places) = Cardinality(S) /\ AC!Number(places)' = Cardinality(T)
    BY EdgeCardinality DEF AC!Number
  <1> HIDE DEF S, T
  <1>5. IsFiniteSet(S \ {c}) /\ Cardinality(S \ {c}) = Cardinality(S) - (IF c \in S THEN 1 ELSE 0)
    <2>1. c \in S => Cardinality(S \ {c}) = Cardinality(S) - 1 /\ IsFiniteSet(S \ {c})
      BY <1>1, FS_RemoveElement
    <2>2. c \notin S => S \ {c} = S
      OBVIOUS
    <2> QED BY <1>1, <2>1, <2>2
  <1>6. Cardinality(T) = Cardinality(S \ {c}) + (IF c \in T THEN 1 ELSE 0)
    <2>1. c \notin T => T = S \ {c}
      BY <1>3
    <2>2. c \in T => T = (S \ {c}) \union {c}
      BY <1>3
    <2>3. Cardinality((S \ {c}) \union {c}) = Cardinality(S \ {c}) + 1
      BY <1>5, FS_AddElement
    <2>4. Cardinality(S \ {c}) \in Nat
      BY <1>5, FS_CardinalityType
    <2> QED BY EdgeCardinality, <2>1, <2>2, <2>3, <2>4
  <1> QED BY <1>1, <1>2, <1>4, <1>5, <1>6

\* The step and bucket of a request say which numbers it is in.
LEMMA CallStands ==
  ASSUME NEW v, NEW s \in AllSteps, NEW k \in AC!Buckets, Stands(v, s, k), NEW b \in AC!Buckets
  PROVE  /\ v \in AC!PastAt(b) <=> PastOf(s, k, b)
         /\ v \in AC!OwingAt(b) <=> OwingOf(s, k, b)
         /\ v \in AC!LockingAt(b) <=> LockingOf(s, k, b)
  <1>1. CASE s = "idle"
    BY <1>1 DEF Stands, AC!PastAt, AC!OwingAt, AC!LockingAt, PastOf, OwingOf, LockingOf
  <1>2. CASE s # "idle"
    <2>1. PICK good \in BOOLEAN : v = <<s, k, good>>
      BY <1>2 DEF Stands
    <2>2. v \in AC!LockingAt(b) <=> LockingOf(s, k, b)
      BY <2>1 DEF AC!LockingAt, LockingOf
    <2>3. v \in AC!OwingAt(b) <=> OwingOf(s, k, b)
      BY <2>1 DEF AC!OwingAt, OwingOf
    <2>4. v \in AC!PastAt(b) <=> PastOf(s, k, b)
      BY <2>1 DEF AC!PastAt, PastOf, AC!Buckets
    <2> QED BY <2>2, <2>3, <2>4
  <1> QED BY <1>1, <1>2

\* How the numbers of a bucket change as a request moves.
LEMMA ShiftCounts ==
  ASSUME x5 \in [Callers -> CallPlaces],
         NEW s \in AllSteps, NEW k \in AC!Buckets, NEW s2 \in AllSteps, NEW k2 \in AC!Buckets,
         CallShifts(s, k, s2, k2), NEW b \in AC!Buckets
  PROVE  /\ Passed(b)' = Passed(b) + (IF PastOf(s2, k2, b) THEN 1 ELSE 0)
                                   - (IF PastOf(s, k, b) THEN 1 ELSE 0)
         /\ Owed(b)' = Owed(b) + (IF OwingOf(s2, k2, b) THEN 1 ELSE 0)
                               - (IF OwingOf(s, k, b) THEN 1 ELSE 0)
         /\ StillPending(b)' =
               StillPending(b) + (IF OwingOf(s2, k2, b) \/ LockingOf(s2, k2, b) THEN 1 ELSE 0)
                          - (IF OwingOf(s, k, b) \/ LockingOf(s, k, b) THEN 1 ELSE 0)
         /\ x5' \in [Callers -> CallPlaces]
  <1>1. PICK c \in Callers, v \in CallPlaces :
            /\ Stands(x5[c], s, k) /\ Stands(v, s2, k2)
            /\ x5' = [x5 EXCEPT ![c] = v]
    BY DEF CallShifts
  <1>2. /\ x5[c] \in AC!PastAt(b) <=> PastOf(s, k, b)
        /\ x5[c] \in AC!OwingAt(b) <=> OwingOf(s, k, b)
        /\ x5[c] \in AC!LockingAt(b) <=> LockingOf(s, k, b)
    BY <1>1, CallStands
  <1>3. /\ v \in AC!PastAt(b) <=> PastOf(s2, k2, b)
        /\ v \in AC!OwingAt(b) <=> OwingOf(s2, k2, b)
        /\ v \in AC!LockingAt(b) <=> LockingOf(s2, k2, b)
    BY <1>1, CallStands
  <1>4. AC!Number(AC!PastAt(b))' = AC!Number(AC!PastAt(b)) + (IF v \in AC!PastAt(b) THEN 1 ELSE 0)
                                               - (IF x5[c] \in AC!PastAt(b) THEN 1 ELSE 0)
    BY <1>1, MoveCount
  <1>5. AC!Number(AC!OwingAt(b))' =
           AC!Number(AC!OwingAt(b)) + (IF v \in AC!OwingAt(b) THEN 1 ELSE 0)
                                                 - (IF x5[c] \in AC!OwingAt(b) THEN 1 ELSE 0)
    BY <1>1, MoveCount
  <1> DEFINE both == AC!OwingAt(b) \union AC!LockingAt(b)
  <1>6. AC!Number(both)' = AC!Number(both) + (IF v \in both THEN 1 ELSE 0)
                                     - (IF x5[c] \in both THEN 1 ELSE 0)
    <2> HIDE DEF both
    <2> QED BY <1>1, MoveCount DEF both
  <1>7. (v \in both <=> v \in AC!OwingAt(b) \/ v \in AC!LockingAt(b))
        /\ (x5[c] \in both <=> x5[c] \in AC!OwingAt(b) \/ x5[c] \in AC!LockingAt(b))
    OBVIOUS
  <1>8. AC!Number(both) = StillPending(b) /\ AC!Number(both)' = StillPending(b)'
    BY DEF StillPending
  <1> HIDE DEF both
  <1>9. x5' \in [Callers -> CallPlaces]
    BY <1>1
  <1> QED BY <1>2, <1>3, <1>4, <1>5, <1>6, <1>7, <1>8, <1>9 DEF Passed, Owed

\* The types of these numbers.
LEMMA BucketNumbers ==
  ASSUME AC!TypeOK, NEW b \in AC!Buckets
  PROVE  /\ Passed(b) \in Nat /\ Owed(b) \in Nat /\ StillPending(b) \in Nat
         /\ Passed(b)' \in Nat /\ Owed(b)' \in Nat /\ StillPending(b)' \in Nat
         /\ Passed(b) <= Cardinality(Callers) /\ Owed(b) <= StillPending(b)
         /\ x6[b] \in Nat /\ x1[b] \in Nat /\ x9 \in Nat
         /\ AC!Limit(b) \in Nat \ {0} /\ Cardinality(Callers) \in Nat
  <1>1. /\ Passed(b) \in Nat /\ Owed(b) \in Nat /\ StillPending(b) \in Nat
        /\ Passed(b) <= Cardinality(Callers) /\ Cardinality(Callers) \in Nat
    BY NumberType, CallersCount DEF Passed, Owed, StillPending
  <1>2. Passed(b)' \in Nat /\ Owed(b)' \in Nat /\ StillPending(b)' \in Nat
    BY NumberTypeNext DEF Passed, Owed, StillPending
  <1>3. Owed(b) <= StillPending(b)
    <2>1. {c \in Callers : x5[c] \in AC!OwingAt(b)}
            \subseteq {c \in Callers : x5[c] \in AC!OwingAt(b) \union AC!LockingAt(b)}
      OBVIOUS
    <2>2. IsFiniteSet({c \in Callers : x5[c] \in AC!OwingAt(b) \union AC!LockingAt(b)})
      BY NumberType
    <2> QED BY EdgeCardinality, <2>1, <2>2, FS_Subset DEF Owed, StillPending, AC!Number
  <1>4. x6[b] \in Nat /\ x1[b] \in Nat /\ x9 \in Nat
    BY AccessConstants DEF AC!TypeOK
  <1>5. AC!Limit(b) \in Nat \ {0}
    BY AccessConstants DEF AC!Limit
  <1> QED BY <1>1, <1>2, <1>3, <1>4, <1>5

\* Who is let past the check owes nothing yet, so there is room for one more.
LEMMA RoomForOne ==
  ASSUME AC!TypeOK, NEW s \in {"check", "verify"}, NEW k \in AC!Buckets, NEW s2, NEW k2,
         CallShifts(s, k, s2, k2), NEW b \in AC!Buckets, ~PastOf(s, k, b)
  PROVE  Passed(b) + StillPending(b) < Cardinality(Callers)
  <1> DEFINE both == AC!OwingAt(b) \union AC!LockingAt(b)
             P == {c \in Callers : x5[c] \in AC!PastAt(b)}
             O == {c \in Callers : x5[c] \in both}
  <1>1. PICK c \in Callers : Stands(x5[c], s, k)
    BY DEF CallShifts
  <1>2. c \notin P /\ c \notin O
    <2>1. ~OwingOf(s, k, b) /\ ~LockingOf(s, k, b)
      BY DEF OwingOf, LockingOf
    <2>2. s \in AllSteps
      BY DEF AllSteps, AC!Steps
    <2>3. /\ x5[c] \in AC!PastAt(b) <=> PastOf(s, k, b)
          /\ x5[c] \in AC!OwingAt(b) <=> OwingOf(s, k, b)
          /\ x5[c] \in AC!LockingAt(b) <=> LockingOf(s, k, b)
      BY <1>1, <2>2, CallStands
    <2> QED BY <2>1, <2>3
  <1>3. \A v : v \in AC!PastAt(b) => v \notin both
    <2>1. \A v : v \in AC!PastAt(b) => v[1] \in {"verify", "check"}
      BY DEF AC!PastAt
    <2>2. \A v : v \in both => v[1] \in {"count", "lock"}
      BY DEF AC!OwingAt, AC!LockingAt
    <2> QED BY <2>1, <2>2
  <1>4. P \intersect O = {}
    BY <1>3
  <1>5. P \union O \subseteq Callers \ {c}
    BY <1>2
  <1>6. IsFiniteSet(P) /\ IsFiniteSet(O)
    BY NumberType
  <1>7. Cardinality(P) = Passed(b) /\ Cardinality(O) = StillPending(b)
    BY EdgeCardinality DEF Passed, StillPending, AC!Number
  <1> HIDE DEF P, O
  <1>8. /\ Cardinality(P \union O) = Cardinality(P) + Cardinality(O) - Cardinality(P \intersect O)
        /\ Cardinality(P \intersect O) = 0
    BY <1>4, <1>6, FS_Union, FS_EmptySet
  <1>9. /\ IsFiniteSet(Callers \ {c})
        /\ Cardinality(Callers \ {c}) = Cardinality(Callers) - 1
    BY CallersCount, FS_RemoveElement
  <1>10. Cardinality(P \union O) <= Cardinality(Callers \ {c})
    BY <1>5, <1>9, FS_Subset
  <1> QED BY <1>7, <1>8, <1>9, <1>10, BucketNumbers, CallersCount

\* Where a request stands, and where it goes.
LEMMA StandsAt ==
  ASSUME AC!TypeOK, NEW c \in Callers, NEW s \in AC!Steps, NEW k \in AC!Buckets, AC!At(c, s, k)
  PROVE  Stands(x5[c], s, k) /\ AC!Good(c) \in BOOLEAN
  <1>1. x5[c] \in CallPlaces
    BY DEF AC!TypeOK, CallPlaces
  <1>2. x5[c] # <<"idle">>
    BY DEF AC!At, AC!Steps
  <1>3. x5[c] = <<s, k, AC!Good(c)>> /\ AC!Good(c) \in BOOLEAN
    BY <1>1, <1>2 DEF CallPlaces, AC!At, AC!Good
  <1> QED BY <1>2, <1>3 DEF Stands, AC!Steps

\* Goto and Answer move a request.
LEMMA GotoShifts ==
  ASSUME AC!TypeOK, NEW c \in Callers, NEW s \in AC!Steps, NEW k \in AC!Buckets, AC!At(c, s, k),
         NEW s2 \in AC!Steps, NEW k2 \in AC!Buckets, AC!Goto(c, s2, k2)
  PROVE  CallShifts(s, k, s2, k2)
  <1>1. <<s2, k2, AC!Good(c)>> \in CallPlaces
    BY StandsAt DEF CallPlaces
  <1>2. Stands(<<s2, k2, AC!Good(c)>>, s2, k2)
    BY StandsAt DEF Stands, AC!Steps
  <1> QED BY <1>1, <1>2, StandsAt DEF CallShifts, AC!Goto

LEMMA AnswerShifts ==
  ASSUME AC!TypeOK, NEW c \in Callers, NEW s \in AC!Steps, NEW k \in AC!Buckets, AC!At(c, s, k),
         AC!Answer(c)
  PROVE  CallShifts(s, k, "idle", "key")
  <1>1. <<"idle">> \in CallPlaces /\ Stands(<<"idle">>, "idle", "key")
    BY DEF CallPlaces, Stands
  <1> QED BY <1>1, StandsAt DEF CallShifts, AC!Answer

\* A request is at one of these places.
LEMMA CallsTyped == AC!TypeOK => x5 \in [Callers -> CallPlaces]
  BY DEF AC!TypeOK, CallPlaces

\* At first nobody has guessed and nobody is locked out.
LEMMA LockoutInit == AC!Init => AC!LockoutInv
  <1> USE AccessConstants
  <1> SUFFICES ASSUME AC!Init PROVE AC!LockoutInv
    OBVIOUS
  <1>1. AC!TypeOK
    BY DEF AC!Init, AC!TypeOK
  <1>2. ServedRight
    BY DEF AC!Init, ServedRight
  <1>3. ASSUME NEW b \in AC!Buckets PROVE BucketRight(b)
    <2>1. x6[b] = 0 /\ x1[b] = 0 /\ x9 = 0
      BY DEF AC!Init
    <2>2. \A c \in Callers : x5[c] \notin AC!PastAt(b)
      BY DEF AC!Init, AC!PastAt
    <2>3. {c \in Callers : x5[c] \in AC!PastAt(b)} = {}
      BY <2>2
    <2>4. Passed(b) = 0
      BY EdgeCardinality, <2>3, FS_EmptySet DEF Passed, AC!Number
    <2> QED BY <1>1, <2>1, <2>4, BucketNumbers DEF BucketRight
  <1> QED BY <1>1, <1>2, <1>3, LockoutParts DEF AllBucketsRight

\* What a command does to the count of those that failed.
ValkeyCommand == x9' \in {x9, x9 + 1} /\ x9' \in 0..MaxErrors

\* A Valkey command runs, or fails and is counted.
LEMMA CommandOnce ==
  ASSUME AC!TypeOK
  PROVE  /\ AC!CommandRuns => ValkeyCommand
         /\ AC!CommandFails => ValkeyCommand
         /\ UNCHANGED x9 => ValkeyCommand
  BY AccessConstants DEF AC!TypeOK, ValkeyCommand, AC!CommandRuns, AC!CommandFails

\* A request that goes on with the counters as they are.  It passes the check of a
\* bucket without lockout, or on an error; and it is rid of what it owes, or of the
\* lockout it was about to set, on an error, or with the lockout set.
LEMMA PassingKeeps ==
  ASSUME AC!TypeOK, AllBucketsRight,
         NEW s \in AllSteps, NEW k \in AC!Buckets, NEW s2 \in AllSteps, NEW k2 \in AC!Buckets,
         CallShifts(s, k, s2, k2), UNCHANGED <<x1, x6>>, x2 \subseteq x2', ValkeyCommand,
         \A b \in AC!Buckets : PastOf(s2, k2, b) =>
            \/ PastOf(s, k, b) \/ x9' = x9 + 1
            \/ b \notin x2 /\ s \in {"check", "verify"},
         \A b \in AC!Buckets : OwingOf(s, k, b) => OwingOf(s2, k2, b) \/ x9' = x9 + 1,
         \A b \in AC!Buckets : OwingOf(s, k, b) \/ LockingOf(s, k, b) =>
            \/ OwingOf(s2, k2, b) \/ LockingOf(s2, k2, b) \/ x9' = x9 + 1
            \/ b \in x2'
  PROVE  AllBucketsRight'
  <1> SUFFICES ASSUME NEW b \in AC!Buckets PROVE BucketRight(b)'
    BY DEF AllBucketsRight
  <1>1. /\ Passed(b)' = Passed(b) + (IF PastOf(s2, k2, b) THEN 1 ELSE 0)
                                  - (IF PastOf(s, k, b) THEN 1 ELSE 0)
        /\ Owed(b)' = Owed(b) + (IF OwingOf(s2, k2, b) THEN 1 ELSE 0)
                              - (IF OwingOf(s, k, b) THEN 1 ELSE 0)
        /\ StillPending(b)' =
              StillPending(b) + (IF OwingOf(s2, k2, b) \/ LockingOf(s2, k2, b) THEN 1 ELSE 0)
                         - (IF OwingOf(s, k, b) \/ LockingOf(s, k, b) THEN 1 ELSE 0)
    BY ShiftCounts, CallsTyped
  <1>2. BucketRight(b)
    BY DEF AllBucketsRight
  <1>3. x6[b] + Passed(b)' < AC!Limit(b) + Cardinality(Callers) + x9'
    <2>1. CASE PastOf(s2, k2, b) /\ ~PastOf(s, k, b) /\ x9' # x9 + 1
      <3>1. b \notin x2 /\ s \in {"check", "verify"}
        BY <2>1
      <3>2. Passed(b) + StillPending(b) < Cardinality(Callers)
        BY <2>1, <3>1, RoomForOne
      <3>3. x6[b] < AC!Limit(b) + StillPending(b) + x9
        BY <1>2, <3>1 DEF BucketRight
      <3>4. Passed(b)' = Passed(b) + 1 /\ x9' = x9
        BY <1>1, <2>1, BucketNumbers DEF ValkeyCommand
      <3> QED BY <3>2, <3>3, <3>4, BucketNumbers
    <2>2. CASE ~(PastOf(s2, k2, b) /\ ~PastOf(s, k, b) /\ x9' # x9 + 1)
      <3>1. Passed(b)' <= Passed(b) \/ (x9' = x9 + 1 /\ Passed(b)' <= Passed(b) + 1)
        BY <1>1, <2>2, BucketNumbers
      <3> QED BY <1>2, <3>1, BucketNumbers DEF BucketRight, ValkeyCommand
    <2> QED BY <2>1, <2>2
  <1>4. x6[b] <= x1[b] + Owed(b)' + x9'
    <2>1. Owed(b)' >= Owed(b) \/ (x9' = x9 + 1 /\ Owed(b)' >= Owed(b) - 1)
      BY <1>1, BucketNumbers
    <2> QED BY <1>2, <2>1, BucketNumbers DEF BucketRight, ValkeyCommand
  <1>5. b \in x2' \/ x6[b] < AC!Limit(b) + StillPending(b)' + x9'
    <2>1. \/ b \in x2' \/ StillPending(b)' >= StillPending(b)
          \/ x9' = x9 + 1 /\ StillPending(b)' >= StillPending(b) - 1
      BY <1>1, BucketNumbers
    <2> QED BY <1>2, <2>1, BucketNumbers DEF BucketRight, ValkeyCommand
  <1>6. AC!Limit(b)' = AC!Limit(b) /\ x6'[b] = x6[b] /\ x1'[b] = x1[b]
    BY DEF AC!Limit
  <1> QED BY <1>3, <1>4, <1>5, <1>6 DEF BucketRight

\* A step that serves nothing keeps the rate limit.
LEMMA ServedStays ==
  ASSUME AC!TypeOK, ServedRight, UNCHANGED <<x7, x3>>, ValkeyCommand PROVE ServedRight'
  <1>1. x7 \in Nat /\ x3 \in Nat /\ x9 \in Nat /\ RateLimitRPM \in Nat
    BY AccessConstants DEF AC!TypeOK
  <1>2. x7 <= RateLimitRPM + x9 /\ x7 <= x3 + x9
    BY DEF ServedRight
  <1>3. x7 <= RateLimitRPM + (x9 + 1) /\ x7 <= x3 + (x9 + 1)
    BY <1>1, <1>2
  <1>4. x9' = x9 \/ x9' = x9 + 1
    BY DEF ValkeyCommand
  <1> QED BY <1>2, <1>3, <1>4 DEF ServedRight

\* Arrive: a request comes, and has not guessed.
LEMMA ArriveKeeps == ASSUME AC!LockoutInv, NEW c \in Callers, AC!Arrive(c) PROVE AC!LockoutInv'
  <1> USE AccessConstants
  <1>1. AC!TypeOK /\ AllBucketsRight /\ ServedRight
    BY LockoutParts
  <1>2. /\ x5[c] = <<"idle">> /\ x8 < MaxCalls /\ x8' = x8 + 1
        /\ UNCHANGED <<x1, x2, x3, x4, x6, x7, x9>>
    BY DEF AC!Arrive, AC!valkey
  <1>3. PICK b \in {"key", "account"}, good \in BOOLEAN :
            x5' = [x5 EXCEPT ![c] = <<"check", b, good>>]
    BY DEF AC!Arrive
  <1>4. <<"check", b, good>> \in CallPlaces /\ Stands(<<"check", b, good>>, "check", b)
    BY DEF CallPlaces, AC!Steps, AC!Buckets, Stands
  <1>5. Stands(x5[c], "idle", "key")
    BY <1>2 DEF Stands
  <1>6. CallShifts("idle", "key", "check", b)
    BY <1>3, <1>4, <1>5 DEF CallShifts
  <1>7. ValkeyCommand
    BY <1>1, <1>2, CommandOnce
  <1>8. AllBucketsRight'
    <2>1. \A a \in AC!Buckets : /\ ~PastOf("check", b, a) /\ ~OwingOf("idle", "key", a)
                            /\ ~LockingOf("idle", "key", a)
      BY DEF PastOf, OwingOf, LockingOf
    <2> QED BY <1>1, <1>2, <1>6, <1>7, <2>1, PassingKeeps DEF AllSteps, AC!Steps, AC!Buckets
  <1>9. AC!TypeOK'
    BY <1>1, <1>2, <1>3, <1>4 DEF AC!TypeOK, CallPlaces
  <1> QED BY <1>1, <1>2, <1>7, <1>8, <1>9, ServedStays, LockoutPartsNext

\* The types after a request has moved and a command, or none, has run.
LEMMA MovedTypes ==
  ASSUME AC!TypeOK, NEW s \in AllSteps, NEW k \in AC!Buckets, NEW s2 \in AllSteps,
         NEW k2 \in AC!Buckets,
         CallShifts(s, k, s2, k2), ValkeyCommand,
         x1' \in [AC!Buckets -> Nat], x6' \in [AC!Buckets -> Nat], x2' \subseteq AC!Buckets,
         x3' \in Nat, x7' \in Nat, UNCHANGED <<x4, x8>>
  PROVE  AC!TypeOK'
  <1>1. x5' \in [Callers -> CallPlaces]
    BY CallsTyped DEF CallShifts
  <1> QED BY <1>1 DEF AC!TypeOK, CallPlaces, ValkeyCommand

\* A step that leaves the counters alone keeps the invariant if the numbers allow.
LEMMA PassingMoves ==
  ASSUME AC!LockoutInv,
         NEW s \in AllSteps, NEW k \in AC!Buckets, NEW s2 \in AllSteps, NEW k2 \in AC!Buckets,
         CallShifts(s, k, s2, k2), UNCHANGED <<x1, x6, x3, x7, x4, x8>>,
         x2 \subseteq x2', x2' \subseteq AC!Buckets, ValkeyCommand,
         \A b \in AC!Buckets : PastOf(s2, k2, b) =>
            \/ PastOf(s, k, b) \/ x9' = x9 + 1
            \/ b \notin x2 /\ s \in {"check", "verify"},
         \A b \in AC!Buckets : OwingOf(s, k, b) => OwingOf(s2, k2, b) \/ x9' = x9 + 1,
         \A b \in AC!Buckets : OwingOf(s, k, b) \/ LockingOf(s, k, b) =>
            \/ OwingOf(s2, k2, b) \/ LockingOf(s2, k2, b) \/ x9' = x9 + 1
            \/ b \in x2'
  PROVE  AC!LockoutInv'
  <1>1. AC!TypeOK /\ AllBucketsRight /\ ServedRight
    BY LockoutParts
  <1>2. x1 \in [AC!Buckets -> Nat] /\ x6 \in [AC!Buckets -> Nat] /\ x3 \in Nat /\ x7 \in Nat
    BY <1>1 DEF AC!TypeOK
  <1>3. AC!TypeOK'
    BY <1>1, <1>2, MovedTypes
  <1>4. AllBucketsRight'
    BY <1>1, PassingKeeps
  <1> QED BY <1>1, <1>3, <1>4, ServedStays, LockoutPartsNext

\* LockoutCheck: a request passes the check of a bucket that is not locked.
LEMMA LockoutCheckKeeps ==
  ASSUME AC!LockoutInv, NEW c \in Callers, NEW b \in AC!Buckets, AC!LockoutCheck(c, b)
  PROVE  AC!LockoutInv'
  <1>1. AC!TypeOK
    BY LockoutParts
  <1>2. /\ AC!At(c, "check", b)
        /\ UNCHANGED <<x1, x2, x3, x4, x6, x7, x8>>
    BY DEF AC!LockoutCheck, AC!valkey
  <1>3. ValkeyCommand /\ x2' \subseteq AC!Buckets
    BY <1>1, <1>2, CommandOnce DEF AC!LockoutCheck, AC!TypeOK
  <1>4. {"check", "verify", "idle"} \subseteq AllSteps /\ {"check", "verify"} \subseteq AC!Steps
    BY DEF AllSteps, AC!Steps
  <1>5. CASE AC!CommandRuns /\ AC!IsLockedOut(b) /\ AC!Answer(c)
    <2>1. CallShifts("check", b, "idle", "key")
      BY <1>1, <1>2, <1>4, <1>5, AnswerShifts
    <2>2. \A a \in AC!Buckets : ~PastOf("idle", "key", a) /\ ~OwingOf("check", b, a)
                            /\ ~LockingOf("check", b, a)
      BY DEF PastOf, OwingOf, LockingOf
    <2> QED BY <1>2, <1>3, <1>4, <2>1, <2>2, PassingMoves DEF AC!Buckets
  <1>6. CASE AC!CommandRuns /\ ~AC!IsLockedOut(b) /\ b = "account" /\ AC!Goto(c, "check", "ip")
    <2>1. CallShifts("check", b, "check", "ip")
      BY <1>1, <1>2, <1>4, <1>6, GotoShifts DEF AC!Buckets
    <2>2. \A a \in AC!Buckets : /\ PastOf("check", "ip", a) => a \notin x2
                            /\ ~OwingOf("check", b, a) /\ ~LockingOf("check", b, a)
      BY <1>6 DEF PastOf, OwingOf, LockingOf, AC!IsLockedOut
    <2> QED BY <1>2, <1>3, <1>4, <2>1, <2>2, PassingMoves DEF AC!Buckets
  <1>7. CASE AC!CommandRuns /\ ~AC!IsLockedOut(b) /\ b # "account" /\ AC!Goto(c, "verify", b)
    <2>1. CallShifts("check", b, "verify", b)
      BY <1>1, <1>2, <1>4, <1>7, GotoShifts
    <2>2. \A a \in AC!Buckets : /\ PastOf("verify", b, a) => PastOf("check", b, a) \/ a \notin x2
                            /\ ~OwingOf("check", b, a) /\ ~LockingOf("check", b, a)
      BY <1>7 DEF PastOf, OwingOf, LockingOf, AC!IsLockedOut, AC!Buckets
    <2> QED BY <1>2, <1>3, <1>4, <2>1, <2>2, PassingMoves
  <1>8. CASE AC!CommandFails /\ AC!Goto(c, "verify", b)
    <2>1. CallShifts("check", b, "verify", b)
      BY <1>1, <1>2, <1>4, <1>8, GotoShifts
    <2>2. x9' = x9 + 1
      BY <1>8 DEF AC!CommandFails
    <2> QED BY <1>2, <1>3, <1>4, <2>1, <2>2, PassingMoves DEF OwingOf, LockingOf
  <1> QED BY <1>5, <1>6, <1>7, <1>8 DEF AC!LockoutCheck, AC!AfterCheck

\* A wrong secret: one that was past the check owes it to the counters of B.
LEMMA GuessKeeps ==
  ASSUME AC!LockoutInv, NEW s \in AllSteps, NEW k \in AC!Buckets, NEW s2 \in AllSteps,
         NEW k2 \in AC!Buckets,
         CallShifts(s, k, s2, k2), NEW B \in SUBSET AC!Buckets, AC!Guessed(B),
         UNCHANGED <<AC!valkey, x4, x7, x8, x9>>,
         \A b \in AC!Buckets : ~OwingOf(s, k, b) /\ ~LockingOf(s, k, b) /\ ~PastOf(s2, k2, b),
         \A b \in B : PastOf(s, k, b) /\ OwingOf(s2, k2, b)
  PROVE  AC!LockoutInv'
  <1>1. AC!TypeOK /\ AllBucketsRight /\ ServedRight
    BY LockoutParts
  <1>2. ValkeyCommand
    BY <1>1, CommandOnce
  <1>3. UNCHANGED <<x1, x2, x3>>
    BY DEF AC!valkey
  <1>4. x6' \in [AC!Buckets -> Nat] /\ x1 \in [AC!Buckets -> Nat] /\ x3 \in Nat
        /\ x7 \in Nat /\ x2 \subseteq AC!Buckets
    BY <1>1 DEF AC!Guessed, AC!TypeOK
  <1>5. AC!TypeOK'
    BY <1>1, <1>2, <1>3, <1>4, MovedTypes
  <1>6. ASSUME NEW b \in AC!Buckets PROVE BucketRight(b)'
    <2>1. /\ Passed(b)' = Passed(b) - (IF PastOf(s, k, b) THEN 1 ELSE 0)
          /\ Owed(b)' = Owed(b) + (IF OwingOf(s2, k2, b) THEN 1 ELSE 0)
          /\ StillPending(b)' =
                StillPending(b) + (IF OwingOf(s2, k2, b) \/ LockingOf(s2, k2, b) THEN 1 ELSE 0)
      BY <1>1, ShiftCounts, CallsTyped, BucketNumbers
    <2>2. x6'[b] = x6[b] + (IF b \in B THEN 1 ELSE 0)
      BY DEF AC!Guessed
    <2>3. BucketRight(b) /\ AC!Limit(b)' = AC!Limit(b)
      BY <1>1 DEF AllBucketsRight, AC!Limit
    <2>4. CASE b \in B
      <3>1. /\ Passed(b)' = Passed(b) - 1 /\ Owed(b)' = Owed(b) + 1
            /\ StillPending(b)' = StillPending(b) + 1
        BY <2>1, <2>4
      <3> QED BY <1>1, <1>3, <2>2, <2>3, <2>4, <3>1, BucketNumbers DEF BucketRight
    <2>5. CASE b \notin B
      <3>1. Passed(b)' <= Passed(b) /\ Owed(b)' >= Owed(b) /\ StillPending(b)' >= StillPending(b)
        BY <1>1, <2>1, BucketNumbers
      <3> QED BY <1>1, <1>3, <2>2, <2>3, <2>5, <3>1, BucketNumbers DEF BucketRight
    <2> QED BY <2>4, <2>5
  <1> QED BY <1>1, <1>2, <1>3, <1>5, <1>6, ServedStays, LockoutPartsNext DEF AllBucketsRight

\* AuthenticateAPIKey: a key is right or wrong.
LEMMA KeyCheckKeeps ==
    ASSUME AC!LockoutInv, NEW c \in Callers, AC!AuthenticateAPIKey(c)
    PROVE  AC!LockoutInv'
  <1>1. AC!TypeOK
    BY LockoutParts
  <1>2. AC!At(c, "verify", "key") /\ UNCHANGED <<AC!valkey, x4, x7, x8, x9>>
    BY DEF AC!AuthenticateAPIKey
  <1>3. /\ {"verify", "clear", "count"} \subseteq AC!Steps /\ AC!Steps \subseteq AllSteps
        /\ "key" \in AC!Buckets
    BY DEF AC!Steps, AllSteps, AC!Buckets
  <1>4. CASE AC!Goto(c, "clear", "key") /\ UNCHANGED x6
    <2>1. CallShifts("verify", "key", "clear", "key")
      BY <1>1, <1>2, <1>3, <1>4, GotoShifts
    <2>2. \A b \in AC!Buckets : ~PastOf("clear", "key", b) /\ ~OwingOf("verify", "key", b)
                            /\ ~LockingOf("verify", "key", b)
      BY DEF PastOf, OwingOf, LockingOf
    <2>3. ValkeyCommand /\ UNCHANGED <<x1, x2, x3>> /\ x2 \subseteq AC!Buckets
      BY <1>1, <1>2, CommandOnce DEF AC!valkey, AC!TypeOK
    <2> QED BY <1>2, <1>3, <1>4, <2>1, <2>2, <2>3, PassingMoves
  <1>5. CASE AC!Goto(c, "count", "key") /\ AC!Guessed({"key"})
    <2>1. CallShifts("verify", "key", "count", "key")
      BY <1>1, <1>2, <1>3, <1>5, GotoShifts
    <2>2. \A b \in AC!Buckets : /\ ~OwingOf("verify", "key", b) /\ ~LockingOf("verify", "key", b)
                            /\ ~PastOf("count", "key", b)
      BY DEF PastOf, OwingOf, LockingOf
    <2>3. PastOf("verify", "key", "key") /\ OwingOf("count", "key", "key")
      BY DEF PastOf, OwingOf
    <2>4. \A b \in {"key"} : PastOf("verify", "key", b) /\ OwingOf("count", "key", b)
      BY <2>3
    <2> QED BY <1>2, <1>3, <1>5, <2>1, <2>2, <2>4, GuessKeeps
  <1> QED BY <1>4, <1>5 DEF AC!AuthenticateAPIKey

\* VerifyPassword: a password is right or wrong.
LEMMA VerifyKeeps ==
    ASSUME AC!LockoutInv, NEW c \in Callers, AC!VerifyPassword(c)
    PROVE  AC!LockoutInv'
  <1>1. AC!TypeOK
    BY LockoutParts
  <1>2. /\ x5[c][1] = "verify" /\ x5[c][2] # "key"
        /\ UNCHANGED <<AC!valkey, x4, x7, x8, x9>>
    BY DEF AC!VerifyPassword
  <1> DEFINE k == x5[c][2]
  <1>3. k \in AC!Buckets
    <2>1. x5[c] \in CallPlaces
      BY <1>1 DEF AC!TypeOK, CallPlaces
    <2> QED BY <1>2, <2>1 DEF CallPlaces
  <1>4. AC!At(c, "verify", k) /\ k # "key"
    BY <1>2 DEF AC!At
  <1> HIDE DEF k
  <1>5. /\ {"verify", "minted", "count"} \subseteq AC!Steps /\ AC!Steps \subseteq AllSteps
        /\ {"account", "ip"} \subseteq AC!Buckets
    BY DEF AC!Steps, AllSteps, AC!Buckets
  <1>6. CASE AC!Goto(c, "minted", "account") /\ UNCHANGED x6
    <2>1. CallShifts("verify", k, "minted", "account")
      BY <1>1, <1>3, <1>4, <1>5, <1>6, GotoShifts
    <2>2. \A b \in AC!Buckets : ~PastOf("minted", "account", b) /\ ~OwingOf("verify", k, b)
                            /\ ~LockingOf("verify", k, b)
      BY DEF PastOf, OwingOf, LockingOf
    <2>3. ValkeyCommand /\ UNCHANGED <<x1, x2, x3>> /\ x2 \subseteq AC!Buckets
      BY <1>1, <1>2, CommandOnce DEF AC!valkey, AC!TypeOK
    <2> QED BY <1>2, <1>3, <1>5, <1>6, <2>1, <2>2, <2>3, PassingMoves
  <1>7. CASE AC!Goto(c, "count", "account") /\ AC!Guessed({"account", "ip"})
    <2>1. CallShifts("verify", k, "count", "account")
      BY <1>1, <1>3, <1>4, <1>5, <1>7, GotoShifts
    <2>2. \A b \in AC!Buckets : /\ ~OwingOf("verify", k, b) /\ ~LockingOf("verify", k, b)
                            /\ ~PastOf("count", "account", b)
      BY DEF PastOf, OwingOf, LockingOf
    <2>3. \A b \in {"account", "ip"} : PastOf("verify", k, b) /\ OwingOf("count", "account", b)
      BY <1>4 DEF PastOf, OwingOf
    <2> QED BY <1>2, <1>3, <1>5, <1>7, <2>1, <2>2, <2>3, GuessKeeps
  <1> QED BY <1>6, <1>7 DEF AC!VerifyPassword

\* MintPair: a log-in succeeds.
LEMMA PairMintKeeps == ASSUME AC!LockoutInv, NEW c \in Callers, AC!MintPair(c) PROVE AC!LockoutInv'
  <1>1. AC!TypeOK
    BY LockoutParts
  <1>2. /\ AC!At(c, "minted", "account")
        /\ UNCHANGED <<x1, x2, x3, x4, x6, x7, x8>>
    BY DEF AC!MintPair, AC!valkey
  <1>3. ValkeyCommand /\ x2 \subseteq AC!Buckets
    BY <1>1, CommandOnce DEF AC!MintPair, AC!TypeOK
  <1>4. /\ {"minted", "clear"} \subseteq AC!Steps /\ AC!Steps \subseteq AllSteps
        /\ "idle" \in AllSteps
        /\ {"account", "key"} \subseteq AC!Buckets
    BY DEF AC!Steps, AllSteps, AC!Buckets
  <1>5. \A b \in AC!Buckets : /\ ~PastOf("clear", "account", b) /\ ~PastOf("idle", "key", b)
                          /\ ~OwingOf("minted", "account", b) /\ ~LockingOf("minted", "account", b)
    BY DEF PastOf, OwingOf, LockingOf
  <1>6. CASE AC!Goto(c, "clear", "account")
    <2>1. CallShifts("minted", "account", "clear", "account")
      BY <1>1, <1>2, <1>4, <1>6, GotoShifts
    <2> QED BY <1>2, <1>3, <1>4, <1>5, <2>1, PassingMoves
  <1>7. CASE AC!Answer(c)
    <2>1. CallShifts("minted", "account", "idle", "key")
      BY <1>1, <1>2, <1>4, <1>7, AnswerShifts
    <2> QED BY <1>2, <1>3, <1>4, <1>5, <2>1, PassingMoves
  <1> QED BY <1>6, <1>7 DEF AC!MintPair

\* INCR of a bucket's counter: its caller no longer owes it.
LEMMA CountedKeeps ==
  ASSUME AC!LockoutInv, NEW b \in AC!Buckets, NEW s2 \in AllSteps, NEW k2 \in AC!Buckets,
         CallShifts("count", b, s2, k2), x1' = [x1 EXCEPT ![b] = @ + 1],
         UNCHANGED <<x2, x3, x4, x6, x7, x8, x9>>,
         \A a \in AC!Buckets : ~PastOf(s2, k2, a),
         b = "account" => OwingOf(s2, k2, "ip"),
         \/ s2 = "lock" /\ k2 = b
         \/ x1[b] + 1 < AC!Limit(b)
  PROVE  AC!LockoutInv'
  <1>1. AC!TypeOK /\ AllBucketsRight /\ ServedRight
    BY LockoutParts
  <1>2. ValkeyCommand /\ "count" \in AllSteps
    BY <1>1, CommandOnce DEF AllSteps, AC!Steps
  <1>3. /\ x1' \in [AC!Buckets -> Nat] /\ x6 \in [AC!Buckets -> Nat] /\ x3 \in Nat
        /\ x7 \in Nat /\ x2 \subseteq AC!Buckets
    BY <1>1 DEF AC!TypeOK
  <1>4. AC!TypeOK'
    BY <1>1, <1>2, <1>3, MovedTypes
  <1>5. ASSUME NEW a \in AC!Buckets PROVE BucketRight(a)'
    <2>1. /\ Passed(a)' = Passed(a) + (IF PastOf(s2, k2, a) THEN 1 ELSE 0)
                                    - (IF PastOf("count", b, a) THEN 1 ELSE 0)
          /\ Owed(a)' = Owed(a) + (IF OwingOf(s2, k2, a) THEN 1 ELSE 0)
                                - (IF OwingOf("count", b, a) THEN 1 ELSE 0)
          /\ StillPending(a)' =
                StillPending(a) + (IF OwingOf(s2, k2, a) \/ LockingOf(s2, k2, a) THEN 1 ELSE 0)
                           - (IF OwingOf("count", b, a) \/ LockingOf("count", b, a) THEN 1 ELSE 0)
      BY <1>1, <1>2, ShiftCounts, CallsTyped
    <2>2. ~PastOf(s2, k2, a) /\ ~PastOf("count", b, a) /\ ~LockingOf("count", b, a)
      BY DEF PastOf, LockingOf
    <2>3. BucketRight(a) /\ AC!Limit(a)' = AC!Limit(a)
      BY <1>1 DEF AllBucketsRight, AC!Limit
    <2>4. Passed(a)' = Passed(a)
      BY <1>1, <2>1, <2>2, BucketNumbers
    <2>5. CASE a = b
      <3>1. OwingOf("count", b, a)
        BY <2>5 DEF OwingOf
      <3>2. x1'[a] = x1[a] + 1
        BY <1>1, <2>5 DEF AC!TypeOK
      <3>3. Owed(a)' >= Owed(a) - 1
        BY <1>1, <2>1, <3>1, BucketNumbers
      <3>4. x6[a] <= x1'[a] + Owed(a)' + x9
        BY <1>1, <2>3, <3>2, <3>3, BucketNumbers DEF BucketRight
      <3>5. a \in x2 \/ x6[a] < AC!Limit(a) + StillPending(a)' + x9
        <4>1. CASE s2 = "lock" /\ k2 = b
          <5>1. LockingOf(s2, k2, a)
            BY <2>5, <4>1 DEF LockingOf
          <5>2. StillPending(a)' = StillPending(a)
            BY <1>1, <2>1, <2>2, <3>1, <5>1, BucketNumbers
          <5> QED BY <2>3, <5>2 DEF BucketRight
        <4>2. CASE x1[b] + 1 < AC!Limit(b)
          <5>1. Owed(a)' <= StillPending(a)'
            BY <1>1, <2>1, <2>2, <3>1, BucketNumbers
          <5> QED BY <1>1, <2>5, <3>2, <3>4, <4>2, <5>1, BucketNumbers
        <4> QED BY <4>1, <4>2
      <3> QED BY <2>3, <2>4, <3>4, <3>5 DEF BucketRight
    <2>6. CASE a # b
      <3>1. OwingOf("count", b, a) => OwingOf(s2, k2, a)
        BY <2>6 DEF OwingOf
      <3>2. x1'[a] = x1[a]
        BY <1>1, <2>6 DEF AC!TypeOK
      <3>3. Owed(a)' >= Owed(a) /\ StillPending(a)' >= StillPending(a)
        BY <1>1, <2>1, <2>2, <3>1, BucketNumbers
      <3> QED BY <1>1, <2>3, <2>4, <3>2, <3>3, BucketNumbers DEF BucketRight
    <2> QED BY <2>5, <2>6
  <1> QED BY <1>1, <1>2, <1>4, <1>5, ServedStays, LockoutPartsNext DEF AllBucketsRight

\* incrWithExpire: a guess is counted.
LEMMA IncrKeeps ==
  ASSUME AC!LockoutInv, NEW c \in Callers, NEW b \in AC!Buckets, AC!incrWithExpire(c, b)
  PROVE  AC!LockoutInv'
  <1>1. AC!TypeOK
    BY LockoutParts
  <1>2. /\ AC!At(c, "count", b) /\ UNCHANGED <<x2, x3, x4, x6, x7, x8>>
    BY DEF AC!incrWithExpire
  <1>3. /\ {"count", "lock"} \subseteq AC!Steps /\ AC!Steps \subseteq AllSteps
        /\ "idle" \in AllSteps
        /\ {"key", "account", "ip"} \subseteq AC!Buckets
    BY DEF AC!Steps, AllSteps, AC!Buckets
  <1>4. \A a, k \in AC!Buckets :
           ~PastOf("lock", k, a) /\ ~PastOf("count", k, a) /\ ~PastOf("idle", k, a)
    BY DEF PastOf
  <1>5. CASE /\ AC!CommandRuns /\ x1' = [x1 EXCEPT ![b] = @ + 1]
             /\ AC!CrossesThreshold(b, x1[b] + 1) /\ AC!Goto(c, "lock", b)
    <2>1. CallShifts("count", b, "lock", b)
      BY <1>1, <1>2, <1>3, <1>5, GotoShifts
    <2>2. b = "account" => OwingOf("lock", b, "ip")
      BY DEF OwingOf
    <2> QED BY <1>2, <1>3, <1>4, <1>5, <2>1, <2>2, CountedKeeps DEF AC!CommandRuns
  <1>6. CASE /\ AC!CommandRuns /\ x1' = [x1 EXCEPT ![b] = @ + 1]
             /\ ~AC!CrossesThreshold(b, x1[b] + 1) /\ AC!AfterCount(c, b)
    <2>1. x1[b] + 1 < AC!Limit(b)
      BY <1>1, <1>6, BucketNumbers DEF AC!CrossesThreshold
    <2>2. CASE b = "account" /\ AC!Goto(c, "count", "ip")
      <3>1. CallShifts("count", b, "count", "ip")
        BY <1>1, <1>2, <1>3, <2>2, GotoShifts
      <3>2. OwingOf("count", "ip", "ip")
        BY DEF OwingOf
      <3> QED BY <1>2, <1>3, <1>4, <1>6, <2>1, <3>1, <3>2, CountedKeeps DEF AC!CommandRuns
    <2>3. CASE b # "account" /\ AC!Answer(c)
      <3>1. CallShifts("count", b, "idle", "key")
        BY <1>1, <1>2, <1>3, <2>3, AnswerShifts
      <3> QED BY <1>2, <1>3, <1>4, <1>6, <2>1, <2>3, <3>1, CountedKeeps DEF AC!CommandRuns
    <2> QED BY <1>6, <2>2, <2>3 DEF AC!AfterCount
  <1>7. CASE AC!CommandFails /\ AC!Answer(c) /\ UNCHANGED x1
    <2>1. CallShifts("count", b, "idle", "key")
      BY <1>1, <1>2, <1>3, <1>7, AnswerShifts
    <2>2. ValkeyCommand /\ x9' = x9 + 1 /\ x2 \subseteq AC!Buckets
      BY <1>1, <1>7, CommandOnce DEF AC!CommandFails, AC!TypeOK
    <2> QED BY <1>2, <1>3, <1>4, <1>7, <2>1, <2>2, PassingMoves
  <1> QED BY <1>5, <1>6, <1>7 DEF AC!incrWithExpire

\* SetLockout: a bucket over its threshold is locked.
LEMMA SetKeeps ==
  ASSUME AC!LockoutInv, NEW c \in Callers, NEW b \in AC!Buckets, AC!SetLockout(c, b)
  PROVE  AC!LockoutInv'
  <1>1. AC!TypeOK
    BY LockoutParts
  <1>2. AC!At(c, "lock", b) /\ UNCHANGED <<x1, x3, x4, x6, x7, x8>>
    BY DEF AC!SetLockout
  <1>3. /\ {"count", "lock"} \subseteq AC!Steps /\ AC!Steps \subseteq AllSteps
        /\ "idle" \in AllSteps
        /\ {"key", "account", "ip"} \subseteq AC!Buckets
    BY DEF AC!Steps, AllSteps, AC!Buckets
  <1>4. \A a, k \in AC!Buckets : ~PastOf("count", k, a) /\ ~PastOf("idle", k, a)
    BY DEF PastOf
  <1>5. ValkeyCommand /\ x2 \subseteq AC!Buckets
    BY <1>1, CommandOnce DEF AC!SetLockout, AC!TypeOK
  <1>6. CASE AC!CommandRuns /\ x2' = x2 \union {b} /\ AC!AfterCount(c, b)
    <2>1. x2 \subseteq x2' /\ x2' \subseteq AC!Buckets /\ b \in x2'
      BY <1>5, <1>6
    <2>2. \A a \in AC!Buckets : LockingOf("lock", b, a) => a \in x2'
      BY <2>1 DEF LockingOf
    <2>3. CASE b = "account" /\ AC!Goto(c, "count", "ip")
      <3>1. CallShifts("lock", b, "count", "ip")
        BY <1>1, <1>2, <1>3, <2>3, GotoShifts
      <3>2. \A a \in AC!Buckets : OwingOf("lock", b, a) => OwingOf("count", "ip", a)
        BY DEF OwingOf
      <3> QED BY <1>2, <1>3, <1>4, <1>5, <2>1, <2>2, <3>1, <3>2, PassingMoves
    <2>4. CASE b # "account" /\ AC!Answer(c)
      <3>1. CallShifts("lock", b, "idle", "key")
        BY <1>1, <1>2, <1>3, <2>4, AnswerShifts
      <3>2. \A a \in AC!Buckets : ~OwingOf("lock", b, a)
        BY <2>4 DEF OwingOf
      <3> QED BY <1>2, <1>3, <1>4, <1>5, <2>1, <2>2, <3>1, <3>2, PassingMoves
    <2> QED BY <1>6, <2>3, <2>4 DEF AC!AfterCount
  <1>7. CASE AC!CommandFails /\ AC!Answer(c) /\ UNCHANGED x2
    <2>1. CallShifts("lock", b, "idle", "key")
      BY <1>1, <1>2, <1>3, <1>7, AnswerShifts
    <2>2. x9' = x9 + 1
      BY <1>7 DEF AC!CommandFails
    <2> QED BY <1>2, <1>3, <1>4, <1>5, <1>7, <2>1, <2>2, PassingMoves
  <1> QED BY <1>6, <1>7 DEF AC!SetLockout

\* ClearFailures: a success resets the counter, and with it the guesses.
LEMMA ClearKeeps ==
  ASSUME AC!LockoutInv, NEW c \in Callers, NEW b \in AC!Buckets, AC!ClearFailures(c, b)
  PROVE  AC!LockoutInv'
  <1>1. AC!TypeOK /\ AllBucketsRight /\ ServedRight
    BY LockoutParts
  <1>2. AC!At(c, "clear", b) /\ UNCHANGED <<x3, x4, x7, x8>>
    BY DEF AC!ClearFailures
  <1>3. /\ {"clear", "throttle"} \subseteq AC!Steps /\ AC!Steps \subseteq AllSteps
        /\ "idle" \in AllSteps
        /\ "key" \in AC!Buckets
    BY DEF AC!Steps, AllSteps, AC!Buckets
  <1>4. ValkeyCommand /\ x2 \subseteq AC!Buckets
    BY <1>1, CommandOnce DEF AC!ClearFailures, AC!TypeOK
  <1>5. PICK s2 \in {"throttle", "idle"} : CallShifts("clear", b, s2, "key")
    <2>1. CASE AC!Goto(c, "throttle", "key")
      BY <1>1, <1>2, <1>3, <2>1, GotoShifts
    <2>2. CASE AC!Answer(c)
      BY <1>1, <1>2, <1>3, <2>2, AnswerShifts
    <2> QED BY <2>1, <2>2 DEF AC!ClearFailures
  <1>6. s2 \in AllSteps /\ "clear" \in AllSteps
    BY <1>3
  <1>7. \A a \in AC!Buckets : /\ ~PastOf(s2, "key", a) /\ ~OwingOf(s2, "key", a)
                          /\ ~LockingOf(s2, "key", a) /\ ~PastOf("clear", b, a)
                          /\ ~OwingOf("clear", b, a) /\ ~LockingOf("clear", b, a)
    BY DEF PastOf, OwingOf, LockingOf
  <1>8. CASE AC!CommandFails /\ UNCHANGED <<x1, x2, x6>>
    BY <1>2, <1>3, <1>4, <1>5, <1>6, <1>7, <1>8, PassingMoves
  <1>9. CASE /\ AC!CommandRuns /\ x1' = [x1 EXCEPT ![b] = 0]
             /\ x6' = [x6 EXCEPT ![b] = 0] /\ x2' = x2 \ {b}
    <2>1. /\ x1' \in [AC!Buckets -> Nat] /\ x6' \in [AC!Buckets -> Nat] /\ x3 \in Nat
          /\ x7 \in Nat /\ x2' \subseteq AC!Buckets /\ x9' = x9
      BY <1>1, <1>9 DEF AC!TypeOK, AC!CommandRuns
    <2>2. AC!TypeOK'
      BY <1>1, <1>2, <1>3, <1>4, <1>5, <1>6, <2>1, MovedTypes
    <2>3. ASSUME NEW a \in AC!Buckets PROVE BucketRight(a)'
      <3>1. Passed(a)' = Passed(a) /\ Owed(a)' = Owed(a) /\ StillPending(a)' = StillPending(a)
        <4>1. /\ Passed(a)' = Passed(a) + (IF PastOf(s2, "key", a) THEN 1 ELSE 0)
                                        - (IF PastOf("clear", b, a) THEN 1 ELSE 0)
              /\ Owed(a)' = Owed(a) + (IF OwingOf(s2, "key", a) THEN 1 ELSE 0)
                                    - (IF OwingOf("clear", b, a) THEN 1 ELSE 0)
              /\ StillPending(a)' =
                    StillPending(a) +
                      (IF OwingOf(s2, "key", a) \/ LockingOf(s2, "key", a) THEN 1 ELSE 0)
                               - (IF OwingOf("clear", b, a) \/ LockingOf("clear", b, a)
                                    THEN 1 ELSE 0)
          BY <1>1, <1>3, <1>5, <1>6, ShiftCounts, CallsTyped
        <4> QED BY <1>1, <1>7, <4>1, BucketNumbers
      <3>2. BucketRight(a) /\ AC!Limit(a)' = AC!Limit(a)
        BY <1>1 DEF AllBucketsRight, AC!Limit
      <3>3. CASE a = b
        <4>1. x6'[a] = 0 /\ x1'[a] = 0
          BY <1>1, <1>9, <3>3 DEF AC!TypeOK
        <4>2. /\ 0 + Passed(a) < AC!Limit(a) + Cardinality(Callers) + x9
              /\ 0 <= 0 + Owed(a) + x9 /\ 0 < AC!Limit(a) + StillPending(a) + x9
          BY <1>1, BucketNumbers
        <4> QED BY <2>1, <3>1, <3>2, <4>1, <4>2 DEF BucketRight
      <3>4. CASE a # b
        <4>1. x6'[a] = x6[a] /\ x1'[a] = x1[a] /\ (a \in x2' <=> a \in x2)
          BY <1>1, <1>9, <3>4 DEF AC!TypeOK
        <4> QED BY <2>1, <3>1, <3>2, <4>1 DEF BucketRight
      <3> QED BY <3>3, <3>4
    <2> QED BY <1>1, <1>2, <1>4, <2>2, <2>3, ServedStays, LockoutPartsNext DEF AllBucketsRight
  <1> QED BY <1>8, <1>9 DEF AC!ClearFailures

\* AllowSuccess: a request is served within the limit of its minute.
LEMMA AllowKeeps == ASSUME AC!LockoutInv, NEW c \in Callers, AC!AllowSuccess(c) PROVE AC!LockoutInv'
  <1>1. AC!TypeOK /\ AllBucketsRight /\ ServedRight
    BY LockoutParts
  <1>2. /\ AC!At(c, "throttle", "key") /\ AC!Answer(c)
        /\ UNCHANGED <<x1, x2, x4, x6, x8>>
    BY DEF AC!AllowSuccess
  <1>3. "throttle" \in AC!Steps /\ {"throttle", "idle"} \subseteq AllSteps /\ "key" \in AC!Buckets
    BY DEF AC!Steps, AllSteps, AC!Buckets
  <1>4. ValkeyCommand
    BY <1>1, CommandOnce DEF AC!AllowSuccess
  <1>5. CallShifts("throttle", "key", "idle", "key")
    BY <1>1, <1>2, <1>3, AnswerShifts
  <1>6. \A a \in AC!Buckets : /\ ~PastOf("idle", "key", a)
                          /\ ~OwingOf("throttle", "key", a) /\ ~LockingOf("throttle", "key", a)
    BY DEF PastOf, OwingOf, LockingOf
  <1>7. AllBucketsRight'
    BY <1>1, <1>2, <1>3, <1>4, <1>5, <1>6, PassingKeeps
  <1>8. /\ x7 \in Nat /\ x3 \in Nat /\ x9 \in Nat /\ RateLimitRPM \in Nat
        /\ x7 <= RateLimitRPM + x9 /\ x7 <= x3 + x9
    BY <1>1, AccessConstants DEF AC!TypeOK, ServedRight
  <1>9. x7' \in Nat /\ x3' \in Nat /\ ServedRight'
    <2>1. CASE AC!CommandRuns /\ x3' = x3 + 1 /\ x3 + 1 <= RateLimitRPM /\ x7' = x7 + 1
      <3>1. x9' = x9 /\ x7 + 1 <= RateLimitRPM + x9 /\ x7 + 1 <= x3 + 1 + x9
        BY <1>8, <2>1 DEF AC!CommandRuns
      <3> QED BY <1>8, <2>1, <3>1 DEF ServedRight
    <2>2. CASE AC!CommandRuns /\ x3' = x3 + 1 /\ x7' = x7
      <3>1. x9' = x9 /\ x7 <= x3 + 1 + x9
        BY <1>8, <2>2 DEF AC!CommandRuns
      <3> QED BY <1>8, <2>2, <3>1 DEF ServedRight
    <2>3. CASE AC!CommandFails /\ x7' = x7 + 1 /\ UNCHANGED x3
      <3>1. /\ x9' = x9 + 1 /\ x7 + 1 <= RateLimitRPM + (x9 + 1)
            /\ x7 + 1 <= x3 + (x9 + 1)
        BY <1>8, <2>3 DEF AC!CommandFails
      <3> QED BY <1>8, <2>3, <3>1 DEF ServedRight
    <2> QED BY <2>1, <2>2, <2>3 DEF AC!AllowSuccess
  <1>10. AC!TypeOK'
    <2>1. x1 \in [AC!Buckets -> Nat] /\ x6 \in [AC!Buckets -> Nat] /\ x2 \subseteq AC!Buckets
      BY <1>1 DEF AC!TypeOK
    <2> QED BY <1>1, <1>2, <1>3, <1>4, <1>5, <1>9, <2>1, MovedTypes
  <1> QED BY <1>7, <1>9, <1>10, LockoutPartsNext

\* What needs no request: where those stand is as it was.
LEMMA NobodyMoves ==
  ASSUME UNCHANGED x5, NEW b
  PROVE  Passed(b)' = Passed(b) /\ Owed(b)' = Owed(b) /\ StillPending(b)' = StillPending(b)
  BY DEF Passed, Owed, StillPending, AC!Number

\* CounterExpires: a counter that ran out starts anew.
LEMMA CounterExpiresKeeps ==
  ASSUME AC!LockoutInv, NEW b \in AC!Buckets, AC!CounterExpires(b) PROVE AC!LockoutInv'
  <1>1. AC!TypeOK /\ AllBucketsRight /\ ServedRight
    BY LockoutParts
  <1>2. /\ x1' = [x1 EXCEPT ![b] = 0] /\ x6' = [x6 EXCEPT ![b] = 0]
        /\ UNCHANGED <<x2, x3, x4, x5, x7, x8, x9>>
    BY DEF AC!CounterExpires
  <1>3. AC!TypeOK' /\ ValkeyCommand
    BY <1>1, <1>2, CommandOnce DEF AC!TypeOK
  <1>4. ASSUME NEW a \in AC!Buckets PROVE BucketRight(a)'
    <2>1. Passed(a)' = Passed(a) /\ Owed(a)' = Owed(a) /\ StillPending(a)' = StillPending(a)
      BY <1>2, NobodyMoves
    <2>2. BucketRight(a) /\ AC!Limit(a)' = AC!Limit(a)
      BY <1>1 DEF AllBucketsRight, AC!Limit
    <2>3. CASE a = b
      <3>1. x6'[a] = 0 /\ x1'[a] = 0
        BY <1>1, <1>2, <2>3 DEF AC!TypeOK
      <3>2. /\ 0 + Passed(a) < AC!Limit(a) + Cardinality(Callers) + x9
            /\ 0 <= 0 + Owed(a) + x9 /\ 0 < AC!Limit(a) + StillPending(a) + x9
        BY <1>1, BucketNumbers
      <3> QED BY <1>2, <2>1, <2>2, <3>1, <3>2 DEF BucketRight
    <2>4. CASE a # b
      <3>1. x6'[a] = x6[a] /\ x1'[a] = x1[a]
        BY <1>1, <1>2, <2>4 DEF AC!TypeOK
      <3> QED BY <1>2, <2>1, <2>2, <3>1 DEF BucketRight
    <2> QED BY <2>3, <2>4
  <1> QED BY <1>1, <1>2, <1>3, <1>4, ServedStays, LockoutPartsNext DEF AllBucketsRight

\* LockoutExpires: a lockout that ran out lets guesses start anew.
LEMMA LockoutExpiresKeeps ==
  ASSUME AC!LockoutInv, NEW b \in AC!Buckets, AC!LockoutExpires(b) PROVE AC!LockoutInv'
  <1>1. AC!TypeOK /\ AllBucketsRight /\ ServedRight
    BY LockoutParts
  <1>2. /\ x1[b] = 0 /\ x2' = x2 \ {b}
        /\ UNCHANGED <<x1, x3, x4, x5, x6, x7, x8, x9>>
    BY DEF AC!LockoutExpires
  <1>3. AC!TypeOK' /\ ValkeyCommand
    BY <1>1, <1>2, CommandOnce DEF AC!TypeOK
  <1>4. ASSUME NEW a \in AC!Buckets PROVE BucketRight(a)'
    <2>1. Passed(a)' = Passed(a) /\ Owed(a)' = Owed(a) /\ StillPending(a)' = StillPending(a)
      BY <1>2, NobodyMoves
    <2>2. BucketRight(a) /\ AC!Limit(a)' = AC!Limit(a)
      BY <1>1 DEF AllBucketsRight, AC!Limit
    <2>3. a = b => x6[a] < AC!Limit(a) + StillPending(a) + x9
      BY <1>1, <1>2, <2>2, BucketNumbers DEF BucketRight
    <2> QED BY <1>2, <2>1, <2>2, <2>3 DEF BucketRight
  <1> QED BY <1>1, <1>2, <1>3, <1>4, ServedStays, LockoutPartsNext DEF AllBucketsRight

\* A revocation, and the next minute.
CountersStay ==
    /\ UNCHANGED <<x1, x2, x5, x6, x8, x9>>
    /\ x4' \in {"active", "revoked"}
    /\ \/ x3' = x3 /\ x7' = x7
       \/ x3' = 0 /\ x7' = 0

\* What touches no counter keeps the invariant.
LEMMA CountersKept ==
  ASSUME AC!LockoutInv, CountersStay
  PROVE  AC!LockoutInv'
  <1>1. AC!TypeOK /\ AllBucketsRight /\ ServedRight
    BY LockoutParts
  <1>2. AC!TypeOK'
    BY <1>1 DEF AC!TypeOK, CountersStay
  <1>3. ASSUME NEW a \in AC!Buckets PROVE BucketRight(a)'
    <2>1. Passed(a)' = Passed(a) /\ Owed(a)' = Owed(a) /\ StillPending(a)' = StillPending(a)
      BY NobodyMoves DEF CountersStay
    <2>2. BucketRight(a) /\ AC!Limit(a)' = AC!Limit(a)
      BY <1>1 DEF AllBucketsRight, AC!Limit
    <2> QED BY <2>1, <2>2 DEF BucketRight, CountersStay
  <1>4. ServedRight'
    <2>1. CASE x3' = x3 /\ x7' = x7
      BY <1>1, <2>1 DEF ServedRight, CountersStay
    <2>2. CASE x3' = 0 /\ x7' = 0
      <3>1. 0 <= RateLimitRPM + x9 /\ 0 <= 0 + x9
        BY <1>1, AccessConstants DEF AC!TypeOK
      <3> QED BY <2>2, <3>1 DEF ServedRight, CountersStay
    <2> QED BY <2>1, <2>2 DEF CountersStay
  <1> QED BY <1>2, <1>3, <1>4, LockoutPartsNext DEF AllBucketsRight

\* Every action of Access keeps the invariant.
LEMMA LockoutStep == AC!LockoutInv /\ [AC!Next]_(AC!vars) => AC!LockoutInv'
  <1> SUFFICES ASSUME AC!LockoutInv, [AC!Next]_(AC!vars) PROVE AC!LockoutInv'
    OBVIOUS
  <1>1. x4 \in {"active", "revoked"} /\ x3 \in Nat /\ x7 \in Nat
    BY LockoutParts DEF AC!TypeOK
  <1>2. CASE AC!RevokeAPIKey
    <2>1. CountersStay
      <3>1. /\ x1' = x1 /\ x2' = x2 /\ x3' = x3 /\ x5' = x5
            /\ x6' = x6 /\ x7' = x7 /\ x8' = x8 /\ x9' = x9
        BY <1>2 DEF AC!RevokeAPIKey, AC!valkey
      <3>2. x4' \in {"active", "revoked"}
        BY <1>2 DEF AC!RevokeAPIKey
      <3> QED BY <1>1, <3>1, <3>2 DEF CountersStay
    <2> QED BY <2>1, CountersKept
  <1>3. CASE AC!NextMinute
    BY <1>1, <1>3, CountersKept DEF AC!NextMinute, CountersStay
  <1>4. CASE UNCHANGED AC!vars
    <2>1. CountersStay
      <3>1. /\ x1' = x1 /\ x2' = x2 /\ x3' = x3 /\ x5' = x5
            /\ x6' = x6 /\ x7' = x7 /\ x8' = x8 /\ x9' = x9
        BY <1>4 DEF AC!vars
      <3>2. x4' \in {"active", "revoked"}
        BY <1>1, <1>4 DEF AC!vars
      <3> QED BY <1>1, <3>1, <3>2 DEF CountersStay
    <2> QED BY <2>1, CountersKept
  <1> QED BY <1>2, <1>3, <1>4, ArriveKeeps, KeyCheckKeeps, VerifyKeeps, PairMintKeeps, AllowKeeps,
             LockoutCheckKeeps, IncrKeeps, SetKeeps, ClearKeeps, CounterExpiresKeeps,
             LockoutExpiresKeeps
             DEF AC!Next

-----------------------------------------------------------------------------
(***************************************************************************)
(* API keys, for any number of keys and requests and any grants. x1 is     *)
(* apiKeys, x2 claims, x3 minters, x4 revoker and x5 late.                 *)
(*                                                                         *)
(* A key was minted within the scopes and the tenant of each key above it  *)
(* in the chain of mintings, unless one of them may do anything; what a    *)
(* key does after it was revoked, it does for a request that held it then, *)
(* and each request does so once.                                          *)
(***************************************************************************)
LEMMA ApiKeysConstants ==
    /\ MaxKeys \in Nat /\ Grants \subseteq SUBSET {"create", "revoke", "admin", "data"}
    /\ IsFiniteSet(KeyRequests)
  BY EdgeAssumption

\* The parts of KeysWithinMinters about one key.
MintedWithin(k) ==
    \A a \in x3[k] :
       \/ \E b \in x3[k] : AK!hasAdminScope(b)
       \/ /\ x1[k].scopes \subseteq x1[a].scopes
          /\ x1[a].tenant \in {AK!Platform, x1[k].tenant}
RevokedWithin(k) ==
    x4[k] # 0 => \/ AK!hasAdminScope(x4[k])
                 \/ x1[x4[k]].tenant = x1[k].tenant
AllWithin == \A k \in AK!Keys : MintedWithin(k) /\ RevokedWithin(k)
LateBounded == \A k \in AK!Keys : x5[k] <= Cardinality(KeyRequests)

LEMMA WithinParts == AK!KeysWithinMinters <=> AllWithin /\ LateBounded
  BY EdgeCardinality DEF AK!KeysWithinMinters, AllWithin, LateBounded, MintedWithin, RevokedWithin

LEMMA WithinPartsNext == AK!KeysWithinMinters' <=> AllWithin' /\ LateBounded'
  BY WithinParts, PTL

\* Requests that hold a key are finitely many.
LEMMA HoldingCount ==
  ASSUME NEW k
  PROVE  /\ IsFiniteSet(AK!Holding(k)) /\ Cardinality(AK!Holding(k)) \in Nat
         /\ Cardinality(AK!Holding(k)) <= Cardinality(KeyRequests)
         /\ Cardinality(KeyRequests) \in Nat
  BY ApiKeysConstants, FS_Subset, FS_CardinalityType DEF AK!Holding

\* Late uses are bounded because each request held the key before.
LEMMA LateFollows ==
  ASSUME AK!TypeOK, AK!LateWasHeld PROVE LateBounded
  <1> SUFFICES ASSUME NEW k \in AK!Keys PROVE x5[k] <= Cardinality(KeyRequests)
    BY DEF LateBounded
  <1>1. x5[k] \in Nat /\ x5[k] + Cardinality(AK!Holding(k)) <= Cardinality(KeyRequests)
    BY EdgeCardinality DEF AK!TypeOK, AK!LateWasHeld
  <1>2. Cardinality(AK!Holding(k)) \in Nat /\ Cardinality(KeyRequests) \in Nat
    BY HoldingCount
  <1> QED BY <1>1, <1>2

LEMMA LateFollowsNext == AK!TypeOK' /\ AK!LateWasHeld' => LateBounded'
  BY LateFollows, PTL

\* At first there is one key.
LEMMA KeysInit == AK!Init => AK!KeysInv
  <1> USE ApiKeysConstants
  <1> SUFFICES ASSUME AK!Init PROVE AK!KeysInv
    OBVIOUS
  <1>1. PICK t \in Tenants \union {AK!Platform}, s \in Grants :
            x1 = [k \in AK!Keys |-> IF k = 1
                         THEN [tenant |-> t, scopes |-> s, status |-> "active", expired |-> FALSE]
                         ELSE AK!Absent]
    BY DEF AK!Init
  <1>2. /\ x2 = [r \in KeyRequests |-> 0] /\ x3 = [k \in AK!Keys |-> {}]
        /\ x4 = [k \in AK!Keys |-> 0] /\ x5 = [k \in AK!Keys |-> 0]
    BY DEF AK!Init
  <1>3. AK!TypeOK
    <2>1. [tenant |-> t, scopes |-> s, status |-> "active", expired |-> FALSE] \in AK!APIKeyRow
      BY DEF AK!APIKeyRow, AK!Scopes
    <2>2. AK!Absent \in AK!APIKeyRow
      BY DEF AK!APIKeyRow, AK!Absent
    <2>3. x1 \in [AK!Keys -> AK!APIKeyRow]
      BY <1>1, <2>1, <2>2
    <2> QED BY <1>2, <2>3 DEF AK!TypeOK
  <1>4. AllWithin
    BY <1>2 DEF AllWithin, MintedWithin, RevokedWithin
  <1>5. AK!KeysPresent
    BY <1>2 DEF AK!KeysPresent
  <1>6. AK!LateWasHeld
    <2> SUFFICES ASSUME NEW k \in AK!Keys
                 PROVE  x5[k] = 0 /\ x5[k] + Cardinality(AK!Holding(k)) <= Cardinality(KeyRequests)
      BY EdgeCardinality DEF AK!LateWasHeld
    <2> QED BY <1>2, HoldingCount
  <1> QED BY <1>3, <1>4, <1>5, <1>6, LateFollows, WithinParts DEF AK!KeysInv

\* Whether a key is there after the step.
PresentNext(k) == x1'[k].status # "absent"

\* A step that keeps what a key may and the keys there are, and its answer to a request.
KeysSteady ==
    /\ AK!TypeOK'
    /\ \A k \in AK!Keys : /\ x1'[k].tenant = x1[k].tenant
                          /\ x1'[k].scopes = x1[k].scopes
                          /\ AK!Present(k)' <=> AK!Present(k)
    /\ UNCHANGED x3

\* Keys that stay present with their scopes and tenant stay within their minters.
LEMMA SteadyWithin ==
  ASSUME AK!KeysInv, KeysSteady, NEW k \in AK!Keys PROVE MintedWithin(k)'
  <1>1. x3[k] \subseteq AK!Keys /\ x3' = x3
    BY DEF AK!KeysInv, AK!TypeOK, KeysSteady
  <1>2. MintedWithin(k)
    BY WithinParts DEF AK!KeysInv, AllWithin
  <1> QED BY <1>1, <1>2 DEF MintedWithin, KeysSteady, AK!hasAdminScope

LEMMA SteadyRevoked ==
  ASSUME AK!KeysInv, KeysSteady, NEW k \in AK!Keys, x4'[k] = x4[k] PROVE RevokedWithin(k)'
  <1>1. x4[k] \in 0..MaxKeys
    BY DEF AK!KeysInv, AK!TypeOK
  <1>2. RevokedWithin(k)
    BY WithinParts DEF AK!KeysInv, AllWithin
  <1>3. CASE x4[k] = 0
    BY <1>3 DEF RevokedWithin
  <1>4. CASE x4[k] # 0
    <2>1. x4[k] \in AK!Keys
      BY <1>1, <1>4, ApiKeysConstants DEF AK!Keys
    <2> QED BY <1>2, <1>4, <2>1 DEF RevokedWithin, KeysSteady, AK!hasAdminScope
  <1> QED BY <1>3, <1>4

\* AuthenticateAPIKey: a request holds a key that can be used.
LEMMA KeyAuthKeeps ==
    ASSUME AK!KeysInv, NEW r \in KeyRequests, NEW k \in AK!Keys, AK!AuthenticateAPIKey(r, k)
                   PROVE  AK!KeysInv'
  <1> USE ApiKeysConstants
  <1>1. /\ x2[r] = 0 /\ AK!Usable(k) /\ x2' = [x2 EXCEPT ![r] = k]
        /\ UNCHANGED <<x1, x3, x4, x5>>
    BY DEF AK!AuthenticateAPIKey
  <1>2. AK!TypeOK'
    BY <1>1 DEF AK!KeysInv, AK!TypeOK, AK!Keys
  <1>3. AllWithin'
    BY <1>1, WithinParts DEF AK!KeysInv, AllWithin, MintedWithin, RevokedWithin, AK!hasAdminScope
  <1>4. AK!KeysPresent'
    BY <1>1 DEF AK!KeysInv, AK!TypeOK, AK!KeysPresent, AK!Present, AK!Usable
  <1>5. AK!LateWasHeld'
    <2> SUFFICES ASSUME NEW j \in AK!Keys
                 PROVE  /\ AK!Usable(j) \/ ~AK!Present(j) => x5[j] = 0
                        /\ x5[j] + Cardinality(AK!Holding(j)') <= Cardinality(KeyRequests)
      BY EdgeCardinality, <1>1 DEF AK!LateWasHeld, AK!Usable, AK!Present
    <2>1. CASE j = k
      <3>1. x5[k] = 0
        BY <1>1 DEF AK!KeysInv, AK!LateWasHeld
      <3>2. /\ Cardinality(AK!Holding(k)') <= Cardinality(KeyRequests)
            /\ Cardinality(AK!Holding(k)') \in Nat
        BY FS_Subset, FS_CardinalityType DEF AK!Holding
      <3> QED BY <2>1, <3>1, <3>2
    <2>2. CASE j # k
      <3>1. AK!Holding(j)' \subseteq AK!Holding(j)
        BY <1>1, <2>2 DEF AK!KeysInv, AK!TypeOK, AK!Holding
      <3>2. /\ Cardinality(AK!Holding(j)') <= Cardinality(AK!Holding(j))
            /\ Cardinality(AK!Holding(j)') \in Nat
        BY <3>1, HoldingCount, FS_Subset, FS_CardinalityType
      <3>3. /\ AK!Usable(j) \/ ~AK!Present(j) => x5[j] = 0
            /\ x5[j] + Cardinality(AK!Holding(j)) <= Cardinality(KeyRequests) /\ x5[j] \in Nat
        BY EdgeCardinality DEF AK!KeysInv, AK!TypeOK, AK!LateWasHeld
      <3>4. Cardinality(AK!Holding(j)) \in Nat /\ Cardinality(KeyRequests) \in Nat
        BY HoldingCount
      <3> QED BY <3>2, <3>3, <3>4
    <2> QED BY <2>1, <2>2
  <1> QED BY <1>2, <1>3, <1>4, <1>5, LateFollowsNext, WithinPartsNext DEF AK!KeysInv

\* What holds of the claims once a request is answered.
KeyAnswers(r) == x2[r] # 0 /\ x2' = [x2 EXCEPT ![r] = 0]

\* A request that is answered holds its key no more.
LEMMA AnswerFrees ==
  ASSUME AK!TypeOK, NEW r \in KeyRequests, KeyAnswers(r), NEW k \in AK!Keys
  PROVE  /\ Cardinality(AK!Holding(k)') \in Nat
         /\ k # x2[r] => Cardinality(AK!Holding(k)') <= Cardinality(AK!Holding(k))
         /\ k = x2[r] => Cardinality(AK!Holding(k)') = Cardinality(AK!Holding(k)) - 1
  <1> USE ApiKeysConstants
  <1>1. AK!Holding(k)' = AK!Holding(k) \ {r}
    BY DEF KeyAnswers, AK!TypeOK, AK!Holding, AK!Keys
  <1>2. IsFiniteSet(AK!Holding(k)) /\ Cardinality(AK!Holding(k)) \in Nat
    BY HoldingCount
  <1>3. IsFiniteSet(AK!Holding(k) \ {r}) /\ Cardinality(AK!Holding(k) \ {r}) \in Nat
    BY <1>2, FS_Difference, FS_CardinalityType, FS_Singleton, FS_RemoveElement
  <1>4. k # x2[r] => AK!Holding(k) \ {r} = AK!Holding(k)
    BY DEF AK!Holding
  <1>5. k = x2[r] => r \in AK!Holding(k)
    BY DEF AK!Holding
  <1>6. r \in AK!Holding(k) => Cardinality(AK!Holding(k) \ {r}) = Cardinality(AK!Holding(k)) - 1
    BY <1>2, FS_RemoveElement
  <1>7. CASE k = x2[r]
    BY <1>1, <1>2, <1>3, <1>5, <1>6, <1>7
  <1>8. CASE k # x2[r]
    <2>1. AK!Holding(k)' = AK!Holding(k)
      BY <1>1, <1>4, <1>8
    <2> QED BY <1>2, <1>8, <2>1
  <1> QED BY <1>7, <1>8

\* An answer that is no late use leaves the count of them right.
LEMMA LateStays ==
  ASSUME AK!KeysInv, NEW r \in KeyRequests, KeyAnswers(r), UNCHANGED x5, KeysSteady,
         \A k \in AK!Keys : AK!Usable(k)' => AK!Usable(k)
  PROVE  AK!LateWasHeld'
  <1> SUFFICES ASSUME NEW k \in AK!Keys
               PROVE  /\ AK!Usable(k)' \/ ~AK!Present(k)' => x5[k] = 0
                      /\ x5[k] + Cardinality(AK!Holding(k)') <= Cardinality(KeyRequests)
    BY EdgeCardinality DEF AK!LateWasHeld
  <1>1. /\ AK!Usable(k) \/ ~AK!Present(k) => x5[k] = 0
        /\ x5[k] + Cardinality(AK!Holding(k)) <= Cardinality(KeyRequests) /\ x5[k] \in Nat
    BY EdgeCardinality DEF AK!KeysInv, AK!TypeOK, AK!LateWasHeld
  <1>2. AK!Present(k)' <=> AK!Present(k)
    BY DEF KeysSteady
  <1>3. /\ Cardinality(AK!Holding(k)) \in Nat /\ Cardinality(KeyRequests) \in Nat
        /\ Cardinality(AK!Holding(k)') \in Nat
        /\ Cardinality(AK!Holding(k)') <= Cardinality(AK!Holding(k))
    BY HoldingCount, AnswerFrees DEF AK!KeysInv
  <1> QED BY <1>1, <1>2, <1>3

\* Answered: a request that only read is answered.
LEMMA AnsweredKeeps == ASSUME AK!KeysInv, NEW r \in KeyRequests, AK!Answered(r) PROVE AK!KeysInv'
  <1> USE ApiKeysConstants
  <1>1. KeyAnswers(r) /\ UNCHANGED <<x1, x3, x4, x5>>
    BY DEF AK!Answered, KeyAnswers
  <1>2. AK!TypeOK'
    BY <1>1 DEF AK!KeysInv, AK!TypeOK, KeyAnswers
  <1>3. AllWithin'
    BY <1>1, WithinParts DEF AK!KeysInv, AllWithin, MintedWithin, RevokedWithin, AK!hasAdminScope
  <1>4. AK!KeysPresent'
    BY <1>1 DEF AK!KeysInv, AK!TypeOK, AK!KeysPresent, AK!Present, KeyAnswers
  <1>5. AK!LateWasHeld'
    <2>1. KeysSteady /\ \A k \in AK!Keys : AK!Usable(k)' => AK!Usable(k)
      BY <1>1, <1>2 DEF KeysSteady, AK!Present, AK!Usable
    <2> QED BY <1>1, <2>1, LateStays
  <1> QED BY <1>2, <1>3, <1>4, <1>5, LateFollowsNext, WithinPartsNext DEF AK!KeysInv

\* Expires: a key expires while requests hold it.
LEMMA KeyExpiresKeeps == ASSUME AK!KeysInv, NEW k \in AK!Keys, AK!Expires(k) PROVE AK!KeysInv'
  <1> USE ApiKeysConstants
  <1>1. /\ AK!Usable(k) /\ x1' = [x1 EXCEPT ![k].expired = TRUE]
        /\ UNCHANGED <<x2, x3, x4, x5>>
    BY DEF AK!Expires
  <1> DEFINE row == [x1[k] EXCEPT !.expired = TRUE]
  <1>2. x1' = [x1 EXCEPT ![k] = row]
    BY <1>1
  <1>3. row \in AK!APIKeyRow
    <2>1. \A e \in AK!APIKeyRow : [e EXCEPT !.expired = TRUE] \in AK!APIKeyRow
      BY DEF AK!APIKeyRow
    <2>2. x1[k] \in AK!APIKeyRow
      BY DEF AK!KeysInv, AK!TypeOK
    <2> QED BY <2>1, <2>2
  <1>4. row.tenant = x1[k].tenant /\ row.scopes = x1[k].scopes
        /\ row.status = x1[k].status
    BY DEF AK!KeysInv, AK!TypeOK, AK!APIKeyRow
  <1>5. x1[k].status = "active"
    BY <1>1 DEF AK!Usable
  <1> HIDE DEF row
  <1>6. x1'[k] = row /\ \A j \in AK!Keys : j # k => x1'[j] = x1[j]
    BY <1>2 DEF AK!KeysInv, AK!TypeOK
  <1>7. AK!TypeOK'
    BY <1>1, <1>2, <1>3 DEF AK!KeysInv, AK!TypeOK
  <1>8. KeysSteady
    BY <1>1, <1>4, <1>6, <1>7 DEF KeysSteady, AK!Present
  <1>9. AllWithin'
    BY <1>1, <1>8, SteadyWithin, SteadyRevoked DEF AllWithin
  <1>10. AK!KeysPresent'
    BY <1>1, <1>8 DEF AK!KeysInv, AK!TypeOK, AK!KeysPresent, KeysSteady, AK!Keys
  <1>11. AK!LateWasHeld'
    <2> SUFFICES ASSUME NEW j \in AK!Keys
                 PROVE  /\ AK!Usable(j)' \/ ~AK!Present(j)' => x5[j] = 0
                        /\ x5[j] + Cardinality(AK!Holding(j)) <= Cardinality(KeyRequests)
      BY EdgeCardinality, <1>1 DEF AK!LateWasHeld, AK!Holding
    <2>1. /\ AK!Usable(j) \/ ~AK!Present(j) => x5[j] = 0
          /\ x5[j] + Cardinality(AK!Holding(j)) <= Cardinality(KeyRequests)
      BY EdgeCardinality DEF AK!KeysInv, AK!LateWasHeld
    <2>2. j # k => (AK!Usable(j)' <=> AK!Usable(j))
      BY <1>6 DEF AK!Usable
    <2> QED BY <1>1, <1>8, <2>1, <2>2 DEF KeysSteady
  <1> QED BY <1>7, <1>9, <1>10, <1>11, LateFollowsNext, WithinPartsNext DEF AK!KeysInv

\* keysRevoke: a key is revoked by an admin or by one of its tenant.
LEMMA KeyRevokeKeeps == ASSUME AK!KeysInv, NEW r \in KeyRequests, AK!keysRevoke(r) PROVE AK!KeysInv'
  <1> USE ApiKeysConstants
  <1>1. KeyAnswers(r) /\ UNCHANGED <<x3, x5>>
    BY DEF AK!keysRevoke, KeyAnswers
  <1>2. PICK id \in AK!Keys : AK!Revocable(x2[r], id) /\ AK!RevokeAPIKey(x2[r], id)
    BY DEF AK!keysRevoke
  <1> DEFINE row == [x1[id] EXCEPT !.status = "revoked"]
             k == x2[r]
  <1>3. x1' = [x1 EXCEPT ![id] = row] /\ x1[id].status = "active"
        /\ x4' = [x4 EXCEPT ![id] = k]
    BY <1>2 DEF AK!RevokeAPIKey
  <1>4. row \in AK!APIKeyRow
    <2>1. \A e \in AK!APIKeyRow : [e EXCEPT !.status = "revoked"] \in AK!APIKeyRow
      BY DEF AK!APIKeyRow
    <2>2. x1[id] \in AK!APIKeyRow
      BY DEF AK!KeysInv, AK!TypeOK
    <2> QED BY <2>1, <2>2
  <1>5. row.tenant = x1[id].tenant /\ row.scopes = x1[id].scopes
        /\ row.status = "revoked"
    BY DEF AK!KeysInv, AK!TypeOK, AK!APIKeyRow
  <1>6. k \in AK!Keys /\ k # 0
    BY <1>1 DEF AK!KeysInv, AK!TypeOK, KeyAnswers, AK!Keys
  <1>7. AK!Revocable(k, id)
    BY <1>2
  <1> HIDE DEF row, k
  <1>8. x1'[id] = row /\ \A j \in AK!Keys : j # id => x1'[j] = x1[j]
    BY <1>3 DEF AK!KeysInv, AK!TypeOK
  <1>9. AK!TypeOK'
    BY <1>1, <1>3, <1>4, <1>6 DEF AK!KeysInv, AK!TypeOK, KeyAnswers, AK!Keys
  <1>10. KeysSteady
    BY <1>1, <1>3, <1>5, <1>8, <1>9 DEF KeysSteady, AK!Present
  <1>11. RevokedWithin(id)'
    <2>1. x4'[id] = k
      BY <1>3 DEF AK!KeysInv, AK!TypeOK
    <2>2. AK!hasAdminScope(k) \/ x1[id].tenant = x1[k].tenant
      BY <1>7 DEF AK!Revocable
    <2>3. "admin" \in x1'[k].scopes \/ x1'[id].tenant = x1'[k].tenant
      BY <1>6, <1>10, <2>2 DEF KeysSteady, AK!hasAdminScope
    <2> QED BY <2>1, <2>3 DEF RevokedWithin, AK!hasAdminScope
  <1>12. AllWithin'
    <2>1. \A j \in AK!Keys : j # id => x4'[j] = x4[j]
      BY <1>3 DEF AK!KeysInv, AK!TypeOK
    <2> QED BY <1>10, <1>11, <2>1, SteadyWithin, SteadyRevoked DEF AllWithin
  <1>13. AK!KeysPresent'
    <2>1. AK!Present(id)
      BY <1>3 DEF AK!Present
    <2>2. AK!Present(k)
      BY <1>1 DEF AK!KeysInv, AK!KeysPresent, KeyAnswers, k
    <2>3. \A j \in AK!Keys : AK!Present(j)' <=> AK!Present(j)
      BY <1>10 DEF KeysSteady
    <2>4. \A q \in KeyRequests : x2'[q] # 0 => PresentNext(x2'[q])
      <3> SUFFICES ASSUME NEW q \in KeyRequests, x2'[q] # 0 PROVE PresentNext(x2'[q])
        OBVIOUS
      <3>1. x2'[q] = x2[q] /\ x2[q] \in AK!Keys /\ x2[q] # 0
        BY <1>1 DEF AK!KeysInv, AK!TypeOK, KeyAnswers, AK!Keys
      <3>2. PresentNext(x2[q])
        BY <2>3, <3>1 DEF AK!KeysInv, AK!KeysPresent, AK!Present, PresentNext
      <3> QED BY <3>1, <3>2 DEF AK!Present, PresentNext
    <2>5. ASSUME NEW j \in AK!Keys, x4'[j] # 0 PROVE AK!Present(j)' /\ PresentNext(x4'[j])
      <3>1. CASE j = id
        <4>1. x4'[j] = k
          BY <1>3, <3>1 DEF AK!KeysInv, AK!TypeOK
        <4> QED BY <1>6, <2>1, <2>2, <2>3, <3>1, <4>1 DEF AK!Present, PresentNext
      <3>2. CASE j # id
        <4>1. x4'[j] = x4[j] /\ x4[j] \in AK!Keys
          BY <1>3, <2>5, <3>2 DEF AK!KeysInv, AK!TypeOK, AK!Keys
        <4>2. AK!Present(j) /\ AK!Present(x4[j])
          BY <2>5, <4>1 DEF AK!KeysInv, AK!KeysPresent
        <4> QED BY <2>3, <4>1, <4>2 DEF AK!Present, PresentNext
      <3> QED BY <3>1, <3>2
    <2>6. \A j \in AK!Keys : \A a \in x3'[j] : AK!Present(a)'
      BY <1>1, <2>3 DEF AK!KeysInv, AK!TypeOK, AK!KeysPresent
    <2> QED BY <2>4, <2>5, <2>6 DEF AK!KeysPresent, AK!Present, PresentNext
  <1>14. \A j \in AK!Keys : AK!Usable(j)' => AK!Usable(j)
    <2>1. ~AK!Usable(id)'
      BY <1>5, <1>8 DEF AK!Usable
    <2>2. \A j \in AK!Keys : j # id => (AK!Usable(j)' <=> AK!Usable(j))
      BY <1>8 DEF AK!Usable
    <2> QED BY <2>1, <2>2
  <1>15. AK!LateWasHeld'
    BY <1>1, <1>10, <1>14, LateStays
  <1> QED BY <1>9, <1>12, <1>13, <1>15, LateFollowsNext, WithinPartsNext DEF AK!KeysInv

\* keysCreate: a key is minted within the one that the request holds.
LEMMA KeyMintKeeps == ASSUME AK!KeysInv, NEW r \in KeyRequests, AK!keysCreate(r) PROVE AK!KeysInv'
  <1> USE ApiKeysConstants
  <1> DEFINE k == x2[r]
  <1>1. /\ KeyAnswers(r) /\ UNCHANGED x4
        /\ x5' = IF AK!Usable(k) THEN x5 ELSE [x5 EXCEPT ![k] = @ + 1]
    BY DEF AK!keysCreate, KeyAnswers
  <1>2. PICK t \in Tenants \union {x1[k].tenant}, scopes \in Grants :
            AK!TenantAllowed(k, t) /\ AK!ScopesAllowed(k, scopes)
              /\ AK!CreateAPIKeyRow(k, t, scopes)
    BY DEF AK!keysCreate
  <1> DEFINE row == [tenant |-> t, scopes |-> scopes, status |-> "active", expired |-> FALSE]
  <1>3. PICK id \in AK!Keys : /\ x1[id] = AK!Absent /\ x1' = [x1 EXCEPT ![id] = row]
                              /\ x3' = [x3 EXCEPT ![id] = x3[k] \union {k}]
    BY <1>2 DEF AK!CreateAPIKeyRow
  <1>4. k \in AK!Keys /\ k # 0
    BY <1>1 DEF AK!KeysInv, AK!TypeOK, KeyAnswers, AK!Keys
  <1>5. row \in AK!APIKeyRow
    <2>1. t \in Tenants \union {AK!Platform}
      BY <1>4 DEF AK!KeysInv, AK!TypeOK, AK!APIKeyRow
    <2> QED BY <2>1 DEF AK!APIKeyRow, AK!Scopes
  <1>6. row.tenant = t /\ row.scopes = scopes /\ row.status = "active"
    OBVIOUS
  <1>7. ~AK!Present(id)
    BY <1>3 DEF AK!Absent, AK!Present
  <1>8. AK!Present(k)
    BY <1>1 DEF AK!KeysInv, AK!KeysPresent, KeyAnswers
  <1> HIDE DEF row
  <1>9. x1'[id] = row /\ \A j \in AK!Keys : j # id => x1'[j] = x1[j]
    BY <1>3 DEF AK!KeysInv, AK!TypeOK
  <1>10. x3'[id] = x3[k] \union {k} /\ \A j \in AK!Keys : j # id => x3'[j] = x3[j]
    BY <1>3 DEF AK!KeysInv, AK!TypeOK
  <1>11. AK!TypeOK'
    <2>1. x5' \in [AK!Keys -> Nat]
      BY <1>1, <1>4 DEF AK!KeysInv, AK!TypeOK
    <2>2. x2' \in [KeyRequests -> 0..MaxKeys]
      BY <1>1 DEF AK!KeysInv, AK!TypeOK, KeyAnswers
    <2> HIDE DEF k
    <2> QED BY <1>1, <1>3, <1>4, <1>5, <2>1, <2>2 DEF AK!KeysInv, AK!TypeOK
  <1>12. \A j \in AK!Keys : AK!Present(j) => AK!Present(j)' /\ j # id /\ x1'[j] = x1[j]
    BY <1>7, <1>9 DEF AK!Present
  <1>13. \A j \in AK!Keys : \A a \in x3[j] : a \in AK!Keys /\ AK!Present(a)
    BY DEF AK!KeysInv, AK!TypeOK, AK!KeysPresent
  <1>14. MintedWithin(id)'
    <2> SUFFICES ASSUME NEW a \in x3[k] \union {k},
                        \A b \in x3[k] \union {k} : ~AK!hasAdminScope(b)'
                 PROVE  /\ row.scopes \subseteq x1'[a].scopes
                        /\ x1'[a].tenant \in {AK!Platform, row.tenant}
      BY <1>9, <1>10 DEF MintedWithin, AK!hasAdminScope
    <2>1. \A b \in x3[k] \union {k} : b \in AK!Keys /\ AK!Present(b) /\ x1'[b] = x1[b]
      BY <1>4, <1>8, <1>12, <1>13
    <2>2. \A b \in x3[k] \union {k} : ~AK!hasAdminScope(b)
      BY <2>1 DEF AK!hasAdminScope
    <2>3. scopes \subseteq x1[k].scopes /\ x1[k].tenant \in {AK!Platform, t}
      BY <1>2, <2>2 DEF AK!ScopesAllowed, AK!TenantAllowed, AK!containsAllScopes
    <2>4. CASE a = k
      BY <1>6, <2>1, <2>3, <2>4
    <2>5. CASE a \in x3[k]
      <3>1. x1[k].scopes \subseteq x1[a].scopes
            /\ x1[a].tenant \in {AK!Platform, x1[k].tenant}
        BY <1>4, <2>2, <2>5, WithinParts DEF AK!KeysInv, AllWithin, MintedWithin
      <3> QED BY <1>6, <2>1, <2>3, <3>1
    <2> QED BY <2>4, <2>5
  <1>15. ASSUME NEW j \in AK!Keys, j # id PROVE MintedWithin(j)' /\ RevokedWithin(j)'
    <2>1. MintedWithin(j) /\ RevokedWithin(j)
      BY WithinParts DEF AK!KeysInv, AllWithin
    <2>2. x1'[j] = x1[j] /\ x3'[j] = x3[j] /\ x4' = x4
      BY <1>1, <1>9, <1>10, <1>15
    <2>3. \A a \in x3[j] : x1'[a] = x1[a]
      BY <1>12, <1>13
    <2>4. MintedWithin(j)'
      BY <2>1, <2>2, <2>3 DEF MintedWithin, AK!hasAdminScope
    <2>5. x4[j] # 0 => x1'[x4[j]] = x1[x4[j]]
      BY <1>12 DEF AK!KeysInv, AK!TypeOK, AK!KeysPresent, AK!Keys
    <2>6. RevokedWithin(j)'
      BY <2>1, <2>2, <2>5 DEF RevokedWithin, AK!hasAdminScope
    <2> QED BY <2>4, <2>6
  <1>16. RevokedWithin(id)'
    BY <1>1, <1>7 DEF AK!KeysInv, AK!KeysPresent, RevokedWithin
  <1>17. AllWithin'
    BY <1>14, <1>15, <1>16 DEF AllWithin
  <1>18. AK!KeysPresent'
    <2>1. ASSUME NEW q \in KeyRequests, x2'[q] # 0 PROVE PresentNext(x2'[q])
      <3>1. x2'[q] = x2[q] /\ x2[q] \in AK!Keys /\ x2[q] # 0
        BY <1>1, <2>1 DEF AK!KeysInv, AK!TypeOK, KeyAnswers, AK!Keys
      <3>2. AK!Present(x2[q])
        BY <3>1 DEF AK!KeysInv, AK!KeysPresent
      <3>3. x1'[x2[q]] = x1[x2[q]]
        BY <1>12, <3>1, <3>2
      <3> QED BY <3>1, <3>2, <3>3 DEF AK!Present, PresentNext
    <2>2. ASSUME NEW j \in AK!Keys, x4'[j] # 0 PROVE AK!Present(j)' /\ PresentNext(x4'[j])
      <3>1. x4' = x4 /\ x4[j] \in AK!Keys /\ AK!Present(j) /\ AK!Present(x4[j])
        BY <1>1, <2>2 DEF AK!KeysInv, AK!TypeOK, AK!KeysPresent, AK!Keys
      <3>2. x1'[j] = x1[j] /\ x1'[x4[j]] = x1[x4[j]]
        BY <1>12, <3>1
      <3> QED BY <3>1, <3>2 DEF AK!Present, PresentNext
    <2>3. ASSUME NEW j \in AK!Keys, NEW a \in x3'[j] PROVE AK!Present(a)'
      <3>1. a \in AK!Keys /\ AK!Present(a)
        BY <1>4, <1>8, <1>10, <1>13, <2>3
      <3> QED BY <1>12, <3>1 DEF AK!Present
    <2> QED BY <2>1, <2>2, <2>3 DEF AK!KeysPresent, AK!Present, PresentNext
  <1>19. AK!LateWasHeld'
    <2> SUFFICES ASSUME NEW j \in AK!Keys
                 PROVE  /\ AK!Usable(j)' \/ ~AK!Present(j)' => x5'[j] = 0
                        /\ x5'[j] + Cardinality(AK!Holding(j)') <= Cardinality(KeyRequests)
      BY EdgeCardinality DEF AK!LateWasHeld
    <2>1. /\ AK!Usable(j) \/ ~AK!Present(j) => x5[j] = 0
          /\ x5[j] + Cardinality(AK!Holding(j)) <= Cardinality(KeyRequests) /\ x5[j] \in Nat
      BY EdgeCardinality DEF AK!KeysInv, AK!TypeOK, AK!LateWasHeld
    <2>2. Cardinality(AK!Holding(j)) \in Nat /\ Cardinality(KeyRequests) \in Nat
      BY HoldingCount
    <2>3. /\ Cardinality(AK!Holding(j)') \in Nat
          /\ j # k => Cardinality(AK!Holding(j)') <= Cardinality(AK!Holding(j))
          /\ j = k => Cardinality(AK!Holding(j)') = Cardinality(AK!Holding(j)) - 1
      BY <1>1, AnswerFrees DEF AK!KeysInv
    <2> HIDE DEF k
    <2>4. CASE j = k /\ ~AK!Usable(k)
      <3>1. x5'[j] = x5[j] + 1
        BY <1>1, <1>4, <2>4 DEF AK!KeysInv, AK!TypeOK
      <3>2. ~AK!Usable(j)' /\ AK!Present(j)'
        BY <1>8, <1>12, <2>4 DEF AK!Usable
      <3> QED BY <2>1, <2>2, <2>3, <2>4, <3>1, <3>2
    <2>5. CASE ~(j = k /\ ~AK!Usable(k))
      <3>1. x5'[j] = x5[j]
        BY <1>1, <2>5 DEF AK!KeysInv, AK!TypeOK
      <3>2. Cardinality(AK!Holding(j)') <= Cardinality(AK!Holding(j))
        BY <2>2, <2>3
      <3>3. j # id => (AK!Usable(j)' \/ ~AK!Present(j)' => x5[j] = 0)
        BY <1>9, <2>1 DEF AK!Usable, AK!Present
      <3>4. j = id => x5[j] = 0
        BY <1>7, <2>1
      <3> QED BY <2>1, <2>2, <2>3, <3>1, <3>2, <3>3, <3>4
    <2> QED BY <2>4, <2>5
  <1> QED BY <1>11, <1>17, <1>18, <1>19, LateFollowsNext, WithinPartsNext DEF AK!KeysInv

\* Every action of ApiKeys keeps the invariant.
LEMMA KeysStep == AK!KeysInv /\ [AK!Next]_(AK!vars) => AK!KeysInv'
  <1> SUFFICES ASSUME AK!KeysInv, [AK!Next]_(AK!vars) PROVE AK!KeysInv'
    OBVIOUS
  <1>1. CASE UNCHANGED AK!vars
    BY <1>1
       DEF AK!vars, AK!KeysInv, AK!TypeOK, AK!KeysWithinMinters, AK!KeysPresent, AK!LateWasHeld,
           AK!Usable, AK!Present, AK!Holding, AK!hasAdminScope
  <1> QED BY <1>1, KeyAuthKeeps, AnsweredKeeps, KeyExpiresKeeps, KeyRevokeKeeps, KeyMintKeeps
             DEF AK!Next

-----------------------------------------------------------------------------
(***************************************************************************)
(* The last-used recorder, for any hosts, keys and number of touches. x1   *)
(* is pending, x2 snapshot, x3 flusher, x4 context, x5 row, x6 clock, x7   *)
(* before, x8 written and x9 failed.                                       *)
(*                                                                         *)
(* The touches of a key on a host get later from what it tried to write,   *)
(* over the snapshot it is writing, to what is pending; a touch made       *)
(* before the signal to stop is among them.                                *)
(***************************************************************************)
LEMMA LastUsedConstants ==
    MaxTouches \in Nat
  BY EdgeAssumption

\* The parts of the invariant about one host and key.
TouchInOrder(h, k) ==
    /\ {x1[h][k], x2[h][k], x7[h][k]} \subseteq 0..x6
    /\ x2[h][k] > 0 /\ x1[h][k] > 0 => x2[h][k] < x1[h][k]
    /\ \A t \in LU!Tried(h, k) : /\ t <= x6
                                 /\ x2[h][k] > 0 => t < x2[h][k]
                                 /\ x1[h][k] > 0 => t < x1[h][k]
TouchCared(h, k) ==
    x7[h][k] > 0 =>
       \/ x3[h] \notin {"draining", "exited"} /\ x1[h][k] >= x7[h][k]
       \/ x2[h][k] >= x7[h][k]
       \/ \E t \in LU!Tried(h, k) : t >= x7[h][k]
\* The parts of it about one host, and about the row of a key.
Flushing(h) ==
    /\ x3[h] \notin {"flushing", "draining"} => x2[h] = LU!NoTouches
    /\ x3[h] \in {"draining", "exited"} => x4[h] # "live"
LatestTouch(h, k) == /\ <<h, k, x5[k]>> \in x8
                     /\ \A t \in x5[k] + 1 .. x6 : <<h, k, t>> \notin x8
RowLatest(k) == x5[k] > 0 => \E h \in Hosts : LatestTouch(h, k)

\* The invariant, taken apart by host and key.
AllInOrder == \A h \in Hosts, k \in TouchedKeys : TouchInOrder(h, k)
AllCared == \A h \in Hosts : Flushing(h) /\ \A k \in TouchedKeys : TouchCared(h, k)
AllLatest == \A k \in TouchedKeys : RowLatest(k)
RecorderParts == LU!TypeOK /\ AllInOrder /\ AllCared /\ AllLatest

\* The types of touches, taken apart.
LEMMA TouchTypes ==
  ASSUME LU!TypeOK
  PROVE  /\ x6 \in 0..MaxTouches
         /\ \A h \in Hosts, k \in TouchedKeys :
               /\ x1[h][k] \in 0..MaxTouches /\ x2[h][k] \in 0..MaxTouches
               /\ x7[h][k] \in 0..MaxTouches
         /\ \A k \in TouchedKeys : x5[k] \in 0..MaxTouches
  BY DEF LU!TypeOK

\* A recorder that has exited wrote every touch it cared for, or tried to.
LEMMA ExitedAccounted ==
  ASSUME LU!TypeOK, AllInOrder, AllCared, NEW h \in Hosts, NEW k \in TouchedKeys,
         x3[h] = "exited", x7[h][k] > 0
  PROVE  \E t \in x7[h][k]..x6 : <<h, k, t>> \in x8 \union x9
  <1> USE LastUsedConstants
  <1>1. x2[h] = LU!NoTouches
    BY DEF AllCared, Flushing
  <1>2. x2[h][k] = 0
    BY <1>1 DEF LU!NoTouches
  <1>3. x7[h][k] \in Nat
    BY TouchTypes
  <1>4. PICK t \in LU!Tried(h, k) : t >= x7[h][k]
    BY <1>2, <1>3 DEF AllCared, TouchCared
  <1>5. t <= x6 /\ t \in 1..MaxTouches /\ <<h, k, t>> \in x8 \union x9
    BY <1>4 DEF AllInOrder, TouchInOrder, LU!Tried
  <1>6. t \in x7[h][k]..x6
    BY <1>3, <1>4, <1>5, TouchTypes
  <1> QED BY <1>5, <1>6

\* The parts are the invariant.
LEMMA RecorderSplit == LU!RecorderInv <=> RecorderParts
  <1>1. LU!RecorderInv => RecorderParts
    <2>1. LU!TouchesInOrder => AllInOrder
      BY DEF LU!TouchesInOrder, AllInOrder, TouchInOrder
    <2>2. LU!TouchesHeld => AllCared
      BY DEF LU!TouchesHeld, AllCared, TouchCared, Flushing
    <2>3. LU!TouchesAccounted => AllLatest
      BY DEF LU!TouchesAccounted, AllLatest, RowLatest, LatestTouch
    <2> QED BY <2>1, <2>2, <2>3 DEF LU!RecorderInv, RecorderParts
  <1>2. RecorderParts => LU!RecorderInv
    <2>1. AllInOrder => LU!TouchesInOrder
      BY DEF LU!TouchesInOrder, AllInOrder, TouchInOrder
    <2>2. AllCared => LU!TouchesHeld
      BY DEF LU!TouchesHeld, AllCared, TouchCared, Flushing
    <2>3. RecorderParts => LU!TouchesAccounted
      BY ExitedAccounted DEF LU!TouchesAccounted, AllLatest, RowLatest, LatestTouch, RecorderParts
    <2> QED BY <2>1, <2>2, <2>3 DEF LU!RecorderInv, RecorderParts
  <1> QED BY <1>1, <1>2

LEMMA RecorderSplitNext == LU!RecorderInv' <=> RecorderParts'
  BY RecorderSplit, PTL

\* At first no host has started.
LEMMA RecorderInit == LU!Init => LU!RecorderInv
  <1> USE LastUsedConstants
  <1> SUFFICES ASSUME LU!Init PROVE RecorderParts
    BY RecorderSplit
  <1>1. LU!TypeOK
    BY DEF LU!Init, LU!TypeOK, LU!NoTouches
  <1>2. \A h \in Hosts, k \in TouchedKeys : /\ x1[h][k] = 0 /\ x2[h][k] = 0
                                            /\ x7[h][k] = 0 /\ LU!Tried(h, k) = {}
    BY DEF LU!Init, LU!NoTouches, LU!Tried
  <1>3. AllInOrder
    BY <1>2 DEF LU!Init, AllInOrder, TouchInOrder
  <1>4. AllCared
    BY <1>2 DEF LU!Init, AllCared, TouchCared, Flushing
  <1>5. AllLatest
    BY DEF LU!Init, AllLatest, RowLatest, LU!NoTouches
  <1> QED BY <1>1, <1>3, <1>4, <1>5 DEF RecorderParts

\* Start: the recorder of a host runs.
LEMMA RecorderStartKeeps == ASSUME RecorderParts, NEW h \in Hosts, LU!Start(h) PROVE RecorderParts'
  <1> USE LastUsedConstants
  <1>1. /\ x3[h] = "off" /\ x4[h] = "live"
        /\ x3' = [x3 EXCEPT ![h] = "waiting"]
        /\ UNCHANGED <<x1, x2, x4, x5, x6, x7, x8, x9>>
    BY DEF LU!Start
  <1>2. x3'[h] = "waiting" /\ \A g \in Hosts : g # h => x3'[g] = x3[g]
    BY <1>1 DEF RecorderParts, LU!TypeOK
  <1>3. LU!TypeOK'
    BY <1>1 DEF RecorderParts, LU!TypeOK
  <1>4. AllInOrder'
    BY <1>1 DEF RecorderParts, AllInOrder, TouchInOrder, LU!Tried
  <1>5. AllCared'
    BY <1>1, <1>2 DEF RecorderParts, AllCared, TouchCared, Flushing, LU!Tried, LU!NoTouches
  <1>6. AllLatest'
    BY <1>1 DEF RecorderParts, AllLatest, RowLatest, LatestTouch
  <1> QED BY <1>3, <1>4, <1>5, <1>6 DEF RecorderParts

\* Shutdown: the signal, the drain of the server and the close, each in its order.
LEMMA ShutdownKeeps == ASSUME RecorderParts, NEW h \in Hosts, LU!Shutdown(h) PROVE RecorderParts'
  <1> USE LastUsedConstants
  <1>1. PICK c \in {"signalled", "drained", "closed"} : x4' = [x4 EXCEPT ![h] = c]
    BY DEF LU!Shutdown
  <1>2. UNCHANGED <<x1, x2, x3, x5, x6, x7, x8, x9>>
    BY DEF LU!Shutdown
  <1>3. x4'[h] # "live" /\ \A g \in Hosts : g # h => x4'[g] = x4[g]
    BY <1>1 DEF RecorderParts, LU!TypeOK
  <1>4. LU!TypeOK'
    BY <1>1, <1>2 DEF RecorderParts, LU!TypeOK
  <1>5. AllInOrder'
    BY <1>2 DEF RecorderParts, AllInOrder, TouchInOrder, LU!Tried
  <1>6. AllCared'
    BY <1>2, <1>3 DEF RecorderParts, AllCared, TouchCared, Flushing, LU!Tried, LU!NoTouches
  <1>7. AllLatest'
    BY <1>2 DEF RecorderParts, AllLatest, RowLatest, LatestTouch
  <1> QED BY <1>4, <1>5, <1>6, <1>7 DEF RecorderParts

\* Touch: a key is used on a host.
LEMMA TouchKeeps ==
  ASSUME RecorderParts, NEW h \in Hosts, NEW k \in TouchedKeys, LU!Touch(h, k) PROVE RecorderParts'
  <1> USE LastUsedConstants
  <1>1. /\ x6 < MaxTouches /\ x6' = x6 + 1
        /\ x1' = [x1 EXCEPT ![h][k] = x6']
        /\ x7' = IF x4[h] = "live" THEN [x7 EXCEPT ![h][k] = x6'] ELSE x7
        /\ UNCHANGED <<x2, x3, x4, x5, x8, x9>>
    BY DEF LU!Touch
  <1>2. x6 \in Nat /\ x6' \in 0..MaxTouches
    BY <1>1, TouchTypes DEF RecorderParts
  <1>3. /\ x1' \in [Hosts -> [TouchedKeys -> 0..MaxTouches]] /\ x1'[h][k] = x6'
        /\ \A g \in Hosts, j \in TouchedKeys :
              g # h \/ j # k => x1'[g][j] = x1[g][j]
    BY <1>1, <1>2 DEF RecorderParts, LU!TypeOK
  <1>4. /\ x7' \in [Hosts -> [TouchedKeys -> 0..MaxTouches]]
        /\ x7'[h][k] = IF x4[h] = "live" THEN x6' ELSE x7[h][k]
        /\ \A g \in Hosts, j \in TouchedKeys : g # h \/ j # k => x7'[g][j] = x7[g][j]
    BY <1>1, <1>2 DEF RecorderParts, LU!TypeOK
  <1>5. LU!TypeOK'
    BY <1>1, <1>2, <1>3, <1>4 DEF RecorderParts, LU!TypeOK
  <1>6. ASSUME NEW g \in Hosts, NEW j \in TouchedKeys PROVE TouchInOrder(g, j)' /\ TouchCared(g, j)'
    <2>1. TouchInOrder(g, j) /\ TouchCared(g, j) /\ Flushing(g)
      BY DEF RecorderParts, AllInOrder, AllCared
    <2>2. /\ LU!Tried(g, j)' = LU!Tried(g, j) /\ LU!Tried(g, j) \subseteq Nat
          /\ x2'[g][j] = x2[g][j] /\ x3'[g] = x3[g]
          /\ x4' = x4
      BY <1>1 DEF LU!Tried
    <2>3. /\ x1[g][j] \in Nat /\ x2[g][j] \in Nat /\ x7[g][j] \in Nat
      BY TouchTypes DEF RecorderParts
    <2>4. CASE g = h /\ j = k
      <3>1. TouchInOrder(g, j)'
        BY <1>1, <1>2, <1>3, <1>4, <2>1, <2>2, <2>3, <2>4 DEF TouchInOrder
      <3>2. CASE x4[h] = "live"
        <4>1. x3[h] \notin {"draining", "exited"}
          BY <2>1, <2>4, <3>2 DEF Flushing
        <4> QED BY <1>2, <1>3, <1>4, <2>2, <2>4, <3>1, <3>2, <4>1 DEF TouchCared
      <3>3. CASE x4[h] # "live"
        <4>1. x7'[g][j] = x7[g][j] /\ x1'[g][j] >= x1[g][j]
          BY <1>1, <1>2, <1>3, <1>4, <2>1, <2>3, <2>4, <3>3 DEF TouchInOrder
        <4> QED BY <1>2, <1>3, <2>1, <2>2, <2>3, <2>4, <3>1, <4>1 DEF TouchCared
      <3> QED BY <3>2, <3>3, <3>1
    <2>5. CASE ~(g = h /\ j = k)
      <3>1. x1'[g][j] = x1[g][j] /\ x7'[g][j] = x7[g][j]
        BY <1>3, <1>4, <2>5
      <3>2. TouchInOrder(g, j)'
        BY <1>1, <1>2, <2>1, <2>2, <2>3, <3>1 DEF TouchInOrder
      <3>3. TouchCared(g, j)'
        BY <2>1, <2>2, <3>1 DEF TouchCared
      <3> QED BY <3>2, <3>3
    <2> QED BY <2>4, <2>5
  <1>7. AllInOrder' /\ AllCared'
    <2>1. \A g \in Hosts : Flushing(g)'
      BY <1>1 DEF RecorderParts, AllCared, Flushing, LU!NoTouches
    <2> QED BY <1>6, <2>1 DEF AllInOrder, AllCared
  <1>8. AllLatest'
    <2> SUFFICES ASSUME NEW j \in TouchedKeys, x5[j] > 0
                 PROVE  \E g \in Hosts : LatestTouch(g, j)'
      BY <1>1 DEF AllLatest, RowLatest
    <2>1. PICK g \in Hosts : LatestTouch(g, j)
      BY DEF RecorderParts, AllLatest, RowLatest
    <2>2. <<g, j, x6 + 1>> \notin x8
      <3>1. x6 + 1 \notin LU!Tried(g, j)
        BY <1>2 DEF RecorderParts, AllInOrder, TouchInOrder
      <3> QED BY <1>1, <1>2, <3>1 DEF LU!Tried
    <2>3. x5[j] \in Nat
      BY TouchTypes DEF RecorderParts
    <2>4. \A t \in x5[j] + 1 .. x6 + 1 : <<g, j, t>> \notin x8
      BY <1>2, <2>1, <2>2, <2>3 DEF LatestTouch
    <2>5. LatestTouch(g, j)'
      BY <1>1, <2>1, <2>4 DEF LatestTouch
    <2> QED BY <2>5
  <1> QED BY <1>5, <1>7, <1>8 DEF RecorderParts

\* A tick and the drain: what waits is what is flushed.
LEMMA TakeKeeps ==
  ASSUME RecorderParts, NEW h \in Hosts, x3[h] = "waiting", LU!TakeSnapshot(h),
         NEW f \in {"flushing", "draining"}, f = "draining" => x4[h] # "live",
         x3' = [x3 EXCEPT ![h] = f],
         UNCHANGED <<x4, x5, x6, x7, x8, x9>>
  PROVE  RecorderParts'
  <1> USE LastUsedConstants
  <1>1. x2' = [x2 EXCEPT ![h] = x1[h]] /\ x1' = [x1 EXCEPT ![h] = LU!NoTouches]
    BY DEF LU!TakeSnapshot
  <1>2. /\ x2'[h] = x1[h] /\ x1'[h] = LU!NoTouches
        /\ \A g \in Hosts : g # h => x2'[g] = x2[g] /\ x1'[g] = x1[g]
    BY <1>1 DEF RecorderParts, LU!TypeOK
  <1>3. x3'[h] = f /\ \A g \in Hosts : g # h => x3'[g] = x3[g]
    BY DEF RecorderParts, LU!TypeOK
  <1>4. LU!TypeOK'
    BY <1>1 DEF RecorderParts, LU!TypeOK, LU!NoTouches
  <1>5. ASSUME NEW g \in Hosts, NEW j \in TouchedKeys PROVE TouchInOrder(g, j)' /\ TouchCared(g, j)'
    <2>1. TouchInOrder(g, j) /\ TouchCared(g, j) /\ Flushing(g)
      BY DEF RecorderParts, AllInOrder, AllCared
    <2>2. LU!Tried(g, j)' = LU!Tried(g, j) /\ LU!Tried(g, j) \subseteq Nat
      BY DEF LU!Tried
    <2>3. /\ x1[g][j] \in Nat /\ x2[g][j] \in Nat /\ x7[g][j] \in Nat
          /\ x6 \in Nat
      BY TouchTypes DEF RecorderParts
    <2>4. CASE g = h
      <3>1. x2[g][j] = 0 /\ x1'[g][j] = 0 /\ x2'[g][j] = x1[g][j]
        BY <1>2, <2>1, <2>4 DEF Flushing, LU!NoTouches
      <3>2. TouchInOrder(g, j)'
        BY <2>1, <2>2, <2>3, <3>1 DEF TouchInOrder
      <3>3. TouchCared(g, j)'
        <4> SUFFICES ASSUME x7[g][j] > 0
                     PROVE  \/ x2'[g][j] >= x7[g][j]
                            \/ \E t \in LU!Tried(g, j)' : t >= x7[g][j]
          BY DEF TouchCared
        <4>1. \/ x1[g][j] >= x7[g][j] \/ x2[g][j] >= x7[g][j]
              \/ \E t \in LU!Tried(g, j) : t >= x7[g][j]
          BY <2>1 DEF TouchCared
        <4>2. ~(x2[g][j] >= x7[g][j])
          BY <2>3, <3>1
        <4> QED BY <2>2, <3>1, <4>1, <4>2
      <3> QED BY <3>2, <3>3
    <2>5. CASE g # h
      <3>1. /\ x2'[g][j] = x2[g][j] /\ x1'[g][j] = x1[g][j]
            /\ x3'[g] = x3[g]
        BY <1>2, <1>3, <2>5
      <3> QED BY <2>1, <2>2, <3>1 DEF TouchInOrder, TouchCared
    <2> QED BY <2>4, <2>5
  <1>6. \A g \in Hosts : Flushing(g)'
    <2> SUFFICES ASSUME NEW g \in Hosts PROVE Flushing(g)'
      OBVIOUS
    <2>1. Flushing(g) /\ LU!NoTouches' = LU!NoTouches
      BY DEF RecorderParts, AllCared, LU!NoTouches
    <2> QED BY <1>2, <1>3, <2>1 DEF Flushing
  <1>7. AllInOrder' /\ AllCared'
    BY <1>5, <1>6 DEF AllInOrder, AllCared
  <1>8. AllLatest'
    BY DEF RecorderParts, AllLatest, RowLatest, LatestTouch
  <1> QED BY <1>4, <1>7, <1>8 DEF RecorderParts

\* What a flush tries to write.
LEMMA TouchesIn ==
  ASSUME RecorderParts, NEW h \in Hosts
  PROVE  /\ \A g \in Hosts, k \in TouchedKeys, t \in Nat :
               <<g, k, t>> \in LU!Touches(h) <=> g = h /\ t = x2[h][k] /\ t > 0
         /\ LU!Touches(h) \subseteq Hosts \X TouchedKeys \X (1..MaxTouches)
  <1>1. \A k \in TouchedKeys : x2[h][k] \in 0..MaxTouches
    BY TouchTypes DEF RecorderParts
  <1> QED BY <1>1, LastUsedConstants DEF LU!Touches

\* A flush that ran or failed: what it held was tried.
LEMMA FlushedKeeps ==
  ASSUME RecorderParts, NEW h \in Hosts, x3[h] \in {"flushing", "draining"}, LU!Flushed(h),
         x8' \union x9' = x8 \union x9 \union LU!Touches(h),
         AllLatest', x5' \in [TouchedKeys -> 0..MaxTouches]
  PROVE  RecorderParts'
  <1> USE LastUsedConstants
  <1>1. /\ x3' = [x3 EXCEPT ![h] = IF @ = "draining" THEN "exited" ELSE "waiting"]
        /\ x2' = [x2 EXCEPT ![h] = LU!NoTouches]
        /\ UNCHANGED <<x1, x4, x6, x7>>
    BY DEF LU!Flushed
  <1>2. x2'[h] = LU!NoTouches /\ \A g \in Hosts : g # h => x2'[g] = x2[g]
    BY <1>1 DEF RecorderParts, LU!TypeOK
  <1>3. /\ x3'[h] = IF x3[h] = "draining" THEN "exited" ELSE "waiting"
        /\ \A g \in Hosts : g # h => x3'[g] = x3[g]
    BY <1>1 DEF RecorderParts, LU!TypeOK
  <1>4. LU!TypeOK'
    BY <1>1, TouchesIn DEF RecorderParts, LU!TypeOK, LU!NoTouches
  <1>5. ASSUME NEW g \in Hosts, NEW j \in TouchedKeys PROVE TouchInOrder(g, j)' /\ TouchCared(g, j)'
    <2>1. TouchInOrder(g, j) /\ TouchCared(g, j)
      BY DEF RecorderParts, AllInOrder, AllCared
    <2>2. /\ x1[g][j] \in Nat /\ x2[g][j] \in 0..MaxTouches /\ x7[g][j] \in Nat
          /\ x6 \in Nat
      BY TouchTypes DEF RecorderParts
    <2>3. LU!Tried(g, j)' = LU!Tried(g, j) \union {t \in {x2[g][j]} : g = h /\ t > 0}
      BY <2>2, TouchesIn DEF LU!Tried
    <2>4. LU!Tried(g, j) \subseteq Nat
      BY DEF LU!Tried
    <2>5. CASE g = h
      <3>1. x2'[g][j] = 0
        BY <1>2, <2>5 DEF LU!NoTouches
      <3>2. TouchInOrder(g, j)'
        <4>1. \A t \in LU!Tried(g, j)' : t <= x6 /\ (x1[g][j] > 0 => t < x1[g][j])
          BY <2>1, <2>2, <2>3, <2>4, <2>5 DEF TouchInOrder
        <4> QED BY <1>1, <2>1, <2>2, <3>1, <4>1 DEF TouchInOrder
      <3>3. TouchCared(g, j)'
        <4> SUFFICES ASSUME x7[g][j] > 0
                     PROVE  \/ /\ x3'[g] \notin {"draining", "exited"}
                               /\ x1[g][j] >= x7[g][j]
                            \/ \E t \in LU!Tried(g, j)' : t >= x7[g][j]
          BY <1>1 DEF TouchCared
        <4>1. CASE x3[g] \notin {"draining", "exited"} /\ x1[g][j] >= x7[g][j]
          BY <1>3, <2>5, <4>1
        <4>2. CASE x2[g][j] >= x7[g][j]
          <5>1. x2[g][j] > 0
            BY <2>2, <4>2
          <5>2. x2[g][j] \in LU!Tried(g, j)'
            BY <2>3, <2>5, <5>1
          <5> QED BY <4>2, <5>2
        <4>3. CASE \E t \in LU!Tried(g, j) : t >= x7[g][j]
          BY <2>3, <4>3
        <4> QED BY <2>1, <4>1, <4>2, <4>3 DEF TouchCared
      <3> QED BY <3>2, <3>3
    <2>6. CASE g # h
      <3>1. /\ LU!Tried(g, j)' = LU!Tried(g, j) /\ x2'[g][j] = x2[g][j]
            /\ x3'[g] = x3[g]
        BY <1>2, <1>3, <2>3, <2>6
      <3> QED BY <1>1, <2>1, <3>1 DEF TouchInOrder, TouchCared
    <2> QED BY <2>5, <2>6
  <1>6. \A g \in Hosts : Flushing(g)'
    <2> SUFFICES ASSUME NEW g \in Hosts PROVE Flushing(g)'
      OBVIOUS
    <2>1. Flushing(g) /\ LU!NoTouches' = LU!NoTouches
      BY DEF RecorderParts, AllCared, LU!NoTouches
    <2> QED BY <1>1, <1>2, <1>3, <2>1 DEF Flushing
  <1>7. AllInOrder' /\ AllCared'
    BY <1>5, <1>6 DEF AllInOrder, AllCared
  <1> QED BY <1>4, <1>7 DEF RecorderParts

\* Flush: the snapshot is written.
LEMMA FlushKeeps == ASSUME RecorderParts, NEW h \in Hosts, LU!Flush(h) PROVE RecorderParts'
  <1> USE LastUsedConstants
  <1>1. /\ x3[h] \in {"flushing", "draining"} /\ LU!Flushed(h) /\ x6' = x6
        /\ x5' = [k \in TouchedKeys |-> IF x2[h][k] > 0 THEN x2[h][k] ELSE x5[k]]
        /\ x8' = x8 \union LU!Touches(h) /\ UNCHANGED x9
    BY DEF LU!Flush, LU!Flushed
  <1>2. x5' \in [TouchedKeys -> 0..MaxTouches]
    BY <1>1, TouchTypes DEF RecorderParts
  <1>3. AllLatest'
    <2> SUFFICES ASSUME NEW k \in TouchedKeys, x5'[k] > 0 PROVE \E g \in Hosts : LatestTouch(g, k)'
      BY DEF AllLatest, RowLatest
    <2>1. /\ x2[h][k] \in 0..MaxTouches /\ x5[k] \in 0..MaxTouches /\ x6 \in Nat
      BY TouchTypes DEF RecorderParts
    <2>2. CASE x2[h][k] > 0
      <3>1. x5'[k] = x2[h][k]
        BY <1>1, <2>2
      <3>2. <<h, k, x2[h][k]>> \in x8'
        BY <1>1, <2>1, <2>2, TouchesIn
      <3>3. \A t \in x2[h][k] + 1 .. x6 : <<h, k, t>> \notin x8'
        <4> SUFFICES ASSUME NEW t \in x2[h][k] + 1 .. x6, <<h, k, t>> \in x8'
                     PROVE  FALSE
          OBVIOUS
        <4>1. t \in Nat /\ t > x2[h][k] /\ t <= x6 /\ x6 <= MaxTouches
          BY <2>1, TouchTypes DEF RecorderParts
        <4>2. <<h, k, t>> \notin LU!Touches(h)
          BY <2>1, <4>1, TouchesIn
        <4>3. t \in LU!Tried(h, k)
          <5>1. <<h, k, t>> \in x8
            BY <1>1, <4>2
          <5>2. t \in 1..MaxTouches
            BY <2>1, <2>2, <4>1
          <5> QED BY <5>1, <5>2 DEF LU!Tried
        <4>4. t < x2[h][k]
          BY <2>2, <4>3 DEF RecorderParts, AllInOrder, TouchInOrder
        <4> QED BY <2>1, <4>1, <4>4
      <3> QED BY <1>1, <3>1, <3>2, <3>3 DEF LatestTouch
    <2>3. CASE ~(x2[h][k] > 0)
      <3>1. x5'[k] = x5[k]
        BY <1>1, <2>3
      <3>2. PICK g \in Hosts : LatestTouch(g, k)
        BY <3>1 DEF RecorderParts, AllLatest, RowLatest
      <3>3. \A t \in Nat : <<g, k, t>> \notin LU!Touches(h)
        BY <2>1, <2>3, TouchesIn
      <3>4. \A t \in x5[k] + 1 .. x6 : <<g, k, t>> \notin x8'
        BY <1>1, <2>1, <3>2, <3>3 DEF LatestTouch
      <3> QED BY <1>1, <3>1, <3>2, <3>4 DEF LatestTouch
    <2> QED BY <2>2, <2>3
  <1>4. x8' \union x9' = x8 \union x9 \union LU!Touches(h)
    BY <1>1
  <1> QED BY <1>1, <1>2, <1>3, <1>4, FlushedKeeps

\* FlushFails: the snapshot is lost and was tried.
LEMMA FlushFailsKeeps ==
    ASSUME RecorderParts, NEW h \in Hosts, LU!FlushFails(h)
    PROVE  RecorderParts'
  <1>1. /\ x3[h] \in {"flushing", "draining"} /\ LU!Flushed(h) /\ x6' = x6
        /\ x9' = x9 \union LU!Touches(h) /\ UNCHANGED <<x5, x8>>
    BY DEF LU!FlushFails, LU!Flushed
  <1>2. AllLatest' /\ x5' \in [TouchedKeys -> 0..MaxTouches]
    BY <1>1 DEF RecorderParts, LU!TypeOK, AllLatest, RowLatest, LatestTouch
  <1>3. x8' \union x9' = x8 \union x9 \union LU!Touches(h)
    BY <1>1
  <1> QED BY <1>1, <1>2, <1>3, FlushedKeeps

\* Every action of LastUsed keeps the invariant.
LEMMA RecorderStep == LU!RecorderInv /\ [LU!Next]_(LU!vars) => LU!RecorderInv'
  <1> SUFFICES ASSUME RecorderParts, [LU!Next]_(LU!vars) PROVE RecorderParts'
    BY RecorderSplit, RecorderSplitNext
  <1>1. ASSUME NEW h \in Hosts, LU!Drain(h) PROVE RecorderParts'
    BY <1>1, TakeKeeps DEF LU!Drain
  <1>2. ASSUME NEW h \in Hosts, LU!Tick(h) PROVE RecorderParts'
    BY <1>2, TakeKeeps DEF LU!Tick
  <1>3. CASE UNCHANGED LU!vars
    BY <1>3
       DEF LU!vars, RecorderParts, LU!TypeOK, AllInOrder, TouchInOrder, AllCared, TouchCared,
           Flushing, AllLatest, RowLatest, LatestTouch, LU!Tried, LU!NoTouches
  <1> QED BY <1>1, <1>2, <1>3, RecorderStartKeeps, ShutdownKeeps, TouchKeeps, FlushKeeps,
             FlushFailsKeeps
             DEF LU!Next

-----------------------------------------------------------------------------
(***************************************************************************)
(* Edge: a behaviour   is one of one component, so the invariant of that   *)
(* component is an invariant of all of them.                               *)
(***************************************************************************)
EdgeInv ==
    /\ focus = "access" => AC!LockoutInv
    /\ focus = "keys" => AK!KeysInv
    /\ focus = "last_used" => LU!RecorderInv
    /\ focus = "square" => SQ!PairInv
    /\ focus = "lnurl" => LN!LoginInv
    /\ focus = "poller" => PO!CursorInv
    /\ focus = "budgets" => BU!PaidInv
    /\ focus = "purchasing" => PU!OrderInv
    /\ focus = "receiving" => RE!FinishInv

\* The focus says which component takes the step, for good.
LEMMA FocusStep ==
    ASSUME [EdgeNext]_edgeVars
    PROVE  /\ focus' = focus
           /\ focus = "access" => [AC!Next]_(AC!vars)
           /\ focus = "keys" => [AK!Next]_(AK!vars)
           /\ focus = "last_used" => [LU!Next]_(LU!vars)
           /\ focus = "square" => [SQ!Next]_(SQ!vars)
           /\ focus = "lnurl" => [LN!Next]_(LN!vars)
           /\ focus = "poller" => [PO!Next]_(PO!vars)
           /\ focus = "budgets" => [BU!Next]_(BU!vars)
           /\ focus = "purchasing" => [PU!Next]_(PU!vars)
           /\ focus = "receiving" => [RE!Next]_(RE!vars)
  <1>1. CASE EdgeNext
    BY <1>1
       DEF EdgeNext, StepAccess, StepApiKeys, StepLastUsed, StepSquareAuth, StepLnurl, StepPoller,
           StepBudgets, StepPurchasing, StepReceiving
  <1>2. CASE UNCHANGED edgeVars
    BY <1>2
       DEF edgeVars, AC!vars, AK!vars, LU!vars, SQ!vars, LN!vars, PO!vars, BU!vars, PU!vars, RE!vars
  <1> QED BY <1>1, <1>2

\* The invariant of the component in focus is one of every behaviour.
LEMMA EdgeInvariant == EdgeSpec => []EdgeInv
  <1>1. EdgeInit => EdgeInv
    BY LockoutInit, KeysInit, RecorderInit, PairInit, LoginInit, CursorInit, PaidInit, OrderInit,
       FinishInit
       DEF EdgeInit, EdgeInv
  <1>2. EdgeInv /\ [EdgeNext]_edgeVars => EdgeInv'
    <2> SUFFICES ASSUME EdgeInv, [EdgeNext]_edgeVars PROVE EdgeInv'
      OBVIOUS
    <2> QED BY FocusStep, LockoutStep, KeysStep, RecorderStep, PairStep, LoginStep, CursorStep,
               PaidStep, OrderStep, FinishStep
               DEF EdgeInv
  <1> QED BY <1>1, <1>2, PTL DEF EdgeSpec

(***************************************************************************)
(* No interleaving of the Valkey commands of requests that are alike lets  *)
(* more guesses through than the threshold, the requests at work and the   *)
(* failed commands account for (Access); a key has no scope and no tenant  *)
(* that the keys above it lack (ApiKeys); a graceful shutdown loses no     *)
(* touch made before the signal (LastUsed).                                *)
(***************************************************************************)
THEOREM CredentialsAreSound == EdgeSpec => []CredentialsSound
  <1>1. EdgeInv => CredentialsSound
    BY DEF EdgeInv, CredentialsSound
  <1> QED BY <1>1, EdgeInvariant, PTL

(***************************************************************************)
(* A challenge logs in one wallet and once (HandleCallback, HandleStatus), *)
(* and the pair of tokens that is stored is one that Square accepts, in    *)
(* whatever order callbacks and refreshes return (HandleSquareCallback,    *)
(* RefreshTokenForMerchant).                                               *)
(***************************************************************************)
THEOREM LogInIsSound == EdgeSpec => []LogInSound
  <1>1. EdgeInv => LogInSound
    BY LoginOnce DEF EdgeInv, LogInSound
  <1> QED BY <1>1, EdgeInvariant, PTL

(***************************************************************************)
(* The cursor of a shop passes no document that was not published, with    *)
(* documents that appear and change while the poller fetches, and with     *)
(* every failure of the fetch, of the publisher and of the cursor's key.   *)
(***************************************************************************)
THEOREM CursorPassesNothing == EdgeSpec => []NothingLeftBehind
  <1>1. EdgeInv => NothingLeftBehind
    BY DEF EdgeInv, NothingLeftBehind
  <1> QED BY <1>1, EdgeInvariant, PTL

(***************************************************************************)
(* A hard budget is charged no more than its limit by payments that        *)
(* overlap (Budgets); an order's stamps are those of its status            *)
(* (Purchasing); an execution ends once and keeps its ending, a receipt    *)
(* its first completed_at (Receiving).                                     *)
(***************************************************************************)
THEOREM BooksAreSound == EdgeSpec => []BooksSound
  <1>1. EdgeInv => BooksSound
    BY DEF EdgeInv, BooksSound
  <1> QED BY <1>1, EdgeInvariant, PTL
=============================================================================
