------------------------- MODULE DirectedTasksProofs -------------------------
(***************************************************************************)
(* Proofs about directed tasks for any number of callers and replenishment *)
(* triggers, with every interleaving of their reads and writes and every   *)
(* failed call and crash of DirectedTasks.                                 *)
(***************************************************************************)
EXTENDS DirectedTasks, FiniteSetTheorems, TLAPS

Rows == 1 .. Len(tasks)

-----------------------------------------------------------------------------
(***************************************************************************)
(* The inductive invariant.  A status a task has, or had when an update of *)
(* it was checked, comes with the stamps of the statuses before it.        *)
(***************************************************************************)
StampsInv ==
    /\ StampsInOrder
    /\ \A t \in Rows : tasks[t].status \in {"complete", "verified"} => tasks[t].completed_at
    /\ \A c \in Clients : clients[c].pc = "write" =>
          /\ clients[c].to = "complete" => tasks[clients[c].task].started_at
          /\ clients[c].to = "verified" => tasks[clients[c].task].completed_at

(***************************************************************************)
(* A request that goes on has its task, and the rows that claims hold are  *)
(* queued and one claim's each.                                            *)
(***************************************************************************)
ClaimInv ==
    /\ \A c \in Clients : clients[c].pc \in {"write", "start", "claim"} => clients[c].task \in Rows
    /\ \A c \in Clients : clients[c].pc = "claim" => tasks[clients[c].task].status = "queued"
    /\ \A c, d \in Clients :
          clients[c].pc = "claim" /\ clients[d].pc = "claim" /\ clients[c].task = clients[d].task
              => c = d

(***************************************************************************)
(* The open tasks of a trigger that nobody opened again: one at most, and  *)
(* none while the trigger is about to create one.                          *)
(***************************************************************************)
OpenOf(g) == {t \in Rows : tasks[t].by = g /\ tasks[t].status \in Open /\ ~tasks[t].reopened}

TriggerInv ==
    /\ \A t \in Rows : tasks[t].by # NONE => tasks[t].task_type = "replenishment"
    /\ \A g \in Triggers : \A t, u \in OpenOf(g) : t = u
    /\ \A g \in Triggers : At(g, "create") => OpenOf(g) = {}

(***************************************************************************)
(* A trigger that was restarted too often has stopped.                     *)
(***************************************************************************)
BoundsInv ==
    /\ Len(stream) <= MaxWork
    /\ \A g \in Triggers : ~At(g, "stopped") => triggers[g].restarts <= MaxRestarts

TaskIInv == TypeOK /\ StampsInv /\ ClaimInv /\ TriggerInv /\ BoundsInv


-----------------------------------------------------------------------------
(***************************************************************************)
(* What the statements of the store do to the rows.                        *)
(***************************************************************************)
LEMMA RowTypes ==
    ASSUME TypeOK
    PROVE  /\ tasks \in Seq(Task) /\ Len(tasks) \in Nat
           /\ \A t \in Rows : tasks[t] \in Task
  BY DEF TypeOK, Rows

LEMMA Created ==
    ASSUME TypeOK, NEW type \in {"replenishment", "audit"}, NEW priority \in 1 .. 5,
           NEW by \in Triggers \union {NONE}, Create(type, priority, by)
    PROVE  /\ tasks' \in Seq(Task) /\ Len(tasks') = Len(tasks) + 1
           /\ Rows' = Rows \union {Len(tasks')} /\ Len(tasks') \notin Rows
           /\ \A t \in Rows : tasks'[t] = tasks[t]
           /\ tasks'[Len(tasks')] =
                 [task_type |-> type, priority |-> priority, status |-> "queued",
                  assignee |-> NONE, started_at |-> FALSE, completed_at |-> FALSE,
                  verified_at |-> FALSE, by |-> by, reopened |-> FALSE]
  <1> DEFINE row == [task_type |-> type, priority |-> priority, status |-> "queued",
                     assignee |-> NONE, started_at |-> FALSE, completed_at |-> FALSE,
                     verified_at |-> FALSE, by |-> by, reopened |-> FALSE]
  <1>1. row \in Task
    BY DEF Task, Statuses
  <1>2. tasks' = Append(tasks, row)
    BY DEF Create
  <1>3. tasks \in Seq(Task) /\ Len(tasks) \in Nat
    BY RowTypes
  <1> HIDE DEF row
  <1>4. tasks' \in Seq(Task) /\ Len(tasks') = Len(tasks) + 1
        /\ tasks'[Len(tasks')] = row /\ \A t \in Rows : tasks'[t] = tasks[t]
    BY <1>1, <1>2, <1>3 DEF Rows
  <1>5. Rows' = Rows \union {Len(tasks')} /\ Len(tasks') \notin Rows
    BY <1>3, <1>4 DEF Rows
  <1> QED BY <1>4, <1>5 DEF row

LEMMA StatusSet ==
    ASSUME TypeOK, NEW t \in Rows, NEW to \in Statuses, SetStatus(t, to)
    PROVE  /\ tasks' \in Seq(Task) /\ Len(tasks') = Len(tasks) /\ Rows' = Rows
           /\ \A u \in Rows : u # t => tasks'[u] = tasks[u]
           /\ \A u \in Rows : /\ tasks'[u].task_type = tasks[u].task_type
                              /\ tasks'[u].by = tasks[u].by
                              /\ tasks'[u].assignee = tasks[u].assignee
           /\ tasks'[t].status = to
           /\ tasks'[t].started_at = (tasks[t].started_at \/ to = "in_progress")
           /\ tasks'[t].completed_at = (tasks[t].completed_at \/ to = "complete")
           /\ tasks'[t].verified_at = (tasks[t].verified_at \/ to = "verified")
           /\ tasks'[t].reopened =
                 (tasks[t].reopened \/ (tasks[t].status \notin Open /\ to \in Open))
  <1> DEFINE started   == tasks[t].started_at \/ to = "in_progress"
             completed == tasks[t].completed_at \/ to = "complete"
             verified  == tasks[t].verified_at \/ to = "verified"
             again     == tasks[t].reopened \/ (tasks[t].status \notin Open /\ to \in Open)
             row == [tasks[t] EXCEPT !.status = to, !.started_at = started,
                                     !.completed_at = completed, !.verified_at = verified,
                                     !.reopened = again]
  <1>1. tasks \in Seq(Task) /\ Len(tasks) \in Nat /\ tasks[t] \in Task
    BY RowTypes
  <1>2. tasks' = [tasks EXCEPT ![t] = row]
    BY <1>1 DEF SetStatus, Rows
  <1>3. {started, completed, verified, again} \subseteq BOOLEAN
    BY <1>1 DEF Task
  <1>4. /\ row \in Task /\ row.status = to
        /\ row.task_type = tasks[t].task_type /\ row.by = tasks[t].by
        /\ row.assignee = tasks[t].assignee
        /\ row.started_at = started /\ row.completed_at = completed
        /\ row.verified_at = verified /\ row.reopened = again
    <2> HIDE DEF started, completed, verified, again
    <2>1. row \in Task
      BY <1>1, <1>3 DEF Task
    <2>2. /\ row.status = to
          /\ row.task_type = tasks[t].task_type /\ row.by = tasks[t].by
          /\ row.assignee = tasks[t].assignee
      BY <1>1 DEF Task
    <2>3. /\ row.started_at = started /\ row.completed_at = completed
          /\ row.verified_at = verified /\ row.reopened = again
      BY <1>1 DEF Task
    <2> QED BY <2>1, <2>2, <2>3
  <1> HIDE DEF row
  <1>5. /\ tasks' \in Seq(Task) /\ Len(tasks') = Len(tasks)
        /\ \A u \in Rows : u # t => tasks'[u] = tasks[u]
        /\ tasks'[t] = row
    BY <1>1, <1>2, <1>4 DEF Rows
  <1> QED BY <1>4, <1>5 DEF Rows

GiveTo(t, c) == tasks' = [tasks EXCEPT ![t].status = "assigned", ![t].assignee = c]

LEMMA RowAssigned ==
    ASSUME TypeOK, NEW t \in Rows, NEW c \in Clients, GiveTo(t, c)
    PROVE  /\ tasks' \in Seq(Task) /\ Len(tasks') = Len(tasks) /\ Rows' = Rows
           /\ \A u \in Rows : u # t => tasks'[u] = tasks[u]
           /\ tasks'[t] = [tasks[t] EXCEPT !.status = "assigned", !.assignee = c]
           /\ tasks'[t] \in Task
  <1> DEFINE row == [tasks[t] EXCEPT !.status = "assigned", !.assignee = c]
  <1>1. tasks \in Seq(Task) /\ Len(tasks) \in Nat /\ tasks[t] \in Task
    BY RowTypes
  <1>2. row \in Task
    BY <1>1 DEF Task, Statuses
  <1>3. tasks' = [tasks EXCEPT ![t] = row]
    BY <1>1 DEF Rows, GiveTo
  <1> HIDE DEF row
  <1>4. /\ tasks' \in Seq(Task) /\ Len(tasks') = Len(tasks)
        /\ \A u \in Rows : u # t => tasks'[u] = tasks[u]
        /\ tasks'[t] = row
    BY <1>1, <1>2, <1>3 DEF Rows
  <1> QED BY <1>2, <1>4 DEF Rows, row

(***************************************************************************)
(* The bounds that Spare compares are numbers.                             *)
(***************************************************************************)
LEMMA SpareBounds ==
    ASSUME TypeOK, Spare
    PROVE  Len(stream) + 1 <= MaxWork /\ exceptions + 1 <= MaxWork
  <1> DEFINE made == {t \in Rows : tasks[t].by = NONE}
  <1>1. Len(stream) \in Nat /\ exceptions \in Nat /\ MaxWork \in Nat
    BY TasksAssumption DEF TypeOK
  <1>2. Cardinality(made) \in Nat
    <2>1. IsFiniteSet(Rows)
      BY RowTypes, FS_Interval DEF Rows
    <2>2. IsFiniteSet(made)
      BY <2>1, FS_Subset
    <2> QED BY <2>2, FS_CardinalityType
  <1>3. Len(stream) + exceptions + Cardinality(made) < MaxWork
    BY DEF Spare, Rows
  <1> HIDE DEF made
  <1> QED BY <1>1, <1>2, <1>3

(***************************************************************************)
(* A request that moves on: what it takes with it must be true of the rows *)
(* as they are.                                                            *)
(***************************************************************************)
LEMMA ClientMoved ==
    ASSUME TaskIInv, tasks' = tasks, NEW c \in Clients, NEW q \in Client,
           clients' = [clients EXCEPT ![c] = q], q.task \in 0 .. Len(tasks),
           q.pc \in {"write", "start", "claim"} => q.task \in Rows,
           q.pc = "claim" => tasks[q.task].status = "queued" /\ q.task \notin Locked,
           q.pc = "write" /\ q.to = "complete" => tasks[q.task].started_at,
           q.pc = "write" /\ q.to = "verified" => tasks[q.task].completed_at
    PROVE  /\ clients' \in [Clients -> Client]
           /\ \A d \in Clients : clients'[d].task \in 0 .. Len(tasks')
           /\ StampsInv' /\ ClaimInv'
  <1>1. clients \in [Clients -> Client] /\ \A d \in Clients : clients[d].task \in 0 .. Len(tasks)
    BY DEF TaskIInv, TypeOK
  <1>2. clients'[c] = q /\ \A d \in Clients : d # c => clients'[d] = clients[d]
    BY <1>1
  <1>3. clients' \in [Clients -> Client] /\ \A d \in Clients : clients'[d].task \in 0 .. Len(tasks')
    BY <1>1, <1>2
  <1>4. StampsInv'
    BY <1>2 DEF TaskIInv, StampsInv, StampsInOrder, Rows
  <1>5. \A d \in Clients \ {c} : clients[d].pc = "claim" /\ q.pc = "claim" => clients[d].task # q.task
    BY DEF Locked
  <1>6. ClaimInv'
    BY <1>2, <1>5 DEF TaskIInv, ClaimInv, Rows
  <1> QED BY <1>3, <1>4, <1>6

(***************************************************************************)
(* A row that is added takes nothing from the others.                      *)
(***************************************************************************)
LEMMA RowAdded ==
    ASSUME TaskIInv, clients' = clients, NEW type \in {"replenishment", "audit"},
           NEW priority \in 1 .. 5, NEW by \in Triggers \union {NONE}, Create(type, priority, by)
    PROVE  /\ tasks' \in Seq(Task)
           /\ \A d \in Clients : clients'[d].task \in 0 .. Len(tasks')
           /\ StampsInv' /\ ClaimInv'
           /\ \A g \in Triggers : g # by => OpenOf(g)' = OpenOf(g)
           /\ \A g \in Triggers : g = by => OpenOf(g)' = OpenOf(g) \union {Len(tasks')}
  <1> DEFINE n == Len(tasks')
             fresh == [task_type |-> type, priority |-> priority, status |-> "queued",
                       assignee |-> NONE, started_at |-> FALSE, completed_at |-> FALSE,
                       verified_at |-> FALSE, by |-> by, reopened |-> FALSE]
  <1>1. TypeOK
    BY DEF TaskIInv
  <1>2. /\ tasks' \in Seq(Task) /\ n = Len(tasks) + 1 /\ Len(tasks) \in Nat
        /\ Rows' = Rows \union {n} /\ n \notin Rows
        /\ \A t \in Rows : tasks'[t] = tasks[t]
        /\ tasks'[n] = fresh
    BY <1>1, Created, RowTypes
  <1>3. /\ fresh.status = "queued" /\ fresh.by = by /\ ~fresh.reopened
        /\ ~fresh.started_at /\ ~fresh.completed_at /\ ~fresh.verified_at
    OBVIOUS
  <1> HIDE DEF n, fresh
  <1>4. \A d \in Clients : clients'[d].task \in 0 .. n
    BY <1>1, <1>2 DEF TypeOK
  <1>5. ClaimInv'
    BY <1>2 DEF TaskIInv, ClaimInv
  <1>6. StampsInv'
    <2>1. \A c \in Clients : clients[c].pc = "write" => clients[c].task \in Rows
      BY DEF TaskIInv, ClaimInv
    <2> QED BY <1>2, <1>3, <2>1 DEF TaskIInv, StampsInv, StampsInOrder, Rows
  <1>7. \A g \in Triggers : g # by => OpenOf(g)' = OpenOf(g)
    BY <1>2, <1>3 DEF OpenOf
  <1>8. \A g \in Triggers : g = by => OpenOf(g)' = OpenOf(g) \union {n}
    BY <1>2, <1>3 DEF OpenOf, Open
  <1> QED BY <1>2, <1>4, <1>5, <1>6, <1>7, <1>8 DEF n

(***************************************************************************)
(* The rest of the invariant, when rows and requests stay.                 *)
(***************************************************************************)
LEMMA WorkKept ==
    ASSUME TaskIInv, tasks' = tasks, clients' = clients
    PROVE  StampsInv' /\ ClaimInv' /\ \A g \in Triggers : OpenOf(g)' = OpenOf(g)
  BY DEF TaskIInv, StampsInv, StampsInOrder, ClaimInv, Rows, OpenOf

LEMMA TriggersKept ==
    ASSUME TriggerInv, tasks' = tasks,
           \A g \in Triggers : At(g, "create")' => At(g, "create") \/ OpenOf(g) = {}
    PROVE  TriggerInv'
  BY DEF TriggerInv, OpenOf, Rows

LEMMA FeedKept ==
    ASSUME BoundsInv, stream' = stream, triggers' = triggers
    PROVE  BoundsInv'
  BY DEF BoundsInv, At

-----------------------------------------------------------------------------
(***************************************************************************)
(* The steps of the API and of the pages.                                  *)
(***************************************************************************)
LEMMA createTaskKeeps ==
    ASSUME TaskIInv, NEW type \in {"replenishment", "audit"}, NEW priority \in {0, 1},
           createTask(type, priority), type = "replenishment" <=> priority = 0
    PROVE  TaskIInv'
  <1>1. TypeOK /\ TriggerInv /\ BoundsInv
    BY DEF TaskIInv
  <1>2. ValidateCreate(priority) \in 1 .. 5 /\ Create(type, ValidateCreate(priority), NONE)
        /\ UNCHANGED <<exceptions, clients, feed, faults>>
    BY DEF createTask, ValidateCreate
  <1> DEFINE p == ValidateCreate(priority)
  <1> HIDE DEF p
  <1>3. p \in 1 .. 5 /\ Create(type, p, NONE) /\ NONE \notin Triggers
    BY <1>2, TasksAssumption DEF p
  <1>4. /\ tasks' \in Seq(Task)
        /\ \A d \in Clients : clients'[d].task \in 0 .. Len(tasks')
        /\ StampsInv' /\ ClaimInv'
        /\ \A g \in Triggers : OpenOf(g)' = OpenOf(g)
    BY <1>2, <1>3, RowAdded
  <1>5. TypeOK'
    BY <1>1, <1>2, <1>4 DEF TypeOK, feed
  <1>6. \A t \in Rows' : tasks'[t].by # NONE => tasks'[t].task_type = "replenishment"
    <2> DEFINE row == [task_type |-> type, priority |-> p, status |-> "queued",
                       assignee |-> NONE, started_at |-> FALSE, completed_at |-> FALSE,
                       verified_at |-> FALSE, by |-> NONE, reopened |-> FALSE]
    <2>1. /\ Rows' = Rows \union {Len(tasks')} /\ \A t \in Rows : tasks'[t] = tasks[t]
          /\ tasks'[Len(tasks')] = row
      BY <1>1, <1>3, Created
    <2>2. row.by = NONE
      OBVIOUS
    <2> HIDE DEF row
    <2> QED BY <1>1, <2>1, <2>2 DEF TriggerInv
  <1>7. TriggerInv'
    BY <1>1, <1>2, <1>4, <1>6 DEF TriggerInv, At, feed
  <1>8. BoundsInv'
    BY <1>1, <1>2, FeedKept DEF feed
  <1> QED BY <1>4, <1>5, <1>7, <1>8 DEF TaskIInv

(***************************************************************************)
(* A step of one request that changes no row.                              *)
(***************************************************************************)
LEMMA RequestKeeps ==
    ASSUME TaskIInv, tasks' = tasks, exceptions' = exceptions, UNCHANGED feed,
           faults' \in 0 .. MaxFaults, NEW c \in Clients, NEW q \in Client,
           clients' = [clients EXCEPT ![c] = q], q.task \in 0 .. Len(tasks),
           q.pc \in {"write", "start", "claim"} => q.task \in Rows,
           q.pc = "claim" => tasks[q.task].status = "queued" /\ q.task \notin Locked,
           q.pc = "write" /\ q.to = "complete" => tasks[q.task].started_at,
           q.pc = "write" /\ q.to = "verified" => tasks[q.task].completed_at
    PROVE  TaskIInv'
  <1>1. TypeOK /\ TriggerInv /\ BoundsInv
    BY DEF TaskIInv
  <1>2. /\ clients' \in [Clients -> Client]
        /\ \A d \in Clients : clients'[d].task \in 0 .. Len(tasks')
        /\ StampsInv' /\ ClaimInv'
    BY ClientMoved
  <1>3. TypeOK'
    BY <1>1, <1>2 DEF TypeOK, feed
  <1>4. TriggerInv'
    BY <1>1, TriggersKept DEF At, feed
  <1>5. BoundsInv'
    BY <1>1, FeedKept DEF feed
  <1> QED BY <1>2, <1>3, <1>4, <1>5 DEF TaskIInv

LEMMA IdleClient == Idle \in Client /\ Idle.task = 0 /\ Idle.pc = "idle"
  BY DEF Idle, Client, Statuses

LEMMA getNextKeeps == ASSUME TaskIInv, NEW c \in Clients, getNext(c) PROVE TaskIInv'
  <1>1. PICK t \in Rows : Best(t) /\ clients' = [clients EXCEPT ![c] =
                              [Idle EXCEPT !.pc = "claim", !.task = t]]
    BY DEF getNext, Rows
  <1> DEFINE q == [Idle EXCEPT !.pc = "claim", !.task = t]
  <1>2. q \in Client /\ q.task = t /\ q.pc = "claim"
    <2>1. t \in Nat
      BY RowTypes DEF TaskIInv, Rows
    <2> QED BY <2>1 DEF Idle, Client, Statuses
  <1>3. tasks[t].status = "queued" /\ t \notin Locked
    BY <1>1 DEF Best
  <1>4. tasks' = tasks /\ exceptions' = exceptions /\ UNCHANGED feed /\ faults' \in 0 .. MaxFaults
    BY DEF getNext, TaskIInv, TypeOK
  <1>5. t \in 0 .. Len(tasks)
    BY RowTypes DEF TaskIInv, Rows
  <1>6. clients' = [clients EXCEPT ![c] = q]
    BY <1>1
  <1> HIDE DEF q
  <1> QED BY <1>2, <1>3, <1>4, <1>5, <1>6, RequestKeeps

(***************************************************************************)
(* The read half of an update: the row it was checked against has the      *)
(* stamps that the new status builds on.                                   *)
(***************************************************************************)
LEMMA ReadKeeps ==
    ASSUME TaskIInv, NEW c \in Clients, NEW t \in Rows, NEW to \in Statuses, NEW page \in BOOLEAN,
           ReadStatus(c, t, to, page), UNCHANGED <<tasks, exceptions, feed, faults>>
    PROVE  TaskIInv'
  <1> DEFINE q == [pc |-> "write", task |-> t, to |-> to, page |-> page]
  <1>1. t \in Nat /\ t \in 0 .. Len(tasks)
    BY RowTypes DEF TaskIInv, Rows
  <1>2. q \in Client /\ q.task = t /\ q.pc = "write" /\ q.to = to
    BY <1>1 DEF Client
  <1>3. clients' = [clients EXCEPT ![c] = q] /\ ValidateTransition(tasks[t].status, to)
    BY DEF ReadStatus
  <1>4. /\ to = "complete" => tasks[t].status = "in_progress"
        /\ to = "verified" => tasks[t].status = "complete"
    BY <1>3 DEF ValidateTransition
  <1>5. /\ to = "complete" => tasks[t].started_at
        /\ to = "verified" => tasks[t].completed_at
    BY <1>4 DEF TaskIInv, StampsInv, StampsInOrder, Rows
  <1>6. faults' \in 0 .. MaxFaults
    BY DEF TaskIInv, TypeOK
  <1> HIDE DEF q
  <1> QED BY <1>1, <1>2, <1>3, <1>5, <1>6, RequestKeeps

LEMMA updateStatusKeeps ==
    ASSUME TaskIInv, NEW c \in Clients, NEW t \in Rows, NEW to \in Statuses, updateStatus(c, t, to)
    PROVE  TaskIInv'
  BY ReadKeeps DEF updateStatus

LEMMA StartNext ==
    ASSUME TaskIInv, NEW t \in Rows
    PROVE  LET q == [Idle EXCEPT !.pc = "start", !.task = t]
           IN  q \in Client /\ q.pc = "start" /\ q.task = t /\ t \in 0 .. Len(tasks)
  <1>1. t \in Nat /\ t \in 0 .. Len(tasks)
    BY RowTypes DEF TaskIInv, Rows
  <1> QED BY <1>1 DEF Idle, Client, Statuses

LEMMA taskClaimActionKeeps ==
    ASSUME TaskIInv, NEW c \in Clients, NEW t \in Rows, taskClaimAction(c, t)
    PROVE  TaskIInv'
  <1> DEFINE q == [Idle EXCEPT !.pc = "start", !.task = t]
  <1>1. UNCHANGED <<tasks, exceptions, feed, faults>>
    BY DEF taskClaimAction
  <1>2. CASE ReadStatus(c, t, "assigned", TRUE)
    BY <1>1, <1>2, ReadKeeps DEF Statuses
  <1>3. CASE clients' = [clients EXCEPT ![c] = q]
    <2>1. q \in Client /\ q.pc = "start" /\ q.task = t /\ t \in 0 .. Len(tasks)
      BY StartNext
    <2>2. faults' \in 0 .. MaxFaults
      BY <1>1 DEF TaskIInv, TypeOK
    <2> HIDE DEF q
    <2> QED BY <1>1, <1>3, <2>1, <2>2, RequestKeeps
  <1> QED BY <1>2, <1>3 DEF taskClaimAction

LEMMA StartTaskKeeps == ASSUME TaskIInv, NEW c \in Clients, StartTask(c) PROVE TaskIInv'
  <1>1. UNCHANGED <<tasks, exceptions, feed, faults>> /\ clients[c].pc = "start"
    BY DEF StartTask
  <1>2. clients[c].task \in Rows
    BY <1>1 DEF TaskIInv, ClaimInv
  <1>3. CASE ReadStatus(c, clients[c].task, "in_progress", TRUE)
    <2> DEFINE t == clients[c].task
    <2>1. t \in Rows /\ ReadStatus(c, t, "in_progress", TRUE)
      BY <1>2, <1>3
    <2> HIDE DEF t
    <2> QED BY <1>1, <2>1, ReadKeeps DEF Statuses
  <1>4. CASE clients' = [clients EXCEPT ![c] = Idle]
    <2>1. faults' \in 0 .. MaxFaults /\ 0 \in 0 .. Len(tasks)
      BY <1>1, RowTypes DEF TaskIInv, TypeOK
    <2> QED BY <1>1, <1>4, <2>1, IdleClient, RequestKeeps
  <1> QED BY <1>3, <1>4 DEF StartTask

(***************************************************************************)
(* A claim's commit takes the row that it holds, and no other claim holds. *)
(***************************************************************************)
LEMMA AssignKeeps == ASSUME TaskIInv, NEW c \in Clients, Assign(c) PROVE TaskIInv'
  <1> DEFINE t == clients[c].task
  <1>1. /\ clients[c].pc = "claim" /\ clients' = [clients EXCEPT ![c] = Idle]
        /\ exceptions' = exceptions /\ UNCHANGED feed
    BY DEF Assign
  <1>2. t \in Rows /\ tasks[t].status = "queued"
    BY <1>1 DEF TaskIInv, ClaimInv
  <1>3. TypeOK /\ TriggerInv /\ BoundsInv /\ StampsInv /\ ClaimInv /\ 0 \in 0 .. Len(tasks)
    BY RowTypes DEF TaskIInv
  <1>4. CASE tasks' = tasks /\ Fault
    <2>1. faults' \in 0 .. MaxFaults
      BY <1>3, <1>4, TasksAssumption DEF Fault, TypeOK
    <2> QED BY <1>1, <1>3, <1>4, <2>1, IdleClient, RequestKeeps
  <1>5. CASE GiveTo(t, c) /\ faults' = faults
    <2>1. /\ clients' \in [Clients -> Client] /\ clients'[c] = Idle
          /\ \A d \in Clients : d # c => clients'[d] = clients[d]
      BY <1>1, <1>3, IdleClient DEF TypeOK
    <2>2. \A d \in Clients : d # c /\ clients[d].pc = "claim" => clients[d].task # t
      BY <1>1, <1>3 DEF ClaimInv
    <2> HIDE DEF t
    <2>3. /\ tasks' \in Seq(Task) /\ Len(tasks') = Len(tasks) /\ Rows' = Rows
          /\ \A u \in Rows : u # t => tasks'[u] = tasks[u]
          /\ tasks'[t] = [tasks[t] EXCEPT !.status = "assigned", !.assignee = c]
      BY <1>2, <1>3, <1>5, RowAssigned
    <2>4. /\ tasks'[t].status = "assigned" /\ tasks'[t].by = tasks[t].by
          /\ tasks'[t].task_type = tasks[t].task_type /\ tasks'[t].reopened = tasks[t].reopened
          /\ tasks'[t].started_at = tasks[t].started_at
          /\ tasks'[t].completed_at = tasks[t].completed_at
          /\ tasks'[t].verified_at = tasks[t].verified_at
      <3>1. tasks[t] \in Task
        BY <1>2, <1>3, RowTypes
      <3> QED BY <2>3, <3>1 DEF Task
    <2>5. \A d \in Clients : clients'[d].task \in 0 .. Len(tasks')
      BY <1>3, <2>1, <2>3, IdleClient DEF TypeOK
    <2>6. TypeOK'
      BY <1>1, <1>3, <1>5, <2>1, <2>3, <2>5 DEF TypeOK, feed
    <2>7. StampsInv'
      <3>1. \A u \in Rows : /\ tasks'[u].started_at = tasks[u].started_at
                            /\ tasks'[u].completed_at = tasks[u].completed_at
                            /\ tasks'[u].verified_at = tasks[u].verified_at
                            /\ \/ tasks'[u].status = tasks[u].status
                               \/ tasks'[u].status = "assigned"
        BY <2>3, <2>4
      <3>2. \A d \in Clients : clients'[d].pc = "write" =>
                clients'[d] = clients[d] /\ clients[d].pc = "write" /\ clients[d].task \in Rows
        BY <1>3, <2>1, IdleClient DEF ClaimInv
      <3>3. StampsInOrder'
        BY <1>3, <2>3, <3>1 DEF StampsInv, StampsInOrder, Rows
      <3>4. \A u \in Rows : tasks'[u].status \in {"complete", "verified"} => tasks'[u].completed_at
        BY <1>3, <3>1 DEF StampsInv
      <3>5. \A d \in Clients : clients'[d].pc = "write" =>
               /\ clients'[d].to = "complete" => tasks'[clients'[d].task].started_at
               /\ clients'[d].to = "verified" => tasks'[clients'[d].task].completed_at
        BY <1>3, <3>1, <3>2 DEF StampsInv
      <3> QED BY <2>3, <3>3, <3>4, <3>5 DEF StampsInv
    <2>8. ClaimInv'
      <3>1. \A d \in Clients : clients'[d].pc \in {"write", "start", "claim"} =>
                d # c /\ clients'[d] = clients[d]
        BY <2>1, IdleClient
      <3> QED BY <1>3, <2>2, <2>3, <3>1 DEF ClaimInv
    <2>9. \A g \in Triggers : OpenOf(g)' = OpenOf(g)
      <3>1. \A u \in Rows : /\ tasks'[u].by = tasks[u].by /\ tasks'[u].reopened = tasks[u].reopened
                            /\ tasks'[u].status \in Open <=> tasks[u].status \in Open
        BY <1>2, <2>3, <2>4 DEF Open
      <3> QED BY <2>3, <3>1 DEF OpenOf
    <2>10. TriggerInv'
      <3>1. \A u \in Rows : /\ tasks'[u].by = tasks[u].by
                            /\ tasks'[u].task_type = tasks[u].task_type
        BY <2>3, <2>4
      <3> QED BY <1>1, <1>3, <2>3, <2>9, <3>1 DEF TriggerInv, At, feed
    <2>11. BoundsInv'
      BY <1>1, <1>3, FeedKept DEF feed
    <2> QED BY <2>6, <2>7, <2>8, <2>10, <2>11 DEF TaskIInv
  <1> QED BY <1>4, <1>5 DEF Assign, GiveTo

(***************************************************************************)
(* The write half of an update, whatever happened to the row since it was  *)
(* read: its stamps only grow, and a row that comes back is marked.        *)
(***************************************************************************)
LEMMA UpdateStatusKeeps == ASSUME TaskIInv, NEW c \in Clients, UpdateStatus(c) PROVE TaskIInv'
  <1> DEFINE t == clients[c].task
             to == clients[c].to
             q == IF clients[c].page THEN [Idle EXCEPT !.pc = "start", !.task = t] ELSE Idle
  <1>1. /\ clients[c].pc = "write" /\ t \notin Locked /\ SetStatus(t, to)
        /\ clients' = [clients EXCEPT ![c] = q]
        /\ exceptions' = exceptions /\ UNCHANGED feed /\ faults' = faults
    BY DEF UpdateStatus
  <1>2. TypeOK /\ TriggerInv /\ BoundsInv /\ StampsInv /\ ClaimInv /\ 0 \in 0 .. Len(tasks)
    BY RowTypes DEF TaskIInv
  <1>3. /\ t \in Rows /\ to \in Statuses
        /\ to = "complete" => tasks[t].started_at
        /\ to = "verified" => tasks[t].completed_at
    BY <1>1, <1>2 DEF ClaimInv, StampsInv, TypeOK, Client
  <1>4. q \in Client /\ q.pc \in {"idle", "start"} /\ q.task \in {0, t} /\ (q.pc = "start" => q.task = t)
    BY <1>3, StartNext, IdleClient
  <1>5. /\ clients' \in [Clients -> Client] /\ clients'[c] = q
        /\ \A d \in Clients : d # c => clients'[d] = clients[d]
    BY <1>1, <1>2, <1>4 DEF TypeOK
  <1>6. \A d \in Clients : clients[d].pc = "claim" => clients[d].task # t
    BY <1>1 DEF Locked
  <1> HIDE DEF t, to, q
  <1>7. /\ tasks' \in Seq(Task) /\ Len(tasks') = Len(tasks) /\ Rows' = Rows
        /\ \A u \in Rows : u # t => tasks'[u] = tasks[u]
        /\ \A u \in Rows : /\ tasks'[u].task_type = tasks[u].task_type
                           /\ tasks'[u].by = tasks[u].by
        /\ tasks'[t].status = to
        /\ tasks'[t].started_at = (tasks[t].started_at \/ to = "in_progress")
        /\ tasks'[t].completed_at = (tasks[t].completed_at \/ to = "complete")
        /\ tasks'[t].verified_at = (tasks[t].verified_at \/ to = "verified")
        /\ tasks'[t].reopened =
              (tasks[t].reopened \/ (tasks[t].status \notin Open /\ to \in Open))
    BY <1>1, <1>2, <1>3, StatusSet
  <1>8. TypeOK'
    <2>1. \A d \in Clients : clients'[d].task \in 0 .. Len(tasks')
      <3>1. \A d \in Clients : clients[d].task \in 0 .. Len(tasks)
        BY <1>2 DEF TypeOK
      <3>2. t \in 0 .. Len(tasks)
        BY <1>2, <1>3, RowTypes DEF Rows
      <3>3. q.task \in 0 .. Len(tasks)
        BY <1>2, <1>4, <3>2
      <3> QED BY <1>5, <1>7, <3>1, <3>3
    <2> QED BY <1>1, <1>2, <1>5, <1>7, <2>1 DEF TypeOK, feed
  <1>9. StampsInv'
    <2>1. tasks[t].status \in {"in_progress", "complete", "verified"} => tasks[t].started_at
      BY <1>2, <1>3 DEF StampsInv, StampsInOrder, Rows
    <2>2. /\ tasks[t].verified_at => tasks[t].completed_at
          /\ tasks[t].completed_at => tasks[t].started_at
      BY <1>2, <1>3 DEF StampsInv, StampsInOrder, Rows
    <2>3. /\ tasks'[t].verified_at => tasks'[t].completed_at
          /\ tasks'[t].completed_at => tasks'[t].started_at
          /\ tasks'[t].status \in {"in_progress", "complete", "verified"} => tasks'[t].started_at
          /\ tasks'[t].status \in {"complete", "verified"} => tasks'[t].completed_at
          /\ tasks[t].started_at => tasks'[t].started_at
          /\ tasks[t].completed_at => tasks'[t].completed_at
      BY <1>3, <1>7, <2>2
    <2>4. StampsInOrder'
      BY <1>2, <1>7, <2>3 DEF StampsInv, StampsInOrder, Rows
    <2>5. \A u \in Rows : tasks'[u].status \in {"complete", "verified"} => tasks'[u].completed_at
      BY <1>2, <1>7, <2>3 DEF StampsInv
    <2>6. \A d \in Clients : clients'[d].pc = "write" =>
              d # c /\ clients'[d] = clients[d] /\ clients[d].task \in Rows
      BY <1>2, <1>4, <1>5 DEF ClaimInv
    <2>7. \A d \in Clients : clients'[d].pc = "write" =>
             /\ clients'[d].to = "complete" => tasks'[clients'[d].task].started_at
             /\ clients'[d].to = "verified" => tasks'[clients'[d].task].completed_at
      BY <1>2, <1>7, <2>3, <2>6 DEF StampsInv
    <2> QED BY <1>7, <2>4, <2>5, <2>7 DEF StampsInv
  <1>10. ClaimInv'
    BY <1>2, <1>3, <1>4, <1>5, <1>6, <1>7 DEF ClaimInv
  <1>11. \A g \in Triggers : OpenOf(g)' \subseteq OpenOf(g)
    <2>1. \A u \in Rows : tasks'[u].status \in Open /\ ~tasks'[u].reopened =>
              tasks[u].status \in Open /\ ~tasks[u].reopened
      BY <1>7
    <2> QED BY <1>7, <2>1 DEF OpenOf
  <1>12. TriggerInv'
    BY <1>1, <1>2, <1>7, <1>11 DEF TriggerInv, At, feed
  <1>13. BoundsInv'
    BY <1>1, <1>2, FeedKept DEF feed
  <1> QED BY <1>8, <1>9, <1>10, <1>12, <1>13 DEF TaskIInv

LEMMA ObservationsKeep ==
    ASSUME TaskIInv,
           (\E t \in Rows : logException(t)) \/ (\E soh \in {0, -1} : emitReplenish(soh))
    PROVE  TaskIInv'
  <1>1. TypeOK /\ TriggerInv /\ BoundsInv
    BY DEF TaskIInv
  <1>2. /\ Spare /\ UNCHANGED <<tasks, clients, group, pending, triggers, faults>>
        /\ \/ exceptions' = exceptions + 1 /\ stream' = stream
           \/ exceptions' = exceptions /\ \E soh \in {0, -1} : stream' = Append(stream, soh)
    BY DEF logException, emitReplenish, work, feed
  <1>3. Len(stream) + 1 <= MaxWork /\ exceptions + 1 <= MaxWork
    BY <1>1, <1>2, SpareBounds
  <1>4. stream' \in Seq(Int) /\ Len(stream') \in Nat /\ Len(stream) <= Len(stream')
        /\ Len(stream') <= MaxWork
    <2>1. stream \in Seq(Int) /\ Len(stream) \in Nat /\ Len(stream) <= MaxWork
      BY <1>1 DEF TypeOK, BoundsInv
    <2>2. CASE stream' = stream
      BY <2>1, <2>2
    <2>3. ASSUME NEW soh \in {0, -1}, stream' = Append(stream, soh)
          PROVE  stream' \in Seq(Int) /\ Len(stream') = Len(stream) + 1
      <3>1. soh \in Int
        OBVIOUS
      <3> QED BY <2>1, <2>3, <3>1
    <2>4. CASE \E soh \in {0, -1} : stream' = Append(stream, soh)
      BY <1>3, <2>1, <2>3, <2>4
    <2> QED BY <1>2, <2>2, <2>4
  <1>5. exceptions' \in 0 .. MaxWork
    BY <1>1, <1>2, <1>3, TasksAssumption DEF TypeOK
  <1>6. group' \in -1 .. Len(stream') /\ pending' \subseteq 1 .. Len(stream')
    BY <1>1, <1>2, <1>4 DEF TypeOK
  <1>7. TypeOK'
    BY <1>1, <1>2, <1>4, <1>5, <1>6 DEF TypeOK
  <1>8. TriggerInv'
    BY <1>1, <1>2, TriggersKept DEF At
  <1>9. BoundsInv'
    BY <1>1, <1>2, <1>4 DEF BoundsInv, At
  <1> QED BY <1>2, <1>7, <1>8, <1>9, WorkKept DEF TaskIInv

-----------------------------------------------------------------------------
(***************************************************************************)
(* The steps of a trigger.  All but its insert change no row, and it comes *)
(* to its insert only after it found no open replenishment task.           *)
(***************************************************************************)
LEMMA TriggerMoved ==
    ASSUME TaskIInv, NEW g \in Triggers, NEW x \in Trigger, UNCHANGED <<work, stream>>,
           triggers' = [triggers EXCEPT ![g] = x],
           group' \in -1 .. Len(stream), pending' \subseteq 1 .. Len(stream),
           faults' \in 0 .. MaxFaults,
           x.pc = "create" => OpenOf(g) = {},
           x.pc # "stopped" => x.restarts <= MaxRestarts
    PROVE  TaskIInv'
  <1>1. TypeOK /\ TriggerInv /\ BoundsInv
    BY DEF TaskIInv
  <1>2. /\ triggers' \in [Triggers -> Trigger] /\ triggers'[g] = x
        /\ \A h \in Triggers : h # g => triggers'[h] = triggers[h]
    BY <1>1 DEF TypeOK
  <1>3. TypeOK'
    BY <1>1, <1>2 DEF TypeOK, work
  <1>4. TriggerInv'
    BY <1>1, <1>2, TriggersKept DEF At, work
  <1>5. BoundsInv'
    BY <1>1, <1>2 DEF BoundsInv, At
  <1> QED BY <1>3, <1>4, <1>5, WorkKept DEF TaskIInv, work

LEMMA GotoKeeps ==
    ASSUME TaskIInv, NEW g \in Triggers, UNCHANGED <<work, stream>>,
           NEW pc \in {"read", "exists", "create", "ack"}, Goto(g, pc), ~At(g, "stopped"),
           group' \in -1 .. Len(stream), pending' \subseteq 1 .. Len(stream),
           faults' \in 0 .. MaxFaults, pc = "create" => OpenOf(g) = {}
    PROVE  TaskIInv'
  <1> DEFINE x == [triggers[g] EXCEPT !.pc = pc]
  <1>1. triggers \in [Triggers -> Trigger] /\ triggers[g] \in Trigger
    BY DEF TaskIInv, TypeOK
  <1>2. x \in Trigger /\ x.pc = pc /\ x.restarts = triggers[g].restarts
    BY <1>1 DEF Trigger
  <1>3. triggers' = [triggers EXCEPT ![g] = x]
    BY <1>1 DEF Goto
  <1>4. triggers[g].restarts <= MaxRestarts
    BY DEF TaskIInv, BoundsInv
  <1> HIDE DEF x
  <1> QED BY <1>2, <1>3, <1>4, TriggerMoved

LEMMA AwaitKeeps ==
    ASSUME TaskIInv, NEW g \in Triggers, UNCHANGED <<work, stream, group>>, Await(g),
           ~At(g, "stopped"), pending' \subseteq pending, faults' \in 0 .. MaxFaults
    PROVE  TaskIInv'
  <1> DEFINE x == [[triggers[g] EXCEPT !.pc = "read"] EXCEPT !.msg = 0]
  <1>1. triggers \in [Triggers -> Trigger] /\ triggers[g] \in Trigger
        /\ group \in -1 .. Len(stream) /\ pending \subseteq 1 .. Len(stream)
    BY DEF TaskIInv, TypeOK
  <1>2. x \in Trigger /\ x.pc = "read" /\ x.restarts = triggers[g].restarts
    <2>1. 0 \in 0 .. MaxWork
      BY TasksAssumption
    <2> QED BY <1>1, <2>1 DEF Trigger
  <1>3. triggers' = [triggers EXCEPT ![g] = x]
    BY <1>1 DEF Await
  <1>4. triggers[g].restarts <= MaxRestarts
    BY DEF TaskIInv, BoundsInv
  <1> HIDE DEF x
  <1> QED BY <1>1, <1>2, <1>3, <1>4, TriggerMoved

LEMMA FaultCounted == ASSUME TaskIInv, Fault \/ UNCHANGED faults PROVE faults' \in 0 .. MaxFaults
  BY TasksAssumption DEF TaskIInv, TypeOK, Fault

LEMMA GroupPlaces ==
    ASSUME TaskIInv
    PROVE  /\ Len(stream) \in Nat /\ Len(stream) \in -1 .. Len(stream) /\ Len(stream) <= MaxWork
           /\ group \in -1 .. Len(stream) /\ pending \subseteq 1 .. Len(stream)
  BY DEF TaskIInv, TypeOK, BoundsInv

LEMMA EnsureGroupKeeps ==
    ASSUME TaskIInv, NEW g \in Triggers,
           EnsureGroup(g) \/ EnsureGroupFails(g) \/ WindowEnds(g)
    PROVE  TaskIInv'
  <1>1. /\ triggers \in [Triggers -> Trigger] /\ triggers[g] \in Trigger
        /\ triggers[g].restarts \in 0 .. (MaxRestarts + 1) /\ MaxRestarts \in Nat
    <2>1. triggers \in [Triggers -> Trigger] /\ triggers[g] \in Trigger
      BY DEF TaskIInv, TypeOK
    <2> QED BY <2>1, TasksAssumption DEF Trigger
  <1>2. At(g, "ensure") /\ ~At(g, "stopped") /\ triggers[g].restarts <= MaxRestarts
    BY DEF EnsureGroup, EnsureGroupFails, WindowEnds, At, TaskIInv, BoundsInv
  <1>3. CASE EnsureGroup(g)
    <2>1. group' \in -1 .. Len(stream)
      BY <1>3, GroupPlaces DEF EnsureGroup
    <2> QED BY <1>2, <1>3, <2>1, GroupPlaces, FaultCounted, GotoKeeps DEF EnsureGroup
  <1>4. CASE EnsureGroupFails(g)
    <2> DEFINE again == IF triggers[g].restarts >= MaxRestarts THEN "stopped" ELSE "ensure"
               x == [[triggers[g] EXCEPT !.restarts = triggers[g].restarts + 1] EXCEPT !.pc = again]
    <2>1. triggers[g].restarts + 1 \in 0 .. (MaxRestarts + 1)
      BY <1>1, <1>2
    <2>2. /\ x \in Trigger /\ x.pc = again /\ x.restarts = triggers[g].restarts + 1
      BY <1>1, <2>1 DEF Trigger
    <2>3. triggers' = [triggers EXCEPT ![g] = x]
      BY <1>1, <1>4 DEF EnsureGroupFails
    <2>4. again # "create" /\ (again # "stopped" => triggers[g].restarts + 1 <= MaxRestarts)
      BY <1>1
    <2> HIDE DEF x, again
    <2> QED BY <1>4, <2>2, <2>3, <2>4, GroupPlaces, FaultCounted, TriggerMoved DEF EnsureGroupFails
  <1>5. CASE WindowEnds(g)
    <2> DEFINE x == [triggers[g] EXCEPT !.restarts = 0]
    <2>1. x \in Trigger /\ x.pc = "ensure" /\ x.restarts = 0
      BY <1>1, <1>2 DEF Trigger, At
    <2>2. triggers' = [triggers EXCEPT ![g] = x] /\ 0 <= MaxRestarts
      BY <1>1, <1>5 DEF WindowEnds
    <2> HIDE DEF x
    <2> QED BY <1>5, <2>1, <2>2, GroupPlaces, FaultCounted, TriggerMoved DEF WindowEnds
  <1> QED BY <1>3, <1>4, <1>5

LEMMA processBatchKeeps == ASSUME TaskIInv, NEW g \in Triggers, processBatch(g) PROVE TaskIInv'
  <1> DEFINE x == [[triggers[g] EXCEPT !.pc = "threshold"] EXCEPT !.msg = group']
  <1>1. triggers \in [Triggers -> Trigger] /\ triggers[g] \in Trigger
    BY DEF TaskIInv, TypeOK
  <1>2. group' \in 1 .. Len(stream) /\ group' \in 0 .. MaxWork /\ group' \in -1 .. Len(stream)
    BY GroupPlaces, TasksAssumption DEF processBatch
  <1>3. x \in Trigger /\ x.pc = "threshold" /\ x.restarts = triggers[g].restarts
    BY <1>1, <1>2 DEF Trigger
  <1>4. triggers' = [triggers EXCEPT ![g] = x]
    BY <1>1 DEF processBatch
  <1>5. triggers[g].restarts <= MaxRestarts
    BY DEF TaskIInv, BoundsInv, processBatch, At
  <1>6. pending' \subseteq 1 .. Len(stream)
    BY <1>2, GroupPlaces DEF processBatch
  <1>7. UNCHANGED <<work, stream, faults>>
    BY DEF processBatch
  <1> HIDE DEF x
  <1> QED BY <1>2, <1>3, <1>4, <1>5, <1>6, <1>7, FaultCounted, TriggerMoved

LEMMA CheckExistsKeeps == ASSUME TaskIInv, NEW g \in Triggers, CheckExists(g) PROVE TaskIInv'
  <1>1. ~OpenReplenishmentExists => OpenOf(g) = {}
    BY TasksAssumption DEF TaskIInv, TriggerInv, OpenOf, OpenReplenishmentExists, Rows
  <1>2. UNCHANGED <<work, stream, group, pending, faults>> /\ ~At(g, "stopped")
    BY DEF CheckExists, At
  <1>3. Goto(g, "ack") \/ (Goto(g, "create") /\ OpenOf(g) = {})
    BY <1>1 DEF CheckExists
  <1> QED BY <1>2, <1>3, GroupPlaces, FaultCounted, GotoKeeps

LEMMA CreateReplenishmentKeeps ==
    ASSUME TaskIInv, NEW g \in Triggers, CreateReplenishment(g) PROVE TaskIInv'
  <1> DEFINE x == [triggers[g] EXCEPT !.pc = "ack"]
  <1>1. TypeOK /\ TriggerInv /\ BoundsInv /\ triggers \in [Triggers -> Trigger] /\ triggers[g] \in Trigger
    BY DEF TaskIInv, TypeOK
  <1>2. /\ Create("replenishment", 2, g) /\ OpenOf(g) = {} /\ ~At(g, "stopped")
        /\ UNCHANGED <<exceptions, clients, stream, group, pending, faults>>
    BY <1>1 DEF CreateReplenishment, TriggerInv, At
  <1>3. x \in Trigger /\ x.pc = "ack" /\ x.restarts = triggers[g].restarts
    BY <1>1 DEF Trigger
  <1>4. triggers' = [triggers EXCEPT ![g] = x]
    BY <1>1 DEF CreateReplenishment, Goto
  <1> HIDE DEF x
  <1>5. /\ triggers' \in [Triggers -> Trigger] /\ triggers'[g] = x
        /\ \A h \in Triggers : h # g => triggers'[h] = triggers[h]
    BY <1>1, <1>3, <1>4
  <1>6. /\ tasks' \in Seq(Task)
        /\ \A d \in Clients : clients'[d].task \in 0 .. Len(tasks')
        /\ StampsInv' /\ ClaimInv'
        /\ \A h \in Triggers : h # g => OpenOf(h)' = OpenOf(h)
        /\ OpenOf(g)' = OpenOf(g) \union {Len(tasks')}
    <2>1. "replenishment" \in {"replenishment", "audit"} /\ 2 \in 1 .. 5
          /\ g \in Triggers \union {NONE}
      OBVIOUS
    <2> QED BY <1>2, <2>1, RowAdded
  <1>7. TypeOK'
    BY <1>1, <1>2, <1>5, <1>6 DEF TypeOK
  <1>8. TriggerInv'
    <2> DEFINE row == [task_type |-> "replenishment", priority |-> 2, status |-> "queued",
                       assignee |-> NONE, started_at |-> FALSE, completed_at |-> FALSE,
                       verified_at |-> FALSE, by |-> g, reopened |-> FALSE]
    <2>1. /\ Rows' = Rows \union {Len(tasks')} /\ \A t \in Rows : tasks'[t] = tasks[t]
          /\ tasks'[Len(tasks')] = row
      <3>1. "replenishment" \in {"replenishment", "audit"} /\ 2 \in 1 .. 5
            /\ g \in Triggers \union {NONE}
        OBVIOUS
      <3> QED BY <1>1, <1>2, <3>1, Created
    <2>2. row.task_type = "replenishment"
      OBVIOUS
    <2> HIDE DEF row
    <2>3. \A t \in Rows' : tasks'[t].by # NONE => tasks'[t].task_type = "replenishment"
      BY <1>1, <2>1, <2>2 DEF TriggerInv
    <2>4. \A h \in Triggers : \A t, u \in OpenOf(h)' : t = u
      BY <1>1, <1>2, <1>6 DEF TriggerInv
    <2>5. \A h \in Triggers : At(h, "create")' => OpenOf(h)' = {}
      BY <1>1, <1>3, <1>5, <1>6 DEF TriggerInv, At
    <2> QED BY <2>3, <2>4, <2>5 DEF TriggerInv
  <1>9. BoundsInv'
    BY <1>1, <1>2, <1>3, <1>5 DEF BoundsInv, At
  <1> QED BY <1>6, <1>7, <1>8, <1>9 DEF TaskIInv

LEMMA HandleKeeps ==
    ASSUME TaskIInv, NEW g \in Triggers, loadThreshold(g) \/ ack(g) \/ HandleFails(g)
    PROVE  TaskIInv'
  <1>1. UNCHANGED <<work, stream, group>> /\ ~At(g, "stopped")
    BY DEF loadThreshold, ack, HandleFails, At
  <1>2. faults' \in 0 .. MaxFaults
    BY FaultCounted DEF loadThreshold, ack, HandleFails
  <1>3. CASE loadThreshold(g)
    <2>1. (Goto(g, "exists") \/ Goto(g, "ack")) /\ pending' = pending
      BY <1>3 DEF loadThreshold
    <2> QED BY <1>1, <1>2, <2>1, GroupPlaces, GotoKeeps
  <1>4. CASE ack(g) \/ HandleFails(g)
    <2>1. Await(g) /\ pending' \subseteq pending
      BY <1>4 DEF ack, HandleFails
    <2> QED BY <1>1, <1>2, <2>1, AwaitKeeps
  <1> QED BY <1>3, <1>4

LEMMA CrashKeeps == ASSUME TaskIInv, NEW g \in Triggers, Crash(g) PROVE TaskIInv'
  <1>1. Booting \in Trigger /\ Booting.pc = "ensure" /\ Booting.restarts <= MaxRestarts
    BY TasksAssumption DEF Booting, Trigger
  <1>2. faults' \in 0 .. MaxFaults
    BY FaultCounted DEF Crash
  <1>3. UNCHANGED <<work, stream, group, pending>> /\ triggers' = [triggers EXCEPT ![g] = Booting]
    BY DEF Crash
  <1> QED BY <1>1, <1>2, <1>3, GroupPlaces, TriggerMoved

-----------------------------------------------------------------------------
LEMMA TaskInit == Init => TaskIInv
  <1> SUFFICES ASSUME Init PROVE TaskIInv
    OBVIOUS
  <1> DEFINE away == [Idle EXCEPT !.pc = "away"]
             stopped == [Booting EXCEPT !.pc = "stopped"]
  <1>1. /\ Idle \in Client /\ Idle.task = 0 /\ Idle.pc = "idle"
        /\ away \in Client /\ away.task = 0 /\ away.pc = "away"
    BY DEF Idle, Client, Statuses
  <1>2. /\ Booting \in Trigger /\ Booting.pc = "ensure" /\ Booting.restarts = 0
        /\ stopped \in Trigger /\ stopped.pc = "stopped" /\ stopped.restarts = 0
    BY TasksAssumption DEF Booting, Trigger
  <1>3. clients \in [Clients -> {Idle, away}] /\ triggers \in [Triggers -> {Booting, stopped}]
    BY DEF Init
  <1> HIDE DEF away, stopped
  <1>4. /\ clients \in [Clients -> Client]
        /\ \A c \in Clients : clients[c].task = 0 /\ clients[c].pc \in {"idle", "away"}
    BY <1>1, <1>3
  <1>5. /\ triggers \in [Triggers -> Trigger]
        /\ \A g \in Triggers : triggers[g].pc \in {"ensure", "stopped"} /\ triggers[g].restarts = 0
    BY <1>2, <1>3
  <1>6. /\ tasks = << >> /\ exceptions = 0 /\ stream = << >> /\ group = -1 /\ pending = {}
        /\ faults = 0 /\ Rows = {}
    BY DEF Init, Rows
  <1>7. TypeOK
    BY <1>4, <1>5, <1>6, TasksAssumption DEF TypeOK
  <1>8. StampsInv
    BY <1>4, <1>6 DEF StampsInv, StampsInOrder, Rows
  <1>9. ClaimInv
    BY <1>4 DEF ClaimInv
  <1>10. TriggerInv
    BY <1>5, <1>6 DEF TriggerInv, OpenOf, At
  <1>11. BoundsInv
    BY <1>5, <1>6, TasksAssumption DEF BoundsInv, At
  <1> QED BY <1>7, <1>8, <1>9, <1>10, <1>11 DEF TaskIInv

LEMMA TaskStep == TaskIInv /\ [Next]_vars => TaskIInv'
  <1> SUFFICES ASSUME TaskIInv, [Next]_vars PROVE TaskIInv'
    OBVIOUS
  <1>1. CASE UNCHANGED vars
    <2>1. tasks' = tasks /\ clients' = clients /\ stream' = stream /\ triggers' = triggers
      BY <1>1 DEF vars
    <2>2. TypeOK'
      BY <1>1 DEF vars, TaskIInv, TypeOK
    <2> QED BY <2>1, <2>2, WorkKept, TriggersKept, FeedKept DEF TaskIInv, At
  <1>2. ASSUME NEW c \in Clients, getNext(c) \/ Assign(c) \/ UpdateStatus(c) \/ StartTask(c)
        PROVE  TaskIInv'
    BY <1>2, getNextKeeps, AssignKeeps, UpdateStatusKeeps, StartTaskKeeps
  <1>3. ASSUME NEW c \in Clients, NEW t \in Rows,
               \/ \E to \in Statuses \ {"skipped", "complete"} : updateStatus(c, t, to)
               \/ taskCompleteAction(c, t) \/ skip(c, t) \/ taskClaimAction(c, t)
        PROVE  TaskIInv'
    <2>1. (\E to \in Statuses : updateStatus(c, t, to)) \/ taskClaimAction(c, t)
      BY <1>3 DEF taskCompleteAction, skip, Statuses
    <2> QED BY <2>1, updateStatusKeeps, taskClaimActionKeeps
  <1>4. ASSUME NEW g \in Triggers,
               \/ EnsureGroup(g) \/ EnsureGroupFails(g) \/ WindowEnds(g)
               \/ processBatch(g) \/ handle(g) \/ HandleFails(g) \/ Crash(g)
        PROVE  TaskIInv'
    BY <1>4, EnsureGroupKeeps, processBatchKeeps, CheckExistsKeeps, CreateReplenishmentKeeps,
       HandleKeeps, CrashKeeps DEF handle
  <1>5. CASE createTask("replenishment", 0) \/ createTask("audit", 1)
    BY <1>5, createTaskKeeps
  <1> QED BY <1>1, <1>2, <1>3, <1>4, <1>5, ObservationsKeep DEF Next, Rows

(***************************************************************************)
(* Types, and a trigger never has two open tasks of its own that nobody    *)
(* opened again, whatever other triggers and callers do meanwhile          *)
(* (OpenReplenishmentExists before CreateReplenishment).                   *)
(***************************************************************************)
THEOREM TasksSound == Spec => []TaskInv
  <1>1. TaskIInv => TaskInv
    <2> SUFFICES ASSUME TaskIInv PROVE TaskInv
      OBVIOUS
    <2>1. ASSUME NEW g \in Triggers PROVE Cardinality(OpenOf(g)) <= 1
      <3>1. \A t, u \in OpenOf(g) : t = u
        BY DEF TaskIInv, TriggerInv
      <3>2. CASE OpenOf(g) = {}
        BY <3>2, FS_EmptySet
      <3>3. ASSUME NEW t \in OpenOf(g) PROVE Cardinality(OpenOf(g)) = 1
        <4>1. OpenOf(g) = {t}
          BY <3>1
        <4>2. Cardinality({t}) = 1
          BY FS_Singleton
        <4> QED BY <4>1, <4>2
      <3>4. Cardinality(OpenOf(g)) \in {0, 1}
        BY <3>2, <3>3, FS_EmptySet
      <3> QED BY <3>4
    <2> QED BY <2>1 DEF TaskIInv, TaskInv, OneOpenPerTrigger, OpenOf, Rows
  <1> QED BY <1>1, TaskInit, TaskStep, PTL DEF Spec

(***************************************************************************)
(* However updates overtake each other, the stamps of a task are those of  *)
(* a task that was started, completed and verified in that order.          *)
(***************************************************************************)
THEOREM StampsOrdered == Spec => []StampsInOrder
  <1>1. TaskIInv => StampsInOrder
    BY DEF TaskIInv, StampsInv
  <1> QED BY <1>1, TaskInit, TaskStep, PTL DEF Spec

(***************************************************************************)
(* A task changes hands only while it is queued: the row lock of GetNext   *)
(* keeps a late update and a second claim away.                            *)
(***************************************************************************)
THEOREM OnlyFromQueue == Spec => TakenOnlyFromQueue
  <1> DEFINE Taken == \A t \in 1 .. Len(tasks) :
                tasks'[t].assignee # tasks[t].assignee => tasks[t].status = "queued"
  <1>1. TaskIInv /\ [Next]_vars => [Taken]_vars
    <2> SUFFICES ASSUME TaskIInv, [Next]_vars PROVE Taken \/ UNCHANGED vars
      OBVIOUS
    <2>1. TypeOK
      BY DEF TaskIInv
    <2>2. ASSUME tasks' = tasks PROVE Taken
      BY <2>2
    <2>3. ASSUME NEW type \in {"replenishment", "audit"}, NEW priority \in 1 .. 5,
                 NEW by \in Triggers \union {NONE}, Create(type, priority, by)
          PROVE  Taken
      BY <2>1, <2>3, Created DEF Rows
    <2>4. ASSUME NEW c \in Clients, Assign(c) PROVE Taken
      <3> DEFINE t == clients[c].task
      <3>1. t \in Rows /\ tasks[t].status = "queued" /\ (GiveTo(t, c) \/ tasks' = tasks)
        BY <2>4 DEF Assign, GiveTo, TaskIInv, ClaimInv
      <3> HIDE DEF t
      <3>2. CASE GiveTo(t, c)
        <4>1. \A u \in Rows : u # t => tasks'[u] = tasks[u]
          BY <2>1, <3>1, <3>2, RowAssigned
        <4> QED BY <3>1, <4>1 DEF Rows
      <3> QED BY <2>2, <3>1, <3>2
    <2>5. ASSUME NEW c \in Clients, UpdateStatus(c) PROVE Taken
      <3> DEFINE t == clients[c].task
                 to == clients[c].to
      <3>1. t \in Rows /\ to \in Statuses /\ SetStatus(t, to)
        BY <2>5 DEF UpdateStatus, TaskIInv, ClaimInv, TypeOK, Client
      <3> HIDE DEF t, to
      <3>2. \A u \in Rows : tasks'[u].assignee = tasks[u].assignee
        BY <2>1, <3>1, StatusSet
      <3> QED BY <3>2 DEF Rows
    <2>6. CASE createTask("replenishment", 0) \/ createTask("audit", 1)
      <3>1. Create("replenishment", 3, NONE) \/ Create("audit", 1, NONE)
        BY <2>6 DEF createTask, ValidateCreate
      <3>2. "replenishment" \in {"replenishment", "audit"} /\ "audit" \in {"replenishment", "audit"}
            /\ 3 \in 1 .. 5 /\ 1 \in 1 .. 5 /\ NONE \in Triggers \union {NONE}
        OBVIOUS
      <3> QED BY <2>3, <3>1, <3>2
    <2>7. ASSUME NEW g \in Triggers, CreateReplenishment(g) PROVE Taken
      <3>1. Create("replenishment", 2, g) /\ 2 \in 1 .. 5 /\ g \in Triggers \union {NONE}
            /\ "replenishment" \in {"replenishment", "audit"}
        BY <2>7 DEF CreateReplenishment
      <3> QED BY <2>3, <3>1
    <2>8. ASSUME NEW g \in Triggers,
                 \/ EnsureGroup(g) \/ EnsureGroupFails(g) \/ WindowEnds(g) \/ processBatch(g)
                 \/ loadThreshold(g) \/ CheckExists(g) \/ ack(g) \/ HandleFails(g) \/ Crash(g)
          PROVE  Taken
      <3>1. tasks' = tasks
        BY <2>8 DEF EnsureGroup, EnsureGroupFails, WindowEnds, processBatch, loadThreshold,
           CheckExists, ack, HandleFails, Crash, work
      <3> QED BY <2>2, <3>1
    <2>9. ASSUME NEW c \in Clients, getNext(c) \/ StartTask(c) PROVE Taken
      <3>1. tasks' = tasks
        BY <2>9 DEF getNext, StartTask
      <3> QED BY <2>2, <3>1
    <2>10. ASSUME NEW c \in Clients, NEW t \in 1 .. Len(tasks),
                  \/ \E to \in Statuses \ {"skipped", "complete"} : updateStatus(c, t, to)
                  \/ taskCompleteAction(c, t) \/ skip(c, t) \/ taskClaimAction(c, t)
           PROVE  Taken
      <3>1. tasks' = tasks
        BY <2>10 DEF updateStatus, taskCompleteAction, skip, taskClaimAction
      <3> QED BY <2>2, <3>1
    <2>11. CASE (\E t \in 1 .. Len(tasks) : logException(t)) \/ (\E soh \in {0, -1} : emitReplenish(soh))
      <3>1. tasks' = tasks
        BY <2>11 DEF logException, emitReplenish, work
      <3> QED BY <2>2, <3>1
    <2> HIDE DEF Taken
    <2> QED BY <2>4, <2>5, <2>6, <2>7, <2>8, <2>9, <2>10, <2>11 DEF Next, handle
  <1> QED BY <1>1, TaskInit, TaskStep, PTL DEF Spec, TakenOnlyFromQueue
=============================================================================
