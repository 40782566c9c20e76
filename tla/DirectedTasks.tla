---------------------------- MODULE DirectedTasks ----------------------------
(***************************************************************************)
(* Directed work in a store: internal/task (the task table and its API),   *)
(* the task pages of internal/web, and internal/replenishment, whose       *)
(* triggers turn the signals of the stream inventory:replenish into tasks, *)
(* for one tenant, one item and one location.                              *)
(*                                                                         *)
(* Every statement runs in a transaction of its own, except the claim of   *)
(* GetNext, whose row lock is held from its SELECT to its commit.          *)
(***************************************************************************)
EXTENDS Integers, Sequences, FiniteSets

CONSTANTS
    Clients,      \* concurrent callers: employees and the operators' pages
    Triggers,     \* the processes that run a replenishment trigger
    DisplayMin,   \* display_min of the item's inventory_thresholds row
    MaxWork,      \* bound: tasks and exceptions made through the API, and signals
    MaxCrowd,     \* bound: the same and the clients that are there, together
    MaxLoad,      \* bound: the same and the triggers that run, together
    MaxRestarts,  \* maxRestarts of cmd/bull, 5 in the code
    MaxFaults     \* bound: failed calls and crashes

NONE == "none"

ASSUME TasksAssumption ==
    /\ DisplayMin \in Int
    /\ {MaxWork, MaxCrowd, MaxLoad, MaxRestarts, MaxFaults} \subseteq Nat
    /\ NONE \notin Triggers

VARIABLES
    tasks,      \* app.directed_tasks, in the order of created_at
    exceptions, \* the number of rows of app.task_exceptions
    clients,    \* client -> its request in flight
    stream,     \* the on-hand quantities emitted to inventory:replenish
    group,      \* the group's last delivered entry; -1 before it exists
    pending,    \* entries that were delivered and not acked
    triggers,   \* trigger -> where it is
    faults      \* calls that failed and processes that crashed

vars == <<tasks, exceptions, clients, stream, group, pending, triggers, faults>>
work == <<tasks, exceptions, clients>>
feed == <<stream, group, pending, triggers>>

Statuses == {"queued", "assigned", "in_progress", "complete", "verified",
             "skipped", "cancelled"}
Open     == {"queued", "assigned", "in_progress"}

\* The timestamps are kept as "is it set".  by is the trigger that created
\* the task; reopened is a history flag: the task left Open and came back.
Task == [task_type : {"replenishment", "audit"}, priority : 1..5, status : Statuses,
         assignee : Clients \union {NONE}, started_at : BOOLEAN, completed_at : BOOLEAN,
         verified_at : BOOLEAN, by : Triggers \union {NONE}, reopened : BOOLEAN]

Client  == [pc : {"away", "idle", "write", "start", "claim"}, task : Nat, to : Statuses,
            page : BOOLEAN]
Trigger == [pc : {"ensure", "read", "threshold", "exists", "create", "ack", "stopped"},
            msg : 0..MaxWork, restarts : 0..(MaxRestarts + 1)]

Idle == [pc |-> "idle", task |-> 0, to |-> "queued", page |-> FALSE]
Booting == [pc |-> "ensure", msg |-> 0, restarts |-> 0]

TypeOK ==
    /\ tasks \in Seq(Task)
    /\ exceptions \in 0..MaxWork
    /\ clients \in [Clients -> Client]
    /\ \A c \in Clients : clients[c].task \in 0..Len(tasks)
    /\ stream \in Seq(Int)
    /\ group \in -1..Len(stream)
    /\ pending \subseteq 1..Len(stream)
    /\ triggers \in [Triggers -> Trigger]
    /\ faults \in 0..MaxFaults

Init ==
    /\ tasks = << >> /\ exceptions = 0
    /\ stream = << >> /\ group = -1 /\ pending = {}
    /\ clients \in [Clients -> {Idle, [Idle EXCEPT !.pc = "away"]}]
    /\ triggers \in [Triggers -> {Booting, [Booting EXCEPT !.pc = "stopped"]}]
    /\ faults = 0

At(g, pc) == triggers[g].pc = pc

Fault == faults < MaxFaults /\ faults' = faults + 1

-----------------------------------------------------------------------------
(* internal/task: the store.                                               *)

\* Mutant of ValidateTransition: an assigned task may be completed at once.
ValidateTransitionSkips(from, to) ==
    \/ from = "queued"      /\ to \in {"assigned", "skipped", "cancelled"}
    \/ from = "assigned"    /\ to \in Statuses \ {"verified"}
    \/ from = "in_progress" /\ to \in {"complete", "skipped", "cancelled"}
    \/ from = "complete"    /\ to \in {"verified", "cancelled"}

\* The statuses that a task may be moved to from each status.
ValidateTransition(from, to) ==
    \/ from = "queued"      /\ to \in {"assigned", "skipped", "cancelled"}
    \/ from = "assigned"    /\ to \in {"in_progress", "queued", "skipped", "cancelled"}
    \/ from = "in_progress" /\ to \in {"complete", "skipped", "cancelled"}
    \/ from = "complete"    /\ to \in {"verified", "cancelled"}

\* The priority 0 of an absent field becomes 3.
ValidateCreate(priority) == IF priority = 0 THEN 3 ELSE priority

\* Store.Create.
Create(type, priority, by) ==
    tasks' = Append(tasks,
        [task_type |-> type, priority |-> priority, status |-> "queued", assignee |-> NONE,
         started_at |-> FALSE, completed_at |-> FALSE, verified_at |-> FALSE,
         by |-> by, reopened |-> FALSE])

\* Mutant of Locked: the SELECT has no FOR UPDATE.
LockedNone == {}

\* Rows that a claim holds: its FOR UPDATE lock.
Locked == {clients[c].task : c \in {d \in Clients : clients[d].pc = "claim"}}

\* The row that GetNext's SELECT returns: queued, not locked, first by
\* priority and then by age.
Best(t) ==
    LET free == {u \in 1..Len(tasks) : tasks[u].status = "queued" /\ u \notin Locked}
    IN t \in free /\ \A u \in free : \/ tasks[t].priority < tasks[u].priority
                                     \/ tasks[t].priority = tasks[u].priority /\ t <= u

\* UPDATE ... SET status: the current status is not looked at, and the
\* assignee is never touched.
SetStatus(t, to) ==
    tasks' = [tasks EXCEPT
        ![t].status       = to,
        ![t].started_at   = @ \/ to = "in_progress",
        ![t].completed_at = @ \/ to = "complete",
        ![t].verified_at  = @ \/ to = "verified",
        ![t].reopened     = @ \/ (tasks[t].status \notin Open /\ to \in Open)]

\* Mutant of OpenReplenishmentExists: a task that someone works on is not seen.
OpenReplenishmentUnclaimed ==
    \E t \in 1..Len(tasks) : tasks[t].task_type = "replenishment" /\ tasks[t].status = "queued"

\* The trigger's deduplication query.
OpenReplenishmentExists ==
    \E t \in 1..Len(tasks) : tasks[t].task_type = "replenishment" /\ tasks[t].status \in Open

-----------------------------------------------------------------------------
(* The API's handlers and the operators' pages.                            *)

Spare ==
    LET load == Len(stream) + exceptions
                + Cardinality({t \in 1..Len(tasks) : tasks[t].by = NONE})
        here == Cardinality({c \in Clients : clients[c].pc # "away"})
        running == Cardinality({g \in Triggers : ~At(g, "stopped")})
    IN load < MaxWork /\ load + here < MaxCrowd /\ load + here + running < MaxLoad

\* POST /v1/tasks.
createTask(type, priority) ==
    /\ Spare
    /\ Create(type, ValidateCreate(priority), NONE)
    /\ UNCHANGED <<exceptions, clients, feed, faults>>

\* GET /v1/tasks/next: the SELECT ... FOR UPDATE SKIP LOCKED.
getNext(c) ==
    /\ clients[c].pc = "idle"
    /\ \E t \in 1..Len(tasks) :
          Best(t) /\ clients' = [clients EXCEPT ![c] = [Idle EXCEPT !.pc = "claim", !.task = t]]
    /\ UNCHANGED <<tasks, exceptions, feed, faults>>

\* The UPDATE of the same transaction and its commit, or its rollback.
Assign(c) ==
    LET t == clients[c].task IN
    /\ clients[c].pc = "claim"
    /\ clients' = [clients EXCEPT ![c] = Idle]
    /\ \/ /\ tasks' = [tasks EXCEPT ![t].status = "assigned", ![t].assignee = c]
          /\ UNCHANGED faults
       \/ Fault /\ UNCHANGED tasks
    /\ UNCHANGED <<exceptions, feed>>

\* The read half of Store.UpdateStatus: GetByID and ValidateTransition.
ReadStatus(c, t, to, page) ==
    /\ ValidateTransition(tasks[t].status, to)
    /\ clients' = [clients EXCEPT ![c] = [pc |-> "write", task |-> t, to |-> to, page |-> page]]

\* Its UPDATE, some time later; it waits for a claim's lock.
UpdateStatus(c) ==
    LET t == clients[c].task IN
    /\ clients[c].pc = "write"
    /\ t \notin Locked
    /\ SetStatus(t, clients[c].to)
    /\ clients' = [clients EXCEPT ![c] =
                     IF clients[c].page
                     THEN [Idle EXCEPT !.pc = "start", !.task = t] ELSE Idle]
    /\ UNCHANGED <<exceptions, feed, faults>>

\* PATCH /v1/tasks/{id}/status, and the complete button.
updateStatus(c, t, to) ==
    /\ clients[c].pc = "idle"
    /\ ReadStatus(c, t, to, FALSE)
    /\ UNCHANGED <<tasks, exceptions, feed, faults>>

taskCompleteAction(c, t) == updateStatus(c, t, "complete")

\* POST /v1/tasks/{id}/skip: the same two halves, to "skipped".
skip(c, t) == updateStatus(c, t, "skipped")

\* The claim button: to assigned, an illegal transition being ignored, and
\* then to in_progress.
taskClaimAction(c, t) ==
    /\ clients[c].pc = "idle"
    /\ \/ ReadStatus(c, t, "assigned", TRUE)
       \/ /\ ~ValidateTransition(tasks[t].status, "assigned")
          /\ clients' = [clients EXCEPT ![c] = [Idle EXCEPT !.pc = "start", !.task = t]]
    /\ UNCHANGED <<tasks, exceptions, feed, faults>>

StartTask(c) ==
    LET t == clients[c].task IN
    /\ clients[c].pc = "start"
    /\ \/ ReadStatus(c, t, "in_progress", TRUE)
       \/ /\ ~ValidateTransition(tasks[t].status, "in_progress")
          /\ clients' = [clients EXCEPT ![c] = Idle]
    /\ UNCHANGED <<tasks, exceptions, feed, faults>>

\* POST /v1/tasks/{id}/exception and the page's form: an observation, which
\* leaves the task as it is.
logException(t) ==
    /\ Spare
    /\ exceptions' = exceptions + 1
    /\ UNCHANGED <<tasks, clients, feed, faults>>

-----------------------------------------------------------------------------
(* internal/replenishment: the trigger, and its restarts in cmd/bull.      *)

\* A SaleConsumer emits a signal.
emitReplenish(soh) ==
    /\ Spare
    /\ stream' = Append(stream, soh)
    /\ UNCHANGED <<work, group, pending, triggers, faults>>

Goto(g, pc) == triggers' = [triggers EXCEPT ![g].pc = pc]

\* handle has returned.
Await(g) == triggers' = [triggers EXCEPT ![g].pc = "read", ![g].msg = 0]

\* XGROUP CREATE ... "$": entries that are there already are not delivered.
EnsureGroup(g) ==
    /\ At(g, "ensure")
    /\ group' = IF group = -1 THEN Len(stream) ELSE group
    /\ Goto(g, "read")
    /\ UNCHANGED <<work, stream, pending, faults>>

\* Run returns the error; the loop of cmd/bull starts it again, or gives up.
EnsureGroupFails(g) ==
    /\ At(g, "ensure")
    /\ Fault
    /\ triggers' = [triggers EXCEPT ![g].restarts = @ + 1,
                      ![g].pc = IF triggers[g].restarts >= MaxRestarts
                                THEN "stopped" ELSE "ensure"]
    /\ UNCHANGED <<work, stream, group, pending>>

\* restartWindow has passed since the first of the counted restarts.
WindowEnds(g) ==
    /\ At(g, "ensure")
    /\ triggers[g].restarts > 0
    /\ triggers' = [triggers EXCEPT ![g].restarts = 0]
    /\ UNCHANGED <<work, stream, group, pending, faults>>

\* XREADGROUP with ">": an entry is delivered once, to one trigger.
processBatch(g) ==
    /\ At(g, "read")
    /\ group \in 0..(Len(stream) - 1)
    /\ group' = group + 1
    /\ pending' = pending \union {group'}
    /\ triggers' = [triggers EXCEPT ![g].pc = "threshold", ![g].msg = group']
    /\ UNCHANGED <<work, stream, faults>>

belowMin(soh, min) == soh < min

\* The threshold's row, or the default of 1 when the query fails; handle
\* then looks for an open task only if the stock is below it.
loadThreshold(g) ==
    LET soh == stream[triggers[g].msg] IN
    /\ At(g, "threshold")
    /\ \/ Goto(g, IF belowMin(soh, DisplayMin) THEN "exists" ELSE "ack") /\ UNCHANGED faults
       \/ Goto(g, IF belowMin(soh, 1) THEN "exists" ELSE "ack") /\ Fault
    /\ UNCHANGED <<work, stream, group, pending>>

CheckExists(g) ==
    /\ At(g, "exists")
    /\ Goto(g, IF OpenReplenishmentExists THEN "ack" ELSE "create")
    /\ UNCHANGED <<work, stream, group, pending, faults>>

CreateReplenishment(g) ==
    /\ At(g, "create")
    /\ Create("replenishment", 2, g)
    /\ Goto(g, "ack")
    /\ UNCHANGED <<exceptions, clients, stream, group, pending, faults>>

\* Mutant of HandleFails: the message is acked in spite of the error.
HandleFailsAcks(g) ==
    /\ triggers[g].pc \in {"exists", "create"}
    /\ Fault
    /\ Goto(g, "ack")
    /\ UNCHANGED <<work, stream, group, pending>>

\* The query or the insert fails, or handle panics: the message stays pending.
HandleFails(g) ==
    /\ triggers[g].pc \in {"exists", "create"}
    /\ Fault
    /\ Await(g)
    /\ UNCHANGED <<work, stream, group, pending>>

\* ack; its failure is logged.
ack(g) ==
    /\ At(g, "ack")
    /\ \/ pending' = pending \ {triggers[g].msg} /\ UNCHANGED faults
       \/ Fault /\ UNCHANGED pending
    /\ Await(g)
    /\ UNCHANGED <<work, stream, group>>

\* The process of a trigger ends, and starts again.
Crash(g) ==
    /\ triggers[g].pc \notin {"ensure", "stopped"}
    /\ Fault
    /\ triggers' = [triggers EXCEPT ![g] = Booting]
    /\ UNCHANGED <<work, stream, group, pending>>

handle(g) == loadThreshold(g) \/ CheckExists(g) \/ CreateReplenishment(g) \/ ack(g)

Next ==
    \/ createTask("replenishment", 0) \/ createTask("audit", 1)
    \/ \E c \in Clients : getNext(c) \/ Assign(c) \/ UpdateStatus(c) \/ StartTask(c)
    \/ \E c \in Clients, t \in 1..Len(tasks) :
          \/ \E to \in Statuses \ {"skipped", "complete"} : updateStatus(c, t, to)
          \/ taskCompleteAction(c, t) \/ skip(c, t) \/ taskClaimAction(c, t)
    \/ \E t \in 1..Len(tasks) : logException(t)
    \/ \E soh \in {0, -1} : emitReplenish(soh)
    \/ \E g \in Triggers : \/ EnsureGroup(g) \/ EnsureGroupFails(g) \/ WindowEnds(g)
                           \/ processBatch(g) \/ handle(g) \/ HandleFails(g) \/ Crash(g)

Spec == Init /\ [][Next]_vars

\* A trigger that runs reads and handles; nothing makes clients call.
FairSpec ==
    Spec /\ \A g \in Triggers : WF_vars(EnsureGroup(g)) /\ WF_vars(processBatch(g))
                                /\ WF_vars(handle(g))

-----------------------------------------------------------------------------
\* Whatever updates overtake each other, a task that was verified was completed,
\* and one that was completed was started: an update is checked against a
\* status that the task really had.
StampsInOrder ==
    \A t \in 1..Len(tasks) :
        /\ tasks[t].verified_at => tasks[t].completed_at
        /\ tasks[t].completed_at => tasks[t].started_at
        /\ tasks[t].status \in {"in_progress", "complete", "verified"} => tasks[t].started_at

\* A task changes hands only while it is queued: GetNext's claims and updates
\* that were checked earlier never take a task that somebody was given.
TakenOnlyFromQueue ==
    [][\A t \in 1..Len(tasks) :
          tasks'[t].assignee # tasks[t].assignee => tasks[t].status = "queued"]_vars

\* Triggers that look for an open task at the same time may each create one,
\* but none has two open at once, unless an update that was overtaken by the
\* task's end opened the first one again.
OneOpenPerTrigger ==
    \A g \in Triggers :
        Cardinality({t \in 1..Len(tasks) : /\ tasks[t].by = g
                                           /\ tasks[t].status \in Open
                                           /\ ~tasks[t].reopened}) <= 1

\* Types, and the open replenishment tasks of each trigger.
TaskInv == TypeOK /\ OneOpenPerTrigger

\* A trigger has entry m in hand.
InHand(m) == \E g \in Triggers : triggers[g].msg = m

\* A signal below the minimum, once read, is met by an open
\* replenishment task, or its entry stays pending where XPENDING shows it: no
\* failure makes it vanish.
SignalsAnswered ==
    \A m \in 1..MaxWork :
        (\E g \in Triggers : At(g, "threshold") /\ triggers[g].msg = m
                              /\ belowMin(stream[m], DisplayMin))
            ~> (OpenReplenishmentExists \/ (m \in pending /\ ~InHand(m)))

=============================================================================
