----------------------------- MODULE Receiving ------------------------------
(***************************************************************************)
(* Closing a goods receipt in the web application (web/handler_w5.go,      *)
(* inventory/document.go) and the workflow execution it kicks off          *)
(* (internal/workflow), which other callers advance and complete under an  *)
(* advisory lock.  The repository has the engine's operations and no       *)
(* caller of Advance and Complete yet.                                     *)
(***************************************************************************)
EXTENDS Naturals, Sequences, FiniteSets

CONSTANTS
    Receipts,        \* goods receipts
    Clerks,          \* requests of the web application
    Engines,         \* callers of Advance and Complete
    MaxExecutions,   \* bound: status updates of receipts, and so executions
    MaxAdvances      \* bound: Advance calls on one execution

VARIABLES
    documents,   \* receipt -> its row of inventory_documents
    definition,  \* the three-way-match definition is registered
    executions,  \* app.workflow_executions; an execution's index is its id
    clerk,       \* clerk -> where its close is
    engine,      \* engine -> the transaction it is in
    clock,       \* the time that completed_at takes
    stamps,      \* history: receipt -> every completed_at it has had
    endings      \* history: execution -> every terminal status it was given

vars == <<documents, definition, executions, clerk, engine, clock, stamps, endings>>
office == <<documents, clerk, clock, stamps>>
flows  == <<executions, engine, endings>>

Idle == << >>
Terminal == {"succeeded", "failed", "cancelled"}
Execution == [ref : Receipts, status : {"pending", "running"} \union Terminal,
              advances : 0..MaxAdvances]

TypeOK ==
    /\ documents \in [Receipts -> [status : {"in_transit", "closed", "cancelled"},
                                   completed_at : 0..clock, variance : BOOLEAN]]
    /\ definition \in BOOLEAN
    /\ executions \in Seq(Execution) /\ Len(executions) <= MaxExecutions
    /\ clerk \in [Clerks -> {Idle} \union ({"resolve", "kickoff"} \X Receipts)]
    /\ engine \in [Engines -> {Idle} \union ({"locked", "read"} \X DOMAIN executions)]
    /\ clock \in 0..MaxExecutions
    /\ stamps \in [Receipts -> SUBSET (1..clock)]
    /\ endings \in Seq(Seq(Terminal)) /\ Len(endings) = Len(executions)

Init ==
    /\ documents = [d \in Receipts |->
                       [status |-> "in_transit", completed_at |-> 0, variance |-> FALSE]]
    /\ definition = FALSE
    /\ executions = << >>
    /\ clerk = [c \in Clerks |-> Idle]
    /\ engine = [n \in Engines |-> Idle]
    /\ clock = 0
    /\ stamps = [d \in Receipts |-> {}]
    /\ endings = << >>

\* COALESCE(completed_at, NOW())
Completed(row, now) == IF row.completed_at = 0 THEN now ELSE row.completed_at

\* Terminal from whatever status the row has: a cancelled receipt can be closed.
UpdateDocumentStatus(d, status) ==
    /\ clock' = clock + 1
    /\ LET at == Completed(documents[d], clock')
       IN  /\ documents' = [documents EXCEPT ![d].status = status, ![d].completed_at = at]
           /\ stamps' = [stamps EXCEPT ![d] = @ \union {at}]

receivingCloseAction(c, d) ==
    /\ clerk[c] = Idle /\ clock < MaxExecutions
    /\ UpdateDocumentStatus(d, "closed")
    /\ clerk' = [clerk EXCEPT ![c] = <<"resolve", d>>]
    /\ UNCHANGED <<definition, flows>>

\* Another flow of the store's status update.
Cancel(d) ==
    /\ documents[d].status = "in_transit" /\ clock < MaxExecutions
    /\ UpdateDocumentStatus(d, "cancelled")
    /\ UNCHANGED <<definition, clerk, flows>>

\* The variance of a line; a closed receipt's as well.
receivingLineDiscrepancyAction(d) ==
    /\ ~documents[d].variance
    /\ documents' = [documents EXCEPT ![d].variance = TRUE]
    /\ UNCHANGED <<definition, clerk, clock, stamps, flows>>

\* A service registers the definition when it boots.
RegisterDefinition ==
    /\ definition' = TRUE
    /\ UNCHANGED <<office, flows>>

\* kickoffThreeWayMatch: without a definition the close goes on without one.
GetDefinitionByCode(c, d) ==
    /\ clerk[c] = <<"resolve", d>>
    /\ clerk' = [clerk EXCEPT ![c] = IF definition THEN <<"kickoff", d>> ELSE Idle]
    /\ UNCHANGED <<documents, definition, clock, stamps, flows>>

\* A plain INSERT; nothing is unique in external_ref.
KickOff(c, d) ==
    /\ clerk[c] = <<"kickoff", d>>
    /\ executions' = Append(executions, [ref |-> d, status |-> "pending", advances |-> 0])
    /\ endings' = Append(endings, << >>)
    /\ clerk' = [clerk EXCEPT ![c] = Idle]
    /\ UNCHANGED <<documents, definition, clock, stamps, engine>>

\* The insert fails and is logged, or the process ends: no execution.
KickOffFails(c) ==
    /\ clerk[c] # Idle
    /\ clerk' = [clerk EXCEPT ![c] = Idle]
    /\ UNCHANGED <<documents, definition, clock, stamps, flows>>

\* pg_try_advisory_xact_lock: a caller that does not get it answers
\* ErrLockUnavailable.
acquireLock(n, x) ==
    /\ engine[n] = Idle
    /\ \A m \in Engines : engine[m] \notin {<<"locked", x>>, <<"read", x>>}
    /\ engine' = [engine EXCEPT ![n] = <<"locked", x>>]
    /\ UNCHANGED <<office, definition, executions, endings>>

\* Mutant of isTerminal: forgets one status.
isTerminalForgets(status) == status \in {"succeeded", "failed"}

isTerminal(status) == status \in Terminal

\* The row is read FOR UPDATE; a terminal one ends the transaction.
txGetExecution(n, x) ==
    /\ engine[n] = <<"locked", x>>
    /\ engine' = [engine EXCEPT ![n] = IF isTerminal(executions[x].status) THEN Idle
                                       ELSE <<"read", x>>]
    /\ UNCHANGED <<office, definition, executions, endings>>

Advance(n, x) ==
    /\ engine[n] = <<"read", x>> /\ executions[x].advances < MaxAdvances
    /\ executions' = [executions EXCEPT ![x].status = "running", ![x].advances = @ + 1]
    /\ engine' = [engine EXCEPT ![n] = Idle]
    /\ UNCHANGED <<office, definition, endings>>

Complete(n, x) ==
    /\ engine[n] = <<"read", x>>
    /\ \E status \in Terminal :
          /\ executions' = [executions EXCEPT ![x].status = status]
          /\ endings' = [endings EXCEPT ![x] = Append(@, status)]
    /\ engine' = [engine EXCEPT ![n] = Idle]
    /\ UNCHANGED <<office, definition>>

RollsBack(n) ==
    /\ engine[n] # Idle
    /\ engine' = [engine EXCEPT ![n] = Idle]
    /\ UNCHANGED <<office, definition, executions, endings>>

Next ==
    \/ RegisterDefinition
    \/ \E d \in Receipts :
          \/ Cancel(d) \/ receivingLineDiscrepancyAction(d)
          \/ \E c \in Clerks : \/ receivingCloseAction(c, d)
                               \/ GetDefinitionByCode(c, d) \/ KickOff(c, d)
    \/ \E c \in Clerks : KickOffFails(c)
    \/ \E n \in Engines :
          \/ RollsBack(n)
          \/ \E x \in DOMAIN executions :
                \/ acquireLock(n, x) \/ txGetExecution(n, x)
                \/ Advance(n, x) \/ Complete(n, x)

Spec == Init /\ [][Next]_vars

\* What is finished stays finished: an execution ends once and keeps the status
\* it ended with however its callers interleave (Advance, Complete and their
\* lock, workflow.go: "so concurrent advances can't race"), a receipt keeps its
\* first completed_at however often it is closed (handler_w5.go: "stamps
\* completed_at only once"), and a three-way match exists only for a receipt
\* that was closed, one for each close at most.
FinishedStays ==
    /\ \A x \in DOMAIN executions :
          /\ Len(endings[x]) <= 1
          /\ IF endings[x] = << >> THEN executions[x].status \notin Terminal
                                   ELSE executions[x].status = Head(endings[x])
    /\ \A d \in Receipts :
          /\ Cardinality(stamps[d]) <= 1
          /\ documents[d].completed_at \in stamps[d] \union {0}
    /\ Len(executions) <= clock

\* What keeps it.  The advisory lock has one holder, and the row its holder has
\* read is not finished; a receipt has the first stamp it got; every close in
\* progress still has its tick of the clock to spend on an execution.
OneHolder ==
    \A n, m \in Engines : engine[n] # Idle /\ engine[m] # Idle /\ engine[n][2] = engine[m][2] => n = m

ReadIsOpen ==
    \A n \in Engines, x \in DOMAIN executions :
        engine[n] = <<"read", x>> => executions[x].status \notin Terminal

FirstStampKept == \A d \in Receipts : stamps[d] = {documents[d].completed_at} \ {0}

ClosesCounted == Len(executions) + Cardinality({c \in Clerks : clerk[c] # Idle}) <= clock

FinishInv ==
    TypeOK /\ FinishedStays /\ OneHolder /\ ReadIsOpen /\ FirstStampKept /\ ClosesCounted

=============================================================================
