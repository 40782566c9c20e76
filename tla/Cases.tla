------------------------------- MODULE Cases --------------------------------
(***************************************************************************)
(* Loss prevention: chirp turns a transaction into detections, the alert   *)
(* endpoints triage them, fox escalates them to cases, and fox and         *)
(* casemgmt (two services, one set of tables) collect chained evidence.    *)
(* Each worker serves one request at a time; every statement or            *)
(* transaction that other workers can come between is a step of its own.   *)
(***************************************************************************)
EXTENDS Integers, Sequences, FiniteSets

CONSTANTS
  Workers,       \* requests in flight, over all pods of chirp, alert, fox and casemgmt
  Rules,         \* active on_event rules that match the transaction
  Severity,      \* Severity[r] is the severity of rule r: 1 (low) .. 4 (critical)
  MinSeverity,   \* EscalationConfig.MinSeverity, as a rank
  Employee,      \* cashier_employee_id of the transaction
  Subject,       \* id of the detection.subjects row of that employee
  NoOne,         \* SQL NULL in a column of ids
  MaxEvaluations,\* calls of chirp's evaluate endpoint (a bound)
  MaxRequests,   \* requests to fox and casemgmt (a bound)
  MaxFaults      \* failed statements and killed requests (a bound)

\* A detections row carries an employee's id, a cases row that of a subjects
\* row minted by ResolveSubject: the two are never equal.
ASSUME IdsApart == Employee # Subject /\ NoOne \notin {Employee, Subject}

ASSUME FinitelyMany ==
  /\ IsFiniteSet(Workers) /\ IsFiniteSet(Rules)
  /\ {MaxEvaluations, MaxRequests, MaxFaults} \subseteq Nat

VARIABLES
  detections,    \* detection.detections, in the order of insertion
  cases,         \* detection.cases, in the order of insertion
  evidence,      \* detection.case_evidence, in the order of commit
  actions,       \* detection.case_actions, in the order of commit
  work,          \* work[w] is what worker w is doing
  evaluations, requests, faults  \* how much of each bound is spent

spent == <<evaluations, requests, faults>>

vars == <<detections, cases, evidence, actions, work, spent>>

NoHash == -1
Manual == 0      \* the payload of evidence an investigator uploads

\* todo: chirp's matches left; det, linked: the detection as
\* loaded; case, stamp, prev, mirror: the evidence being appended, and whether its
\* append is mirrored in the action log; seen, alone: history, as in a row.
Idle == [at |-> "idle", todo |-> {}, det |-> 0, linked |-> FALSE,
         case |-> 0, stamp |-> 0, prev |-> NoHash, mirror |-> FALSE,
         seen |-> 0, alone |-> TRUE]

\* det, seen: the detection a case was opened from, and how many cases there were
\* when its request read that detection (history, read by the properties only).
Case(subject, det, seen) ==
  [status |-> "open", subject |-> subject, det |-> det, seen |-> seen]

Init ==
  /\ detections = <<>>
  /\ cases = <<>>
  /\ evidence = <<>>
  /\ actions = <<>>
  /\ work = [w \in Workers |-> Idle]
  /\ evaluations = 0 /\ requests = 0 /\ faults = 0

Fail == faults < MaxFaults /\ faults' = faults + 1 /\ UNCHANGED <<evaluations, requests>>

Request == requests < MaxRequests /\ requests' = requests + 1 /\ UNCHANGED <<evaluations, faults>>

Action(c, type) == [case |-> c, action |-> type]
-----------------------------------------------------------------------------
(* chirp *)

\* EvaluateTransaction up to its loop: the transaction, its rules and context.
\* The rules are pure functions of what is loaded: todo holds those that match.
EvaluateTransaction(w) ==
  /\ work[w].at = "idle"
  /\ evaluations < MaxEvaluations
  /\ evaluations' = evaluations + 1
  /\ work' = [work EXCEPT ![w] = [Idle EXCEPT !.at = "matched", !.todo = Rules]]
  /\ UNCHANGED <<detections, cases, evidence, actions, requests, faults>>

\* Each detection is inserted on its own; a failed insert is logged and skipped.  The
\* engine of cmd/chirp has no allow list: none is dismissed here.
InsertDetection(w) ==
  /\ work[w].at = "matched"
  /\ \E r \in work[w].todo :
       /\ \/ /\ detections' = Append(detections, [status |-> "new", rule |-> r, case |-> 0])
             /\ UNCHANGED spent
          \/ Fail /\ UNCHANGED detections
       /\ work' = [work EXCEPT ![w].todo = @ \ {r}]
  /\ UNCHANGED <<cases, evidence, actions>>

EvaluationEnds(w) ==
  /\ work[w].at = "matched" /\ work[w].todo = {}
  /\ work' = [work EXCEPT ![w] = Idle]
  /\ UNCHANGED <<detections, cases, evidence, actions, spent>>
-----------------------------------------------------------------------------
(* alert: single conditional UPDATEs *)

Acknowledge(d) ==
  /\ detections[d].status = "new"
  /\ detections' = [detections EXCEPT ![d].status = "acknowledged"]
  /\ UNCHANGED <<cases, evidence, actions, work, spent>>

\* Resolve and Suppress write the same columns that matter here.
Dismiss(d) ==
  /\ detections[d].status \notin {"dismissed", "duplicate"}
  /\ detections' = [detections EXCEPT ![d].status = "dismissed"]
  /\ UNCHANGED <<cases, evidence, actions, work, spent>>
-----------------------------------------------------------------------------
(* Appending evidence: fox.AppendEvidence and casemgmt.AppendEvidence *)

Terminal == {"resolved", "closed"}

\* The workers that are appending to case c.
Appending(c) == {v \in Workers : work[v].at \in {"stamped", "chained"} /\ work[v].case = c}

\* The request enters AppendEvidence for the payload: it takes the time, which
\* is the number of rows committed so far, since clocks move between two appends.
\* Overlapping appends of one case lose "alone".
Stamp(w, item) ==
  [v \in Workers |->
     IF v = w THEN [item EXCEPT !.at = "stamped", !.stamp = Len(evidence),
                                !.alone = Appending(item.case) = {}]
     ELSE IF v \in Appending(item.case) THEN [work[v] EXCEPT !.alone = FALSE]
     ELSE work[v]]

\* ORDER BY collected_at ASC.
LatestAscending(c) ==
  LET mine == {i \in DOMAIN evidence : evidence[i].case = c}
  IN  {i \in mine : \A j \in mine : evidence[j].stamp >= evidence[i].stamp}

\* The previous row is looked up without WHERE case_id.
LatestOfAll(c) ==
  {i \in DOMAIN evidence : \A j \in DOMAIN evidence : evidence[j].stamp <= evidence[i].stamp}

\* The rows a new row of case c may follow: those that are last by collected_at.
Latest(c) ==
  LET mine == {i \in DOMAIN evidence : evidence[i].case = c}
  IN  {i \in mine : \A j \in mine : evidence[j].stamp <= evidence[i].stamp}

\* SELECT payload_hash ... ORDER BY collected_at DESC LIMIT 1, in the transaction
\* but without a lock.
ReadPrevHash(w) ==
  /\ work[w].at = "stamped"
  /\ LET c == work[w].case
         prevs == IF Latest(c) = {} THEN {NoHash} ELSE {evidence[i].payload : i \in Latest(c)}
     IN  \E p \in prevs : work' = [work EXCEPT ![w].at = "chained", ![w].prev = p]
  /\ UNCHANGED <<detections, cases, evidence, actions, spent>>

Mirrored(w) == IF work[w].mirror
               THEN Append(actions, Action(work[w].case, "evidence_collected"))
               ELSE actions

\* The row and, in fox, its mirror in the action log are one transaction.
AppendEvidence(w) ==
  /\ work[w].at = "chained"
  /\ evidence' = Append(evidence, [case |-> work[w].case, payload |-> work[w].det,
                                   prev |-> work[w].prev, stamp |-> work[w].stamp,
                                   alone |-> work[w].alone])
  /\ actions' = Mirrored(w)
  /\ work' = [work EXCEPT ![w] = Idle]
  /\ UNCHANGED <<detections, cases, spent>>

\* A statement fails or the process dies: the transaction is rolled back.  A seed's
\* failure is only logged by fromDetection and createCase.
RequestLost(w) ==
  /\ work[w].at # "idle"
  /\ Fail
  /\ work' = [work EXCEPT ![w] = Idle]
  /\ UNCHANGED <<detections, cases, evidence, actions>>

\* casemgmt appendEvidence: no check of the case's status, and no mirror.
CollectManually(w, c) ==
  /\ work[w].at = "idle"
  /\ Request
  /\ work' = Stamp(w, [Idle EXCEPT !.case = c, !.det = Manual])
  /\ UNCHANGED <<detections, cases, evidence, actions>>
-----------------------------------------------------------------------------
(* fox: escalation *)

\* fromDetection's first step, LoadDetectionScoped.
fromDetection(w, d) ==
  /\ work[w].at = "idle"
  /\ Request
  /\ work' = [work EXCEPT ![w] = [Idle EXCEPT !.at = "loaded", !.det = d,
                                              !.linked = detections[d].case # 0,
                                              !.seen = Len(cases)]]
  /\ UNCHANGED <<detections, cases, evidence, actions>>

\* The most recent open case whose primary_subject_id is the given id.
FindOpenCaseBySubject(id) ==
  {c \in DOMAIN cases : cases[c].subject = id /\ cases[c].status \notin Terminal}

\* The case_id of the detection is not looked at.
EvaluateForEscalationAgain(w) ==
  IF Severity[detections[work[w].det].rule] >= MinSeverity
  THEN [at |-> "open", case |-> 0]
  ELSE [at |-> "idle", case |-> 0]

\* The policy: a linked detection is left alone, a detection of a subject with an open
\* case is attached, a severe one opens a case.
EvaluateForEscalation(w) ==
  LET found == FindOpenCaseBySubject(Employee)
  IN  IF work[w].linked THEN [at |-> "idle", case |-> 0]
      ELSE IF found # {}
      THEN [at |-> "attach", case |-> CHOOSE c \in found : \A o \in found : o <= c]
      ELSE IF Severity[detections[work[w].det].rule] >= MinSeverity
      THEN [at |-> "open", case |-> 0]
      ELSE [at |-> "idle", case |-> 0]

Escalate(w) ==
  /\ work[w].at = "loaded"
  /\ LET decision == EvaluateForEscalation(w)
     IN  work' = IF decision.at = "idle" THEN [work EXCEPT ![w] = Idle]
                 ELSE IF decision.at = "attach"
                 THEN Stamp(w, [work[w] EXCEPT !.case = decision.case, !.mirror = TRUE])
                 ELSE [work EXCEPT ![w].at = "open"]
  /\ UNCHANGED <<detections, cases, evidence, actions, spent>>

\* The link is left to a later statement.
OpenCaseUnlinked(w) ==
  /\ work[w].at = "open"
  /\ cases' = Append(cases, Case(Subject, work[w].det, work[w].seen))
  /\ actions' = Append(actions, Action(Len(cases) + 1, "status_change"))
  /\ detections' = [detections EXCEPT ![work[w].det].status = "escalated_to_case"]
  /\ work' = Stamp(w, [work[w] EXCEPT !.case = Len(cases) + 1, !.mirror = TRUE])
  /\ UNCHANGED <<evidence, spent>>

\* OpenCase: the case, its first action and the detection's link are one transaction.
\* fromDetection then seeds the case with the detection's evidence.  subjectFromDetection
\* degrades to no subject when the resolver fails.
OpenCase(w) ==
  /\ work[w].at = "open"
  /\ \E failed \in BOOLEAN :
       /\ IF failed THEN Fail ELSE UNCHANGED spent
       /\ cases' = Append(cases, Case(IF failed THEN NoOne ELSE Subject,
                                      work[w].det, work[w].seen))
  /\ actions' = Append(actions, Action(Len(cases) + 1, "status_change"))
  /\ detections' = [detections EXCEPT ![work[w].det].case = Len(cases) + 1,
                                      ![work[w].det].status = "escalated_to_case"]
  /\ work' = Stamp(w, [work[w] EXCEPT !.case = Len(cases) + 1, !.mirror = TRUE])
  /\ UNCHANGED <<evidence>>

\* The manual path: casemgmt.CreateCase, and fox.createCase with no detections to seed from.
createCase(w, subject) ==
  /\ work[w].at = "idle"
  /\ Request
  /\ cases' = Append(cases, Case(subject, 0, 0))
  /\ actions' = Append(actions, Action(Len(cases) + 1, "status_change"))
  /\ UNCHANGED <<detections, evidence, work>>

\* fox.createCase that names a detection: the case is not linked to it.
createCaseFrom(w, d) ==
  /\ work[w].at = "idle"
  /\ Request
  /\ cases' = Append(cases, Case(NoOne, 0, 0))
  /\ actions' = Append(actions, Action(Len(cases) + 1, "status_change"))
  /\ work' = Stamp(w, [Idle EXCEPT !.case = Len(cases) + 1, !.det = d, !.mirror = TRUE])
  /\ UNCHANGED <<detections, evidence>>

appendAction(c) ==
  /\ Request
  /\ actions' = Append(actions, Action(c, "note"))
  /\ UNCHANGED <<detections, cases, evidence, work>>

\* CloseCase of both services: any case of the tenant, closed or not.
CloseCase(c) ==
  /\ Request
  /\ cases' = [cases EXCEPT ![c].status = "closed"]
  /\ actions' = Append(actions, Action(c, "resolution"))
  /\ UNCHANGED <<detections, evidence, work>>
-----------------------------------------------------------------------------
Next ==
  \/ \E w \in Workers :
       \/ EvaluateTransaction(w) \/ InsertDetection(w) \/ EvaluationEnds(w)
       \/ \E d \in DOMAIN detections : fromDetection(w, d) \/ createCaseFrom(w, d)
       \/ Escalate(w) \/ OpenCase(w)
       \/ \E s \in {NoOne, Subject} : createCase(w, s)
       \/ \E c \in DOMAIN cases : CollectManually(w, c)
       \/ ReadPrevHash(w) \/ AppendEvidence(w) \/ RequestLost(w)
  \/ \E d \in DOMAIN detections : Acknowledge(d) \/ Dismiss(d)
  \/ \E c \in DOMAIN cases : appendAction(c) \/ CloseCase(c)

Spec == Init /\ [][Next]_vars
-----------------------------------------------------------------------------
Statuses == {"new", "acknowledged", "escalated_to_case", "dismissed"}

Hashes == Manual .. (MaxEvaluations * Cardinality(Rules))

\* The type invariant.
TypeOK ==
  /\ \A d \in DOMAIN detections :
       detections[d] \in [status : Statuses, rule : Rules, case : 0 .. Len(cases)]
  /\ \A c \in DOMAIN cases :
       cases[c] \in [status : {"open", "closed"}, subject : {NoOne, Subject},
                     det : Hashes, seen : 0 .. Len(cases)]
  /\ \A i \in DOMAIN evidence :
       evidence[i] \in [case : DOMAIN cases, payload : Hashes, prev : Hashes \cup {NoHash},
                        stamp : 0 .. Len(evidence), alone : BOOLEAN]
  /\ \A i \in DOMAIN actions :
       actions[i] \in [case : DOMAIN cases,
                       action : {"status_change", "evidence_collected", "note", "resolution"}]
  /\ \A w \in Workers :
       work[w] \in [at : {"idle", "matched", "loaded", "open",
                           "stamped", "chained"},
                    todo : SUBSET Rules, det : Hashes,
                    linked : BOOLEAN, case : 0 .. Len(cases), stamp : 0 .. Len(evidence),
                    prev : Hashes \cup {NoHash}, mirror : BOOLEAN, seen : 0 .. Len(cases),
                    alone : BOOLEAN]

\* Every detection that was escalated points at a case opened from it, also when the
\* request died after the case was opened: the case, its first action and the link are
\* one transaction (fox/store.go, OpenCase).  A later dismissal leaves the link.
EscalatedPointsToCase ==
  \A d \in DOMAIN detections :
    LET opened == {c \in DOMAIN cases : cases[c].det = d}
    IN  /\ detections[d].status = "escalated_to_case" => detections[d].case # 0
        /\ (detections[d].case # 0) = (opened # {})
        /\ opened # {} => detections[d].case \in opened

\* The variables keep their types and no escalation is left without its case.
CaseInv == TypeOK /\ EscalatedPointsToCase

\* A detection gets a second case only by a race: a request that read the detection
\* once its first case was there never opens another (fox/escalation.go, policy 1).
SecondCaseOnlyByRace ==
  \A c, e \in DOMAIN cases :
    cases[c].det # 0 /\ cases[c].det = cases[e].det /\ c < e => cases[e].seen < c

\* Evidence of a case whose appends never overlapped is one unforked chain: each row
\* points at the row before it, whichever services wrote them (the previous hash is
\* read in the transaction of the insert, but nothing is locked).
ChainedWhenSerial ==
  \A c \in DOMAIN cases :
    LET mine == {i \in DOMAIN evidence : evidence[i].case = c}
    IN  (\A i \in mine : evidence[i].alone) =>
          \A i \in mine :
            \/ (\A j \in mine : i <= j) /\ evidence[i].prev = NoHash
            \/ \E j \in mine : /\ j < i /\ \A k \in mine : k <= j \/ i <= k
                               /\ evidence[i].prev = evidence[j].payload

\* The three tables behave as an append-only case file, whatever the services,
\* races and failures that write them (module CaseFile).
File == INSTANCE CaseFile WITH
  Payloads <- Hashes, NoHash <- NoHash,
  MaxFiles <- MaxRequests,
  files <- [c \in DOMAIN cases |-> cases[c].status],
  rows <- [i \in DOMAIN evidence |-> [case |-> evidence[i].case, payload |-> evidence[i].payload,
                                      prev |-> evidence[i].prev]],
  log <- actions

KeepsCaseFile == File!FileSpec
=============================================================================
