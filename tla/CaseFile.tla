------------------------------ MODULE CaseFile ------------------------------
(***************************************************************************)
(* What the tables detection.cases, detection.case_evidence and            *)
(* detection.case_actions promise to an investigator, whatever services    *)
(* write them: a file is opened with an entry in its log, and from then on *)
(* it only grows.  Evidence is hung under evidence of the same file, a     *)
(* closure is always logged, and no row is changed or withdrawn.           *)
(* Module Cases is shown to implement this specification.                  *)
(***************************************************************************)
EXTENDS Integers, Sequences

CONSTANTS Payloads,  \* what a piece of evidence can hash to
          NoHash,    \* prev_evidence_hash IS NULL
          MaxFiles   \* files that may be opened (a bound)

VARIABLES files,     \* files[f]: the status of file f
          rows,      \* the evidence rows, in the order they were committed
          log        \* the entries of case_actions, in the order they were committed

fileVars == <<files, rows, log>>

Entry(f, type) == [case |-> f, action |-> type]

Row(f, payload, prev) == [case |-> f, payload |-> payload, prev |-> prev]

\* The hashes a new row of file f may point back to.
Anchors(f) ==
  {NoHash} \cup {rows[i].payload : i \in {j \in DOMAIN rows : rows[j].case = f}}

FileInit == files = <<>> /\ rows = <<>> /\ log = <<>>

OpenFile ==
  /\ Len(files) < MaxFiles
  /\ files' = Append(files, "open")
  /\ log' = Append(log, Entry(Len(files) + 1, "status_change"))
  /\ UNCHANGED rows

Collect(f) ==
  /\ \E payload \in Payloads, prev \in Anchors(f) : rows' = Append(rows, Row(f, payload, prev))
  /\ log' \in {log, Append(log, Entry(f, "evidence_collected"))}
  /\ UNCHANGED files

Note(f) ==
  /\ log' = Append(log, Entry(f, "note"))
  /\ UNCHANGED <<files, rows>>

CloseFile(f) ==
  /\ files' = [files EXCEPT ![f] = "closed"]
  /\ log' = Append(log, Entry(f, "resolution"))
  /\ UNCHANGED rows

FileNext == OpenFile \/ \E f \in DOMAIN files : Collect(f) \/ Note(f) \/ CloseFile(f)

FileSpec == FileInit /\ [][FileNext]_fileVars
=============================================================================
