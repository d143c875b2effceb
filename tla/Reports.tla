------------------------------ MODULE Reports ------------------------------
(***************************************************************************)
(* Reports: a chat asks main-service for one, main-service stores a row    *)
(* and queues a job, a worker renders the file and announces it, and the   *)
(* bot sends the file to the chat that asked.                              *)
(*                                                                         *)
(* Jobs run in BullMQ with one attempt: a job that throws is failed, a job *)
(* whose worker dies is given out again once. The worker announces a job   *)
(* after the queue has forgotten it. A report of the tenant's bot is       *)
(* recorded for its chat when the answer to the request has come back,     *)
(* while the job may be running already.                                   *)
(***************************************************************************)
EXTENDS Integers, Sequences, SequencesExt

CONSTANTS
  Report,   \* reports that may be asked for
  rowCount  \* how many lines the table of a report has

ASSUME ReportsAssumption == rowCount \in [Report -> Nat]

VARIABLES
  asking,     \* of the request for a report: "no", "inserted", "answered", "over"
  row,        \* reports.status; "none" before the row is there
  artifact,   \* the pages of the file on disk; empty before it is there
  job,        \* the render job: "none", "waiting", "active", "done", "failed"
  stalled,    \* how often the job's worker died
  worker,     \* what the worker on the job does next
  chat,       \* reports whose chat bot:report:<id> names
  documents   \* history: the files sent to the chat that asked

reportsVars == <<asking, row, artifact, job, stalled, worker, chat, documents>>
jobVars == <<row, artifact, job, stalled, worker>>

WorkerSteps == {"idle", "load", "build", "write", "mark", "complete", "announce"}

ReportsInit ==
  /\ asking = [r \in Report |-> "no"]
  /\ row = [r \in Report |-> "none"]
  /\ artifact = [r \in Report |-> <<>>]
  /\ job = [r \in Report |-> "none"]
  /\ stalled = [r \in Report |-> 0]
  /\ worker = [r \in Report |-> "idle"]
  /\ chat = {}
  /\ documents = [r \in Report |-> <<>>]

-----------------------------------------------------------------------------
\* The pages of a table, in points. A header goes under each page's title.
ContentTop == 595 - 72
ContentBottom == 64 + 16
RowHeight == 9 + 4 * 2
FirstRowAt == ContentTop - 22 - 18 - RowHeight
NextRowAt == ContentTop - 18 - RowHeight

\* Faulty variant: asks whether the page is full, not whether the row fits.
DrawRowBelow(drawn, r) ==
  IF drawn.at < ContentBottom
  THEN [pages |-> Append(drawn.pages, <<r>>), at |-> NextRowAt - RowHeight]
  ELSE [pages |-> [drawn.pages EXCEPT ![Len(drawn.pages)] = Append(@, r)],
        at |-> drawn.at - RowHeight]

\* drawTable: a page is the rows on it; at is where the next row goes.
DrawRow(drawn, r) ==
  IF drawn.at - RowHeight < ContentBottom
  THEN [pages |-> Append(drawn.pages, <<r>>), at |-> NextRowAt - RowHeight]
  ELSE [pages |-> [drawn.pages EXCEPT ![Len(drawn.pages)] = Append(@, r)],
        at |-> drawn.at - RowHeight]

DrawTable(n) ==
  FoldLeft(DrawRow, [pages |-> <<(<<>>)>>, at |-> FirstRowAt], [i \in 1 .. n |-> i]).pages

\* renderReportPdf: a cover and a summary come before the table.
RenderReportPdf(n) == <<(<<>>), (<<>>)>> \o DrawTable(n)

\* The file of each report, which is the same whenever it is rendered.
rendered == [r \in Report |-> RenderReportPdf(rowCount[r])]

-----------------------------------------------------------------------------
\* POST /v1/reports: the row, then the job, then the answer.
InsertReport(r) ==
  /\ asking[r] = "no"
  /\ asking' = [asking EXCEPT ![r] = "inserted"]
  /\ row' = [row EXCEPT ![r] = "queued"]
  /\ UNCHANGED <<artifact, job, stalled, worker, chat, documents>>

ScheduleReportRender(r) ==
  /\ asking[r] = "inserted"
  /\ asking' = [asking EXCEPT ![r] = "answered"]
  /\ job' = [job EXCEPT ![r] = "waiting"]
  /\ UNCHANGED <<row, artifact, stalled, worker, chat, documents>>

RecordReportChat(r) ==
  /\ asking[r] = "answered"
  /\ asking' = [asking EXCEPT ![r] = "over"]
  /\ chat' = chat \cup {r}
  /\ UNCHANGED <<row, artifact, job, stalled, worker, documents>>

\* The request ends where it is: no job is queued, or no chat is recorded.
LoseRequest(r) ==
  /\ asking[r] \in {"inserted", "answered"}
  /\ asking' = [asking EXCEPT ![r] = "over"]
  /\ UNCHANGED <<chat, documents>> /\ UNCHANGED jobVars

\* bot:report:<id> lives for an hour.
ChatRecordExpires(r) ==
  /\ r \in chat
  /\ chat' = chat \ {r}
  /\ UNCHANGED <<asking, documents>> /\ UNCHANGED jobVars

-----------------------------------------------------------------------------
Works(r, from, to) == worker[r] = from /\ worker' = [worker EXCEPT ![r] = to]

UpdateReportStatus(r, status) == row' = [row EXCEPT ![r] = status]

TakeJob(r) ==
  /\ job[r] = "waiting"
  /\ job' = [job EXCEPT ![r] = "active"]
  /\ Works(r, "idle", "load")
  /\ UNCHANGED <<asking, row, artifact, stalled, chat, documents>>

StartRender(r) ==
  /\ Works(r, "load", "build")
  /\ UpdateReportStatus(r, "running")
  /\ UNCHANGED <<asking, artifact, job, stalled, chat, documents>>

\* Faulty variant: the row is marked before the file is written.
MarkEarly(r) ==
  /\ Works(r, "build", "write")
  /\ UpdateReportStatus(r, "succeeded")
  /\ UNCHANGED <<asking, artifact, job, stalled, chat, documents>>

Build(r) ==
  /\ Works(r, "build", "write")
  /\ UNCHANGED <<asking, row, artifact, job, stalled, chat, documents>>

\* Anything thrown before the file is written fails the job, not the row.
BuildThrows(r) ==
  /\ Works(r, "build", "idle")
  /\ job' = [job EXCEPT ![r] = "failed"]
  /\ UNCHANGED <<asking, row, artifact, stalled, chat, documents>>

\* A temporary file that is renamed: there whole, or not there.
WriteArtifact(r) ==
  /\ Works(r, "write", "mark")
  /\ artifact' = [artifact EXCEPT ![r] = rendered[r]]
  /\ UNCHANGED <<asking, row, job, stalled, chat, documents>>

WriteFails(r) ==
  /\ Works(r, "write", "complete")
  /\ UpdateReportStatus(r, "failed")
  /\ UNCHANGED <<asking, artifact, job, stalled, chat, documents>>

MarkSucceeded(r) ==
  /\ Works(r, "mark", "complete")
  /\ UpdateReportStatus(r, "succeeded")
  /\ UNCHANGED <<asking, artifact, job, stalled, chat, documents>>

\* The queue forgets the job; a render that failed has not thrown.
CompleteJob(r) ==
  /\ Works(r, "complete", "announce")
  /\ job' = [job EXCEPT ![r] = "done"]
  /\ UNCHANGED <<asking, row, artifact, stalled, chat, documents>>

Announce(r) ==
  /\ Works(r, "announce", "idle")
  /\ UNCHANGED <<asking, row, artifact, job, stalled, chat, documents>>

\* Faulty variant: the queue does not miss a worker.
CrashUnnoticed(r) ==
  /\ worker[r] # "idle"
  /\ worker' = [worker EXCEPT ![r] = "idle"]
  /\ UNCHANGED <<asking, row, artifact, job, stalled, chat, documents>>

\* The worker dies. The queue gives the job out again, the first time.
WorkerCrash(r) ==
  /\ worker[r] # "idle"
  /\ worker' = [worker EXCEPT ![r] = "idle"]
  /\ IF job[r] = "active"
     THEN /\ stalled' = [stalled EXCEPT ![r] = @ + 1]
          /\ job' = [job EXCEPT ![r] = IF stalled[r] = 0 THEN "waiting" ELSE "failed"]
     ELSE UNCHANGED <<stalled, job>>
  /\ UNCHANGED <<asking, row, artifact, chat, documents>>

\* sendReport: the file goes out if the row says it is there.
SendReport(r) ==
  /\ documents' = IF r \in chat /\ row[r] = "succeeded"
                  THEN [documents EXCEPT ![r] = Append(@, artifact[r])] ELSE documents
  /\ UNCHANGED <<asking, chat>> /\ UNCHANGED jobVars

RequestStep(r) == InsertReport(r) \/ ScheduleReportRender(r) \/ RecordReportChat(r)

WorkerStep(r) ==
  \/ TakeJob(r) \/ StartRender(r) \/ Build(r) \/ WriteArtifact(r)
  \/ MarkSucceeded(r) \/ CompleteJob(r)

-----------------------------------------------------------------------------
\* Every line of the table is on one page, in order, above the page's foot.
ShowsEveryRow(pages, n) ==
  /\ FlattenSeq(pages) = [i \in 1 .. n |-> i]
  /\ \A p \in 4 .. Len(pages) : Len(pages[p]) \in 1 .. (NextRowAt - ContentBottom) \div RowHeight
  /\ Len(pages[3]) <= (FirstRowAt - ContentBottom) \div RowHeight

(***************************************************************************)
(* The chat gets the file at most once, and whole: neither a job given out *)
(* again nor a crash sends a second copy, and what is sent has every line  *)
(* of the table on a page that has room for it.                            *)
(***************************************************************************)
DocumentIsWhole ==
  \A r \in Report :
    /\ Len(documents[r]) <= 1
    /\ \A i \in DOMAIN documents[r] : ShowsEveryRow(documents[r][i], rowCount[r])

\* Nobody will go on with r: its request died before queuing a job, or the
\* queue gave the job up.
GivenUp(r) ==
  \/ asking[r] = "over" /\ job[r] = "none"
  \/ job[r] = "failed"

\* Somebody will: its request, the queue, or a worker on its job.
InHand(r) ==
  \/ asking[r] = "inserted"
  \/ job[r] = "waiting"
  \/ job[r] = "active" /\ worker[r] # "idle"

(***************************************************************************)
(* What the list of reports shows is so, also while a job given out again  *)
(* renders a second time: a report that has succeeded has its file on      *)
(* disk, and one that is queued or running is being seen to, unless it was *)
(* given up in one of the two ways nobody sweeps.                          *)
(***************************************************************************)
StatusIsTrue ==
  \A r \in Report :
    /\ row[r] = "succeeded" => artifact[r] # <<>>
    /\ row[r] \in {"queued", "running"} => InHand(r) \/ GivenUp(r)

(***************************************************************************)
(* A queued report comes to an end unless it is given up.                  *)
(***************************************************************************)
ReportResolves ==
  \A r \in Report :
    row[r] = "queued" ~> row[r] \in {"succeeded", "failed"} \/ GivenUp(r)
=============================================================================
