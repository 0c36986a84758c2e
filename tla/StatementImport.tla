-------------------------- MODULE StatementImport --------------------------
(***************************************************************************)
(* Bank statement imports: uploads, the chain that processes them one      *)
(* after the other in one process, and retries of failed files.            *)
(*                                                                         *)
(* Every await of the processor is a step of its own, so that retry        *)
(* requests and crashes fall between any two of them.  A database call may *)
(* fail.  What a PDF contains is a sequence of movements, each standing    *)
(* for a date, an amount and a normalised description.                     *)
(***************************************************************************)
EXTENDS Integers, SequencesExt, Money

CONSTANTS
  Jobs,          \* imports
  Files,         \* uploaded PDF files
  FilesOf,       \* FilesOf[j]: the files of import j, in the order of their ids
  Movements,     \* movements that statements report
  Content,       \* Content[f]: the movements the text of f reports
  Locked,        \* files that only open with their password
  Foreign,       \* files that do not start as a PDF does
  Broken,        \* PDFs that cannot be read
  Skips,         \* the values of skip_duplicates that uploads ask for
  Retries,       \* identities of retry requests, each sent once
  MaxFaults,     \* database calls that fail, at most
  MaxCrashes,    \* restarts of the process, at most
  None

ASSUME ImportAssumption ==
  /\ FilesOf \in [Jobs -> Seq(Files)]
  /\ \A i, j \in Jobs : \A k \in DOMAIN FilesOf[i], l \in DOMAIN FilesOf[j] :
       FilesOf[i][k] = FilesOf[j][l] => i = j /\ k = l
  /\ \A j \in Jobs : FilesOf[j] # <<>>
  /\ Content \in [Files -> Seq(Movements)]
  /\ Skips \subseteq BOOLEAN
  /\ Locked \cup Foreign \cup Broken \subseteq Files
  /\ {MaxFaults, MaxCrashes} \subseteq Nat

VARIABLES
  job,      \* job[j]: the row of statement_import, or None
  file,     \* file[f]: the row of statement_import_file, or None
  disk,     \* the files whose PDF is in the temporary directory
  book,     \* book[m]: live movements with the fingerprint of m
  chain,    \* the batches waiting in the promise chain
  run,      \* the batch in progress, or None
  ask,      \* ask[q]: how far retry request q is
  faults, crashes,
  stored,   \* stored[f]: how often createMany committed movements of f
  notices   \* the completions that were notified, with their counts

vars == <<job, file, disk, book, chain, run, ask, faults, crashes, stored, notices>>

JobStatus  == {"pending", "processing", "completed", "partial", "failed"}
FileStatus == {"pending", "processing", "success", "failed"}
Codes   == {"PDF_PASSWORD_REQUIRED", "PDF_WRONG_PASSWORD", "PDF_INVALID",
            "UNSUPPORTED_FILE", "NO_TRANSACTIONS"}
JobRow  == [status: JobStatus, skip: BOOLEAN, processed: Nat, success: Nat, failed: Nat,
            created: Nat]
FileRow == [status: FileStatus, storage: BOOLEAN, code: Codes \cup {None}, created: Nat]

\* A closure of the chain: which batch, whether it is a retry, and the password
\* of the request (it is not persisted).
Batch(j, retry, key) == [job |-> j, retry |-> retry, key |-> key]
Batches == [job: Jobs, retry: BOOLEAN, key: {"none", "wrong", "right"}]

\* The batch in progress: where it is, and the files that are left by their
\* position in the import.
Steps == {"begin", "load", "file", "parse", "store", "good", "bad", "remove", "clear",
          "finish", "notify"}
Positions == UNION {DOMAIN FilesOf[j] : j \in Jobs}
Todos == UNION {[S -> [id: Files, path: BOOLEAN]] : S \in SUBSET Positions}
Runs == [batch: Batches, step: Steps, todo: Todos, ok: Nat, bad: Nat, created: Nat,
         code: Codes \cup {None}, lost: BOOLEAN, dir: BOOLEAN]

\* The retry requests: the call that is next, and the batch they are for.
RetryBatches == [job: Jobs, retry: {TRUE}, key: {"none", "wrong", "right"}]
Asks == [step: {"files", "job", "enqueue", "done"}, batch: RetryBatches]

\* None is not a row, nor a batch in progress, nor a retry.
ASSUME RowAssumption == None \notin JobRow \cup FileRow \cup Runs \cup Asks

FilesIn(j) == ToSet(FilesOf[j])

\* Passwords are told apart where a file needs one.
Passwords(j) == IF FilesIn(j) \cap Locked = {} THEN {"none"} ELSE {"none", "wrong", "right"}

FailedFiles(j) == {f \in FilesIn(j) : file[f] # None /\ file[f].status = "failed"}

Fault == faults < MaxFaults /\ faults' = faults + 1
NoFault == UNCHANGED faults

-----------------------------------------------------------------------------
(***************************************************************************)
(* Requests.                                                               *)
(***************************************************************************)
\* The rows of an upload, which the repository stores in one transaction.
NewJob(skip) == [status |-> "pending", skip |-> skip,
                 processed |-> 0, success |-> 0, failed |-> 0, created |-> 0]
NewFile == [status |-> "pending", storage |-> TRUE, code |-> None, created |-> 0]

\* createJob writes the PDFs, stores the rows and joins the chain.  When the
\* database fails it removes the PDFs again and nothing has changed.
Upload(j, skip, key) ==
  /\ job[j] = None
  /\ job' = [job EXCEPT ![j] = NewJob(skip)]
  /\ file' = [f \in Files |-> IF f \in FilesIn(j) THEN NewFile ELSE file[f]]
  /\ disk' = disk \cup FilesIn(j)
  /\ chain' = Append(chain, Batch(j, FALSE, key))
  /\ UNCHANGED <<book, run, ask, faults, crashes, stored, notices>>

\* retryJob refuses an import without failed files, or with one whose PDF is
\* no longer stored.
MayRetry(j) ==
  /\ job[j] # None
  /\ FailedFiles(j) # {}
  /\ \A f \in FailedFiles(j) : file[f].storage

RetryCheck(q, j, key) ==
  /\ ask[q] = None
  /\ MayRetry(j)
  /\ ask' = [ask EXCEPT ![q] = [step |-> "files", batch |-> Batch(j, TRUE, key)]]
  /\ UNCHANGED <<job, file, disk, book, chain, run, faults, crashes, stored, notices>>

RetryAt(q, step) == ask[q] # None /\ ask[q].step = step
RetryGoes(q, step) == ask' = [ask EXCEPT ![q].step = step]

\* resetFailedFilesForRetry: first the files, then the import.
RetryResetFiles(q) ==
  /\ RetryAt(q, "files")
  /\ file' = [f \in Files |-> IF f \in FailedFiles(ask[q].batch.job)
                              THEN [file[f] EXCEPT !.status = "pending", !.code = None,
                                                   !.created = 0]
                              ELSE file[f]]
  /\ RetryGoes(q, "job")
  /\ UNCHANGED <<job, disk, book, chain, run, faults, crashes, stored, notices>>

RetryResetJob(q) ==
  /\ RetryAt(q, "job")
  /\ job' = [job EXCEPT ![ask[q].batch.job].status = "pending",
                        ![ask[q].batch.job].processed = 0,
                        ![ask[q].batch.job].failed = 0]
  /\ RetryGoes(q, "enqueue")
  /\ UNCHANGED <<file, disk, book, chain, run, faults, crashes, stored, notices>>

RetryEnqueue(q) ==
  /\ RetryAt(q, "enqueue")
  /\ chain' = Append(chain, ask[q].batch)
  /\ RetryGoes(q, "done")
  /\ UNCHANGED <<job, file, disk, book, run, faults, crashes, stored, notices>>

\* A call of the retry that fails leaves the rest undone.
RetryFails(q) ==
  /\ RetryAt(q, "files") \/ RetryAt(q, "job")
  /\ Fault
  /\ RetryGoes(q, "done")
  /\ UNCHANGED <<job, file, disk, book, chain, run, crashes, stored, notices>>

-----------------------------------------------------------------------------
(***************************************************************************)
(* The processor: processJob and processRetryJob.                          *)
(***************************************************************************)
At(step) == run # None /\ run.step = step
Goes(step) == run' = [run EXCEPT !.step = step]

\* The file whose turn it is.
Current == run.todo[Min(DOMAIN run.todo)]

\* The error leaves the function: the chain logs it and takes the next batch.
Throws == run' = None

Start(b) == [batch |-> b, step |-> "begin", todo |-> <<>>, ok |-> 0, bad |-> 0,
             created |-> 0, code |-> None, lost |-> FALSE, dir |-> FALSE]

\* Mutant: without its catch a rejected chain runs none of the later batches.
DequeueUnlessRejected ==
  /\ run = None /\ chain # <<>>
  /\ \A j \in Jobs : job[j] # None => job[j].status # "processing"
  /\ chain' = Tail(chain)
  /\ run' = Start(Head(chain))
  /\ NoFault
  /\ UNCHANGED <<job, file, disk, book, ask, crashes, stored, notices>>

\* A batch that is no retry reads its import, and leaves unless it is pending.
Dequeue ==
  /\ run = None /\ chain # <<>>
  /\ chain' = Tail(chain)
  /\ LET b == Head(chain)
     IN  \/ /\ NoFault
            /\ run' = IF b.retry \/ job[b.job].status = "pending" THEN Start(b) ELSE None
         \/ ~b.retry /\ Fault /\ Throws
  /\ UNCHANGED <<job, file, disk, book, ask, crashes, stored, notices>>

\* markProcessing.
MarkProcessing ==
  /\ At("begin")
  /\ \/ /\ NoFault
        /\ job' = [job EXCEPT ![run.batch.job].status = "processing"]
        /\ Goes("load")
     \/ Fault /\ Throws /\ UNCHANGED job
  /\ UNCHANGED <<file, disk, book, chain, ask, crashes, stored, notices>>

\* Mutant: a retry takes all of the files.
LoadFilesAll ==
  /\ At("load")
  /\ NoFault
  /\ LET chosen == FilesOf[run.batch.job]
     IN  run' = [run EXCEPT !.step = "file",
                            !.todo = [k \in DOMAIN chosen |->
                                        [id |-> chosen[k],
                                         path |-> file[chosen[k]].storage]]]
  /\ UNCHANGED <<job, file, disk, book, chain, ask, crashes, stored, notices>>

\* findFilesByImport: a retry takes the pending ones.  Each is kept with the
\* storage path it has now.
LoadFiles ==
  /\ At("load")
  /\ \/ /\ NoFault
        /\ LET all == FilesOf[run.batch.job]
               chosen == {k \in DOMAIN all : run.batch.retry => file[all[k]].status = "pending"}
           IN  run' = [run EXCEPT !.step = IF chosen = {} THEN "finish" ELSE "file",
                                  !.todo = [k \in chosen |->
                                              [id |-> all[k], path |-> file[all[k]].storage]],
                                  !.dir = /\ chosen # {}
                                          /\ file[all[Max(chosen)]].storage]
     \/ Fault /\ Throws
  /\ UNCHANGED <<job, file, disk, book, chain, ask, crashes, stored, notices>>

MarkFile(status) == file' = [file EXCEPT ![Current.id].status = status]

MarkFileProcessing ==
  /\ At("file")
  /\ \/ NoFault /\ MarkFile("processing") /\ Goes("parse")
     \/ Fault /\ Throws /\ UNCHANGED file
  /\ UNCHANGED <<job, disk, book, chain, ask, crashes, stored, notices>>

\* What classifyError makes of an error: the password of a locked PDF, a file that
\* is none, a text without movements.  All else is told as an invalid PDF: one that
\* is no longer on the disk, and a call to the database that failed.
Trouble(f, key) ==
  IF f \in Foreign THEN "UNSUPPORTED_FILE"
  ELSE IF f \in Locked /\ key = "none" THEN "PDF_PASSWORD_REQUIRED"
  ELSE IF f \in Locked /\ key = "wrong" THEN "PDF_WRONG_PASSWORD"
  ELSE IF f \in Broken THEN "PDF_INVALID"
  ELSE IF Content[f] = <<>> THEN "NO_TRANSACTIONS"
  ELSE None

Fails(code) == run' = [run EXCEPT !.step = "bad", !.code = code]

\* processFile up to the parsed movements.
ReadFile ==
  /\ At("parse")
  /\ LET found == Current.path /\ Current.id \in disk
         trouble == Trouble(Current.id, run.batch.key)
     IN  IF ~found THEN Fails("PDF_INVALID")
         ELSE IF trouble # None THEN Fails(trouble)
         ELSE Goes("store")
  /\ NoFault
  /\ UNCHANGED <<job, file, disk, book, chain, ask, crashes, stored, notices>>

\* Fingerprints of a parsed movement and of a stored one: the parser writes the
\* date as text, the driver returns the column as a Date whose text differs.
ParsedPrint(m) == <<"2026-08-01", m>>
StoredPrint(m) == <<"Sat Aug 01 2026 00:00:00 GMT+0000", m>>

\* The movements of f that are not skipped; within a file each one counts once.
ToCreate(f, skip) ==
  LET existing == IF skip THEN {StoredPrint(m) : m \in {n \in Movements : book[n] > 0}}
                          ELSE {}
  IN  {m \in ToSet(Content[f]) : ParsedPrint(m) \notin existing}

\* Mutant: an error of createMany is only logged.
StoreMovementsSwallows ==
  /\ At("store")
  /\ \/ /\ NoFault
        /\ book' = [m \in Movements |-> IF m \in ToCreate(Current.id, FALSE)
                                        THEN book[m] + 1 ELSE book[m]]
        /\ stored' = [stored EXCEPT ![Current.id] = @ + 1]
     \/ Fault /\ UNCHANGED <<book, stored>>
  /\ Goes("good")
  /\ UNCHANGED <<job, file, disk, chain, ask, crashes, notices>>

\* createMany is one transaction: all of the movements or none.
StoreMovements ==
  /\ At("store")
  /\ \/ /\ NoFault
        /\ LET new == ToCreate(Current.id, job[run.batch.job].skip)
           IN  /\ book' = [m \in Movements |-> IF m \in new THEN book[m] + 1 ELSE book[m]]
               /\ stored' = [stored EXCEPT ![Current.id] = IF new = {} THEN @ ELSE @ + 1]
        /\ Goes("good")
     \/ Fault /\ Fails("PDF_INVALID") /\ UNCHANGED <<book, stored>>
  /\ UNCHANGED <<job, file, disk, chain, ask, crashes, notices>>

\* The movements that processFile says it created of f.
Reported(f) == Cardinality(ToCreate(f, job[run.batch.job].skip))

Succeeded(f) == file' = [file EXCEPT ![f].status = "success", ![f].code = None,
                                     ![f].created = Reported(f)]

\* Mutant: the counter moves before the row is written.
MarkSuccessCountsFirst ==
  /\ At("good")
  /\ \/ NoFault /\ Succeeded(Current.id)
     \/ Fault /\ UNCHANGED file
  /\ run' = [run EXCEPT !.step = IF file' = file THEN "bad" ELSE "remove",
                         !.code = IF file' = file THEN "PDF_INVALID" ELSE None, !.ok = @ + 1,
                         !.created = @ + Reported(Current.id)]
  /\ UNCHANGED <<job, disk, book, chain, ask, crashes, stored, notices>>

\* markFileSuccess; when it fails the file is taken for a failed one.
MarkSuccess ==
  /\ At("good")
  /\ \/ /\ NoFault
        /\ Succeeded(Current.id)
        /\ run' = [run EXCEPT !.step = "remove", !.ok = @ + 1,
                              !.created = @ + Reported(Current.id)]
     \/ Fault /\ Fails("PDF_INVALID") /\ UNCHANGED file
  /\ UNCHANGED <<job, disk, book, chain, ask, crashes, stored, notices>>

MarkFailed ==
  /\ At("bad")
  /\ \/ /\ NoFault
        /\ file' = [file EXCEPT ![Current.id].status = "failed",
                                ![Current.id].code = run.code]
        /\ run' = [run EXCEPT !.step = "remove", !.bad = @ + 1, !.code = None]
     \/ /\ Fault
        /\ run' = [run EXCEPT !.step = "remove", !.lost = TRUE, !.code = None]
        /\ UNCHANGED file
  /\ UNCHANGED <<job, disk, book, chain, ask, crashes, stored, notices>>

\* Mutant: the PDF of a failed file is kept for a retry.
RemovePdfOfSuccess ==
  /\ At("remove")
  /\ disk' = IF Current.path /\ file[Current.id].status = "success"
             THEN disk \ {Current.id} ELSE disk
  /\ Goes("clear")
  /\ NoFault
  /\ UNCHANGED <<job, file, book, chain, ask, crashes, stored, notices>>

\* Mutant: the whole directory is removed with the first file.
RemovePdfAndDirectory ==
  /\ At("remove")
  /\ disk' = disk \ FilesIn(run.batch.job)
  /\ Goes("clear")
  /\ NoFault
  /\ UNCHANGED <<job, file, book, chain, ask, crashes, stored, notices>>

\* cleanupFile, in the finally block: the PDF, then its path.
RemovePdf ==
  /\ At("remove")
  /\ disk' = IF Current.path THEN disk \ {Current.id} ELSE disk
  /\ Goes("clear")
  /\ NoFault
  /\ UNCHANGED <<job, file, book, chain, ask, crashes, stored, notices>>

Later == DOMAIN run.todo \ {Min(DOMAIN run.todo)}

NextFile == run' = [run EXCEPT !.todo = Restrict(@, Later),
                               !.step = IF Later = {} THEN "finish" ELSE "file"]

ClearPath ==
  /\ At("clear")
  /\ \/ /\ NoFault
        /\ file' = IF Current.path THEN [file EXCEPT ![Current.id].storage = FALSE]
                                   ELSE file
        /\ IF run.lost THEN Throws ELSE NextFile
     \/ Current.path /\ Fault /\ Throws /\ UNCHANGED file
  /\ UNCHANGED <<job, disk, book, chain, ask, crashes, stored, notices>>

\* finishJob counts the files of this batch.
Verdict(ok, bad) == IF ok = 0 THEN "failed" ELSE IF bad > 0 THEN "partial" ELSE "completed"

Total ==
  [job EXCEPT ![run.batch.job].status = Verdict(run.ok, run.bad),
              ![run.batch.job].processed = run.ok + run.bad,
              ![run.batch.job].success = run.ok,
              ![run.batch.job].failed = run.bad,
              ![run.batch.job].created = run.created]

\* Mutant: nothing more is done for an import with a failed file.
FinishJobOrLeave ==
  /\ At("finish")
  /\ NoFault
  /\ job' = Total
  /\ IF run.bad > 0 THEN Throws ELSE Goes("notify")
  /\ UNCHANGED <<file, disk, book, chain, ask, crashes, stored, notices>>

\* The update of the row, or the reads behind it, may fail.
FinishJob ==
  /\ At("finish")
  /\ \/ NoFault /\ job' = Total /\ Goes("notify")
     \/ Fault /\ Throws /\ job' \in {job, Total}
  /\ UNCHANGED <<file, disk, book, chain, ask, crashes, stored, notices>>

\* notifyCompletion: what the owner is told.
Completion == [job |-> run.batch.job, files |-> run.ok + run.bad, failed |-> run.bad,
               created |-> run.created]

\* A notification that fails is only logged.  The directory goes last, when the
\* last file of the batch had a path.
Notify ==
  /\ At("notify")
  /\ \/ NoFault /\ notices' = notices \cup {Completion}
     \/ Fault /\ UNCHANGED notices
  /\ disk' = IF run.dir THEN disk \ FilesIn(run.batch.job) ELSE disk
  /\ run' = None
  /\ UNCHANGED <<job, file, book, chain, ask, crashes, stored>>

\* The process restarts: the chain, the batch and the requests are gone, the
\* temporary directory may be.
Crash ==
  /\ crashes < MaxCrashes
  /\ crashes' = crashes + 1
  /\ chain' = <<>> /\ run' = None
  /\ ask' = [q \in Retries |-> IF ask[q] = None THEN None
                               ELSE [ask[q] EXCEPT !.step = "done"]]
  /\ disk' \in {disk, {}}
  /\ UNCHANGED <<job, file, book, faults, stored, notices>>

-----------------------------------------------------------------------------
Init ==
  /\ job = [j \in Jobs |-> None]
  /\ file = [f \in Files |-> None]
  /\ disk = {}
  /\ book = [m \in Movements |-> 0]
  /\ chain = <<>> /\ run = None
  /\ ask = [q \in Retries |-> None]
  /\ faults = 0 /\ crashes = 0
  /\ stored = [f \in Files |-> 0]
  /\ notices = {}

Process ==
  \/ Dequeue \/ MarkProcessing \/ LoadFiles \/ MarkFileProcessing \/ ReadFile
  \/ StoreMovements \/ MarkSuccess \/ MarkFailed \/ RemovePdf \/ ClearPath
  \/ FinishJob \/ Notify

RetryStep(q) == RetryResetFiles(q) \/ RetryResetJob(q) \/ RetryEnqueue(q)

Request ==
  \/ \E j \in Jobs, skip \in Skips : \E key \in Passwords(j) : Upload(j, skip, key)
  \/ \E q \in Retries, j \in Jobs : \E key \in Passwords(j) : RetryCheck(q, j, key)

Next ==
  \/ Request
  \/ \E q \in Retries : RetryStep(q) \/ RetryFails(q)
  \/ Process
  \/ Crash

Spec == Init /\ [][Next]_vars

\* The promises of a running process settle.
FairSpec == Spec /\ WF_vars(Process) /\ \A q \in Retries : WF_vars(RetryStep(q))

-----------------------------------------------------------------------------
\* A file reported as imported has all of its movements among the records,
\* whatever fails and whenever the process restarts.
SuccessMeansStored ==
  \A f \in Files : file[f] # None /\ file[f].status = "success"
                   => \A m \in ToSet(Content[f]) : book[m] > 0

\* The movements of one upload are created once, unless a failed call and a
\* restart come together: the PDF is removed in the finally block, so that a file
\* whose success could not be written is not read again by a retry.
ImportedOnce ==
  faults = 0 \/ crashes = 0 => \A f \in Files : stored[f] <= 1

\* An imported file is never taken up again, by any number of retries.
SuccessFinal ==
  [][\A f \in Files : file[f] # None /\ file[f].status = "success"
                      => file'[f].status = "success"]_vars

\* A batch fails a file only for what is in the PDF or for a failed call: its
\* PDF is there until its turn comes, whatever became of the files before it
\* and of other imports.  The code that is told says which of the two: only a
\* locked file asks for a password, also when calls failed.
OnlyUnreadableFail ==
  [][\A f \in Files :
       file[f] # None /\ file'[f].status = "failed" /\ file[f].status # "failed" =>
         LET trouble == Trouble(f, run.batch.key)
         IN  IF run.batch.retry \/ faults + crashes > 0
             THEN file'[f].code \in {trouble, "PDF_INVALID"}
             ELSE file'[f].code = trouble]_vars

Finished(j) == job[j] # None /\ job[j].status \in {"completed", "partial", "failed"}
CountFiles(j, status) == Cardinality({f \in FilesIn(j) : file[f].status = status})
Asking(j) == \E q \in Retries : ask[q] # None /\ ask[q].batch.job = j

\* The movements that the row of each file says were created.
Created == [f \in Files |-> IF file[f] = None THEN 0 ELSE file[f].created]

\* The totals of a finished import that nobody retried are those of its files, the
\* movements created among them.
ReportMatchesFiles ==
  \A j \in Jobs : Finished(j) /\ ~Asking(j) =>
    /\ job[j].success = CountFiles(j, "success")
    /\ job[j].failed = CountFiles(j, "failed")
    /\ job[j].processed = Len(FilesOf[j])
    /\ job[j].created = Sum(FilesIn(j), Created)
    /\ job[j].status = "completed" <=> FilesIn(j) = {f \in FilesIn(j) :
                                                      file[f].status = "success"}

Queued(j) == \E k \in DOMAIN chain : chain[k].job = j

\* No batch is stuck in the chain, whatever became of the ones before it.
ChainDrains == \A j \in Jobs : Queued(j) ~> ~Queued(j)

Told(j) == [job |-> j, files |-> job[j].processed, failed |-> job[j].failed,
            created |-> job[j].created]

\* Without failed calls and restarts every upload ends finished, its owner is
\* told of the totals it has and none of its PDFs stays behind.
UploadsEnd ==
  \A j \in Jobs : job[j] # None ~>
    \/ faults + crashes > 0
    \/ Finished(j) /\ Told(j) \in notices /\ disk \cap FilesIn(j) = {}

-----------------------------------------------------------------------------
Quiet == run = None /\ chain = <<>> /\ faults = 0 /\ crashes = 0

\* The endpoint of retries promises "Reintentar archivos fallidos de una carga
\* de extractos existente": a finished import with failed files can be retried.
RetryPossible ==
  \A j \in Jobs : Quiet /\ Finished(j) /\ FailedFiles(j) # {} => MayRetry(j)

\* With skip_duplicates an import leaves out the movements that are registered
\* already ("omitir movimientos ya registrados").
ReuploadSkipsRegistered ==
  [][\A m \in Movements :
       (At("store") /\ job[run.batch.job].skip /\ book[m] > 0)
       => book'[m] = book[m]]_vars
=============================================================================
