----------------------- MODULE StatementImportProofs -----------------------
(***************************************************************************)
(* For any number of imports, files, retries, failed calls and restarts:   *)
(* a file reported as imported is stored, it stays so, it is stored once   *)
(* unless calls fail and the process restarts, a file fails only for what  *)
(* is in it or for a failed call, and the totals of an import that nobody  *)
(* asked to retry are those of its files.                                  *)
(***************************************************************************)
EXTENDS StatementImport, MoneyProofs, WellFoundedInduction

TypeInv ==
  /\ job \in [Jobs -> JobRow \cup {None}]
  /\ file \in [Files -> FileRow \cup {None}]
  /\ disk \subseteq Files
  /\ book \in [Movements -> Nat]
  /\ chain \in Seq(Batches)
  /\ run \in Runs \cup {None}
  /\ ask \in [Retries -> Asks \cup {None}]
  /\ faults \in Nat /\ crashes \in Nat
  /\ stored \in [Files -> Nat]

\* The rows, the PDFs and the movements of an import begin with its upload.
UploadInv ==
  \A j \in Jobs : \A f \in FilesIn(j) :
    IF job[j] = None THEN file[f] = None /\ stored[f] = 0 ELSE file[f] \in FileRow

\* What waits or runs is of an import that was uploaded.
UploadedInv ==
  /\ \A k \in DOMAIN chain : job[chain[k].job] # None
  /\ run # None => job[run.batch.job] # None
  /\ \A q \in Retries : ask[q] # None => job[ask[q].batch.job] # None

Untouched(j) ==
  \A f \in FilesIn(j) : /\ file[f].status = "pending" /\ file[f].storage
                        /\ stored[f] = 0
                        /\ crashes = 0 => f \in disk

\* While the first batch of an import waits nothing else is about that import, and
\* until it has loaded the files they are as they were uploaded.
WaitInv ==
  \A k \in DOMAIN chain : ~chain[k].retry =>
    /\ Untouched(chain[k].job)
    /\ \A l \in DOMAIN chain : chain[l].job = chain[k].job => l = k
    /\ run # None => run.batch.job # chain[k].job
    /\ \A q \in Retries : ask[q] # None => ask[q].batch.job # chain[k].job

BeginInv == At("begin") \/ At("load") => run.batch.retry \/ Untouched(run.batch.job)

InLoop == run # None /\ run.step \in {"file", "parse", "store", "good", "bad", "remove", "clear"}
First == Min(DOMAIN run.todo)

\* The files that are left are files of the import, in their order.
TodoInv ==
  InLoop => /\ DOMAIN run.todo \subseteq DOMAIN FilesOf[run.batch.job]
            /\ DOMAIN run.todo # {}
            /\ \A k \in DOMAIN run.todo : run.todo[k].id = FilesOf[run.batch.job][k]

\* Those whose turn has not come are pending, and the one whose turn it is, is being
\* processed; the PDFs of a first batch are there until their turn, and the PDF of a
\* file that was read until it is removed.
TurnInv ==
  InLoop =>
    /\ \A k \in DOMAIN run.todo :
         /\ run.step = "file" \/ k # First => file[run.todo[k].id].status = "pending"
         /\ (run.step \in {"file", "parse"} \/ k # First) /\ ~run.batch.retry /\ crashes = 0
              => run.todo[k].path /\ run.todo[k].id \in disk
    /\ run.step \in {"parse", "store", "good", "bad"} =>
         file[Current.id].status = "processing"
    /\ run.step = "store" => Current.path /\ Current.id \in disk

\* What a file has when it is about to be reported.
VerdictInv ==
  /\ At("good") => \A m \in ToSet(Content[Current.id]) : book[m] > 0
  /\ At("bad") => LET trouble == Trouble(Current.id, run.batch.key)
                  IN  /\ run.code \in {trouble, "PDF_INVALID"}
                      /\ ~run.batch.retry /\ faults + crashes = 0 => run.code = trouble

\* Without a restart a file that was stored has lost its PDF, or is about to.
NoRestartInv ==
  crashes = 0 =>
    \A f \in Files :
      /\ stored[f] <= 1
      /\ stored[f] = 1 => \/ f \notin disk
                          \/ /\ InLoop /\ run.step \in {"good", "bad", "remove"}
                             /\ Current.id = f /\ Current.path

\* Without a failed call a file that was stored is never again pending or failed.
NoFaultInv ==
  faults = 0 =>
    /\ \A f \in Files : stored[f] <= 1
    /\ \A j \in Jobs : \A f \in FilesIn(j) :
         file[f] # None /\ file[f].status \in {"pending", "failed"} => stored[f] = 0
    /\ InLoop /\ run.step \in {"parse", "store", "bad"} => stored[Current.id] = 0

IInv ==
  /\ TypeInv /\ UploadInv /\ UploadedInv /\ WaitInv /\ BeginInv /\ TodoInv /\ TurnInv
  /\ SuccessMeansStored /\ VerdictInv /\ NoRestartInv /\ NoFaultInv
-----------------------------------------------------------------------------
(***************************************************************************)
(* Facts about the operators.                                              *)
(***************************************************************************)
LEMMA NoneOfBoth ==
  ASSUME NEW a \in Nat, NEW b \in Nat
  PROVE  a + b = 0 <=> a = 0 /\ b = 0
  OBVIOUS

LEMMA MinIsLeast ==
  ASSUME NEW S, S \subseteq Nat, S # {}
  PROVE  Min(S) \in S /\ \A k \in S : Min(S) <= k
  <1>1. \E x \in S : \A y \in S : ~(<<y, x>> \in OpToRel(<, Nat))
    BY NatLessThanWellFounded, WFMin
  <1>2. PICK x \in S : \A y \in S : ~(<<y, x>> \in OpToRel(<, Nat))
    BY <1>1
  <1>3. \A y \in S : ~(y < x)
    <2> TAKE y \in S
    <2>1. <<y, x>> \notin OpToRel(<, Nat)
      BY <1>2
    <2>2. x \in Nat /\ y \in Nat
      OBVIOUS
    <2> QED
      BY <2>1, <2>2 DEF OpToRel
  <1>4. \A y \in S : x <= y
    <2> TAKE y \in S
    <2>1. x \in Nat /\ y \in Nat
      OBVIOUS
    <2> QED
      BY <1>3, <2>1
  <1> QED
    BY <1>4 DEF Min

\* A file is of one import and at one position of it.
LEMMA FilesApart ==
  ASSUME NEW i \in Jobs, NEW j \in Jobs
  PROVE  /\ FilesIn(j) \subseteq Files
         /\ i # j => FilesIn(i) \cap FilesIn(j) = {}
         /\ \A k \in DOMAIN FilesOf[j] :
              /\ FilesOf[j][k] \in FilesIn(j) /\ k \in Nat
              /\ \A l \in DOMAIN FilesOf[j] : FilesOf[j][k] = FilesOf[j][l] => k = l
  BY ImportAssumption DEF FilesIn, ToSet

LEMMA AllAreCreated ==
  ASSUME NEW f \in Files, NEW skip
  PROVE  ToCreate(f, skip) = ToSet(Content[f])
  BY DEF ToCreate, ParsedPrint, StoredPrint

LEMMA ContentFinite ==
  ASSUME NEW f \in Files
  PROVE  /\ ToSet(Content[f]) \subseteq Movements
         /\ Cardinality(ToSet(Content[f])) \in Nat
  <1>1. Content[f] \in Seq(Movements)
    BY ImportAssumption
  <1> DEFINE s == Content[f]
  <1>2. s \in [1..Len(s) -> Movements] /\ Len(s) \in Nat /\ DOMAIN s = 1..Len(s)
    BY <1>1
  <1>3. IsFiniteSet(1..Len(s))
    BY <1>2, FS_Interval
  <1> HIDE DEF s
  <1>4. ToSet(s) = {s[i] : i \in 1..Len(s)} /\ ToSet(s) \subseteq Movements
    BY <1>2 DEF ToSet
  <1>5. s \in Surjection(1..Len(s), ToSet(s))
    BY <1>2, <1>4 DEF Surjection
  <1>6. IsFiniteSet(ToSet(s))
    BY <1>3, <1>5, FS_Surjection
  <1> QED
    BY <1>4, <1>6, FS_CardinalityType DEF s

LEMMA CurrentIsFirst ==
  ASSUME TypeInv, TodoInv, InLoop
  PROVE  /\ run \in Runs /\ run.batch.job \in Jobs
         /\ First \in DOMAIN run.todo /\ First \in DOMAIN FilesOf[run.batch.job]
         /\ Current = run.todo[First] /\ Current \in [id: Files, path: BOOLEAN]
         /\ Current.id = FilesOf[run.batch.job][First]
         /\ Current.id \in FilesIn(run.batch.job) /\ Current.id \in Files
  <1>1. run \in Runs /\ run.batch.job \in Jobs
    BY DEF TypeInv, InLoop, Runs, Batches
  <1>2. DOMAIN run.todo \subseteq DOMAIN FilesOf[run.batch.job] /\ DOMAIN run.todo # {}
    BY DEF TodoInv
  <1>3. DOMAIN FilesOf[run.batch.job] \subseteq Nat
    BY <1>1, FilesApart
  <1>4. First \in DOMAIN run.todo
    BY <1>2, <1>3, MinIsLeast DEF First
  <1>5. run.todo \in Todos
    BY <1>1 DEF Runs
  <1>6. run.todo[First] \in [id: Files, path: BOOLEAN]
    BY <1>4, <1>5 DEF Todos
  <1>7. Current = run.todo[First]
    BY DEF Current, First
  <1>8. Current.id = FilesOf[run.batch.job][First]
    BY <1>4, <1>7 DEF TodoInv
  <1> QED
    BY <1>1, <1>2, <1>4, <1>6, <1>7, <1>8, FilesApart

LEMMA UntouchedStays ==
  ASSUME NEW j \in Jobs, Untouched(j), crashes' = crashes,
         \A f \in FilesIn(j) : /\ file'[f] = file[f] /\ stored'[f] = stored[f]
                               /\ f \in disk => f \in disk'
  PROVE  Untouched(j)'
  BY DEF Untouched, FilesIn

LEMMA BatchesOf ==
  ASSUME NEW s \in Seq(Batches), NEW k \in DOMAIN s
  PROVE  s[k] \in Batches /\ s[k].job \in Jobs
  <1>1. s[k] \in Batches
    OBVIOUS
  <1> QED
    BY <1>1 DEF Batches

LEMMA AppendFacts ==
  ASSUME NEW s \in Seq(Batches), NEW b \in Batches
  PROVE  /\ Append(s, b) \in Seq(Batches)
         /\ \A k \in DOMAIN Append(s, b) :
              \/ k \in DOMAIN s /\ Append(s, b)[k] = s[k]
              \/ k = Len(s) + 1 /\ Append(s, b)[k] = b
  OBVIOUS
-----------------------------------------------------------------------------
(***************************************************************************)
(* Requests.                                                               *)
(***************************************************************************)
\* What a request does to the files is nothing to the batch in progress: it leaves
\* those of its import alone, but for failed ones.
LEMMA BatchUndisturbed ==
  ASSUME TypeInv, TodoInv, TurnInv, VerdictInv,
         run' = run, book' = book, crashes' = crashes, disk \subseteq disk',
         faults' = 0 => faults = 0,
         faults' \in Nat,
         run # None => \A f \in FilesIn(run.batch.job) :
                         file'[f] = file[f] \/ file[f].status = "failed"
  PROVE  TodoInv' /\ TurnInv' /\ VerdictInv'
  <1>1. InLoop' = InLoop /\ First' = First /\ Current' = Current
    BY DEF InLoop, First, Current
  <1>2. TodoInv'
    BY <1>1 DEF TodoInv
  <1>3. TurnInv'
    <2> SUFFICES ASSUME InLoop
                 PROVE  TurnInv'
      BY <1>1 DEF TurnInv
    <2>1. \A k \in DOMAIN run.todo : run.todo[k].id \in FilesIn(run.batch.job)
      BY CurrentIsFirst, FilesApart DEF TodoInv
    <2>2. run # None /\ Current.id \in FilesIn(run.batch.job)
      BY CurrentIsFirst DEF InLoop
    <2>3. \A f \in FilesIn(run.batch.job) :
            file[f].status \in {"pending", "processing"} => file'[f] = file[f]
      BY <2>2
    <2> QED
      BY <1>1, <2>1, <2>2, <2>3 DEF TurnInv
  <1>4. VerdictInv'
    <2>1. At("good")' = At("good") /\ At("bad")' = At("bad")
      BY DEF At
    <2>2. ToSet(Content[Current.id])' = ToSet(Content[Current.id])
      BY <1>1 DEF ToSet
    <2>3. Trouble(Current.id, run.batch.key)' = Trouble(Current.id, run.batch.key)
      BY <1>1 DEF Trouble
    <2>4. faults' + crashes' = 0 => faults + crashes = 0
      <3>1. faults \in Nat /\ crashes \in Nat
        BY DEF TypeInv
      <3>2. crashes' = crashes /\ faults' \in Nat /\ (faults' = 0 => faults = 0)
        OBVIOUS
      <3> QED
        BY <3>1, <3>2, NoneOfBoth, Zenon
    <2>5. (At("good") => \A m \in ToSet(Content[Current.id]) : book[m] > 0)'
      BY <2>1, <2>2 DEF VerdictInv
    <2> DEFINE BadFile == LET trouble == Trouble(Current.id, run.batch.key)
                          IN  /\ run.code \in {trouble, "PDF_INVALID"}
                              /\ ~run.batch.retry /\ faults + crashes = 0 => run.code = trouble
    <2>6. (At("bad") => BadFile)'
      <3> SUFFICES ASSUME At("bad")'
                   PROVE  BadFile'
        OBVIOUS
      <3>1. BadFile
        BY <2>1 DEF VerdictInv
      <3> QED
        BY <2>3, <2>4, <3>1
    <2> QED
      BY <2>5, <2>6 DEF VerdictInv
  <1> QED
    BY <1>2, <1>3, <1>4

LEMMA UploadKeeps ==
  ASSUME IInv, NEW j \in Jobs, NEW skip \in Skips, NEW key \in Passwords(j),
         Upload(j, skip, key)
  PROVE  IInv'
  <1> USE DEF IInv
  <1>1. /\ NewJob(skip) \in JobRow /\ NewJob(skip) # None
        /\ NewFile \in FileRow
        /\ Batch(j, FALSE, key) \in Batches
    BY ImportAssumption, RowAssumption
    DEF NewJob, NewFile, Batch, Batches, Passwords, JobRow, FileRow, JobStatus, FileStatus
  <1>2. TypeInv'
    <2>1. job' \in [Jobs -> JobRow \cup {None}]
      BY <1>1 DEF TypeInv, Upload
    <2>2. file' \in [Files -> FileRow \cup {None}]
      BY <1>1 DEF TypeInv, Upload
    <2>3. disk' \subseteq Files
      BY FilesApart DEF TypeInv, Upload
    <2>4. chain' \in Seq(Batches)
      BY <1>1, AppendFacts DEF TypeInv, Upload
    <2> QED
      BY <2>1, <2>2, <2>3, <2>4 DEF TypeInv, Upload
  <1>3. \A i \in Jobs : i # j => /\ job'[i] = job[i]
                                 /\ \A f \in FilesIn(i) : file'[f] = file[f]
    BY FilesApart DEF Upload, TypeInv
  <1>4. job'[j] # None /\ \A f \in FilesIn(j) : file'[f] = NewFile /\ f \in disk'
    BY <1>1, FilesApart DEF Upload, TypeInv
  <1>5. UploadInv'
    BY <1>1, <1>3, <1>4 DEF UploadInv, Upload, FilesIn
  <1>6. /\ chain \in Seq(Batches) /\ chain' = Append(chain, Batch(j, FALSE, key))
        /\ \A k \in DOMAIN chain : chain[k].job \in Jobs /\ chain[k].job # j
        /\ \A k \in DOMAIN chain' :
             \/ k \in DOMAIN chain /\ chain'[k] = chain[k]
             \/ k = Len(chain) + 1 /\ chain'[k] = Batch(j, FALSE, key)
    <2>1. chain \in Seq(Batches) /\ chain' = Append(chain, Batch(j, FALSE, key))
      BY DEF TypeInv, Upload
    <2>2. \A k \in DOMAIN chain : chain[k].job \in Jobs /\ chain[k].job # j
      BY <2>1, BatchesOf DEF UploadedInv, Upload
    <2>3. \A k \in DOMAIN chain' :
             \/ k \in DOMAIN chain /\ chain'[k] = chain[k]
             \/ k = Len(chain) + 1 /\ chain'[k] = Batch(j, FALSE, key)
      <3> DEFINE b == Batch(j, FALSE, key)
      <3>1. b \in Batches
        BY <1>1
      <3> HIDE DEF b
      <3>2. \A k \in DOMAIN Append(chain, b) :
              \/ k \in DOMAIN chain /\ Append(chain, b)[k] = chain[k]
              \/ k = Len(chain) + 1 /\ Append(chain, b)[k] = b
        BY <2>1, <3>1, AppendFacts
      <3> QED
        BY <2>1, <3>2 DEF b
    <2> QED
      BY <2>1, <2>2, <2>3
  <1>7. run # None => run.batch.job \in Jobs /\ run.batch.job # j
    BY DEF TypeInv, Runs, Batches, UploadedInv, Upload
  <1>8. \A q \in Retries : ask[q] # None => ask[q].batch.job \in Jobs /\ ask[q].batch.job # j
    BY DEF TypeInv, Asks, RetryBatches, UploadedInv, Upload
  <1>9. UploadedInv'
    BY <1>3, <1>4, <1>6, <1>7, <1>8 DEF UploadedInv, Upload, Batch
  <1>10. WaitInv' /\ BeginInv'
    <2>1. \A i \in Jobs : i # j /\ Untouched(i) => Untouched(i)'
      BY <1>3, UntouchedStays DEF Upload
    <2>2. Untouched(j)'
      BY <1>4 DEF Untouched, Upload, UploadInv, NewFile, FilesIn
    <2>3. ASSUME NEW k \in DOMAIN chain', ~chain'[k].retry
          PROVE  (/\ Untouched(chain[k].job)
                  /\ \A l \in DOMAIN chain : chain[l].job = chain[k].job => l = k
                  /\ run # None => run.batch.job # chain[k].job
                  /\ \A q \in Retries : ask[q] # None => ask[q].batch.job # chain[k].job)'
      <3>1. CASE k \in DOMAIN chain /\ chain'[k] = chain[k]
        <4>1. /\ Untouched(chain[k].job)
              /\ \A l \in DOMAIN chain : chain[l].job = chain[k].job => l = k
              /\ run # None => run.batch.job # chain[k].job
              /\ \A q \in Retries : ask[q] # None => ask[q].batch.job # chain[k].job
          BY <2>3, <3>1 DEF WaitInv
        <4>2. Untouched(chain[k].job)'
          <5>1. \A i \in Jobs : i # j /\ Untouched(i) => Untouched(i)'
            BY <2>1
          <5> QED
            BY <1>6, <3>1, <4>1, <5>1 DEF Untouched
        <4>3. \A l \in DOMAIN chain' : chain'[l].job = chain'[k].job => l = k
          BY <1>6, <3>1, <4>1 DEF Batch
        <4> QED
          BY <3>1, <4>1, <4>2, <4>3 DEF Upload
      <3>2. CASE k = Len(chain) + 1 /\ chain'[k] = Batch(j, FALSE, key)
        <4>1. chain'[k].job = j
          BY <3>2 DEF Batch
        <4>2. Untouched(chain[k].job)'
          BY <4>1, <2>2 DEF Untouched
        <4>3. \A l \in DOMAIN chain' : chain'[l].job = chain'[k].job => l = k
          BY <1>6, <3>2, <4>1
        <4> QED
          BY <1>7, <1>8, <4>1, <4>2, <4>3 DEF Upload
      <3> QED
        BY <1>6, <3>1, <3>2
    <2>4. (At("begin") \/ At("load") => run.batch.retry \/ Untouched(run.batch.job))'
      <3> SUFFICES ASSUME At("begin") \/ At("load"), ~run.batch.retry
                   PROVE  Untouched(run.batch.job)'
        BY DEF At, Upload
      <3>1. Untouched(run.batch.job) /\ run # None
        BY DEF BeginInv, At
      <3>2. run.batch.job \in Jobs /\ run.batch.job # j
        BY <1>7, <3>1
      <3>3. run' = run
        BY DEF Upload
      <3> QED
        BY <2>1, <3>1, <3>2, <3>3 DEF Untouched
    <2> QED
      BY <2>3, <2>4 DEF WaitInv, BeginInv
  <1>11. TodoInv' /\ TurnInv' /\ VerdictInv'
    BY <1>3, <1>7, BatchUndisturbed DEF Upload, TypeInv
  <1>12. SuccessMeansStored'
    BY <1>4 DEF SuccessMeansStored, Upload, NewFile
  <1>13. NoRestartInv'
    BY FilesApart DEF NoRestartInv, Upload, UploadInv, InLoop, Current
  <1>14. NoFaultInv'
    BY <1>3, <1>4 DEF NoFaultInv, Upload, UploadInv, InLoop, Current, FilesIn
  <1> QED
    BY <1>2, <1>5, <1>9, <1>10, <1>11, <1>12, <1>13, <1>14

\* A step of a retry before it joins the chain: it sends failed files back to the
\* queue and keeps away from imports whose first batch waits.
LEMMA RetryPrepares ==
  ASSUME IInv, TypeInv',
         run' = run, chain' = chain, crashes' = crashes, book' = book, disk' = disk,
         stored' = stored, faults' \in {faults, faults + 1},
         \A j \in Jobs : job'[j] = None <=> job[j] = None,
         \A f \in Files : \/ file'[f] = file[f]
                          \/ /\ file[f] # None /\ file[f].status = "failed"
                             /\ file'[f] \in FileRow /\ file'[f].status = "pending",
         \A q \in Retries : ask'[q] # None =>
           /\ ask'[q].batch.job \in Jobs /\ job[ask'[q].batch.job] # None
           /\ \A k \in DOMAIN chain : ~chain[k].retry => ask'[q].batch.job # chain[k].job
  PROVE  IInv'
  <1> USE DEF IInv
  <1>1. faults \in Nat /\ crashes \in Nat /\ chain \in Seq(Batches)
    BY DEF TypeInv
  <1>2. \A j \in Jobs : Untouched(j) => Untouched(j)'
    <2> SUFFICES ASSUME NEW j \in Jobs, Untouched(j)
                 PROVE  Untouched(j)'
      OBVIOUS
    <2>1. \A f \in FilesIn(j) : file'[f] = file[f]
      BY FilesApart DEF Untouched
    <2> QED
      BY <2>1, UntouchedStays
  <1>3. \A k \in DOMAIN chain : chain[k].job \in Jobs
    BY <1>1, BatchesOf
  <1>4. run # None => run.batch.job \in Jobs
    BY DEF TypeInv, Runs, Batches
  <1>5. UploadInv'
    BY FilesApart DEF UploadInv, FilesIn
  <1>6. UploadedInv'
    BY <1>3, <1>4 DEF UploadedInv
  <1>7. WaitInv'
    <2> SUFFICES ASSUME NEW k \in DOMAIN chain, ~chain[k].retry
                 PROVE  Untouched(chain[k].job)'
      BY DEF WaitInv
    <2> QED
      BY <1>2, <1>3 DEF WaitInv, Untouched
  <1>8. BeginInv'
    BY <1>2, <1>4 DEF BeginInv, At, Untouched
  <1>9. TodoInv' /\ TurnInv' /\ VerdictInv'
    <2>1. run # None => \A f \in FilesIn(run.batch.job) :
                          file'[f] = file[f] \/ file[f].status = "failed"
      BY <1>4, FilesApart
    <2> QED
      BY <1>1, <2>1, BatchUndisturbed
  <1>10. SuccessMeansStored'
    BY DEF SuccessMeansStored
  <1>11. NoRestartInv'
    BY DEF NoRestartInv, InLoop, Current
  <1>12. NoFaultInv'
    <2> SUFFICES ASSUME faults = 0
                 PROVE  NoFaultInv'
      BY <1>1 DEF NoFaultInv
    <2>1. \A j \in Jobs : \A f \in FilesIn(j) :
            file'[f] # None /\ file'[f].status \in {"pending", "failed"} => stored[f] = 0
      BY FilesApart DEF NoFaultInv
    <2> QED
      BY <2>1 DEF NoFaultInv, InLoop, Current, FilesIn
  <1> QED
    BY <1>5, <1>6, <1>7, <1>8, <1>9, <1>10, <1>11, <1>12

\* The import of a retry is known and its first batch has begun.
LEMMA RetriesKnown ==
  ASSUME IInv, NEW q \in Retries, ask[q] # None
  PROVE  /\ ask[q] \in Asks /\ ask[q].batch \in RetryBatches /\ ask[q].batch \in Batches
         /\ ask[q].batch.job \in Jobs /\ job[ask[q].batch.job] # None
         /\ \A k \in DOMAIN chain : ~chain[k].retry => ask[q].batch.job # chain[k].job
  <1>1. ask[q] \in Asks
    BY DEF IInv, TypeInv
  <1>2. ask[q].batch \in RetryBatches
    BY <1>1 DEF Asks
  <1>3. ask[q].batch \in Batches /\ ask[q].batch.job \in Jobs
    BY <1>2 DEF RetryBatches, Batches
  <1> QED
    BY <1>1, <1>2, <1>3 DEF IInv, UploadedInv, WaitInv

LEMMA RetryCheckKeeps ==
  ASSUME IInv, NEW q \in Retries, NEW j \in Jobs, NEW key \in Passwords(j),
         RetryCheck(q, j, key)
  PROVE  IInv'
  <1> USE DEF IInv
  <1> DEFINE a == [step |-> "files", batch |-> Batch(j, TRUE, key)]
  <1>1. a \in Asks /\ a.batch.job = j
    BY DEF Asks, RetryBatches, Batch, Passwords
  <1>2. ask' = [ask EXCEPT ![q] = a]
    BY DEF RetryCheck
  <1> HIDE DEF a
  <1>3. TypeInv'
    BY ZenonT(60), <1>1, <1>2 DEF TypeInv, RetryCheck
  <1>4. job[j] # None /\ \A k \in DOMAIN chain : ~chain[k].retry => j # chain[k].job
    BY DEF RetryCheck, MayRetry, FailedFiles, WaitInv, Untouched
  <1>5. \A p \in Retries : ask'[p] # None =>
          /\ ask'[p].batch.job \in Jobs /\ job[ask'[p].batch.job] # None
          /\ \A k \in DOMAIN chain : ~chain[k].retry => ask'[p].batch.job # chain[k].job
    <2> TAKE p \in Retries
    <2>1. CASE p = q
      BY <1>1, <1>2, <1>4, <2>1 DEF TypeInv
    <2>2. CASE p # q
      BY <1>2, <2>2, RetriesKnown DEF TypeInv
    <2> QED
      BY <2>1, <2>2
  <1> QED
    BY <1>3, <1>5, RetryPrepares DEF RetryCheck

\* Retries other than q are as they were, and q goes on about the same import.
LEMMA RetryGoesOn ==
  ASSUME IInv, NEW q \in Retries, ask[q] # None,
         NEW step \in {"files", "job", "enqueue", "done"}, RetryGoes(q, step)
  PROVE  /\ ask' \in [Retries -> Asks \cup {None}]
         /\ \A p \in Retries : ask'[p] # None =>
              /\ ask'[p].batch.job \in Jobs /\ job[ask'[p].batch.job] # None
              /\ \A k \in DOMAIN chain : ~chain[k].retry => ask'[p].batch.job # chain[k].job
  <1>1. ask \in [Retries -> Asks \cup {None}] /\ ask[q] \in Asks
    BY RetriesKnown DEF IInv, TypeInv
  <1> DEFINE a == [ask[q] EXCEPT !.step = step]
  <1>2. a \in Asks /\ a.batch = ask[q].batch
    BY <1>1 DEF Asks
  <1>3. ask' = [ask EXCEPT ![q] = a]
    BY DEF RetryGoes
  <1> HIDE DEF a
  <1>4. ASSUME NEW p \in Retries, ask'[p] # None
        PROVE  /\ ask'[p].batch.job \in Jobs /\ job[ask'[p].batch.job] # None
               /\ \A k \in DOMAIN chain : ~chain[k].retry => ask'[p].batch.job # chain[k].job
    <2>1. CASE p = q
      BY <1>1, <1>2, <1>3, <2>1, RetriesKnown
    <2>2. CASE p # q
      BY SMTT(60), <1>1, <1>3, <1>4, <2>2, RetriesKnown
    <2> QED
      BY <2>1, <2>2
  <1> QED
    BY <1>1, <1>2, <1>3, <1>4

LEMMA RetryResetFilesKeeps ==
  ASSUME IInv, NEW q \in Retries, RetryResetFiles(q)
  PROVE  IInv'
  <1> USE DEF IInv
  <1>1. ask[q] # None /\ RetryGoes(q, "job")
    BY DEF RetryResetFiles, RetryAt
  <1>2. ask' \in [Retries -> Asks \cup {None}]
    BY <1>1, RetryGoesOn
  <1>3. ASSUME NEW f \in Files
        PROVE  /\ file'[f] \in FileRow \cup {None}
               /\ \/ file'[f] = file[f]
                  \/ /\ file[f] # None /\ file[f].status = "failed"
                     /\ file'[f] \in FileRow /\ file'[f].status = "pending"
    <2>1. file[f] \in FileRow \cup {None}
      BY DEF TypeInv
    <2> DEFINE b == ask[q].batch.job
               reset == [file[f] EXCEPT !.status = "pending", !.code = None, !.created = 0]
    <2>2. file'[f] = IF f \in FailedFiles(b) THEN reset ELSE file[f]
      BY DEF RetryResetFiles
    <2>3. file[f] # None => reset \in FileRow /\ reset.status = "pending"
      BY <2>1 DEF FileRow, FileStatus
    <2>4. f \in FailedFiles(b) => file[f] # None /\ file[f].status = "failed"
      BY DEF FailedFiles
    <2> QED
      BY <2>1, <2>2, <2>3, <2>4
  <1>4. file' \in [Files -> FileRow \cup {None}]
    BY <1>3 DEF RetryResetFiles
  <1>5. TypeInv'
    BY <1>2, <1>4 DEF TypeInv, RetryResetFiles
  <1> QED
    BY <1>1, <1>3, <1>5, RetryGoesOn, RetryPrepares DEF RetryResetFiles

LEMMA RetryResetJobKeeps ==
  ASSUME IInv, NEW q \in Retries, RetryResetJob(q)
  PROVE  IInv'
  <1> USE DEF IInv
  <1>1. ask[q] # None /\ RetryGoes(q, "enqueue")
    BY DEF RetryResetJob, RetryAt
  <1> DEFINE j == ask[q].batch.job
             row == [job[j] EXCEPT !.status = "pending", !.processed = 0, !.failed = 0]
  <1>2. j \in Jobs /\ job[j] # None
    BY <1>1, RetriesKnown
  <1>3. row \in JobRow /\ row # None
    <2>1. job[j] \in JobRow
      BY <1>2 DEF TypeInv
    <2>2. row \in JobRow
      BY <2>1 DEF JobRow, JobStatus
    <2> QED
      BY <2>2, RowAssumption
  <1>4. job' = [job EXCEPT ![j] = row]
    BY <1>2 DEF RetryResetJob, TypeInv
  <1> HIDE DEF row, j
  <1>5. job' \in [Jobs -> JobRow \cup {None}] /\ \A i \in Jobs : job'[i] = None <=> job[i] = None
    BY <1>2, <1>3, <1>4 DEF TypeInv
  <1>6. ask' \in [Retries -> Asks \cup {None}]
    BY <1>1, RetryGoesOn
  <1>7. TypeInv'
    BY ZenonT(60), <1>5, <1>6 DEF TypeInv, RetryResetJob
  <1> QED
    BY ZenonT(60), <1>1, <1>5, <1>7, RetryGoesOn, RetryPrepares DEF RetryResetJob

LEMMA RetryFailsKeeps ==
  ASSUME IInv, NEW q \in Retries, RetryFails(q)
  PROVE  IInv'
  <1> USE DEF IInv
  <1>1. ask[q] # None /\ RetryGoes(q, "done")
    BY DEF RetryFails, RetryAt
  <1>2. TypeInv'
    BY <1>1, RetryGoesOn DEF TypeInv, RetryFails, Fault
  <1> QED
    BY <1>1, <1>2, RetryGoesOn, RetryPrepares DEF RetryFails, Fault

LEMMA RetryEnqueueKeeps ==
  ASSUME IInv, NEW q \in Retries, RetryEnqueue(q)
  PROVE  IInv'
  <1> USE DEF IInv
  <1>1. ask[q] # None /\ RetryGoes(q, "done")
    BY DEF RetryEnqueue, RetryAt
  <1> DEFINE b == ask[q].batch
  <1>2. /\ b \in Batches /\ b.retry /\ b.job \in Jobs /\ job[b.job] # None
        /\ \A k \in DOMAIN chain : ~chain[k].retry => b.job # chain[k].job
    BY <1>1, RetriesKnown DEF RetryBatches
  <1>3. chain \in Seq(Batches) /\ chain' = Append(chain, b)
    BY DEF TypeInv, RetryEnqueue
  <1> HIDE DEF b
  <1>4. /\ chain' \in Seq(Batches)
        /\ \A k \in DOMAIN chain' : \/ k \in DOMAIN chain /\ chain'[k] = chain[k]
                                    \/ k = Len(chain) + 1 /\ chain'[k] = b
    BY <1>2, <1>3, AppendFacts
  <1>5. /\ ask' \in [Retries -> Asks \cup {None}]
        /\ \A p \in Retries : ask'[p] # None =>
              /\ ask'[p].batch.job \in Jobs /\ job[ask'[p].batch.job] # None
              /\ \A k \in DOMAIN chain : ~chain[k].retry => ask'[p].batch.job # chain[k].job
    BY <1>1, RetryGoesOn
  <1>6. TypeInv'
    BY <1>4, <1>5 DEF TypeInv, RetryEnqueue
  <1>7. UploadInv' /\ SuccessMeansStored'
    BY DEF UploadInv, FilesIn, RetryEnqueue, SuccessMeansStored
  <1>8. UploadedInv'
    BY <1>2, <1>4, <1>5 DEF UploadedInv, RetryEnqueue
  <1>9. WaitInv'
    <2> SUFFICES ASSUME NEW k \in DOMAIN chain', ~chain'[k].retry
                 PROVE  (/\ Untouched(chain[k].job)
                         /\ \A l \in DOMAIN chain : chain[l].job = chain[k].job => l = k
                         /\ run # None => run.batch.job # chain[k].job
                         /\ \A p \in Retries : ask[p] # None => ask[p].batch.job # chain[k].job)'
      BY DEF WaitInv
    <2>1. k \in DOMAIN chain /\ chain'[k] = chain[k]
      BY <1>2, <1>4
    <2>2. /\ Untouched(chain[k].job)
          /\ \A l \in DOMAIN chain : chain[l].job = chain[k].job => l = k
          /\ run # None => run.batch.job # chain[k].job
          /\ b.job # chain[k].job
      BY <1>2, <2>1 DEF WaitInv
    <2>3. Untouched(chain[k].job)'
      BY <2>1, <2>2 DEF Untouched, RetryEnqueue, FilesIn
    <2>4. \A l \in DOMAIN chain' : chain'[l].job = chain'[k].job => l = k
      BY <1>4, <2>1, <2>2
    <2> QED
      BY <1>5, <2>1, <2>2, <2>3, <2>4 DEF RetryEnqueue
  <1>10. BeginInv'
    BY DEF BeginInv, At, Untouched, RetryEnqueue, FilesIn
  <1>11. TodoInv' /\ TurnInv' /\ VerdictInv'
    BY BatchUndisturbed DEF RetryEnqueue, TypeInv
  <1>12. NoRestartInv' /\ NoFaultInv'
    BY DEF NoRestartInv, NoFaultInv, RetryEnqueue, InLoop, Current, FilesIn
  <1> QED
    BY <1>6, <1>7, <1>8, <1>9, <1>10, <1>11, <1>12
-----------------------------------------------------------------------------
(***************************************************************************)
(* The processor.                                                          *)
(***************************************************************************)
\* What a step of a batch leaves to the other imports.
LEMMA OthersUndisturbed ==
  ASSUME IInv, run # None, chain' = chain, ask' = ask, crashes' = crashes,
         run' = None \/ run'.batch = run.batch,
         \A j \in Jobs : job'[j] = None <=> job[j] = None,
         \A f \in Files \ FilesIn(run.batch.job) :
           /\ file'[f] = file[f] /\ stored'[f] = stored[f]
           /\ f \in disk => f \in disk',
         \A f \in FilesIn(run.batch.job) : file'[f] \in FileRow
  PROVE  UploadInv' /\ UploadedInv' /\ WaitInv'
  <1> USE DEF IInv
  <1>1. run.batch.job \in Jobs /\ job[run.batch.job] # None
    BY DEF TypeInv, Runs, Batches, UploadedInv
  <1>2. \A k \in DOMAIN chain : chain[k].job \in Jobs
    BY BatchesOf DEF TypeInv
  <1>3. \A q \in Retries : ask[q] # None => ask[q].batch.job \in Jobs
    BY RetriesKnown
  <1>4. UploadInv'
    <2> SUFFICES ASSUME NEW j \in Jobs, NEW f \in FilesIn(j)
                 PROVE  (IF job[j] = None THEN file[f] = None /\ stored[f] = 0
                                          ELSE file[f] \in FileRow)'
      BY DEF UploadInv, FilesIn
    <2>1. CASE j = run.batch.job
      BY <1>1, <2>1
    <2>2. CASE j # run.batch.job
      BY <1>1, <2>2, FilesApart DEF UploadInv
    <2> QED
      BY <2>1, <2>2
  <1>5. UploadedInv'
    BY <1>1, <1>2, <1>3 DEF UploadedInv
  <1>6. WaitInv'
    <2> SUFFICES ASSUME NEW k \in DOMAIN chain, ~chain[k].retry
                 PROVE  /\ Untouched(chain[k].job)'
                        /\ run' # None => run'.batch.job # chain[k].job
      BY DEF WaitInv
    <2>1. Untouched(chain[k].job) /\ run.batch.job # chain[k].job
      BY DEF WaitInv
    <2>2. \A f \in FilesIn(chain[k].job) : f \in Files \ FilesIn(run.batch.job)
      BY <1>1, <1>2, <2>1, FilesApart
    <2>3. Untouched(chain[k].job)'
      BY <1>2, <2>1, <2>2 DEF Untouched, FilesIn
    <2> QED
      BY <2>1, <2>3
  <1> QED
    BY <1>4, <1>5, <1>6

LEMMA DequeueKeeps ==
  ASSUME IInv, Dequeue
  PROVE  IInv'
  <1> USE DEF IInv
  <1> DEFINE b == Head(chain)
  <1>1. chain \in Seq(Batches) /\ chain # <<>>
    BY DEF TypeInv, Dequeue
  <1>2. b \in Batches /\ b = chain[1] /\ 1 \in DOMAIN chain
    BY <1>1
  <1>3. /\ chain' \in Seq(Batches) /\ chain' = Tail(chain)
        /\ \A k \in DOMAIN chain' : /\ k + 1 \in DOMAIN chain /\ k \in Nat /\ k + 1 # 1
                                    /\ chain'[k] = chain[k + 1]
    BY <1>1 DEF Dequeue
  <1>4. run = None /\ (run' = None \/ run' = Start(b))
    BY DEF Dequeue, Throws
  <1>5. Start(b) \in Runs /\ Start(b).batch = b /\ Start(b).step = "begin"
    <2>1. <<>> \in [{} -> [id: Files, path: BOOLEAN]]
      OBVIOUS
    <2>2. <<>> \in Todos
      BY <2>1 DEF Todos
    <2> QED
      BY <1>2, <2>2 DEF Start, Runs, Steps
  <1> HIDE DEF b
  <1>6. faults' \in Nat /\ (faults' = 0 => faults = 0)
    BY DEF Dequeue, Fault, NoFault, TypeInv
  <1>7. TypeInv'
    BY <1>3, <1>4, <1>5, <1>6 DEF TypeInv, Dequeue
  <1>8. UploadInv' /\ SuccessMeansStored'
    BY DEF UploadInv, FilesIn, Dequeue, SuccessMeansStored
  <1>9. UploadedInv'
    BY <1>2, <1>3, <1>4, <1>5 DEF UploadedInv, Dequeue
  <1>10. WaitInv'
    <2> SUFFICES ASSUME NEW k \in DOMAIN chain', ~chain'[k].retry
                 PROVE  (/\ Untouched(chain[k].job)
                         /\ \A l \in DOMAIN chain : chain[l].job = chain[k].job => l = k
                         /\ run # None => run.batch.job # chain[k].job
                         /\ \A p \in Retries : ask[p] # None => ask[p].batch.job # chain[k].job)'
      BY DEF WaitInv
    <2>1. k + 1 \in DOMAIN chain /\ chain'[k] = chain[k + 1] /\ k \in Nat
      BY <1>3
    <2>2. /\ Untouched(chain[k + 1].job)
          /\ \A l \in DOMAIN chain : chain[l].job = chain[k + 1].job => l = k + 1
          /\ \A p \in Retries : ask[p] # None => ask[p].batch.job # chain[k + 1].job
      BY <2>1 DEF WaitInv
    <2>3. Untouched(chain[k].job)'
      BY <2>1, <2>2 DEF Untouched, Dequeue, FilesIn
    <2>4. \A l \in DOMAIN chain' : chain'[l].job = chain'[k].job => l = k
      BY <1>3, <2>1, <2>2
    <2>5. b.job # chain[k + 1].job
      BY <1>2, <1>3, <2>1, <2>2
    <2> QED
      BY <1>4, <1>5, <2>1, <2>2, <2>3, <2>4, <2>5 DEF Dequeue
  <1>11. BeginInv'
    <2> SUFFICES ASSUME run' = Start(b), ~b.retry
                 PROVE  Untouched(run.batch.job)'
      BY <1>4, <1>5 DEF BeginInv, At
    <2>1. Untouched(b.job) /\ run'.batch.job = b.job
      BY <1>2, <1>5 DEF WaitInv
    <2> QED
      BY <2>1 DEF Untouched, Dequeue, FilesIn
  <1>12. ~InLoop' /\ ~InLoop /\ ~At("good")' /\ ~At("bad")'
    BY <1>4, <1>5 DEF InLoop, At
  <1>13. TodoInv' /\ TurnInv' /\ VerdictInv'
    BY <1>12 DEF TodoInv, TurnInv, VerdictInv
  <1>14. NoRestartInv' /\ NoFaultInv'
    BY <1>6, <1>12 DEF NoRestartInv, NoFaultInv, Dequeue, FilesIn
  <1> QED
    BY <1>7, <1>8, <1>9, <1>10, <1>11, <1>13, <1>14

\* A step that ends a turn or is outside of one.
LEMMA LeavesLoop ==
  ASSUME IInv, ~InLoop', book' = book, stored' = stored,
         \A f \in Files : \/ file'[f] = file[f]
                          \/ /\ file[f] \in FileRow /\ file'[f] \in FileRow
                             /\ file'[f].status = file[f].status,
         faults' = 0 => faults = 0,
         crashes' = 0 => /\ crashes = 0 /\ disk' \subseteq disk
                         /\ run # None => run.step \notin {"good", "bad", "remove"}
  PROVE  /\ TodoInv' /\ TurnInv' /\ SuccessMeansStored' /\ VerdictInv'
         /\ NoRestartInv' /\ NoFaultInv'
  <1> USE DEF IInv
  <1>1. TodoInv' /\ TurnInv' /\ VerdictInv'
    BY DEF TodoInv, TurnInv, VerdictInv, InLoop, At
  <1>2. SuccessMeansStored'
    BY RowAssumption DEF SuccessMeansStored
  <1>3. NoRestartInv'
    BY DEF NoRestartInv, InLoop
  <1>4. NoFaultInv'
    <2> SUFFICES ASSUME faults = 0
                 PROVE  NoFaultInv'
      BY DEF NoFaultInv
    <2>1. \A j \in Jobs : \A f \in FilesIn(j) :
            file'[f] # None /\ file'[f].status \in {"pending", "failed"} => stored[f] = 0
      BY FilesApart, RowAssumption DEF NoFaultInv
    <2> QED
      BY <2>1 DEF NoFaultInv, FilesIn
  <1> QED
    BY <1>1, <1>2, <1>3, <1>4

\* A step within the turn of a file: what is left to show is about that file.
LEMMA TurnKeeps ==
  ASSUME IInv, InLoop, TypeInv',
         chain' = chain, ask' = ask, crashes' = crashes, faults' = 0 => faults = 0,
         \A j \in Jobs : job'[j] = None <=> job[j] = None,
         run' \in Runs, run'.batch = run.batch, run'.todo = run.todo,
         run'.step \in {"parse", "store", "good", "bad", "remove", "clear"},
         disk' \subseteq disk, \A m \in Movements : book'[m] >= book[m],
         \A f \in Files \ {Current.id} : /\ file'[f] = file[f] /\ stored'[f] = stored[f]
                                         /\ f \in disk => f \in disk',
         file'[Current.id] \in FileRow,
         run'.step \in {"parse", "store", "good", "bad"} =>
           file'[Current.id].status = "processing",
         run'.step = "parse" => run.step = "file" /\ disk' = disk,
         run'.step = "store" => Current.path /\ Current.id \in disk',
         file'[Current.id].status = "success" \/ run'.step = "good" =>
           \A m \in ToSet(Content[Current.id]) : book'[m] > 0,
         run'.step = "bad" =>
           /\ run'.code \in {Trouble(Current.id, run.batch.key), "PDF_INVALID"}
           /\ ~run.batch.retry /\ faults' + crashes = 0 =>
                run'.code = Trouble(Current.id, run.batch.key),
         crashes = 0 =>
           /\ stored'[Current.id] <= 1
           /\ stored'[Current.id] = 1 =>
                \/ Current.id \notin disk'
                \/ run'.step \in {"good", "bad", "remove"} /\ Current.path,
         faults' = 0 =>
           /\ stored'[Current.id] <= 1
           /\ \/ file'[Current.id].status \in {"pending", "failed"}
              \/ run'.step \in {"parse", "store", "bad"}
              => stored'[Current.id] = 0
  PROVE  IInv'
  <1> USE DEF IInv
  <1> DEFINE c == Current.id
             j == run.batch.job
  <1>1. /\ run \in Runs /\ run # None /\ run' # None /\ j \in Jobs
        /\ Current = run.todo[First] /\ First \in DOMAIN run.todo
        /\ c = FilesOf[j][First] /\ c \in FilesIn(j) /\ c \in Files
        /\ First \in DOMAIN FilesOf[j]
    BY CurrentIsFirst, RowAssumption DEF InLoop
  <1>2. First' = First /\ Current' = Current /\ InLoop'
    BY <1>1 DEF First, Current, InLoop
  <1>3. \A k \in DOMAIN run.todo : /\ run.todo[k].id \in FilesIn(j) /\ run.todo[k].id \in Files
                                   /\ k # First => run.todo[k].id # c
    BY <1>1, FilesApart DEF TodoInv
  <1>4. UploadInv' /\ UploadedInv' /\ WaitInv'
    <2>1. \A f \in Files \ FilesIn(j) : /\ file'[f] = file[f] /\ stored'[f] = stored[f]
                                        /\ f \in disk => f \in disk'
      BY <1>1
    <2>2. \A f \in FilesIn(j) : file'[f] \in FileRow
      <3>1. job[j] # None
        BY <1>1 DEF UploadedInv
      <3>2. \A f \in FilesIn(j) : file[f] \in FileRow /\ f \in Files
        BY <1>1, <3>1, FilesApart DEF UploadInv
      <3> QED
        BY <3>2
    <2> QED
      BY <1>1, <2>1, <2>2, OthersUndisturbed
  <1>5. BeginInv'
    BY DEF BeginInv, At
  <1>6. TodoInv'
    BY <1>1, <1>2 DEF TodoInv
  <1>7. TurnInv'
    <2>1. ASSUME NEW k \in DOMAIN run.todo, k # First
          PROVE  /\ file'[run.todo[k].id].status = "pending"
                 /\ ~run.batch.retry /\ crashes = 0
                      => run.todo[k].path /\ run.todo[k].id \in disk'
      BY <1>1, <1>3, <2>1 DEF TurnInv
    <2>2. run'.step = "parse" /\ ~run.batch.retry /\ crashes = 0
            => run.todo[First].path /\ run.todo[First].id \in disk'
      BY <1>1 DEF TurnInv
    <2>3. \A k \in DOMAIN run.todo :
            /\ k # First => file'[run.todo[k].id].status = "pending"
            /\ (run'.step = "parse" \/ k # First) /\ ~run.batch.retry /\ crashes = 0
                 => run.todo[k].path /\ run.todo[k].id \in disk'
      BY <2>1, <2>2
    <2>4. run'.step # "file"
      OBVIOUS
    <2> QED
      BY <1>2, <2>3, <2>4 DEF TurnInv
  <1>8. SuccessMeansStored'
    <2> SUFFICES ASSUME NEW f \in Files, file'[f] # None, file'[f].status = "success",
                        NEW m \in ToSet(Content[f])
                 PROVE  book'[m] > 0
      BY DEF SuccessMeansStored, ToSet
    <2>1. CASE f = c
      BY <2>1
    <2>2. CASE f # c
      <3>1. book[m] > 0
        BY <2>2 DEF SuccessMeansStored
      <3>2. m \in Movements
        BY ContentFinite
      <3>3. book[m] \in Nat /\ book'[m] \in Nat /\ book'[m] >= book[m]
        BY <3>2 DEF TypeInv
      <3> QED
        BY <3>1, <3>3
    <2> QED
      BY <2>1, <2>2
  <1>9. VerdictInv'
    <2>1. (At("good") => \A m \in ToSet(Content[Current.id]) : book[m] > 0)'
      BY <1>2 DEF At, ToSet
    <2>2. (At("bad") => /\ run.code \in {Trouble(Current.id, run.batch.key), "PDF_INVALID"}
                        /\ ~run.batch.retry /\ faults + crashes = 0
                             => run.code = Trouble(Current.id, run.batch.key))'
      BY <1>2 DEF At, Trouble
    <2> QED
      BY <2>1, <2>2 DEF VerdictInv
  <1>10. NoRestartInv'
    <2> SUFFICES ASSUME crashes = 0, NEW f \in Files
                 PROVE  /\ stored'[f] <= 1
                        /\ stored'[f] = 1 => \/ f \notin disk'
                                             \/ /\ run'.step \in {"good", "bad", "remove"}
                                                /\ Current.id = f /\ Current.path
      BY <1>2 DEF NoRestartInv
    <2>1. CASE f = c
      BY <2>1
    <2>2. CASE f # c
      BY <2>2 DEF NoRestartInv
    <2> QED
      BY <2>1, <2>2
  <1>11. NoFaultInv'
    <2> SUFFICES ASSUME faults' = 0
                 PROVE  NoFaultInv'
      BY DEF NoFaultInv
    <2>1. \A f \in Files : stored'[f] <= 1
      BY DEF NoFaultInv
    <2>2. \A i \in Jobs : \A f \in FilesIn(i) :
            file'[f] # None /\ file'[f].status \in {"pending", "failed"} => stored'[f] = 0
      BY FilesApart DEF NoFaultInv
    <2>3. run'.step \in {"parse", "store", "bad"} => stored'[Current.id] = 0
      OBVIOUS
    <2> QED
      BY <1>2, <2>1, <2>2, <2>3 DEF NoFaultInv, FilesIn
  <1> QED
    BY <1>4, <1>5, <1>6, <1>7, <1>8, <1>9, <1>10, <1>11

\* An error that leaves the batch.
LEMMA ThrowsKeeps ==
  ASSUME IInv, Fault, Throws, run # None, run.step \notin {"good", "bad", "remove"},
         file' = file, disk' = disk, book' = book, chain' = chain, ask' = ask,
         crashes' = crashes, stored' = stored,
         job' \in [Jobs -> JobRow \cup {None}],
         \A j \in Jobs : job'[j] = None <=> job[j] = None
  PROVE  IInv'
  <1>1. faults \in Nat /\ faults' = faults + 1 /\ run' = None /\ run \in Runs
    BY DEF IInv, TypeInv, Fault, Throws
  <1>2. TypeInv'
    BY <1>1 DEF IInv, TypeInv
  <1>3. \A f \in FilesIn(run.batch.job) : file'[f] \in FileRow
    <2>1. run.batch.job \in Jobs /\ job[run.batch.job] # None
      BY <1>1 DEF IInv, UploadedInv, Runs, Batches
    <2> QED
      BY <2>1 DEF IInv, UploadInv
  <1>4. UploadInv' /\ UploadedInv' /\ WaitInv'
    BY <1>1, <1>3, OthersUndisturbed
  <1>5. BeginInv' /\ ~InLoop'
    BY <1>1 DEF BeginInv, At, InLoop
  <1>6. /\ TodoInv' /\ TurnInv' /\ SuccessMeansStored' /\ VerdictInv'
        /\ NoRestartInv' /\ NoFaultInv'
    BY <1>1, <1>5, LeavesLoop
  <1> QED
    BY <1>2, <1>4, <1>5, <1>6 DEF IInv

\* What the batch in progress has when it takes a step.
LEMMA InProgress ==
  ASSUME IInv, run # None
  PROVE  /\ run \in Runs /\ run.batch \in Batches /\ run.batch.job \in Jobs
         /\ job[run.batch.job] \in JobRow /\ job[run.batch.job] # None
         /\ \A f \in FilesIn(run.batch.job) : f \in Files /\ file[f] \in FileRow
  <1>1. run \in Runs
    BY DEF IInv, TypeInv
  <1>2. run.batch \in Batches /\ run.batch.job \in Jobs
    BY <1>1 DEF Runs, Batches
  <1>3. job[run.batch.job] # None /\ job[run.batch.job] \in JobRow \cup {None}
    BY <1>2 DEF IInv, UploadedInv, TypeInv
  <1> QED
    BY <1>1, <1>2, <1>3, FilesApart DEF IInv, UploadInv

LEMMA MarkProcessingKeeps ==
  ASSUME IInv, MarkProcessing
  PROVE  IInv'
  <1> USE DEF IInv
  <1>1. run # None /\ run.step = "begin"
    BY DEF MarkProcessing, At
  <1> DEFINE j == run.batch.job
             row == [job[j] EXCEPT !.status = "processing"]
  <1>2. j \in Jobs /\ job[j] \in JobRow /\ run \in Runs
    BY <1>1, InProgress
  <1>3. row \in JobRow /\ row # None /\ job[j] # None
    <2>1. row \in JobRow
      BY <1>2 DEF JobRow, JobStatus
    <2> QED
      BY <1>2, <2>1, RowAssumption
  <1>4. CASE /\ NoFault /\ job' = [job EXCEPT ![j] = row]
             /\ Goes("load")
    <2>1. job' \in [Jobs -> JobRow \cup {None}] /\ \A i \in Jobs : job'[i] = None <=> job[i] = None
      BY <1>2, <1>3, <1>4 DEF TypeInv
    <2>2. run' \in Runs /\ run'.batch = run.batch /\ run'.step = "load"
      BY <1>2, <1>4 DEF Goes, Runs, Steps
    <2>3. TypeInv'
      BY <1>4, <2>1, <2>2 DEF TypeInv, MarkProcessing, NoFault
    <2>4. UploadInv' /\ UploadedInv' /\ WaitInv'
      BY <1>1, <2>1, <2>2, InProgress, OthersUndisturbed DEF MarkProcessing
    <2>5. BeginInv'
      BY <1>1, <2>2 DEF BeginInv, At, Untouched, FilesIn, MarkProcessing
    <2>6. ~InLoop'
      BY <2>2 DEF InLoop
    <2>7. /\ TodoInv' /\ TurnInv' /\ SuccessMeansStored' /\ VerdictInv'
          /\ NoRestartInv' /\ NoFaultInv'
      BY <1>1, <1>4, <2>6, LeavesLoop DEF MarkProcessing, NoFault
    <2> QED
      BY <2>3, <2>4, <2>5, <2>7
  <1>5. CASE Fault /\ Throws /\ UNCHANGED job
    BY <1>1, <1>5, ThrowsKeeps DEF MarkProcessing, TypeInv
  <1> QED
    BY <1>4, <1>5 DEF MarkProcessing

LEMMA LoadFilesKeeps ==
  ASSUME IInv, LoadFiles
  PROVE  IInv'
  <1> USE DEF IInv
  <1>1. run # None /\ run.step = "load"
    BY ZenonT(60) DEF LoadFiles, At
  <1> DEFINE j == run.batch.job
             all == FilesOf[j]
             chosen == {k \in DOMAIN all : run.batch.retry => file[all[k]].status = "pending"}
             todo == [k \in chosen |-> [id |-> all[k], path |-> file[all[k]].storage]]
             dir == chosen # {} /\ file[all[Max(chosen)]].storage
             next == IF chosen = {} THEN "finish" ELSE "file"
  <1>2. run \in Runs /\ j \in Jobs /\ \A f \in FilesIn(j) : f \in Files /\ file[f] \in FileRow
    BY <1>1, InProgress
  <1>3. \A k \in chosen : /\ k \in DOMAIN all /\ all[k] \in FilesIn(j) /\ all[k] \in Files
                          /\ file[all[k]].storage \in BOOLEAN
    BY <1>2, FilesApart DEF FileRow
  <1>4. CASE NoFault /\ run' = [run EXCEPT !.step = next, !.todo = todo, !.dir = dir]
    <2>1. todo \in Todos
      <3>1. chosen \in SUBSET Positions
        BY <1>2 DEF Positions
      <3>2. todo \in [chosen -> [id: Files, path: BOOLEAN]]
        BY SMTT(60), <1>3
      <3> HIDE DEF todo, chosen
      <3> QED
        BY <3>1, <3>2 DEF Todos
    <2>2. next \in {"finish", "file"} /\ next \in Steps /\ dir \in BOOLEAN
      BY DEF Steps
    <2>3. /\ DOMAIN todo = chosen
          /\ \A k \in chosen : todo[k].id = all[k] /\ todo[k].path = file[all[k]].storage
      BY ZenonT(60)
    <2>4. next = "file" => chosen # {}
      OBVIOUS
    <2> HIDE DEF todo, dir, next
    <2>5. /\ run' \in Runs /\ run'.batch = run.batch /\ run'.todo = todo
          /\ run'.step = next
      BY <1>2, <1>4, <2>1, <2>2 DEF Runs
    <2>6. TypeInv'
      BY ZenonT(60), <1>4, <2>5 DEF TypeInv, LoadFiles, NoFault
    <2>7. UploadInv' /\ UploadedInv' /\ WaitInv'
      BY ZenonT(60), <1>1, <2>5, InProgress, OthersUndisturbed DEF LoadFiles
    <2>8. BeginInv'
      BY <2>2, <2>5 DEF BeginInv, At
    <2>9. CASE ~InLoop'
      BY ZenonT(60), <1>1, <1>4, <2>6, <2>7, <2>8, <2>9, LeavesLoop DEF LoadFiles, NoFault
    <2>10. CASE InLoop'
      <3>1. next = "file"
        BY <2>2, <2>5, <2>10 DEF InLoop
      <3>2. TodoInv'
        BY ZenonT(60), <1>3, <2>3, <2>4, <2>5, <3>1 DEF TodoInv
      <3>3. ASSUME NEW k \in chosen
            PROVE  /\ file[all[k]].status = "pending"
                   /\ ~run.batch.retry /\ crashes = 0 => todo[k].path /\ all[k] \in disk
        <4>1. CASE run.batch.retry
          BY <4>1
        <4>2. CASE ~run.batch.retry
          BY ZenonT(60), <1>1, <1>3, <2>3, <4>2 DEF BeginInv, At, Untouched
        <4> QED
          BY <4>1, <4>2
      <3>4. TurnInv'
        <4>1. /\ DOMAIN run'.todo = chosen /\ run'.step = "file"
              /\ run'.batch = run.batch /\ file' = file /\ disk' = disk /\ crashes' = crashes
          BY ZenonT(60), <2>3, <2>5, <3>1 DEF LoadFiles
        <4>2. \A k \in DOMAIN run'.todo :
                /\ file'[run'.todo[k].id].status = "pending"
                /\ ~run'.batch.retry /\ crashes' = 0
                     => run'.todo[k].path /\ run'.todo[k].id \in disk'
          BY ZenonT(60), <2>3, <2>5, <3>3, <4>1
        <4> QED
          BY <4>1, <4>2 DEF TurnInv
      <3>5. VerdictInv'
        BY <2>5, <3>1 DEF VerdictInv, At
      <3>6. SuccessMeansStored'
        BY ZenonT(60) DEF SuccessMeansStored, LoadFiles
      <3>7. NoRestartInv'
        BY ZenonT(60), <1>1 DEF NoRestartInv, InLoop, LoadFiles
      <3>8. NoFaultInv'
        BY ZenonT(60), <1>4, <2>5, <3>1 DEF NoFaultInv, InLoop, LoadFiles, NoFault, FilesIn
      <3> QED
        BY <2>6, <2>7, <2>8, <3>2, <3>4, <3>5, <3>6, <3>7, <3>8
    <2> QED
      BY <2>9, <2>10
  <1>5. CASE Fault /\ Throws
    BY ZenonT(60), <1>1, <1>5, ThrowsKeeps DEF LoadFiles, TypeInv
  <1> QED
    BY ZenonT(60), <1>4, <1>5 DEF LoadFiles

LEMMA MarkFileProcessingKeeps ==
  ASSUME IInv, MarkFileProcessing
  PROVE  IInv'
  <1> USE DEF IInv
  <1>1. InLoop /\ run # None /\ run.step = "file"
    BY DEF MarkFileProcessing, At, InLoop
  <1> DEFINE c == Current.id
  <1>2. run \in Runs /\ c \in Files /\ file[c] \in FileRow /\ Current = run.todo[First]
        /\ First \in DOMAIN run.todo
    BY <1>1, CurrentIsFirst, InProgress
  <1>3. CASE NoFault /\ MarkFile("processing") /\ Goes("parse")
    <2> DEFINE row == [file[c] EXCEPT !.status = "processing"]
    <2>1. row \in FileRow /\ row.status = "processing"
      BY <1>2 DEF FileRow, FileStatus
    <2>2. file' = [file EXCEPT ![c] = row]
      BY <1>2, <1>3 DEF MarkFile, TypeInv
    <2> HIDE DEF row
    <2>3. /\ file' \in [Files -> FileRow \cup {None}]
          /\ file'[c] = row /\ \A f \in Files \ {c} : file'[f] = file[f]
      BY <1>2, <2>1, <2>2 DEF TypeInv
    <2>4. run' \in Runs /\ run'.batch = run.batch /\ run'.todo = run.todo /\ run'.step = "parse"
      BY <1>2, <1>3 DEF Goes, Runs, Steps
    <2>5. TypeInv'
      BY <1>3, <2>3, <2>4 DEF TypeInv, MarkFileProcessing, NoFault
    <2>6. crashes = 0 => stored[c] <= 1 /\ (stored[c] = 1 => c \notin disk)
      BY <1>1, <1>2 DEF NoRestartInv
    <2>7. faults = 0 => stored[c] = 0
      BY <1>1, <1>2, CurrentIsFirst, RowAssumption DEF NoFaultInv, TurnInv, FilesIn
    <2> HIDE DEF c
    <2>8. \A m \in Movements : book'[m] >= book[m]
      BY DEF TypeInv, MarkFileProcessing
    <2> QED
      BY <1>1, <1>3, <2>1, <2>3, <2>4, <2>5, <2>6, <2>7, <2>8, TurnKeeps
      DEF MarkFileProcessing, NoFault, c
  <1>4. CASE Fault /\ Throws /\ UNCHANGED file
    BY <1>1, <1>4, ThrowsKeeps DEF MarkFileProcessing, TypeInv
  <1> QED
    BY <1>3, <1>4 DEF MarkFileProcessing

LEMMA ReadFileKeeps ==
  ASSUME IInv, ReadFile
  PROVE  IInv'
  <1> USE DEF IInv
  <1>1. InLoop /\ run # None /\ run.step = "parse"
    BY DEF ReadFile, At, InLoop
  <1> DEFINE c == Current.id
             trouble == Trouble(c, run.batch.key)
             code == IF ~(Current.path /\ c \in disk) THEN "PDF_INVALID" ELSE trouble
  <1>2. /\ run \in Runs /\ c \in Files /\ file[c] \in FileRow /\ Current = run.todo[First]
        /\ First \in DOMAIN run.todo
    BY <1>1, CurrentIsFirst, InProgress
  <1>3. trouble \in Codes \cup {None}
    BY DEF Trouble, Codes
  <1>4. \/ /\ run' = [run EXCEPT !.step = "bad", !.code = code]
           /\ code \in Codes
        \/ /\ run' = [run EXCEPT !.step = "store"]
           /\ Current.path /\ c \in disk
    BY <1>3 DEF ReadFile, Fails, Goes, Codes
  <1>5. ~run.batch.retry /\ faults + crashes = 0 => code = trouble
    <2>1. faults \in Nat /\ crashes \in Nat
      BY DEF TypeInv
    <2>2. ~run.batch.retry /\ crashes = 0 => Current.path /\ c \in disk
      BY <1>1, <1>2 DEF TurnInv
    <2> QED
      BY <2>1, <2>2
  <1>6. code \in {trouble, "PDF_INVALID"}
    OBVIOUS
  <1> HIDE DEF code, trouble
  <1>7. /\ run' \in Runs /\ run'.batch = run.batch /\ run'.todo = run.todo
        /\ \/ run'.step = "bad" /\ run'.code = code
           \/ run'.step = "store" /\ Current.path /\ c \in disk
    BY ZenonT(60), <1>2, <1>4 DEF Runs, Steps
  <1>8. TypeInv'
    BY <1>7 DEF TypeInv, ReadFile, NoFault
  <1>9. crashes = 0 => stored[c] <= 1 /\ (stored[c] = 1 => c \notin disk)
    BY <1>1, <1>2 DEF NoRestartInv
  <1>10. faults = 0 => stored[c] = 0
    BY <1>1 DEF NoFaultInv
  <1>11. file[c].status = "processing"
    BY <1>1 DEF TurnInv
  <1>12. \A m \in Movements : book'[m] >= book[m]
    BY DEF TypeInv, ReadFile
  <1> HIDE DEF c
  <1> QED
    BY <1>1, <1>2, <1>5, <1>6, <1>7, <1>8, <1>9, <1>10, <1>11, <1>12, TurnKeeps
    DEF ReadFile, NoFault, c, trouble

LEMMA StoreMovementsKeeps ==
  ASSUME IInv, StoreMovements
  PROVE  IInv'
  <1> USE DEF IInv
  <1>1. InLoop /\ run # None /\ run.step = "store"
    BY DEF StoreMovements, At, InLoop
  <1> DEFINE c == Current.id
  <1>2. /\ run \in Runs /\ c \in Files /\ file[c] \in FileRow
    BY <1>1, CurrentIsFirst, InProgress
  <1>3. file[c].status = "processing" /\ Current.path /\ c \in disk
    BY <1>1 DEF TurnInv
  <1>4. stored[c] \in Nat /\ (crashes = 0 \/ faults = 0 => stored[c] = 0)
    <2>1. stored[c] \in Nat
      BY <1>2 DEF TypeInv
    <2>2. crashes = 0 => stored[c] <= 1 /\ stored[c] # 1
      BY <1>1, <1>2, <1>3 DEF NoRestartInv
    <2>3. faults = 0 => stored[c] = 0
      BY <1>1 DEF NoFaultInv
    <2> QED
      BY <2>1, <2>2, <2>3
  <1>5. \A f \in Files \ {c} : file'[f] = file[f] /\ disk' = disk
    BY DEF StoreMovements
  <1>6. CASE NoFault /\ Goes("good")
             /\ \E new \in {ToSet(Content[c])} :
                  /\ book' = [m \in Movements |-> IF m \in new THEN book[m] + 1 ELSE book[m]]
                  /\ stored' = [stored EXCEPT ![c] = IF new = {} THEN @ ELSE @ + 1]
    <2>1. /\ book' = [m \in Movements |-> IF m \in ToSet(Content[c]) THEN book[m] + 1 ELSE book[m]]
          /\ \/ stored' = stored
             \/ stored' = [stored EXCEPT ![c] = stored[c] + 1]
      <3> DEFINE s == ToSet(Content[c])
      <3>1. stored \in [Files -> Nat]
        BY DEF TypeInv
      <3>2. /\ book' = [m \in Movements |-> IF m \in s THEN book[m] + 1 ELSE book[m]]
            /\ stored' = [stored EXCEPT ![c] = IF s = {} THEN @ ELSE @ + 1]
        BY <1>6
      <3> HIDE DEF s, c
      <3> QED
        BY <1>2, <3>1, <3>2 DEF s
    <2>2. /\ book' \in [Movements -> Nat] /\ \A m \in Movements : book'[m] >= book[m]
          /\ \A m \in ToSet(Content[c]) : book'[m] > 0
      BY <1>2, <2>1, ContentFinite DEF TypeInv
    <2>3. /\ stored' \in [Files -> Nat] /\ stored'[c] \in {stored[c], stored[c] + 1}
          /\ \A f \in Files \ {c} : stored'[f] = stored[f]
      <3>1. stored \in [Files -> Nat]
        BY DEF TypeInv
      <3> HIDE DEF c
      <3> QED
        BY <1>2, <2>1, <3>1
    <2>4. run' \in Runs /\ run'.batch = run.batch /\ run'.todo = run.todo /\ run'.step = "good"
      BY <1>2, <1>6 DEF Goes, Runs, Steps
    <2>5. TypeInv'
      BY <1>6, <2>2, <2>3, <2>4 DEF TypeInv, StoreMovements, NoFault
    <2>6. crashes = 0 \/ faults = 0 => stored'[c] <= 1
      BY <1>4, <2>3
    <2> HIDE DEF c
    <2> QED
      BY <1>1, <1>2, <1>3, <1>5, <1>6, <2>2, <2>3, <2>4, <2>5, <2>6, TurnKeeps
      DEF StoreMovements, NoFault, c
  <1>7. CASE Fault /\ Fails("PDF_INVALID") /\ UNCHANGED <<book, stored>>
    <2>1. /\ run' \in Runs /\ run'.batch = run.batch /\ run'.todo = run.todo
          /\ run'.step = "bad" /\ run'.code = "PDF_INVALID"
      BY <1>2, <1>7 DEF Fails, Runs, Steps, Codes
    <2>2. faults' \in Nat /\ faults' # 0 /\ crashes \in Nat /\ faults' + crashes # 0
      BY <1>7 DEF TypeInv, Fault
    <2>3. TypeInv'
      BY <1>7, <2>1, <2>2 DEF TypeInv, StoreMovements
    <2>4. \A m \in Movements : book'[m] >= book[m]
      BY <1>7 DEF TypeInv
    <2> HIDE DEF c
    <2> QED
      BY <1>1, <1>2, <1>3, <1>4, <1>5, <1>7, <2>1, <2>2, <2>3, <2>4, TurnKeeps
      DEF StoreMovements, c
  <1>8. \A skip : ToCreate(c, skip) = ToSet(Content[c])
    BY <1>2, AllAreCreated
  <1> QED
    BY <1>6, <1>7, <1>8 DEF StoreMovements

LEMMA MarkSuccessKeeps ==
  ASSUME IInv, MarkSuccess
  PROVE  IInv'
  <1> USE DEF IInv
  <1>1. InLoop /\ run # None /\ run.step = "good"
    BY DEF MarkSuccess, At, InLoop
  <1> DEFINE c == Current.id
             row == [file[c] EXCEPT !.status = "success", !.code = None,
                                    !.created = Reported(c)]
  <1>2. run \in Runs /\ c \in Files /\ file[c] \in FileRow
    BY <1>1, CurrentIsFirst, InProgress
  <1>3. Reported(c) \in Nat
    BY <1>2, AllAreCreated, ContentFinite DEF Reported
  <1>4. file[c].status = "processing" /\ \A m \in ToSet(Content[c]) : book[m] > 0
    BY <1>1 DEF TurnInv, VerdictInv, At
  <1>5. /\ crashes = 0 => stored[c] <= 1 /\ (stored[c] = 1 => c \notin disk \/ Current.path)
        /\ faults = 0 => stored[c] <= 1
    BY <1>2 DEF NoRestartInv, NoFaultInv
  <1>6. \A m \in Movements : book'[m] = book[m] /\ book[m] >= book[m]
    BY DEF TypeInv, MarkSuccess
  <1>7. CASE /\ NoFault /\ Succeeded(c)
             /\ run' = [run EXCEPT !.step = "remove", !.ok = @ + 1, !.created = @ + Reported(c)]
    <2>1. row \in FileRow /\ row.status = "success"
      BY <1>2, <1>3 DEF FileRow, FileStatus
    <2>2. file' = [file EXCEPT ![c] = row]
      BY <1>2, <1>7 DEF Succeeded, TypeInv
    <2>3. run' \in Runs /\ run'.batch = run.batch /\ run'.todo = run.todo /\ run'.step = "remove"
      <3>1. run.ok + 1 \in Nat /\ run.created + Reported(c) \in Nat
        BY <1>2, <1>3 DEF Runs
      <3> HIDE DEF c
      <3> QED
        BY <1>2, <1>7, <3>1 DEF Runs, Steps
    <2> HIDE DEF row
    <2>4. /\ file' \in [Files -> FileRow \cup {None}]
          /\ file'[c] = row /\ \A f \in Files \ {c} : file'[f] = file[f]
      BY <1>2, <2>1, <2>2 DEF TypeInv
    <2>5. TypeInv'
      BY <1>7, <2>3, <2>4 DEF TypeInv, MarkSuccess, NoFault
    <2> HIDE DEF c
    <2> QED
      BY <1>1, <1>2, <1>4, <1>5, <1>6, <1>7, <2>1, <2>3, <2>4, <2>5, TurnKeeps
      DEF MarkSuccess, NoFault, c
  <1>8. CASE Fault /\ Fails("PDF_INVALID") /\ UNCHANGED file
    <2>1. /\ run' \in Runs /\ run'.batch = run.batch /\ run'.todo = run.todo
          /\ run'.step = "bad" /\ run'.code = "PDF_INVALID"
      BY <1>2, <1>8 DEF Fails, Runs, Steps, Codes
    <2>2. faults' \in Nat /\ faults' # 0 /\ crashes \in Nat /\ faults' + crashes # 0
      BY <1>8 DEF TypeInv, Fault
    <2>3. TypeInv'
      BY <1>8, <2>1, <2>2 DEF TypeInv, MarkSuccess
    <2> HIDE DEF c
    <2> QED
      BY <1>1, <1>2, <1>4, <1>5, <1>6, <1>8, <2>1, <2>2, <2>3, TurnKeeps
      DEF MarkSuccess, c
  <1> QED
    BY <1>7, <1>8 DEF MarkSuccess

LEMMA MarkFailedKeeps ==
  ASSUME IInv, MarkFailed
  PROVE  IInv'
  <1> USE DEF IInv
  <1>1. InLoop /\ run # None /\ run.step = "bad"
    BY DEF MarkFailed, At, InLoop
  <1> DEFINE c == Current.id
             row == [file[c] EXCEPT !.status = "failed", !.code = run.code]
  <1>2. run \in Runs /\ c \in Files /\ file[c] \in FileRow
    BY <1>1, CurrentIsFirst, InProgress
  <1>3. file[c].status = "processing"
    BY <1>1 DEF TurnInv
  <1>4. /\ crashes = 0 => stored[c] <= 1 /\ (stored[c] = 1 => c \notin disk \/ Current.path)
        /\ faults = 0 => stored[c] = 0
    BY <1>1, <1>2 DEF NoRestartInv, NoFaultInv
  <1>5. \A m \in Movements : book'[m] = book[m] /\ book[m] >= book[m]
    BY DEF TypeInv, MarkFailed
  <1>6. CASE /\ NoFault /\ file' = [file EXCEPT ![c].status = "failed", ![c].code = run.code]
             /\ run' = [run EXCEPT !.step = "remove", !.bad = @ + 1, !.code = None]
    <2>1. row \in FileRow /\ row.status = "failed"
      BY <1>2 DEF FileRow, FileStatus, Runs
    <2>2. file' = [file EXCEPT ![c] = row]
      BY <1>2, <1>6 DEF TypeInv
    <2>3. run' \in Runs /\ run'.batch = run.batch /\ run'.todo = run.todo /\ run'.step = "remove"
      <3>1. run.bad + 1 \in Nat
        BY <1>2 DEF Runs
      <3>2. run' = [run EXCEPT !.step = "remove", !.bad = run.bad + 1, !.code = None]
        BY <1>2, <1>6
      <3> QED
        BY <1>2, <3>1, <3>2 DEF Runs, Steps
    <2> HIDE DEF row
    <2>4. /\ file' \in [Files -> FileRow \cup {None}]
          /\ file'[c] = row /\ \A f \in Files \ {c} : file'[f] = file[f]
      BY <1>2, <2>1, <2>2 DEF TypeInv
    <2>5. TypeInv'
      BY <1>6, <2>3, <2>4 DEF TypeInv, MarkFailed, NoFault
    <2> HIDE DEF c
    <2> QED
      BY <1>1, <1>2, <1>4, <1>5, <1>6, <2>1, <2>3, <2>4, <2>5, TurnKeeps
      DEF MarkFailed, NoFault, c
  <1>7. CASE /\ Fault /\ UNCHANGED file
             /\ run' = [run EXCEPT !.step = "remove", !.lost = TRUE, !.code = None]
    <2>1. run' \in Runs /\ run'.batch = run.batch /\ run'.todo = run.todo /\ run'.step = "remove"
      BY <1>2, <1>7 DEF Runs, Steps
    <2>2. faults' \in Nat /\ faults' # 0
      BY <1>7 DEF TypeInv, Fault
    <2>3. TypeInv'
      BY <1>7, <2>1, <2>2 DEF TypeInv, MarkFailed
    <2> HIDE DEF c
    <2> QED
      BY <1>1, <1>2, <1>3, <1>4, <1>5, <1>7, <2>1, <2>2, <2>3, TurnKeeps
      DEF MarkFailed, c
  <1> QED
    BY <1>6, <1>7 DEF MarkFailed

LEMMA RemovePdfKeeps ==
  ASSUME IInv, RemovePdf
  PROVE  IInv'
  <1> USE DEF IInv
  <1>1. InLoop /\ run # None /\ run.step = "remove"
    BY DEF RemovePdf, At, InLoop
  <1> DEFINE c == Current.id
  <1>2. run \in Runs /\ c \in Files /\ file[c] \in FileRow /\ c \in FilesIn(run.batch.job)
        /\ run.batch.job \in Jobs
    BY <1>1, CurrentIsFirst, InProgress
  <1>3. /\ crashes = 0 => stored[c] <= 1 /\ (stored[c] = 1 => c \notin disk')
        /\ faults = 0 => stored[c] <= 1
        /\ faults = 0 /\ file[c].status \in {"pending", "failed"} => stored[c] = 0
    BY <1>1, <1>2, RowAssumption DEF NoRestartInv, NoFaultInv, RemovePdf
  <1>4. \A m \in Movements : book'[m] = book[m] /\ book[m] >= book[m]
    BY DEF TypeInv, RemovePdf
  <1>5. run' \in Runs /\ run'.batch = run.batch /\ run'.todo = run.todo /\ run'.step = "clear"
    BY <1>2 DEF RemovePdf, Goes, Runs, Steps
  <1>6. disk' \subseteq disk /\ \A f \in Files \ {c} : f \in disk => f \in disk'
    BY DEF RemovePdf
  <1>7. TypeInv'
    BY <1>5, <1>6 DEF TypeInv, RemovePdf, NoFault
  <1>8. file[c].status = "success" => \A m \in ToSet(Content[c]) : book[m] > 0
    BY <1>2, RowAssumption DEF SuccessMeansStored
  <1>9. \A m \in ToSet(Content[c]) : m \in Movements
    BY <1>2, ContentFinite
  <1> HIDE DEF c
  <1> QED
    BY <1>1, <1>2, <1>3, <1>4, <1>5, <1>6, <1>7, <1>8, <1>9, TurnKeeps
    DEF RemovePdf, NoFault, c

LEMMA ClearPathKeeps ==
  ASSUME IInv, ClearPath
  PROVE  IInv'
  <1> USE DEF IInv
  <1>1. InLoop /\ run # None /\ run.step = "clear"
    BY DEF ClearPath, At, InLoop
  <1> DEFINE c == Current.id
             j == run.batch.job
             row == [file[c] EXCEPT !.storage = FALSE]
  <1>2. /\ run \in Runs /\ j \in Jobs /\ First \in DOMAIN run.todo /\ Current = run.todo[First]
        /\ c = FilesOf[j][First] /\ First \in DOMAIN FilesOf[j]
        /\ c \in Files /\ c \in FilesIn(j) /\ file[c] \in FileRow
    BY <1>1, CurrentIsFirst, InProgress
  <1>3. CASE Current.path /\ Fault /\ Throws /\ UNCHANGED file
    BY <1>1, <1>3, ThrowsKeeps DEF ClearPath, TypeInv
  <1>4. CASE /\ NoFault
             /\ file' = IF Current.path THEN [file EXCEPT ![c].storage = FALSE] ELSE file
             /\ IF run.lost THEN Throws ELSE NextFile
    <2>1. row \in FileRow /\ row.status = file[c].status
      BY <1>2 DEF FileRow
    <2>2. \/ file' = file
          \/ file' = [file EXCEPT ![c] = row]
      BY <1>2, <1>4 DEF TypeInv
    <2> HIDE DEF row
    <2>3. /\ file' \in [Files -> FileRow \cup {None}]
          /\ file'[c] \in FileRow /\ file'[c].status = file[c].status
          /\ \A f \in Files \ {c} : file'[f] = file[f]
      BY ZenonT(60), <1>2, <2>1, <2>2 DEF TypeInv
    <2>4. \A f \in FilesIn(j) : f \in Files /\ file[f] \in FileRow /\ file'[f] \in FileRow
      BY <1>1, <2>3, InProgress
    <2>5. \A f \in Files : \/ file'[f] = file[f]
                           \/ /\ file[f] \in FileRow /\ file'[f] \in FileRow
                              /\ file'[f].status = file[f].status
      BY <1>2, <2>3
    <2>6. \A f \in Files \ FilesIn(j) : file'[f] = file[f]
      BY <1>2, <2>3
    <2> DEFINE todo == Restrict(run.todo, Later)
               next == IF Later = {} THEN "finish" ELSE "file"
    <2>7. /\ Later = DOMAIN run.todo \ {First}
          /\ DOMAIN todo = Later /\ \A k \in Later : todo[k] = run.todo[k]
      BY DEF Later, First, Restrict
    <2>8. todo \in Todos
      <3>1. PICK S \in SUBSET Positions : run.todo \in [S -> [id: Files, path: BOOLEAN]]
        BY <1>2 DEF Runs, Todos
      <3>2. todo \in [Later -> [id: Files, path: BOOLEAN]] /\ Later \in SUBSET Positions
        BY <2>7, <3>1 DEF Restrict
      <3> HIDE DEF todo
      <3> QED
        BY <3>2 DEF Todos
    <2>9. \/ run' = None
          \/ run' = [run EXCEPT !.todo = todo, !.step = next]
      BY <1>4 DEF Throws, NextFile
    <2>10. next \in {"finish", "file"} /\ (next = "file" => Later # {})
      OBVIOUS
    <2> HIDE DEF todo, next
    <2>11. \/ run' = None
           \/ /\ run' \in Runs /\ run'.batch = run.batch
              /\ run'.todo = todo /\ run'.step = next
      BY ZenonT(60), <1>2, <2>8, <2>9, <2>10 DEF Runs, Steps
    <2>12. TypeInv'
      BY <1>4, <2>3, <2>11 DEF TypeInv, ClearPath, NoFault
    <2>13. UploadInv' /\ UploadedInv' /\ WaitInv'
      BY <1>1, <2>4, <2>6, <2>11, OthersUndisturbed DEF ClearPath
    <2>14. BeginInv'
      BY <2>10, <2>11 DEF BeginInv, At
    <2>15. CASE ~InLoop'
      BY <1>1, <1>4, <2>5, <2>12, <2>13, <2>14, <2>15, LeavesLoop DEF ClearPath, NoFault
    <2>16. CASE InLoop'
      <3>1. /\ run' # None /\ run' \in Runs /\ run'.batch = run.batch /\ run'.todo = todo
            /\ run'.step = "file" /\ Later # {}
        BY <2>10, <2>11, <2>16 DEF InLoop
      <3>2. TodoInv'
        BY <1>1, <2>7, <3>1 DEF TodoInv
      <3>3. ASSUME NEW k \in Later
            PROVE  /\ file'[todo[k].id].status = "pending"
                   /\ ~run.batch.retry /\ crashes = 0
                        => todo[k].path /\ todo[k].id \in disk
        <4>1. k \in DOMAIN run.todo /\ k # First /\ todo[k] = run.todo[k]
          BY <2>7
        <4>2. run.todo[k].id \in Files /\ run.todo[k].id # c
          BY <1>1, <1>2, <4>1, FilesApart DEF TodoInv
        <4> QED
          BY <1>1, <2>3, <4>1, <4>2 DEF TurnInv
      <3>4. TurnInv'
        <4>1. disk' = disk /\ crashes' = crashes
          BY DEF ClearPath
        <4>2. \A k \in DOMAIN run'.todo :
                /\ file'[run'.todo[k].id].status = "pending"
                /\ ~run'.batch.retry /\ crashes' = 0
                     => run'.todo[k].path /\ run'.todo[k].id \in disk'
          BY <2>7, <3>1, <3>3, <4>1
        <4> QED
          BY <3>1, <4>2 DEF TurnInv
      <3>5. VerdictInv'
        BY <3>1 DEF VerdictInv, At
      <3>6. SuccessMeansStored'
        BY <2>5, RowAssumption DEF SuccessMeansStored, ClearPath
      <3>7. NoRestartInv'
        BY <1>1 DEF NoRestartInv, InLoop, ClearPath
      <3>8. NoFaultInv'
        <4> SUFFICES ASSUME faults = 0
                     PROVE  NoFaultInv'
          BY <1>4 DEF NoFaultInv, NoFault
        <4>1. \A i \in Jobs : \A f \in FilesIn(i) :
                file'[f] # None /\ file'[f].status \in {"pending", "failed"} => stored[f] = 0
          BY <2>5, FilesApart, RowAssumption DEF NoFaultInv
        <4> QED
          BY <3>1, <4>1 DEF NoFaultInv, FilesIn, ClearPath
      <3> QED
        BY <2>12, <2>13, <2>14, <3>2, <3>4, <3>5, <3>6, <3>7, <3>8
    <2> QED
      BY <2>15, <2>16
  <1> QED
    BY <1>3, <1>4 DEF ClearPath

LEMMA FinishJobKeeps ==
  ASSUME IInv, FinishJob
  PROVE  IInv'
  <1> USE DEF IInv
  <1>1. run # None /\ run.step = "finish"
    BY DEF FinishJob, At
  <1> DEFINE j == run.batch.job
             row == [job[j] EXCEPT !.status = Verdict(run.ok, run.bad),
                                   !.processed = run.ok + run.bad, !.success = run.ok,
                                   !.failed = run.bad, !.created = run.created]
  <1>2. j \in Jobs /\ job[j] \in JobRow /\ job[j] # None /\ run \in Runs
    BY <1>1, InProgress
  <1>3. row \in JobRow /\ row # None
    <2>1. /\ run.ok \in Nat /\ run.bad \in Nat /\ run.ok + run.bad \in Nat
          /\ run.created \in Nat
      BY <1>2 DEF Runs
    <2>2. Verdict(run.ok, run.bad) \in JobStatus
      BY DEF Verdict, JobStatus
    <2>3. row \in JobRow
      BY <1>2, <2>1, <2>2 DEF JobRow
    <2> QED
      BY <2>3, RowAssumption
  <1>4. Total = [job EXCEPT ![j] = row]
    BY <1>2 DEF Total, TypeInv
  <1> HIDE DEF row
  <1>5. ASSUME job' \in {job, Total}
        PROVE  /\ job' \in [Jobs -> JobRow \cup {None}]
               /\ \A i \in Jobs : job'[i] = None <=> job[i] = None
    BY <1>2, <1>3, <1>4, <1>5 DEF TypeInv
  <1>6. CASE NoFault /\ job' = Total /\ Goes("notify")
    <2>1. run' \in Runs /\ run'.batch = run.batch /\ run'.step = "notify"
      BY <1>2, <1>6 DEF Goes, Runs, Steps
    <2>2. TypeInv'
      BY <1>5, <1>6, <2>1 DEF TypeInv, FinishJob, NoFault
    <2>3. UploadInv' /\ UploadedInv' /\ WaitInv'
      BY <1>1, <1>5, <1>6, <2>1, InProgress, OthersUndisturbed DEF FinishJob
    <2>4. BeginInv' /\ ~InLoop'
      BY <2>1 DEF BeginInv, At, InLoop
    <2>5. /\ TodoInv' /\ TurnInv' /\ SuccessMeansStored' /\ VerdictInv'
          /\ NoRestartInv' /\ NoFaultInv'
      BY <1>1, <1>6, <2>4, LeavesLoop DEF FinishJob, NoFault
    <2> QED
      BY <2>2, <2>3, <2>4, <2>5
  <1>7. CASE Fault /\ Throws /\ job' \in {job, Total}
    BY <1>1, <1>5, <1>7, ThrowsKeeps DEF FinishJob
  <1> QED
    BY <1>6, <1>7 DEF FinishJob

LEMMA NotifyKeeps ==
  ASSUME IInv, Notify
  PROVE  IInv'
  <1> USE DEF IInv
  <1>1. run # None /\ run.step = "notify" /\ run' = None
    BY DEF Notify, At
  <1>2. faults' \in Nat /\ (faults' = 0 => faults = 0)
    BY DEF Notify, Fault, NoFault, TypeInv
  <1>3. /\ disk' \subseteq disk
        /\ \A f \in Files \ FilesIn(run.batch.job) : f \in disk => f \in disk'
    BY DEF Notify
  <1>4. TypeInv'
    BY <1>1, <1>2, <1>3 DEF TypeInv, Notify
  <1>5. UploadInv' /\ UploadedInv' /\ WaitInv'
    BY <1>1, <1>3, InProgress, OthersUndisturbed DEF Notify
  <1>6. BeginInv' /\ ~InLoop'
    BY <1>1 DEF BeginInv, At, InLoop
  <1>7. /\ TodoInv' /\ TurnInv' /\ SuccessMeansStored' /\ VerdictInv'
        /\ NoRestartInv' /\ NoFaultInv'
    BY <1>1, <1>2, <1>3, <1>6, LeavesLoop DEF Notify
  <1> QED
    BY <1>4, <1>5, <1>6, <1>7

LEMMA CrashKeeps ==
  ASSUME IInv, Crash
  PROVE  IInv'
  <1> USE DEF IInv
  <1>1. /\ run' = None /\ chain' = <<>> /\ crashes' \in Nat /\ crashes' # 0
        /\ disk' \subseteq disk
    BY DEF Crash, TypeInv
  <1>2. ASSUME NEW q \in Retries
        PROVE  /\ ask'[q] \in Asks \cup {None}
               /\ ask'[q] # None => ask[q] # None /\ ask'[q].batch = ask[q].batch
    <2>1. ask'[q] = IF ask[q] = None THEN None ELSE [ask[q] EXCEPT !.step = "done"]
      BY DEF Crash
    <2>2. ask[q] # None => ask[q] \in Asks
      BY RetriesKnown
    <2> QED
      BY <2>1, <2>2 DEF Asks
  <1>3. ask' \in [Retries -> Asks \cup {None}]
    BY <1>2 DEF Crash
  <1>4. TypeInv'
    BY <1>1, <1>3 DEF TypeInv, Crash
  <1>5. UploadInv' /\ BeginInv' /\ ~InLoop'
    BY <1>1 DEF UploadInv, FilesIn, BeginInv, At, InLoop, Crash
  <1>6. UploadedInv' /\ WaitInv'
    BY <1>1, <1>2 DEF UploadedInv, WaitInv, Crash
  <1>7. /\ TodoInv' /\ TurnInv' /\ SuccessMeansStored' /\ VerdictInv'
        /\ NoRestartInv' /\ NoFaultInv'
    BY <1>1, <1>5, LeavesLoop DEF Crash
  <1> QED
    BY <1>4, <1>5, <1>6, <1>7
-----------------------------------------------------------------------------
(***************************************************************************)
(* The theorems.                                                           *)
(***************************************************************************)
LEMMA InvInit == Init => IInv
  <1> SUFFICES ASSUME Init
               PROVE  IInv
    OBVIOUS
  <1> USE DEF Init
  <1>1. TypeInv
    BY DEF TypeInv
  <1>2. UploadInv /\ UploadedInv /\ WaitInv /\ BeginInv
    BY FilesApart DEF UploadInv, UploadedInv, WaitInv, BeginInv, At
  <1>3. TodoInv /\ TurnInv /\ VerdictInv
    BY DEF TodoInv, TurnInv, VerdictInv, InLoop, At
  <1>4. SuccessMeansStored /\ NoRestartInv /\ NoFaultInv
    BY FilesApart DEF SuccessMeansStored, NoRestartInv, NoFaultInv, InLoop
  <1> QED
    BY <1>1, <1>2, <1>3, <1>4 DEF IInv

LEMMA InvNext == IInv /\ [Next]_vars => IInv'
  <1> SUFFICES ASSUME IInv, [Next]_vars
               PROVE  IInv'
    OBVIOUS
  <1>1. CASE Request
    BY <1>1, UploadKeeps, RetryCheckKeeps DEF Request
  <1>2. CASE \E q \in Retries : RetryStep(q) \/ RetryFails(q)
    BY <1>2, RetryResetFilesKeeps, RetryResetJobKeeps, RetryEnqueueKeeps, RetryFailsKeeps
    DEF RetryStep
  <1>3. CASE Process
    BY <1>3, DequeueKeeps, MarkProcessingKeeps, LoadFilesKeeps, MarkFileProcessingKeeps,
       ReadFileKeeps, StoreMovementsKeeps, MarkSuccessKeeps, MarkFailedKeeps, RemovePdfKeeps,
       ClearPathKeeps, FinishJobKeeps, NotifyKeeps
    DEF Process
  <1>4. CASE Crash
    BY <1>4, CrashKeeps
  <1>5. CASE UNCHANGED vars
    <2> USE <1>5 DEF vars, IInv
    <2>1. TypeInv' /\ UploadInv' /\ UploadedInv'
      BY DEF TypeInv, UploadInv, UploadedInv, FilesIn
    <2>2. WaitInv' /\ BeginInv'
      BY DEF WaitInv, BeginInv, Untouched, FilesIn, At
    <2>3. TodoInv' /\ TurnInv'
      BY DEF TodoInv, TurnInv, InLoop, First, Current
    <2>4. SuccessMeansStored' /\ VerdictInv'
      BY DEF SuccessMeansStored, VerdictInv, At, Current, Trouble
    <2>5. NoRestartInv' /\ NoFaultInv'
      BY DEF NoRestartInv, NoFaultInv, InLoop, Current, FilesIn
    <2> QED
      BY <2>1, <2>2, <2>3, <2>4, <2>5
  <1> QED
    BY <1>1, <1>2, <1>3, <1>4, <1>5 DEF Next

\* The inductive invariant: what uploads, the chain, the batch in progress and the
\* retries know of each other in every reachable state.
THEOREM ImportsInvariant == Spec => []IInv
  BY InvInit, InvNext, PTL DEF Spec

\* A file that reads as imported has its movements among the records, whatever fails
\* and whenever the process restarts.
THEOREM ImportsStored == Spec => []SuccessMeansStored
  <1>1. IInv => SuccessMeansStored
    BY DEF IInv
  <1> QED
    BY <1>1, ImportsInvariant, PTL

\* The movements of one upload are created at most once, by any number of retries,
\* as long as calls fail or the process restarts, but not both.
THEOREM ImportsOnce == Spec => []ImportedOnce
  <1>1. IInv => ImportedOnce
    BY DEF IInv, ImportedOnce, NoRestartInv, NoFaultInv
  <1> QED
    BY <1>1, ImportsInvariant, PTL

\* What a step does to the row of a file: a file fails in MarkFailed only, with the code
\* of the batch in progress, and nothing takes up one that succeeded.
LEMMA FileSteps ==
  ASSUME IInv, [Next]_vars, NEW f \in Files, file[f] # None
  PROVE  \/ file'[f] = file[f]
         \/ file'[f].status = file[f].status
         \/ file[f].status # "success" /\ file'[f].status # "failed"
         \/ MarkFailed /\ NoFault /\ f = Current.id /\ file'[f].code = run.code
              /\ file[f].status # "success"
  <1> USE DEF IInv
  <1>1. file[f] \in FileRow
    BY DEF TypeInv
  <1>2. ASSUME NEW j \in Jobs, NEW skip \in Skips, NEW key \in Passwords(j),
               Upload(j, skip, key)
        PROVE  file'[f] = file[f]
    <2>1. f \notin FilesIn(j)
      BY <1>2 DEF Upload, UploadInv
    <2> QED
      BY <1>2, <2>1 DEF Upload
  <1>3. ASSUME NEW q \in Retries, RetryResetFiles(q)
        PROVE  \/ file'[f] = file[f]
               \/ file[f].status # "success" /\ file'[f].status # "failed"
    <2>1. CASE f \in FailedFiles(ask[q].batch.job)
      <3>1. file[f].status = "failed" /\ file'[f].status = "pending"
        BY <1>1, <1>3, <2>1 DEF FailedFiles, RetryResetFiles, FileRow
      <3> QED
        BY <3>1
    <2>2. CASE f \notin FailedFiles(ask[q].batch.job)
      BY <1>3, <2>2 DEF RetryResetFiles
    <2> QED
      BY <2>1, <2>2
  <1>4. ASSUME MarkFileProcessing
        PROVE  \/ file'[f] = file[f]
               \/ file[f].status # "success" /\ file'[f].status # "failed"
    <2>1. InLoop /\ run.step = "file"
      BY <1>4 DEF MarkFileProcessing, At, InLoop
    <2>2. file[Current.id].status = "pending"
      BY <2>1, CurrentIsFirst DEF TurnInv
    <2>3. CASE f = Current.id /\ file' # file
      <3>1. file'[f].status = "processing"
        BY <1>1, <1>4, <2>3 DEF MarkFileProcessing, MarkFile, TypeInv, FileRow
      <3> QED
        BY <2>2, <2>3, <3>1
    <2>4. CASE f # Current.id
      BY <1>4, <2>4 DEF MarkFileProcessing, MarkFile, TypeInv
    <2> QED
      BY <2>3, <2>4
  <1>5. ASSUME MarkSuccess
        PROVE  \/ file'[f] = file[f]
               \/ file[f].status # "success" /\ file'[f].status # "failed"
    <2>1. InLoop /\ run.step = "good"
      BY <1>5 DEF MarkSuccess, At, InLoop
    <2>2. file[Current.id].status = "processing"
      BY <2>1 DEF TurnInv
    <2>3. CASE f = Current.id /\ file' # file
      <3>1. file'[f].status = "success"
        BY <1>1, <1>5, <2>3 DEF MarkSuccess, Succeeded, TypeInv, FileRow
      <3> QED
        BY <2>2, <2>3, <3>1
    <2>4. CASE f # Current.id
      BY <1>5, <2>4 DEF MarkSuccess, Succeeded, TypeInv
    <2> QED
      BY <2>3, <2>4
  <1>6. ASSUME MarkFailed
        PROVE  \/ file'[f] = file[f]
               \/ MarkFailed /\ NoFault /\ f = Current.id /\ file'[f].code = run.code
                    /\ file[f].status # "success"
    <2>1. InLoop /\ run.step = "bad"
      BY <1>6 DEF MarkFailed, At, InLoop
    <2>2. file[Current.id].status = "processing"
      BY <2>1 DEF TurnInv
    <2>3. CASE f = Current.id /\ NoFault
      <3>1. file'[f].code = run.code \/ file' = file
        BY <1>1, <1>6, <2>3 DEF MarkFailed, TypeInv, FileRow
      <3> QED
        BY <1>6, <2>2, <2>3, <3>1
    <2>4. CASE f # Current.id \/ ~NoFault
      BY <1>6, <2>4 DEF MarkFailed, TypeInv
    <2> QED
      BY <2>3, <2>4
  <1>7. ASSUME ClearPath
        PROVE  file'[f].status = file[f].status
    <2>1. file \in [Files -> FileRow \cup {None}]
      BY DEF TypeInv
    <2>2. file' \in {file, [file EXCEPT ![Current.id].storage = FALSE]}
      BY <1>7 DEF ClearPath
    <2>3. [file[f] EXCEPT !.storage = FALSE].status = file[f].status
      BY <1>1 DEF FileRow
    <2>4. Current.id = f => [file EXCEPT ![Current.id].storage = FALSE][f]
                              = [file[f] EXCEPT !.storage = FALSE]
      BY <2>1
    <2>5. Current.id # f => [file EXCEPT ![Current.id].storage = FALSE][f] = file[f]
      BY <2>1
    <2> QED
      BY <2>2, <2>3, <2>4, <2>5
  <1>8. ASSUME \/ \E q \in Retries, j \in Jobs : \E key \in Passwords(j) : RetryCheck(q, j, key)
               \/ \E q \in Retries : RetryResetJob(q) \/ RetryEnqueue(q) \/ RetryFails(q)
               \/ Dequeue \/ MarkProcessing \/ LoadFiles \/ ReadFile \/ StoreMovements
               \/ RemovePdf \/ FinishJob \/ Notify \/ Crash
               \/ UNCHANGED vars
        PROVE  file'[f] = file[f]
    BY ZenonT(60), <1>8 DEF RetryCheck, RetryResetJob, RetryEnqueue, RetryFails, Dequeue, MarkProcessing,
       LoadFiles, ReadFile, StoreMovements, RemovePdf, FinishJob, Notify, Crash, vars
  <1> QED
    BY <1>2, <1>3, <1>4, <1>5, <1>6, <1>7, <1>8 DEF Next, Request, RetryStep, Process

\* An imported file is never taken up again, by any number of retries.
THEOREM ImportsFinal == Spec => SuccessFinal
  <1>1. IInv /\ [Next]_vars => [\A f \in Files : file[f] # None /\ file[f].status = "success"
                                  => file'[f].status = "success"]_vars
    <2> SUFFICES ASSUME IInv, [Next]_vars, NEW f \in Files, file[f] # None,
                        file[f].status = "success"
                 PROVE  file'[f].status = "success"
      OBVIOUS
    <2> QED
      BY FileSteps
  <1> QED
    BY <1>1, ImportsInvariant, PTL DEF Spec, SuccessFinal

\* A batch fails a file only for what is in the PDF or for a failed call, and without
\* failed calls, restarts and retries the code that is told is that of the PDF.
THEOREM ImportsFailRightly == Spec => OnlyUnreadableFail
  <1> DEFINE Fair(f) ==
        LET trouble == Trouble(f, run.batch.key)
        IN  IF run.batch.retry \/ faults + crashes > 0
            THEN file'[f].code \in {trouble, "PDF_INVALID"}
            ELSE file'[f].code = trouble
  <1>1. ASSUME IInv, [Next]_vars, NEW f \in Files, file[f] # None, file'[f].status = "failed",
               file[f].status # "failed"
        PROVE  Fair(f)
    <2>1. MarkFailed /\ f = Current.id /\ file'[f].code = run.code
      BY <1>1, FileSteps
    <2>2. At("bad")
      BY <2>1 DEF MarkFailed
    <2>3. /\ run.code \in {Trouble(f, run.batch.key), "PDF_INVALID"}
          /\ ~run.batch.retry /\ faults + crashes = 0 => run.code = Trouble(f, run.batch.key)
      BY <1>1, <2>1, <2>2 DEF IInv, VerdictInv
    <2>4. faults \in Nat /\ crashes \in Nat
      BY <1>1 DEF IInv, TypeInv
    <2>5. ~(faults + crashes > 0) => faults + crashes = 0
      BY <2>4
    <2> QED
      BY <2>1, <2>3, <2>5
  <1>2. IInv /\ [Next]_vars =>
          [\A f \in Files :
             file[f] # None /\ file'[f].status = "failed" /\ file[f].status # "failed"
               => Fair(f)]_vars
    BY <1>1
  <1> QED
    BY <1>2, ImportsInvariant, PTL DEF Spec, OnlyUnreadableFail
-----------------------------------------------------------------------------
(***************************************************************************)
(* The totals of an import.  The counters of a first batch are those of    *)
(* the files it has done with, so that at its end they are those of all    *)
(* files; from then on only a retry touches the import.                    *)
(***************************************************************************)
\* What waits or runs as a retry is of an import that a request is about.
AskedInv ==
  /\ \A k \in DOMAIN chain : chain[k].retry => Asking(chain[k].job)
  /\ run # None /\ run.batch.retry => Asking(run.batch.job)

\* An import is not finished before its first batch has come to the notification.
OpenInv ==
  /\ \A k \in DOMAIN chain : ~chain[k].retry => job[chain[k].job].status = "pending"
  /\ run # None /\ ~run.batch.retry /\ run.step # "notify" => ~Finished(run.batch.job)

\* Only a file that succeeded has movements to its name.
CreatedInv ==
  \A f \in Files : file[f] # None /\ file[f].status # "success" => file[f].created = 0

\* The files of the batch in progress that are not counted yet: those whose turn has
\* not come and, until its row is written, the one whose turn it is.
Left ==
  IF run.step \in {"begin", "load"} THEN FilesIn(run.batch.job)
  ELSE {run.todo[k].id : k \in DOMAIN run.todo \
                               (IF run.step \in {"remove", "clear"} THEN {First} ELSE {})}
Tallied == FilesIn(run.batch.job) \ Left

Having(S, status) == {f \in S : file[f].status = status}
Counts(S) ==
  /\ \A f \in S : file[f].status \in {"success", "failed"}
  /\ run.ok = Cardinality(Having(S, "success"))
  /\ run.bad = Cardinality(Having(S, "failed"))
  /\ run.created = Sum(S, Created)

\* The counters of a first batch are those of the files it has done with, as long as
\* no retry is about the import and every failure was written.
TallyInv ==
  run # None =>
    /\ run.lost => run.step \in {"remove", "clear"}
    /\ run.step = "finish" => DOMAIN run.todo = {}
    /\ run.batch.retry \/ run.lost \/ Asking(run.batch.job) \/ Counts(Tallied)

RInv == AskedInv /\ OpenInv /\ CreatedInv /\ TallyInv /\ ReportMatchesFiles

\* What ReportMatchesFiles says of one import.
Report(j) ==
  /\ job[j].success = CountFiles(j, "success")
  /\ job[j].failed = CountFiles(j, "failed")
  /\ job[j].processed = Len(FilesOf[j])
  /\ job[j].created = Sum(FilesIn(j), Created)
  /\ job[j].status = "completed" <=> FilesIn(j) = {f \in FilesIn(j) :
                                                    file[f].status = "success"}

LEMMA ReportOfEach ==
  ReportMatchesFiles <=> \A j \in Jobs : Finished(j) /\ ~Asking(j) => Report(j)
  BY Zenon DEF ReportMatchesFiles, Report

\* An import has at least one file, and as many as its list is long.
LEMMA FilesOfImport ==
  ASSUME NEW j \in Jobs
  PROVE  /\ IsFiniteSet(FilesIn(j)) /\ FilesIn(j) # {}
         /\ Cardinality(FilesIn(j)) = Len(FilesOf[j])
  <1> DEFINE s == FilesOf[j]
  <1>1. /\ s \in Seq(Files) /\ s # <<>>
        /\ \A k, l \in DOMAIN s : s[k] = s[l] => k = l
    BY ImportAssumption
  <1>2. FilesIn(j) = ToSet(s)
    BY DEF FilesIn
  <1> HIDE DEF s
  <1>3. Len(s) \in Nat /\ DOMAIN s = 1..Len(s) /\ s = [k \in 1..Len(s) |-> s[k]] /\ Len(s) # 0
    BY <1>1
  <1>4. ToSet(s) = {s[k] : k \in 1..Len(s)}
    BY <1>3 DEF ToSet
  <1>5. s \in Surjection(1..Len(s), ToSet(s)) /\ s \in Injection(1..Len(s), ToSet(s))
    BY <1>1, <1>3, <1>4 DEF Surjection, Injection, IsInjective
  <1>6. IsFiniteSet(1..Len(s)) /\ Cardinality(1..Len(s)) = Len(s)
    <2>1. PICK n \in Nat : n = Len(s)
      BY <1>3
    <2>2. IsFiniteSet(1..n) /\ Cardinality(1..n) = n
      BY FS_Interval
    <2> QED
      BY <2>1, <2>2
  <1>7. IsFiniteSet(ToSet(s)) /\ Cardinality(ToSet(s)) = Len(s)
    BY <1>5, <1>6, FS_Surjection
  <1>8. s[1] \in ToSet(s)
    BY <1>3, <1>4
  <1> QED
    BY <1>2, <1>7, <1>8 DEF s

\* Files that keep what is reported of them, with counters that stay, are counted still.
LEMMA CountsStay ==
  ASSUME NEW S, Counts(S), S \subseteq Files,
         run'.ok = run.ok, run'.bad = run.bad, run'.created = run.created,
         \A f \in S : /\ file[f] \in FileRow /\ file'[f] \in FileRow
                      /\ file'[f].status = file[f].status /\ file'[f].created = file[f].created
  PROVE  Counts(S)'
  <1>1. \A f \in S : Created[f] = Created'[f]
    BY RowAssumption DEF Created
  <1>2. PICK old : old = Created
    OBVIOUS
  <1>3. PICK new : new = Created'
    OBVIOUS
  <1>4. Sum(S, old) = Sum(S, new)
    BY <1>1, <1>2, <1>3, SumAgrees
  <1>5. Having(S, "success")' = Having(S, "success") /\ Having(S, "failed")' = Having(S, "failed")
    BY DEF Having
  <1>6. (\A f \in S : file[f].status \in {"success", "failed"})'
    BY DEF Counts
  <1>7. run'.ok = Cardinality(Having(S, "success")') /\ run'.bad = Cardinality(Having(S, "failed")')
    BY <1>5 DEF Counts
  <1>8. run'.created = Sum(S, Created')
    BY <1>2, <1>3, <1>4 DEF Counts
  <1> QED
    BY <1>6, <1>7, <1>8 DEF Counts

LEMMA CountsOfNone ==
  ASSUME run.ok = 0, run.bad = 0, run.created = 0
  PROVE  Counts({})
  <1>1. Having({}, "success") = {} /\ Having({}, "failed") = {}
    BY DEF Having
  <1>2. Units({}, Created) = {}
    BY DEF Units
  <1>3. Cardinality({}) = 0
    BY FS_EmptySet
  <1> QED
    BY <1>1, <1>2, <1>3 DEF Counts, Sum

\* One more file is counted, with its row and the counter of its outcome.
LEMMA CountsMore ==
  ASSUME NEW S, Counts(S), S \subseteq Files, IsFiniteSet(S), NEW c \in Files, c \notin S,
         run \in Runs,
         \A f \in S : file[f] \in FileRow /\ file'[f] = file[f],
         file'[c] \in FileRow,
         \/ /\ file'[c].status = "success" /\ run'.ok = run.ok + 1 /\ run'.bad = run.bad
            /\ run'.created = run.created + file'[c].created
         \/ /\ file'[c].status = "failed" /\ run'.ok = run.ok /\ run'.bad = run.bad + 1
            /\ run'.created = run.created /\ file'[c].created = 0
  PROVE  Counts(S \cup {c})'
  <1>1. \A f \in S : Created[f] = Created'[f] /\ Created'[f] \in Nat
    BY RowAssumption DEF Created, FileRow
  <1>2. Created'[c] = file'[c].created /\ Created'[c] \in Nat
    BY RowAssumption DEF Created, FileRow
  <1>3. PICK old : old = Created
    OBVIOUS
  <1>4. PICK new : new = Created'
    OBVIOUS
  <1>5. Sum(S \cup {c}, new) = Sum(S, old) + new[c] /\ Sum(S, old) \in Nat
    <2>1. \A f \in S : old[f] = new[f] /\ new[f] \in Nat /\ old[f] \in Nat
      BY <1>1, <1>3, <1>4
    <2>2. new[c] \in Nat
      BY <1>2, <1>4
    <2>3. \A f \in S \cup {c} : new[f] \in Nat
      BY <2>1, <2>2
    <2>4. Sum(S \cup {c}, new) = Sum(S, new) + new[c]
      BY <2>3, SumAdd
    <2>5. Sum(S, old) = Sum(S, new)
      BY <2>1, SumAgrees
    <2>6. Sum(S, old) \in Nat
      BY <2>1, SumType
    <2> QED
      BY <2>4, <2>5, <2>6
  <1>6. /\ run.ok = Cardinality(Having(S, "success")) /\ run.bad = Cardinality(Having(S, "failed"))
        /\ run.created = Sum(S, old)
        /\ \A f \in S : file[f].status \in {"success", "failed"}
    BY <1>3 DEF Counts
  <1>7. run'.created = Sum(S \cup {c}, new)
    <2>1. run'.created = run.created + new[c]
      <3>1. run.created \in Nat
        BY DEF Runs
      <3> QED
        BY <1>2, <1>4, <3>1
    <2> QED
      BY <1>5, <1>6, <2>1
  <1>8. PICK good : good = Having(S, "success")
    OBVIOUS
  <1>9. PICK bad : bad = Having(S, "failed")
    OBVIOUS
  <1>10. /\ IsFiniteSet(good) /\ IsFiniteSet(bad) /\ c \notin good /\ c \notin bad
    BY <1>8, <1>9, FS_Subset DEF Having
  <1>11. /\ Cardinality(good \cup {c}) = Cardinality(good) + 1
         /\ Cardinality(bad \cup {c}) = Cardinality(bad) + 1
    BY <1>10, FS_AddElement
  <1>12. \A f \in S \cup {c} : file'[f].status \in {"success", "failed"}
    BY <1>6
  <1>13. /\ run'.ok = Cardinality(Having(S \cup {c}, "success")')
         /\ run'.bad = Cardinality(Having(S \cup {c}, "failed")')
    <2>1. CASE /\ file'[c].status = "success" /\ run'.ok = run.ok + 1 /\ run'.bad = run.bad
      <3>1. Having(S \cup {c}, "success")' = good \cup {c} /\ Having(S \cup {c}, "failed")' = bad
        BY <1>8, <1>9, <2>1 DEF Having
      <3> QED
        BY <1>6, <1>8, <1>9, <1>11, <2>1, <3>1
    <2>2. CASE /\ file'[c].status = "failed" /\ run'.ok = run.ok /\ run'.bad = run.bad + 1
      <3>1. Having(S \cup {c}, "success")' = good /\ Having(S \cup {c}, "failed")' = bad \cup {c}
        BY <1>8, <1>9, <2>2 DEF Having
      <3> QED
        BY <1>6, <1>8, <1>9, <1>11, <2>2, <3>1
    <2> QED
      BY <2>1, <2>2
  <1> QED
    BY <1>4, <1>7, <1>12, <1>13 DEF Counts
-----------------------------------------------------------------------------
\* Requests are never forgotten, and are about the same import for good.
LEMMA AskingGrows ==
  ASSUME IInv, [Next]_vars, NEW j \in Jobs, Asking(j)
  PROVE  Asking(j)'
  <1>1. PICK q \in Retries : ask[q] # None /\ ask[q].batch.job = j
    BY DEF Asking
  <1>2. ask[q] \in Asks /\ ask \in [Retries -> Asks \cup {None}]
    BY <1>1, RetriesKnown DEF IInv, TypeInv
  <1>3. \A step \in {"files", "job", "enqueue", "done"} :
          LET a == [ask[q] EXCEPT !.step = step] IN a # None /\ a.batch = ask[q].batch
    <2> TAKE step \in {"files", "job", "enqueue", "done"}
    <2> DEFINE a == [ask[q] EXCEPT !.step = step]
    <2>1. a \in Asks /\ a.batch = ask[q].batch
      BY <1>2 DEF Asks
    <2> HIDE DEF a
    <2>2. a # None
      BY <2>1, RowAssumption
    <2> QED
      BY <2>1, <2>2 DEF a
  <1>4. ask'[q] # None /\ ask'[q].batch = ask[q].batch
    <2>1. ASSUME NEW p \in Retries, NEW i \in Jobs, NEW key \in Passwords(i), RetryCheck(p, i, key)
          PROVE  ask'[q] = ask[q]
      BY <1>1, <1>2, <2>1 DEF RetryCheck
    <2>2. ASSUME NEW p \in Retries, NEW step \in {"files", "job", "enqueue", "done"},
                 RetryGoes(p, step)
          PROVE  ask'[q] # None /\ ask'[q].batch = ask[q].batch
      <3>1. p # q => ask'[q] = ask[q]
        BY <1>2, <2>2 DEF RetryGoes
      <3>2. p = q => ask'[q] = [ask[q] EXCEPT !.step = step]
        BY <1>2, <2>2 DEF RetryGoes
      <3> QED
        BY <1>1, <1>3, <3>1, <3>2
    <2>3. ASSUME NEW p \in Retries, RetryStep(p) \/ RetryFails(p)
          PROVE  \E step \in {"files", "job", "enqueue", "done"} : RetryGoes(p, step)
      BY ZenonT(60), <2>3 DEF RetryStep, RetryResetFiles, RetryResetJob, RetryEnqueue, RetryFails
    <2>4. Crash => ask'[q] = [ask[q] EXCEPT !.step = "done"]
      BY <1>1, <1>2 DEF Crash
    <2>5. ASSUME \/ \E i \in Jobs, skip \in Skips : \E key \in Passwords(i) : Upload(i, skip, key)
                 \/ Process \/ UNCHANGED vars
          PROVE  ask' = ask
      BY ZenonT(60), <2>5 DEF Upload, Process, Dequeue, MarkProcessing, LoadFiles, MarkFileProcessing,
         ReadFile, StoreMovements, MarkSuccess, MarkFailed, RemovePdf, ClearPath, FinishJob,
         Notify, vars
    <2>6. Crash => ask'[q] # None /\ ask'[q].batch = ask[q].batch
      BY <1>3, <2>4
    <2> QED
      BY <1>1, <2>1, <2>2, <2>3, <2>5, <2>6 DEF Next, Request
  <1> QED
    BY <1>1, <1>4 DEF Asking

\* A finished import that nobody asked to retry is left alone, but for the
\* notification: no batch of it waits or runs.
LEMMA FinishedRests ==
  ASSUME IInv, RInv, NEW j \in Jobs, Finished(j), ~Asking(j)
  PROVE  /\ \A k \in DOMAIN chain : chain[k].job # j
         /\ run # None /\ run.batch.job = j => run.step = "notify" /\ ~run.batch.retry
  BY DEF RInv, AskedInv, OpenInv, Finished

\* The report of an import whose row and files stay as they are.
LEMMA ReportStays ==
  ASSUME IInv, IInv', NEW j \in Jobs, Report(j), job[j] # None, job'[j] = job[j],
         \A f \in FilesIn(j) : /\ file'[f].status = file[f].status
                               /\ file'[f].created = file[f].created
  PROVE  Report(j)'
  <1>1. \A f \in FilesIn(j) : f \in Files /\ file[f] \in FileRow /\ file'[f] \in FileRow
    <2>1. \A f \in FilesIn(j) : f \in Files /\ file[f] \in FileRow
      BY FilesApart DEF IInv, UploadInv
    <2>2. \A f \in FilesIn(j) : file'[f] \in FileRow
      <3>1. (UploadInv)'
        BY DEF IInv
      <3> QED
        BY <3>1 DEF UploadInv, FilesIn
    <2> QED
      BY <2>1, <2>2
  <1>2. \A f \in FilesIn(j) : Created[f] = Created'[f]
    BY <1>1, RowAssumption DEF Created
  <1>3. PICK S : S = FilesIn(j)
    OBVIOUS
  <1>4. PICK old : old = Created
    OBVIOUS
  <1>5. PICK new : new = Created'
    OBVIOUS
  <1>6. Sum(S, old) = Sum(S, new)
    BY <1>2, <1>3, <1>4, <1>5, SumAgrees
  <1>7. FilesIn(j)' = S /\ Len(FilesOf[j])' = Len(FilesOf[j])
    BY <1>3 DEF FilesIn
  <1>8. CountFiles(j, "success")' = CountFiles(j, "success")
    <2>1. {f \in S : file'[f].status = "success"} = {f \in S : file[f].status = "success"}
      BY <1>3
    <2> QED
      BY <1>3, <1>7, <2>1 DEF CountFiles
  <1>9. CountFiles(j, "failed")' = CountFiles(j, "failed")
    <2>1. {f \in S : file'[f].status = "failed"} = {f \in S : file[f].status = "failed"}
      BY <1>3
    <2> QED
      BY <1>3, <1>7, <2>1 DEF CountFiles
  <1>10. (job[j].created = Sum(FilesIn(j), Created))'
    <2>1. job[j].created = Sum(S, old)
      BY <1>3, <1>4 DEF Report
    <2>2. job'[j].created = Sum(S, new)
      BY <1>6, <2>1
    <2> QED
      BY <1>5, <1>7, <2>2
  <1>11. (job[j].status = "completed" <=> FilesIn(j) = {f \in FilesIn(j) : file[f].status = "success"})'
    BY <1>3, <1>7 DEF Report
  <1>12. /\ job'[j].success = CountFiles(j, "success")' /\ job'[j].failed = CountFiles(j, "failed")'
         /\ job'[j].processed = Len(FilesOf[j])
    BY <1>8, <1>9 DEF Report
  <1> QED
    BY <1>10, <1>11, <1>12 DEF Report

LEMMA ReportsStay ==
  ASSUME IInv, IInv', RInv, [Next]_vars,
         \A j \in Jobs : Finished(j)' /\ ~Asking(j) =>
           \/ Report(j)'
           \/ /\ job'[j] = job[j]
              /\ \A f \in FilesIn(j) : /\ file'[f].status = file[f].status
                                       /\ file'[f].created = file[f].created
  PROVE  ReportMatchesFiles'
  <1> SUFFICES ASSUME NEW j \in Jobs, Finished(j)', ~Asking(j)'
               PROVE  Report(j)'
    <2>1. ReportMatchesFiles' <=> \A j \in Jobs : Finished(j)' /\ ~Asking(j)' => Report(j)'
      BY Zenon DEF ReportMatchesFiles, Report
    <2> QED
      BY <2>1
  <1>1. ~Asking(j)
    BY AskingGrows
  <1>2. CASE Report(j)'
    BY <1>2
  <1>3. CASE /\ job'[j] = job[j]
             /\ \A f \in FilesIn(j) : /\ file'[f].status = file[f].status
                                      /\ file'[f].created = file[f].created
    <2>1. Finished(j)
      BY <1>3 DEF Finished
    <2>2. Report(j) /\ job[j] # None
      BY <1>1, <2>1, ReportOfEach DEF RInv, Finished
    <2> QED
      BY <1>3, <2>2, ReportStays
  <1> QED
    BY <1>1, <1>2, <1>3

\* What waits and runs as a retry stays so.
LEMMA AskedStays ==
  ASSUME IInv, RInv, [Next]_vars, chain' = chain, run' = None \/ (run # None /\ run'.batch = run.batch)
  PROVE  AskedInv'
  <1>1. \A k \in DOMAIN chain : chain[k].job \in Jobs
    BY BatchesOf DEF IInv, TypeInv
  <1>2. run # None => run.batch.job \in Jobs
    BY InProgress
  <1>3. \A k \in DOMAIN chain : chain[k].retry => Asking(chain[k].job)'
    <2> SUFFICES ASSUME NEW k \in DOMAIN chain, chain[k].retry
                 PROVE  Asking(chain[k].job)'
      OBVIOUS
    <2>1. PICK j \in Jobs : j = chain[k].job
      BY <1>1
    <2>2. Asking(j)
      BY <2>1 DEF RInv, AskedInv
    <2>3. Asking(j)'
      BY <2>2, AskingGrows
    <2> QED
      BY <2>1, <2>3 DEF Asking
  <1>4. run' # None /\ run'.batch.retry => Asking(run.batch.job)'
    <2> SUFFICES ASSUME run' # None, run'.batch.retry
                 PROVE  Asking(run.batch.job)'
      OBVIOUS
    <2>1. run # None /\ run'.batch = run.batch
      OBVIOUS
    <2>2. PICK j \in Jobs : j = run.batch.job
      BY <1>2, <2>1
    <2>3. Asking(j)
      BY <2>1, <2>2 DEF RInv, AskedInv
    <2>4. Asking(j)'
      BY <2>3, AskingGrows
    <2> QED
      BY <2>1, <2>2, <2>4 DEF Asking
  <1> QED
    BY <1>3, <1>4 DEF AskedInv, Asking

\* The counters are right if they are so for a first batch that nobody asked to retry.
LEMMA TallyFrom ==
  ASSUME IInv, [Next]_vars, run # None, run'.batch = run.batch,
         run'.lost => run'.step \in {"remove", "clear"},
         run'.step = "finish" => DOMAIN run'.todo = {},
         ~run.batch.retry /\ ~run'.lost /\ ~Asking(run.batch.job) =>
           \E S : S = Tallied' /\ Counts(S)'
  PROVE  TallyInv'
  <1>1. PICK j \in Jobs : j = run.batch.job
    BY InProgress
  <1>2. Asking(j) => Asking(j)'
    BY <1>1, AskingGrows
  <1>3. Asking(j)' <=> Asking(run.batch.job)'
    BY <1>1 DEF Asking
  <1>4. ~run.batch.retry /\ ~run'.lost /\ ~Asking(j)' => Counts(Tallied)'
    <2> SUFFICES ASSUME ~run.batch.retry, ~run'.lost, ~Asking(j)'
                 PROVE  Counts(Tallied)'
      OBVIOUS
    <2>1. ~Asking(run.batch.job)
      BY <1>1, <1>2
    <2>2. PICK S : S = Tallied' /\ Counts(S)'
      BY <2>1
    <2> QED
      BY <2>2 DEF Counts, Having
  <1> QED
    BY <1>3, <1>4 DEF TallyInv

\* What is counted is of the import, and finite.
LEMMA TalliedFiles ==
  ASSUME IInv, run # None
  PROVE  /\ Tallied \subseteq FilesIn(run.batch.job) /\ IsFiniteSet(Tallied)
         /\ Tallied \subseteq Files
         /\ \A f \in Tallied : file[f] \in FileRow
  <1>1. run.batch.job \in Jobs /\ \A f \in FilesIn(run.batch.job) : f \in Files /\ file[f] \in FileRow
    BY InProgress
  <1>2. Tallied \in SUBSET FilesIn(run.batch.job)
    BY DEF Tallied
  <1>3. IsFiniteSet(Tallied)
    BY <1>1, <1>2, FilesOfImport, FS_Subset
  <1> QED
    BY <1>1, <1>2, <1>3

\* A step that counts nothing keeps the counters right.
LEMMA TallyStays ==
  ASSUME IInv, IInv', RInv, [Next]_vars, run # None, run' # None, run'.batch = run.batch,
         run'.lost => run'.step \in {"remove", "clear"},
         run'.step = "finish" => DOMAIN run'.todo = {},
         run'.lost = run.lost,
         run'.ok = run.ok, run'.bad = run.bad, run'.created = run.created,
         Tallied' = Tallied,
         ~Asking(run.batch.job) =>
           \A f \in Tallied : /\ file'[f].status = file[f].status
                              /\ file'[f].created = file[f].created
  PROVE  TallyInv'
  <1>1. PICK S : S = Tallied
    OBVIOUS
  <1>2. ~run.batch.retry /\ ~run'.lost /\ ~Asking(run.batch.job) => S = Tallied' /\ Counts(S)'
    <2> SUFFICES ASSUME ~run.batch.retry, ~run.lost, ~Asking(run.batch.job)
                 PROVE  Counts(S)'
      BY <1>1
    <2>1. Counts(S)
      BY <1>1 DEF RInv, TallyInv
    <2>2. /\ S \subseteq Files /\ \A f \in S : file[f] \in FileRow
          /\ S \subseteq FilesIn(run.batch.job)
      BY <1>1, TalliedFiles
    <2>3. \A f \in S : file'[f] \in FileRow
      <3>1. run' # None /\ IInv' /\ run'.batch = run.batch
        OBVIOUS
      <3>2. \A f \in FilesIn(run'.batch.job) : file'[f] \in FileRow
        <4>1. (\A f \in FilesIn(run.batch.job) : file[f] \in FileRow)'
          <5>1. run'.batch.job \in Jobs /\ job'[run'.batch.job] # None
            <6>1. run.batch.job \in Jobs
              BY InProgress
            <6>2. UploadedInv'
              BY DEF IInv
            <6> QED
              BY <3>1, <6>1, <6>2 DEF UploadedInv
          <5>2. UploadInv'
            BY DEF IInv
          <5> QED
            BY <5>1, <5>2 DEF UploadInv, FilesIn
        <4> QED
          BY <4>1 DEF FilesIn
      <3> QED
        BY <2>2, <3>1, <3>2
    <2>4. \A f \in S : /\ file[f] \in FileRow /\ file'[f] \in FileRow
                       /\ file'[f].status = file[f].status /\ file'[f].created = file[f].created
      BY <1>1, <2>2, <2>3
    <2> QED
      BY <2>1, <2>2, <2>4, CountsStay
  <1> QED
    BY <1>2, TallyFrom

\* A request leaves alone what nobody asks to retry.
LEMMA RequestReports ==
  ASSUME IInv, IInv', RInv, [Next]_vars, run' = run,
         \A j \in Jobs : ~Asking(j) /\ job[j] # None =>
           job'[j] = job[j] /\ \A f \in FilesIn(j) : file'[f] = file[f],
         \A j \in Jobs : job[j] = None /\ job'[j] # None => job'[j].status = "pending",
         \A f \in Files : file'[f] = file[f] \/ file'[f].created = 0
  PROVE  CreatedInv' /\ TallyInv' /\ ReportMatchesFiles'
  <1>1. CreatedInv'
    BY DEF RInv, CreatedInv
  <1>2. TallyInv'
    <2>1. CASE run = None
      BY <2>1 DEF TallyInv
    <2>2. CASE run # None
      <3>1. Tallied' = Tallied
        BY DEF Tallied, Left, First, FilesIn
      <3>2. ~Asking(run.batch.job) => \A f \in Tallied : file'[f] = file[f]
        <4>1. run.batch.job \in Jobs /\ job[run.batch.job] # None
          BY <2>2, InProgress
        <4> QED
          BY <2>2, <4>1, TalliedFiles
      <3>3. /\ run.lost => run.step \in {"remove", "clear"}
            /\ run.step = "finish" => DOMAIN run.todo = {}
        BY <2>2 DEF RInv, TallyInv
      <3> QED
        BY <2>2, <3>1, <3>2, <3>3, TallyStays
    <2> QED
      BY <2>1, <2>2
  <1>3. ReportMatchesFiles'
    <2>1. \A j \in Jobs : Finished(j)' /\ ~Asking(j) =>
            /\ job'[j] = job[j]
            /\ \A f \in FilesIn(j) : /\ file'[f].status = file[f].status
                                     /\ file'[f].created = file[f].created
      <3> TAKE j \in Jobs
      <3> SUFFICES ASSUME Finished(j)', ~Asking(j)
                   PROVE  job'[j] = job[j] /\ \A f \in FilesIn(j) : file'[f] = file[f]
        OBVIOUS
      <3>1. job[j] # None
        BY DEF Finished
      <3> QED
        BY <3>1
    <2> QED
      BY <2>1, ReportsStay
  <1> QED
    BY <1>1, <1>2, <1>3

\* A step of the batch in progress leaves the other imports alone.
LEMMA StepReports ==
  ASSUME IInv, IInv', RInv, [Next]_vars, run # None, chain' = chain,
         NEW i \in Jobs, i = run.batch.job,
         run' = None \/ run'.batch = run.batch,
         \A j \in Jobs \ {i} : job'[j] = job[j],
         \A f \in Files \ FilesIn(i) : file'[f] = file[f],
         \A f \in FilesIn(i) :
           file'[f] = file[f] \/ file'[f].status = "success" \/ file'[f].created = 0,
         ~run.batch.retry =>
           /\ run' # None => run'.step = "notify" \/ ~Finished(i)'
           /\ Finished(i)' /\ ~Asking(i) =>
                \/ Report(i)'
                \/ /\ job'[i] = job[i]
                   /\ \A f \in FilesIn(i) : file'[f] = file[f]
  PROVE  AskedInv' /\ OpenInv' /\ CreatedInv' /\ ReportMatchesFiles'
  <1>1. AskedInv'
    BY AskedStays
  <1>2. OpenInv'
    <2>1. \A k \in DOMAIN chain : ~chain[k].retry => job'[chain[k].job].status = "pending"
      <3> SUFFICES ASSUME NEW k \in DOMAIN chain, ~chain[k].retry
                   PROVE  job'[chain[k].job].status = "pending"
        OBVIOUS
      <3>1. chain[k].job \in Jobs /\ chain[k].job # run.batch.job
        BY BatchesOf DEF IInv, WaitInv, TypeInv
      <3>2. job[chain[k].job].status = "pending"
        BY DEF RInv, OpenInv
      <3> QED
        BY <3>1, <3>2
    <2>2. run' # None /\ ~run'.batch.retry /\ run'.step # "notify" => ~Finished(i)'
      OBVIOUS
    <2> QED
      BY <2>1, <2>2 DEF OpenInv, Finished
  <1>3. CreatedInv'
    BY DEF CreatedInv, RInv
  <1>4. ReportMatchesFiles'
    <2>1. \A j \in Jobs : Finished(j)' /\ ~Asking(j) =>
            \/ Report(j)'
            \/ /\ job'[j] = job[j]
               /\ \A f \in FilesIn(j) : /\ file'[f].status = file[f].status
                                        /\ file'[f].created = file[f].created
      <3> SUFFICES ASSUME NEW j \in Jobs, Finished(j)', ~Asking(j)
                   PROVE  \/ Report(j)'
                          \/ job'[j] = job[j] /\ \A f \in FilesIn(j) : file'[f] = file[f]
        OBVIOUS
      <3>1. CASE j # i
        BY <3>1, FilesApart
      <3>2. CASE j = i
        <4>1. ~run.batch.retry /\ run # None
          BY <3>2 DEF RInv, AskedInv
        <4> QED
          BY <3>2, <4>1
      <3> QED
        BY <3>1, <3>2
    <2> QED
      BY <2>1, ReportsStay
  <1> QED
    BY <1>1, <1>2, <1>3, <1>4

\* So does a step that leaves the rows of the imports alone, before the notification.
LEMMA QuietStep ==
  ASSUME IInv, IInv', RInv, [Next]_vars, run # None, run.step # "notify", chain' = chain,
         job' = job, run' = None \/ run'.batch = run.batch,
         \A f \in Files \ FilesIn(run.batch.job) : file'[f] = file[f],
         \A f \in FilesIn(run.batch.job) :
           file'[f] = file[f] \/ file'[f].status = "success" \/ file'[f].created = 0
  PROVE  AskedInv' /\ OpenInv' /\ CreatedInv' /\ ReportMatchesFiles'
  <1>1. PICK i \in Jobs : i = run.batch.job
    BY InProgress
  <1>2. ~run.batch.retry => ~Finished(i) /\ ~Finished(i)'
    BY <1>1 DEF RInv, OpenInv, Finished
  <1> QED
    BY <1>1, <1>2, StepReports

\* A failed call or a restart that ends the batch.
LEMMA TallyOfNone ==
  ASSUME run' = None
  PROVE  TallyInv'
  BY DEF TallyInv

LEMMA UploadReports ==
  ASSUME IInv, IInv', RInv, [Next]_vars,
         NEW i \in Jobs, NEW skip \in Skips, NEW key \in Passwords(i), Upload(i, skip, key)
  PROVE  RInv'
  <1>1. job[i] = None /\ run' = run /\ ask' = ask
    BY DEF Upload
  <1>2. /\ \A j \in Jobs : j # i => job'[j] = job[j] /\ \A f \in FilesIn(j) : file'[f] = file[f]
        /\ job'[i] = NewJob(skip) /\ job'[i].status = "pending"
        /\ \A f \in Files : file'[f] = file[f] \/ file'[f].created = 0
    BY FilesApart DEF Upload, IInv, TypeInv, NewJob, NewFile
  <1> DEFINE b == Batch(i, FALSE, key)
  <1>3. b \in Batches /\ ~b.retry /\ b.job = i
    BY DEF Batch, Batches, Passwords
  <1>4. chain \in Seq(Batches) /\ chain' = Append(chain, b)
    BY DEF Upload, IInv, TypeInv
  <1> HIDE DEF b
  <1>5. \A k \in DOMAIN chain' : \/ k \in DOMAIN chain /\ chain'[k] = chain[k]
                                 \/ chain'[k] = b
    BY <1>3, <1>4, AppendFacts
  <1>6. \A j \in Jobs : Asking(j)' <=> Asking(j)
    BY <1>1 DEF Asking
  <1>7. run # None => run.batch.job \in Jobs /\ run.batch.job # i
    BY <1>1, InProgress DEF IInv, UploadedInv
  <1>8. \A k \in DOMAIN chain : chain[k].job \in Jobs /\ chain[k].job # i
    BY <1>1, <1>4, BatchesOf DEF IInv, UploadedInv
  <1>9. AskedInv'
    <2>1. \A k \in DOMAIN chain' : chain'[k].retry => Asking(chain'[k].job)
      BY <1>3, <1>5 DEF RInv, AskedInv
    <2>2. run # None /\ run.batch.retry => Asking(run.batch.job)
      BY DEF RInv, AskedInv
    <2> QED
      BY <1>1, <2>1, <2>2 DEF AskedInv, Asking
  <1>10. OpenInv'
    <2>1. \A k \in DOMAIN chain' : ~chain'[k].retry => job'[chain'[k].job].status = "pending"
      BY <1>2, <1>3, <1>5, <1>8 DEF RInv, OpenInv
    <2>2. run # None /\ ~run.batch.retry /\ run.step # "notify" => ~Finished(run.batch.job)'
      BY <1>1, <1>2, <1>7 DEF RInv, OpenInv, Finished
    <2> QED
      BY <1>1, <2>1, <2>2 DEF OpenInv
  <1>11. CreatedInv' /\ TallyInv' /\ ReportMatchesFiles'
    BY <1>1, <1>2, RequestReports
  <1> QED
    BY <1>9, <1>10, <1>11 DEF RInv

\* A step of a retry before it joins the chain.
LEMMA RetryReports ==
  ASSUME IInv, IInv', RInv, [Next]_vars, run' = run, chain' = chain,
         \A j \in Jobs : ~Asking(j) =>
           job'[j] = job[j] /\ \A f \in FilesIn(j) : file'[f] = file[f],
         \A j \in Jobs : Asking(j) => job'[j] = job[j] \/ job'[j].status = "pending",
         \A j \in Jobs : job[j] = None => job'[j] = None,
         \A f \in Files : file'[f] = file[f] \/ file'[f].created = 0
  PROVE  RInv'
  <1>1. AskedInv'
    BY AskedStays
  <1>2. OpenInv'
    <2>1. \A k \in DOMAIN chain : ~chain[k].retry => job'[chain[k].job].status = "pending"
      <3> SUFFICES ASSUME NEW k \in DOMAIN chain, ~chain[k].retry
                   PROVE  job'[chain[k].job].status = "pending"
        OBVIOUS
      <3>1. chain[k].job \in Jobs
        BY BatchesOf DEF IInv, TypeInv
      <3>2. job[chain[k].job].status = "pending"
        BY DEF RInv, OpenInv
      <3> QED
        BY <3>1, <3>2
    <2>2. run # None /\ ~run.batch.retry /\ run.step # "notify" => ~Finished(run.batch.job)'
      BY InProgress DEF RInv, OpenInv, Finished
    <2> QED
      BY <2>1, <2>2 DEF OpenInv
  <1>3. CreatedInv' /\ TallyInv' /\ ReportMatchesFiles'
    BY RequestReports
  <1> QED
    BY <1>1, <1>2, <1>3 DEF RInv

LEMMA RetryResetFilesReports ==
  ASSUME IInv, IInv', RInv, [Next]_vars, NEW q \in Retries, RetryResetFiles(q)
  PROVE  RInv'
  <1>1. ask[q] # None /\ run' = run /\ chain' = chain /\ job' = job
    BY DEF RetryResetFiles, RetryAt
  <1>2. PICK i \in Jobs : i = ask[q].batch.job
    BY <1>1, RetriesKnown
  <1>3. Asking(i)
    BY <1>1, <1>2 DEF Asking
  <1>4. \A f \in Files : f \notin FilesIn(i) => file'[f] = file[f]
    BY <1>2 DEF RetryResetFiles, FailedFiles
  <1>5. \A f \in Files : file'[f] = file[f] \/ file'[f].created = 0
    <2> TAKE f \in Files
    <2>1. CASE f \in FailedFiles(i)
      <3>1. file[f] \in FileRow
        BY <2>1 DEF FailedFiles, IInv, TypeInv
      <3>2. file'[f] = [file[f] EXCEPT !.status = "pending", !.code = None, !.created = 0]
        BY <1>2, <2>1 DEF RetryResetFiles
      <3> QED
        BY <3>1, <3>2 DEF FileRow
    <2>2. CASE f \notin FailedFiles(i)
      BY <1>2, <2>2 DEF RetryResetFiles
    <2> QED
      BY <2>1, <2>2
  <1>6. \A j \in Jobs : ~Asking(j) => \A f \in FilesIn(j) : file'[f] = file[f]
    BY <1>3, <1>4, FilesApart
  <1> QED
    BY <1>1, <1>5, <1>6, RetryReports

LEMMA RetryResetJobReports ==
  ASSUME IInv, IInv', RInv, [Next]_vars, NEW q \in Retries, RetryResetJob(q)
  PROVE  RInv'
  <1>1. ask[q] # None /\ run' = run /\ chain' = chain /\ file' = file
    BY DEF RetryResetJob, RetryAt
  <1>2. PICK i \in Jobs : i = ask[q].batch.job
    BY <1>1, RetriesKnown
  <1>3. Asking(i) /\ job[i] # None
    BY <1>1, <1>2, RetriesKnown DEF Asking
  <1>4. job' = [job EXCEPT ![i] = [job[i] EXCEPT !.status = "pending", !.processed = 0,
                                                 !.failed = 0]]
    BY <1>2 DEF RetryResetJob, IInv, TypeInv
  <1>5. job[i] \in JobRow /\ job \in [Jobs -> JobRow \cup {None}]
    BY <1>3 DEF IInv, TypeInv
  <1>6. job'[i].status = "pending" /\ \A j \in Jobs \ {i} : job'[j] = job[j]
    BY <1>4, <1>5 DEF JobRow
  <1> QED
    BY <1>1, <1>3, <1>6, RetryReports

LEMMA RetryEnqueueReports ==
  ASSUME IInv, IInv', RInv, [Next]_vars, NEW q \in Retries, RetryEnqueue(q)
  PROVE  RInv'
  <1>1. ask[q] # None /\ run' = run /\ job' = job /\ file' = file
    BY DEF RetryEnqueue, RetryAt
  <1> DEFINE b == ask[q].batch
  <1>2. b \in Batches /\ b.retry /\ b.job \in Jobs /\ Asking(b.job)
    BY <1>1, RetriesKnown DEF RetryBatches, Asking
  <1>3. chain \in Seq(Batches) /\ chain' = Append(chain, b)
    BY DEF IInv, TypeInv, RetryEnqueue
  <1> HIDE DEF b
  <1>4. \A k \in DOMAIN chain' : \/ k \in DOMAIN chain /\ chain'[k] = chain[k]
                                 \/ chain'[k] = b
    BY <1>2, <1>3, AppendFacts
  <1>5. AskedInv'
    <2>1. ASSUME NEW j \in Jobs, Asking(j)
          PROVE  \E p \in Retries : ask'[p] # None /\ ask'[p].batch.job = j
      <3>1. Asking(j)'
        BY <2>1, AskingGrows
      <3> QED
        BY <3>1 DEF Asking
    <2>2. \A k \in DOMAIN chain' : chain'[k].retry =>
            \E p \in Retries : ask'[p] # None /\ ask'[p].batch.job = chain'[k].job
      <3> SUFFICES ASSUME NEW k \in DOMAIN chain', chain'[k].retry
                   PROVE  chain'[k].job \in Jobs /\ Asking(chain'[k].job)
        BY <2>1
      <3>1. CASE k \in DOMAIN chain /\ chain'[k] = chain[k]
        BY <1>3, <3>1, BatchesOf DEF RInv, AskedInv
      <3>2. CASE chain'[k] = b
        BY <1>2, <3>2
      <3> QED
        BY <1>4, <3>1, <3>2
    <2>3. run # None /\ run.batch.retry =>
            \E p \in Retries : ask'[p] # None /\ ask'[p].batch.job = run.batch.job
      BY <2>1, InProgress DEF RInv, AskedInv
    <2> QED
      BY <1>1, <2>2, <2>3 DEF AskedInv, Asking
  <1>6. OpenInv'
    BY <1>1, <1>2, <1>4 DEF OpenInv, RInv, Finished
  <1>7. CreatedInv' /\ TallyInv' /\ ReportMatchesFiles'
    BY <1>1, RequestReports
  <1> QED
    BY <1>5, <1>6, <1>7 DEF RInv

\* Requests that change no row, and steps that change nothing.
LEMMA StillReports ==
  ASSUME IInv, IInv', RInv, [Next]_vars, run' = run, chain' = chain, job' = job, file' = file
  PROVE  RInv'
  BY RetryReports
-----------------------------------------------------------------------------
LEMMA ThrowReports ==
  ASSUME IInv, IInv', RInv, [Next]_vars, run # None, run.step # "notify", run' = None,
         chain' = chain, job' = job, file' = file
  PROVE  RInv'
  BY QuietStep, TallyOfNone DEF RInv

\* The files that are left with and without the one whose turn it is.
LEMMA TurnLeft ==
  ASSUME IInv, InLoop, NEW c, c = Current.id
  PROVE  /\ run # None /\ c \in Files /\ c \in FilesIn(run.batch.job) /\ file[c] \in FileRow
         /\ run.step \notin {"remove", "clear"} => c \notin Tallied
         /\ FilesIn(run.batch.job) \ {run.todo[k].id : k \in DOMAIN run.todo \ {First}}
              = (FilesIn(run.batch.job) \ {run.todo[k].id : k \in DOMAIN run.todo}) \cup {c}
  <1>1. /\ run # None /\ run.batch.job \in Jobs
        /\ First \in DOMAIN run.todo /\ First \in DOMAIN FilesOf[run.batch.job]
        /\ c = run.todo[First].id /\ c = FilesOf[run.batch.job][First]
        /\ c \in FilesIn(run.batch.job) /\ c \in Files
    BY CurrentIsFirst DEF IInv, InLoop
  <1>2. file[c] \in FileRow
    BY <1>1, InProgress
  <1>3. \A k \in DOMAIN run.todo : k # First => run.todo[k].id # c
    BY <1>1, FilesApart DEF IInv, TodoInv
  <1>4. run.step \notin {"remove", "clear"} => c \notin Tallied
    BY <1>1 DEF Tallied, Left, InLoop
  <1>5. {run.todo[k].id : k \in DOMAIN run.todo \ {First}}
          = {run.todo[k].id : k \in DOMAIN run.todo} \ {c}
    BY <1>1, <1>3
  <1> QED
    BY <1>1, <1>2, <1>4, <1>5

\* A step within the turn of a file that counts nothing.
LEMMA TurnReports ==
  ASSUME IInv, IInv', RInv, [Next]_vars, InLoop, NEW c, c = Current.id,
         chain' = chain, job' = job, run' # None, run'.batch = run.batch, run'.todo = run.todo,
         run'.ok = run.ok, run'.bad = run.bad, run'.created = run.created, run'.lost = run.lost,
         run'.step \notin {"begin", "load", "finish"},
         run'.step \in {"remove", "clear"} <=> run.step \in {"remove", "clear"},
         \A f \in Files \ {c} : file'[f] = file[f],
         \/ file'[c] = file[c]
         \/ file'[c].created = 0 /\ run.step \notin {"remove", "clear"}
  PROVE  RInv'
  <1>1. /\ run # None /\ c \in Files /\ c \in FilesIn(run.batch.job)
        /\ run.step \notin {"remove", "clear"} => c \notin Tallied
    BY TurnLeft
  <1>2. run.step \notin {"begin", "load", "finish", "notify"}
    BY DEF InLoop
  <1>3. Tallied' = Tallied
    <2>1. First' = First
      BY DEF First
    <2>2. Left' = Left
      BY <1>2, <2>1 DEF Left
    <2> QED
      BY <2>2 DEF Tallied, FilesIn
  <1>4. \A f \in Tallied : file'[f] = file[f]
    BY <1>1, TalliedFiles
  <1>5. run'.lost => run'.step \in {"remove", "clear"}
    BY <1>1 DEF RInv, TallyInv
  <1>6. TallyInv'
    BY <1>1, <1>3, <1>4, <1>5, TallyStays
  <1>7. /\ \A f \in Files \ FilesIn(run.batch.job) : file'[f] = file[f]
        /\ \A f \in FilesIn(run.batch.job) : file'[f] = file[f] \/ file'[f].created = 0
    BY <1>1, InProgress
  <1> QED
    BY <1>1, <1>2, <1>6, <1>7, QuietStep DEF RInv

\* A step that writes the row of a file and counts it.
LEMMA CountReports ==
  ASSUME IInv, IInv', RInv, [Next]_vars, InLoop, NEW c, c = Current.id,
         run.step \in {"good", "bad"},
         chain' = chain, job' = job, run' # None, run'.batch = run.batch, run'.todo = run.todo,
         run'.step = "remove",
         \A f \in Files \ {c} : file'[f] = file[f], file'[c] \in FileRow,
         file'[c].status = "success" \/ file'[c].created = 0,
         \/ run'.lost
         \/ /\ file'[c].status = "success" /\ run'.ok = run.ok + 1 /\ run'.bad = run.bad
            /\ run'.created = run.created + file'[c].created
         \/ /\ file'[c].status = "failed" /\ run'.ok = run.ok /\ run'.bad = run.bad + 1
            /\ run'.created = run.created /\ file'[c].created = 0
  PROVE  RInv'
  <1>1. /\ run # None /\ c \in Files /\ c \in FilesIn(run.batch.job) /\ c \notin Tallied
    BY TurnLeft
  <1>2. run \in Runs
    BY <1>1, InProgress
  <1>3. PICK S : S = Tallied
    OBVIOUS
  <1>4. S \cup {c} = Tallied'
    <2>1. First' = First
      BY DEF First
    <2>2. /\ Left = {run.todo[k].id : k \in DOMAIN run.todo}
          /\ Left' = {run.todo[k].id : k \in DOMAIN run.todo \ {First}}
      BY <2>1 DEF Left
    <2>3. Tallied' = FilesIn(run.batch.job) \ {run.todo[k].id : k \in DOMAIN run.todo \ {First}}
      BY <2>2 DEF Tallied, FilesIn
    <2>4. FilesIn(run.batch.job) \ {run.todo[k].id : k \in DOMAIN run.todo \ {First}}
            = (FilesIn(run.batch.job) \ {run.todo[k].id : k \in DOMAIN run.todo}) \cup {c}
      BY TurnLeft
    <2> QED
      BY <1>3, <2>2, <2>3, <2>4 DEF Tallied
  <1>5. ~run.lost
    BY <1>1 DEF RInv, TallyInv
  <1>6. ~run.batch.retry /\ ~run'.lost /\ ~Asking(run.batch.job) => Counts(S \cup {c})'
    <2> SUFFICES ASSUME ~run.batch.retry, ~run'.lost, ~Asking(run.batch.job)
                 PROVE  Counts(S \cup {c})'
      OBVIOUS
    <2>1. Counts(S)
      BY <1>1, <1>3, <1>5 DEF RInv, TallyInv
    <2>2. S \subseteq Files /\ IsFiniteSet(S) /\ c \notin S /\ \A f \in S : file[f] \in FileRow
      BY <1>1, <1>3, TalliedFiles
    <2>3. \A f \in S : file[f] \in FileRow /\ file'[f] = file[f]
      BY <2>2
    <2> QED
      BY <1>1, <1>2, <2>1, <2>2, <2>3, CountsMore
  <1>7. TallyInv'
    BY <1>1, <1>4, <1>6, TallyFrom
  <1>8. /\ \A f \in Files \ FilesIn(run.batch.job) : file'[f] = file[f]
        /\ \A f \in FilesIn(run.batch.job) :
             file'[f] = file[f] \/ file'[f].status = "success" \/ file'[f].created = 0
    BY <1>1, InProgress
  <1> QED
    BY <1>1, <1>7, <1>8, QuietStep DEF RInv

LEMMA DequeueReports ==
  ASSUME IInv, IInv', RInv, [Next]_vars, Dequeue
  PROVE  RInv'
  <1> DEFINE b == Head(chain)
  <1>1. chain \in Seq(Batches) /\ chain # <<>> /\ run = None
        /\ ask' = ask /\ job' = job /\ file' = file
    BY DEF IInv, TypeInv, Dequeue
  <1>2. b \in Batches /\ b.job \in Jobs /\ b = chain[1] /\ 1 \in DOMAIN chain
    <2>1. b = chain[1] /\ 1 \in DOMAIN chain
      BY <1>1
    <2> QED
      BY <1>1, <2>1, BatchesOf
  <1>3. \A k \in DOMAIN chain' : k + 1 \in DOMAIN chain /\ chain'[k] = chain[k + 1]
    BY <1>1 DEF Dequeue
  <1>4. \/ run' = None
        \/ run' = Start(b) /\ (b.retry \/ job[b.job].status = "pending")
    BY DEF Dequeue, Throws
  <1> HIDE DEF b
  <1>5. run' # None => /\ run'.batch = b /\ run'.step = "begin" /\ ~run'.lost
                       /\ run'.ok = 0 /\ run'.bad = 0 /\ run'.created = 0
    BY <1>4 DEF Start
  <1>6. \A j \in Jobs : Asking(j)' <=> Asking(j)
    BY <1>1 DEF Asking
  <1>7. AskedInv'
    <2>1. \A k \in DOMAIN chain' : chain'[k].retry => Asking(chain'[k].job)
      BY <1>3 DEF RInv, AskedInv
    <2>2. run' # None /\ run'.batch.retry => Asking(b.job)
      BY <1>2, <1>5 DEF RInv, AskedInv
    <2> QED
      BY <1>1, <1>5, <2>1, <2>2 DEF AskedInv, Asking
  <1>8. OpenInv'
    <2>1. \A k \in DOMAIN chain' : ~chain'[k].retry => job[chain'[k].job].status = "pending"
      BY <1>3 DEF RInv, OpenInv
    <2>2. run' # None /\ ~run'.batch.retry => job[b.job].status = "pending"
      BY <1>4, <1>5
    <2> QED
      BY <1>1, <1>5, <2>1, <2>2 DEF OpenInv, Finished
  <1>9. CreatedInv'
    BY <1>1 DEF CreatedInv, RInv
  <1>10. TallyInv'
    <2> SUFFICES ASSUME run' # None
                 PROVE  Counts(Tallied)'
      BY <1>5 DEF TallyInv
    <2>1. Tallied' = {}
      BY <1>5 DEF Tallied, Left
    <2>2. (run.ok = 0 /\ run.bad = 0 /\ run.created = 0)'
      BY <1>5
    <2>3. Counts({})'
      <3>1. (run.ok = 0 /\ run.bad = 0 /\ run.created = 0 => Counts({}))'
        BY CountsOfNone, PTL
      <3> QED
        BY <2>2, <3>1
    <2> QED
      BY <2>1, <2>3 DEF Counts, Having
  <1>11. ReportMatchesFiles'
    BY <1>1, ReportsStay
  <1> QED
    BY <1>7, <1>8, <1>9, <1>10, <1>11 DEF RInv

\* Once all files are counted the counters are the totals of the import.
LEMMA ReportOfCounts ==
  ASSUME NEW i \in Jobs, run \in Runs, Counts(FilesIn(i)), file' = file,
         job'[i].status = Verdict(run.ok, run.bad), job'[i].processed = run.ok + run.bad,
         job'[i].success = run.ok, job'[i].failed = run.bad, job'[i].created = run.created
  PROVE  Report(i)'
  <1>1. PICK S : S = FilesIn(i)
    OBVIOUS
  <1>2. PICK good : good = Having(S, "success")
    OBVIOUS
  <1>3. PICK bad : bad = Having(S, "failed")
    OBVIOUS
  <1>4. /\ IsFiniteSet(S) /\ S # {} /\ Cardinality(S) = Len(FilesOf[i])
    BY <1>1, FilesOfImport
  <1>5. /\ \A f \in S : file[f].status \in {"success", "failed"}
        /\ run.ok = Cardinality(good) /\ run.bad = Cardinality(bad)
        /\ run.created = Sum(S, Created)
    BY <1>1, <1>2, <1>3 DEF Counts
  <1>6. good \cup bad = S /\ good \cap bad = {} /\ good \in SUBSET S /\ bad \in SUBSET S
    BY <1>2, <1>3, <1>5 DEF Having
  <1>7. IsFiniteSet(good) /\ IsFiniteSet(bad)
    BY <1>4, <1>6, FS_Subset
  <1>8. /\ Cardinality(good) \in Nat /\ Cardinality(bad) \in Nat
        /\ Cardinality(good) = 0 <=> good = {}
    BY <1>7, FS_CardinalityType, FS_EmptySet
  <1>9. Cardinality(bad) = 0 <=> bad = {}
    BY <1>7, FS_EmptySet
  <1>10. Cardinality(S) = Cardinality(good) + Cardinality(bad)
    <2>1. Cardinality(good \cup bad)
            = Cardinality(good) + Cardinality(bad) - Cardinality(good \cap bad)
      BY <1>7, FS_Union
    <2>2. Cardinality(good \cap bad) = 0
      BY <1>6, FS_EmptySet
    <2>3. Cardinality(good \cup bad) = Cardinality(S)
      BY <1>6, Zenon
    <2> QED
      BY <1>8, <2>1, <2>2, <2>3
  <1>11. Verdict(run.ok, run.bad) = "completed" <=> S = good
    <2>1. Verdict(run.ok, run.bad) = "completed" <=> run.ok # 0 /\ run.bad = 0
      BY <1>5, <1>8 DEF Verdict
    <2>2. S = good <=> bad = {}
      BY <1>6
    <2>3. bad = {} => good # {}
      BY <1>4, <1>6
    <2> QED
      BY <1>5, <1>8, <1>9, <2>1, <2>2, <2>3
  <1>12. /\ CountFiles(i, "success")' = Cardinality(good) /\ CountFiles(i, "failed")' = Cardinality(bad)
         /\ Created' = Created /\ FilesIn(i)' = S
    BY <1>1, <1>2, <1>3 DEF CountFiles, Having, Created, FilesIn
  <1>13. /\ job'[i].success = CountFiles(i, "success")' /\ job'[i].failed = CountFiles(i, "failed")'
         /\ job'[i].processed = Len(FilesOf[i])
    BY <1>4, <1>5, <1>10, <1>12
  <1>14. (job[i].created = Sum(FilesIn(i), Created))'
    BY <1>5, <1>12
  <1>15. (job[i].status = "completed" <=> FilesIn(i) = {f \in FilesIn(i) : file[f].status = "success"})'
    <2>1. {f \in S : file'[f].status = "success"} = good
      BY <1>2 DEF Having
    <2> QED
      BY <1>11, <1>12, <2>1
  <1> QED
    BY <1>13, <1>14, <1>15 DEF Report

LEMMA MarkProcessingReports ==
  ASSUME IInv, IInv', RInv, [Next]_vars, MarkProcessing
  PROVE  RInv'
  <1>1. run # None /\ run.step = "begin" /\ chain' = chain /\ file' = file
    BY DEF MarkProcessing, At
  <1>2. PICK i \in Jobs : i = run.batch.job
    BY <1>1, InProgress
  <1>3. run \in Runs /\ job[i] \in JobRow
    BY <1>1, <1>2, InProgress
  <1>4. CASE Fault /\ Throws /\ UNCHANGED job
    BY <1>1, <1>4, ThrowReports DEF Throws
  <1>5. CASE /\ NoFault
             /\ job' = [job EXCEPT ![run.batch.job].status = "processing"]
             /\ Goes("load")
    <2>1. /\ run' # None /\ run'.batch = run.batch /\ run'.step = "load" /\ run'.todo = run.todo
          /\ run'.ok = run.ok /\ run'.bad = run.bad /\ run'.created = run.created
          /\ run'.lost = run.lost
      <3>1. run' = [run EXCEPT !.step = "load"]
        BY <1>5 DEF Goes
      <3>2. run' \in Runs
        BY <1>3, <3>1 DEF Runs, Steps
      <3> QED
        BY <1>3, <3>1, <3>2, RowAssumption DEF Runs
    <2>2. job' = [job EXCEPT ![i] = [job[i] EXCEPT !.status = "processing"]]
      BY <1>2, <1>5 DEF IInv, TypeInv
    <2>3. job'[i].status = "processing" /\ \A j \in Jobs \ {i} : job'[j] = job[j]
      BY <1>3, <2>2 DEF JobRow, IInv, TypeInv
    <2>4. ~Finished(i)'
      BY <2>3 DEF Finished
    <2>5. AskedInv' /\ OpenInv' /\ CreatedInv' /\ ReportMatchesFiles'
      BY <1>1, <1>2, <2>1, <2>3, <2>4, StepReports
    <2>6. Tallied' = Tallied
      BY <1>1, <2>1 DEF Tallied, Left, FilesIn
    <2>7. ~run.lost
      BY <1>1 DEF RInv, TallyInv
    <2>8. TallyInv'
      BY <1>1, <2>1, <2>6, <2>7, TallyStays
    <2> QED
      BY <2>5, <2>8 DEF RInv
  <1> QED
    BY <1>4, <1>5 DEF MarkProcessing

LEMMA LoadFilesReports ==
  ASSUME IInv, IInv', RInv, [Next]_vars, LoadFiles
  PROVE  RInv'
  <1>1. run # None /\ run.step = "load" /\ chain' = chain /\ file' = file /\ job' = job
    BY ZenonT(60) DEF LoadFiles, At
  <1> DEFINE all == FilesOf[run.batch.job]
             chosen == {k \in DOMAIN all : run.batch.retry => file[all[k]].status = "pending"}
             todo == [k \in chosen |-> [id |-> all[k], path |-> file[all[k]].storage]]
             dir == chosen # {} /\ file[all[Max(chosen)]].storage
             next == IF chosen = {} THEN "finish" ELSE "file"
  <1>2. run \in Runs
    BY <1>1, InProgress
  <1>3. CASE Fault /\ Throws
    BY <1>1, <1>3, ThrowReports DEF Throws
  <1>4. \A k \in chosen : /\ k \in DOMAIN all /\ all[k] \in Files
                          /\ file[all[k]].storage \in BOOLEAN
    BY <1>1, InProgress, FilesApart DEF FileRow
  <1>5. todo \in Todos /\ dir \in BOOLEAN
    <2>1. chosen \in SUBSET Positions
      BY <1>1, InProgress DEF Positions
    <2>2. todo \in [chosen -> [id: Files, path: BOOLEAN]]
      BY SMTT(60), <1>4
    <2>3. dir \in BOOLEAN
      OBVIOUS
    <2> HIDE DEF todo, chosen, dir
    <2> QED
      BY <2>1, <2>2, <2>3 DEF Todos
  <1>6. CASE NoFault /\ run' = [run EXCEPT !.step = next, !.todo = todo, !.dir = dir]
    <2>1. /\ DOMAIN todo = chosen /\ \A k \in chosen : todo[k].id = all[k]
      BY ZenonT(60)
    <2>2. next \in {"finish", "file"} /\ (next = "finish" => chosen = {})
      OBVIOUS
    <2>3. ~run.batch.retry => chosen = DOMAIN all
      OBVIOUS
    <2> HIDE DEF todo, dir, next, chosen
    <2>4. /\ run'.batch = run.batch /\ run'.todo = todo /\ run'.step = next
          /\ run'.ok = run.ok /\ run'.bad = run.bad /\ run'.created = run.created
          /\ run'.lost = run.lost /\ run' # None
      <3>1. run' \in Runs
        BY <1>2, <1>6, <1>5, <2>2 DEF Runs, Steps
      <3> QED
        BY <1>2, <1>6, <3>1, RowAssumption DEF Runs
    <2>5. AskedInv' /\ OpenInv' /\ CreatedInv' /\ ReportMatchesFiles'
      BY <1>1, <2>4, QuietStep
    <2>6. ~run.lost
      BY <1>1 DEF RInv, TallyInv
    <2>7. Tallied = {}
      BY <1>1 DEF Tallied, Left
    <2>8. ~run.batch.retry => Tallied' = {}
      <3> SUFFICES ASSUME ~run.batch.retry
                   PROVE  Tallied' = {}
        OBVIOUS
      <3>1. Left' = {todo[k].id : k \in chosen}
        BY <2>1, <2>2, <2>4 DEF Left
      <3>2. {todo[k].id : k \in chosen} = {all[k] : k \in DOMAIN all}
        BY <2>1, <2>3, <3>1
      <3>3. FilesIn(run.batch.job) = {all[k] : k \in DOMAIN all}
        BY DEF FilesIn, ToSet
      <3> QED
        BY <2>4, <3>1, <3>2, <3>3 DEF Tallied, FilesIn
    <2>9. TallyInv'
      <3>1. CASE run.batch.retry
        BY <2>2, <2>1, <2>4, <2>6, <1>1, <3>1, TallyFrom
      <3>2. CASE ~run.batch.retry
        BY <1>1, <2>1, <2>2, <2>4, <2>6, <2>7, <2>8, <3>2, TallyStays
      <3> QED
        BY <3>1, <3>2
    <2> QED
      BY <2>5, <2>9 DEF RInv
  <1> QED
    BY ZenonT(60), <1>3, <1>6 DEF LoadFiles

\* Where the loop is when one of its steps is taken.
LEMMA InTurn ==
  ASSUME IInv, run # None, InLoop
  PROVE  /\ run \in Runs /\ Current.id \in Files /\ file[Current.id] \in FileRow
         /\ run.batch.job \in Jobs
  BY CurrentIsFirst, InProgress DEF IInv

\* What the steps that change the place in the turn, and no counter, have in common.
LEMMA RunMoves ==
  ASSUME run \in Runs, NEW step \in Steps, NEW code \in Codes \cup {None},
         run' = [run EXCEPT !.step = step, !.code = code]
  PROVE  /\ run' # None /\ run'.batch = run.batch /\ run'.todo = run.todo /\ run'.step = step
         /\ run'.ok = run.ok /\ run'.bad = run.bad /\ run'.created = run.created
         /\ run'.lost = run.lost
  <1>1. run' \in Runs
    BY DEF Runs
  <1> QED
    BY <1>1, RowAssumption DEF Runs

LEMMA RunGoes ==
  ASSUME run \in Runs, NEW step \in Steps, Goes(step)
  PROVE  /\ run' # None /\ run'.batch = run.batch /\ run'.todo = run.todo /\ run'.step = step
         /\ run'.ok = run.ok /\ run'.bad = run.bad /\ run'.created = run.created
         /\ run'.lost = run.lost
  <1>1. run' = [run EXCEPT !.step = step, !.code = run.code] /\ run.code \in Codes \cup {None}
    BY DEF Goes, Runs
  <1> QED
    BY <1>1, RunMoves

LEMMA MarkFileProcessingReports ==
  ASSUME IInv, IInv', RInv, [Next]_vars, MarkFileProcessing
  PROVE  RInv'
  <1>1. InLoop /\ run # None /\ run.step = "file" /\ chain' = chain /\ job' = job
    BY DEF MarkFileProcessing, At, InLoop
  <1>2. PICK c : c = Current.id
    OBVIOUS
  <1>3. run \in Runs /\ c \in Files /\ file[c] \in FileRow
    BY <1>1, <1>2, InTurn
  <1>4. CASE NoFault /\ MarkFile("processing") /\ Goes("parse")
    <2>1. file' = [file EXCEPT ![c] = [file[c] EXCEPT !.status = "processing"]]
      BY <1>2, <1>3, <1>4 DEF MarkFile, IInv, TypeInv
    <2>2. file'[c].created = file[c].created /\ \A f \in Files \ {c} : file'[f] = file[f]
      BY <1>3, <2>1 DEF IInv, TypeInv, FileRow
    <2>3. file[c].created = 0
      <3>1. file[c].status = "pending"
        BY <1>1, <1>2, CurrentIsFirst DEF IInv, TurnInv
      <3> QED
        BY <1>3, <3>1, RowAssumption DEF RInv, CreatedInv
    <2>4. /\ run' # None /\ run'.batch = run.batch /\ run'.todo = run.todo /\ run'.step = "parse"
          /\ run'.ok = run.ok /\ run'.bad = run.bad /\ run'.created = run.created
          /\ run'.lost = run.lost
      BY <1>3, <1>4, RunGoes DEF Steps
    <2> QED
      BY <1>1, <1>2, <2>2, <2>3, <2>4, TurnReports
  <1>5. CASE Fault /\ Throws /\ UNCHANGED file
    BY <1>1, <1>5, ThrowReports DEF Throws
  <1> QED
    BY <1>4, <1>5 DEF MarkFileProcessing

LEMMA ReadFileReports ==
  ASSUME IInv, IInv', RInv, [Next]_vars, ReadFile
  PROVE  RInv'
  <1>1. InLoop /\ run # None /\ run.step = "parse" /\ chain' = chain /\ job' = job /\ file' = file
    BY DEF ReadFile, At, InLoop
  <1>2. PICK c : c = Current.id
    OBVIOUS
  <1>3. run \in Runs
    BY <1>1, InTurn
  <1>4. PICK code \in Codes \cup {None}, step \in {"store", "bad"} :
          run' = [run EXCEPT !.step = step, !.code = code]
    <2>1. Trouble(Current.id, run.batch.key) \in Codes \cup {None} /\ "PDF_INVALID" \in Codes
      BY DEF Trouble, Codes
    <2>2. CASE Goes("store")
      <3>1. run' = [run EXCEPT !.step = "store", !.code = run.code] /\ run.code \in Codes \cup {None}
        BY <1>3, <2>2 DEF Goes, Runs
      <3> QED
        BY <3>1
    <2>3. CASE \E code \in Codes \cup {None} : Fails(code)
      BY <2>3 DEF Fails
    <2> QED
      BY <2>1, <2>2, <2>3 DEF ReadFile
  <1>5. /\ run' # None /\ run'.batch = run.batch /\ run'.todo = run.todo /\ run'.step = step
        /\ run'.ok = run.ok /\ run'.bad = run.bad /\ run'.created = run.created
        /\ run'.lost = run.lost
    BY <1>3, <1>4, RunMoves DEF Steps
  <1> QED
    BY <1>1, <1>2, <1>5, TurnReports

LEMMA StoreMovementsReports ==
  ASSUME IInv, IInv', RInv, [Next]_vars, StoreMovements
  PROVE  RInv'
  <1>1. InLoop /\ run # None /\ run.step = "store" /\ chain' = chain /\ job' = job /\ file' = file
    BY DEF StoreMovements, At, InLoop
  <1>2. PICK c : c = Current.id
    OBVIOUS
  <1>3. run \in Runs
    BY <1>1, InTurn
  <1>4. Goes("good") \/ Fails("PDF_INVALID")
    BY DEF StoreMovements
  <1>5. PICK step \in {"good", "bad"} :
          /\ run' # None /\ run'.batch = run.batch /\ run'.todo = run.todo /\ run'.step = step
          /\ run'.ok = run.ok /\ run'.bad = run.bad /\ run'.created = run.created
          /\ run'.lost = run.lost
    <2>1. CASE Goes("good")
      BY <1>3, <2>1, RunGoes DEF Steps
    <2>2. CASE Fails("PDF_INVALID")
      BY <1>3, <2>2, RunMoves DEF Steps, Codes, Fails
    <2> QED
      BY <1>4, <2>1, <2>2
  <1> QED
    BY <1>1, <1>2, <1>5, TurnReports

LEMMA RemovePdfReports ==
  ASSUME IInv, IInv', RInv, [Next]_vars, RemovePdf
  PROVE  RInv'
  <1>1. InLoop /\ run # None /\ run.step = "remove" /\ chain' = chain /\ job' = job /\ file' = file
    BY DEF RemovePdf, At, InLoop
  <1>2. PICK c : c = Current.id
    OBVIOUS
  <1>3. /\ run' # None /\ run'.batch = run.batch /\ run'.todo = run.todo /\ run'.step = "clear"
        /\ run'.ok = run.ok /\ run'.bad = run.bad /\ run'.created = run.created
        /\ run'.lost = run.lost
    BY <1>1, InTurn, RunGoes DEF Steps, RemovePdf
  <1> QED
    BY <1>1, <1>2, <1>3, TurnReports

LEMMA MarkSuccessReports ==
  ASSUME IInv, IInv', RInv, [Next]_vars, MarkSuccess
  PROVE  RInv'
  <1>1. InLoop /\ run # None /\ run.step = "good" /\ chain' = chain /\ job' = job
    BY DEF MarkSuccess, At, InLoop
  <1>2. PICK c : c = Current.id
    OBVIOUS
  <1>3. run \in Runs /\ c \in Files /\ file[c] \in FileRow
    BY <1>1, <1>2, InTurn
  <1>4. PICK n : n = Reported(c)
    OBVIOUS
  <1>5. n \in Nat
    BY <1>3, <1>4, AllAreCreated, ContentFinite DEF Reported
  <1>6. CASE /\ NoFault /\ Succeeded(c)
             /\ run' = [run EXCEPT !.step = "remove", !.ok = @ + 1, !.created = @ + n]
    <2>1. file' = [file EXCEPT ![c] = [file[c] EXCEPT !.status = "success", !.code = None,
                                                      !.created = n]]
      BY <1>3, <1>4, <1>6 DEF Succeeded, IInv, TypeInv
    <2>2. /\ file'[c] \in FileRow /\ file'[c].status = "success" /\ file'[c].created = n
          /\ \A f \in Files \ {c} : file'[f] = file[f]
      BY <1>3, <1>5, <2>1 DEF IInv, TypeInv, FileRow, FileStatus
    <2>3. /\ run' # None /\ run'.batch = run.batch /\ run'.todo = run.todo /\ run'.step = "remove"
          /\ run'.ok = run.ok + 1 /\ run'.bad = run.bad /\ run'.created = run.created + n
      <3>1. run.ok + 1 \in Nat /\ run.created + n \in Nat
        BY <1>3, <1>5 DEF Runs
      <3>2. run' = [run EXCEPT !.step = "remove", !.ok = run.ok + 1, !.created = run.created + n]
        BY <1>3, <1>6
      <3>3. run' \in Runs
        BY <1>3, <3>1, <3>2 DEF Runs, Steps
      <3> QED
        BY <1>3, <3>2, <3>3, RowAssumption DEF Runs
    <2> QED
      BY <1>1, <1>2, <2>2, <2>3, CountReports
  <1>7. CASE Fault /\ Fails("PDF_INVALID") /\ UNCHANGED file
    <2>1. /\ run' # None /\ run'.batch = run.batch /\ run'.todo = run.todo /\ run'.step = "bad"
          /\ run'.ok = run.ok /\ run'.bad = run.bad /\ run'.created = run.created
          /\ run'.lost = run.lost
      BY <1>3, <1>7, RunMoves DEF Steps, Codes, Fails
    <2> QED
      BY <1>1, <1>2, <1>7, <2>1, TurnReports
  <1> QED
    BY <1>2, <1>4, <1>6, <1>7 DEF MarkSuccess

LEMMA MarkFailedReports ==
  ASSUME IInv, IInv', RInv, [Next]_vars, MarkFailed
  PROVE  RInv'
  <1>1. InLoop /\ run # None /\ run.step = "bad" /\ chain' = chain /\ job' = job
    BY DEF MarkFailed, At, InLoop
  <1>2. PICK c : c = Current.id
    OBVIOUS
  <1>3. run \in Runs /\ c \in Files /\ file[c] \in FileRow
    BY <1>1, <1>2, InTurn
  <1>4. file[c].created = 0
    <2>1. file[c].status = "processing"
      BY <1>1, <1>2 DEF IInv, TurnInv
    <2> QED
      BY <1>3, <2>1, RowAssumption DEF RInv, CreatedInv
  <1>5. CASE /\ NoFault /\ file' = [file EXCEPT ![c].status = "failed", ![c].code = run.code]
             /\ run' = [run EXCEPT !.step = "remove", !.bad = @ + 1, !.code = None]
    <2>1. file' = [file EXCEPT ![c] = [file[c] EXCEPT !.status = "failed", !.code = run.code]]
      BY <1>3, <1>5 DEF IInv, TypeInv
    <2>2. /\ file'[c] \in FileRow /\ file'[c].status = "failed" /\ file'[c].created = 0
          /\ \A f \in Files \ {c} : file'[f] = file[f]
      BY <1>3, <1>4, <2>1 DEF IInv, TypeInv, FileRow, FileStatus, Runs
    <2>3. /\ run' # None /\ run'.batch = run.batch /\ run'.todo = run.todo /\ run'.step = "remove"
          /\ run'.ok = run.ok /\ run'.bad = run.bad + 1 /\ run'.created = run.created
      <3>1. run.bad + 1 \in Nat
        BY <1>3 DEF Runs
      <3>2. run' = [run EXCEPT !.step = "remove", !.bad = run.bad + 1, !.code = None]
        BY <1>3, <1>5
      <3>3. run' \in Runs
        BY <1>3, <3>1, <3>2 DEF Runs, Steps
      <3> QED
        BY <1>3, <3>2, <3>3, RowAssumption DEF Runs
    <2> QED
      BY <1>1, <1>2, <2>2, <2>3, CountReports
  <1>6. CASE /\ Fault /\ UNCHANGED file
             /\ run' = [run EXCEPT !.step = "remove", !.lost = TRUE, !.code = None]
    <2>1. run' \in Runs
      BY <1>3, <1>6 DEF Runs, Steps
    <2>2. /\ run' # None /\ run'.batch = run.batch /\ run'.todo = run.todo /\ run'.step = "remove"
          /\ run'.lost
      BY <1>3, <1>6, <2>1, RowAssumption DEF Runs
    <2> QED
      BY <1>1, <1>2, <1>3, <1>4, <1>6, <2>2, CountReports
  <1> QED
    BY <1>2, <1>5, <1>6 DEF MarkFailed

LEMMA ClearPathReports ==
  ASSUME IInv, IInv', RInv, [Next]_vars, ClearPath
  PROVE  RInv'
  <1>1. InLoop /\ run # None /\ run.step = "clear" /\ chain' = chain /\ job' = job
    BY DEF ClearPath, At, InLoop
  <1>2. PICK c : c = Current.id
    OBVIOUS
  <1>3. /\ run \in Runs /\ c \in Files /\ file[c] \in FileRow
        /\ c \in FilesIn(run.batch.job) /\ run.batch.job \in Jobs
    BY <1>1, <1>2, InTurn, TurnLeft
  <1>4. CASE Current.path /\ Fault /\ Throws /\ UNCHANGED file
    BY <1>1, <1>4, ThrowReports DEF Throws
  <1>5. CASE /\ NoFault
             /\ file' = IF Current.path THEN [file EXCEPT ![c].storage = FALSE] ELSE file
             /\ IF run.lost THEN Throws ELSE NextFile
    <2>1. \/ file' = file
          \/ file' = [file EXCEPT ![c] = [file[c] EXCEPT !.storage = FALSE]]
      BY <1>3, <1>5 DEF IInv, TypeInv
    <2>2. /\ file'[c].status = file[c].status /\ file'[c].created = file[c].created
          /\ \A f \in Files \ {c} : file'[f] = file[f]
      BY <1>3, <2>1 DEF IInv, TypeInv, FileRow
    <2>3. /\ \A f \in Files \ FilesIn(run.batch.job) : file'[f] = file[f]
          /\ \A f \in FilesIn(run.batch.job) :
               file'[f] = file[f] \/ file'[f].status = "success" \/ file'[f].created = 0
      <3>1. file[c].status # "success" => file[c].created = 0
        BY <1>3, RowAssumption DEF RInv, CreatedInv
      <3> QED
        BY <1>3, <2>2, <3>1, FilesApart
    <2>4. CASE run.lost
      <3>1. run' = None
        BY <1>5, <2>4 DEF Throws
      <3> QED
        BY <1>1, <2>3, <3>1, QuietStep, TallyOfNone DEF RInv
    <2>5. CASE ~run.lost
      <3> DEFINE todo == Restrict(run.todo, Later)
                 next == IF Later = {} THEN "finish" ELSE "file"
      <3>1. /\ Later = DOMAIN run.todo \ {First}
            /\ DOMAIN todo = Later /\ \A k \in Later : todo[k] = run.todo[k]
        BY DEF Later, First, Restrict
      <3>2. todo \in Todos
        <4>1. PICK S \in SUBSET Positions : run.todo \in [S -> [id: Files, path: BOOLEAN]]
          BY <1>3 DEF Runs, Todos
        <4>2. todo \in [Later -> [id: Files, path: BOOLEAN]] /\ Later \in SUBSET Positions
          BY <3>1, <4>1 DEF Restrict
        <4> HIDE DEF todo
        <4> QED
          BY <4>2 DEF Todos
      <3>3. run' = [run EXCEPT !.todo = todo, !.step = next]
        BY <1>5, <2>5 DEF NextFile
      <3>4. next \in {"finish", "file"} /\ (next = "finish" => Later = {})
        OBVIOUS
      <3> HIDE DEF todo, next
      <3>5. /\ run' # None /\ run'.batch = run.batch /\ run'.todo = todo /\ run'.step = next
            /\ run'.ok = run.ok /\ run'.bad = run.bad /\ run'.created = run.created
            /\ run'.lost = run.lost
        <4>1. run' \in Runs
          BY <1>3, <3>2, <3>3, <3>4 DEF Runs, Steps
        <4> QED
          BY <1>3, <3>3, <4>1, RowAssumption DEF Runs
      <3>6. Tallied' = Tallied
        <4>1. Left = {run.todo[k].id : k \in DOMAIN run.todo \ {First}}
          BY <1>1 DEF Left
        <4>2. Left' = {todo[k].id : k \in Later}
          BY <3>1, <3>4, <3>5 DEF Left
        <4>3. Left' = Left
          BY <3>1, <4>1, <4>2
        <4> QED
          BY <3>5, <4>3 DEF Tallied, FilesIn
      <3>7. \A f \in Tallied : /\ file'[f].status = file[f].status
                               /\ file'[f].created = file[f].created
        BY <1>1, <2>2, TalliedFiles
      <3>8. run'.step = "finish" => DOMAIN run'.todo = {}
        BY <3>1, <3>4, <3>5
      <3>9. TallyInv'
        BY <1>1, <2>5, <3>5, <3>6, <3>7, <3>8, TallyStays
      <3> QED
        BY <1>1, <2>3, <3>5, <3>9, QuietStep DEF RInv
    <2> QED
      BY <2>4, <2>5
  <1> QED
    BY <1>2, <1>4, <1>5 DEF ClearPath

LEMMA FinishJobReports ==
  ASSUME IInv, IInv', RInv, [Next]_vars, FinishJob
  PROVE  RInv'
  <1>1. run # None /\ run.step = "finish" /\ chain' = chain /\ file' = file
    BY DEF FinishJob, At
  <1>2. PICK i \in Jobs : i = run.batch.job
    BY <1>1, InProgress
  <1>3. run \in Runs /\ job[i] \in JobRow
    BY <1>1, <1>2, InProgress
  <1>4. job' \in {job, Total}
    BY DEF FinishJob
  <1>5. Total = [job EXCEPT ![i] = [job[i] EXCEPT !.status = Verdict(run.ok, run.bad),
                                                  !.processed = run.ok + run.bad,
                                                  !.success = run.ok, !.failed = run.bad,
                                                  !.created = run.created]]
    BY <1>2, <1>3 DEF Total, IInv, TypeInv
  <1>6. \A j \in Jobs \ {i} : job'[j] = job[j]
    BY <1>4, <1>5 DEF IInv, TypeInv
  <1>7. ~run.batch.retry /\ ~Asking(i) /\ job' = Total => Report(i)'
    <2> SUFFICES ASSUME ~run.batch.retry, ~Asking(i), job' = Total
                 PROVE  Report(i)'
      OBVIOUS
    <2>1. DOMAIN run.todo = {} /\ ~run.lost /\ Counts(Tallied)
      BY <1>1, <1>2 DEF RInv, TallyInv
    <2>2. Tallied = FilesIn(i)
      BY <1>1, <1>2, <2>1 DEF Tallied, Left
    <2>3. Counts(FilesIn(i))
      BY <2>1, <2>2
    <2>4. job' = [job EXCEPT ![i] = [job[i] EXCEPT !.status = Verdict(run.ok, run.bad),
                                                   !.processed = run.ok + run.bad,
                                                   !.success = run.ok, !.failed = run.bad,
                                                   !.created = run.created]]
      BY <1>5
    <2>5. job'[i] = [job[i] EXCEPT !.status = Verdict(run.ok, run.bad),
                                   !.processed = run.ok + run.bad,
                                   !.success = run.ok, !.failed = run.bad,
                                   !.created = run.created]
      BY <2>4 DEF IInv, TypeInv
    <2>6. /\ job'[i].status = Verdict(run.ok, run.bad) /\ job'[i].processed = run.ok + run.bad
          /\ job'[i].success = run.ok /\ job'[i].failed = run.bad
          /\ job'[i].created = run.created
      BY <1>3, <2>5 DEF JobRow
    <2> QED
      BY <1>1, <1>3, <2>3, <2>6, ReportOfCounts
  <1>8. \/ run' = None
        \/ /\ run' # None /\ run'.batch = run.batch /\ run'.todo = run.todo
           /\ run'.step = "notify"
           /\ run'.ok = run.ok /\ run'.bad = run.bad /\ run'.created = run.created
           /\ run'.lost = run.lost
    BY <1>3, RunGoes DEF FinishJob, Throws, Steps
  <1>9. ~run.batch.retry =>
          /\ run' # None => run'.step = "notify"
          /\ Finished(i)' /\ ~Asking(i) => Report(i)' \/ job'[i] = job[i]
    BY <1>4, <1>7, <1>8
  <1>10. AskedInv' /\ OpenInv' /\ CreatedInv' /\ ReportMatchesFiles'
    BY <1>1, <1>2, <1>6, <1>8, <1>9, StepReports
  <1>11. TallyInv'
    <2>1. CASE run' = None
      BY <2>1, TallyOfNone
    <2>2. CASE run' # None
      <3>1. ~run.lost
        BY <1>1 DEF RInv, TallyInv
      <3>2. Tallied' = Tallied
        <4>1. First' = First
          BY <1>8, <2>2 DEF First
        <4> QED
          BY <1>1, <1>8, <2>2, <4>1 DEF Tallied, Left, FilesIn
      <3> QED
        BY <1>1, <1>8, <2>2, <3>1, <3>2, TallyStays
    <2> QED
      BY <2>1, <2>2
  <1> QED
    BY <1>10, <1>11 DEF RInv

LEMMA NotifyReports ==
  ASSUME IInv, IInv', RInv, [Next]_vars, Notify
  PROVE  RInv'
  <1>1. run # None /\ run' = None /\ chain' = chain /\ job' = job /\ file' = file
    BY DEF Notify, At
  <1>2. PICK i \in Jobs : i = run.batch.job
    BY <1>1, InProgress
  <1> QED
    BY <1>1, <1>2, StepReports, TallyOfNone DEF RInv

LEMMA CrashReports ==
  ASSUME IInv, IInv', RInv, [Next]_vars, Crash
  PROVE  RInv'
  <1>1. run' = None /\ chain' = <<>> /\ job' = job /\ file' = file
    BY DEF Crash
  <1>2. AskedInv' /\ OpenInv' /\ TallyInv'
    BY <1>1 DEF AskedInv, OpenInv, TallyInv
  <1>3. CreatedInv'
    BY <1>1 DEF RInv, CreatedInv
  <1>4. ReportMatchesFiles'
    BY <1>1, ReportsStay
  <1> QED
    BY <1>2, <1>3, <1>4 DEF RInv

LEMMA ReportsInit == Init => RInv
  BY DEF Init, RInv, AskedInv, OpenInv, CreatedInv, TallyInv, ReportMatchesFiles, Finished

LEMMA ReportsNext == IInv /\ RInv /\ [Next]_vars => RInv'
  <1> SUFFICES ASSUME IInv, RInv, [Next]_vars
               PROVE  RInv'
    OBVIOUS
  <1>1. IInv'
    BY InvNext
  <1>2. CASE Request
    <2>1. CASE \E j \in Jobs, skip \in Skips : \E key \in Passwords(j) : Upload(j, skip, key)
      BY <1>1, <2>1, UploadReports
    <2>2. CASE \E q \in Retries, j \in Jobs : \E key \in Passwords(j) : RetryCheck(q, j, key)
      BY <1>1, <2>2, StillReports DEF RetryCheck
    <2> QED
      BY <1>2, <2>1, <2>2 DEF Request
  <1>3. CASE \E q \in Retries : RetryStep(q) \/ RetryFails(q)
    <2> SUFFICES ASSUME NEW q \in Retries, RetryStep(q) \/ RetryFails(q)
                 PROVE  RInv'
      BY <1>3
    <2>1. CASE RetryFails(q)
      BY <1>1, <2>1, StillReports DEF RetryFails
    <2> QED
      BY <1>1, <2>1, RetryResetFilesReports, RetryResetJobReports, RetryEnqueueReports
      DEF RetryStep
  <1>4. CASE Process
    BY <1>1, <1>4, DequeueReports, MarkProcessingReports, LoadFilesReports,
       MarkFileProcessingReports, ReadFileReports, StoreMovementsReports, MarkSuccessReports,
       MarkFailedReports, RemovePdfReports, ClearPathReports, FinishJobReports, NotifyReports
    DEF Process
  <1>5. CASE Crash
    BY <1>1, <1>5, CrashReports
  <1>6. CASE UNCHANGED vars
    BY <1>1, <1>6, StillReports DEF vars
  <1> QED
    BY <1>2, <1>3, <1>4, <1>5, <1>6 DEF Next

\* The totals of a finished import that nobody asked to retry are those of its files, the
\* movements created among them, whatever calls fail and whenever the process restarts.
THEOREM ImportsReport == Spec => []ReportMatchesFiles
  <1>1. Init => RInv
    BY ReportsInit
  <1>2. IInv /\ RInv /\ [Next]_vars => RInv'
    BY ReportsNext
  <1>3. RInv => ReportMatchesFiles
    BY DEF RInv
  <1> QED
    BY <1>1, <1>2, <1>3, ImportsInvariant, PTL DEF Spec
=============================================================================
