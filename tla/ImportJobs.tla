----------------------------- MODULE ImportJobs ------------------------------
(***************************************************************************)
(* CSV imports of residents: the request that checks, records and queues   *)
(* an import, and the runs of it in workers, or in the web process when    *)
(* the queue fails.  A run imports row after row, each in a transaction,   *)
(* saves its counts every so many rows and its outcome at the end.  A job  *)
(* that fails, or whose worker stalls, is run again from the first row.    *)
(* Imports are of one owner, one hostel, one day and one file; what a row  *)
(* does to rooms is in ResidentRooms; messages and progress are left out.  *)
(* So is a row that commits while the run does not hear of it.             *)
(* A request stops wherever it stops: nothing is done about it.            *)
(***************************************************************************)
EXTENDS Handlers, Integers, FiniteSets

CONSTANTS ImportKeys, \* Idempotency-Key headers
          MaxImports, \* bound: imports recorded
          FileRows,   \* valid rows of the file
          BadRows,    \* rows that may fail the parser's checks
          MaxActive,  \* RESIDENT_IMPORT_MAX_ACTIVE
          Checkpoint, \* rows between two saves
          JobAttempts,   \* runs of one job
          Runs        \* bound: runs, in workers or in the web process

ImportIds == 1 .. MaxImports

ASSUME ImportAssumption ==
  /\ MaxImports \in Nat /\ FileRows \in Nat \ {0} /\ BadRows \in Nat
  /\ MaxActive \in Nat /\ Checkpoint \in Nat \ {0} /\ JobAttempts \in Nat \ {0}

VARIABLES imports,   \* the resident_imports table
          created,   \* the import that made row n of the file a resident
          jobs,      \* the queue: where each import's job is
          run,       \* the runs of executeImport
          importReq, \* requests to import
          overlapped \* history: imports recorded by a request that was raced

importVars == <<imports, created, jobs, run, importReq, overlapped>>

ImportStatus == {"QUEUED", "PROCESSING", "COMPLETED", "COMPLETED_WITH_ERRORS", "FAILED"}
MaxFailed == BadRows + (JobAttempts + 1) * FileRows
ImportRow == [status: ImportStatus, success: 0 .. FileRows, failed: 0 .. MaxFailed,
              bad: 0 .. BadRows, key: ImportKeys \cup {None}]
RunState == [import: ImportIds,
             stage: {"found", "rows", "saving", "finishing", "over", "ended"},
             next: 1 .. FileRows + 1, success: 0 .. FileRows, failed: 0 .. MaxFailed,
             owned: BOOLEAN]
ASSUME NoImportAssumption ==
  /\ None \notin ImportIds /\ None \notin ImportKeys /\ None \notin Requests
  /\ None \notin ImportRow /\ None \notin RunState
ImportItems == ({"key"} \X ImportKeys) \cup {<<"active", "count">>}
ImportRequest == [stage: {"unsent", "keyed", "counted", "saved", "unsure",
                           "done", "refused"},
                  key: ImportKeys \cup {None}, import: ImportIds \cup {None},
                  reads: SUBSET ImportItems, raced: BOOLEAN]

ImportJobsTypeOK ==
  /\ imports \in [ImportIds -> ImportRow \cup {None}]
  /\ created \in [1 .. FileRows -> ImportIds \cup {None}]
  /\ jobs \in [ImportIds -> [state: {"none", "waiting", "active", "done", "dead"},
                             attempts: 0 .. JobAttempts]]
  /\ run \in [Runs -> RunState \cup {None}]
  /\ importReq \in [Requests -> ImportRequest]
  /\ overlapped \subseteq ImportIds

NoImportRequest == [stage |-> "unsent", key |-> None, import |-> None,
                    reads |-> {}, raced |-> FALSE]

ImportJobsInit ==
  /\ imports = [i \in ImportIds |-> None]
  /\ created = [n \in 1 .. FileRows |-> None]
  /\ jobs = [i \in ImportIds |-> [state |-> "none", attempts |-> 0]]
  /\ run = [w \in Runs |-> None]
  /\ importReq = [q \in Requests |-> NoImportRequest]
  /\ overlapped = {}

-----------------------------------------------------------------------------
ImportGoesOn(q, r, items) == importReq' = GoesOn(importReq, q, r, items)
Answered(stage) == [NoImportRequest EXCEPT !.stage = stage]
ImportStage(q, stage) == importReq[q].stage = stage
Running(i) == imports[i] # None /\ imports[i].status \in {"QUEUED", "PROCESSING"}
OfKey(k) == {i \in ImportIds : imports[i] # None /\ imports[i].key = k}

(* enqueueImport: findByIdempotency...                                     *)
FindByKey(q, k) ==
  LET r == [NoImportRequest EXCEPT !.key = k]
  IN  /\ ImportStage(q, "unsent")
      /\ ImportGoesOn(q, IF k # None /\ OfKey(k) # {}
                         THEN Answered("done")
                         ELSE [r EXCEPT !.stage = "keyed",
                                        !.reads = {"key"} \X ({k} \ {None})], {})
      /\ UNCHANGED <<imports, created, jobs, run, overlapped>>

(* ...countActiveToday...                                                  *)
CountActive(q) ==
  /\ ImportStage(q, "keyed")
  /\ ImportGoesOn(q, IF Cardinality({i \in ImportIds : Running(i)}) >= MaxActive
                     THEN Answered("refused")
                     ELSE [importReq[q] EXCEPT
                             !.stage = "counted",
                             !.reads = @ \cup {<<"active", "count">>}], {})
  /\ UNCHANGED <<imports, created, jobs, run, overlapped>>

(* ...the record: of no valid row, it has failed at once.                  *)
SaveImport(q, i, bad, valid) ==
  LET row == [status |-> IF valid THEN "QUEUED" ELSE "FAILED", success |-> 0,
              failed |-> bad, bad |-> bad, key |-> importReq[q].key]
  IN  /\ ImportStage(q, "counted")
      /\ imports[i] = None /\ \A j \in 1 .. i - 1 : imports[j] # None
      /\ imports' = [imports EXCEPT ![i] = row]
      /\ overlapped' = IF importReq[q].raced THEN overlapped \cup {i} ELSE overlapped
      /\ ImportGoesOn(q, IF valid
                         THEN [NoImportRequest EXCEPT !.stage = "saved", !.import = i]
                         ELSE Answered("done"),
                      ({"key"} \X ({row.key} \ {None})) \cup {<<"active", "count">>})
      /\ UNCHANGED <<created, jobs, run>>

(* A run has read the record: the failures so far, the successes till now. *)
NewRun(i, owned) ==
  [import |-> i, stage |-> "found", next |-> 1, success |-> imports[i].success,
   failed |-> imports[i].failed, owned |-> owned]

(* add: the job waits, though its answer may fail after it has landed.     *)
AddJob(q, answered) ==
  /\ ImportStage(q, "saved")
  /\ jobs' = [jobs EXCEPT ![importReq[q].import].state = "waiting"]
  /\ ImportGoesOn(q, IF answered THEN Answered("done")
                     ELSE [importReq[q] EXCEPT !.stage = "unsure"], {})
  /\ UNCHANGED <<imports, created, run, overlapped>>

(* add has failed, as far as the web process knows: it runs the import     *)
(* itself, unless that is complete.                                        *)
RunDirectly(q, w) ==
  LET i == importReq[q].import
  IN  /\ importReq[q].stage \in {"saved", "unsure"} /\ run[w] = None
      /\ run' = IF imports[i].status = "COMPLETED" THEN run
                ELSE [run EXCEPT ![w] = NewRun(i, FALSE)]
      /\ ImportGoesOn(q, Answered("done"), {})
      /\ UNCHANGED <<imports, created, jobs, overlapped>>

-----------------------------------------------------------------------------
JobEnds(i, state) == jobs' = [jobs EXCEPT ![i].state = state]
JobRunsAgain(i) ==
  JobEnds(i, IF jobs[i].attempts < JobAttempts THEN "waiting" ELSE "dead")

(* A worker takes the job; an import that is complete is not run again.    *)
TakeJob(w, i) ==
  /\ jobs[i].state = "waiting" /\ run[w] = None
  /\ IF imports[i].status = "COMPLETED"
     THEN JobEnds(i, "done") /\ UNCHANGED run
     ELSE /\ jobs' = [jobs EXCEPT ![i] = [state |-> "active",
                                          attempts |-> @.attempts + 1]]
          /\ run' = [run EXCEPT ![w] = NewRun(i, TRUE)]
  /\ UNCHANGED <<imports, created, importReq, overlapped>>

In(w, stage) == run[w] # None /\ run[w].stage = stage
Recorded(w) == imports[run[w].import]

(* A save of the record, and the run as it goes on.                        *)
SaveRecord(w, rec, r) ==
  /\ imports' = [imports EXCEPT ![r.import] = rec]
  /\ run' = [run EXCEPT ![w] = r]
  /\ UNCHANGED <<created, jobs, importReq, overlapped>>

(* The counts start at no success and the failures recorded so far.        *)
Processing(w) == [Recorded(w) EXCEPT !.status = "PROCESSING", !.success = run[w].success,
                                     !.failed = run[w].failed]
BeginForgetful(w) ==
  /\ In(w, "found")
  /\ SaveRecord(w, Processing(w),
                [run[w] EXCEPT !.stage = "rows", !.success = 0, !.failed = 0])
Begin(w) ==
  /\ In(w, "found")
  /\ SaveRecord(w, Processing(w), [run[w] EXCEPT !.stage = "rows", !.success = 0])

(* importSingleRowDirect: its transaction commits, if the person is not a  *)
(* resident already, or the row fails.                                     *)
AfterRow(r) == [r EXCEPT !.next = @ + 1,
                         !.stage = IF r.next % Checkpoint = 0 \/ r.next = FileRows
                                   THEN "saving" ELSE "rows"]
ImportRowOk(w) ==
  /\ In(w, "rows")
  /\ created[run[w].next] = None
  /\ created' = [created EXCEPT ![run[w].next] = run[w].import]
  /\ run' = [run EXCEPT ![w] = [AfterRow(run[w]) EXCEPT !.success = @ + 1]]
  /\ UNCHANGED <<imports, jobs, importReq, overlapped>>
ImportRowFails(w) ==
  /\ In(w, "rows")
  /\ run' = [run EXCEPT ![w] = [AfterRow(run[w]) EXCEPT !.failed = @ + 1]]
  /\ UNCHANGED <<imports, created, jobs, importReq, overlapped>>

SaveCounts(w) ==
  /\ In(w, "saving")
  /\ SaveRecord(w, Processing(w),
                [run[w] EXCEPT !.stage = IF run[w].next > FileRows
                                         THEN "finishing" ELSE "rows"])

Outcome(r) == IF r.success = 0 /\ r.failed > 0 THEN "FAILED"
              ELSE IF r.failed > 0 THEN "COMPLETED_WITH_ERRORS" ELSE "COMPLETED"
Finish(w) ==
  /\ In(w, "finishing")
  /\ SaveRecord(w, [Processing(w) EXCEPT !.status = Outcome(run[w])],
                [run[w] EXCEPT !.stage = "over"])

Ended(r) == [r EXCEPT !.stage = "ended", !.owned = FALSE, !.next = 1,
                      !.success = 0, !.failed = 0]
EndRun(w) ==
  /\ run' = [run EXCEPT ![w] = Ended(@)]
  /\ UNCHANGED <<imports, created, importReq, overlapped>>

(* The worker reports the job done; a direct run just ends.                *)
ReportDone(w) ==
  /\ In(w, "over") /\ EndRun(w)
  /\ IF run[w].owned THEN JobEnds(run[w].import, "done") ELSE UNCHANGED jobs

(* A statement fails or the process stops: a job the run holds runs again. *)
LoseRun(w) ==
  /\ run[w] # None /\ run[w].stage # "ended" /\ EndRun(w)
  /\ IF run[w].owned THEN JobRunsAgain(run[w].import) ELSE UNCHANGED jobs

(* The job's lock runs out under a worker that still works on it.          *)
Stall(w) ==
  /\ run[w] # None /\ run[w].owned
  /\ run' = [run EXCEPT ![w].owned = FALSE]
  /\ JobRunsAgain(run[w].import)
  /\ UNCHANGED <<imports, created, importReq, overlapped>>

ImportJobsNext ==
  \/ \E q \in Requests :
       \/ \E k \in ImportKeys \cup {None} : FindByKey(q, k)
       \/ \E i \in ImportIds, bad \in 0 .. BadRows, valid \in BOOLEAN :
            (valid \/ bad > 0) /\ SaveImport(q, i, bad, valid)
       \/ CountActive(q)
       \/ \E answered \in BOOLEAN : AddJob(q, answered)
       \/ \E w \in Runs : RunDirectly(q, w)
  \/ \E w \in Runs :
       \/ \E i \in ImportIds : TakeJob(w, i)
       \/ Begin(w) \/ ImportRowOk(w) \/ ImportRowFails(w) \/ SaveCounts(w)
       \/ Finish(w) \/ ReportDone(w) \/ LoseRun(w) \/ Stall(w)

ImportJobsSpec == ImportJobsInit /\ [][ImportJobsNext]_importVars

-----------------------------------------------------------------------------
CreatedBy(i) == {n \in 1 .. FileRows : created[n] = i}
RunsOf(i) == {w \in Runs : run[w] # None /\ run[w].import = i}

(* What the owner reads of an import is true: never more residents than    *)
(* were created, COMPLETED only when each row was, and after a single run  *)
(* every row counted once and FAILED only when none was created.           *)
ReportHonest ==
  \A i \in ImportIds : imports[i] # None =>
    /\ imports[i].success <= Cardinality(CreatedBy(i))
    /\ imports[i].status = "COMPLETED" =>
         imports[i].bad = 0 /\ Cardinality(CreatedBy(i)) = FileRows
    /\ ~Running(i) /\ Cardinality(RunsOf(i)) = 1 =>
         /\ imports[i].success = Cardinality(CreatedBy(i))
         /\ imports[i].success + imports[i].failed = FileRows + imports[i].bad
         /\ imports[i].status = "FAILED" => CreatedBy(i) = {}

(* "Only 3 concurrent imports", and one import for one key, but for        *)
(* requests that overlapped; an import run again counts once more.         *)
ImportsLimited ==
  /\ Cardinality({i \in ImportIds \ overlapped :
                    Running(i) /\ Cardinality(RunsOf(i)) <= 1}) <= MaxActive
  /\ \A i, j \in ImportIds :
       /\ i # j /\ imports[i] # None /\ imports[j] # None
       /\ imports[i].key = imports[j].key /\ imports[i].key # None
       => {i, j} \cap overlapped # {}

ImportsAccountedFor == ReportHonest /\ ImportsLimited

-----------------------------------------------------------------------------
(* What the proofs rest on.  Who may still run an import...                *)
ToQueue(i) == \E q \in Requests :
                importReq[q].stage \in {"saved", "unsure"} /\ importReq[q].import = i
Startable(i) == jobs[i].state = "waiting" \/ ToQueue(i)

(* ...how often it was run at most, and the failures that leaves room for. *)
Begun(i) == jobs[i].attempts + (IF ToQueue(i) THEN 0 ELSE 1)
FailedBound(n) == BadRows + n * FileRows

RecordFits(i) ==
  LET rec == imports[i]
  IN  /\ rec.bad <= rec.failed /\ rec.failed <= FailedBound(Begun(i))
      /\ rec.success <= Cardinality(CreatedBy(i))
      /\ rec.status = "COMPLETED" => rec.bad = 0 /\ Cardinality(CreatedBy(i)) = FileRows
      /\ RunsOf(i) = {} =>
           /\ CreatedBy(i) = {} /\ rec.success = 0 /\ rec.failed = rec.bad
           /\ Startable(i) => rec.status = "QUEUED"

JobFits(i) ==
  /\ jobs[i].state = "none" => jobs[i].attempts = 0
  /\ jobs[i].state = "waiting" => jobs[i].attempts < JobAttempts
  /\ imports[i] = None => jobs[i].state = "none" /\ RunsOf(i) = {} /\ CreatedBy(i) = {}

(* A run counts what it has created so far, and each row once...           *)
MadeBefore(i, n) == {m \in CreatedBy(i) : m < n}
ImportRunFits(w) ==
  LET r == run[w]
      bad == imports[r.import].bad
  IN  /\ r.stage = "found" =>
           /\ r.success <= Cardinality(CreatedBy(r.import)) /\ bad <= r.failed
           /\ r.next = 1
      /\ r.stage \in {"rows", "saving", "finishing", "over"} =>
           /\ r.success <= Cardinality(MadeBefore(r.import, r.next))
           /\ r.success <= r.next - 1 /\ bad <= r.failed
           /\ r.next - 1 + bad <= r.success + r.failed
      /\ r.stage # "ended" => r.failed + FileRows <= FailedBound(Begun(r.import)) + r.next - 1
      /\ r.stage = "rows" => r.next <= FileRows
      /\ r.stage \in {"finishing", "over"} => r.next = FileRows + 1

(* ...and exactly, if it is the only one.                                  *)
SingleRunFits(i, w) ==
  LET r == run[w]
      rec == imports[i]
  IN  RunsOf(i) = {w} =>
        /\ r.stage = "found" => CreatedBy(i) = {} /\ r.success = 0 /\ r.failed = rec.bad
        /\ r.stage \in {"found", "rows", "saving", "finishing"} => Running(i)
        /\ r.stage \in {"rows", "saving", "finishing"} =>
             /\ r.success = Cardinality(CreatedBy(i))
             /\ r.success + r.failed = r.next - 1 + rec.bad
        /\ ~Running(i) =>
             /\ rec.success = Cardinality(CreatedBy(i))
             /\ rec.success + rec.failed = FileRows + rec.bad
             /\ rec.status = "FAILED" => CreatedBy(i) = {}

(* What a request knows unless it was overtaken; an import that is to be   *)
(* queued is of one request.                                               *)
RunOnce == {i \in ImportIds : Running(i) /\ Cardinality(RunsOf(i)) <= 1}
ImportKnows(q) ==
  LET r == importReq[q]
  IN  /\ r.stage \in {"keyed", "counted"} /\ r.key # None =>
           <<"key", r.key>> \in r.reads /\ (r.raced \/ OfKey(r.key) = {})
      /\ r.stage = "counted" =>
           <<"active", "count">> \in r.reads
           /\ (r.raced \/ Cardinality(RunOnce) < MaxActive)
      /\ r.stage \in {"saved", "unsure"} =>
           /\ r.import \in ImportIds /\ imports[r.import] # None
           /\ \A p \in Requests \ {q} :
                importReq[p].stage \in {"saved", "unsure"} =>
                  importReq[p].import # r.import
      /\ r.stage = "saved" => jobs[r.import].state = "none" /\ RunsOf(r.import) = {}

ImportInv ==
  /\ ImportJobsTypeOK
  /\ IsFiniteSet({w \in Runs : run[w] # None})
  /\ \A i \in ImportIds : JobFits(i) /\ (imports[i] # None => RecordFits(i))
  /\ \A w \in Runs : run[w] # None =>
       ImportRunFits(w) /\ \A i \in ImportIds : SingleRunFits(i, w)
  /\ \A q \in Requests : ImportKnows(q)
  /\ ImportsLimited
=============================================================================
