----------------------------- MODULE RunReport -----------------------------
(***************************************************************************)
(* What one GAEL process (main.cpp) leaves behind for others to read: the  *)
(* status file, the result JSON and fit_parameters.csv, with the crashes,  *)
(* failing writes and SIGTERMs that fall between its steps.                *)
(*                                                                         *)
(* A file's content is which start of the process wrote it, what it says   *)
(* of the run and whether all of it is there.  Files outlive the process,  *)
(* and a process may be started again over the files of an earlier start.  *)
(* The fit itself is one place: it reports progress, ends, throws, or is   *)
(* stopped by its callback.  run_impl has no other verdict than Ok, so the *)
(* branch for the other statuses of FitResult is never taken.              *)
(***************************************************************************)
EXTENDS Integers, FiniteSets

CONSTANTS
    Process, Folder,
    FolderOf,     \* FolderOf[p]: the folder of p's output_path
    MaxStarts,    \* bound: starts of one process over the same files
    MaxFaults,    \* bound: operations on files that fail
    MaxKills,     \* bound: processes killed
    NoFile, Nobody

\* Of the command line and the environment: it cannot be parsed; --version,
\* --help or no --fit; --status-file, --result-json, --output-synthetic;
\* GAEL_PROGRESS=1, GAEL_DUMP_MODELS=1 and GAEL_PROGRESS_ABORT_AFTER.
OptionType == [bad : BOOLEAN, asks : BOOLEAN, status : BOOLEAN, result : BOOLEAN,
               synthetic : BOOLEAN, progress : BOOLEAN, dump : BOOLEAN, quits : BOOLEAN]

Quiet == [bad |-> FALSE, asks |-> FALSE, status |-> FALSE, result |-> FALSE,
          synthetic |-> FALSE, progress |-> FALSE, dump |-> FALSE, quits |-> FALSE]

Says == {"running", "done", "aborted", "failed"}

ASSUME ReportAssumption ==
    /\ FolderOf \in [Process -> Folder] /\ Nobody \notin Process
    /\ {MaxStarts, MaxFaults, MaxKills} \subseteq Nat
    /\ NoFile \notin [start : Nat, says : Says, whole : BOOLEAN]

VARIABLES
    opts,         \* the options of each process
    at,           \* where it is in main
    start,        \* how often it was started
    term,         \* g_terminate
    verdict,      \* what session.run() returned
    code,         \* its exit code once it has one
    statusTmp, status,     \* <status-file>.tmp and the status file
    resultPart, result,    \* <result-json>.part and the result file
    csv,          \* fit_parameters.csv of each folder
    shown,        \* everything the result file has said of this start
    faults, kills

reports == <<statusTmp, status, resultPart, result, shown>>
rvars == <<opts, at, start, term, verdict, code, reports, csv, faults, kills>>

\* In the order of main; "tick" .. "reportmv": a temporary file is written, and
\* is to be renamed.
Places == {"none", "options", "setup", "synthetic", "fit", "tick", "result", "publish",
           "verdict", "verdictmv", "declared", "table", "rows", "dump",
           "caught", "caughtmv", "report", "reportmv", "leaving", "gone"}

Content == [start : 0..MaxStarts, says : Says, whole : BOOLEAN] \cup {NoFile}

\* A table: how much of it is there, and who truncated it last.
NoTable == [rows |-> "none", by |-> Nobody]
Table == [rows : {"none", "empty", "some", "all", "mixed"}, by : Process \cup {Nobody}]

ReportTypeOK ==
    /\ opts \in [Process -> OptionType] /\ at \in [Process -> Places]
    /\ start \in [Process -> 0..MaxStarts] /\ term \in [Process -> BOOLEAN]
    /\ verdict \in [Process -> {"none", "done", "aborted"}]
    /\ code \in [Process -> {"none", "0", "1", "2", "killed"}]
    /\ \A f \in {statusTmp, status, resultPart, result} : f \in [Process -> Content]
    /\ csv \in [Folder -> Table]
    /\ shown \in [Process -> SUBSET Says]
    /\ faults \in 0..MaxFaults /\ kills \in 0..MaxKills

ReportInit ==
    /\ opts = [p \in Process |-> Quiet]
    /\ at = [p \in Process |-> "none"] /\ start = [p \in Process |-> 0]
    /\ term = [p \in Process |-> FALSE]
    /\ verdict = [p \in Process |-> "none"] /\ code = [p \in Process |-> "none"]
    /\ statusTmp = [p \in Process |-> NoFile] /\ status = statusTmp
    /\ resultPart = statusTmp /\ result = statusTmp
    /\ csv = [f \in Folder |-> NoTable]
    /\ shown = [p \in Process |-> {}]
    /\ faults = 0 /\ kills = 0

-----------------------------------------------------------------------------

Running(p) == at[p] \notin {"none", "gone"}
Goes(p, place) == at' = [at EXCEPT ![p] = place]
Exits(p, c) == Goes(p, "gone") /\ code' = [code EXCEPT ![p] = c]

\* An operation on a file fails, or works.
Breaks == faults < MaxFaults /\ faults' = faults + 1
Works == UNCHANGED faults

\* The progress callback is installed: it alone looks at g_terminate.
Listens(p) == opts[p].status \/ opts[p].result \/ opts[p].progress

\* What this start of p writes.
Written(p, s, w) == [start |-> start[p], says |-> s, whole |-> w]

\* A file is written under another name: not at all, in part, which nobody
\* notices (the stream is not looked at again), or whole.
WritesAside(p, file, says, from, to, unopened) ==
    /\ at[p] = from
    /\ \/ Works /\ file' = [file EXCEPT ![p] = Written(p, says, TRUE)] /\ Goes(p, to)
       \/ Breaks /\ file' = [file EXCEPT ![p] = Written(p, says, FALSE)] /\ Goes(p, to)
       \/ Breaks /\ UNCHANGED file /\ Goes(p, unopened)

\* Process p is run with options o: by hand, or by run_gael_parallel.py.
Launches(p, o) ==
    /\ ~Running(p) /\ start[p] < MaxStarts
    /\ start' = [start EXCEPT ![p] = @ + 1] /\ opts' = [opts EXCEPT ![p] = o]
    /\ Goes(p, "options")
    /\ term' = [term EXCEPT ![p] = FALSE]
    /\ verdict' = [verdict EXCEPT ![p] = "none"]
    /\ code' = [code EXCEPT ![p] = "none"]
    /\ shown' = [shown EXCEPT ![p] = {}]
    /\ UNCHANGED <<statusTmp, status, resultPart, result, csv, faults, kills>>

\* The command line or --mem-budget cannot be parsed: the handler runs before
\* there is a StatusFile or a result path.
BadOptions(p) ==
    /\ at[p] = "options" /\ opts[p].bad /\ Exits(p, "1")
    /\ UNCHANGED <<opts, start, term, verdict, reports, csv, faults, kills>>

\* --version, --help or a command line without --fit: main prints and returns
\* before it has looked for the paths of its reports.
ShowsHelp(p) ==
    /\ at[p] = "options" /\ opts[p].asks /\ Exits(p, "0")
    /\ UNCHANGED <<opts, start, term, verdict, reports, csv, faults, kills>>

\* The paths are known and the signal handler is in place.
Parses(p) ==
    /\ at[p] = "options" /\ ~opts[p].bad /\ ~opts[p].asks /\ Goes(p, "setup")
    /\ UNCHANGED <<opts, start, term, verdict, code, reports, csv, faults, kills>>

\* Settings and fit configuration are read.
Configures(p) ==
    /\ at[p] = "setup"
    /\ Goes(p, IF opts[p].synthetic THEN "synthetic" ELSE "fit")
    /\ UNCHANGED <<opts, start, term, verdict, code, reports, csv, faults, kills>>

\* run_synthetic_only: main returns without a word to either file.
WritesSynthetic(p) ==
    /\ at[p] = "synthetic" /\ Exits(p, "0")
    /\ UNCHANGED <<opts, start, term, verdict, reports, csv, faults, kills>>

\* An exception on the way here: a bad configuration, a missing grid, the fit.
Throws(p) ==
    /\ at[p] \in {"setup", "synthetic", "fit"} /\ Goes(p, "caught")
    /\ UNCHANGED <<opts, start, term, verdict, code, reports, csv, faults, kills>>

\* StatusFile::tick, when its second has passed, up to the rename.
Ticks(p) ==
    /\ at[p] = "fit" /\ opts[p].status
    /\ WritesAside(p, statusTmp, "running", "fit", "tick", "fit")
    /\ UNCHANGED <<opts, start, term, verdict, code, status, resultPart, result, shown, csv, kills>>

\* fs::rename with an error code nobody reads.
RenamesStatus(p) ==
    \/ Works /\ status' = [status EXCEPT ![p] = statusTmp[p]]
             /\ statusTmp' = [statusTmp EXCEPT ![p] = NoFile]
    \/ Breaks /\ UNCHANGED <<status, statusTmp>>

\* Mutant of TickRenames: a report that wrote the file does not look at the flag.
TickRenamesDeaf(p) ==
    /\ at[p] = "tick" /\ RenamesStatus(p)
    /\ Goes(p, "fit") /\ UNCHANGED verdict
    /\ UNCHANGED <<opts, start, term, code, resultPart, result, shown, csv, kills>>

\* The report goes on to look at g_terminate.
TickRenames(p) ==
    /\ at[p] = "tick" /\ RenamesStatus(p)
    /\ IF term[p] THEN Goes(p, "result") /\ verdict' = [verdict EXCEPT ![p] = "aborted"]
                  ELSE Goes(p, "fit") /\ UNCHANGED verdict
    /\ UNCHANGED <<opts, start, term, code, resultPart, result, shown, csv, kills>>

\* Between two ticks the callback answers false: run() comes back with
\* Status::Aborted.
Aborts(p) ==
    /\ at[p] = "fit" /\ Listens(p) /\ (term[p] \/ opts[p].quits)
    /\ verdict' = [verdict EXCEPT ![p] = "aborted"]
    /\ Goes(p, "result")
    /\ UNCHANGED <<opts, start, term, code, reports, csv, faults, kills>>

\* The fit comes to its end, SIGTERM or not.
Finishes(p) ==
    /\ at[p] = "fit"
    /\ verdict' = [verdict EXCEPT ![p] = "done"]
    /\ Goes(p, "result")
    /\ UNCHANGED <<opts, start, term, code, reports, csv, faults, kills>>

-----------------------------------------------------------------------------
(* The reports of a fit that returned.                                     *)

\* write_result_json, up to the rename: a path that cannot be opened throws.
WritesResult(p) ==
    /\ at[p] = "result"
    /\ IF opts[p].result
       THEN WritesAside(p, resultPart, verdict[p], "result", "publish", "caught")
       ELSE Goes(p, "verdict") /\ UNCHANGED <<resultPart, faults>>
    /\ UNCHANGED <<opts, start, term, verdict, code, statusTmp, status, result, shown, csv, kills>>

RenamesResult(p) ==
    /\ Works
    /\ result' = [result EXCEPT ![p] = resultPart[p]]
    /\ resultPart' = [resultPart EXCEPT ![p] = NoFile]
    /\ shown' = [shown EXCEPT ![p] = @ \cup {resultPart[p].says}]

\* ... and the rename, which throws if it fails.
Publishes(p) ==
    /\ at[p] = "publish"
    /\ \/ RenamesResult(p) /\ Goes(p, "verdict")
       \/ Breaks /\ Goes(p, "caught") /\ UNCHANGED <<resultPart, result, shown>>
    /\ UNCHANGED <<opts, start, term, verdict, code, statusTmp, status, csv, kills>>

\* StatusFile::finish with what run() said.
Declares(p) ==
    /\ at[p] = "verdict"
    /\ IF opts[p].status
       THEN WritesAside(p, statusTmp, verdict[p], "verdict", "verdictmv", "declared")
       ELSE Goes(p, "declared") /\ UNCHANGED <<statusTmp, faults>>
    /\ UNCHANGED <<opts, start, term, verdict, code, status, resultPart, result, shown, csv, kills>>

DeclareRenames(p) ==
    /\ at[p] = "verdictmv" /\ Goes(p, "declared") /\ RenamesStatus(p)
    /\ UNCHANGED <<opts, start, term, verdict, code, resultPart, result, shown, csv, kills>>

\* An aborted fit ends here, with 2; the other has its table to write.
Declared(p) ==
    /\ at[p] = "declared"
    /\ IF verdict[p] = "aborted" THEN Exits(p, "2") ELSE Goes(p, "table") /\ UNCHANGED code
    /\ UNCHANGED <<opts, start, term, verdict, reports, csv, faults, kills>>

\* write_fit_parameters_csv: the directory cannot be made, which throws (as it
\* does with no outputPath at all); the file cannot be opened, which is a
\* warning; or it is truncated.
OpensTable(p) ==
    /\ at[p] = "table"
    /\ \/ Breaks /\ Goes(p, "caught") /\ UNCHANGED csv
       \/ Breaks /\ Goes(p, "dump") /\ UNCHANGED csv
       \/ Works /\ Goes(p, "rows")
                /\ csv' = [csv EXCEPT ![FolderOf[p]] = [rows |-> "empty", by |-> p]]
    /\ UNCHANGED <<opts, start, term, verdict, code, reports, kills>>

\* Rows written after another process truncated the file are mixed with its.
RowsBecome(p, r) ==
    LET f == FolderOf[p]
        mine == csv[f].by = p /\ csv[f].rows # "mixed"
    IN  csv' = [csv EXCEPT ![f].rows = IF mine THEN r ELSE "mixed"]

\* A block of rows reaches the file ...
WritesRows(p) ==
    /\ at[p] = "rows" /\ RowsBecome(p, "some")
    /\ UNCHANGED <<opts, at, start, term, verdict, code, reports, faults, kills>>

\* ... or the file is closed, with all rows in it or, unnoticed, without the last.
ClosesTable(p) ==
    /\ at[p] = "rows" /\ Goes(p, "dump")
    /\ \/ RowsBecome(p, "all") /\ Works
       \/ RowsBecome(p, "some") /\ Breaks
    /\ UNCHANGED <<opts, start, term, verdict, code, reports, kills>>

\* write_model_dats if asked for: its directory may fail, its files may not.
Leaves(p) ==
    /\ at[p] = "dump"
    /\ \/ Works /\ Exits(p, "0")
       \/ opts[p].dump /\ Breaks /\ Goes(p, "caught") /\ UNCHANGED code
    /\ UNCHANGED <<opts, start, term, verdict, reports, csv, kills>>

-----------------------------------------------------------------------------
(* main's handler.                                                         *)

\* The status file says so first ...
DeclaresFailure(p) ==
    /\ at[p] = "caught"
    /\ IF opts[p].status
       THEN WritesAside(p, statusTmp, "failed", "caught", "caughtmv", "report")
       ELSE Goes(p, "report") /\ UNCHANGED <<statusTmp, faults>>
    /\ UNCHANGED <<opts, start, term, verdict, code, status, resultPart, result, shown, csv, kills>>

FailureRenames(p) ==
    /\ at[p] = "caughtmv" /\ Goes(p, "report") /\ RenamesStatus(p)
    /\ UNCHANGED <<opts, start, term, verdict, code, resultPart, result, shown, csv, kills>>

\* Mutant of ReportsFailure: the handler writes no result.
ReportsNothing(p) ==
    /\ at[p] = "report" /\ Goes(p, "leaving")
    /\ UNCHANGED <<resultPart, faults>>
    /\ UNCHANGED <<opts, start, term, verdict, code, statusTmp, status, result, shown, csv, kills>>

\* ... then a FitResult that says InternalError goes the way of every other,
\* and what fails on that way is swallowed.
ReportsFailure(p) ==
    /\ at[p] = "report"
    /\ IF opts[p].result
       THEN WritesAside(p, resultPart, "failed", "report", "reportmv", "leaving")
       ELSE Goes(p, "leaving") /\ UNCHANGED <<resultPart, faults>>
    /\ UNCHANGED <<opts, start, term, verdict, code, statusTmp, status, result, shown, csv, kills>>

FailurePublishes(p) ==
    /\ at[p] = "reportmv" /\ Goes(p, "leaving")
    /\ \/ RenamesResult(p)
       \/ Breaks /\ UNCHANGED <<resultPart, result, shown>>
    /\ UNCHANGED <<opts, start, term, verdict, code, statusTmp, status, csv, kills>>

LeavesFailed(p) ==
    /\ at[p] = "leaving" /\ Exits(p, "1")
    /\ UNCHANGED <<opts, start, term, verdict, reports, csv, faults, kills>>

-----------------------------------------------------------------------------
(* The world around the process.                                           *)

\* SIGKILL, the out-of-memory killer, or SIGTERM before its handler is there.
Killed(p) ==
    /\ Running(p) /\ kills < MaxKills
    /\ kills' = kills + 1
    /\ Exits(p, "killed")
    /\ UNCHANGED <<opts, start, term, verdict, reports, csv, faults>>

\* SIGTERM, which a process without a callback takes no notice of.
Sigterm(p) ==
    /\ Running(p) /\ at[p] # "options" /\ Listens(p) /\ ~term[p]
    /\ term' = [term EXCEPT ![p] = TRUE]
    /\ UNCHANGED <<opts, at, start, verdict, code, reports, csv, faults, kills>>

\* What a process that was started does, and goes on doing: a fit that is not
\* asked to stop ticks until it ends.
Proceeds(p) ==
    \/ BadOptions(p) \/ ShowsHelp(p) \/ Parses(p) \/ Configures(p) \/ WritesSynthetic(p) \/ Throws(p)
    \/ TickRenames(p) \/ Aborts(p) \/ Finishes(p)
    \/ WritesResult(p) \/ Publishes(p) \/ Declares(p) \/ DeclareRenames(p) \/ Declared(p)
    \/ OpensTable(p) \/ WritesRows(p) \/ ClosesTable(p) \/ Leaves(p)
    \/ DeclaresFailure(p) \/ FailureRenames(p)
    \/ ReportsFailure(p) \/ FailurePublishes(p) \/ LeavesFailed(p)

-----------------------------------------------------------------------------
(* Properties.                                                             *)

Outcome == [c \in {"0", "1", "2"} |-> IF c = "0" THEN "done"
                                        ELSE IF c = "1" THEN "failed" ELSE "aborted"]

\* A file gives the outcome of the start that has just ended.
Tells(f, p) == f[p] # NoFile /\ f[p] = Written(p, Outcome[code[p]], TRUE)

\* Reports p was asked for that do not tell how it ended.
Lies(p) == (IF opts[p].status /\ ~Tells(status, p) THEN {"status"} ELSE {})
           \cup (IF opts[p].result /\ ~Tells(result, p) THEN {"result"} ELSE {})

\* The start had its reports to write: it knew their paths, and did not end in
\* run_synthetic_only.
OwesReports(p) == ~opts[p].bad /\ ~opts[p].asks /\ ~(opts[p].synthetic /\ code[p] = "0")

\* What the reports are good for, which is less than the comments around them
\* say (ReportsAsPromised below).  Of a start that read its configuration
\* and went on to the fit or to main's handler, each operation on a file that
\* fails costs one of the two reports at most, and the other gives the outcome
\* the exit code gives.  Whatever kills the process whenever, a report that is
\* there is whole if no write fell short: it is the rename that publishes it
\* (StatusFile::write, write_result_json).  And a start says one thing in the
\* result file, or, after an operation that failed, "done" and then "failed"
\* (the handler after write_fit_parameters_csv).
Reported ==
    /\ \A p \in Process :
           code[p] \in {"0", "1", "2"} /\ OwesReports(p) => Cardinality(Lies(p)) <= faults
    /\ \A p \in Process : \A f \in {status, result} :
           f[p] # NoFile /\ ~f[p].whole => faults > 0
    /\ \A p \in Process :
           \/ Cardinality(shown[p]) <= 1
           \/ shown[p] = {"done", "failed"} /\ faults > 0

\* "A monitor watching only these files must see every outcome" (main.cpp, at
\* the declaration of the StatusFile): a process that ends by itself, with no
\* operation on a file failing, has told its outcome in each report it was
\* asked for.
EveryOutcomeReported ==
    \A p \in Process : code[p] \in {"0", "1", "2"} /\ faults = 0 => Lies(p) = {}

\* "A remote monitor can rely on its appearance alone; the status inside says how
\* the fit actually ended" (main.cpp, at write_result_json): the result file
\* of one start never says two things.
OneOutcomeTold == \A p \in Process : Cardinality(shown[p]) <= 1

\* "Written as <path>.part and renamed, so its existence means it is complete"
\* (the help of --result-json).
ExistsMeansComplete == \A p \in Process : result[p] # NoFile => result[p].whole

\* What the comments promise whoever watches the reports.
ReportsAsPromised == EveryOutcomeReported /\ OneOutcomeTold /\ ExistsMeansComplete
=============================================================================
