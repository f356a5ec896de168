---------------------------- MODULE BatchRunner ----------------------------
(***************************************************************************)
(* run_gael_parallel.py over GAEL processes (RunReport): each runner takes *)
(* the folders that have no table yet, runs a GAEL in each on a pool of    *)
(* workers and says which failed.  A folder counts as done by its          *)
(* fit_parameters.csv being there and not empty, which is looked at twice. *)
(* Runners may overlap, follow each other or die half way; the display is  *)
(* a thread that only reads.  A behaviour is about runners, or about a     *)
(* GAEL run by hand with none about.                                       *)
(*                                                                         *)
(* Process <<r, f>> is the GAEL runner r starts in folder f.  Logs and the *)
(* terminal are left out.                                                  *)
(***************************************************************************)
EXTENDS RunReport

CONSTANTS
    Runner,
    Asked,        \* Asked[r]: the folders from --start to --end
    Forcing,      \* runners given --force
    Workers,
    Commands      \* options GAEL is given by hand

VARIABLES
    batch,        \* where each runner is
    todo,         \* folders_to_process
    job,          \* worker_status of each folder
    found,        \* the folder had a table when its job last looked
    completed,    \* the counter the display compares with the length of todo
    failed        \* failed_folders

bvars == <<batch, todo, job, found, completed, failed>>
vars  == <<rvars, bvars>>

ASSUME BatchAssumption ==
    /\ Workers \in Nat \ {0} /\ Forcing \subseteq Runner
    /\ Asked \in [Runner -> SUBSET Folder] /\ \A r \in Runner : IsFiniteSet(Asked[r])
    /\ \A r \in Runner : \A f \in Asked[r] : <<r, f>> \in Process /\ FolderOf[<<r, f>>] = f
    /\ Commands \subseteq OptionType

Busy == {"starting", "running"}
Answered == {"skipped", "complete", "failed"}

BatchTypeOK ==
    /\ ReportTypeOK
    /\ batch \in [Runner -> {"absent", "idle", "pool", "returned", "killed"}]
    /\ todo \in [Runner -> SUBSET Folder]
    /\ \A r \in Runner :
           /\ job[r] \in [Folder -> {"waiting"} \cup Busy \cup Answered]
           /\ found[r] \in [Folder -> BOOLEAN]
           /\ completed[r] \in 0..Cardinality(todo[r])
           /\ failed[r] \subseteq todo[r]

Init ==
    /\ ReportInit
    /\ \E b \in {"absent", "idle"} : batch = [r \in Runner |-> b]
    /\ todo = [r \in Runner |-> {}]
    /\ job = [r \in Runner |-> [f \in Folder |-> "waiting"]]
    /\ found = [r \in Runner |-> [f \in Folder |-> FALSE]]
    /\ completed = [r \in Runner |-> 0] /\ failed = [r \in Runner |-> {}]

\* is_already_processed: the file is there and has some size.
Processed(f) == csv[f].rows \in {"some", "all", "mixed"}

Sets(r, f, s) == job' = [job EXCEPT ![r][f] = s]

\* Mutant of Filters: the folders left out count as completed.
FiltersCounting(r) ==
    LET take == IF r \in Forcing THEN Asked[r] ELSE {f \in Asked[r] : ~Processed(f)}
    IN  /\ batch[r] = "idle"
        /\ todo' = [todo EXCEPT ![r] = take]
        /\ batch' = [batch EXCEPT ![r] = IF take = {} THEN "returned" ELSE "pool"]
        /\ completed' = [completed EXCEPT ![r] = Cardinality(Asked[r] \ take)]
        /\ UNCHANGED <<rvars, job, found, failed>>

\* The constructor and the head of run.
Filters(r) ==
    LET take == IF r \in Forcing THEN Asked[r] ELSE {f \in Asked[r] : ~Processed(f)}
    IN  /\ batch[r] = "idle"
        /\ todo' = [todo EXCEPT ![r] = take]
        /\ batch' = [batch EXCEPT ![r] = IF take = {} THEN "returned" ELSE "pool"]
        /\ UNCHANGED <<rvars, job, found, completed, failed>>

\* A worker of r has nothing to do.
Free(r) == Cardinality({f \in Folder : job[r][f] \in Busy}) < Workers

\* Mutant of Takes: the second look at the table is left out.
TakesUnchecked(r, f) ==
    /\ batch[r] = "pool" /\ f \in todo[r] /\ job[r][f] = "waiting" /\ Free(r)
    /\ found' = [found EXCEPT ![r][f] = Processed(f)]
    /\ Sets(r, f, "starting") /\ UNCHANGED completed
    /\ UNCHANGED <<rvars, batch, todo, failed>>

\* A worker takes a folder and looks again whether it has been processed.
Takes(r, f) ==
    /\ batch[r] = "pool" /\ f \in todo[r] /\ job[r][f] = "waiting" /\ Free(r)
    /\ found' = [found EXCEPT ![r][f] = Processed(f)]
    /\ IF r \notin Forcing /\ Processed(f)
       THEN Sets(r, f, "skipped") /\ completed' = [completed EXCEPT ![r] = @ + 1]
       ELSE Sets(r, f, "starting") /\ UNCHANGED completed
    /\ UNCHANGED <<rvars, batch, todo, failed>>

\* Popen, with no report asked for.
Spawns(r, f) ==
    /\ batch[r] = "pool" /\ job[r][f] = "starting"
    /\ Launches(<<r, f>>, Quiet)
    /\ Sets(r, f, "running")
    /\ UNCHANGED <<batch, todo, found, completed, failed>>

\* Popen fails, or reading GAEL's output does, and then GAEL is left running.
Loses(r, f) ==
    /\ batch[r] = "pool" /\ job[r][f] \in Busy /\ Breaks
    /\ Sets(r, f, "failed")
    /\ failed' = [failed EXCEPT ![r] = @ \cup {f}]
    /\ UNCHANGED <<opts, at, start, term, verdict, code, reports, csv, kills>>
    /\ UNCHANGED <<batch, todo, found, completed>>

\* Mutant of Ends: GAEL's exit code is not looked at.
EndsBlind(r, f) ==
    /\ batch[r] = "pool" /\ job[r][f] = "running" /\ at[<<r, f>>] = "gone"
    /\ Sets(r, f, "complete")
    /\ completed' = [completed EXCEPT ![r] = @ + 1] /\ UNCHANGED failed
    /\ UNCHANGED <<rvars, batch, todo, found>>

\* GAEL has ended, and its exit code says how.
Ends(r, f) ==
    /\ batch[r] = "pool" /\ job[r][f] = "running" /\ at[<<r, f>>] = "gone"
    /\ IF code[<<r, f>>] = "0"
       THEN /\ Sets(r, f, "complete")
            /\ completed' = [completed EXCEPT ![r] = @ + 1] /\ UNCHANGED failed
       ELSE /\ Sets(r, f, "failed")
            /\ failed' = [failed EXCEPT ![r] = @ \cup {f}] /\ UNCHANGED completed
    /\ UNCHANGED <<rvars, batch, todo, found>>

\* Every future has been answered: the summary, failed_folders.txt, the exit.
Returns(r) ==
    /\ batch[r] = "pool" /\ \A f \in todo[r] : job[r][f] \in Answered
    /\ batch' = [batch EXCEPT ![r] = "returned"]
    /\ UNCHANGED <<rvars, todo, job, found, completed, failed>>

\* The runner is killed; its GAELs go on.
Dies(r) ==
    /\ batch[r] = "pool" /\ kills < MaxKills /\ kills' = kills + 1
    /\ batch' = [batch EXCEPT ![r] = "killed"]
    /\ UNCHANGED <<opts, at, start, term, verdict, code, reports, csv, faults>>
    /\ UNCHANGED <<todo, job, found, completed, failed>>

Batch(r) == Filters(r) \/ Returns(r) \/ \E f \in Folder : Takes(r, f) \/ Spawns(r, f) \/ Ends(r, f)

\* GAEL run by hand, over what an earlier start left.
Manual == Process \ (Runner \X Folder)

ByHand(p) ==
    /\ p \in Manual
    /\ \A r \in Runner : batch[r] = "absent"
    /\ \E o \in Commands : Launches(p, o)
    /\ UNCHANGED bvars

Gael(p) == Proceeds(p) /\ UNCHANGED bvars

World(p) == (Ticks(p) \/ Killed(p) \/ Sigterm(p)) /\ UNCHANGED bvars

Next ==
    \/ \E r \in Runner : Batch(r) \/ Dies(r) \/ \E f \in Folder : Loses(r, f)
    \/ \E p \in Process : ByHand(p) \/ Gael(p) \/ World(p)

Spec == Init /\ [][Next]_vars

\* A GAEL that can go on does, and its fit ends some time; so does a runner.
FairSpec ==
    /\ Spec
    /\ \A p \in Process : WF_vars(Gael(p))
    /\ \A r \in Runner : WF_vars(Batch(r))

-----------------------------------------------------------------------------
(* Properties.                                                             *)

Writing(f) == \E p \in Process : FolderOf[p] = f /\ at[p] = "rows"

\* A runner that returned has answered every folder it took once, and failed_folders
\* has those it did not complete or skip; and a folder it calls complete or skipped
\* has a whole table, unless something failed or was killed, or two GAELs
\* worked on that folder.
DoneMeansTable ==
    /\ \A r \in Runner : batch[r] = "returned" =>
           /\ completed[r] = Cardinality(todo[r] \ failed[r])
           /\ failed[r] = {f \in todo[r] : job[r][f] = "failed"}
    /\ \A r \in Runner, f \in Folder : job[r][f] \in {"complete", "skipped"} =>
           csv[f].rows = "all" \/ faults + kills > 0 \/ Writing(f) \/ csv[f].rows = "mixed"

\* The table of a folder that has one is lost only to --force, or to a GAEL
\* whose runner looked before the table was there, or to one run by hand.
KeepsTables ==
    [][\A r \in Runner, f \in Folder :
           csv[f].rows = "all" /\ csv'[f].rows # "all" /\ csv'[f].by = <<r, f>>
           => r \in Forcing \/ ~found[r][f]]_vars

\* A killed worker still leaves its reports: after SIGTERM a fit that has a
\* callback comes to its end (main.cpp, at g_terminate).  And a batch comes to
\* its end, whatever its GAELs do.
RunsEnd ==
    /\ \A p \in Manual : (at[p] = "fit" /\ term[p] /\ Listens(p)) ~> (at[p] = "gone")
    /\ \A r \in Runner : batch[r] = "pool" ~> batch[r] \in {"returned", "killed"}
=============================================================================
