------------------------- MODULE BatchRunner_proofs -------------------------
(***************************************************************************)
(* Proofs about what GAEL processes and their runners leave behind, for    *)
(* any processes, folders, failures and kills: how far a monitor can go by *)
(* the reports, tables are only lost where they may be, and a folder       *)
(* called complete has one.                                                *)
(***************************************************************************)
EXTENDS BatchRunner, FiniteSetTheorems, TLAPS

-----------------------------------------------------------------------------
(* What is owed to the reader of the reports, at each place of main.       *)

\* What a start writes that says how it goes.
Told(n, says, whole) == [start |-> n, says |-> says, whole |-> whole]
Good(p, says) == Told(start[p], says, TRUE)

StatusMiss(p, says) == opts[p].status /\ status[p] # Good(p, says)
ResultMiss(p, says) == opts[p].result /\ result[p] # Good(p, says)
TmpMiss(p, says)    == statusTmp[p] # Good(p, says)
PartMiss(p, says)   == resultPart[p] # Good(p, says)

\* Operations on files have failed.
Broke == faults >= 1
BrokeTwice == faults >= 2

\* Two reports that miss have cost a failure each.
Paid(one, other) == (one \/ other => Broke) /\ (one /\ other => BrokeTwice)

\* Each report that is missing or is going to be has cost a failing operation:
\* on the way of a fit that returned, on the handler's, and after the end.
OwedOnward(p) ==
    /\ at[p] = "publish" => Paid(PartMiss(p, verdict[p]), FALSE)
    /\ at[p] = "verdict" => Paid(ResultMiss(p, verdict[p]), FALSE)
    /\ at[p] = "verdictmv" => Paid(ResultMiss(p, verdict[p]), TmpMiss(p, verdict[p]))
    /\ at[p] \in {"declared", "table", "rows", "dump"} =>
           Paid(ResultMiss(p, verdict[p]), StatusMiss(p, verdict[p]))

OwedFailed(p) ==
    /\ at[p] = "caughtmv" => Paid(TmpMiss(p, "failed"), FALSE)
    /\ at[p] = "report" => Paid(StatusMiss(p, "failed"), FALSE)
    /\ at[p] = "reportmv" => Paid(StatusMiss(p, "failed"), PartMiss(p, "failed"))
    /\ at[p] = "leaving" => Paid(StatusMiss(p, "failed"), ResultMiss(p, "failed"))

OwedAfter(p) ==
    at[p] = "gone" /\ ~opts[p].bad /\ ~opts[p].asks =>
           /\ code[p] = "0" /\ ~opts[p].synthetic =>
                  Paid(StatusMiss(p, "done"), ResultMiss(p, "done"))
           /\ code[p] = "1" => Paid(StatusMiss(p, "failed"), ResultMiss(p, "failed"))
           /\ code[p] = "2" => Paid(StatusMiss(p, "aborted"), ResultMiss(p, "aborted"))

Owed(p) == OwedOnward(p) /\ OwedFailed(p) /\ OwedAfter(p)

\* Where the process is and what run() returned.
Onward(p) ==
    /\ at[p] = "synthetic" => opts[p].synthetic
    /\ at[p] \in {"result", "publish", "verdict", "verdictmv", "declared"} =>
           verdict[p] \in {"done", "aborted"}
    /\ at[p] \in {"table", "rows", "dump"} => verdict[p] = "done"
    /\ code[p] \in {"0", "1", "2"} => at[p] = "gone"

\* What the result file has said of this start.
Showing(p) ==
    /\ at[p] \in {"options", "setup", "synthetic", "fit", "tick", "result", "publish"} =>
           shown[p] = {}
    /\ at[p] = "publish" => resultPart[p].says = verdict[p]
    /\ at[p] \in {"verdict", "verdictmv", "declared", "table", "rows", "dump"} =>
           shown[p] \subseteq {verdict[p]}
    /\ at[p] \in {"caught", "caughtmv", "report", "reportmv"} =>
           shown[p] \subseteq {"done"} /\ (shown[p] # {} => Broke)
    /\ at[p] = "reportmv" => resultPart[p].says = "failed"
    /\ \/ \E says \in Says : shown[p] \subseteq {says}
       \/ shown[p] = {"done", "failed"} /\ Broke

\* A torn file has cost a failing operation.
Torn(f, p) == f[p] # NoFile /\ ~f[p].whole
Whole(p) ==
    Torn(statusTmp, p) \/ Torn(status, p) \/ Torn(resultPart, p) \/ Torn(result, p)
    => Broke

Files == [Process -> Content]

\* Types of what a process reads and writes, but for the tables.
ReportTyped ==
    /\ opts \in [Process -> OptionType] /\ at \in [Process -> Places]
    /\ start \in [Process -> 0..MaxStarts] /\ term \in [Process -> BOOLEAN]
    /\ verdict \in [Process -> {"none", "done", "aborted"}]
    /\ code \in [Process -> {"none", "0", "1", "2", "killed"}]
    /\ statusTmp \in Files /\ status \in Files /\ resultPart \in Files /\ result \in Files
    /\ shown \in [Process -> SUBSET Says]
    /\ faults \in Nat

\* The inductive invariant of one process.
Sound(p) == Owed(p) /\ Onward(p) /\ Showing(p) /\ Whole(p)

Inv == ReportTyped /\ \A p \in Process : Sound(p)

-----------------------------------------------------------------------------
(* Steps.                                                                  *)

own(p) == <<opts[p], at[p], start[p], verdict[p], code[p], statusTmp[p], status[p],
            resultPart[p], result[p], shown[p]>>

\* What another process does cannot hurt: it may only add a failure.
LEMMA OthersKeep ==
    ASSUME NEW q, Sound(q), UNCHANGED own(q), faults \in Nat, faults' \in Nat, faults <= faults'
    PROVE  Sound(q)'
<1> USE DEF StatusMiss, ResultMiss, TmpMiss, PartMiss, Good, Paid
<1>1. (Broke => Broke') /\ (BrokeTwice => BrokeTwice')
  BY DEF Broke, BrokeTwice
<1>2. /\ opts'[q] = opts[q] /\ at'[q] = at[q] /\ start'[q] = start[q]
      /\ verdict'[q] = verdict[q] /\ code'[q] = code[q] /\ shown'[q] = shown[q]
      /\ statusTmp'[q] = statusTmp[q] /\ status'[q] = status[q]
      /\ resultPart'[q] = resultPart[q] /\ result'[q] = result[q]
  BY DEF own
<1>3. Owed(q)'
  <2>1. Owed(q)
    BY DEF Sound
  <2>2. OwedOnward(q)'
    BY <1>1, <1>2, <2>1 DEF Owed, OwedOnward
  <2>3. OwedFailed(q)'
    BY <1>1, <1>2, <2>1 DEF Owed, OwedFailed
  <2>4. OwedAfter(q)'
    BY <1>1, <1>2, <2>1 DEF Owed, OwedAfter
  <2> QED
    BY <2>2, <2>3, <2>4 DEF Owed
<1>4. Onward(q)'
  BY <1>2 DEF Sound, Onward
<1>5. Showing(q)'
  BY <1>1, <1>2 DEF Sound, Showing
<1>6. Whole(q)'
  BY <1>1, <1>2 DEF Sound, Whole, Torn
<1> QED
  BY <1>3, <1>4, <1>5, <1>6 DEF Sound

\* Contents are records, and tell whole ones from torn ones.
LEMMA Contents ==
    ASSUME ReportTyped, NEW p \in Process, NEW says \in Says, NEW w \in BOOLEAN
    PROVE  /\ Written(p, says, w) \in Content /\ Written(p, says, w) # NoFile
           /\ Written(p, says, w).whole = w /\ Written(p, says, w).says = says
<1>1. start[p] \in 0..MaxStarts /\ start[p] \in Nat
  BY ReportAssumption DEF ReportTyped
<1> QED
  BY <1>1, ReportAssumption DEF Written, Content

\* A process changes what is its own, keeps the types, and takes back no failure.
LEMMA OwnSteps ==
    ASSUME ReportTyped, NEW p \in Process, Sound(p),
           Proceeds(p) \/ Ticks(p) \/ Killed(p) \/ Sigterm(p)
    PROVE  /\ ReportTyped' /\ faults <= faults'
           /\ \A q \in Process \ {p} : UNCHANGED own(q)
<1> USE DEF reports, Goes, Exits, Works, Breaks, own
<1>0. /\ \A says \in Says : \A w \in BOOLEAN : Written(p, says, w) \in Content
      /\ NoFile \in Content /\ statusTmp[p] \in Content /\ resultPart[p] \in Content
  BY Contents DEF Content, ReportTyped, Files
<1>1. CASE BadOptions(p)
  BY <1>1 DEF BadOptions, ReportTyped, Places
<1>h. CASE ShowsHelp(p)
  BY <1>h DEF ShowsHelp, ReportTyped, Places
<1>2. CASE Parses(p)
  BY <1>2 DEF Parses, ReportTyped, Places
<1>3. CASE Configures(p)
  BY <1>3 DEF Configures, ReportTyped, Places
<1>4. CASE WritesSynthetic(p)
  BY <1>4 DEF WritesSynthetic, ReportTyped, Places
<1>5. CASE Throws(p)
  BY <1>5 DEF Throws, ReportTyped, Places
<1>6. CASE TickRenames(p)
  <2>1. /\ status' \in Files /\ statusTmp' \in Files
        /\ \A q \in Process \ {p} : status'[q] = status[q] /\ statusTmp'[q] = statusTmp[q]
        /\ faults' \in Nat /\ faults <= faults'
    BY <1>0, <1>6 DEF TickRenames, RenamesStatus, ReportTyped, Files
  <2> QED
    BY <1>6, <2>1 DEF TickRenames, ReportTyped, Places
<1>7. CASE Aborts(p)
  BY <1>7 DEF Aborts, ReportTyped, Places
<1>8. CASE Finishes(p)
  BY <1>8 DEF Finishes, ReportTyped, Places
<1>9. CASE WritesResult(p)
  <2>1. verdict[p] \in Says
    BY <1>9 DEF WritesResult, WritesAside, Sound, Onward, Says
  <2>2. resultPart' \in Files /\ \A q \in Process \ {p} : resultPart'[q] = resultPart[q]
    <3>1. resultPart' = resultPart \/ \E new \in Content : resultPart' = [resultPart EXCEPT ![p] = new]
      BY <1>0, <1>9, <2>1 DEF WritesResult, WritesAside, Says
    <3> QED
      BY <3>1 DEF ReportTyped, Files
  <2>3. /\ at' \in [Process -> Places] /\ \A q \in Process \ {p} : at'[q] = at[q]
        /\ faults' \in Nat /\ faults <= faults'
    <3>1. /\ faults' = faults \/ faults' = faults + 1
          /\ \E place \in Places : Goes(p, place)
      BY <1>9 DEF WritesResult, WritesAside, Places
    <3> QED
      BY <3>1 DEF ReportTyped
  <2> QED
    BY <1>9, <2>2, <2>3 DEF WritesResult, ReportTyped
<1>10. CASE Publishes(p)
  <2>1. resultPart[p].says \in Says
    BY <1>10 DEF Publishes, Sound, Onward, Showing, Says
  <2>2. /\ result' \in Files /\ resultPart' \in Files /\ shown' \in [Process -> SUBSET Says]
        /\ \A q \in Process \ {p} : /\ result'[q] = result[q] /\ resultPart'[q] = resultPart[q]
                                    /\ shown'[q] = shown[q]
        /\ faults' \in Nat /\ faults <= faults'
    BY <1>0, <1>10, <2>1 DEF Publishes, RenamesResult, ReportTyped, Files
  <2> QED
    BY <1>10, <2>2 DEF Publishes, ReportTyped, Places
<1>11. CASE Declares(p)
  <2>1. verdict[p] \in Says
    BY <1>11 DEF Declares, WritesAside, Sound, Onward, Says
  <2>2. statusTmp' \in Files /\ \A q \in Process \ {p} : statusTmp'[q] = statusTmp[q]
    <3>1. statusTmp' = statusTmp \/ \E new \in Content : statusTmp' = [statusTmp EXCEPT ![p] = new]
      BY <1>0, <1>11, <2>1 DEF Declares, WritesAside, Says
    <3> QED
      BY <3>1 DEF ReportTyped, Files
  <2>3. /\ at' \in [Process -> Places] /\ \A q \in Process \ {p} : at'[q] = at[q]
        /\ faults' \in Nat /\ faults <= faults'
    <3>1. /\ faults' = faults \/ faults' = faults + 1
          /\ \E place \in Places : Goes(p, place)
      BY <1>11 DEF Declares, WritesAside, Places
    <3> QED
      BY <3>1 DEF ReportTyped
  <2> QED
    BY <1>11, <2>2, <2>3 DEF Declares, ReportTyped
<1>12. CASE DeclareRenames(p)
  <2>1. /\ status' \in Files /\ statusTmp' \in Files
        /\ \A q \in Process \ {p} : status'[q] = status[q] /\ statusTmp'[q] = statusTmp[q]
        /\ faults' \in Nat /\ faults <= faults'
    BY <1>0, <1>12 DEF DeclareRenames, RenamesStatus, ReportTyped, Files
  <2> QED
    BY <1>12, <2>1 DEF DeclareRenames, ReportTyped, Places
<1>13. CASE Declared(p)
  BY <1>13 DEF Declared, ReportTyped, Places
<1>14. CASE OpensTable(p)
  BY <1>14 DEF OpensTable, ReportTyped, Places
<1>15. CASE WritesRows(p)
  BY <1>15 DEF WritesRows, ReportTyped, Places
<1>16. CASE ClosesTable(p)
  BY <1>16 DEF ClosesTable, ReportTyped, Places
<1>17. CASE Leaves(p)
  BY <1>17 DEF Leaves, ReportTyped, Places
<1>18. CASE DeclaresFailure(p)
  <2>1. statusTmp' \in Files /\ \A q \in Process \ {p} : statusTmp'[q] = statusTmp[q]
    <3>1. statusTmp' = statusTmp \/ \E new \in Content : statusTmp' = [statusTmp EXCEPT ![p] = new]
      BY <1>0, <1>18 DEF DeclaresFailure, WritesAside, Says
    <3> QED
      BY <3>1 DEF ReportTyped, Files
  <2>2. /\ at' \in [Process -> Places] /\ \A q \in Process \ {p} : at'[q] = at[q]
        /\ faults' \in Nat /\ faults <= faults'
    <3>1. /\ faults' = faults \/ faults' = faults + 1
          /\ \E place \in Places : Goes(p, place)
      BY <1>18 DEF DeclaresFailure, WritesAside, Places
    <3> QED
      BY <3>1 DEF ReportTyped
  <2> QED
    BY <1>18, <2>1, <2>2 DEF DeclaresFailure, ReportTyped
<1>19. CASE FailureRenames(p)
  <2>1. /\ status' \in Files /\ statusTmp' \in Files
        /\ \A q \in Process \ {p} : status'[q] = status[q] /\ statusTmp'[q] = statusTmp[q]
        /\ faults' \in Nat /\ faults <= faults'
    BY <1>0, <1>19 DEF FailureRenames, RenamesStatus, ReportTyped, Files
  <2> QED
    BY <1>19, <2>1 DEF FailureRenames, ReportTyped, Places
<1>20. CASE ReportsFailure(p)
  <2>1. resultPart' \in Files /\ \A q \in Process \ {p} : resultPart'[q] = resultPart[q]
    <3>1. resultPart' = resultPart \/ \E new \in Content : resultPart' = [resultPart EXCEPT ![p] = new]
      BY <1>0, <1>20 DEF ReportsFailure, WritesAside, Says
    <3> QED
      BY <3>1 DEF ReportTyped, Files
  <2>2. /\ at' \in [Process -> Places] /\ \A q \in Process \ {p} : at'[q] = at[q]
        /\ faults' \in Nat /\ faults <= faults'
    <3>1. /\ faults' = faults \/ faults' = faults + 1
          /\ \E place \in Places : Goes(p, place)
      BY <1>20 DEF ReportsFailure, WritesAside, Places
    <3> QED
      BY <3>1 DEF ReportTyped
  <2> QED
    BY <1>20, <2>1, <2>2 DEF ReportsFailure, ReportTyped
<1>21. CASE FailurePublishes(p)
  <2>1. resultPart[p].says \in Says
    BY <1>21 DEF FailurePublishes, Sound, Onward, Showing, Says
  <2>2. /\ result' \in Files /\ resultPart' \in Files /\ shown' \in [Process -> SUBSET Says]
        /\ \A q \in Process \ {p} : /\ result'[q] = result[q] /\ resultPart'[q] = resultPart[q]
                                    /\ shown'[q] = shown[q]
        /\ faults' \in Nat /\ faults <= faults'
    BY <1>0, <1>21, <2>1 DEF FailurePublishes, RenamesResult, ReportTyped, Files
  <2> QED
    BY <1>21, <2>2 DEF FailurePublishes, ReportTyped, Places
<1>22. CASE LeavesFailed(p)
  BY <1>22 DEF LeavesFailed, ReportTyped, Places
<1>23. CASE Ticks(p)
  <2>1. statusTmp' \in Files /\ \A q \in Process \ {p} : statusTmp'[q] = statusTmp[q]
    <3>1. statusTmp' = statusTmp \/ \E new \in Content : statusTmp' = [statusTmp EXCEPT ![p] = new]
      BY <1>0, <1>23 DEF Ticks, WritesAside, Says
    <3> QED
      BY <3>1 DEF ReportTyped, Files
  <2>2. /\ at' \in [Process -> Places] /\ \A q \in Process \ {p} : at'[q] = at[q]
        /\ faults' \in Nat /\ faults <= faults'
    <3>1. /\ faults' = faults \/ faults' = faults + 1
          /\ \E place \in Places : Goes(p, place)
      BY <1>23 DEF Ticks, WritesAside, Places
    <3> QED
      BY <3>1 DEF ReportTyped
  <2> QED
    BY <1>23, <2>1, <2>2 DEF Ticks, ReportTyped
<1>24. CASE Killed(p)
  BY <1>24 DEF Killed, ReportTyped, Places
<1>25. CASE Sigterm(p)
  BY <1>25 DEF Sigterm, ReportTyped, Places
<1> QED
  BY <1>1, <1>h, <1>2, <1>3, <1>4, <1>5, <1>6, <1>7, <1>8, <1>9, <1>10, <1>11, <1>12, <1>13, <1>14, <1>15, <1>16, <1>17, <1>18, <1>19, <1>20, <1>21, <1>22, <1>23, <1>24, <1>25 DEF Proceeds

\* The options and the start are those of the launch.
LEMMA OptionsStay ==
    ASSUME NEW p \in Process, Proceeds(p) \/ Ticks(p) \/ Killed(p) \/ Sigterm(p)
    PROVE  /\ UNCHANGED <<opts, start>>
           /\ \A says, w : Written(p, says, w)' = Written(p, says, w)
<1>1. UNCHANGED <<opts, start>>
  BY DEF Proceeds, BadOptions, ShowsHelp, Parses, Configures, WritesSynthetic, Throws, TickRenames,
     Aborts, Finishes, WritesResult, Publishes, Declares, DeclareRenames, Declared,
     OpensTable, WritesRows, ClosesTable, Leaves, DeclaresFailure, FailureRenames,
     ReportsFailure, FailurePublishes, LeavesFailed, Ticks, Killed, Sigterm
<1> QED
  BY <1>1 DEF Written

\* A process's own step keeps what is owed of its reports.
LEMMA OwnSound ==
    ASSUME ReportTyped, NEW p \in Process, Sound(p),
           Proceeds(p) \/ Ticks(p) \/ Killed(p) \/ Sigterm(p)
    PROVE  Sound(p)'
<1> USE DEF reports, Goes, Exits, Works, Breaks, StatusMiss, ResultMiss, TmpMiss, PartMiss,
            Good, Paid
<1>0. /\ \A says \in Says : \A w \in BOOLEAN : NoFile # Told(start[p], says, w)
      /\ \A n, says : /\ Told(n, says, TRUE).whole
                      /\ Told(n, says, TRUE).says = says /\ Told(n, says, FALSE).says = says
      /\ start'[p] = start[p] /\ opts'[p] = opts[p]
  BY Contents, OwnSteps, OptionsStay DEF ReportTyped, Written, Told
<1>a. /\ Broke => Broke'
      /\ BrokeTwice => BrokeTwice'
      /\ faults' = faults + 1 => Broke' /\ (Broke => BrokeTwice')
  BY OwnSteps DEF ReportTyped, Broke, BrokeTwice
<1>1. CASE BadOptions(p)
  <2>1. Owed(p)'
    BY <1>0, <1>a, <1>1 DEF BadOptions, ReportTyped, Sound, Owed, OwedOnward, OwedFailed, OwedAfter, Onward
  <2>2. Onward(p)'
    BY <1>0, <1>a, <1>1 DEF BadOptions, ReportTyped, Sound, Onward
  <2>3. Showing(p)'
    BY <1>0, <1>a, <1>1 DEF BadOptions, ReportTyped, Sound, Onward, Showing, Says
  <2>4. Whole(p)'
    BY <1>0, <1>a, <1>1 DEF BadOptions, ReportTyped, Sound, Onward, Whole, Torn, Says
  <2> QED
    BY <2>1, <2>2, <2>3, <2>4 DEF Sound
<1>h. CASE ShowsHelp(p)
  <2>1. Owed(p)'
    BY <1>0, <1>a, <1>h DEF ShowsHelp, ReportTyped, Sound, Owed, OwedOnward, OwedFailed, OwedAfter, Onward
  <2>2. Onward(p)'
    BY <1>0, <1>a, <1>h DEF ShowsHelp, ReportTyped, Sound, Onward
  <2>3. Showing(p)'
    BY <1>0, <1>a, <1>h DEF ShowsHelp, ReportTyped, Sound, Onward, Showing, Says
  <2>4. Whole(p)'
    BY <1>0, <1>a, <1>h DEF ShowsHelp, ReportTyped, Sound, Onward, Whole, Torn, Says
  <2> QED
    BY <2>1, <2>2, <2>3, <2>4 DEF Sound
<1>2. CASE Parses(p)
  <2>1. Owed(p)'
    BY <1>0, <1>a, <1>2 DEF Parses, ReportTyped, Sound, Owed, OwedOnward, OwedFailed, OwedAfter, Onward
  <2>2. Onward(p)'
    BY <1>0, <1>a, <1>2 DEF Parses, ReportTyped, Sound, Onward
  <2>3. Showing(p)'
    BY <1>0, <1>a, <1>2 DEF Parses, ReportTyped, Sound, Onward, Showing, Says
  <2>4. Whole(p)'
    BY <1>0, <1>a, <1>2 DEF Parses, ReportTyped, Sound, Onward, Whole, Torn, Says
  <2> QED
    BY <2>1, <2>2, <2>3, <2>4 DEF Sound
<1>3. CASE Configures(p)
  <2>1. Owed(p)'
    BY <1>0, <1>a, <1>3 DEF Configures, ReportTyped, Sound, Owed, OwedOnward, OwedFailed, OwedAfter, Onward
  <2>2. Onward(p)'
    BY <1>0, <1>a, <1>3 DEF Configures, ReportTyped, Sound, Onward
  <2>3. Showing(p)'
    BY <1>0, <1>a, <1>3 DEF Configures, ReportTyped, Sound, Onward, Showing, Says
  <2>4. Whole(p)'
    BY <1>0, <1>a, <1>3 DEF Configures, ReportTyped, Sound, Onward, Whole, Torn, Says
  <2> QED
    BY <2>1, <2>2, <2>3, <2>4 DEF Sound
<1>4. CASE WritesSynthetic(p)
  <2>1. Owed(p)'
    BY <1>0, <1>a, <1>4 DEF WritesSynthetic, ReportTyped, Sound, Owed, OwedOnward, OwedFailed, OwedAfter, Onward
  <2>2. Onward(p)'
    BY <1>0, <1>a, <1>4 DEF WritesSynthetic, ReportTyped, Sound, Onward
  <2>3. Showing(p)'
    BY <1>0, <1>a, <1>4 DEF WritesSynthetic, ReportTyped, Sound, Onward, Showing, Says
  <2>4. Whole(p)'
    BY <1>0, <1>a, <1>4 DEF WritesSynthetic, ReportTyped, Sound, Onward, Whole, Torn, Says
  <2> QED
    BY <2>1, <2>2, <2>3, <2>4 DEF Sound
<1>5. CASE Throws(p)
  <2>1. Owed(p)'
    BY <1>0, <1>a, <1>5 DEF Throws, ReportTyped, Sound, Owed, OwedOnward, OwedFailed, OwedAfter, Onward
  <2>2. Onward(p)'
    BY <1>0, <1>a, <1>5 DEF Throws, ReportTyped, Sound, Onward
  <2>3. Showing(p)'
    BY <1>0, <1>a, <1>5 DEF Throws, ReportTyped, Sound, Onward, Showing, Says
  <2>4. Whole(p)'
    BY <1>0, <1>a, <1>5 DEF Throws, ReportTyped, Sound, Onward, Whole, Torn, Says
  <2> QED
    BY <2>1, <2>2, <2>3, <2>4 DEF Sound
<1>6. CASE TickRenames(p)
  <2>0. /\ at[p] = "tick"
        /\ \/ at'[p] = "fit" /\ verdict'[p] = verdict[p]
           \/ at'[p] = "result" /\ verdict'[p] = "aborted"
        /\ resultPart'[p] = resultPart[p] /\ result'[p] = result[p]
        /\ code'[p] = code[p] /\ shown'[p] = shown[p]
        /\ \/ status'[p] = statusTmp[p] /\ statusTmp'[p] = NoFile
           \/ Broke' /\ (Broke => BrokeTwice') /\ status'[p] = status[p] /\ statusTmp'[p] = statusTmp[p]
    BY <1>a, <1>6 DEF TickRenames, RenamesStatus, ReportTyped, Files
  <2>1. Owed(p)'
    BY <1>0, <1>a, <2>0 DEF Sound, Owed, OwedOnward, OwedFailed, OwedAfter, Onward
  <2>2. Onward(p)'
    BY <1>0, <1>a, <2>0 DEF Sound, Onward
  <2>3. Showing(p)'
    BY <1>0, <1>a, <2>0 DEF Sound, Onward, Showing, Says
  <2>4. Whole(p)'
    BY <1>0, <1>a, <2>0 DEF Sound, Onward, Whole, Torn, Says
  <2> QED
    BY <2>1, <2>2, <2>3, <2>4 DEF Sound
<1>7. CASE Aborts(p)
  <2>1. Owed(p)'
    BY <1>0, <1>a, <1>7 DEF Aborts, ReportTyped, Sound, Owed, OwedOnward, OwedFailed, OwedAfter, Onward
  <2>2. Onward(p)'
    BY <1>0, <1>a, <1>7 DEF Aborts, ReportTyped, Sound, Onward
  <2>3. Showing(p)'
    BY <1>0, <1>a, <1>7 DEF Aborts, ReportTyped, Sound, Onward, Showing, Says
  <2>4. Whole(p)'
    BY <1>0, <1>a, <1>7 DEF Aborts, ReportTyped, Sound, Onward, Whole, Torn, Says
  <2> QED
    BY <2>1, <2>2, <2>3, <2>4 DEF Sound
<1>8. CASE Finishes(p)
  <2>1. Owed(p)'
    BY <1>0, <1>a, <1>8 DEF Finishes, ReportTyped, Sound, Owed, OwedOnward, OwedFailed, OwedAfter, Onward
  <2>2. Onward(p)'
    BY <1>0, <1>a, <1>8 DEF Finishes, ReportTyped, Sound, Onward
  <2>3. Showing(p)'
    BY <1>0, <1>a, <1>8 DEF Finishes, ReportTyped, Sound, Onward, Showing, Says
  <2>4. Whole(p)'
    BY <1>0, <1>a, <1>8 DEF Finishes, ReportTyped, Sound, Onward, Whole, Torn, Says
  <2> QED
    BY <2>1, <2>2, <2>3, <2>4 DEF Sound
<1>9. CASE WritesResult(p)
  <2>0. /\ at[p] = "result"
        /\ status'[p] = status[p] /\ result'[p] = result[p] /\ statusTmp'[p] = statusTmp[p]
        /\ verdict'[p] = verdict[p] /\ code'[p] = code[p] /\ shown'[p] = shown[p]
        /\ \/ /\ opts[p].result
              /\ \/ /\ resultPart'[p] = Told(start[p], verdict[p], TRUE)
                    /\ at'[p] = "publish"
                 \/ /\ Broke' /\ (Broke => BrokeTwice') /\ resultPart'[p] = Told(start[p], verdict[p], FALSE)
                    /\ at'[p] = "publish"
                 \/ /\ Broke' /\ (Broke => BrokeTwice') /\ resultPart'[p] = resultPart[p]
                    /\ at'[p] = "caught"
           \/ ~opts[p].result /\ resultPart'[p] = resultPart[p] /\ at'[p] = "verdict"
    BY <1>a, <1>9 DEF WritesResult, WritesAside, Written, Told, ReportTyped, Files
  <2>1. Owed(p)'
    BY <1>0, <1>a, <2>0 DEF Sound, Owed, OwedOnward, OwedFailed, OwedAfter, Onward
  <2>2. Onward(p)'
    BY <1>0, <1>a, <2>0 DEF Sound, Onward
  <2>3. Showing(p)'
    <3>0. Told(start[p], verdict[p], TRUE).says = verdict[p] /\ Told(start[p], verdict[p], FALSE).says = verdict[p]
      BY <1>0
    <3>1. at'[p] = "publish" => resultPart'[p].says = verdict[p]
      BY <2>0, <3>0
    <3>2. Showing(p) /\ Onward(p)
      BY DEF Sound
    <3> QED
      BY <1>a, <2>0, <3>1, <3>2 DEF Onward, Showing, Says
  <2>4. Whole(p)'
    <3>1. Torn(resultPart, p)' => Torn(resultPart, p) \/ Broke'
      BY <1>0, <2>0 DEF Torn
    <3>2. Whole(p)
      BY DEF Sound
    <3> QED
      BY <1>a, <2>0, <3>1, <3>2 DEF Whole, Torn
  <2> QED
    BY <2>1, <2>2, <2>3, <2>4 DEF Sound
<1>10. CASE Publishes(p)
  <2>0. /\ at[p] = "publish"
        /\ statusTmp'[p] = statusTmp[p] /\ status'[p] = status[p]
        /\ code'[p] = code[p] /\ verdict'[p] = verdict[p]
        /\ \/ /\ result'[p] = resultPart[p] /\ resultPart'[p] = NoFile
              /\ shown'[p] = shown[p] \cup {resultPart[p].says} /\ at'[p] = "verdict"
           \/ /\ Broke' /\ (Broke => BrokeTwice') /\ result'[p] = result[p] /\ resultPart'[p] = resultPart[p]
              /\ shown'[p] = shown[p] /\ at'[p] = "caught"
    BY <1>a, <1>10 DEF Publishes, RenamesResult, ReportTyped, Files
  <2>1. Owed(p)'
    BY <1>0, <1>a, <2>0 DEF Sound, Owed, OwedOnward, OwedFailed, OwedAfter, Onward
  <2>2. Onward(p)'
    BY <1>0, <1>a, <2>0 DEF Sound, Onward
  <2>3. Showing(p)'
    BY <1>0, <1>a, <2>0 DEF Sound, Onward, Showing, Says
  <2>4. Whole(p)'
    BY <1>0, <1>a, <2>0 DEF Sound, Onward, Whole, Torn, Says
  <2> QED
    BY <2>1, <2>2, <2>3, <2>4 DEF Sound
<1>11. CASE Declares(p)
  <2>0. /\ at[p] = "verdict"
        /\ status'[p] = status[p] /\ result'[p] = result[p] /\ resultPart'[p] = resultPart[p]
        /\ verdict'[p] = verdict[p] /\ code'[p] = code[p] /\ shown'[p] = shown[p]
        /\ \/ /\ opts[p].status
              /\ \/ /\ statusTmp'[p] = Told(start[p], verdict[p], TRUE)
                    /\ at'[p] = "verdictmv"
                 \/ /\ Broke' /\ (Broke => BrokeTwice') /\ statusTmp'[p] = Told(start[p], verdict[p], FALSE)
                    /\ at'[p] = "verdictmv"
                 \/ /\ Broke' /\ (Broke => BrokeTwice') /\ statusTmp'[p] = statusTmp[p]
                    /\ at'[p] = "declared"
           \/ ~opts[p].status /\ statusTmp'[p] = statusTmp[p] /\ at'[p] = "declared"
    BY <1>a, <1>11 DEF Declares, WritesAside, Written, Told, ReportTyped, Files
  <2>1. Owed(p)'
    BY <1>0, <1>a, <2>0 DEF Sound, Owed, OwedOnward, OwedFailed, OwedAfter, Onward
  <2>2. Onward(p)'
    BY <1>0, <1>a, <2>0 DEF Sound, Onward
  <2>3. Showing(p)'
    BY <1>0, <1>a, <2>0 DEF Sound, Onward, Showing, Says
  <2>4. Whole(p)'
    <3>1. Torn(statusTmp, p)' => Torn(statusTmp, p) \/ Broke'
      BY <1>0, <2>0 DEF Torn
    <3>2. Whole(p)
      BY DEF Sound
    <3> QED
      BY <1>a, <2>0, <3>1, <3>2 DEF Whole, Torn
  <2> QED
    BY <2>1, <2>2, <2>3, <2>4 DEF Sound
<1>12. CASE DeclareRenames(p)
  <2>0. /\ at[p] = "verdictmv"
        /\ at'[p] = "declared" /\ verdict'[p] = verdict[p]
        /\ resultPart'[p] = resultPart[p] /\ result'[p] = result[p]
        /\ code'[p] = code[p] /\ shown'[p] = shown[p]
        /\ \/ status'[p] = statusTmp[p] /\ statusTmp'[p] = NoFile
           \/ Broke' /\ (Broke => BrokeTwice') /\ status'[p] = status[p] /\ statusTmp'[p] = statusTmp[p]
    BY <1>a, <1>12 DEF DeclareRenames, RenamesStatus, ReportTyped, Files
  <2>1. Owed(p)'
    BY <1>0, <1>a, <2>0 DEF Sound, Owed, OwedOnward, OwedFailed, OwedAfter, Onward
  <2>2. Onward(p)'
    BY <1>0, <1>a, <2>0 DEF Sound, Onward
  <2>3. Showing(p)'
    BY <1>0, <1>a, <2>0 DEF Sound, Onward, Showing, Says
  <2>4. Whole(p)'
    BY <1>0, <1>a, <2>0 DEF Sound, Onward, Whole, Torn, Says
  <2> QED
    BY <2>1, <2>2, <2>3, <2>4 DEF Sound
<1>13. CASE Declared(p)
  <2>0. /\ at[p] = "declared"
        /\ \/ verdict[p] = "aborted" /\ at'[p] = "gone" /\ code'[p] = "2"
           \/ verdict[p] # "aborted" /\ at'[p] = "table" /\ code'[p] = code[p]
        /\ verdict'[p] = verdict[p] /\ shown'[p] = shown[p]
        /\ statusTmp'[p] = statusTmp[p] /\ status'[p] = status[p] /\ resultPart'[p] = resultPart[p] /\ result'[p] = result[p]
    BY <1>a, <1>13 DEF Declared, ReportTyped
  <2>1. Owed(p)'
    BY <1>0, <1>a, <2>0 DEF Sound, Owed, OwedOnward, OwedFailed, OwedAfter, Onward
  <2>2. Onward(p)'
    BY <1>0, <1>a, <2>0 DEF Sound, Onward
  <2>3. Showing(p)'
    BY <1>0, <1>a, <2>0 DEF Sound, Onward, Showing, Says
  <2>4. Whole(p)'
    BY <1>0, <1>a, <2>0 DEF Sound, Onward, Whole, Torn, Says
  <2> QED
    BY <2>1, <2>2, <2>3, <2>4 DEF Sound
<1>14. CASE OpensTable(p)
  <2>1. Owed(p)'
    BY <1>0, <1>a, <1>14 DEF OpensTable, ReportTyped, Sound, Owed, OwedOnward, OwedFailed, OwedAfter, Onward
  <2>2. Onward(p)'
    BY <1>0, <1>a, <1>14 DEF OpensTable, ReportTyped, Sound, Onward
  <2>3. Showing(p)'
    BY <1>0, <1>a, <1>14 DEF OpensTable, ReportTyped, Sound, Onward, Showing, Says
  <2>4. Whole(p)'
    BY <1>0, <1>a, <1>14 DEF OpensTable, ReportTyped, Sound, Onward, Whole, Torn, Says
  <2> QED
    BY <2>1, <2>2, <2>3, <2>4 DEF Sound
<1>15. CASE WritesRows(p)
  <2>1. Owed(p)'
    BY <1>0, <1>a, <1>15 DEF WritesRows, ReportTyped, Sound, Owed, OwedOnward, OwedFailed, OwedAfter, Onward
  <2>2. Onward(p)'
    BY <1>0, <1>a, <1>15 DEF WritesRows, ReportTyped, Sound, Onward
  <2>3. Showing(p)'
    BY <1>0, <1>a, <1>15 DEF WritesRows, ReportTyped, Sound, Onward, Showing, Says
  <2>4. Whole(p)'
    BY <1>0, <1>a, <1>15 DEF WritesRows, ReportTyped, Sound, Onward, Whole, Torn, Says
  <2> QED
    BY <2>1, <2>2, <2>3, <2>4 DEF Sound
<1>16. CASE ClosesTable(p)
  <2>1. Owed(p)'
    BY <1>0, <1>a, <1>16 DEF ClosesTable, ReportTyped, Sound, Owed, OwedOnward, OwedFailed, OwedAfter, Onward
  <2>2. Onward(p)'
    BY <1>0, <1>a, <1>16 DEF ClosesTable, ReportTyped, Sound, Onward
  <2>3. Showing(p)'
    BY <1>0, <1>a, <1>16 DEF ClosesTable, ReportTyped, Sound, Onward, Showing, Says
  <2>4. Whole(p)'
    BY <1>0, <1>a, <1>16 DEF ClosesTable, ReportTyped, Sound, Onward, Whole, Torn, Says
  <2> QED
    BY <2>1, <2>2, <2>3, <2>4 DEF Sound
<1>17. CASE Leaves(p)
  <2>0. /\ at[p] = "dump"
        /\ \/ at'[p] = "gone" /\ code'[p] = "0"
           \/ Broke' /\ (Broke => BrokeTwice') /\ at'[p] = "caught" /\ code'[p] = code[p]
        /\ verdict'[p] = verdict[p] /\ shown'[p] = shown[p]
        /\ statusTmp'[p] = statusTmp[p] /\ status'[p] = status[p] /\ resultPart'[p] = resultPart[p] /\ result'[p] = result[p]
    BY <1>a, <1>17 DEF Leaves, ReportTyped
  <2>1. Owed(p)'
    BY <1>0, <1>a, <2>0 DEF Sound, Owed, OwedOnward, OwedFailed, OwedAfter, Onward
  <2>2. Onward(p)'
    BY <1>0, <1>a, <2>0 DEF Sound, Onward
  <2>3. Showing(p)'
    BY <1>0, <1>a, <2>0 DEF Sound, Onward, Showing, Says
  <2>4. Whole(p)'
    BY <1>0, <1>a, <2>0 DEF Sound, Onward, Whole, Torn, Says
  <2> QED
    BY <2>1, <2>2, <2>3, <2>4 DEF Sound
<1>18. CASE DeclaresFailure(p)
  <2>0. /\ at[p] = "caught"
        /\ status'[p] = status[p] /\ result'[p] = result[p] /\ resultPart'[p] = resultPart[p]
        /\ verdict'[p] = verdict[p] /\ code'[p] = code[p] /\ shown'[p] = shown[p]
        /\ \/ /\ opts[p].status
              /\ \/ /\ statusTmp'[p] = Told(start[p], "failed", TRUE)
                    /\ at'[p] = "caughtmv"
                 \/ /\ Broke' /\ (Broke => BrokeTwice') /\ statusTmp'[p] = Told(start[p], "failed", FALSE)
                    /\ at'[p] = "caughtmv"
                 \/ /\ Broke' /\ (Broke => BrokeTwice') /\ statusTmp'[p] = statusTmp[p]
                    /\ at'[p] = "report"
           \/ ~opts[p].status /\ statusTmp'[p] = statusTmp[p] /\ at'[p] = "report"
    BY <1>a, <1>18 DEF DeclaresFailure, WritesAside, Written, Told, ReportTyped, Files
  <2>1. Owed(p)'
    BY <1>0, <1>a, <2>0 DEF Sound, Owed, OwedOnward, OwedFailed, OwedAfter, Onward
  <2>2. Onward(p)'
    BY <1>0, <1>a, <2>0 DEF Sound, Onward
  <2>3. Showing(p)'
    BY <1>0, <1>a, <2>0 DEF Sound, Onward, Showing, Says
  <2>4. Whole(p)'
    <3>1. Torn(statusTmp, p)' => Torn(statusTmp, p) \/ Broke'
      BY <1>0, <2>0 DEF Torn
    <3>2. Whole(p)
      BY DEF Sound
    <3> QED
      BY <1>a, <2>0, <3>1, <3>2 DEF Whole, Torn
  <2> QED
    BY <2>1, <2>2, <2>3, <2>4 DEF Sound
<1>19. CASE FailureRenames(p)
  <2>0. /\ at[p] = "caughtmv"
        /\ at'[p] = "report" /\ verdict'[p] = verdict[p]
        /\ resultPart'[p] = resultPart[p] /\ result'[p] = result[p]
        /\ code'[p] = code[p] /\ shown'[p] = shown[p]
        /\ \/ status'[p] = statusTmp[p] /\ statusTmp'[p] = NoFile
           \/ Broke' /\ (Broke => BrokeTwice') /\ status'[p] = status[p] /\ statusTmp'[p] = statusTmp[p]
    BY <1>a, <1>19 DEF FailureRenames, RenamesStatus, ReportTyped, Files
  <2>1. Owed(p)'
    BY <1>0, <1>a, <2>0 DEF Sound, Owed, OwedOnward, OwedFailed, OwedAfter, Onward
  <2>2. Onward(p)'
    BY <1>0, <1>a, <2>0 DEF Sound, Onward
  <2>3. Showing(p)'
    BY <1>0, <1>a, <2>0 DEF Sound, Onward, Showing, Says
  <2>4. Whole(p)'
    BY <1>0, <1>a, <2>0 DEF Sound, Onward, Whole, Torn, Says
  <2> QED
    BY <2>1, <2>2, <2>3, <2>4 DEF Sound
<1>20. CASE ReportsFailure(p)
  <2>0. /\ at[p] = "report"
        /\ status'[p] = status[p] /\ result'[p] = result[p] /\ statusTmp'[p] = statusTmp[p]
        /\ verdict'[p] = verdict[p] /\ code'[p] = code[p] /\ shown'[p] = shown[p]
        /\ \/ /\ opts[p].result
              /\ \/ /\ resultPart'[p] = Told(start[p], "failed", TRUE)
                    /\ at'[p] = "reportmv"
                 \/ /\ Broke' /\ (Broke => BrokeTwice') /\ resultPart'[p] = Told(start[p], "failed", FALSE)
                    /\ at'[p] = "reportmv"
                 \/ /\ Broke' /\ (Broke => BrokeTwice') /\ resultPart'[p] = resultPart[p]
                    /\ at'[p] = "leaving"
           \/ ~opts[p].result /\ resultPart'[p] = resultPart[p] /\ at'[p] = "leaving"
    BY <1>a, <1>20 DEF ReportsFailure, WritesAside, Written, Told, ReportTyped, Files
  <2>1. Owed(p)'
    BY <1>0, <1>a, <2>0 DEF Sound, Owed, OwedOnward, OwedFailed, OwedAfter, Onward
  <2>2. Onward(p)'
    BY <1>0, <1>a, <2>0 DEF Sound, Onward
  <2>3. Showing(p)'
    <3>0. Told(start[p], "failed", TRUE).says = "failed" /\ Told(start[p], "failed", FALSE).says = "failed"
      BY <1>0
    <3>1. at'[p] = "reportmv" => resultPart'[p].says = "failed"
      BY <2>0, <3>0
    <3>2. Showing(p) /\ Onward(p)
      BY DEF Sound
    <3> QED
      BY <1>a, <2>0, <3>1, <3>2 DEF Onward, Showing, Says
  <2>4. Whole(p)'
    <3>1. Torn(resultPart, p)' => Torn(resultPart, p) \/ Broke'
      BY <1>0, <2>0 DEF Torn
    <3>2. Whole(p)
      BY DEF Sound
    <3> QED
      BY <1>a, <2>0, <3>1, <3>2 DEF Whole, Torn
  <2> QED
    BY <2>1, <2>2, <2>3, <2>4 DEF Sound
<1>21. CASE FailurePublishes(p)
  <2>0. /\ at[p] = "reportmv"
        /\ statusTmp'[p] = statusTmp[p] /\ status'[p] = status[p]
        /\ code'[p] = code[p] /\ verdict'[p] = verdict[p]
        /\ \/ /\ result'[p] = resultPart[p] /\ resultPart'[p] = NoFile
              /\ shown'[p] = shown[p] \cup {resultPart[p].says} /\ at'[p] = "leaving"
           \/ /\ Broke' /\ (Broke => BrokeTwice') /\ result'[p] = result[p] /\ resultPart'[p] = resultPart[p]
              /\ shown'[p] = shown[p] /\ at'[p] = "leaving"
    BY <1>a, <1>21 DEF FailurePublishes, RenamesResult, ReportTyped, Files
  <2>1. Owed(p)'
    BY <1>0, <1>a, <2>0 DEF Sound, Owed, OwedOnward, OwedFailed, OwedAfter, Onward
  <2>2. Onward(p)'
    BY <1>0, <1>a, <2>0 DEF Sound, Onward
  <2>3. Showing(p)'
    BY <1>0, <1>a, <2>0 DEF Sound, Onward, Showing, Says
  <2>4. Whole(p)'
    BY <1>0, <1>a, <2>0 DEF Sound, Onward, Whole, Torn, Says
  <2> QED
    BY <2>1, <2>2, <2>3, <2>4 DEF Sound
<1>22. CASE LeavesFailed(p)
  <2>1. Owed(p)'
    BY <1>0, <1>a, <1>22 DEF LeavesFailed, ReportTyped, Sound, Owed, OwedOnward, OwedFailed, OwedAfter, Onward
  <2>2. Onward(p)'
    BY <1>0, <1>a, <1>22 DEF LeavesFailed, ReportTyped, Sound, Onward
  <2>3. Showing(p)'
    BY <1>0, <1>a, <1>22 DEF LeavesFailed, ReportTyped, Sound, Onward, Showing, Says
  <2>4. Whole(p)'
    BY <1>0, <1>a, <1>22 DEF LeavesFailed, ReportTyped, Sound, Onward, Whole, Torn, Says
  <2> QED
    BY <2>1, <2>2, <2>3, <2>4 DEF Sound
<1>23. CASE Ticks(p)
  <2>0. /\ at[p] = "fit"
        /\ status'[p] = status[p] /\ result'[p] = result[p] /\ resultPart'[p] = resultPart[p]
        /\ verdict'[p] = verdict[p] /\ code'[p] = code[p] /\ shown'[p] = shown[p]
        /\ \/ /\ opts[p].status
              /\ \/ /\ statusTmp'[p] = Told(start[p], "running", TRUE)
                    /\ at'[p] = "tick"
                 \/ /\ Broke' /\ (Broke => BrokeTwice') /\ statusTmp'[p] = Told(start[p], "running", FALSE)
                    /\ at'[p] = "tick"
                 \/ /\ Broke' /\ (Broke => BrokeTwice') /\ statusTmp'[p] = statusTmp[p]
                    /\ at'[p] = "fit"
    BY <1>a, <1>23 DEF Ticks, WritesAside, Written, Told, ReportTyped, Files
  <2>1. Owed(p)'
    BY <1>0, <1>a, <2>0 DEF Sound, Owed, OwedOnward, OwedFailed, OwedAfter, Onward
  <2>2. Onward(p)'
    BY <1>0, <1>a, <2>0 DEF Sound, Onward
  <2>3. Showing(p)'
    BY <1>0, <1>a, <2>0 DEF Sound, Onward, Showing, Says
  <2>4. Whole(p)'
    <3>1. Torn(statusTmp, p)' => Torn(statusTmp, p) \/ Broke'
      BY <1>0, <2>0 DEF Torn
    <3>2. Whole(p)
      BY DEF Sound
    <3> QED
      BY <1>a, <2>0, <3>1, <3>2 DEF Whole, Torn
  <2> QED
    BY <2>1, <2>2, <2>3, <2>4 DEF Sound
<1>24. CASE Killed(p)
  <2>1. Owed(p)'
    BY <1>0, <1>a, <1>24 DEF Killed, ReportTyped, Sound, Owed, OwedOnward, OwedFailed, OwedAfter, Onward
  <2>2. Onward(p)'
    BY <1>0, <1>a, <1>24 DEF Killed, ReportTyped, Sound, Onward
  <2>3. Showing(p)'
    BY <1>0, <1>a, <1>24 DEF Killed, ReportTyped, Sound, Onward, Showing, Says
  <2>4. Whole(p)'
    BY <1>0, <1>a, <1>24 DEF Killed, ReportTyped, Sound, Onward, Whole, Torn, Says
  <2> QED
    BY <2>1, <2>2, <2>3, <2>4 DEF Sound
<1>25. CASE Sigterm(p)
  <2>0. /\ at'[p] = at[p] /\ verdict'[p] = verdict[p] /\ code'[p] = code[p] /\ shown'[p] = shown[p]
        /\ statusTmp'[p] = statusTmp[p] /\ status'[p] = status[p] /\ resultPart'[p] = resultPart[p] /\ result'[p] = result[p]
    BY <1>25 DEF Sigterm
  <2>1. Owed(p)'
    <3>1. Owed(p)
      BY DEF Sound
    <3>2. OwedOnward(p)'
      BY <1>0, <1>a, <2>0, <3>1 DEF Owed, OwedOnward
    <3>3. OwedFailed(p)'
      BY <1>0, <1>a, <2>0, <3>1 DEF Owed, OwedFailed
    <3>4. OwedAfter(p)'
      BY <1>0, <1>a, <2>0, <3>1 DEF Owed, OwedAfter
    <3> QED
      BY <3>2, <3>3, <3>4 DEF Owed
  <2>2. Onward(p)'
    BY <1>0, <1>a, <2>0 DEF Sound, Onward
  <2>3. Showing(p)'
    BY <1>0, <1>a, <2>0 DEF Sound, Onward, Showing, Says
  <2>4. Whole(p)'
    BY <1>0, <1>a, <2>0 DEF Sound, Onward, Whole, Torn, Says
  <2> QED
    BY <2>1, <2>2, <2>3, <2>4 DEF Sound
<1> QED
  BY <1>1, <1>h, <1>2, <1>3, <1>4, <1>5, <1>6, <1>7, <1>8, <1>9, <1>10, <1>11, <1>12, <1>13,
     <1>14, <1>15, <1>16, <1>17, <1>18, <1>19, <1>20, <1>21, <1>22, <1>23, <1>24, <1>25
     DEF Proceeds

-----------------------------------------------------------------------------
(* A monitor that only reads the reports.                                  *)

\* A start owes nothing yet.
LEMMA LaunchKeeps ==
    ASSUME Inv, NEW p, NEW o \in OptionType, Launches(p, o)
    PROVE  Inv'
<1> USE DEF Goes
<1>1. ReportTyped'
  <2>1. /\ opts' \in [Process -> OptionType] /\ at' \in [Process -> Places]
        /\ term' \in [Process -> BOOLEAN]
    BY DEF Launches, Inv, ReportTyped, Places
  <2>2. start' \in [Process -> 0..MaxStarts]
    <3>1. CASE p \in Process
      <4>1. start[p] \in Nat /\ start[p] + 1 \in 0..MaxStarts
        BY <3>1, ReportAssumption DEF Launches, Inv, ReportTyped
      <4> QED
        BY <4>1 DEF Launches, Inv, ReportTyped
    <3>2. CASE p \notin Process
      BY <3>2 DEF Launches, Inv, ReportTyped
    <3> QED
      BY <3>1, <3>2
  <2>3. /\ verdict' \in [Process -> {"none", "done", "aborted"}]
        /\ code' \in [Process -> {"none", "0", "1", "2", "killed"}]
    BY DEF Launches, Inv, ReportTyped
  <2>4. shown' \in [Process -> SUBSET Says]
    BY DEF Launches, Inv, ReportTyped
  <2> QED
    BY <2>1, <2>2, <2>3, <2>4 DEF Launches, Inv, ReportTyped, Files
<1>2. ASSUME NEW q \in Process, q # p PROVE Sound(q)'
  <2>1. UNCHANGED own(q) /\ faults' = faults /\ faults \in Nat /\ Sound(q)
    BY <1>2 DEF Launches, own, Inv, ReportTyped
  <2> QED
    BY <2>1, OthersKeep
<1>3. ASSUME p \in Process PROVE Sound(p)'
  <2>1. /\ at'[p] = "options" /\ shown'[p] = {} /\ code'[p] = "none"
        /\ statusTmp' = statusTmp /\ status' = status
        /\ resultPart' = resultPart /\ result' = result /\ faults' = faults
    BY <1>3 DEF Launches, Inv, ReportTyped
  <2>2. Whole(p)
    BY <1>3 DEF Inv, Sound
  <2>3. Owed(p)' /\ Onward(p)' /\ Showing(p)'
    BY <2>1 DEF Owed, OwedOnward, OwedFailed, OwedAfter, Onward, Showing, Says
  <2>4. Whole(p)'
    BY <2>1, <2>2 DEF Whole, Torn, Broke
  <2> QED
    BY <2>3, <2>4 DEF Sound
<1> QED
  BY <1>1, <1>2, <1>3 DEF Inv

\* Before a start there is nothing to owe.
LEMMA InvInitially == Init => Inv
<1> SUFFICES ASSUME Init PROVE Inv
  OBVIOUS
<1> USE DEF Init, ReportInit
<1>1. ReportTyped
  BY ReportAssumption DEF ReportTyped, OptionType, Quiet, Places, Files, Content, Says
<1>2. ASSUME NEW p \in Process PROVE Sound(p)
  <2>1. /\ at[p] = "none" /\ shown[p] = {} /\ code[p] = "none"
        /\ statusTmp[p] = NoFile /\ status[p] = NoFile /\ resultPart[p] = NoFile /\ result[p] = NoFile
    BY <1>2
  <2> QED
    BY <2>1 DEF Sound, Owed, OwedOnward, OwedFailed, OwedAfter, Onward, Showing, Says, Whole, Torn
<1> QED
  BY <1>1, <1>2 DEF Inv

\* Runners only start processes, and lose some.
LEMMA InvKept == Inv /\ [Next]_vars => Inv'
<1> SUFFICES ASSUME Inv, [Next]_vars PROVE Inv'
  OBVIOUS
<1>0. Quiet \in OptionType
  BY DEF Quiet, OptionType
<1>1. ASSUME UNCHANGED <<opts, at, start, term, verdict, code, reports>>,
             faults' \in Nat, faults <= faults'
      PROVE  Inv'
  <2>1. ReportTyped'
    BY <1>1 DEF Inv, ReportTyped, reports
  <2>2. ASSUME NEW q \in Process PROVE Sound(q)'
    <3>1. UNCHANGED own(q) /\ Sound(q) /\ faults \in Nat
      BY <1>1, <2>2 DEF own, reports, Inv, ReportTyped
    <3> QED
      BY <1>1, <3>1, OthersKeep
  <2> QED
    BY <2>1, <2>2 DEF Inv
<1>2. ASSUME NEW p \in Process, Proceeds(p) \/ Ticks(p) \/ Killed(p) \/ Sigterm(p)
      PROVE  Inv'
  <2>1. ReportTyped /\ Sound(p) /\ faults \in Nat
    BY <1>2 DEF Inv, ReportTyped
  <2>2. /\ ReportTyped' /\ faults <= faults'
        /\ \A q \in Process \ {p} : UNCHANGED own(q)
    BY <1>2, <2>1, OwnSteps
  <2>3. Sound(p)'
    BY <1>2, <2>1, OwnSound
  <2>4. ASSUME NEW q \in Process \ {p} PROVE Sound(q)'
    <3>1. Sound(q) /\ UNCHANGED own(q) /\ faults' \in Nat
      BY <2>2, <2>4 DEF Inv, ReportTyped
    <3> QED
      BY <2>1, <2>2, <3>1, OthersKeep
  <2> QED
    BY <2>2, <2>3, <2>4 DEF Inv
<1>3. CASE UNCHANGED vars
  <2>1. UNCHANGED <<opts, at, start, term, verdict, code, reports>> /\ UNCHANGED faults
    BY <1>3 DEF vars, rvars
  <2> QED
    BY <1>1, <2>1 DEF Inv, ReportTyped
<1>4. ASSUME NEW r \in Runner, Batch(r) \/ Dies(r) \/ \E f \in Folder : Loses(r, f)
      PROVE  Inv'
  <2>1. CASE Filters(r) \/ Returns(r) \/ \E f \in Folder : Takes(r, f) \/ Ends(r, f)
    <3>1. UNCHANGED <<opts, at, start, term, verdict, code, reports>> /\ UNCHANGED faults
      BY <2>1 DEF Filters, Returns, Takes, Ends, rvars
    <3> QED
      BY <1>1, <3>1 DEF Inv, ReportTyped
  <2>2. CASE \E f \in Folder : Spawns(r, f)
    BY <1>0, <2>2, LaunchKeeps DEF Spawns
  <2>3. CASE \E f \in Folder : Loses(r, f)
    <3>1. /\ UNCHANGED <<opts, at, start, term, verdict, code, reports>>
          /\ faults' = faults + 1
      BY <2>3 DEF Loses, Breaks
    <3> QED
      BY <1>1, <3>1 DEF Inv, ReportTyped
  <2>4. CASE Dies(r)
    <3>1. UNCHANGED <<opts, at, start, term, verdict, code, reports>> /\ UNCHANGED faults
      BY <2>4 DEF Dies
    <3> QED
      BY <1>1, <3>1 DEF Inv, ReportTyped
  <2> QED
    BY <1>4, <2>1, <2>2, <2>3, <2>4 DEF Batch
<1>5. ASSUME NEW p \in Process, ByHand(p) PROVE Inv'
  BY <1>5, LaunchKeeps, BatchAssumption DEF ByHand
<1>6. ASSUME NEW p \in Process, Gael(p) \/ World(p) PROVE Inv'
  BY <1>2, <1>6 DEF Gael, World
<1> QED
  BY <1>3, <1>4, <1>5, <1>6 DEF Next

\* What the reports owe is what Reported counts.
LEMMA InvTells == Inv => Reported
<1> SUFFICES ASSUME Inv PROVE Reported
  OBVIOUS
<1>0. /\ Cardinality({}) = 0 /\ Cardinality({"status"}) = 1 /\ Cardinality({"result"}) = 1
      /\ Cardinality({"status", "result"}) = 2
  <2>1. /\ Cardinality({}) = 0 /\ IsFiniteSet({"status"})
        /\ Cardinality({"status"}) = 1 /\ Cardinality({"result"}) = 1
    BY FS_EmptySet, FS_Singleton
  <2>2. {"status"} \cup {"result"} = {"status", "result"} /\ "result" \notin {"status"}
    OBVIOUS
  <2> QED
    BY <2>1, <2>2, FS_AddElement
<1>1. ASSUME NEW p \in Process, code[p] \in {"0", "1", "2"}, ~opts[p].bad, ~opts[p].asks,
             ~(opts[p].synthetic /\ code[p] = "0")
      PROVE  Cardinality(Lies(p)) <= faults
  <2> DEFINE said == Outcome[code[p]]
  <2>1. Owed(p) /\ Onward(p) /\ faults \in Nat /\ start[p] \in 0..MaxStarts
    BY <1>1 DEF Inv, Sound, ReportTyped
  <2>2. said \in Says /\ Paid(StatusMiss(p, said), ResultMiss(p, said))
    <3>1. at[p] = "gone"
      BY <1>1, <2>1 DEF Onward
    <3>2. CASE code[p] = "0"
      BY <1>1, <2>1, <3>1, <3>2 DEF Owed, OwedAfter, Outcome, Says
    <3>3. CASE code[p] = "1"
      BY <1>1, <2>1, <3>1, <3>3 DEF Owed, OwedAfter, Outcome, Says
    <3>4. CASE code[p] = "2"
      BY <1>1, <2>1, <3>1, <3>4 DEF Owed, OwedAfter, Outcome, Says
    <3> QED
      BY <1>1, <3>2, <3>3, <3>4
  <2>3. Told(start[p], said, TRUE) = Written(p, said, TRUE) /\ Told(start[p], said, TRUE) # NoFile
    BY <1>1, <2>2, Contents DEF Inv, Told, Written
  <2>4. /\ Tells(status, p) <=> status[p] = Told(start[p], said, TRUE)
        /\ Tells(result, p) <=> result[p] = Told(start[p], said, TRUE)
    BY <2>3 DEF Tells
  <2>5. /\ (opts[p].status /\ ~Tells(status, p)) \/ (opts[p].result /\ ~Tells(result, p)) => Broke
        /\ (opts[p].status /\ ~Tells(status, p)) /\ (opts[p].result /\ ~Tells(result, p)) => BrokeTwice
    BY <2>2, <2>4 DEF Paid, StatusMiss, ResultMiss, Good
  <2> HIDE DEF said
  <2>6. CASE (opts[p].status /\ ~Tells(status, p)) /\ (opts[p].result /\ ~Tells(result, p))
    <3>1. Lies(p) = {"status", "result"}
      BY <2>6 DEF Lies
    <3> QED
      BY <1>0, <2>1, <2>5, <2>6, <3>1 DEF BrokeTwice
  <2>7. CASE (opts[p].status /\ ~Tells(status, p)) /\ ~(opts[p].result /\ ~Tells(result, p))
    <3>1. Lies(p) = {"status"}
      BY <2>7 DEF Lies
    <3> QED
      BY <1>0, <2>1, <2>5, <2>7, <3>1 DEF Broke
  <2>8. CASE ~(opts[p].status /\ ~Tells(status, p)) /\ (opts[p].result /\ ~Tells(result, p))
    <3>1. Lies(p) = {"result"}
      BY <2>8 DEF Lies
    <3> QED
      BY <1>0, <2>1, <2>5, <2>8, <3>1 DEF Broke
  <2>9. CASE ~(opts[p].status /\ ~Tells(status, p)) /\ ~(opts[p].result /\ ~Tells(result, p))
    <3>1. Lies(p) = {}
      BY <2>9 DEF Lies
    <3> QED
      BY <1>0, <2>1, <3>1
  <2> QED
    BY <2>6, <2>7, <2>8, <2>9
<1>2. ASSUME NEW p \in Process
      PROVE  /\ status[p] # NoFile /\ ~status[p].whole => faults > 0
             /\ result[p] # NoFile /\ ~result[p].whole => faults > 0
  <2>1. Whole(p) /\ faults \in Nat /\ (Broke => faults > 0)
    BY <1>2 DEF Inv, Sound, ReportTyped, Broke
  <2> QED
    BY <2>1 DEF Whole, Torn
<1>3. ASSUME NEW p \in Process
      PROVE  Cardinality(shown[p]) <= 1 \/ (shown[p] = {"done", "failed"} /\ faults > 0)
  <2>1. Showing(p) /\ (Broke => faults > 0)
    BY <1>3 DEF Inv, Sound, ReportTyped, Broke
  <2>2. ASSUME NEW says \in Says, shown[p] \subseteq {says} PROVE Cardinality(shown[p]) <= 1
    <3>1. shown[p] = {} \/ shown[p] = {says}
      BY <2>2
    <3> QED
      BY <1>0, <3>1, FS_Singleton
  <2> QED
    BY <2>1, <2>2 DEF Showing
<1>4. \A p \in Process : \A f \in {status, result} : f[p] # NoFile /\ ~f[p].whole => faults > 0
  <2> SUFFICES ASSUME NEW p \in Process, NEW f \in {status, result}
               PROVE  f[p] # NoFile /\ ~f[p].whole => faults > 0
    OBVIOUS
  <2>1. CASE f = status
    <3>1. f[p] = status[p]
      BY <2>1
    <3> QED
      BY <1>2, <3>1
  <2>2. CASE f = result
    <3>1. f[p] = result[p]
      BY <2>2
    <3> QED
      BY <1>2, <3>1
  <2> QED
    BY <2>1, <2>2
<1> QED
  BY <1>1, <1>3, <1>4 DEF Reported, OwesReports

\* Whatever fails or is killed whenever: of a start that went on from its command
\* line to the fit or to main's handler, a monitor that reads only the status file
\* and the result file sees the outcome the exit code gives, but for one report
\* per failing operation.  A report falls short only after a failing write, and
\* says a second thing only as "failed" over "done", after an operation failed.
THEOREM MonitorSeesOutcome == Spec => []Reported
<1>1. Init => Inv
  BY InvInitially
<1>2. Inv /\ [Next]_vars => Inv'
  BY InvKept
<1>3. Inv => Reported
  BY InvTells
<1> QED
  BY <1>1, <1>2, <1>3, PTL DEF Spec

-----------------------------------------------------------------------------
(* Tables.                                                                 *)

\* A runner may take folder f: it was forced to, or f had no table when it looked.
May(r, f) == r \in Forcing \/ ~found[r][f]

TablesTyped ==
    /\ at \in [Process -> Places]
    /\ csv \in [Folder -> Table]
    /\ job \in [Runner -> [Folder -> {"waiting"} \cup Busy \cup Answered]]
    /\ found \in [Runner -> [Folder -> BOOLEAN]]

\* A GAEL runs only where its runner has looked, and a table is a GAEL's that ran.
Looked(r, f) ==
    /\ job[r][f] = "starting" => May(r, f)
    /\ <<r, f>> \in Process =>
           /\ at[<<r, f>>] # "none" => May(r, f) /\ job[r][f] # "waiting"
           /\ csv[f].by = <<r, f>> => at[<<r, f>>] # "none"

TablesInv ==
    /\ TablesTyped
    /\ \A r \in Runner, f \in Folder : Looked(r, f)
    /\ \A f \in Folder : csv[f].rows = "all" => csv[f].by \in Process

\* How a process that was started changes its table.
Rewrites(p) ==
    /\ csv' \in [Folder -> Table]
    /\ \A f \in Folder :
           /\ csv'[f].by = csv[f].by \/ csv'[f].by = p
           /\ csv'[f].rows = "all" => csv'[f].by \in Process

Touches(p) ==
    /\ at[p] # "none" /\ \E place \in Places \ {"none"} : at' = [at EXCEPT ![p] = place]
    /\ Rewrites(p)

\* Every step of a process that was started is such a change.
LEMMA TableSteps ==
    ASSUME TablesInv, NEW p \in Process, Proceeds(p) \/ Ticks(p) \/ Killed(p) \/ Sigterm(p)
    PROVE  Touches(p)
<1> USE DEF Goes, Exits
<1>0. at \in [Process -> Places] /\ csv \in [Folder -> Table] /\ FolderOf[p] \in Folder
  BY ReportAssumption DEF TablesInv, TablesTyped
<1>1. at[p] # "none"
  BY DEF Proceeds, Running, WritesAside, BadOptions, ShowsHelp, Parses, Configures,
     WritesSynthetic, Throws, TickRenames, Aborts, Finishes, WritesResult, Publishes,
     Declares, DeclareRenames, Declared, OpensTable, WritesRows, ClosesTable, Leaves,
     DeclaresFailure, FailureRenames, ReportsFailure, FailurePublishes, LeavesFailed,
     Ticks, Killed, Sigterm
<1>2. ASSUME UNCHANGED csv
      PROVE  Rewrites(p)
  BY <1>0, <1>2 DEF TablesInv, Rewrites
<1>3. ASSUME NEW rows \in {"some", "all"}, RowsBecome(p, rows)
      PROVE  Rewrites(p)
  <2> DEFINE g == FolderOf[p]
  <2>1. PICK r \in {rows, "mixed"} :
            /\ csv' = [csv EXCEPT ![g] = [csv[g] EXCEPT !.rows = r]]
            /\ r = rows => csv[g].by = p
    BY <1>0, <1>3 DEF RowsBecome
  <2>2. /\ csv' = [csv EXCEPT ![g] = [rows |-> r, by |-> csv[g].by]]
        /\ csv[g].by \in Process \cup {Nobody} /\ r \in {"some", "all", "mixed"}
    <3>1. csv[g] \in Table
      BY <1>0
    <3>2. [csv[g] EXCEPT !.rows = r] = [rows |-> r, by |-> csv[g].by]
      BY <3>1 DEF Table
    <3>3. r \in {"some", "all", "mixed"}
      BY <2>1
    <3> QED
      BY <2>1, <3>1, <3>2, <3>3 DEF Table
  <2>3. [rows |-> r, by |-> csv[g].by] \in Table
    BY <2>2 DEF Table
  <2> QED
    BY <1>0, <2>1, <2>2, <2>3 DEF TablesInv, Rewrites
<1>4. CASE BadOptions(p)
  <2>1. \E place \in Places \ {"none"} : at' = [at EXCEPT ![p] = place]
    BY <1>4 DEF BadOptions, Places
  <2>2. UNCHANGED csv
    BY <1>4 DEF BadOptions
  <2> QED
    BY <1>1, <1>2, <2>1, <2>2 DEF Touches
<1>h. CASE ShowsHelp(p)
  <2>1. \E place \in Places \ {"none"} : at' = [at EXCEPT ![p] = place]
    BY <1>h DEF ShowsHelp, Places
  <2>2. UNCHANGED csv
    BY <1>h DEF ShowsHelp
  <2> QED
    BY <1>1, <1>2, <2>1, <2>2 DEF Touches
<1>5. CASE Parses(p)
  <2>1. \E place \in Places \ {"none"} : at' = [at EXCEPT ![p] = place]
    BY <1>5 DEF Parses, Places
  <2>2. UNCHANGED csv
    BY <1>5 DEF Parses
  <2> QED
    BY <1>1, <1>2, <2>1, <2>2 DEF Touches
<1>6. CASE Configures(p)
  <2>1. \E place \in Places \ {"none"} : at' = [at EXCEPT ![p] = place]
    BY <1>6 DEF Configures, Places
  <2>2. UNCHANGED csv
    BY <1>6 DEF Configures
  <2> QED
    BY <1>1, <1>2, <2>1, <2>2 DEF Touches
<1>7. CASE WritesSynthetic(p)
  <2>1. \E place \in Places \ {"none"} : at' = [at EXCEPT ![p] = place]
    BY <1>7 DEF WritesSynthetic, Places
  <2>2. UNCHANGED csv
    BY <1>7 DEF WritesSynthetic
  <2> QED
    BY <1>1, <1>2, <2>1, <2>2 DEF Touches
<1>8. CASE Throws(p)
  <2>1. \E place \in Places \ {"none"} : at' = [at EXCEPT ![p] = place]
    BY <1>8 DEF Throws, Places
  <2>2. UNCHANGED csv
    BY <1>8 DEF Throws
  <2> QED
    BY <1>1, <1>2, <2>1, <2>2 DEF Touches
<1>9. CASE TickRenames(p)
  <2>1. \E place \in Places \ {"none"} : at' = [at EXCEPT ![p] = place]
    BY <1>9 DEF TickRenames, Places
  <2>2. UNCHANGED csv
    BY <1>9 DEF TickRenames
  <2> QED
    BY <1>1, <1>2, <2>1, <2>2 DEF Touches
<1>10. CASE Aborts(p)
  <2>1. \E place \in Places \ {"none"} : at' = [at EXCEPT ![p] = place]
    BY <1>10 DEF Aborts, Places
  <2>2. UNCHANGED csv
    BY <1>10 DEF Aborts
  <2> QED
    BY <1>1, <1>2, <2>1, <2>2 DEF Touches
<1>11. CASE Finishes(p)
  <2>1. \E place \in Places \ {"none"} : at' = [at EXCEPT ![p] = place]
    BY <1>11 DEF Finishes, Places
  <2>2. UNCHANGED csv
    BY <1>11 DEF Finishes
  <2> QED
    BY <1>1, <1>2, <2>1, <2>2 DEF Touches
<1>12. CASE WritesResult(p)
  <2>1. \E place \in Places \ {"none"} : at' = [at EXCEPT ![p] = place]
    BY <1>12 DEF WritesResult, Places, WritesAside
  <2>2. UNCHANGED csv
    BY <1>12 DEF WritesResult
  <2> QED
    BY <1>1, <1>2, <2>1, <2>2 DEF Touches
<1>13. CASE Publishes(p)
  <2>1. \E place \in Places \ {"none"} : at' = [at EXCEPT ![p] = place]
    BY <1>13 DEF Publishes, Places
  <2>2. UNCHANGED csv
    BY <1>13 DEF Publishes
  <2> QED
    BY <1>1, <1>2, <2>1, <2>2 DEF Touches
<1>14. CASE Declares(p)
  <2>1. \E place \in Places \ {"none"} : at' = [at EXCEPT ![p] = place]
    BY <1>14 DEF Declares, Places, WritesAside
  <2>2. UNCHANGED csv
    BY <1>14 DEF Declares
  <2> QED
    BY <1>1, <1>2, <2>1, <2>2 DEF Touches
<1>15. CASE DeclareRenames(p)
  <2>1. \E place \in Places \ {"none"} : at' = [at EXCEPT ![p] = place]
    BY <1>15 DEF DeclareRenames, Places
  <2>2. UNCHANGED csv
    BY <1>15 DEF DeclareRenames
  <2> QED
    BY <1>1, <1>2, <2>1, <2>2 DEF Touches
<1>16. CASE Declared(p)
  <2>1. \E place \in Places \ {"none"} : at' = [at EXCEPT ![p] = place]
    BY <1>16 DEF Declared, Places
  <2>2. UNCHANGED csv
    BY <1>16 DEF Declared
  <2> QED
    BY <1>1, <1>2, <2>1, <2>2 DEF Touches
<1>17. CASE OpensTable(p)
  <2>1. \E place \in Places \ {"none"} : at' = [at EXCEPT ![p] = place]
    BY <1>17 DEF OpensTable, Places
  <2>2. CASE UNCHANGED csv
    BY <1>1, <1>2, <2>1, <2>2 DEF Touches
  <2>3. CASE csv' = [csv EXCEPT ![FolderOf[p]] = [rows |-> "empty", by |-> p]]
    <3>1. [rows |-> "empty", by |-> p] \in Table
      BY DEF Table
    <3> QED
      BY <1>0, <1>1, <2>1, <2>3, <3>1 DEF Touches, Rewrites, TablesInv
  <2> QED
    BY <1>17, <2>2, <2>3 DEF OpensTable
<1>18. CASE WritesRows(p)
  <2>1. \E place \in Places \ {"none"} : at' = [at EXCEPT ![p] = place]
    <3>1. at' = [at EXCEPT ![p] = "rows"]
      BY <1>0, <1>18 DEF WritesRows
    <3> QED
      BY <3>1 DEF Places
  <2>2. \E rows \in {"some", "all"} : RowsBecome(p, rows)
    BY <1>18 DEF WritesRows
  <2> QED
    BY <1>1, <1>3, <2>1, <2>2 DEF Touches
<1>19. CASE ClosesTable(p)
  <2>1. \E place \in Places \ {"none"} : at' = [at EXCEPT ![p] = place]
    BY <1>19 DEF ClosesTable, Places
  <2>2. \E rows \in {"some", "all"} : RowsBecome(p, rows)
    BY <1>19 DEF ClosesTable
  <2> QED
    BY <1>1, <1>3, <2>1, <2>2 DEF Touches
<1>20. CASE Leaves(p)
  <2>1. \E place \in Places \ {"none"} : at' = [at EXCEPT ![p] = place]
    BY <1>20 DEF Leaves, Places
  <2>2. UNCHANGED csv
    BY <1>20 DEF Leaves
  <2> QED
    BY <1>1, <1>2, <2>1, <2>2 DEF Touches
<1>21. CASE DeclaresFailure(p)
  <2>1. \E place \in Places \ {"none"} : at' = [at EXCEPT ![p] = place]
    BY <1>21 DEF DeclaresFailure, Places, WritesAside
  <2>2. UNCHANGED csv
    BY <1>21 DEF DeclaresFailure
  <2> QED
    BY <1>1, <1>2, <2>1, <2>2 DEF Touches
<1>22. CASE FailureRenames(p)
  <2>1. \E place \in Places \ {"none"} : at' = [at EXCEPT ![p] = place]
    BY <1>22 DEF FailureRenames, Places
  <2>2. UNCHANGED csv
    BY <1>22 DEF FailureRenames
  <2> QED
    BY <1>1, <1>2, <2>1, <2>2 DEF Touches
<1>23. CASE ReportsFailure(p)
  <2>1. \E place \in Places \ {"none"} : at' = [at EXCEPT ![p] = place]
    BY <1>23 DEF ReportsFailure, Places, WritesAside
  <2>2. UNCHANGED csv
    BY <1>23 DEF ReportsFailure
  <2> QED
    BY <1>1, <1>2, <2>1, <2>2 DEF Touches
<1>24. CASE FailurePublishes(p)
  <2>1. \E place \in Places \ {"none"} : at' = [at EXCEPT ![p] = place]
    BY <1>24 DEF FailurePublishes, Places
  <2>2. UNCHANGED csv
    BY <1>24 DEF FailurePublishes
  <2> QED
    BY <1>1, <1>2, <2>1, <2>2 DEF Touches
<1>25. CASE LeavesFailed(p)
  <2>1. \E place \in Places \ {"none"} : at' = [at EXCEPT ![p] = place]
    BY <1>25 DEF LeavesFailed, Places
  <2>2. UNCHANGED csv
    BY <1>25 DEF LeavesFailed
  <2> QED
    BY <1>1, <1>2, <2>1, <2>2 DEF Touches
<1>26. CASE Ticks(p)
  <2>1. \E place \in Places \ {"none"} : at' = [at EXCEPT ![p] = place]
    BY <1>26 DEF Ticks, Places, WritesAside
  <2>2. UNCHANGED csv
    BY <1>26 DEF Ticks
  <2> QED
    BY <1>1, <1>2, <2>1, <2>2 DEF Touches
<1>27. CASE Killed(p)
  <2>1. \E place \in Places \ {"none"} : at' = [at EXCEPT ![p] = place]
    BY <1>27 DEF Killed, Places
  <2>2. UNCHANGED csv
    BY <1>27 DEF Killed
  <2> QED
    BY <1>1, <1>2, <2>1, <2>2 DEF Touches
<1>28. CASE Sigterm(p)
  <2>1. at' = [at EXCEPT ![p] = at[p]] /\ at[p] \in Places \ {"none"} /\ UNCHANGED csv
    BY <1>0, <1>1, <1>28 DEF Sigterm
  <2> QED
    BY <1>1, <1>2, <2>1 DEF Touches
<1> QED
  BY <1>4, <1>h, <1>5, <1>6, <1>7, <1>8, <1>9, <1>10, <1>11, <1>12, <1>13, <1>14, <1>15,
     <1>16, <1>17, <1>18, <1>19, <1>20, <1>21, <1>22, <1>23, <1>24, <1>25, <1>26, <1>27,
     <1>28 DEF Proceeds

\* No table is there at first, and no GAEL runs.
LEMMA TablesInitially == Init => TablesInv
<1> SUFFICES ASSUME Init PROVE TablesInv
  OBVIOUS
<1> USE DEF Init, ReportInit
<1>1. NoTable \in Table /\ NoTable.rows = "none" /\ NoTable.by = Nobody
  BY DEF Table, NoTable
<1>2. TablesTyped
  BY <1>1 DEF TablesTyped, Places
<1>3. ASSUME NEW r \in Runner, NEW f \in Folder PROVE Looked(r, f)
  <2>1. job[r][f] = "waiting" /\ (<<r, f>> \in Process => at[<<r, f>>] = "none")
    BY <1>3
  <2>2. csv[f].by = Nobody
    BY <1>1, <1>3
  <2> QED
    BY <2>1, <2>2, ReportAssumption DEF Looked
<1> QED
  BY <1>1, <1>2, <1>3 DEF TablesInv

\* Each look comes before the GAEL it allows, whoever dies or is lost between.
LEMMA TablesStay == TablesInv /\ [Next]_vars => TablesInv'
<1> SUFFICES ASSUME TablesInv, [Next]_vars PROVE TablesInv'
  OBVIOUS
<1>1. ASSUME UNCHANGED <<at, csv, job, found>> PROVE TablesInv'
  BY <1>1 DEF TablesInv, TablesTyped, Looked, May
\* A job moves on without its process.
<1>2. ASSUME NEW r \in Runner, NEW f \in Folder, NEW s \in Answered, Sets(r, f, s),
             UNCHANGED <<at, csv, found>>
      PROVE  TablesInv'
  <2>1. TablesTyped'
    BY <1>2 DEF TablesInv, TablesTyped, Sets, Answered
  <2>2. ASSUME NEW q \in Runner, NEW g \in Folder PROVE Looked(q, g)'
    <3>1. Looked(q, g)
      BY DEF TablesInv
    <3>2. job'[q][g] = job[q][g] \/ job'[q][g] = s
      BY <1>2 DEF TablesInv, TablesTyped, Sets
    <3> QED
      BY <1>2, <3>1, <3>2 DEF Looked, May, Answered
  <2> QED
    BY <1>2, <2>1, <2>2 DEF TablesInv
<1>3. ASSUME NEW r \in Runner, NEW f \in Folder, Takes(r, f) PROVE TablesInv'
  <2>1. UNCHANGED <<at, csv>>
    BY <1>3 DEF Takes, rvars
  <2>2. PICK s \in {"skipped", "starting"} :
            /\ job' = [job EXCEPT ![r][f] = s]
            /\ s = "starting" => r \in Forcing \/ ~Processed(f)
    BY <1>3 DEF Takes, Sets
  <2>3. found' = [found EXCEPT ![r][f] = Processed(f)] /\ Processed(f) \in BOOLEAN
    BY <1>3 DEF Takes, Processed
  <2>4. TablesTyped'
    BY <2>1, <2>2, <2>3 DEF TablesInv, TablesTyped, Busy, Answered
  <2>5. ASSUME NEW q \in Runner, NEW g \in Folder PROVE Looked(q, g)'
    <3>1. Looked(q, g)
      BY DEF TablesInv
    <3>2. CASE q = r /\ g = f
      <4>1. /\ job[q][g] = "waiting"
            /\ job'[q][g] = s /\ found'[q][g] = Processed(g)
        BY <1>3, <2>2, <2>3, <3>2 DEF TablesInv, TablesTyped, Takes
      <4> QED
        BY <2>1, <2>2, <3>1, <3>2, <4>1 DEF Looked, May
    <3>3. CASE ~(q = r /\ g = f)
      <4>1. job'[q][g] = job[q][g] /\ found'[q][g] = found[q][g]
        BY <2>2, <2>3, <3>3 DEF TablesInv, TablesTyped
      <4> QED
        BY <2>1, <3>1, <4>1 DEF Looked, May
    <3> QED
      BY <3>2, <3>3
  <2> QED
    BY <2>1, <2>4, <2>5 DEF TablesInv
<1>4. ASSUME NEW r \in Runner, NEW f \in Folder, Spawns(r, f) PROVE TablesInv'
  <2>1. /\ at' = [at EXCEPT ![<<r, f>>] = "options"] /\ UNCHANGED <<csv, found>>
        /\ job' = [job EXCEPT ![r][f] = "running"] /\ job[r][f] = "starting"
    BY <1>4 DEF Spawns, Launches, Goes, Sets
  <2>2. TablesTyped'
    BY <2>1 DEF TablesInv, TablesTyped, Busy, Places
  <2>3. ASSUME NEW q \in Runner, NEW g \in Folder PROVE Looked(q, g)'
    <3>1. Looked(q, g)
      BY DEF TablesInv
    <3>2. CASE q = r /\ g = f
      <4>1. /\ job'[q][g] = "running" /\ found'[q][g] = found[q][g]
            /\ <<q, g>> \in Process => at'[<<q, g>>] = "options"
        BY <2>1, <3>2 DEF TablesInv, TablesTyped
      <4> QED
        BY <2>1, <3>1, <3>2, <4>1 DEF Looked, May
    <3>3. CASE ~(q = r /\ g = f)
      <4>1. /\ job'[q][g] = job[q][g] /\ found'[q][g] = found[q][g]
            /\ <<q, g>> \in Process => at'[<<q, g>>] = at[<<q, g>>]
        BY <2>1, <3>3 DEF TablesInv, TablesTyped
      <4> QED
        BY <2>1, <3>1, <4>1 DEF Looked, May
    <3> QED
      BY <3>2, <3>3
  <2> QED
    BY <2>1, <2>2, <2>3 DEF TablesInv
<1>5. ASSUME NEW r \in Runner, Batch(r) \/ Dies(r) \/ \E f \in Folder : Loses(r, f)
      PROVE  TablesInv'
  <2>1. CASE Filters(r) \/ Returns(r) \/ Dies(r)
    BY <1>1, <2>1 DEF Filters, Returns, Dies, rvars
  <2>2. CASE \E f \in Folder : Ends(r, f)
    <3>1. PICK f \in Folder : \E s \in Answered : Sets(r, f, s)
      BY <2>2 DEF Ends, Answered
    <3> QED
      BY <1>2, <2>2, <3>1 DEF Ends, rvars
  <2>3. CASE \E f \in Folder : Loses(r, f)
    BY <1>2, <2>3 DEF Loses, Answered
  <2> QED
    BY <1>3, <1>4, <1>5, <2>1, <2>2, <2>3 DEF Batch
\* A GAEL run by hand is none of the runners'.
<1>6. ASSUME NEW p \in Process, ByHand(p) PROVE TablesInv'
  <2>1. /\ p \notin Runner \X Folder /\ UNCHANGED <<csv, job, found>>
        /\ at' = [at EXCEPT ![p] = "options"]
    BY <1>6 DEF ByHand, Manual, Launches, Goes, bvars
  <2>2. \A r \in Runner, f \in Folder : <<r, f>> \in Process => at'[<<r, f>>] = at[<<r, f>>]
    BY <2>1 DEF TablesInv, TablesTyped
  <2> QED
    BY <2>1, <2>2 DEF TablesInv, TablesTyped, Looked, May, Places
<1>7. ASSUME NEW p \in Process, Gael(p) \/ World(p) PROVE TablesInv'
  <2>1. Touches(p) /\ UNCHANGED <<job, found>>
    BY <1>7, TableSteps DEF Gael, World, bvars
  <2>2. ASSUME NEW q \in Runner, NEW g \in Folder PROVE Looked(q, g)'
    <3>1. Looked(q, g)
      BY DEF TablesInv
    <3>2. <<q, g>> \in Process /\ <<q, g>> # p => at'[<<q, g>>] = at[<<q, g>>]
      BY <2>1 DEF Touches, TablesInv, TablesTyped
    <3>3. at[p] # "none" /\ at'[p] # "none"
      BY <2>1 DEF Touches, TablesInv, TablesTyped
    <3>4. csv'[g].by = csv[g].by \/ csv'[g].by = p
      BY <2>1 DEF Touches, Rewrites
    <3> QED
      BY <2>1, <3>1, <3>2, <3>3, <3>4 DEF Looked, May
  <2>3. TablesTyped'
    BY <2>1 DEF Touches, Rewrites, TablesInv, TablesTyped
  <2> QED
    BY <2>1, <2>2, <2>3 DEF TablesInv, Touches, Rewrites
<1> QED
  BY <1>1, <1>5, <1>6, <1>7 DEF Next, vars, rvars, bvars

\* A step that loses a table is a process's.
LEMMA LossIsAllowed == TablesInv /\ [Next]_vars /\ TablesInv' =>
    \A r \in Runner, f \in Folder :
        csv[f].rows = "all" /\ csv'[f].rows # "all" /\ csv'[f].by = <<r, f>>
        => r \in Forcing \/ ~found[r][f]
<1> SUFFICES ASSUME TablesInv, [Next]_vars, TablesInv', NEW r \in Runner, NEW f \in Folder,
                    csv[f].rows = "all", csv'[f].rows # "all", csv'[f].by = <<r, f>>
             PROVE  May(r, f)
  BY DEF May
<1>1. PICK p \in Process : Gael(p) \/ World(p)
  <2>1. ASSUME NEW q \in Runner, Batch(q) \/ Dies(q) \/ \E g \in Folder : Loses(q, g)
        PROVE  UNCHANGED csv
    BY <2>1 DEF Batch, Filters, Returns, Takes, Spawns, Launches, Ends, Dies, Loses, rvars
  <2>2. ASSUME NEW p \in Process, ByHand(p) PROVE UNCHANGED csv
    BY <2>2 DEF ByHand, Launches
  <2>3. csv' # csv
    OBVIOUS
  <2> QED
    BY <2>1, <2>2, <2>3 DEF Next, vars, rvars
<1>2. Touches(p) /\ UNCHANGED <<job, found>>
  BY <1>1, TableSteps DEF Gael, World, bvars
<1>3. <<r, f>> \in Process
  BY <1>2 DEF Touches, Rewrites, TablesInv
<1>4. at'[<<r, f>>] # "none"
  BY <1>3 DEF TablesInv, Looked
<1>5. May(r, f)'
  BY <1>3, <1>4 DEF TablesInv, Looked
<1> QED
  BY <1>2, <1>5 DEF May

\* The table of a folder that has one is lost only to --force, to a GAEL whose
\* runner looked before the table was there, or to one run by hand, however
\* many runners share the folder and whoever dies half way.
THEOREM TablesKept == Spec => KeepsTables
<1>1. Init => TablesInv
  BY TablesInitially
<1>2. TablesInv /\ [Next]_vars => TablesInv'
  BY TablesStay
<1>3. TablesInv /\ TablesInv' /\ [Next]_vars =>
          [\A r \in Runner, f \in Folder :
               csv[f].rows = "all" /\ csv'[f].rows # "all" /\ csv'[f].by = <<r, f>>
               => r \in Forcing \/ ~found[r][f]]_vars
  BY LossIsAllowed
<1> QED
  BY <1>1, <1>2, <1>3, PTL DEF Spec, KeepsTables

-----------------------------------------------------------------------------
(* What a folder called complete is worth.                                 *)

\* A runner's accounts: what it took is of what it was asked, and its counter and
\* its list of failures say what its jobs say.
DoneOf(r) == {f \in todo[r] : job[r][f] \in {"skipped", "complete"}}

Kept(r) ==
    /\ todo[r] \subseteq Asked[r]
    /\ \A f \in Folder : job[r][f] # "waiting" => f \in todo[r]
    /\ batch[r] \in {"absent", "idle"} => todo[r] = {}
    /\ batch[r] = "returned" => \A f \in todo[r] : job[r][f] \in Answered
    /\ completed[r] = Cardinality(DoneOf(r))
    /\ failed[r] = {f \in todo[r] : job[r][f] = "failed"}

JobsTyped ==
    /\ batch \in [Runner -> {"absent", "idle", "pool", "returned", "killed"}]
    /\ todo \in [Runner -> SUBSET Folder]
    /\ job \in [Runner -> [Folder -> {"waiting"} \cup Busy \cup Answered]]
    /\ completed \in [Runner -> Nat] /\ failed \in [Runner -> SUBSET Folder]
    /\ faults \in 0..MaxFaults /\ kills \in 0..MaxKills

AccountsInv == JobsTyped /\ \A r \in Runner : Kept(r)

\* Nothing has failed and nobody has been killed.
Calm == faults = 0 /\ kills = 0

\* A table that is only begun is being written by the GAEL that truncated it last.
Tended(f) ==
    Calm /\ csv[f].rows \in {"empty", "some"} =>
        /\ csv[f].by \in Process /\ FolderOf[csv[f].by] = f
        /\ at[csv[f].by] = "rows"

\* A GAEL past its table has made one; those of a runner write reports for nobody.
Made(p) ==
    /\ p \notin Manual => opts[p] = Quiet
    /\ Calm /\ (\/ at[p] \in {"rows", "dump"}
                \/ code[p] = "0" /\ ~opts[p].synthetic /\ ~opts[p].asks)
       => csv[FolderOf[p]].rows # "none"

\* What was called complete or skipped has a table.
Stands(r, f) == Calm /\ job[r][f] \in {"skipped", "complete"} => csv[f].rows # "none"

DoneInv ==
    /\ \A f \in Folder : Tended(f)
    /\ \A p \in Process : Made(p)
    /\ \A r \in Runner, f \in Folder : Stands(r, f)

\* A process that was started may fail or be killed within the bounds, and away from
\* its table leaves it; it comes past the table, and to a good end, only by writing it.
Away(p) ==
    /\ UNCHANGED csv
    /\ at[p] = "rows" /\ Calm' => at'[p] = "rows"
    /\ at'[p] \in {"rows", "dump"} => at'[p] = at[p]
    /\ code'[p] = "0" => code[p] = "0" \/ at[p] \in {"dump", "synthetic"} \/ opts[p].asks

\* Failures and kills stay within the bounds, and none is taken back.
Bounded == /\ faults' \in 0..MaxFaults /\ kills' \in 0..MaxKills
           /\ faults <= faults' /\ kills <= kills'

\* Every step of a process that was started is within the bounds, and one on its
\* table or away from it.
LEMMA WaysOfAProcess ==
    ASSUME ReportTyped, faults \in 0..MaxFaults, kills \in 0..MaxKills,
           NEW p \in Process, Proceeds(p) \/ Ticks(p) \/ Killed(p) \/ Sigterm(p)
    PROVE  Bounded /\ (OpensTable(p) \/ WritesRows(p) \/ ClosesTable(p) \/ Away(p))
<1> USE ReportAssumption DEF Goes, Exits, Works, Breaks, WritesAside, RenamesStatus, RenamesResult, Bounded
<1>0. /\ at \in [Process -> Places] /\ code \in [Process -> {"none", "0", "1", "2", "killed"}]
      /\ MaxFaults \in Nat /\ MaxKills \in Nat
  BY DEF ReportTyped
\* A file is written aside.
<1>a. ASSUME NEW place \in Places \ {"rows", "dump"}, at' = [at EXCEPT ![p] = place], at[p] # "rows",
             faults' = faults \/ (faults < MaxFaults /\ faults' = faults + 1), UNCHANGED <<csv, code, kills>>
      PROVE  Bounded /\ Away(p)
  BY <1>0, <1>a DEF Away
<1>1. CASE BadOptions(p)
  BY <1>0, <1>1 DEF BadOptions, Away, Calm
<1>h. CASE ShowsHelp(p)
  BY <1>0, <1>h DEF ShowsHelp, Away, Calm
<1>2. CASE Parses(p)
  BY <1>0, <1>2 DEF Parses, Away, Calm
<1>3. CASE Configures(p)
  BY <1>0, <1>3 DEF Configures, Away, Calm
<1>4. CASE WritesSynthetic(p)
  BY <1>0, <1>4 DEF WritesSynthetic, Away, Calm
<1>5. CASE Throws(p)
  BY <1>0, <1>5 DEF Throws, Away, Calm
<1>6. CASE TickRenames(p)
  BY <1>0, <1>6 DEF TickRenames, Away, Calm
<1>7. CASE Aborts(p)
  BY <1>0, <1>7 DEF Aborts, Away, Calm
<1>8. CASE Finishes(p)
  BY <1>0, <1>8 DEF Finishes, Away, Calm
<1>9. CASE WritesResult(p)
  <2>1. \E place \in Places \ {"rows", "dump"} : at' = [at EXCEPT ![p] = place]
    BY <1>9 DEF WritesResult, Places
  <2>2. /\ at[p] # "rows" /\ UNCHANGED <<csv, code, kills>>
        /\ faults' = faults \/ (faults < MaxFaults /\ faults' = faults + 1)
    BY <1>9 DEF WritesResult
  <2> QED
    BY <1>a, <2>1, <2>2
<1>10. CASE Publishes(p)
  BY <1>0, <1>10 DEF Publishes, Away, Calm
<1>11. CASE Declares(p)
  <2>1. \E place \in Places \ {"rows", "dump"} : at' = [at EXCEPT ![p] = place]
    BY <1>11 DEF Declares, Places
  <2>2. /\ at[p] # "rows" /\ UNCHANGED <<csv, code, kills>>
        /\ faults' = faults \/ (faults < MaxFaults /\ faults' = faults + 1)
    BY <1>11 DEF Declares
  <2> QED
    BY <1>a, <2>1, <2>2
<1>12. CASE DeclareRenames(p)
  BY <1>0, <1>12 DEF DeclareRenames, Away, Calm
<1>13. CASE Declared(p)
  BY <1>0, <1>13 DEF Declared, Away, Calm
<1>14. CASE Leaves(p)
  BY <1>0, <1>14 DEF Leaves, Away, Calm
<1>15. CASE DeclaresFailure(p)
  <2>1. \E place \in Places \ {"rows", "dump"} : at' = [at EXCEPT ![p] = place]
    BY <1>15 DEF DeclaresFailure, Places
  <2>2. /\ at[p] # "rows" /\ UNCHANGED <<csv, code, kills>>
        /\ faults' = faults \/ (faults < MaxFaults /\ faults' = faults + 1)
    BY <1>15 DEF DeclaresFailure
  <2> QED
    BY <1>a, <2>1, <2>2
<1>16. CASE FailureRenames(p)
  BY <1>0, <1>16 DEF FailureRenames, Away, Calm
<1>17. CASE ReportsFailure(p)
  <2>1. \E place \in Places \ {"rows", "dump"} : at' = [at EXCEPT ![p] = place]
    BY <1>17 DEF ReportsFailure, Places
  <2>2. /\ at[p] # "rows" /\ UNCHANGED <<csv, code, kills>>
        /\ faults' = faults \/ (faults < MaxFaults /\ faults' = faults + 1)
    BY <1>17 DEF ReportsFailure
  <2> QED
    BY <1>a, <2>1, <2>2
<1>18. CASE FailurePublishes(p)
  BY <1>0, <1>18 DEF FailurePublishes, Away, Calm
<1>19. CASE LeavesFailed(p)
  BY <1>0, <1>19 DEF LeavesFailed, Away, Calm
<1>20. CASE Ticks(p)
  <2>1. \E place \in Places \ {"rows", "dump"} : at' = [at EXCEPT ![p] = place]
    BY <1>20 DEF Ticks, Places
  <2>2. /\ at[p] # "rows" /\ UNCHANGED <<csv, code, kills>>
        /\ faults' = faults \/ (faults < MaxFaults /\ faults' = faults + 1)
    BY <1>20 DEF Ticks
  <2> QED
    BY <1>a, <2>1, <2>2
<1>21. CASE Killed(p)
  BY <1>0, <1>21 DEF Killed, Away, Calm
<1>22. CASE Sigterm(p)
  BY <1>0, <1>22 DEF Sigterm, Away, Calm
<1>23. CASE OpensTable(p)
  BY <1>0, <1>23 DEF OpensTable
<1>24. CASE WritesRows(p)
  BY <1>0, <1>24 DEF WritesRows
<1>25. CASE ClosesTable(p)
  BY <1>0, <1>25 DEF ClosesTable
<1> QED
  BY <1>1, <1>h, <1>2, <1>3, <1>4, <1>5, <1>6, <1>7, <1>8, <1>9, <1>10, <1>11, <1>12, <1>13, <1>14, <1>15, <1>16, <1>17, <1>18, <1>19, <1>20, <1>21, <1>22, <1>23, <1>24, <1>25 DEF Proceeds

\* At first nobody has taken anything.
LEMMA AccountsInitially == Init => AccountsInv
<1> SUFFICES ASSUME Init PROVE AccountsInv
  OBVIOUS
<1> USE DEF Init, ReportInit
<1>1. JobsTyped
  BY ReportAssumption DEF JobsTyped
<1>2. ASSUME NEW r \in Runner PROVE Kept(r)
  <2>1. todo[r] = {} /\ completed[r] = 0 /\ failed[r] = {} /\ DoneOf(r) = {}
    BY DEF DoneOf
  <2>2. Cardinality(DoneOf(r)) = 0
    BY <2>1, FS_EmptySet
  <2> QED
    BY <2>1, <2>2 DEF Kept
<1> QED
  BY <1>1, <1>2 DEF AccountsInv

\* The account of a runner nobody touches stays.
LEMMA OthersAccounts ==
    ASSUME NEW r \in Runner, Kept(r), batch'[r] = batch[r], todo'[r] = todo[r],
           job'[r] = job[r], completed'[r] = completed[r], failed'[r] = failed[r]
    PROVE  Kept(r)'
<1>1. DoneOf(r)' = DoneOf(r)
  BY DEF DoneOf
<1> QED
  BY <1>1 DEF Kept

\* What a runner took is finite, so it can be counted.
LEMMA DoneCounted ==
    ASSUME AccountsInv, NEW r \in Runner
    PROVE  /\ IsFiniteSet(todo[r]) /\ IsFiniteSet(DoneOf(r))
           /\ Cardinality(DoneOf(r)) \in Nat /\ Cardinality(DoneOf(r)) <= Cardinality(todo[r])
           /\ Cardinality(todo[r]) \in Nat
<1>1. IsFiniteSet(Asked[r]) /\ todo[r] \subseteq Asked[r]
  BY BatchAssumption DEF AccountsInv, Kept
<1>2. IsFiniteSet(todo[r])
  BY <1>1, FS_Subset
<1>3. DoneOf(r) \subseteq todo[r]
  BY DEF DoneOf
<1> QED
  BY <1>2, <1>3, FS_Subset, FS_CardinalityType

\* One job moves on from where it had no answer yet, and the counter or the list of
\* failures follows it.
LEMMA JobMoves ==
    ASSUME AccountsInv, NEW r \in Runner, NEW f \in Folder, NEW s \in Busy \cup Answered,
           batch[r] = "pool", f \in todo[r], job[r][f] \in {"waiting"} \cup Busy,
           Sets(r, f, s), UNCHANGED <<batch, todo>>, faults' \in 0..MaxFaults, kills' \in 0..MaxKills,
           s \in {"skipped", "complete"} => completed' = [completed EXCEPT ![r] = @ + 1],
           s \notin {"skipped", "complete"} => UNCHANGED completed,
           s = "failed" => failed' = [failed EXCEPT ![r] = @ \cup {f}],
           s # "failed" => UNCHANGED failed
    PROVE  AccountsInv'
<1> USE DEF Sets, Busy, Answered
<1>0. JobsTyped /\ Kept(r)
  BY DEF AccountsInv
<1>1. /\ job' \in [Runner -> [Folder -> {"waiting"} \cup Busy \cup Answered]]
      /\ job'[r][f] = s /\ \A g \in Folder \ {f} : job'[r][g] = job[r][g]
      /\ \A q \in Runner \ {r} : job'[q] = job[q]
  BY <1>0 DEF JobsTyped
<1>2. /\ completed' \in [Runner -> Nat] /\ failed' \in [Runner -> SUBSET Folder]
      /\ completed'[r] = IF s \in {"skipped", "complete"} THEN completed[r] + 1 ELSE completed[r]
      /\ failed'[r] = IF s = "failed" THEN failed[r] \cup {f} ELSE failed[r]
      /\ \A q \in Runner \ {r} : completed'[q] = completed[q] /\ failed'[q] = failed[q]
  <2>0. completed \in [Runner -> Nat] /\ failed \in [Runner -> SUBSET Folder]
    BY <1>0 DEF JobsTyped
  <2>1. /\ completed' \in [Runner -> Nat]
        /\ completed'[r] = IF s \in {"skipped", "complete"} THEN completed[r] + 1 ELSE completed[r]
        /\ \A q \in Runner \ {r} : completed'[q] = completed[q]
    BY <2>0
  <2>2. /\ failed' \in [Runner -> SUBSET Folder]
        /\ failed'[r] = IF s = "failed" THEN failed[r] \cup {f} ELSE failed[r]
        /\ \A q \in Runner \ {r} : failed'[q] = failed[q]
    BY <2>0
  <2> QED
    BY <2>1, <2>2
<1>3. JobsTyped'
  BY <1>0, <1>1, <1>2 DEF JobsTyped
<1>4. Kept(r)'
  <2>0. todo'[r] = todo[r] /\ todo[r] \subseteq Folder
    BY <1>0 DEF JobsTyped
  <2>1. f \notin DoneOf(r) /\ DoneOf(r)' = IF s \in {"skipped", "complete"} THEN DoneOf(r) \cup {f} ELSE DoneOf(r)
    BY <1>1, <2>0 DEF DoneOf
  <2>2. completed'[r] = Cardinality(DoneOf(r)')
    <3>1. Cardinality(DoneOf(r) \cup {f}) = Cardinality(DoneOf(r)) + 1
      BY <2>1, DoneCounted, FS_AddElement
    <3> QED
      BY <1>0, <1>2, <2>1, <3>1 DEF Kept
  <2>3. failed'[r] = {g \in todo'[r] : job'[r][g] = "failed"}
    <3>1. failed[r] = {g \in todo[r] : job[r][g] = "failed"}
      BY <1>0 DEF Kept
    <3> QED
      BY <1>1, <1>2, <2>0, <3>1
  <2>4. /\ todo'[r] \subseteq Asked[r] /\ batch'[r] = "pool"
        /\ \A g \in Folder : job'[r][g] # "waiting" => g \in todo'[r]
    BY <1>0, <1>1, <2>0 DEF Kept
  <2> QED
    BY <2>2, <2>3, <2>4 DEF Kept
<1>5. ASSUME NEW q \in Runner \ {r} PROVE Kept(q)'
  BY <1>1, <1>2, <1>5, OthersAccounts DEF AccountsInv
<1> QED
  BY <1>3, <1>4, <1>5 DEF AccountsInv

\* Every step leaves the accounts right.
LEMMA AccountsStay == ReportTyped /\ AccountsInv /\ [Next]_vars => AccountsInv'
<1> SUFFICES ASSUME ReportTyped, AccountsInv, [Next]_vars PROVE AccountsInv'
  OBVIOUS
<1>0. JobsTyped /\ MaxFaults \in Nat /\ MaxKills \in Nat
  BY ReportAssumption DEF AccountsInv
\* The runners' own variables do not change.
<1>1. ASSUME UNCHANGED bvars, faults' \in 0..MaxFaults, kills' \in 0..MaxKills PROVE AccountsInv'
  <2>1. \A r \in Runner : Kept(r)'
    BY <1>1, OthersAccounts DEF AccountsInv, bvars
  <2> QED
    BY <1>0, <1>1, <2>1 DEF AccountsInv, JobsTyped, bvars
\* A runner goes somewhere else.
<1>2. ASSUME NEW r \in Runner, NEW b \in {"pool", "returned", "killed"}, NEW take \in SUBSET Asked[r],
             batch' = [batch EXCEPT ![r] = b], todo' = [todo EXCEPT ![r] = take],
             UNCHANGED <<job, completed, failed>>, faults' \in 0..MaxFaults, kills' \in 0..MaxKills,
             take # todo[r] => todo[r] = {},
             b = "returned" => \A f \in take : job[r][f] \in Answered
      PROVE  AccountsInv'
  <2>0. /\ Kept(r) /\ todo[r] \subseteq Folder /\ take \subseteq Folder /\ todo[r] \subseteq take
        /\ batch'[r] = b /\ todo'[r] = take
        /\ \A q \in Runner \ {r} : batch'[q] = batch[q] /\ todo'[q] = todo[q]
    BY <1>0, <1>2, BatchAssumption DEF AccountsInv, JobsTyped
  <2>1. JobsTyped'
    BY <1>0, <1>2, <2>0, BatchAssumption DEF JobsTyped
  <2>2. \A f \in take : job[r][f] # "waiting" => f \in todo[r]
    BY <2>0 DEF Kept
  <2>3. DoneOf(r)' = DoneOf(r) /\ {f \in take : job[r][f] = "failed"} = {f \in todo[r] : job[r][f] = "failed"}
    BY <1>2, <2>0, <2>2 DEF DoneOf
  <2>4. Kept(r)'
    BY <1>2, <2>0, <2>2, <2>3 DEF Kept
  <2>5. ASSUME NEW q \in Runner \ {r} PROVE Kept(q)'
    BY <1>2, <2>0, <2>5, OthersAccounts DEF AccountsInv
  <2> QED
    BY <2>1, <2>4, <2>5 DEF AccountsInv
<1>3. ASSUME NEW r \in Runner, Batch(r) PROVE AccountsInv'
  <2>1. CASE Filters(r)
    <3> DEFINE take == IF r \in Forcing THEN Asked[r] ELSE {f \in Asked[r] : ~Processed(f)}
               b == IF take = {} THEN "returned" ELSE "pool"
    <3>1. /\ batch' = [batch EXCEPT ![r] = b] /\ todo' = [todo EXCEPT ![r] = take]
          /\ UNCHANGED <<job, completed, failed>> /\ UNCHANGED <<faults, kills>> /\ batch[r] = "idle"
      BY <2>1 DEF Filters, rvars
    <3>2. take \in SUBSET Asked[r] /\ b \in {"pool", "returned", "killed"} /\ todo[r] = {}
      BY <3>1 DEF AccountsInv, Kept
    <3>3. b = "returned" => \A f \in take : job[r][f] \in Answered
      OBVIOUS
    <3>4. faults' \in 0..MaxFaults /\ kills' \in 0..MaxKills
      BY <1>0, <3>1 DEF JobsTyped
    <3> HIDE DEF take, b
    <3> QED
      BY <1>2, <3>1, <3>2, <3>3, <3>4
  <2>2. CASE Returns(r)
    <3>1. /\ batch' = [batch EXCEPT ![r] = "returned"] /\ UNCHANGED todo
          /\ UNCHANGED <<job, completed, failed>> /\ UNCHANGED <<faults, kills>>
          /\ \A f \in todo[r] : job[r][f] \in Answered
      BY <2>2 DEF Returns, rvars
    <3>2. todo' = [todo EXCEPT ![r] = todo[r]] /\ todo[r] \in SUBSET Asked[r]
      BY <1>0, <3>1 DEF AccountsInv, JobsTyped, Kept
    <3> QED
      BY <1>0, <1>2, <3>1, <3>2 DEF JobsTyped
  <2>3. CASE \E f \in Folder : Takes(r, f)
    <3>1. PICK f \in Folder : Takes(r, f)
      BY <2>3
    <3>2. /\ batch[r] = "pool" /\ f \in todo[r] /\ job[r][f] = "waiting"
          /\ UNCHANGED <<batch, todo, failed, faults, kills>>
          /\ \/ Sets(r, f, "skipped") /\ completed' = [completed EXCEPT ![r] = @ + 1]
             \/ Sets(r, f, "starting") /\ UNCHANGED completed
      BY <3>1 DEF Takes, rvars
    <3>3. faults' \in 0..MaxFaults /\ kills' \in 0..MaxKills
      BY <1>0, <3>2 DEF JobsTyped
    <3> QED
      BY <3>2, <3>3, JobMoves DEF Busy, Answered
  <2>4. CASE \E f \in Folder : Spawns(r, f)
    <3>1. PICK f \in Folder : Spawns(r, f)
      BY <2>4
    <3>2. /\ batch[r] = "pool" /\ job[r][f] = "starting" /\ Sets(r, f, "running")
          /\ UNCHANGED <<batch, todo, completed, failed, faults, kills>>
      BY <3>1 DEF Spawns, Launches
    <3>3. f \in todo[r]
      BY <3>2 DEF AccountsInv, Kept
    <3>4. faults' \in 0..MaxFaults /\ kills' \in 0..MaxKills
      BY <1>0, <3>2 DEF JobsTyped
    <3> QED
      BY <3>2, <3>3, <3>4, JobMoves DEF Busy, Answered
  <2>5. CASE \E f \in Folder : Ends(r, f)
    <3>1. PICK f \in Folder : Ends(r, f)
      BY <2>5
    <3>2. /\ batch[r] = "pool" /\ job[r][f] = "running"
          /\ UNCHANGED <<batch, todo, faults, kills>>
          /\ \/ Sets(r, f, "complete") /\ completed' = [completed EXCEPT ![r] = @ + 1] /\ UNCHANGED failed
             \/ Sets(r, f, "failed") /\ failed' = [failed EXCEPT ![r] = @ \cup {f}] /\ UNCHANGED completed
      BY <3>1 DEF Ends, rvars
    <3>3. f \in todo[r]
      BY <3>2 DEF AccountsInv, Kept
    <3>4. faults' \in 0..MaxFaults /\ kills' \in 0..MaxKills
      BY <1>0, <3>2 DEF JobsTyped
    <3> QED
      BY <3>2, <3>3, <3>4, JobMoves DEF Busy, Answered
  <2> QED
    BY <1>3, <2>1, <2>2, <2>3, <2>4, <2>5 DEF Batch
<1>4. ASSUME NEW r \in Runner, Dies(r) PROVE AccountsInv'
  <2>1. /\ batch' = [batch EXCEPT ![r] = "killed"] /\ UNCHANGED todo
        /\ UNCHANGED <<job, completed, failed>> /\ UNCHANGED faults
        /\ kills < MaxKills /\ kills' = kills + 1
    BY <1>4 DEF Dies
  <2>2. todo' = [todo EXCEPT ![r] = todo[r]] /\ todo[r] \in SUBSET Asked[r]
    BY <1>0, <2>1 DEF AccountsInv, JobsTyped, Kept
  <2>3. faults' \in 0..MaxFaults /\ kills' \in 0..MaxKills
    BY <1>0, <2>1 DEF JobsTyped
  <2> QED
    BY <1>2, <2>1, <2>2, <2>3
<1>5. ASSUME NEW r \in Runner, NEW f \in Folder, Loses(r, f) PROVE AccountsInv'
  <2>1. /\ batch[r] = "pool" /\ job[r][f] \in Busy /\ Sets(r, f, "failed")
        /\ failed' = [failed EXCEPT ![r] = @ \cup {f}]
        /\ UNCHANGED <<batch, todo, completed, kills>> /\ faults < MaxFaults /\ faults' = faults + 1
    BY <1>5 DEF Loses, Breaks
  <2>2. f \in todo[r]
    BY <2>1 DEF AccountsInv, Kept, Busy
  <2>3. faults' \in 0..MaxFaults /\ kills' \in 0..MaxKills
    BY <1>0, <2>1 DEF JobsTyped
  <2> QED
    BY <2>1, <2>2, <2>3, JobMoves DEF Answered
<1>6. ASSUME NEW p \in Process, ByHand(p) PROVE AccountsInv'
  BY <1>0, <1>1, <1>6 DEF ByHand, Launches, JobsTyped
<1>7. ASSUME NEW p \in Process, Gael(p) \/ World(p) PROVE AccountsInv'
  BY <1>0, <1>1, <1>7, WaysOfAProcess DEF Gael, World, JobsTyped, Bounded
<1>8. CASE UNCHANGED vars
  BY <1>0, <1>1, <1>8 DEF vars, rvars, JobsTyped
<1> QED
  BY <1>3, <1>4, <1>5, <1>6, <1>7, <1>8 DEF Next

\* What a table becomes when its folder's GAEL writes on it.
Becomes(p, rows) ==
    /\ \A f \in Folder \ {FolderOf[p]} : csv'[f] = csv[f]
    /\ csv'[FolderOf[p]].by = csv[FolderOf[p]].by
    /\ csv'[FolderOf[p]].rows \in {rows, "mixed"}
    /\ csv'[FolderOf[p]].rows = rows => csv[FolderOf[p]].by = p

\* Rows become what is written only in a file nobody else has truncated since.
LEMMA RowsWritten ==
    ASSUME csv \in [Folder -> Table], NEW p \in Process, NEW rows \in {"some", "all"}, RowsBecome(p, rows)
    PROVE  Becomes(p, rows)
<1> DEFINE g == FolderOf[p]
<1>0. g \in Folder /\ csv[g] \in Table
  BY ReportAssumption
<1>1. PICK r \in {rows, "mixed"} :
          /\ csv' = [csv EXCEPT ![g] = [csv[g] EXCEPT !.rows = r]]
          /\ r = rows => csv[g].by = p
  BY <1>0 DEF RowsBecome
<1>2. [csv[g] EXCEPT !.rows = r] = [rows |-> r, by |-> csv[g].by]
  BY <1>0 DEF Table
<1> HIDE DEF g
<1>3. csv'[g] = [rows |-> r, by |-> csv[g].by] /\ \A f \in Folder \ {g} : csv'[f] = csv[f]
  BY <1>0, <1>1, <1>2
<1>4. csv'[g].by = csv[g].by /\ csv'[g].rows = r
  BY <1>3
<1> QED
  BY <1>1, <1>3, <1>4 DEF Becomes, g

\* A GAEL's step: it finishes its own table or leaves the tables alone, and never makes
\* one unmade.
LEMMA TablesComplete ==
    ASSUME Inv, TablesInv, DoneInv, faults \in 0..MaxFaults, kills \in 0..MaxKills,
           NEW p \in Process, Gael(p) \/ World(p)
    PROVE  DoneInv'
<1>0. /\ at \in [Process -> Places] /\ csv \in [Folder -> Table] /\ FolderOf[p] \in Folder
      /\ ReportTyped /\ Sound(p) /\ UNCHANGED bvars
      /\ Proceeds(p) \/ Ticks(p) \/ Killed(p) \/ Sigterm(p)
  BY ReportAssumption DEF TablesInv, TablesTyped, Inv, Gael, World
<1>1. Bounded /\ (OpensTable(p) \/ WritesRows(p) \/ ClosesTable(p) \/ Away(p))
  BY <1>0, WaysOfAProcess
<1>2. UNCHANGED opts /\ \A q \in Process \ {p} : at'[q] = at[q] /\ code'[q] = code[q]
  BY <1>0, OwnSteps, OptionsStay DEF own
<1>3. Calm' => Calm
  BY <1>0, <1>1 DEF Bounded, Calm
\* A table that is there stays there.
<1>4. \A f \in Folder : csv[f].rows # "none" => csv'[f].rows # "none"
  <2>1. CASE OpensTable(p)
    BY <1>0, <2>1 DEF OpensTable
  <2>2. CASE WritesRows(p) \/ ClosesTable(p)
    <3>1. \E rows \in {"some", "all"} : Becomes(p, rows)
      BY <1>0, <2>2, RowsWritten DEF WritesRows, ClosesTable
    <3> QED
      BY <3>1 DEF Becomes
  <2>3. CASE Away(p)
    BY <2>3 DEF Away
  <2> QED
    BY <1>1, <2>1, <2>2, <2>3
<1>5. ASSUME NEW f \in Folder PROVE Tended(f)'
  <2>0. Tended(f)
    BY DEF DoneInv
  <2>1. CASE OpensTable(p)
    <3>1. CASE UNCHANGED csv
      <4>1. ~Calm' \/ at' = [at EXCEPT ![p] = "rows"]
        BY <1>0, <1>1, <2>1, <3>1 DEF OpensTable, Calm, Breaks, Goes, Works, Bounded
      <4>2. at[p] # "rows"
        BY <2>1 DEF OpensTable
      <4> QED
        BY <1>0, <1>2, <1>3, <2>0, <3>1, <4>1, <4>2 DEF Tended
    <3>2. CASE Works /\ Goes(p, "rows") /\ csv' = [csv EXCEPT ![FolderOf[p]] = [rows |-> "empty", by |-> p]]
      <4>1. at'[p] = "rows" /\ at[p] # "rows"
        BY <1>0, <2>1, <3>2 DEF OpensTable, Goes
      <4>2. CASE f = FolderOf[p]
        <5>1. csv'[f].by = p
          BY <1>0, <3>2, <4>2
        <5> QED
          BY <4>1, <4>2, <5>1 DEF Tended
      <4>3. CASE f # FolderOf[p]
        <5>1. csv'[f] = csv[f]
          BY <1>0, <3>2, <4>3
        <5> QED
          BY <1>2, <1>3, <2>0, <4>1, <5>1 DEF Tended
      <4> QED
        BY <4>2, <4>3
    <3> QED
      BY <2>1, <3>1, <3>2 DEF OpensTable
  <2>2. CASE WritesRows(p)
    <3>1. Becomes(p, "some") /\ at' = at /\ at[p] = "rows"
      BY <1>0, <2>2, RowsWritten DEF WritesRows
    <3>2. CASE f = FolderOf[p]
      BY <1>0, <3>1, <3>2 DEF Becomes, Tended
    <3>3. CASE f # FolderOf[p]
      BY <1>0, <1>3, <2>0, <3>1, <3>3 DEF Becomes, Tended
    <3> QED
      BY <3>2, <3>3
  <2>3. CASE ClosesTable(p)
    <3>1. Becomes(p, "all") \/ ~Calm'
      BY <1>0, <2>3, RowsWritten DEF ClosesTable, Breaks, Calm
    <3>2. at'[p] = "dump" /\ at[p] = "rows"
      BY <1>0, <2>3 DEF ClosesTable, Goes
    <3>3. CASE f = FolderOf[p]
      BY <3>1, <3>3 DEF Becomes, Tended
    <3>4. CASE f # FolderOf[p]
      <4>1. csv'[f] = csv[f] \/ ~Calm'
        BY <3>1, <3>4 DEF Becomes
      <4>2. csv[f].by # p \/ csv[f].rows \notin {"empty", "some"} \/ ~Calm
        BY <2>0, <3>4 DEF Tended
      <4> QED
        BY <1>2, <1>3, <2>0, <4>1, <4>2 DEF Tended
    <3> QED
      BY <3>3, <3>4
  <2>4. CASE Away(p)
    BY <1>2, <1>3, <2>0, <2>4 DEF Away, Tended
  <2> QED
    BY <1>1, <2>1, <2>2, <2>3, <2>4
<1>6. ASSUME NEW q \in Process PROVE Made(q)'
  <2>0. Made(q) /\ FolderOf[q] \in Folder
    BY ReportAssumption DEF DoneInv
  <2>1. q \notin Manual => opts'[q] = Quiet
    BY <1>2, <2>0 DEF Made
  <2>2. ASSUME Calm', \/ at'[q] \in {"rows", "dump"}
                      \/ code'[q] = "0" /\ ~opts'[q].synthetic /\ ~opts'[q].asks
        PROVE  csv'[FolderOf[q]].rows # "none"
    <3>1. CASE q # p
      BY <1>2, <1>3, <1>4, <2>0, <2>2, <3>1 DEF Made
    <3>2. CASE q = p /\ OpensTable(p)
      <4>1. CASE Goes(p, "rows") /\ csv' = [csv EXCEPT ![FolderOf[p]] = [rows |-> "empty", by |-> p]]
        BY <1>0, <3>2, <4>1
      <4>2. CASE ~(Goes(p, "rows") /\ csv' = [csv EXCEPT ![FolderOf[p]] = [rows |-> "empty", by |-> p]])
        BY <1>0, <2>2, <3>2, <4>2 DEF OpensTable, Breaks, Calm, ReportTyped
      <4> QED
        BY <4>1, <4>2
    <3>3. CASE q = p /\ (WritesRows(p) \/ ClosesTable(p))
      <4>1. \E rows \in {"some", "all"} : Becomes(p, rows)
        BY <1>0, <3>3, RowsWritten DEF WritesRows, ClosesTable
      <4> QED
        BY <3>3, <4>1 DEF Becomes
    <3>4. CASE q = p /\ Away(p)
      <4>1. /\ at'[p] \in {"rows", "dump"} => at'[p] = at[p]
            /\ code'[p] = "0" => code[p] = "0" \/ at[p] \in {"dump", "synthetic"} \/ opts[p].asks
            /\ csv' = csv
        BY <3>4 DEF Away
      <4>2. at[p] = "synthetic" => opts[p].synthetic
        BY <1>0 DEF Sound, Onward
      <4> QED
        BY <1>2, <1>3, <2>0, <2>2, <3>4, <4>1, <4>2 DEF Made
    <3> QED
      BY <1>1, <3>1, <3>2, <3>3, <3>4
  <2> QED
    BY <2>1, <2>2 DEF Made
<1>7. ASSUME NEW r \in Runner, NEW f \in Folder PROVE Stands(r, f)'
  BY <1>0, <1>3, <1>4 DEF DoneInv, Stands, bvars
<1> QED
  BY <1>5, <1>6, <1>7 DEF DoneInv

\* There is no table at first, and nobody who has written one.
LEMMA DoneInitially == Init => DoneInv
<1> SUFFICES ASSUME Init PROVE DoneInv
  OBVIOUS
<1> USE DEF Init, ReportInit
<1>1. ASSUME NEW f \in Folder PROVE Tended(f)
  BY <1>1 DEF Tended, NoTable
<1>2. ASSUME NEW p \in Process PROVE Made(p)
  BY <1>2 DEF Made
<1>3. ASSUME NEW r \in Runner, NEW f \in Folder PROVE Stands(r, f)
  BY <1>3 DEF Stands
<1> QED
  BY <1>1, <1>2, <1>3 DEF DoneInv

\* Every step leaves a table under each folder that is called complete.
LEMMA DoneStays == Inv /\ TablesInv /\ AccountsInv /\ DoneInv /\ [Next]_vars => DoneInv'
<1> SUFFICES ASSUME Inv, TablesInv, AccountsInv, DoneInv, [Next]_vars PROVE DoneInv'
  OBVIOUS
<1>0. /\ JobsTyped /\ ReportTyped /\ at \in [Process -> Places] /\ csv \in [Folder -> Table]
      /\ faults \in 0..MaxFaults /\ kills \in 0..MaxKills
  BY DEF AccountsInv, JobsTyped, Inv, ReportTyped, TablesInv, TablesTyped
\* One job at most is newly called complete or skipped, of a folder that has a table.
<1>1. ASSUME UNCHANGED <<csv, opts, at, code>>, Calm' => Calm,
             \A r \in Runner, f \in Folder :
                 Calm' /\ job'[r][f] \in {"skipped", "complete"} =>
                     job[r][f] = job'[r][f] \/ csv[f].rows # "none"
      PROVE  DoneInv'
  <2>1. ASSUME NEW f \in Folder PROVE Tended(f)'
    BY <1>1, <2>1 DEF DoneInv, Tended
  <2>2. ASSUME NEW p \in Process PROVE Made(p)'
    BY <1>1, <2>2 DEF DoneInv, Made
  <2>3. ASSUME NEW r \in Runner, NEW f \in Folder PROVE Stands(r, f)'
    BY <1>1, <2>3 DEF DoneInv, Stands
  <2> QED
    BY <2>1, <2>2, <2>3 DEF DoneInv
\* A GAEL is started.
<1>2. ASSUME NEW p \in Process, NEW o, Launches(p, o), p \notin Manual => o = Quiet,
             \A r \in Runner, f \in Folder :
                 job'[r][f] \in {"skipped", "complete"} => job[r][f] = job'[r][f]
      PROVE  DoneInv'
  <2>1. /\ UNCHANGED <<csv, faults, kills>> /\ at[p] \in {"none", "gone"}
        /\ at' = [at EXCEPT ![p] = "options"] /\ code' = [code EXCEPT ![p] = "none"]
        /\ opts' = [opts EXCEPT ![p] = o]
    BY <1>2 DEF Launches, Running, Goes
  <2>2. /\ at'[p] = "options" /\ code'[p] = "none" /\ opts'[p] = o /\ (Calm' <=> Calm)
        /\ \A q \in Process \ {p} : at'[q] = at[q] /\ code'[q] = code[q] /\ opts'[q] = opts[q]
    BY <1>0, <2>1 DEF ReportTyped, Calm
  <2>3. ASSUME NEW f \in Folder PROVE Tended(f)'
    <3>1. Tended(f)
      BY DEF DoneInv
    <3> QED
      BY <2>1, <2>2, <3>1 DEF Tended
  <2>4. ASSUME NEW q \in Process PROVE Made(q)'
    <3>1. Made(q)
      BY DEF DoneInv
    <3> QED
      BY <1>2, <2>1, <2>2, <3>1 DEF Made
  <2>5. ASSUME NEW r \in Runner, NEW f \in Folder PROVE Stands(r, f)'
    BY <1>2, <2>1, <2>2, <2>5 DEF DoneInv, Stands
  <2> QED
    BY <2>3, <2>4, <2>5 DEF DoneInv
<1>3. ASSUME NEW r \in Runner, Filters(r) \/ Returns(r) \/ Dies(r) PROVE DoneInv'
  BY <1>0, <1>1, <1>3 DEF Filters, Returns, Dies, rvars, Calm
<1>4. ASSUME NEW r \in Runner, NEW f \in Folder, Takes(r, f) PROVE DoneInv'
  <2>1. /\ UNCHANGED <<csv, opts, at, code, faults, kills>>
        /\ Sets(r, f, "starting") \/ (Sets(r, f, "skipped") /\ Processed(f))
    BY <1>4 DEF Takes, rvars
  <2>2. \A q \in Runner, g \in Folder :
            job'[q][g] = job[q][g] \/ job'[q][g] = "starting" \/ (g = f /\ Processed(f))
    BY <1>0, <2>1 DEF Sets, JobsTyped
  <2>3. Calm' => Calm
    BY <2>1 DEF Calm
  <2> QED
    BY <1>1, <2>1, <2>2, <2>3 DEF Processed
<1>5. ASSUME NEW r \in Runner, NEW f \in Folder, Spawns(r, f) PROVE DoneInv'
  <2>1. Launches(<<r, f>>, Quiet) /\ Sets(r, f, "running") /\ job[r][f] = "starting"
    BY <1>5 DEF Spawns
  <2>2. f \in Asked[r]
    BY <2>1 DEF AccountsInv, Kept
  <2>3. <<r, f>> \in Process
    BY <2>2, BatchAssumption
  <2>4. \A q \in Runner, g \in Folder : job'[q][g] = job[q][g] \/ job'[q][g] = "running"
    BY <1>0, <2>1 DEF Sets, JobsTyped
  <2> QED
    BY <1>2, <2>1, <2>3, <2>4
<1>6. ASSUME NEW r \in Runner, NEW f \in Folder, Ends(r, f) PROVE DoneInv'
  <2>1. /\ UNCHANGED <<csv, opts, at, code, faults, kills>> /\ job[r][f] = "running"
        /\ Sets(r, f, "failed") \/ (Sets(r, f, "complete") /\ code[<<r, f>>] = "0")
    BY <1>6 DEF Ends, rvars
  <2>2. f \in Asked[r]
    BY <2>1 DEF AccountsInv, Kept
  <2>3. <<r, f>> \in Process /\ FolderOf[<<r, f>>] = f /\ <<r, f>> \notin Manual
    BY <2>2, BatchAssumption DEF Manual
  <2>4. Made(<<r, f>>) /\ ~Quiet.synthetic /\ ~Quiet.asks
    BY <2>3 DEF DoneInv, Quiet
  <2>5. Calm /\ code[<<r, f>>] = "0" => csv[f].rows # "none"
    BY <2>3, <2>4 DEF Made
  <2>6. \A q \in Runner, g \in Folder :
            job'[q][g] = job[q][g] \/ job'[q][g] = "failed" \/ (g = f /\ code[<<r, f>>] = "0")
    BY <1>0, <2>1 DEF Sets, JobsTyped
  <2>7. Calm' => Calm
    BY <2>1 DEF Calm
  <2> QED
    BY <1>1, <2>1, <2>5, <2>6, <2>7
<1>7. ASSUME NEW r \in Runner, NEW f \in Folder, Loses(r, f) PROVE DoneInv'
  <2>1. UNCHANGED <<csv, opts, at, code>> /\ faults' = faults + 1
    BY <1>7 DEF Loses, Breaks
  <2>2. ~Calm'
    BY <1>0, <2>1 DEF Calm
  <2> QED
    BY <1>1, <2>1, <2>2
<1>8. ASSUME NEW p \in Process, ByHand(p) PROVE DoneInv'
  <2>1. p \in Manual /\ UNCHANGED job /\ \E o \in Commands : Launches(p, o)
    BY <1>8 DEF ByHand, bvars
  <2> QED
    BY <1>2, <2>1
<1>9. ASSUME NEW p \in Process, Gael(p) \/ World(p) PROVE DoneInv'
  BY <1>0, <1>9, TablesComplete
<1>10. CASE UNCHANGED vars
  BY <1>1, <1>10 DEF vars, rvars, bvars, Calm
<1> QED
  BY <1>3, <1>4, <1>5, <1>6, <1>7, <1>8, <1>9, <1>10 DEF Next, Batch

\* What the invariants say of a batch at any time.
LEMMA BatchIsRight == TablesInv /\ AccountsInv /\ DoneInv => DoneMeansTable
<1> SUFFICES ASSUME TablesInv, AccountsInv, DoneInv PROVE DoneMeansTable
  OBVIOUS
<1>1. ASSUME NEW r \in Runner, batch[r] = "returned"
      PROVE  /\ completed[r] = Cardinality(todo[r] \ failed[r])
             /\ failed[r] = {f \in todo[r] : job[r][f] = "failed"}
  <2>1. Kept(r) /\ todo[r] \subseteq Folder
    BY DEF AccountsInv, JobsTyped
  <2>2. DoneOf(r) = todo[r] \ failed[r]
    BY <1>1, <2>1 DEF Kept, DoneOf, Answered
  <2> QED
    BY <2>1, <2>2 DEF Kept
<1>2. ASSUME NEW r \in Runner, NEW f \in Folder, job[r][f] \in {"complete", "skipped"}
      PROVE  csv[f].rows = "all" \/ faults + kills > 0 \/ Writing(f) \/ csv[f].rows = "mixed"
  <2>1. CASE Calm
    <3>1. csv[f].rows # "none" /\ csv[f].rows \in {"none", "empty", "some", "all", "mixed"}
      BY <1>2, <2>1 DEF DoneInv, Stands, TablesInv, TablesTyped, Table
    <3>2. csv[f].rows \in {"empty", "some"} => Writing(f)
      BY <2>1 DEF DoneInv, Tended, Writing
    <3> QED
      BY <3>1, <3>2
  <2>2. CASE ~Calm
    <3>1. faults \in Nat /\ kills \in Nat
      BY ReportAssumption DEF AccountsInv, JobsTyped
    <3> QED
      BY <2>2, <3>1 DEF Calm
  <2> QED
    BY <2>1, <2>2
<1> QED
  BY <1>1, <1>2 DEF DoneMeansTable

\* The invariants have the types of everything.
LEMMA BatchIsTyped == Inv /\ TablesInv /\ AccountsInv => BatchTypeOK
<1> SUFFICES ASSUME Inv, TablesInv, AccountsInv PROVE BatchTypeOK
  OBVIOUS
<1>1. ReportTypeOK
  BY DEF Inv, ReportTyped, TablesInv, TablesTyped, AccountsInv, JobsTyped, ReportTypeOK, Files
<1>2. ASSUME NEW r \in Runner
      PROVE  /\ job[r] \in [Folder -> {"waiting"} \cup Busy \cup Answered]
             /\ found[r] \in [Folder -> BOOLEAN]
             /\ completed[r] \in 0..Cardinality(todo[r])
             /\ failed[r] \subseteq todo[r]
  <2>1. Kept(r) /\ job[r] \in [Folder -> {"waiting"} \cup Busy \cup Answered] /\ found[r] \in [Folder -> BOOLEAN]
    BY DEF TablesInv, TablesTyped, AccountsInv
  <2>2. completed[r] \in 0..Cardinality(todo[r])
    BY <2>1, DoneCounted DEF Kept
  <2> QED
    BY <2>1, <2>2 DEF Kept
<1> QED
  BY <1>1, <1>2 DEF BatchTypeOK, AccountsInv, JobsTyped

\* All of it together.
BatchInv == Inv /\ TablesInv /\ AccountsInv /\ DoneInv

\* The invariant of the processes, the tables, the accounts and what is done.
LEMMA BatchHeld == Spec => []BatchInv
<1>1. Init => BatchInv
  BY InvInitially, TablesInitially, AccountsInitially, DoneInitially DEF BatchInv
<1>2. BatchInv /\ [Next]_vars => BatchInv'
  <2>1. Inv => ReportTyped
    BY DEF Inv
  <2> QED
    BY <2>1, InvKept, TablesStay, AccountsStay, DoneStays DEF BatchInv
<1> QED
  BY <1>1, <1>2, PTL DEF Spec

\* A runner that returned has answered every folder it took once and lists those that
\* failed, and a folder it calls complete or skipped has a whole table unless
\* something failed, was killed or two GAELs worked there: for any runners,
\* ranges and workers.
THEOREM BatchTellsTrue == Spec => []DoneMeansTable
<1>1. BatchInv => DoneMeansTable
  BY BatchIsRight DEF BatchInv
<1> QED
  BY <1>1, BatchHeld, PTL

\* Every variable of the batch and of its processes keeps its type, the counter of
\* completed folders never passes the number of folders taken, and the folders that
\* failed are among them.
THEOREM BatchTypes == Spec => []BatchTypeOK
<1>1. BatchInv => BatchTypeOK
  BY BatchIsTyped DEF BatchInv
<1> QED
  BY <1>1, BatchHeld, PTL
=============================================================================
