--------------------------- MODULE MCBatchRunner ---------------------------
(***************************************************************************)
(* Two runners whose ranges overlap in one folder; and a GAEL started      *)
(* twice by hand with every combination of reports.                        *)
(***************************************************************************)
EXTENDS BatchRunner

CONSTANTS hand, r1, r2, f1, f2

MCRunner   == {r1, r2}
MCAsked    == [r \in MCRunner |-> IF r = r1 THEN {f1, f2} ELSE {f1}]
MCFolder   == {f1, f2}
MCProcess  == {<<r1, f1>>, <<r1, f2>>, <<r2, f1>>, <<hand, f1>>}
MCFolderOf == [p \in MCProcess |-> p[2]]

MCCommands ==
    {[Quiet EXCEPT !.status = s, !.result = r, !.dump = s] : s, r \in BOOLEAN}
    \cup {[Quiet EXCEPT !.result = TRUE, !.synthetic = TRUE],
          [Quiet EXCEPT !.status = TRUE, !.quits = TRUE],
          [Quiet EXCEPT !.progress = TRUE],
          [Quiet EXCEPT !.status = TRUE, !.bad = TRUE],
          [Quiet EXCEPT !.result = TRUE, !.asks = TRUE]}
=============================================================================
