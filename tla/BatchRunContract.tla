-------------------------- MODULE BatchRunContract --------------------------
(***************************************************************************)
(* What a client of the REST API may rely on about Batch Runs: one run is  *)
(* retained, a running run is never replaced, each result goes from        *)
(* pending through running to one verdict, and results move only while     *)
(* their run is running.                                                   *)
(***************************************************************************)
CONSTANTS Runs, Servers, NoRun, StoreMayFail

VARIABLES run, status, verdict

vars == <<run, status, verdict>>

Execs == Runs \X Servers
Unfinished == {"pending", "running"}
Finished == {"success", "exit", "error", "cancelled", "unpersisted",
             "interrupted"}

Init ==
    /\ run = NoRun
    /\ status = "none"
    /\ verdict = [e \in Execs |-> "none"]

\* A dispatch is accepted: the retained run and its results are replaced.
Replace(r, targets) ==
    /\ status # "running"
    /\ r # run
    /\ run' = r
    /\ status' = "running"
    /\ verdict' = [e \in Execs |->
                    IF e \in {r} \X targets THEN "pending" ELSE "none"]

\* One result of the running run makes progress.
Advance(e) ==
    /\ status = "running"
    /\ e[1] = run
    /\ verdict[e] \in Unfinished
    /\ \E v \in {"running"} \cup Finished : verdict' = [verdict EXCEPT ![e] = v]
    /\ UNCHANGED <<run, status>>

\* The run is done; with a reliable store every result then has a verdict.
Finish ==
    /\ status = "running"
    /\ ~StoreMayFail => \A e \in Execs : verdict[e] \notin Unfinished
    /\ status' = "done"
    /\ UNCHANGED <<run, verdict>>

Next ==
    \/ \E r \in Runs, targets \in SUBSET Servers \ {{}} : Replace(r, targets)
    \/ \E e \in Execs : Advance(e)
    \/ Finish

Spec == Init /\ [][Next]_vars

=============================================================================
