---------------------------- MODULE RunLifecycle ----------------------------
(***************************************************************************)
(* cmd_run and cmd_stop of cli/main.py over one task's run_state.json      *)
(* (cli/run_state.py): processes started by `ai-agent run`, commands       *)
(* `ai-agent stop`, the operating system's process ids, and the programs   *)
(* that may be given a pid after a run has left it.                        *)
(*                                                                         *)
(* write_state truncates the file and then fills it, so a write is two     *)
(* steps.  Everything Orchestrator.run does is one step here.              *)
(***************************************************************************)
EXTENDS Naturals

CONSTANTS
    Runs,     \* processes that execute cmd_run for the task
    Stops,    \* processes that execute cmd_stop for the task
    Pids      \* process ids; one is free again when its process has ended

ASSUME PidsAssumption == "none" \notin Pids

VARIABLES
    file,     \* run_state.json: its status and pid
    pc,       \* where a run stands
    pid,      \* the pid a run has or had
    status,   \* the status field of a run's RunState object
    verdict,  \* what Orchestrator.run returned to it
    armed,    \* its SIGTERM handler is installed
    pending,  \* a SIGTERM was sent to it and not yet taken
    cut,      \* the status whose write the handler interrupted
    frame,    \* whose frame the handler was called from, if it was
    code,     \* how it ended
    reports,  \* the runs whose report was written
    stopPc, seen,   \* where a stop stands, and the pid it read
    others          \* pids held by unrelated programs

runVars == <<pc, pid, status, verdict, armed, pending, cut, frame, code, reports>>
stopVars == <<stopPc, seen>>
vars == <<file, runVars, stopVars, others>>

Verdicts == {"READY_FOR_HUMAN_REVIEW", "BLOCKED"}

Absent == [status |-> "ABSENT", pid |-> "none"]
Torn   == [status |-> "TORN", pid |-> "none"]
Saved(s, p) == [status |-> s, pid |-> p]

Alive(r) == pc[r] \notin {"idle", "exited"}
FreePids == Pids \ (others \cup {pid[r] : r \in {q \in Runs : Alive(q)}})

Init ==
    /\ file = Absent
    /\ pc = [r \in Runs |-> "idle"]
    /\ pid = [r \in Runs |-> "none"]
    /\ status = [r \in Runs |-> "none"]
    /\ verdict = [r \in Runs |-> "none"]
    /\ armed = [r \in Runs |-> FALSE]
    /\ pending = [r \in Runs |-> FALSE]
    /\ cut = [r \in Runs |-> "none"]
    /\ frame = [r \in Runs |-> "none"]
    /\ code = [r \in Runs |-> "none"]
    /\ reports = {}
    /\ stopPc = [s \in Stops |-> "idle"]
    /\ seen = [s \in Stops |-> "none"]
    /\ others = {}

-----------------------------------------------------------------------------
(* cmd_run *)

Launch(r) ==
    /\ pc[r] = "idle"
    /\ \E p \in FreePids : pid' = [pid EXCEPT ![r] = p]
    /\ status' = [status EXCEPT ![r] = "RUNNING"]
    /\ pc' = [pc EXCEPT ![r] = "open"]
    /\ UNCHANGED <<file, verdict, armed, pending, cut, frame, code, reports, stopVars, others>>

\* write_state, first half: the file is opened for writing and is empty.
Open(r) ==
    /\ pc[r] = "open"
    /\ file' = Torn
    /\ pc' = [pc EXCEPT ![r] = "write"]
    /\ UNCHANGED <<pid, status, verdict, armed, pending, cut, frame, code, reports, stopVars, others>>

\* Mutant of Contents: the pid goes missing, as when the object is built anew.
ContentsWithoutPid(r) == {Saved(status[r], "none")}

\* What a finished write leaves.  A write the signal handler interrupted is
\* completed, over the handler's, when its file is closed by the SystemExit; or
\* it had buffered nothing yet, or its bytes do not cover the handler's.
Contents(r) ==
    {Saved(status[r], pid[r])} \cup
        IF cut[r] = "none" THEN {} ELSE {Saved(cut[r], pid[r]), Torn}

\* Mutant of PcAfterWrite: the handler saves its state and does not exit.
PcAfterWriteGoesOn(s) ==
    IF s = "RUNNING" THEN "health" ELSE IF s \in Verdicts THEN "report"
    ELSE IF s = "STOPPED" THEN "orchestrating" ELSE "exited"

PcAfterWrite(s) ==
    IF s = "RUNNING" THEN "health" ELSE IF s \in Verdicts THEN "report" ELSE "exited"

\* Second half.  ERROR and STOPPED are the last thing a run writes.
Write(r) ==
    /\ pc[r] = "write"
    /\ file' \in Contents(r)
    /\ pc' = [pc EXCEPT ![r] = PcAfterWrite(status[r])]
    /\ code' = [code EXCEPT ![r] = IF status[r] = "ERROR" THEN "unhealthy"
                                   ELSE IF status[r] = "STOPPED" THEN "stopped"
                                   ELSE @]
    /\ UNCHANGED <<pid, status, verdict, armed, pending, cut, frame, reports, stopVars, others>>

HealthCheck(r) ==
    /\ pc[r] = "health"
    /\ \/ pc' = [pc EXCEPT ![r] = "setup"] /\ UNCHANGED status
       \/ /\ pc' = [pc EXCEPT ![r] = "open"]
          /\ status' = [status EXCEPT ![r] = "ERROR"]
    /\ UNCHANGED <<file, pid, verdict, armed, pending, cut, frame, code, reports, stopVars, others>>

InstallHandler(r) ==
    /\ pc[r] = "setup"
    /\ pc' = [pc EXCEPT ![r] = "orchestrating"]
    /\ armed' = [armed EXCEPT ![r] = TRUE]
    /\ UNCHANGED <<file, pid, status, verdict, pending, cut, frame, code, reports, stopVars, others>>

\* Mutant of OrchestratorReturns: READY is written whatever was returned.
OrchestratorAlwaysReady(r) ==
    /\ pc[r] = "orchestrating"
    /\ \E v \in Verdicts : verdict' = [verdict EXCEPT ![r] = v]
    /\ status' = [status EXCEPT ![r] = "READY_FOR_HUMAN_REVIEW"]
    /\ pc' = [pc EXCEPT ![r] = "open"]
    /\ UNCHANGED <<file, pid, armed, pending, cut, frame, code, reports, stopVars, others>>

OrchestratorReturns(r) ==
    /\ pc[r] = "orchestrating"
    /\ \E v \in Verdicts :
          /\ verdict' = [verdict EXCEPT ![r] = v]
          /\ status' = [status EXCEPT ![r] = v]
    /\ pc' = [pc EXCEPT ![r] = "open"]
    /\ UNCHANGED <<file, pid, armed, pending, cut, frame, code, reports, stopVars, others>>

\* Mutant of WriteReport: a blocked run exits with 0 as well.
WriteReportExitsZero(r) ==
    /\ pc[r] = "report"
    /\ reports' = reports \cup {r}
    /\ code' = [code EXCEPT ![r] = "0"]
    /\ pc' = [pc EXCEPT ![r] = "exited"]
    /\ UNCHANGED <<file, pid, status, verdict, armed, pending, cut, frame, stopVars, others>>

\* The handler stays installed while the report is written.
WriteReport(r) ==
    /\ pc[r] = "report"
    /\ reports' = reports \cup {r}
    /\ code' = [code EXCEPT ![r] = IF verdict[r] = "BLOCKED" THEN "2" ELSE "0"]
    /\ pc' = [pc EXCEPT ![r] = "exited"]
    /\ UNCHANGED <<file, pid, status, verdict, armed, pending, cut, frame, stopVars, others>>

\* What an exception leaves of the file: the files it passes on its way are closed,
\* which writes what they had buffered, or fails and does not.
Abandoned(r) ==
    {file} \cup (IF pc[r] = "write" THEN {Saved(status[r], pid[r])} ELSE {})
           \cup (IF cut[r] = "none" THEN {} ELSE {Saved(cut[r], pid[r]), Torn})

\* An exception that leaves cmd_run: the disk is full, Orchestrator.run raises, or
\* generate_report does, over a forbidden phrase in whatever text it was given.
Raises(r) ==
    /\ Alive(r)
    /\ file' \in Abandoned(r)
    /\ code' = [code EXCEPT ![r] = "error"]
    /\ pc' = [pc EXCEPT ![r] = "exited"]
    /\ UNCHANGED <<pid, status, verdict, armed, pending, cut, frame, reports, stopVars, others>>

\* The handler runs on top of the orchestrator's frames.  An OSError of its
\* write_state is one of theirs: execute() answers the model with it, or the step
\* is blocked, and the run goes on.  The same happens to the SystemExit when a
\* `finally` or a file that is closed on its way raises in its place.
Swallowed(r) ==
    /\ pc[r] \in {"open", "write"} /\ frame[r] = "orchestrator"
    /\ file' \in Abandoned(r)
    /\ pc' = [pc EXCEPT ![r] = "orchestrating"]
    /\ cut' = [cut EXCEPT ![r] = "none"]
    /\ frame' = [frame EXCEPT ![r] = "swallowed"]
    /\ UNCHANGED <<pid, status, verdict, armed, pending, code, reports, stopVars, others>>

\* Ctrl-C, which closes files as well, or SIGKILL: no state is saved by itself.
Dies(r) ==
    /\ Alive(r)
    /\ \/ /\ file' \in Abandoned(r)
          /\ code' = [code EXCEPT ![r] = "130"]
       \/ /\ code' = [code EXCEPT ![r] = "killed"]
          /\ UNCHANGED file
    /\ pc' = [pc EXCEPT ![r] = "exited"]
    /\ UNCHANGED <<pid, status, verdict, armed, pending, cut, frame, reports, stopVars, others>>

InHandler(r) == frame[r] \in {"orchestrator", "cmd_run"}

\* Mutant of TakeSignal: the handler exits and saves nothing.
TakeSignalUnsaved(r) ==
    /\ pending[r] /\ Alive(r)
    /\ pending' = [pending EXCEPT ![r] = FALSE]
    /\ pc' = [pc EXCEPT ![r] = "exited"]
    /\ code' = [code EXCEPT ![r] = IF armed[r] THEN "stopped" ELSE "killed"]
    /\ UNCHANGED <<file, pid, status, verdict, armed, cut, frame, reports, stopVars, others>>

\* SIGTERM kills a run that has no handler yet.  The handler saves STOPPED and
\* exits, wherever the run stands, also inside a write_state of its own or of the
\* handler.
TakeSignal(r) ==
    /\ pending[r] /\ Alive(r)
    /\ pending' = [pending EXCEPT ![r] = FALSE]
    /\ IF armed[r]
       THEN /\ status' = [status EXCEPT ![r] = "STOPPED"]
            /\ cut' = [cut EXCEPT ![r] = IF pc[r] = "write" /\ @ = "none"
                                         THEN status[r] ELSE @]
            /\ frame' = [frame EXCEPT ![r] = IF pc[r] = "orchestrating" THEN "orchestrator"
                                             ELSE IF InHandler(r) THEN @ ELSE "cmd_run"]
            /\ pc' = [pc EXCEPT ![r] = "open"]
            /\ UNCHANGED code
       ELSE /\ pc' = [pc EXCEPT ![r] = "exited"]
            /\ code' = [code EXCEPT ![r] = "killed"]
            /\ UNCHANGED <<status, cut, frame>>
    /\ UNCHANGED <<file, pid, verdict, armed, reports, stopVars, others>>

-----------------------------------------------------------------------------
(* cmd_stop *)

\* read_state answers None for a missing file and for one that is half written.
ReadState(s) ==
    /\ stopPc[s] = "idle"
    /\ IF file.status = "RUNNING"
       THEN /\ seen' = [seen EXCEPT ![s] = file.pid]
            /\ stopPc' = [stopPc EXCEPT ![s] = "kill"]
       ELSE /\ stopPc' = [stopPc EXCEPT ![s] = IF file \in {Absent, Torn} THEN "unknown"
                                                                          ELSE "refused"]
            /\ UNCHANGED seen
    /\ UNCHANGED <<file, runVars, others>>

\* os.kill reaches whatever has the pid now; an unrelated program may end of it
\* (OtherEnds) or not.
SendTerm(s) ==
    /\ stopPc[s] = "kill"
    /\ \/ \E r \in Runs :
             /\ Alive(r) /\ pid[r] = seen[s]
             /\ pending' = [pending EXCEPT ![r] = TRUE]
             /\ stopPc' = [stopPc EXCEPT ![s] = "sent"]
       \/ /\ seen[s] \in others
          /\ stopPc' = [stopPc EXCEPT ![s] = "misfired"]
          /\ UNCHANGED pending
       \/ /\ seen[s] \in FreePids
          /\ stopPc' = [stopPc EXCEPT ![s] = "open"]
          /\ UNCHANGED pending
    /\ UNCHANGED <<file, pc, pid, status, verdict, armed, cut, frame, code, reports, seen, others>>

\* "Process not found - marking as stopped": the state read before is saved.
StopOpen(s) ==
    /\ stopPc[s] = "open"
    /\ file' = Torn
    /\ stopPc' = [stopPc EXCEPT ![s] = "write"]
    /\ UNCHANGED <<runVars, seen, others>>

StopWrite(s) ==
    /\ stopPc[s] = "write"
    /\ file' = Saved("STOPPED", seen[s])
    /\ stopPc' = [stopPc EXCEPT ![s] = "marked"]
    /\ UNCHANGED <<runVars, seen, others>>

-----------------------------------------------------------------------------

OtherStarts ==
    /\ \E p \in FreePids : others' = others \cup {p}
    /\ UNCHANGED <<file, runVars, stopVars>>

OtherEnds ==
    /\ \E p \in others : others' = others \ {p}
    /\ UNCHANGED <<file, runVars, stopVars>>

Run(r) ==
    Launch(r) \/ Open(r) \/ Write(r) \/ HealthCheck(r) \/ InstallHandler(r)
        \/ OrchestratorReturns(r) \/ WriteReport(r) \/ Raises(r) \/ Swallowed(r)
        \/ Dies(r) \/ TakeSignal(r)

Stop(s) == ReadState(s) \/ SendTerm(s) \/ StopOpen(s) \/ StopWrite(s)

Next ==
    \/ \E r \in Runs : Run(r)
    \/ \E s \in Stops : Stop(s)
    \/ OtherStarts
    \/ OtherEnds

Spec == Init /\ [][Next]_vars

\* The operating system delivers signals and a run that writes a file goes on;
\* nothing is assumed of the orchestrator.
Fairness == \A r \in Runs : WF_vars(Open(r) \/ Write(r)) /\ WF_vars(TakeSignal(r))

FairSpec == Spec /\ Fairness

-----------------------------------------------------------------------------
(* Properties *)

Statuses == {"RUNNING", "ERROR", "STOPPED"} \cup Verdicts

\* The shape of the state.
TypeOK ==
    /\ file \in {Absent, Torn} \cup [status : Statuses, pid : Pids]
    /\ pc \in [Runs -> {"idle", "open", "write", "health", "setup", "orchestrating",
                        "report", "exited"}]
    /\ pid \in [Runs -> Pids \cup {"none"}]
    /\ status \in [Runs -> Statuses \cup {"none"}]
    /\ verdict \in [Runs -> Verdicts \cup {"none"}]
    /\ armed \in [Runs -> BOOLEAN]
    /\ pending \in [Runs -> BOOLEAN]
    /\ cut \in [Runs -> Verdicts \cup {"STOPPED", "none"}]
    /\ frame \in [Runs -> {"none", "orchestrator", "cmd_run", "swallowed"}]
    /\ code \in [Runs -> {"none", "0", "2", "130", "error", "killed", "unhealthy", "stopped"}]
    /\ reports \in SUBSET Runs
    /\ stopPc \in [Stops -> {"idle", "kill", "open", "write", "sent", "misfired", "marked",
                             "unknown", "refused"}]
    /\ seen \in [Stops -> Pids \cup {"none"}]
    /\ others \in SUBSET Pids

\* A verdict on disk is one an orchestrator gave: some run with the file's pid
\* got it back from Orchestrator.run, through signals inside the write, stops
\* and concurrent runs of the task.
SavedVerdictIsReal ==
    file.status \in Verdicts =>
        \E r \in Runs : pid[r] = file.pid /\ verdict[r] = file.status

\* The exit code, the report and the verdict agree: a script that reads 0 has a
\* report to open on a run that is ready, and 2 one that is blocked.
ExitCodeMatchesVerdict ==
    \A r \in Runs :
        /\ code[r] = "0" => r \in reports /\ verdict[r] = "READY_FOR_HUMAN_REVIEW"
        /\ code[r] = "2" => r \in reports /\ verdict[r] = "BLOCKED"

\* A run that ended in an orderly way, also one ended by its handler, does not
\* stay RUNNING in the file.  (The pid is a later run's if another has it.)
OrderlyEndIsSaved ==
    \A r \in Runs :
        code[r] \in {"0", "2", "unhealthy", "stopped"} /\ file = Saved("RUNNING", pid[r])
            => \E q \in Runs \ {r} : pid[q] = pid[r]

\* A SIGTERM that was sent to a run is taken or the run has ended; and a handler,
\* also one that was interrupted by the next, ends the run, unless an exception on
\* its way out was caught in the orchestrator: then the run goes on.
SignalEndsRun ==
    \A r \in Runs :
        /\ pending[r] ~> pc[r] = "exited" \/ InHandler(r)
        /\ InHandler(r) ~> pc[r] = "exited" \/ frame[r] = "swallowed"
=============================================================================
