--------------------------- MODULE LifecycleProofs ---------------------------
(***************************************************************************)
(* Proofs about RunLifecycle.  What the file says of a verdict is real     *)
(* because a run's status, and the write its handler interrupted, can only *)
(* be the verdict it was given, and a run with a verdict never goes back   *)
(* to its orchestrator: a handler whose exception is caught there was      *)
(* called from there.  An orderly end is saved because the file says       *)
(* RUNNING only while its writer has not opened it again.                  *)
(***************************************************************************)
EXTENDS RunLifecycle, FiniteSetTheorems, TLAPS

Orderly == {"0", "2", "unhealthy", "stopped"}

\* One run's own bookkeeping.
RunOK(r) ==
    /\ pc[r] # "idle" => pid[r] \in Pids /\ status[r] \in Statuses
    /\ status[r] \in Verdicts => status[r] = verdict[r]
    /\ cut[r] \in Verdicts => cut[r] = verdict[r]
    /\ armed[r] =>
         /\ pc[r] \in {"orchestrating", "open", "write", "report", "exited"}
         /\ pc[r] \in {"open", "write"} => status[r] \in Verdicts \cup {"STOPPED"}
    /\ frame[r] = "orchestrator" =>
         /\ pc[r] \in {"open", "write", "exited"}
         /\ status[r] = "STOPPED" /\ verdict[r] = "none"
    /\ verdict[r] # "none" =>
         /\ pc[r] \in {"open", "write", "report", "exited"}
         /\ status[r] \in Verdicts \cup {"STOPPED"}
    /\ pc[r] = "report" => verdict[r] # "none"
    /\ code[r] # "none" => pc[r] = "exited"

\* The run that wrote RUNNING has not opened the file since.
WriterOfRunning(q) ==
    \/ pc[q] \in {"health", "setup", "orchestrating", "open"}
    \/ pc[q] = "exited" /\ code[q] \notin Orderly

RunningIsWritten ==
    file.status = "RUNNING" => \E q \in Runs : pid[q] = file.pid /\ WriterOfRunning(q)

\* A stop that acts has read a pid.
StopsOK == \A s \in Stops : stopPc[s] \in {"kill", "open", "write"} => seen[s] \in Pids

IInv ==
    /\ TypeOK
    /\ StopsOK
    /\ \A r \in Runs : RunOK(r)
    /\ SavedVerdictIsReal
    /\ ExitCodeMatchesVerdict
    /\ RunningIsWritten

-----------------------------------------------------------------------------

\* The initial state satisfies the invariant.
LEMMA LifecycleInit == Init => IInv
  BY DEF Init, IInv, TypeOK, StopsOK, RunOK, SavedVerdictIsReal, ExitCodeMatchesVerdict,
         RunningIsWritten, Absent, Torn, Verdicts, Statuses

\* A step of one run leaves the variables of the others alone.
Others(r) ==
    \A q \in Runs \ {r} :
        /\ pc'[q] = pc[q] /\ pid'[q] = pid[q] /\ status'[q] = status[q]
        /\ verdict'[q] = verdict[q] /\ cut'[q] = cut[q] /\ code'[q] = code[q]
        /\ armed'[q] = armed[q] /\ frame'[q] = frame[q]

\* What is left to show of a step of r: its own part, what it wrote, and that
\* it neither loses its verdict nor its claim to the RUNNING it wrote.
LEMMA StepOfRun ==
    ASSUME IInv, NEW r \in Runs, TypeOK', Others(r), RunOK(r)',
           UNCHANGED <<stopPc, seen>>, reports \subseteq reports',
           \/ file' = file
           \/ file'.status \notin Verdicts \cup {"RUNNING"}
           \/ file'.status \in Verdicts /\ file'.pid = pid'[r] /\ verdict'[r] = file'.status
           \/ file'.status = "RUNNING" /\ file'.pid = pid'[r] /\ WriterOfRunning(r)',
           verdict[r] # "none" => verdict'[r] = verdict[r],
           pc[r] # "idle" => pid'[r] = pid[r],
           code'[r] = "0" => r \in reports' /\ verdict'[r] = "READY_FOR_HUMAN_REVIEW",
           code'[r] = "2" => r \in reports' /\ verdict'[r] = "BLOCKED",
           file' = file /\ file.status = "RUNNING" /\ WriterOfRunning(r) => WriterOfRunning(r)'
    PROVE  IInv'
<1>1. \A q \in Runs : RunOK(q)'
  BY DEF IInv, RunOK, Others
<1>2. SavedVerdictIsReal'
  <2>1. CASE file' = file /\ file.status \in Verdicts
    <3>1. PICK q \in Runs : pid[q] = file.pid /\ verdict[q] = file.status
      BY <2>1 DEF IInv, SavedVerdictIsReal
    <3>2. verdict[q] # "none" /\ pc[q] # "idle"
      BY <3>1, <2>1 DEF IInv, RunOK, Verdicts
    <3>3. pid'[q] = pid[q] /\ verdict'[q] = verdict[q]
      BY <3>2 DEF Others
    <3> QED  BY <3>1, <3>3, <2>1 DEF SavedVerdictIsReal
  <2>2. CASE ~(file' = file /\ file.status \in Verdicts)
    BY <2>2 DEF SavedVerdictIsReal, Verdicts
  <2> QED  BY <2>1, <2>2
<1>3. ExitCodeMatchesVerdict'
  BY DEF IInv, ExitCodeMatchesVerdict, Others
<1>4. RunningIsWritten'
  <2>1. CASE file' = file /\ file.status = "RUNNING"
    <3>1. PICK q \in Runs : pid[q] = file.pid /\ WriterOfRunning(q)
      BY <2>1 DEF IInv, RunningIsWritten
    <3>2. pc[q] # "idle"
      BY <3>1 DEF WriterOfRunning
    <3>3. pid'[q] = pid[q] /\ WriterOfRunning(q)'
      BY <3>1, <3>2, <2>1 DEF Others, WriterOfRunning
    <3> QED  BY <3>1, <3>3, <2>1 DEF RunningIsWritten
  <2>2. CASE ~(file' = file /\ file.status = "RUNNING")
    BY <2>2 DEF RunningIsWritten, Verdicts
  <2> QED  BY <2>1, <2>2
<1>5. StopsOK'
  BY DEF IInv, StopsOK
<1> QED  BY <1>1, <1>2, <1>3, <1>4, <1>5 DEF IInv

\* A step that leaves the runs alone and saves at most STOPPED.
LEMMA StepOfOther ==
    ASSUME IInv, TypeOK', StopsOK',
           UNCHANGED <<pc, pid, status, verdict, armed, cut, frame, code, reports>>,
           file' = file \/ file'.status \notin Verdicts \cup {"RUNNING"}
    PROVE  IInv'
<1>1. \A q \in Runs : RunOK(q)'
  BY DEF IInv, RunOK
<1>2. SavedVerdictIsReal'
  BY DEF IInv, SavedVerdictIsReal
<1>3. ExitCodeMatchesVerdict'
  BY DEF IInv, ExitCodeMatchesVerdict
<1>4. RunningIsWritten'
  BY DEF IInv, RunningIsWritten, WriterOfRunning
<1> QED  BY <1>1, <1>2, <1>3, <1>4 DEF IInv

\* A run that starts has no verdict yet.
LEMMA LaunchKeeps ==
    ASSUME IInv, NEW r \in Runs, Launch(r)
    PROVE  IInv'
<1>1. TypeOK /\ RunOK(r)
  BY DEF IInv
<1>2. TypeOK'
  BY <1>1 DEF Launch, TypeOK, stopVars, Statuses, Verdicts, FreePids, Alive
<1>3. Others(r)
  BY <1>1 DEF Launch, TypeOK, stopVars, Others
<1>4. RunOK(r)'
  BY <1>1 DEF Launch, TypeOK, stopVars, RunOK, Verdicts, Statuses, FreePids
<1>5. file' = file /\ verdict' = verdict /\ reports' = reports /\ UNCHANGED <<stopPc, seen>>
  BY DEF Launch, stopVars
<1>6. pc[r] = "idle" /\ code'[r] = "none" /\ pc'[r] = "open"
  BY <1>1 DEF Launch, TypeOK, RunOK
<1> QED
  BY <1>2, <1>3, <1>4, <1>5, <1>6, StepOfRun DEF WriterOfRunning

\* The file that is opened says nothing.
LEMMA OpenKeeps ==
    ASSUME IInv, NEW r \in Runs, Open(r)
    PROVE  IInv'
<1>1. TypeOK /\ RunOK(r)
  BY DEF IInv
<1>2. TypeOK'
  BY <1>1 DEF Open, TypeOK, stopVars, Statuses, Verdicts, Torn
<1>3. Others(r)
  BY <1>1 DEF Open, TypeOK, stopVars, Others
<1>4. RunOK(r)'
  BY <1>1 DEF Open, TypeOK, stopVars, RunOK, Verdicts, Statuses
<1>5. file'.status = "TORN" /\ pc'[r] = "write" /\ UNCHANGED <<stopPc, seen>>
  BY <1>1 DEF Open, Torn, TypeOK, stopVars
<1>6. code'[r] = "none" /\ verdict'[r] = verdict[r] /\ pid'[r] = pid[r] /\ reports' = reports
  BY <1>1 DEF Open, RunOK
<1> QED
  BY <1>2, <1>3, <1>4, <1>5, <1>6, StepOfRun DEF Verdicts

\* A finished write leaves a verdict only of the run that was given it.
LEMMA WriteKeeps ==
    ASSUME IInv, NEW r \in Runs, Write(r)
    PROVE  IInv'
<1>1. TypeOK /\ RunOK(r)
  BY DEF IInv
<1>2. TypeOK'
  <2>1. status[r] \in Statuses /\ pid[r] \in Pids
    BY <1>1 DEF Write, RunOK
  <2>2. file' \in {Torn} \cup [status : Statuses, pid : Pids]
    BY <1>1, <2>1 DEF Write, Contents, Saved, TypeOK, Statuses
  <2>3. PcAfterWrite(status[r]) \in {"health", "report", "exited"}
    BY DEF PcAfterWrite
  <2> QED  BY <1>1, <2>2, <2>3 DEF Write, TypeOK, stopVars
<1>3. Others(r)
  BY <1>1 DEF Write, TypeOK, stopVars, Others
<1>4. RunOK(r)'
  BY <1>1 DEF Write, TypeOK, stopVars, RunOK, Verdicts, Statuses, PcAfterWrite
<1>5. UNCHANGED <<pid, status, verdict, reports, stopPc, seen>>
  BY DEF Write, stopVars
<1>6. code[r] = "none" /\ code'[r] \notin {"0", "2"} /\ pc[r] = "write"
  BY <1>1 DEF Write, TypeOK, RunOK
<1>7. \/ file' = Torn
      \/ file' = Saved(status[r], pid[r])
      \/ cut[r] # "none" /\ file' = Saved(cut[r], pid[r])
  BY DEF Write, Contents
<1>8. \/ file'.status \notin Verdicts \cup {"RUNNING"}
      \/ file'.status \in Verdicts /\ file'.pid = pid'[r] /\ verdict'[r] = file'.status
      \/ file'.status = "RUNNING" /\ file'.pid = pid'[r] /\ WriterOfRunning(r)'
  <2>1. CASE file' = Torn
    BY <2>1 DEF Torn, Verdicts
  <2>2. CASE file' = Saved(status[r], pid[r])
    <3>1. status[r] = "RUNNING" => pc'[r] = "health"
      BY <1>1 DEF Write, TypeOK, PcAfterWrite
    <3> QED  BY <1>1, <1>5, <2>2, <3>1 DEF Saved, RunOK, WriterOfRunning
  <2>3. CASE cut[r] # "none" /\ file' = Saved(cut[r], pid[r])
    BY <1>1, <1>5, <2>3 DEF Saved, RunOK, TypeOK
  <2> QED  BY <1>7, <2>1, <2>2, <2>3
<1>9. ~WriterOfRunning(r)
  BY <1>6 DEF WriterOfRunning
<1> QED
  BY <1>2, <1>3, <1>4, <1>5, <1>6, <1>8, <1>9, StepOfRun

\* Before the orchestrator there is no verdict, after a failed health check neither.
LEMMA HealthCheckKeeps ==
    ASSUME IInv, NEW r \in Runs, HealthCheck(r)
    PROVE  IInv'
<1>1. TypeOK /\ RunOK(r)
  BY DEF IInv
<1>2. TypeOK'
  BY <1>1 DEF HealthCheck, TypeOK, stopVars, Statuses, Verdicts
<1>3. Others(r)
  BY <1>1 DEF HealthCheck, TypeOK, stopVars, Others
<1>4. RunOK(r)'
  BY <1>1 DEF HealthCheck, TypeOK, stopVars, RunOK, Verdicts, Statuses
<1> QED
  BY <1>1, <1>2, <1>3, <1>4, StepOfRun
  DEF HealthCheck, TypeOK, stopVars, RunOK, WriterOfRunning, Orderly, Verdicts, IInv,
      ExitCodeMatchesVerdict

\* Installing the handler changes nothing the invariant speaks of.
LEMMA InstallHandlerKeeps ==
    ASSUME IInv, NEW r \in Runs, InstallHandler(r)
    PROVE  IInv'
<1>1. TypeOK /\ RunOK(r)
  BY DEF IInv
<1>2. TypeOK'
  BY <1>1 DEF InstallHandler, TypeOK, stopVars, Statuses, Verdicts
<1>3. Others(r)
  BY <1>1 DEF InstallHandler, TypeOK, stopVars, Others
<1>4. RunOK(r)'
  BY <1>1 DEF InstallHandler, TypeOK, stopVars, RunOK, Verdicts, Statuses
<1> QED
  BY <1>1, <1>2, <1>3, <1>4, StepOfRun
  DEF InstallHandler, TypeOK, stopVars, RunOK, WriterOfRunning, Orderly, Verdicts, IInv,
      ExitCodeMatchesVerdict

\* The verdict and the status are set together, and only once.
LEMMA OrchestratorReturnsKeeps ==
    ASSUME IInv, NEW r \in Runs, OrchestratorReturns(r)
    PROVE  IInv'
<1>1. TypeOK /\ RunOK(r)
  BY DEF IInv
<1>2. TypeOK'
  BY <1>1 DEF OrchestratorReturns, TypeOK, stopVars, Statuses, Verdicts
<1>3. Others(r)
  BY <1>1 DEF OrchestratorReturns, TypeOK, stopVars, Others
<1>4. RunOK(r)'
  BY <1>1 DEF OrchestratorReturns, TypeOK, stopVars, RunOK, Verdicts, Statuses
<1> QED
  BY <1>1, <1>2, <1>3, <1>4, StepOfRun
  DEF OrchestratorReturns, TypeOK, stopVars, RunOK, WriterOfRunning, Orderly, Verdicts, IInv,
      ExitCodeMatchesVerdict

\* A run at its report has a verdict, and its exit code is that verdict's.
LEMMA WriteReportKeeps ==
    ASSUME IInv, NEW r \in Runs, WriteReport(r)
    PROVE  IInv'
<1>1. TypeOK /\ RunOK(r)
  BY DEF IInv
<1>2. TypeOK'
  BY <1>1 DEF WriteReport, TypeOK, stopVars, Statuses, Verdicts
<1>3. Others(r)
  BY <1>1 DEF WriteReport, TypeOK, stopVars, Others
<1>4. RunOK(r)'
  BY <1>1 DEF WriteReport, TypeOK, stopVars, RunOK, Verdicts, Statuses
<1> QED
  BY <1>1, <1>2, <1>3, <1>4, StepOfRun
  DEF WriteReport, TypeOK, stopVars, RunOK, WriterOfRunning, Orderly, Verdicts, IInv,
      ExitCodeMatchesVerdict

\* What an exception leaves of the file claims no more than the run may.
LEMMA AbandonedFile ==
    ASSUME IInv, NEW r \in Runs, Alive(r), file' \in Abandoned(r)
    PROVE  /\ file' \in {Absent, Torn} \cup [status : Statuses, pid : Pids]
           /\ \/ file' = file
              \/ file'.status \notin Verdicts \cup {"RUNNING"}
              \/ file'.status \in Verdicts /\ file'.pid = pid[r] /\ verdict[r] = file'.status
              \/ file'.status = "RUNNING" /\ file'.pid = pid[r] /\ status[r] = "RUNNING"
<1>1. /\ file \in {Absent, Torn} \cup [status : Statuses, pid : Pids]
      /\ cut[r] \in Verdicts \cup {"STOPPED", "none"}
      /\ pid[r] \in Pids /\ status[r] \in Statuses
      /\ status[r] \in Verdicts => status[r] = verdict[r]
      /\ cut[r] \in Verdicts => cut[r] = verdict[r]
  BY DEF IInv, TypeOK, RunOK, Alive
<1>2. \/ file' = file
      \/ file' = Torn
      \/ file' = Saved(status[r], pid[r])
      \/ cut[r] # "none" /\ file' = Saved(cut[r], pid[r])
  BY DEF Abandoned
<1>3. CASE file' = file
  BY <1>1, <1>3
<1>4. CASE file' = Torn
  BY <1>4 DEF Torn, Verdicts
<1>5. CASE file' = Saved(status[r], pid[r])
  BY <1>1, <1>5 DEF Saved
<1>6. CASE cut[r] # "none" /\ file' = Saved(cut[r], pid[r])
  BY <1>1, <1>6 DEF Saved, Statuses, Verdicts
<1> QED  BY <1>2, <1>3, <1>4, <1>5, <1>6

\* A run that raises ends without an orderly code.
LEMMA RaisesKeeps ==
    ASSUME IInv, NEW r \in Runs, Raises(r)
    PROVE  IInv'
<1>1. TypeOK /\ RunOK(r) /\ Alive(r) /\ file' \in Abandoned(r)
  BY DEF IInv, Raises
<1>2. TypeOK'
  BY <1>1, AbandonedFile DEF Raises, TypeOK, stopVars
<1>3. Others(r)
  BY <1>1 DEF Raises, TypeOK, stopVars, Others
<1>4. RunOK(r)'
  BY <1>1 DEF Raises, TypeOK, RunOK, Alive
<1>5. pc'[r] = "exited" /\ code'[r] = "error" /\ WriterOfRunning(r)'
  BY <1>1 DEF Raises, TypeOK, WriterOfRunning, Orderly
<1>6. UNCHANGED <<pid, status, verdict, reports, stopPc, seen>>
  BY DEF Raises, stopVars
<1> QED
  BY <1>1, <1>2, <1>3, <1>4, <1>5, <1>6, AbandonedFile, StepOfRun

\* A run that dies ends without an orderly code.
LEMMA DiesKeeps ==
    ASSUME IInv, NEW r \in Runs, Dies(r)
    PROVE  IInv'
<1>1. TypeOK /\ RunOK(r) /\ Alive(r) /\ (file' \in Abandoned(r) \/ file' = file)
  BY DEF IInv, Dies
<1>2. TypeOK'
  BY <1>1, AbandonedFile DEF Dies, TypeOK, stopVars
<1>3. Others(r)
  BY <1>1 DEF Dies, TypeOK, stopVars, Others
<1>4. RunOK(r)'
  BY <1>1 DEF Dies, TypeOK, RunOK, Alive
<1>5. pc'[r] = "exited" /\ code'[r] \in {"130", "killed"} /\ WriterOfRunning(r)'
  BY <1>1 DEF Dies, TypeOK, WriterOfRunning, Orderly
<1>6. UNCHANGED <<pid, status, verdict, reports, stopPc, seen>>
  BY DEF Dies, stopVars
<1> QED
  BY <1>1, <1>2, <1>3, <1>4, <1>5, <1>6, AbandonedFile, StepOfRun

\* A run that goes on after its handler failed was called from its orchestrator,
\* which has not given it a verdict.
LEMMA SwallowedKeeps ==
    ASSUME IInv, NEW r \in Runs, Swallowed(r)
    PROVE  IInv'
<1>1. /\ TypeOK /\ RunOK(r) /\ Alive(r) /\ file' \in Abandoned(r)
      /\ status[r] = "STOPPED" /\ verdict[r] = "none"
  BY DEF IInv, Swallowed, RunOK, Alive
<1>2. TypeOK'
  BY <1>1, AbandonedFile DEF Swallowed, TypeOK, stopVars
<1>3. Others(r)
  BY <1>1 DEF Swallowed, TypeOK, stopVars, Others
<1>4. RunOK(r)'
  BY <1>1 DEF Swallowed, TypeOK, RunOK, Verdicts, Statuses
<1>5. pc'[r] = "orchestrating" /\ WriterOfRunning(r)' /\ code'[r] = "none"
  BY <1>1 DEF Swallowed, TypeOK, WriterOfRunning, RunOK
<1>6. UNCHANGED <<pid, status, verdict, reports, stopPc, seen>>
  BY DEF Swallowed, stopVars
<1> QED
  BY <1>1, <1>2, <1>3, <1>4, <1>5, <1>6, AbandonedFile, StepOfRun

\* The handler keeps the verdict whose write it interrupts.
LEMMA TakeSignalKeeps ==
    ASSUME IInv, NEW r \in Runs, TakeSignal(r)
    PROVE  IInv'
<1>1. TypeOK /\ RunOK(r)
  BY DEF IInv
<1>2. TypeOK'
  BY <1>1 DEF TakeSignal, TypeOK, stopVars, Statuses, Verdicts, Alive, RunOK
<1>3. Others(r)
  BY <1>1 DEF TakeSignal, TypeOK, stopVars, Others
<1>4. RunOK(r)'
  BY <1>1 DEF TakeSignal, TypeOK, stopVars, RunOK, Verdicts, Statuses, Alive, InHandler
<1> QED
  BY <1>1, <1>2, <1>3, <1>4, StepOfRun
  DEF TakeSignal, TypeOK, stopVars, RunOK, WriterOfRunning, Orderly, Verdicts, IInv,
      ExitCodeMatchesVerdict, Alive

\* A stop reads, signals, or saves STOPPED; it changes no run.
LEMMA StopKeeps ==
    ASSUME IInv, NEW s \in Stops, Stop(s)
    PROVE  IInv'
<1>1. TypeOK /\ StopsOK
  BY DEF IInv
<1>2. CASE ReadState(s)
  <2>1. TypeOK'
    BY <1>1, <1>2 DEF ReadState, runVars, TypeOK, Statuses, Verdicts, Absent, Torn
  <2>2. file.status = "RUNNING" => file.pid \in Pids
    BY <1>1 DEF TypeOK, Absent, Torn
  <2>3. StopsOK'
    BY <1>1, <1>2, <2>2 DEF ReadState, TypeOK, StopsOK
  <2>4. UNCHANGED <<file, pc, pid, status, verdict, armed, cut, frame, code, reports>>
    BY <1>2 DEF ReadState, runVars
  <2> QED  BY <2>1, <2>3, <2>4, StepOfOther
<1>3. CASE SendTerm(s)
  <2>1. TypeOK'
    <3>1. /\ stopPc' = [stopPc EXCEPT ![s] = "sent"]
             \/ stopPc' = [stopPc EXCEPT ![s] = "misfired"]
             \/ stopPc' = [stopPc EXCEPT ![s] = "open"]
          /\ pending' = pending \/ \E r \in Runs : pending' = [pending EXCEPT ![r] = TRUE]
      BY <1>3 DEF SendTerm
    <3>2. /\ stopPc \in [Stops -> {"idle", "kill", "open", "write", "sent", "misfired",
                                   "marked", "unknown", "refused"}]
          /\ pending \in [Runs -> BOOLEAN]
      BY <1>1 DEF TypeOK
    <3>3. stopPc' \in [Stops -> {"idle", "kill", "open", "write", "sent", "misfired",
                                 "marked", "unknown", "refused"}]
      BY <3>1, <3>2
    <3>4. pending' \in [Runs -> BOOLEAN]
      BY <3>1, <3>2
    <3> QED  BY <1>1, <1>3, <3>3, <3>4 DEF SendTerm, TypeOK
  <2>2. StopsOK'
    BY <1>1, <1>3 DEF SendTerm, TypeOK, StopsOK
  <2>3. UNCHANGED <<file, pc, pid, status, verdict, armed, cut, frame, code, reports>>
    BY <1>3 DEF SendTerm
  <2> QED  BY <2>1, <2>2, <2>3, StepOfOther
<1>4. CASE StopOpen(s)
  <2>1. TypeOK'
    BY <1>1, <1>4 DEF StopOpen, runVars, TypeOK
  <2>2. StopsOK'
    BY <1>1, <1>4 DEF StopOpen, TypeOK, StopsOK
  <2> QED  BY <1>4, <2>1, <2>2, StepOfOther DEF StopOpen, runVars, Torn, Verdicts
<1>5. CASE StopWrite(s)
  <2>1. TypeOK'
    BY <1>1, <1>5 DEF StopWrite, runVars, TypeOK, StopsOK, Saved, Statuses
  <2>2. StopsOK'
    BY <1>1, <1>5 DEF StopWrite, TypeOK, StopsOK
  <2> QED  BY <1>5, <2>1, <2>2, StepOfOther DEF StopWrite, runVars, Saved, Verdicts
<1> QED  BY <1>2, <1>3, <1>4, <1>5 DEF Stop

\* Other programs take and leave pids.
LEMMA OthersKeep ==
    ASSUME IInv, OtherStarts \/ OtherEnds
    PROVE  IInv'
<1>1. TypeOK'
  BY DEF IInv, OtherStarts, OtherEnds, FreePids, runVars, stopVars, TypeOK
<1>2. StopsOK'
  BY DEF IInv, OtherStarts, OtherEnds, stopVars, StopsOK
<1> QED  BY <1>1, <1>2, StepOfOther DEF OtherStarts, OtherEnds, runVars

-----------------------------------------------------------------------------

\* A step keeps the invariant.
LEMMA LifecycleNext == IInv /\ [Next]_vars => IInv'
<1> SUFFICES ASSUME IInv, [Next]_vars PROVE IInv'
  OBVIOUS
<1>1. ASSUME NEW r \in Runs, Run(r) PROVE IInv'
  BY <1>1, LaunchKeeps, OpenKeeps, WriteKeeps, HealthCheckKeeps, InstallHandlerKeeps,
     OrchestratorReturnsKeeps, WriteReportKeeps, RaisesKeeps, SwallowedKeeps, DiesKeeps,
     TakeSignalKeeps
  DEF Run
<1>2. ASSUME NEW s \in Stops, Stop(s) PROVE IInv'
  BY <1>2, StopKeeps
<1>3. CASE OtherStarts \/ OtherEnds
  BY <1>3, OthersKeep
<1>4. CASE UNCHANGED vars
  BY <1>4 DEF vars, runVars, stopVars, IInv, TypeOK, StopsOK, RunOK, SavedVerdictIsReal,
              ExitCodeMatchesVerdict, RunningIsWritten, WriterOfRunning
<1> QED  BY <1>1, <1>2, <1>3, <1>4 DEF Next

\* The invariant is inductive.
THEOREM LifecycleInvariance == Spec => []IInv
  BY LifecycleInit, LifecycleNext, PTL DEF Spec

\* The state of the runs, the stops and the file keeps its shape.
THEOREM LifecycleTypeCorrect == Spec => []TypeOK
  BY LifecycleInvariance, PTL DEF IInv

\* A verdict in the file is one the orchestrator gave a run with the file's pid.
THEOREM SavedVerdictIsRealHolds == Spec => []SavedVerdictIsReal
  BY LifecycleInvariance, PTL DEF IInv

\* Exit codes 0 and 2 agree with the report and the verdict.
THEOREM ExitCodeMatchesVerdictHolds == Spec => []ExitCodeMatchesVerdict
  BY LifecycleInvariance, PTL DEF IInv

\* A run that ended in an orderly way does not stay RUNNING in the file.
THEOREM OrderlyEndIsSavedHolds == Spec => []OrderlyEndIsSaved
<1>1. IInv => OrderlyEndIsSaved
  <2> SUFFICES ASSUME IInv, NEW r \in Runs, code[r] \in Orderly,
                      file = Saved("RUNNING", pid[r])
               PROVE  \E q \in Runs \ {r} : pid[q] = pid[r]
    BY DEF OrderlyEndIsSaved, Orderly
  <2>1. file.status = "RUNNING" /\ file.pid = pid[r]
    BY DEF Saved
  <2>2. PICK q \in Runs : pid[q] = file.pid /\ WriterOfRunning(q)
    BY <2>1 DEF IInv, RunningIsWritten
  <2>3. pc[r] = "exited"
    BY DEF IInv, RunOK, Orderly
  <2>4. q # r
    BY <2>2, <2>3 DEF WriterOfRunning
  <2> QED  BY <2>1, <2>2, <2>4
<1> QED  BY <1>1, LifecycleInvariance, PTL
-----------------------------------------------------------------------------
(* How long a run can be.  SignalEndsRun needs signals to be delivered; that *)
(* no run can go on for ever, whatever signals it gets, needs nothing.       *)

\* The steps of cmd_run from where a run stands to its end, when no signal comes.
\* A handler called from the orchestrator may fail and go back there.
Way(r) ==
    CASE pc[r] = "idle"          -> 10
      [] pc[r] = "open"          -> IF status[r] = "RUNNING" THEN 9
                                    ELSE IF status[r] \in Verdicts THEN 4
                                    ELSE IF frame[r] = "orchestrator" THEN 7 ELSE 2
      [] pc[r] = "write"         -> IF status[r] = "RUNNING" THEN 8
                                    ELSE IF status[r] \in Verdicts THEN 3
                                    ELSE IF frame[r] = "orchestrator" THEN 6 ELSE 1
      [] pc[r] = "health"        -> 7
      [] pc[r] = "setup"         -> 6
      [] pc[r] = "orchestrating" -> 5
      [] pc[r] = "report"        -> 1
      [] pc[r] = "exited"        -> 0

\* The stops that may still send a signal.
MaySend == {s \in Stops : stopPc[s] \in {"idle", "kill"}}

\* At most how many steps of r are left: a signal is taken, and then its handler
\* saves the state or fails on the way, and that once.
StepsLeft(r) ==
    Way(r) + 3 * Cardinality(MaySend) + (IF pending[r] THEN 3 ELSE 0)

\* Each step of a run brings its end nearer, and nobody else's puts it off.
EachStepCounts ==
    [][\A r \in Runs : /\ StepsLeft(r)' <= StepsLeft(r)
                       /\ Run(r) => StepsLeft(r)' < StepsLeft(r)]_vars

\* The cases of Way, one by one.
LEMMA WayCases ==
    ASSUME NEW r \in Runs
    PROVE  /\ pc[r] = "idle" => Way(r) = 10
           /\ pc[r] = "open" => Way(r) = IF status[r] = "RUNNING" THEN 9
                                         ELSE IF status[r] \in Verdicts THEN 4
                                         ELSE IF frame[r] = "orchestrator" THEN 7 ELSE 2
           /\ pc[r] = "write" => Way(r) = IF status[r] = "RUNNING" THEN 8
                                          ELSE IF status[r] \in Verdicts THEN 3
                                          ELSE IF frame[r] = "orchestrator" THEN 6 ELSE 1
           /\ pc[r] = "health" => Way(r) = 7
           /\ pc[r] = "setup" => Way(r) = 6
           /\ pc[r] = "orchestrating" => Way(r) = 5
           /\ pc[r] = "report" => Way(r) = 1
           /\ pc[r] = "exited" => Way(r) = 0
  BY DEF Way

\* The same of the state a step leads to.
LEMMA WayCasesNext ==
    ASSUME NEW r \in Runs
    PROVE  /\ pc'[r] = "idle" => Way(r)' = 10
           /\ pc'[r] = "open" => Way(r)' = IF status'[r] = "RUNNING" THEN 9
                                           ELSE IF status'[r] \in Verdicts THEN 4
                                           ELSE IF frame'[r] = "orchestrator" THEN 7 ELSE 2
           /\ pc'[r] = "write" => Way(r)' = IF status'[r] = "RUNNING" THEN 8
                                            ELSE IF status'[r] \in Verdicts THEN 3
                                            ELSE IF frame'[r] = "orchestrator" THEN 6 ELSE 1
           /\ pc'[r] = "health" => Way(r)' = 7
           /\ pc'[r] = "setup" => Way(r)' = 6
           /\ pc'[r] = "orchestrating" => Way(r)' = 5
           /\ pc'[r] = "report" => Way(r)' = 1
           /\ pc'[r] = "exited" => Way(r)' = 0
  BY DEF Way

\* The way is a number, and only a run that has ended has none left.
LEMMA WayType ==
    ASSUME TypeOK, NEW r \in Runs
    PROVE  /\ Way(r) \in 0..10
           /\ Alive(r) => Way(r) # 0
           /\ Way(r) = 0 => pc[r] = "exited"
  BY WayCases DEF TypeOK, Alive

\* The same of the state a step leads to.
LEMMA WayTypeNext ==
    ASSUME TypeOK', NEW r \in Runs
    PROVE  /\ Way(r)' \in 0..10
           /\ pc'[r] = "exited" => Way(r)' = 0
  BY WayCasesNext DEF TypeOK

\* A step that is no signal moves a run along its way.
LEMMA WayDescends ==
    ASSUME IInv, NEW r \in Runs, Run(r), ~ TakeSignal(r)
    PROVE  Way(r)' < Way(r) /\ pending' = pending /\ stopPc' = stopPc
<1>1. /\ pc \in [Runs -> {"idle", "open", "write", "health", "setup", "orchestrating",
                          "report", "exited"}]
      /\ status \in [Runs -> Statuses \cup {"none"}]
  BY DEF IInv, TypeOK
<1>2. pending' = pending /\ stopPc' = stopPc
  BY DEF Run, Launch, Open, Write, HealthCheck, InstallHandler, OrchestratorReturns,
     WriteReport, Raises, Swallowed, Dies, stopVars
<1>3. CASE Raises(r) \/ Dies(r)
  <2>1. Alive(r) /\ pc'[r] = "exited"
    BY <1>1, <1>3 DEF Raises, Dies
  <2> QED  BY <1>2, <2>1, WayCasesNext, WayType DEF IInv
<1>4. CASE Launch(r)
  <2>1. pc[r] = "idle" /\ pc'[r] = "open" /\ status'[r] = "RUNNING"
    BY <1>1, <1>4 DEF Launch
  <2> QED  BY <1>2, <2>1, WayCases, WayCasesNext
<1>5. CASE Open(r)
  <2>1. pc[r] = "open" /\ pc'[r] = "write" /\ status' = status /\ frame' = frame
    BY <1>1, <1>5 DEF Open
  <2> QED  BY <1>2, <2>1, WayCases, WayCasesNext
<1>6. CASE Write(r)
  <2>1. pc[r] = "write" /\ pc'[r] = PcAfterWrite(status[r])
    BY <1>1, <1>6 DEF Write
  <2>2. Way(r) = IF status[r] = "RUNNING" THEN 8 ELSE IF status[r] \in Verdicts THEN 3
                 ELSE IF frame[r] = "orchestrator" THEN 6 ELSE 1
    BY <2>1, WayCases
  <2>3. Way(r)' = IF status[r] = "RUNNING" THEN 7 ELSE IF status[r] \in Verdicts THEN 1 ELSE 0
    BY <2>1, WayCasesNext DEF PcAfterWrite
  <2> QED  BY <1>2, <2>2, <2>3
<1>7. CASE HealthCheck(r)
  <2>1. /\ pc[r] = "health"
        /\ pc'[r] = "setup" \/ (pc'[r] = "open" /\ status'[r] = "ERROR")
        /\ frame'[r] # "orchestrator"
    BY <1>1, <1>7 DEF HealthCheck, IInv, RunOK
  <2>2. "ERROR" \notin Verdicts
    BY DEF Verdicts
  <2> QED  BY <1>2, <2>1, <2>2, WayCases, WayCasesNext
<1>8. CASE InstallHandler(r)
  <2>1. pc[r] = "setup" /\ pc'[r] = "orchestrating"
    BY <1>1, <1>8 DEF InstallHandler
  <2> QED  BY <1>2, <2>1, WayCases, WayCasesNext
<1>9. CASE OrchestratorReturns(r)
  <2>1. pc[r] = "orchestrating" /\ pc'[r] = "open" /\ status'[r] \in Verdicts
    BY <1>1, <1>9 DEF OrchestratorReturns
  <2>2. "RUNNING" \notin Verdicts
    BY DEF Verdicts
  <2> QED  BY <1>2, <2>1, <2>2, WayCases, WayCasesNext
<1>10. CASE WriteReport(r)
  <2>1. pc[r] = "report" /\ pc'[r] = "exited"
    BY <1>1, <1>10 DEF WriteReport
  <2> QED  BY <1>2, <2>1, WayCases, WayCasesNext
<1>11. CASE Swallowed(r)
  <2>1. /\ pc[r] \in {"open", "write"} /\ frame[r] = "orchestrator"
        /\ status[r] = "STOPPED" /\ pc'[r] = "orchestrating"
    BY <1>1, <1>11 DEF Swallowed, IInv, RunOK
  <2>2. "STOPPED" \notin Verdicts
    BY DEF Verdicts
  <2> QED  BY <1>2, <2>1, <2>2, WayCases, WayCasesNext
<1> QED
  BY <1>3, <1>4, <1>5, <1>6, <1>7, <1>8, <1>9, <1>10, <1>11 DEF Run

\* There are finitely many signals to come.
LEMMA MaySendType ==
    ASSUME IsFiniteSet(Stops)
    PROVE  Cardinality(MaySend) \in Nat
<1>1. MaySend \subseteq Stops
  BY DEF MaySend
<1> QED  BY <1>1, FS_Subset, FS_CardinalityType

\* A stop that sends its signal is one that can no longer send one.
LEMMA StopSends ==
    ASSUME IInv, IsFiniteSet(Stops), NEW s \in Stops, Stop(s)
    PROVE  /\ pc' = pc /\ status' = status /\ frame' = frame
           /\ Cardinality(MaySend)' \in Nat
           /\ Cardinality(MaySend)' <= Cardinality(MaySend)
           /\ \A r \in Runs : ~pending[r] /\ pending'[r] =>
                 Cardinality(MaySend)' = Cardinality(MaySend) - 1
<1>1. stopPc \in [Stops -> {"idle", "kill", "open", "write", "sent", "misfired", "marked",
                            "unknown", "refused"}]
  BY DEF IInv, TypeOK
<1>2. pc' = pc /\ status' = status /\ frame' = frame
  BY DEF Stop, ReadState, SendTerm, StopOpen, StopWrite, runVars
<1>3. PICK p : stopPc' = [stopPc EXCEPT ![s] = p]
  BY DEF Stop, ReadState, SendTerm, StopOpen, StopWrite
<1>4. MaySend' \subseteq MaySend \/ stopPc[s] \notin {"idle", "kill"}
  BY <1>1, <1>3 DEF MaySend
<1>5. stopPc[s] \notin {"idle", "kill"} => p \notin {"idle", "kill"}
  BY <1>1, <1>3 DEF Stop, ReadState, SendTerm, StopOpen, StopWrite
<1>6. MaySend' \subseteq MaySend
  BY <1>1, <1>3, <1>4, <1>5 DEF MaySend
<1>7. MaySend \subseteq Stops /\ IsFiniteSet(MaySend)
  <2>1. MaySend \subseteq Stops
    BY DEF MaySend
  <2> QED  BY <2>1, FS_Subset
<1>8. Cardinality(MaySend') \in Nat /\ Cardinality(MaySend') <= Cardinality(MaySend)
  BY <1>6, <1>7, FS_Subset, FS_CardinalityType
<1>9. ASSUME NEW r \in Runs, ~pending[r], pending'[r]
      PROVE  Cardinality(MaySend') = Cardinality(MaySend) - 1
  <2>1. stopPc[s] = "kill" /\ stopPc' = [stopPc EXCEPT ![s] = "sent"]
    BY <1>9 DEF Stop, ReadState, SendTerm, StopOpen, StopWrite, runVars
  <2>2. s \in MaySend /\ MaySend' = MaySend \ {s}
    BY <1>1, <2>1 DEF MaySend
  <2> QED  BY <1>7, <2>2, FS_RemoveElement
<1>10. Cardinality(MaySend)' = Cardinality(MaySend')
  OBVIOUS
<1> QED  BY <1>2, <1>8, <1>9, <1>10

\* A signal costs a run at most the two steps to save it, or to fail and go back.
LEMMA SignalDescends ==
    ASSUME IInv, NEW r \in Runs, TakeSignal(r)
    PROVE  /\ Way(r)' <= Way(r) + 2
           /\ pending[r] /\ ~pending'[r]
           /\ stopPc' = stopPc
<1>1. TypeOK /\ TypeOK'
  BY TakeSignalKeeps DEF IInv
<1>2. Way(r) \in 1..10
  BY <1>1, WayType DEF TakeSignal
<1>3. /\ pending[r] /\ ~pending'[r] /\ stopPc' = stopPc
      /\ \/ pc'[r] = "exited"
         \/ pc'[r] = "open" /\ status'[r] = "STOPPED"
  BY <1>1 DEF TakeSignal, TypeOK, stopVars
<1>4. CASE pc'[r] = "exited" \/ frame'[r] # "orchestrator"
  <2>1. Way(r)' \in {0, 2}
    BY <1>1, <1>3, <1>4, WayCasesNext DEF Verdicts
  <2> QED  BY <1>2, <1>3, <2>1
<1>5. CASE pc'[r] = "open" /\ frame'[r] = "orchestrator"
  <2>1. Way(r)' = 7
    BY <1>3, <1>5, WayCasesNext DEF Verdicts
  <2>2. \/ pc[r] = "orchestrating"
        \/ frame[r] = "orchestrator" /\ pc[r] \in {"open", "write"} /\ status[r] = "STOPPED"
    BY <1>1, <1>5 DEF TakeSignal, TypeOK, InHandler, Alive, IInv, RunOK
  <2>3. Way(r) \in {5, 6, 7}
    BY <2>2, WayCases DEF Verdicts
  <2> QED  BY <1>3, <2>1, <2>3
<1> QED  BY <1>3, <1>4, <1>5

\* A run takes no step for another one.
LEMMA RunKeepsOthers ==
    ASSUME IInv, NEW q \in Runs, Run(q), NEW r \in Runs \ {q}
    PROVE  pc'[r] = pc[r] /\ status'[r] = status[r] /\ frame'[r] = frame[r]
           /\ pending'[r] = pending[r] /\ stopPc' = stopPc
<1>1. TypeOK
  BY DEF IInv
<1>2. CASE Launch(q) \/ Open(q) \/ Write(q) \/ HealthCheck(q)
  BY <1>1, <1>2 DEF Launch, Open, Write, HealthCheck, TypeOK, stopVars
<1>3. CASE InstallHandler(q) \/ OrchestratorReturns(q) \/ WriteReport(q)
  BY <1>1, <1>3 DEF InstallHandler, OrchestratorReturns, WriteReport, TypeOK, stopVars
<1>4. CASE Raises(q) \/ Swallowed(q) \/ Dies(q) \/ TakeSignal(q)
  BY <1>1, <1>4 DEF Raises, Swallowed, Dies, TakeSignal, TypeOK, stopVars
<1> QED  BY <1>2, <1>3, <1>4 DEF Run

\* A run is as far as before when nothing of what it stands on has changed.
LEMMA SameWay ==
    ASSUME NEW r \in Runs, TypeOK, pc'[r] = pc[r], status'[r] = status[r],
           frame'[r] = frame[r]
    PROVE  Way(r)' = Way(r)
  BY WayCases, WayCasesNext DEF TypeOK

\* Each step, by what the run, another one, a stop or another program does.
LEMMA StepDescends ==
    ASSUME IInv, IsFiniteSet(Stops), [Next]_vars, NEW r \in Runs
    PROVE  /\ StepsLeft(r)' <= StepsLeft(r)
           /\ Run(r) => StepsLeft(r)' < StepsLeft(r)
<1> DEFINE w == Way(r)
           k == Cardinality(MaySend)
<1>1. TypeOK /\ TypeOK'
  BY LifecycleNext DEF IInv
<1>2. w \in Nat /\ w' \in Nat /\ k \in Nat /\ pending[r] \in BOOLEAN /\ pending'[r] \in BOOLEAN
  <2>1. w \in Nat /\ w' \in Nat /\ k \in Nat
    BY <1>1, WayType, WayTypeNext, MaySendType
  <2>2. pending[r] \in BOOLEAN /\ pending'[r] \in BOOLEAN
    BY <1>1 DEF TypeOK
  <2> QED  BY <2>1, <2>2
<1>3. /\ StepsLeft(r) = w + 3 * k + (IF pending[r] THEN 3 ELSE 0)
      /\ StepsLeft(r)' = w' + 3 * k' + (IF pending'[r] THEN 3 ELSE 0)
  BY DEF StepsLeft
<1>4. stopPc' = stopPc => k' = k
  BY DEF MaySend
<1>5. CASE Run(r) /\ ~TakeSignal(r)
  <2>1. w' < w /\ pending'[r] = pending[r] /\ k' = k
    BY <1>4, <1>5, WayDescends
  <2> QED  BY <1>2, <1>3, <2>1
<1>6. CASE TakeSignal(r)
  <2>1. w' <= w + 2 /\ pending[r] /\ ~pending'[r] /\ k' = k
    BY <1>4, <1>6, SignalDescends
  <2> QED  BY <1>2, <1>3, <2>1
<1>7. ASSUME ~Run(r), w' = w, k' = k, pending'[r] = pending[r]
      PROVE  StepsLeft(r)' <= StepsLeft(r) /\ ~Run(r)
  <2> QED  BY <1>2, <1>3, <1>7
<1>8. ASSUME ~Run(r), NEW q \in Runs, Run(q)
      PROVE  StepsLeft(r)' <= StepsLeft(r) /\ ~Run(r)
  <2>1. q # r
    BY <1>8
  <2>2. /\ pc'[r] = pc[r] /\ status'[r] = status[r] /\ frame'[r] = frame[r]
        /\ pending'[r] = pending[r] /\ stopPc' = stopPc
    BY <1>8, <2>1, RunKeepsOthers
  <2>3. w' = w
    BY <1>1, <2>2, SameWay
  <2> QED  BY <1>4, <1>7, <1>8, <2>2, <2>3
<1>9. ASSUME ~Run(r), NEW s \in Stops, Stop(s)
      PROVE  StepsLeft(r)' <= StepsLeft(r) /\ ~Run(r)
  <2>1. /\ pc' = pc /\ status' = status /\ frame' = frame
        /\ k' \in Nat /\ k' <= k
        /\ ~pending[r] /\ pending'[r] => k' = k - 1
    BY <1>9, StopSends
  <2>2. w' = w
    BY <1>1, <2>1, SameWay
  <2> QED  BY <1>2, <1>3, <1>9, <2>1, <2>2
<1>10. CASE ~Run(r) /\ (OtherStarts \/ OtherEnds \/ UNCHANGED vars)
  <2>1. UNCHANGED <<pc, status, frame, pending, stopPc>>
    BY <1>10 DEF OtherStarts, OtherEnds, vars, runVars, stopVars
  <2>2. w' = w
    BY <1>1, <2>1, SameWay
  <2> QED  BY <1>4, <1>7, <1>10, <2>1, <2>2
<1>11. TakeSignal(r) => Run(r)
  BY DEF Run
<1> QED
  BY <1>5, <1>6, <1>8, <1>9, <1>10, <1>11 DEF Next

\* Over finitely many stops each run of a task comes to an end within 13 steps
\* of its own and three more for each stop.  No signal, no second run and
\* no other program can put that off, and only a run that has ended has none left.
THEOREM EachRunIsBounded ==
    ASSUME IsFiniteSet(Stops)
    PROVE  Spec => /\ [](\A r \in Runs : /\ StepsLeft(r) \in Nat
                                         /\ StepsLeft(r) <= 13 + 3 * Cardinality(Stops)
                                         /\ StepsLeft(r) = 0 => pc[r] = "exited")
                   /\ EachStepCounts
<1>1. ASSUME IInv
      PROVE  \A r \in Runs : /\ StepsLeft(r) \in Nat
                             /\ StepsLeft(r) <= 13 + 3 * Cardinality(Stops)
                             /\ StepsLeft(r) = 0 => pc[r] = "exited"
  <2> SUFFICES ASSUME NEW r \in Runs
               PROVE  /\ StepsLeft(r) \in Nat
                      /\ StepsLeft(r) <= 13 + 3 * Cardinality(Stops)
                      /\ StepsLeft(r) = 0 => pc[r] = "exited"
    OBVIOUS
  <2> DEFINE w == Way(r)
             k == Cardinality(MaySend)
             n == Cardinality(Stops)
  <2>1. w \in 0..10 /\ (w = 0 => pc[r] = "exited")
    BY <1>1, WayType DEF IInv
  <2>2. MaySend \subseteq Stops
    BY DEF MaySend
  <2>3. k \in Nat /\ n \in Nat /\ k <= n
    BY <2>2, FS_Subset, FS_CardinalityType
  <2>4. StepsLeft(r) = w + 3 * k + (IF pending[r] THEN 3 ELSE 0)
    BY DEF StepsLeft
  <2> HIDE DEF w, k, n
  <2>5. /\ StepsLeft(r) \in Nat
        /\ StepsLeft(r) <= 13 + 3 * n
        /\ StepsLeft(r) = 0 => w = 0
    BY <2>1, <2>3, <2>4
  <2> QED  BY <2>1, <2>5 DEF n
<1>2. ASSUME IInv, [Next]_vars
      PROVE  [\A r \in Runs : /\ StepsLeft(r)' <= StepsLeft(r)
                              /\ Run(r) => StepsLeft(r)' < StepsLeft(r)]_vars
  BY <1>2, StepDescends
<1> QED  BY <1>1, <1>2, LifecycleInvariance, PTL DEF Spec, EachStepCounts
=============================================================================
