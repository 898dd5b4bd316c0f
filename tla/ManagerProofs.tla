---------------------------- MODULE ManagerProofs ----------------------------
(***************************************************************************)
(* Proofs about ProcessManager.  That a stop strikes no foreign group      *)
(* follows from where it stands: from is_running() on, the leader of the   *)
(* target is running or a zombie nobody else reaps, so its pid is its own. *)
(* That no leader is lost follows from the names: a process is dropped     *)
(* from the table only when its leader has been reaped.                    *)
(***************************************************************************)
EXTENDS Naturals, ProcessManager, FiniteSetTheorems, TLAPS

Underway == {"term", "wait", "kill", "reap"}

\* A Popen has one name, and is tracked only after it was started.
Table ==
    /\ \A m, n \in Names : processes[m] = processes[n] /\ processes[n] # NoProc => m = n
    /\ \A n \in Names : processes[n] # NoProc => leader[processes[n]] # "unused"

\* The target of a stop that is under way is live.
TargetIsLive ==
    at \in Underway =>
        /\ target \in Names
        /\ processes[target] \in LiveLeader

\* A stop_all that runs has every tracked name before it or in hand.
Remaining ==
    /\ at = "idle" => op = "none"
    /\ op = "stop_all" =>
         \A n \in Names : processes[n] # NoProc =>
             n \in todo \/ (at \in Underway /\ n = target)

IInv == TypeOK /\ UntrackedIsReaped /\ Table /\ TargetIsLive /\ Remaining /\ OnlyOwnGroups

-----------------------------------------------------------------------------

\* A poll reaps at most the process of the name.
LEMMA PollReaps ==
    ASSUME TypeOK, NEW n \in Names
    PROVE  /\ Polled(n) \in [Procs -> {"unused", "running", "zombie", "reaped"}]
           /\ \A p \in Procs : p # processes[n] => Polled(n)[p] = leader[p]
           /\ \A p \in Procs : p = processes[n] =>
                 Polled(n)[p] = IF leader[p] = "zombie" THEN "reaped" ELSE leader[p]
  BY NamesAssumption DEF TypeOK, Polled, NoProc

\* The initial state satisfies the invariant.
LEMMA ManagerInit == Init => IInv
  BY NamesAssumption
  DEF Init, IInv, TypeOK, UntrackedIsReaped, LiveLeader, Table, TargetIsLive,
      Underway, Remaining, OnlyOwnGroups, NoProc

\* The steps of a client that has called start_process or tail_logs.
LEMMA StartKeeps ==
    ASSUME IInv, NEW n \in Names, StartProcess(n)
    PROVE  IInv'
<1>1. PICK p \in Procs, i \in FreePids :
         /\ leader[p] = "unused"
         /\ leader' = [Polled(n) EXCEPT ![p] = "running"]
         /\ pid' = [pid EXCEPT ![p] = i]
         /\ processes' = [processes EXCEPT ![n] = p]
         /\ log' = [log EXCEPT ![n] = p]
  BY DEF StartProcess
<1>2. /\ at = "idle" /\ ~IsRunning(n)
      /\ UNCHANGED <<worker, others, port, op, at, target, todo, struck>>
  BY DEF StartProcess, MayStart, callVars
<1>3. TypeOK
  BY DEF IInv
<1>4. TypeOK'
  BY <1>1, <1>2, <1>3, PollReaps DEF TypeOK, FreePids
<1>5. p # NoProc
  BY NamesAssumption DEF NoProc
<1>6. p # processes[n]
  BY <1>1, <1>5 DEF IInv, Table
<1>7. UntrackedIsReaped'
  <2> SUFFICES ASSUME NEW q \in Procs, leader'[q] \in {"running", "zombie"}
               PROVE  \E m \in Names : processes'[m] = q
    BY DEF UntrackedIsReaped, LiveLeader
  <2>1. CASE q = p
    BY <2>1, <1>1, <1>3 DEF TypeOK
  <2>2. CASE q # p /\ q = processes[n]
    BY <2>2, <1>1, <1>2, <1>3, PollReaps, NamesAssumption DEF TypeOK, IsRunning, NoProc
  <2>3. CASE q # p /\ q # processes[n]
    <3>1. leader'[q] = leader[q]
      BY <2>3, <1>1, <1>3, PollReaps DEF TypeOK
    <3>2. PICK m \in Names : processes[m] = q
      BY <3>1 DEF IInv, UntrackedIsReaped, LiveLeader
    <3>3. processes'[m] = q
      BY <3>2, <2>3, <1>1, <1>3 DEF TypeOK
    <3> QED  BY <3>3
  <2> QED  BY <2>1, <2>2, <2>3
<1>8. Table'
  <2>1. \A m \in Names : processes[m] # p
    BY <1>1, <1>5 DEF IInv, Table
  <2>2. \A m \in Names : processes'[m] = IF m = n THEN p ELSE processes[m]
    BY <1>1, <1>3 DEF TypeOK
  <2>3. \A l, m \in Names : processes'[l] = processes'[m] /\ processes'[m] # NoProc => l = m
    BY <2>1, <2>2 DEF IInv, Table
  <2>4. ASSUME NEW m \in Names, processes'[m] # NoProc
        PROVE  leader'[processes'[m]] # "unused"
    <3>1. CASE m = n
      BY <3>1, <2>2, <1>1, <1>3, PollReaps DEF TypeOK
    <3>2. CASE m # n
      <4>1. processes[m] \in Procs /\ processes[m] # p /\ leader[processes[m]] # "unused"
        BY <3>2, <2>1, <2>2, <2>4, <1>3 DEF IInv, Table, TypeOK
      <4>2. leader'[processes[m]] = Polled(n)[processes[m]]
        BY <4>1, <1>1, <1>3, PollReaps
      <4> QED  BY <4>1, <4>2, <3>2, <2>2, <1>3, PollReaps
    <3> QED  BY <3>1, <3>2
  <2> QED  BY <2>3, <2>4 DEF Table
<1>9. (TargetIsLive /\ Remaining /\ OnlyOwnGroups)'
  <2>1. op = "none"
    BY <1>2 DEF IInv, Remaining
  <2> QED  BY <1>2, <2>1 DEF IInv, TargetIsLive, Underway, Remaining, OnlyOwnGroups
<1> QED  BY <1>4, <1>7, <1>8, <1>9 DEF IInv

\* A failed start and tail_logs reap at most a zombie, which keeps its name.
LEMMA PollKeeps ==
    ASSUME IInv, NEW n \in Names, StartFails(n) \/ TailLogs(n)
    PROVE  IInv'
<1>1. /\ at = "idle" /\ leader' = Polled(n)
      /\ log' \in [Names -> Procs \cup {NoProc}]
      /\ UNCHANGED <<processes, worker, pid, others, port, op, at, target, todo, struck>>
  BY DEF StartFails, TailLogs, callVars, IInv, TypeOK
<1>2. TypeOK
  BY DEF IInv
<1>3. TypeOK'
  BY <1>1, <1>2, PollReaps DEF TypeOK
<1>4. \A p \in Procs : leader'[p] \in {"running", "zombie"} => p \in LiveLeader
  BY <1>1, <1>2, PollReaps DEF LiveLeader, TypeOK
<1>5. \A p \in Procs : leader[p] # "unused" => leader'[p] # "unused"
  BY <1>1, <1>2, PollReaps DEF TypeOK
<1>6. (UntrackedIsReaped /\ Table)'
  BY <1>1, <1>2, <1>4, <1>5 DEF IInv, UntrackedIsReaped, LiveLeader, Table, TypeOK
<1>7. (TargetIsLive /\ Remaining /\ OnlyOwnGroups)'
  BY <1>1 DEF IInv, TargetIsLive, Underway, Remaining, OnlyOwnGroups
<1> QED  BY <1>3, <1>6, <1>7 DEF IInv

\* A stop begins with every tracked name before it.
LEMMA StopBegins ==
    ASSUME IInv, StopAll \/ \E n \in Names : StopProcess(n)
    PROVE  IInv'
  BY DEF StopAll, StopProcess, IInv, TypeOK, osVars, UntrackedIsReaped, LiveLeader,
         Table, TargetIsLive, Underway, Remaining, OnlyOwnGroups

\* A stop that has nothing left to do changes nothing.
LEMMA StopEnds ==
    ASSUME IInv, Returns
    PROVE  IInv'
  BY DEF Returns, IInv, TypeOK, osVars, UntrackedIsReaped, LiveLeader,
         Table, TargetIsLive, Underway, Remaining, OnlyOwnGroups

\* A name whose leader is gone is forgotten once that leader is reaped.
LEMMA AlreadyStoppedKeeps ==
    ASSUME IInv, AlreadyStopped
    PROVE  IInv'
<1>1. PICK n \in todo :
         /\ ~IsRunning(n)
         /\ leader' = Polled(n)
         /\ processes' = [processes EXCEPT ![n] = NoProc]
         /\ todo' = todo \ {n}
  BY DEF AlreadyStopped, Forget
<1>2. at = "next" /\ UNCHANGED <<worker, pid, others, port, log, op, at, target, struck>>
  BY DEF AlreadyStopped
<1>3. TypeOK /\ n \in Names
  BY DEF IInv, TypeOK
<1>4. TypeOK'
  BY <1>1, <1>2, <1>3, PollReaps DEF TypeOK
<1>5. UntrackedIsReaped'
  <2> SUFFICES ASSUME NEW q \in Procs, leader'[q] \in {"running", "zombie"}
               PROVE  \E m \in Names : processes'[m] = q
    BY DEF UntrackedIsReaped, LiveLeader
  <2>1. q # processes[n]
    BY <1>1, <1>3, PollReaps, NamesAssumption DEF TypeOK, IsRunning, NoProc
  <2>2. PICK m \in Names : processes[m] = q
    BY <2>1, <1>1, <1>3, PollReaps DEF IInv, UntrackedIsReaped, LiveLeader
  <2> QED  BY <2>1, <2>2, <1>1, <1>3 DEF TypeOK
<1>6. Table'
  <2>1. \A m \in Names : processes'[m] = IF m = n THEN NoProc ELSE processes[m]
    BY <1>1, <1>3 DEF TypeOK
  <2>2. \A p \in Procs : leader[p] # "unused" => leader'[p] # "unused"
    BY <1>1, <1>3, PollReaps DEF TypeOK
  <2> QED  BY <2>1, <2>2, <1>3 DEF IInv, Table, TypeOK
<1>7. (TargetIsLive /\ Remaining /\ OnlyOwnGroups)'
  BY <1>1, <1>2, <1>3 DEF IInv, TypeOK, TargetIsLive, Underway, Remaining, OnlyOwnGroups
<1> QED  BY <1>4, <1>5, <1>6, <1>7 DEF IInv

\* The target of a stop is tracked and its leader is running.
LEMMA BeginStopKeeps ==
    ASSUME IInv, BeginStop
    PROVE  IInv'
<1>1. PICK n \in todo :
         IsRunning(n) /\ target' = n /\ todo' = todo \ {n} /\ at' = "term"
  BY DEF BeginStop
<1>2. at = "next" /\ UNCHANGED <<processes, leader, worker, pid, others, port, log, op, struck>>
  BY DEF BeginStop, osVars
<1>3. n \in Names /\ TypeOK
  BY DEF IInv, TypeOK
<1>4. processes[n] \in LiveLeader
  BY <1>1, <1>3 DEF IsRunning, LiveLeader, TypeOK
<1> QED
  BY <1>1, <1>2, <1>3, <1>4
  DEF IInv, TypeOK, UntrackedIsReaped, LiveLeader, Table, TargetIsLive, Underway,
      Remaining, OnlyOwnGroups

\* The signal goes to the target's own group.
LEMMA StrikesOwn ==
    ASSUME IInv, at \in Underway, Strike
    PROVE  struck' = struck
  BY DEF IInv, TargetIsLive, Strike

\* SIGTERM changes nothing the invariant speaks of.
LEMMA SendTermKeeps ==
    ASSUME IInv, SendTerm
    PROVE  IInv'
<1>1. /\ at = "term" /\ at' = "wait" /\ Strike
      /\ UNCHANGED <<processes, leader, worker, pid, others, port, log, op, target, todo>>
  BY DEF SendTerm, osVars
<1>2. struck' = struck
  BY <1>1, StrikesOwn DEF Underway
<1> QED
  BY <1>1, <1>2
  DEF IInv, TypeOK, UntrackedIsReaped, LiveLeader, Table, TargetIsLive, Underway,
      Remaining, OnlyOwnGroups

\* The target is forgotten in the step that reaps its leader.
LEMMA ReapKeeps ==
    ASSUME IInv, at \in Underway, Reap
    PROVE  IInv'
<1> DEFINE p == processes[target]
<1>1. /\ leader' = [leader EXCEPT ![p] = "reaped"]
      /\ processes' = [processes EXCEPT ![target] = NoProc]
      /\ at' = "next" /\ target' = NoProc
      /\ UNCHANGED <<worker, pid, others, port, log, op, todo, struck>>
  BY DEF Reap, Forget
<1>2. TypeOK /\ target \in Names /\ p \in Procs
  BY DEF IInv, TargetIsLive, LiveLeader
<1>3. TypeOK'
  BY <1>1, <1>2 DEF TypeOK
<1>4. \A m \in Names : processes'[m] = IF m = target THEN NoProc ELSE processes[m]
  BY <1>1, <1>2 DEF TypeOK
<1>5. \A q \in Procs : leader'[q] = IF q = p THEN "reaped" ELSE leader[q]
  BY <1>1, <1>2 DEF TypeOK
<1>6. UntrackedIsReaped'
  <2> SUFFICES ASSUME NEW q \in Procs, leader'[q] \in {"running", "zombie"}
               PROVE  \E m \in Names : processes'[m] = q
    BY DEF UntrackedIsReaped, LiveLeader
  <2>1. q # p /\ q \in LiveLeader
    BY <1>5 DEF LiveLeader
  <2>2. PICK m \in Names : processes[m] = q
    BY <2>1 DEF IInv, UntrackedIsReaped
  <2> QED  BY <2>1, <2>2, <1>4
<1>7. Table'
  BY <1>2, <1>4, <1>5 DEF IInv, Table, TypeOK
<1>8. (TargetIsLive /\ Remaining /\ OnlyOwnGroups)'
  BY <1>1, <1>4 DEF IInv, TargetIsLive, Underway, Remaining, OnlyOwnGroups
<1> QED  BY <1>3, <1>6, <1>7, <1>8 DEF IInv

\* A wait that times out forgets nothing.
LEMMA TimeoutsKeep ==
    ASSUME IInv, WaitTimesOut \/ ReapTimesOut
    PROVE  IInv'
  BY NamesAssumption
  DEF WaitTimesOut, ReapTimesOut, IInv, TypeOK, osVars, UntrackedIsReaped, LiveLeader,
      Table, TargetIsLive, Underway, Remaining, OnlyOwnGroups

\* A step that leaves the table alone and takes no leader's life as the manager
\* counts it keeps the rest of the invariant.
LEMMA SameLeaders ==
    ASSUME IInv, TypeOK',
           \A q \in Procs : leader'[q] \in {"running", "zombie"} <=> q \in LiveLeader,
           \A q \in Procs : leader[q] # "unused" => leader'[q] # "unused",
           at' = at \/ (at \in Underway /\ at' \in Underway),
           UNCHANGED <<processes, op, target, todo, struck>>
    PROVE  IInv'
<1>1. LiveLeader' = LiveLeader
  BY DEF LiveLeader
<1>2. UntrackedIsReaped'
  BY <1>1 DEF IInv, UntrackedIsReaped
<1>3. Table'
  BY NamesAssumption DEF IInv, Table, TypeOK, NoProc
<1>4. TargetIsLive'
  BY <1>1 DEF IInv, TargetIsLive, Underway
<1>5. (Remaining /\ OnlyOwnGroups)'
  BY DEF IInv, Remaining, OnlyOwnGroups, Underway
<1> QED  BY <1>2, <1>3, <1>4, <1>5 DEF IInv

\* SIGKILL leaves the leader running or a zombie, and tracked.
LEMMA SendKillKeeps ==
    ASSUME IInv, SendKill
    PROVE  IInv'
<1> DEFINE p == processes[target]
<1>1. /\ at = "kill" /\ at' = "reap" /\ Strike
      /\ leader' \in {leader, [leader EXCEPT ![p] = "zombie"]}
      /\ worker' = [worker EXCEPT ![p] = IF @ = "running" THEN "gone" ELSE @]
      /\ port' = IF port = p THEN "free" ELSE port
      /\ UNCHANGED <<processes, pid, others, log, op, target, todo>>
  BY DEF SendKill
<1>2. struck' = struck
  BY <1>1, StrikesOwn DEF Underway
<1>3. TypeOK /\ target \in Names /\ p \in LiveLeader
  BY <1>1 DEF IInv, TargetIsLive, Underway
<1>4. TypeOK'
  BY <1>1, <1>2, <1>3 DEF TypeOK, LiveLeader
<1>5. \A q \in Procs : leader'[q] \in {"running", "zombie"} <=> q \in LiveLeader
  BY <1>1, <1>3 DEF TypeOK, LiveLeader
<1>6. \A q \in Procs : leader[q] # "unused" => leader'[q] # "unused"
  BY <1>1, <1>3 DEF TypeOK, LiveLeader
<1> QED  BY <1>1, <1>2, <1>4, <1>5, <1>6, SameLeaders DEF Underway

\* Whatever the processes do, a leader stays live until it is reaped.
LEMMA EnvironmentKeeps ==
    ASSUME IInv, Environment
    PROVE  IInv'
<1>1. TypeOK
  BY DEF IInv
<1>2. TypeOK'
  BY <1>1 DEF Environment, LeaderExits, WorkerStarts, WorkerListens, WorkerExits,
              OtherStarts, OtherEnds, TypeOK, callVars, FreePids
<1>3. /\ \A q \in Procs : leader'[q] \in {"running", "zombie"} <=> q \in LiveLeader
      /\ \A q \in Procs : leader[q] # "unused" => leader'[q] # "unused"
  BY <1>1 DEF Environment, LeaderExits, WorkerStarts, WorkerListens, WorkerExits,
              OtherStarts, OtherEnds, TypeOK, LiveLeader
<1>4. UNCHANGED <<processes, op, at, target, todo, struck>>
  BY DEF Environment, LeaderExits, WorkerStarts, WorkerListens, WorkerExits,
         OtherStarts, OtherEnds, callVars
<1> QED  BY <1>2, <1>3, <1>4, SameLeaders

-----------------------------------------------------------------------------

\* The invariant is inductive.
THEOREM ManagerInvariance == Spec => []IInv
<1>1. Init => IInv
  BY ManagerInit
<1>2. IInv /\ [Next]_vars => IInv'
  <2> SUFFICES ASSUME IInv, [Next]_vars PROVE IInv'
    OBVIOUS
  <2>1. CASE Client
    BY <2>1, StartKeeps, PollKeeps, StopBegins DEF Client
  <2>2. CASE Stopping
    <3>1. CASE Returns
      BY <3>1, StopEnds
    <3>2. CASE AlreadyStopped
      BY <3>2, AlreadyStoppedKeeps
    <3>3. CASE BeginStop
      BY <3>3, BeginStopKeeps
    <3>4. CASE SendTerm
      BY <3>4, SendTermKeeps
    <3>5. CASE SendKill
      BY <3>5, SendKillKeeps
    <3>6. CASE WaitEnds \/ ReapKilled
      BY <3>6, ReapKeeps DEF WaitEnds, ReapKilled, Underway
    <3>7. CASE WaitTimesOut \/ ReapTimesOut
      BY <3>7, TimeoutsKeep
    <3> QED  BY <2>2, <3>1, <3>2, <3>3, <3>4, <3>5, <3>6, <3>7 DEF Stopping
  <2>3. CASE Environment
    BY <2>3, EnvironmentKeeps
  <2>4. CASE UNCHANGED vars
    BY <2>4 DEF vars, osVars, callVars, IInv, TypeOK, UntrackedIsReaped, LiveLeader,
                Table, TargetIsLive, Underway, Remaining, OnlyOwnGroups
  <2> QED  BY <2>1, <2>2, <2>3, <2>4 DEF Next
<1> QED  BY <1>1, <1>2, PTL DEF Spec

\* The state of the manager keeps its shape.
THEOREM ManagerTypeCorrect == Spec => []TypeOK
  BY ManagerInvariance, PTL DEF IInv

\* A stop strikes only process groups the manager started.
THEOREM OnlyOwnGroupsHolds == Spec => []OnlyOwnGroups
  BY ManagerInvariance, PTL DEF IInv

\* No leader that was started is lost or left a zombie.
THEOREM UntrackedIsReapedHolds == Spec => []UntrackedIsReaped
  BY ManagerInvariance, PTL DEF IInv

\* When stop_all returns, no leader is left.
THEOREM CleanupIsCompleteHolds == Spec => []CleanupIsComplete
<1>1. IInv => CleanupIsComplete
  BY NamesAssumption
  DEF IInv, UntrackedIsReaped, LiveLeader, Remaining, Underway, CleanupIsComplete, NoProc
<1> QED  BY <1>1, ManagerInvariance, PTL

\* A step that opens no log file and starts no process leaves each log to its process.
LEMMA LogsKept ==
    ASSUME TypeOK, LogsAreItsOwn, log' = log,
           \A n \in Names : processes'[n] = processes[n] \/ processes'[n] = NoProc,
           \A p \in Procs : leader'[p] = "running" => leader[p] = "running"
    PROVE  LogsAreItsOwn'
<1> SUFFICES ASSUME NEW n \in Names, IsRunning(n)'
             PROVE  log[n] = processes[n] /\ processes'[n] = processes[n]
  BY DEF LogsAreItsOwn
<1>1. processes'[n] = processes[n] /\ processes[n] \in Procs
  BY DEF IsRunning, TypeOK
<1> QED  BY <1>1 DEF IsRunning, LogsAreItsOwn

\* A start opens the log files of a name whose process is not running.
LEMMA LogsOpened ==
    ASSUME IInv, LogsAreItsOwn, NEW n \in Names, StartProcess(n) \/ StartFails(n)
    PROVE  LogsAreItsOwn'
<1>1. TypeOK /\ ~IsRunning(n)
  BY DEF IInv, StartProcess, StartFails, MayStart
<1>2. CASE StartFails(n)
  <2>1. /\ processes' = processes /\ leader' = Polled(n)
        /\ \A m \in Names \ {n} : log'[m] = log[m]
    BY <1>1, <1>2 DEF StartFails, TypeOK
  <2>2. \A p \in Procs : leader'[p] = "running" => leader[p] = "running"
    BY <1>1, <2>1, PollReaps DEF TypeOK
  <2>3. \A m \in Names : processes[m] # NoProc => processes[m] \in Procs
    BY <1>1 DEF TypeOK
  <2> QED  BY <1>1, <2>1, <2>2, <2>3 DEF IsRunning, LogsAreItsOwn
<1>3. CASE StartProcess(n)
  <2>1. PICK p \in Procs, i \in FreePids :
           /\ leader[p] = "unused"
           /\ leader' = [Polled(n) EXCEPT ![p] = "running"]
           /\ processes' = [processes EXCEPT ![n] = p]
           /\ log' = [log EXCEPT ![n] = p]
    BY <1>3 DEF StartProcess
  <2>2. processes'[n] = p /\ log'[n] = p
    BY <1>1, <2>1 DEF TypeOK
  <2>3. ASSUME NEW m \in Names \ {n}, IsRunning(m)'
        PROVE  log'[m] = processes'[m]
    <3>1. processes'[m] = processes[m] /\ log'[m] = log[m] /\ processes[m] \in Procs
      BY <1>1, <2>1, <2>3 DEF TypeOK, IsRunning
    <3>2. processes[m] # p /\ processes[m] # NoProc
      BY <2>1, <3>1, NamesAssumption DEF IInv, Table, NoProc
    <3>3. leader'[processes[m]] = Polled(n)[processes[m]]
      BY <1>1, <2>1, <3>1, <3>2, PollReaps
    <3>4. leader[processes[m]] = "running"
      BY <1>1, <2>3, <3>1, <3>3, PollReaps DEF IsRunning, TypeOK
    <3> QED  BY <3>1, <3>2, <3>4 DEF IsRunning, LogsAreItsOwn
  <2> QED  BY <2>2, <2>3 DEF LogsAreItsOwn
<1> QED  BY <1>2, <1>3

\* The logs of a process that runs are its own.
THEOREM LogsAreItsOwnHolds == Spec => []LogsAreItsOwn
<1>1. Init => LogsAreItsOwn
  BY DEF Init, IsRunning, LogsAreItsOwn
<1>2. IInv /\ LogsAreItsOwn /\ [Next]_vars => LogsAreItsOwn'
  <2> SUFFICES ASSUME IInv, LogsAreItsOwn, [Next]_vars PROVE LogsAreItsOwn'
    OBVIOUS
  <2>1. TypeOK
    BY DEF IInv
  <2>2. CASE \E n \in Names : StartProcess(n) \/ StartFails(n)
    BY <2>2, LogsOpened
  <2>3. CASE \E n \in Names : TailLogs(n)
    <3>1. PICK n \in Names : TailLogs(n)
      BY <2>3
    <3> QED  BY <2>1, <3>1, PollReaps, LogsKept DEF TailLogs, TypeOK
  <2>4. CASE AlreadyStopped
    <3>1. PICK n \in todo : leader' = Polled(n) /\ processes' = [processes EXCEPT ![n] = NoProc]
      BY <2>4 DEF AlreadyStopped, Forget
    <3>2. n \in Names /\ log' = log
      BY <2>1, <2>4, <3>1 DEF AlreadyStopped, TypeOK
    <3> QED  BY <2>1, <3>1, <3>2, PollReaps, LogsKept DEF TypeOK
  <2>5. CASE WaitEnds \/ ReapKilled
    BY <2>1, <2>5, LogsKept DEF WaitEnds, ReapKilled, Reap, Forget, TypeOK
  <2>6. CASE \/ StopAll \/ Returns \/ BeginStop \/ SendTerm \/ WaitTimesOut
             \/ ReapTimesOut \/ (\E n \in Names : StopProcess(n))
    <3>1. UNCHANGED <<processes, leader, log>>
      BY <2>6 DEF StopAll, Returns, BeginStop, SendTerm, WaitTimesOut, ReapTimesOut,
                  StopProcess, osVars
    <3> QED  BY <2>1, <3>1, LogsKept
  <2>7. CASE SendKill
    BY <2>1, <2>7, LogsKept DEF SendKill, TypeOK
  <2>8. CASE Environment
    <3>1. processes' = processes /\ log' = log
      BY <2>8 DEF Environment, LeaderExits, WorkerStarts, WorkerListens, WorkerExits,
                  OtherStarts, OtherEnds
    <3>2. \A p \in Procs : leader'[p] = "running" => leader[p] = "running"
      BY <2>1, <2>8 DEF Environment, LeaderExits, WorkerStarts, WorkerListens, WorkerExits,
                        OtherStarts, OtherEnds, TypeOK
    <3> QED  BY <2>1, <3>1, <3>2, LogsKept
  <2>9. CASE UNCHANGED vars
    BY <2>1, <2>9, LogsKept DEF vars, osVars
  <2> QED
    BY <2>2, <2>3, <2>4, <2>5, <2>6, <2>7, <2>8, <2>9 DEF Next, Client, Stopping
<1> QED  BY <1>1, <1>2, ManagerInvariance, PTL DEF Spec

-----------------------------------------------------------------------------
(* How long a stop can be.  StopReturns needs the fairness of the thread;    *)
(* that a stop cannot go on for ever needs none, nor a process that dies.    *)

Places == {"idle", "next", "term", "wait", "kill", "reap"}

\* The steps from a place to the next name, at most.
Ahead ==
    [p \in Places |->
        CASE p = "idle" -> 0
          [] p = "next" -> 1
          [] p = "reap" -> 2
          [] p = "kill" -> 3
          [] p = "wait" -> 4
          [] p = "term" -> 5]

\* At most how many steps of the thread are left until the stop returns.
StepsLeft == IF at = "idle" THEN 0 ELSE 5 * Cardinality(todo) + Ahead[at]

\* A step while something is being stopped is one of the thread, which brings the
\* end of the stop nearer, or one of the processes, which does not put it off.
EachStepCounts ==
    [][at # "idle" => \/ Stopping /\ StepsLeft' < StepsLeft
                      \/ Environment /\ StepsLeft' = StepsLeft]_vars

\* Where a stop waits, its process is running or to be reaped: one of the two ways
\* on is open.
NeverStuck ==
    at \in {"wait", "reap"} =>
        IsRunning(target) \/ leader[processes[target]] = "zombie"

\* The names that are in use, of which there are finitely many.
Used == {n \in Names : processes[n] # NoProc}

Finite == IsFiniteSet(Used) /\ IsFiniteSet(todo)

\* A call starts at most one process, so the names in use stay finitely many.
LEMMA FiniteKept ==
    ASSUME TypeOK, Finite, [Next]_vars
    PROVE  Finite'
<1>1. \A n : IsFiniteSet(Used \cup {n}) /\ IsFiniteSet(todo \ {n})
  BY FS_AddElement, FS_RemoveElement DEF Finite
<1>2. \A S : S \subseteq Used => IsFiniteSet(S)
  BY FS_Subset DEF Finite
<1>3. IsFiniteSet({}) /\ \A n : IsFiniteSet({n})
  BY FS_EmptySet, FS_Singleton
<1>4. ASSUME NEW n \in Names, StartProcess(n)
      PROVE  Finite'
  <2>1. PICK p \in Procs : processes' = [processes EXCEPT ![n] = p]
    BY <1>4 DEF StartProcess
  <2>2. Used' \subseteq Used \cup {n} /\ todo' = todo
    BY <2>1, <1>4 DEF Used, TypeOK, StartProcess, callVars
  <2> QED  BY <1>1, <2>2, FS_Subset DEF Finite
<1>5. ASSUME NEW n \in Names, StopProcess(n)
      PROVE  Finite'
  <2>1. Used' = Used /\ todo' = {n}
    BY <1>5 DEF Used, StopProcess
  <2> QED  BY <1>3, <2>1 DEF Finite
<1>6. CASE StopAll
  <2>1. Used' = Used /\ todo' = Used
    BY <1>6 DEF Used, StopAll
  <2> QED  BY <2>1 DEF Finite
<1>7. CASE AlreadyStopped \/ WaitEnds \/ ReapKilled
  <2>1. PICK n \in Names \cup {NoProc} : processes' = [processes EXCEPT ![n] = NoProc]
    BY <1>7 DEF AlreadyStopped, WaitEnds, ReapKilled, Reap, Forget, TypeOK
  <2>2. Used' \subseteq Used
    BY <2>1 DEF Used, TypeOK
  <2>3. \E m : todo' = todo \ {m} \/ todo' = todo
    BY <1>7 DEF AlreadyStopped, WaitEnds, ReapKilled, Reap
  <2> QED  BY <1>1, <1>2, <2>2, <2>3 DEF Finite
<1>8. CASE BeginStop
  <2>1. Used' = Used /\ \E n : todo' = todo \ {n}
    BY <1>8 DEF Used, BeginStop
  <2> QED  BY <1>1, <2>1 DEF Finite
<1>9. CASE ReapTimesOut
  <2>1. Used' = Used /\ todo' = {}
    BY <1>9 DEF Used, ReapTimesOut
  <2> QED  BY <1>3, <2>1 DEF Finite
<1>10. CASE UNCHANGED <<processes, todo>>
  BY <1>10 DEF Finite, Used
<1> QED
  BY <1>4, <1>5, <1>6, <1>7, <1>8, <1>9, <1>10
  DEF Next, Client, Stopping, Environment, StartFails, TailLogs, Returns, SendTerm,
      WaitTimesOut, SendKill, LeaderExits, WorkerStarts, WorkerListens, WorkerExits,
      OtherStarts, OtherEnds, osVars, callVars, vars

\* Each step of a stop leaves fewer steps, each step of a process as many.
LEMMA StopDescends ==
    ASSUME IInv, Finite, at # "idle", Next
    PROVE  \/ Stopping /\ StepsLeft' < StepsLeft
           \/ Environment /\ StepsLeft' = StepsLeft
<1>1. Ahead = [p \in Places |-> Ahead[p]]
      /\ Ahead["idle"] = 0 /\ Ahead["next"] = 1 /\ Ahead["reap"] = 2
      /\ Ahead["kill"] = 3 /\ Ahead["wait"] = 4 /\ Ahead["term"] = 5
  BY DEF Ahead, Places
<1>2. Cardinality(todo) \in Nat
      /\ \A n \in todo : Cardinality(todo \ {n}) = Cardinality(todo) - 1
  BY FS_CardinalityType, FS_RemoveElement DEF Finite
<1>3. CASE Environment
  <2>1. at' = at /\ todo' = todo
    BY <1>3 DEF Environment, LeaderExits, WorkerStarts, WorkerListens, WorkerExits,
       OtherStarts, OtherEnds, callVars
  <2> QED  BY <1>3, <2>1 DEF StepsLeft, Ahead
<1>4. CASE AlreadyStopped \/ BeginStop
  <2>1. PICK n \in todo : todo' = todo \ {n}
    BY <1>4 DEF AlreadyStopped, BeginStop
  <2>2. at = "next" /\ at' \in {"next", "term"}
    BY <1>4 DEF AlreadyStopped, BeginStop
  <2>3. StepsLeft = 5 * Cardinality(todo) + 1
    BY <1>1, <2>2 DEF StepsLeft
  <2>4. StepsLeft' = 5 * Cardinality(todo \ {n}) + Ahead[at']
    BY <2>1, <2>2 DEF StepsLeft, Ahead
  <2>5. StepsLeft' < StepsLeft
    BY <1>1, <1>2, <2>2, <2>3, <2>4
  <2> QED  BY <1>4, <2>5 DEF Stopping
<1>5. CASE SendTerm \/ WaitEnds \/ WaitTimesOut \/ SendKill \/ ReapKilled
  <2>1. todo' = todo
    BY <1>5 DEF SendTerm, WaitEnds, WaitTimesOut, SendKill, ReapKilled, Reap
  <2>2. \/ at = "term" /\ at' = "wait"
        \/ at = "wait" /\ at' \in {"next", "kill"}
        \/ at = "kill" /\ at' = "reap"
        \/ at = "reap" /\ at' = "next"
    BY <1>5 DEF SendTerm, WaitEnds, WaitTimesOut, SendKill, ReapKilled, Reap
  <2>3. StepsLeft = 5 * Cardinality(todo) + Ahead[at]
        /\ StepsLeft' = 5 * Cardinality(todo) + Ahead[at']
    BY <2>1, <2>2 DEF StepsLeft, Ahead
  <2>4. StepsLeft' < StepsLeft
    BY <1>1, <1>2, <2>2, <2>3
  <2> QED  BY <1>5, <2>4 DEF Stopping
<1>6. CASE Returns \/ ReapTimesOut
  <2>1. at \in {"next", "reap"} /\ at' = "idle"
    BY <1>6 DEF Returns, ReapTimesOut
  <2>2. StepsLeft' = 0 /\ StepsLeft = 5 * Cardinality(todo) + Ahead[at]
    BY <2>1 DEF StepsLeft
  <2>3. StepsLeft' < StepsLeft
    BY <1>1, <1>2, <2>1, <2>2
  <2> QED  BY <1>6, <2>3 DEF Stopping
<1>7. ~Client
  BY DEF Client, StartProcess, StartFails, TailLogs, StopProcess, StopAll
<1> QED
  BY <1>3, <1>4, <1>5, <1>6, <1>7 DEF Next, Stopping

\* A stop of k names returns after at most 5 * k + 1 steps of its thread, whatever
\* the processes do, with a way on wherever it waits; steps of processes do not
\* put its end off, and none of the manager's other calls comes in between.
THEOREM StopIsBounded ==
    Spec => /\ [](StepsLeft \in Nat /\ (StepsLeft = 0 => at = "idle"))
            /\ []NeverStuck
            /\ EachStepCounts
<1>1. Init => Finite
  <2>1. ASSUME Init PROVE Used = {} /\ todo = {}
    BY <2>1 DEF Init, Used
  <2> QED  BY <2>1, FS_EmptySet DEF Finite
<1>2. IInv /\ Finite /\ [Next]_vars => Finite'
  BY FiniteKept DEF IInv
<1>3. IInv /\ Finite => StepsLeft \in Nat /\ (StepsLeft = 0 => at = "idle")
  <2> SUFFICES ASSUME IInv, Finite
               PROVE  StepsLeft \in Nat /\ (StepsLeft = 0 => at = "idle")
    OBVIOUS
  <2>1. Cardinality(todo) \in Nat
    BY FS_CardinalityType DEF Finite
  <2>2. at \in Places /\ \A p \in Places : Ahead[p] \in 0..5 /\ (p # "idle" => Ahead[p] # 0)
    BY DEF IInv, TypeOK, Ahead, Places
  <2> QED  BY <2>1, <2>2 DEF StepsLeft
<1>4. IInv => NeverStuck
  BY NamesAssumption
  DEF IInv, TypeOK, TargetIsLive, Underway, LiveLeader, NeverStuck, IsRunning, NoProc
<1>5. IInv /\ Finite /\ [Next]_vars =>
        [at # "idle" => \/ Stopping /\ StepsLeft' < StepsLeft
                        \/ Environment /\ StepsLeft' = StepsLeft]_vars
  BY StopDescends
<1> QED
  BY <1>1, <1>2, <1>3, <1>4, <1>5, ManagerInvariance, PTL DEF Spec, EachStepCounts
=============================================================================
