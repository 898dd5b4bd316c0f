--------------------------- MODULE ProcessManager ---------------------------
(***************************************************************************)
(* tools/process_manager.py and the operating system's processes below it. *)
(* One thread calls start_process, stop_process, stop_all and tail_logs;   *)
(* between the system calls of a stop the processes live on: a leader      *)
(* (npm) may exit at any time, and so may the worker it started (the dev   *)
(* server proper), which shares its process group and may outlive it.      *)
(*                                                                         *)
(* A refused call changes nothing and is no action.  stop_all is           *)
(* stop_process for every name, so both run the same steps over todo.      *)
(***************************************************************************)
CONSTANTS
    Names,    \* names of managed processes
    Procs,    \* Popen objects, each used once
    Pids      \* process ids, also ids of process groups

NoProc == "none"

ASSUME NamesAssumption == NoProc \notin Procs \cup Pids

VARIABLES
    processes,  \* _processes: the Popen tracked under a name
    leader,     \* of a Popen: its child is unused, running, zombie or reaped
    worker,     \* the rest of its group: none, running or gone
    pid,        \* its pid, which is its group's id
    others,     \* pids of process groups the manager did not start
    port,       \* who answers at the dev server's URL
    log,        \* whose output the log files of a name hold
    op, at, target, todo,   \* the stop that is running, and where it stands
    struck      \* groups of others that killpg has signalled

osVars == <<leader, worker, pid, others, port>>
callVars == <<op, at, target, todo>>
vars == <<processes, osVars, log, callVars, struck>>

LiveLeader == {p \in Procs : leader[p] \in {"running", "zombie"}}
Group(p) == IF p \in LiveLeader \/ worker[p] = "running" THEN {pid[p]} ELSE {}

\* A number is not given again while its process is unreaped or its group lives.
FreePids == Pids \ (others \cup UNION {Group(p) : p \in Procs})

Init ==
    /\ processes = [n \in Names |-> NoProc]
    /\ leader = [p \in Procs |-> "unused"]
    /\ worker = [p \in Procs |-> "none"]
    /\ pid = [p \in Procs |-> NoProc]
    /\ others = {}
    /\ port \in {"free", "foreign"}
    /\ log = [n \in Names |-> NoProc]
    /\ op = "none"
    /\ at = "idle"
    /\ target = NoProc
    /\ todo = {}
    /\ struck = {}

-----------------------------------------------------------------------------
(* start_process *)

\* Mutant of IsRunning: a tracked process is taken for a running one.
IsTracked(n) == processes[n] # NoProc

IsRunning(n) == processes[n] # NoProc /\ leader[processes[n]] = "running"

\* poll() reaps a zombie.
Polled(n) ==
    IF processes[n] # NoProc /\ leader[processes[n]] = "zombie"
    THEN [leader EXCEPT ![processes[n]] = "reaped"] ELSE leader

\* Mutant of MayStart: a name that is in use is given to the new process.
MayStartAnyway(n) == TRUE

MayStart(n) == ~IsRunning(n)

StartProcess(n) ==
    /\ at = "idle"
    /\ MayStart(n)
    /\ \E p \in Procs, i \in FreePids :
          /\ leader[p] = "unused"
          /\ leader' = [Polled(n) EXCEPT ![p] = "running"]
          /\ pid' = [pid EXCEPT ![p] = i]
          /\ processes' = [processes EXCEPT ![n] = p]
          /\ log' = [log EXCEPT ![n] = p]
    /\ UNCHANGED <<worker, others, port, callVars, struck>>

\* Popen raises after the log files were opened for writing.
StartFails(n) ==
    /\ at = "idle"
    /\ MayStart(n)
    /\ leader' = Polled(n)
    /\ log' = [log EXCEPT ![n] = NoProc]
    /\ UNCHANGED <<processes, worker, pid, others, port, callVars, struck>>

\* wait_until_ready says yes: something answers at the URL, whoever it is.
AnswersReady == port # "free"

TailLogs(n) ==
    /\ at = "idle"
    /\ leader' = Polled(n)
    /\ UNCHANGED <<processes, worker, pid, others, port, log, callVars, struck>>

-----------------------------------------------------------------------------
(* stop_process and stop_all *)

StopProcess(n) ==
    /\ at = "idle"
    /\ processes[n] # NoProc
    /\ op' = "stop" /\ todo' = {n}
    /\ at' = "next"
    /\ UNCHANGED <<processes, osVars, log, target, struck>>

StopAll ==
    /\ at = "idle"
    /\ op' = "stop_all" /\ todo' = {n \in Names : processes[n] # NoProc}
    /\ at' = "next"
    /\ UNCHANGED <<processes, osVars, log, target, struck>>

Returns ==
    /\ at = "next" /\ todo = {}
    /\ at' = "idle" /\ op' = "none"
    /\ UNCHANGED <<processes, osVars, log, target, todo, struck>>

\* Mutant of Forget: the name keeps the pid of the process that is gone.
ForgetProcessOnly(n) == processes' = [processes EXCEPT ![n] = pid[@]]

Forget(n) == processes' = [processes EXCEPT ![n] = NoProc]

\* The leader is gone: the name is forgotten and its group left alone.
AlreadyStopped ==
    /\ at = "next"
    /\ \E n \in todo :
          /\ ~IsRunning(n)
          /\ leader' = Polled(n)
          /\ Forget(n)
          /\ todo' = todo \ {n}
    /\ UNCHANGED <<worker, pid, others, port, log, op, at, target, struck>>

\* is_running() said yes; by the time of the signal this may be old.
BeginStop ==
    /\ at = "next"
    /\ \E n \in todo :
          /\ IsRunning(n)
          /\ target' = n /\ todo' = todo \ {n}
          /\ at' = "term"
    /\ UNCHANGED <<processes, osVars, log, op, struck>>

\* killpg(getpgid(pid)): the group of whoever has the pid.  The members may
\* end of a SIGTERM at once, later (LeaderExits, WorkerExits) or not at all.
Strike ==
    struck' = IF processes[target] \in LiveLeader THEN struck
              ELSE struck \cup ({pid[processes[target]]} \cap others)

SendTerm ==
    /\ at = "term"
    /\ Strike
    /\ at' = "wait"
    /\ UNCHANGED <<processes, osVars, log, op, target, todo>>

Reap ==
    /\ leader[processes[target]] = "zombie"
    /\ leader' = [leader EXCEPT ![processes[target]] = "reaped"]
    /\ Forget(target)
    /\ at' = "next" /\ target' = NoProc
    /\ UNCHANGED <<worker, pid, others, port, log, op, todo, struck>>

WaitEnds == at = "wait" /\ Reap

\* Mutant of WaitTimesOut: a process that ignores SIGTERM is given up.
WaitGivesUp ==
    /\ at = "wait"
    /\ IsRunning(target)
    /\ Forget(target)
    /\ at' = "next" /\ target' = NoProc
    /\ UNCHANGED <<osVars, log, op, todo, struck>>

WaitTimesOut ==
    /\ at = "wait"
    /\ IsRunning(target)
    /\ at' = "kill"
    /\ UNCHANGED <<processes, osVars, log, op, target, todo, struck>>

\* SIGKILL ends every member of the group, unless it hangs in the kernel.
SendKill ==
    /\ at = "kill"
    /\ Strike
    /\ LET p == processes[target] IN
          /\ leader' \in {leader, [leader EXCEPT ![p] = "zombie"]}
          /\ worker' = [worker EXCEPT ![p] = IF @ = "running" THEN "gone" ELSE @]
          /\ port' = IF port = p THEN "free" ELSE port
    /\ at' = "reap"
    /\ UNCHANGED <<processes, pid, others, log, op, target, todo>>

ReapKilled == at = "reap" /\ Reap

\* Mutant of ReapTimesOut: the wait for the killed process has no timeout.
ReapWaitsOn ==
    /\ at = "reap"
    /\ IsRunning(target)
    /\ UNCHANGED vars

\* TimeoutExpired leaves stop_process, and stop_all with it.
ReapTimesOut ==
    /\ at = "reap"
    /\ IsRunning(target)
    /\ at' = "idle" /\ op' = "none" /\ target' = NoProc /\ todo' = {}
    /\ UNCHANGED <<processes, osVars, log, struck>>

-----------------------------------------------------------------------------
(* The processes themselves *)

LeaderExits(p) ==
    /\ leader[p] = "running"
    /\ leader' = [leader EXCEPT ![p] = "zombie"]
    /\ UNCHANGED <<processes, worker, pid, others, port, log, callVars, struck>>

WorkerStarts(p) ==
    /\ leader[p] = "running" /\ worker[p] = "none"
    /\ worker' = [worker EXCEPT ![p] = "running"]
    /\ UNCHANGED <<processes, leader, pid, others, port, log, callVars, struck>>

WorkerListens(p) ==
    /\ worker[p] = "running" /\ port = "free"
    /\ port' = p
    /\ UNCHANGED <<processes, leader, worker, pid, others, log, callVars, struck>>

WorkerExits(p) ==
    /\ worker[p] = "running"
    /\ worker' = [worker EXCEPT ![p] = "gone"]
    /\ port' = IF port = p THEN "free" ELSE port
    /\ UNCHANGED <<processes, leader, pid, others, log, callVars, struck>>

OtherStarts ==
    /\ \E i \in FreePids : others' = others \cup {i}
    /\ UNCHANGED <<processes, leader, worker, pid, port, log, callVars, struck>>

OtherEnds ==
    /\ \E i \in others : others' = others \ {i}
    /\ UNCHANGED <<processes, leader, worker, pid, port, log, callVars, struck>>

Client ==
    \/ \E n \in Names : StartProcess(n) \/ StartFails(n) \/ TailLogs(n) \/ StopProcess(n)
    \/ StopAll

Stopping ==
    Returns \/ AlreadyStopped \/ BeginStop \/ SendTerm \/ WaitEnds \/ WaitTimesOut
        \/ SendKill \/ ReapKilled \/ ReapTimesOut

Environment ==
    \/ \E p \in Procs : LeaderExits(p) \/ WorkerStarts(p) \/ WorkerListens(p)
                          \/ WorkerExits(p)
    \/ OtherStarts
    \/ OtherEnds

Next == Client \/ Stopping \/ Environment

Spec == Init /\ [][Next]_vars

\* The thread that stops goes on; its waits have timeouts.  Nothing is assumed
\* of the processes: they need not die.
FairSpec == Spec /\ WF_vars(Stopping)

-----------------------------------------------------------------------------
(* Properties *)

\* The shape of the state.
TypeOK ==
    /\ processes \in [Names -> Procs \cup {NoProc}]
    /\ leader \in [Procs -> {"unused", "running", "zombie", "reaped"}]
    /\ worker \in [Procs -> {"none", "running", "gone"}]
    /\ pid \in [Procs -> Pids \cup {NoProc}]
    /\ others \in SUBSET Pids
    /\ port \in Procs \cup {"free", "foreign"}
    /\ log \in [Names -> Procs \cup {NoProc}]
    /\ op \in {"none", "stop", "stop_all"}
    /\ at \in {"idle", "next", "term", "wait", "kill", "reap"}
    /\ target \in Names \cup {NoProc}
    /\ todo \in SUBSET Names
    /\ struck \in SUBSET Pids

\* A stop signals no process group but one the manager started, whoever has
\* its pid by then: is_running() is old when killpg runs, and tail_logs or a
\* second start may have reaped the leader long before.
OnlyOwnGroups == struck = {}

\* Every leader that was started and not yet reaped is tracked under a name:
\* none is lost to a second start of its name, a failed start or a stop that
\* timed out, and none stays a zombie.
UntrackedIsReaped == \A p \in LiveLeader : \E n \in Names : processes[n] = p

\* When the cleanup of an iteration returns, each leader it started is gone.
\* (Their workers need not be.)
CleanupIsComplete ==
    op = "stop_all" /\ at = "next" /\ todo = {} => LiveLeader = {}

\* While a process runs, the log files of its name hold its own output: they are
\* opened anew, and so truncated, by every start of the name that gets past
\* is_running(), also by one that then fails.
LogsAreItsOwn == \A n \in Names : IsRunning(n) => log[n] = processes[n]

\* A stop returns or raises, also for a process that dies of nothing.
StopReturns == at # "idle" ~> at = "idle"
=============================================================================
