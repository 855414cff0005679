--------------------------- MODULE StrategyTasks ---------------------------
(***************************************************************************)
(* StrategyTaskManager with the tasks it steps and the files it keeps of   *)
(* them (TaskPersistenceManager), through crashes and restarts.            *)
(*                                                                         *)
(* A task is known by its tag.  A context is its version: every change     *)
(* makes a new one.  The files hold a version each: a directory for the    *)
(* tasks to recover and one for those that were cancelled.  No strategy    *)
(* sets the status completed, and errors inside a step are the step's own  *)
(* affair, so the directory for completed tasks and the status error are   *)
(* left out.                                                               *)
(*                                                                         *)
(* save_context runs without an await: nobody sees it half done but the    *)
(* process that starts after a crash, and the code after an exception.     *)
(*                                                                         *)
(* Recovery depends on a table of task types.  The table of the source     *)
(* names no type that its tasks write into their tags, so that nothing is  *)
(* recovered: Recoverable is empty there.  What the manager does once the  *)
(* table is right is the general case.                                     *)
(*                                                                         *)
(* A second task with the tag of a managed one is left out.                *)
(***************************************************************************)
EXTENDS Naturals, FiniteSets

CONSTANTS
    Tasks,       \* the tags
    SymbolOf,    \* context.symbol
    Recoverable, \* the tags whose type TASK_TYPE_MAP knows
    MaxVersion,  \* bound: how often the context of each task changes
    MaxFaults    \* bound: crashes and failed saves

ASSUME BoundsAssumption == MaxVersion \in [Tasks -> Nat \ {0}] /\ MaxFaults \in Nat
ASSUME RecoverableAssumption == Recoverable \subseteq Tasks

VARIABLES
    loop,      \* the execution loop: down when there is no manager
    running,   \* _running
    status,    \* context.status; none when the manager does not hold the task
    version,   \* the context
    flag,      \* context.should_save_flag
    asked,     \* (history) the version that the last save asked for had to take
    exec,      \* _execute_task in the present round
    starting,  \* the tasks in start()
    toRecover, \* what load_active_task_raw_context returned, not yet recovered
    active,    \* the files to recover, by the version they hold, 0 for none
    errored,   \* the files of cancelled tasks
    failed,    \* (history) the last save of the task raised
    over,      \* (history) the task was cancelled, saved and removed
    faults     \* how many faults there were

memory == <<status, version, flag, asked>>
files  == <<active, errored>>
vars   == <<loop, running, memory, exec, starting, toRecover, files, failed, over, faults>>

TypeOK ==
    /\ loop \in {"down", "recovering", "idle", "round", "collect", "cancelling"}
    /\ running \in BOOLEAN
    /\ status \in [Tasks -> {"none", "inactive", "active", "paused", "cancelled"}]
    /\ version \in [Tasks -> Nat]
    /\ flag \in [Tasks -> BOOLEAN]
    /\ asked \in [Tasks -> Nat]
    /\ exec \in [Tasks -> {"no", "waiting", "stepping", "done", "finished"}]
    /\ starting \subseteq Tasks
    /\ toRecover \subseteq Tasks
    /\ active \in [Tasks -> Nat]
    /\ errored \in [Tasks -> Nat]
    /\ \A t \in Tasks : /\ asked[t] <= version[t]
                        /\ version[t] <= MaxVersion[t]
                        /\ active[t] <= MaxVersion[t]
                        /\ errored[t] <= MaxVersion[t]
    /\ failed \in [Tasks -> BOOLEAN]
    /\ over \in [Tasks -> BOOLEAN]
    /\ faults \in 0..MaxFaults

Init ==
    /\ loop = "down"
    /\ running = FALSE
    /\ status = [t \in Tasks |-> "none"]
    /\ version = [t \in Tasks |-> 0]
    /\ flag = [t \in Tasks |-> FALSE]
    /\ asked = [t \in Tasks |-> 0]
    /\ exec = [t \in Tasks |-> "no"]
    /\ starting = {}
    /\ toRecover = {}
    /\ active = [t \in Tasks |-> 0]
    /\ errored = [t \in Tasks |-> 0]
    /\ failed = [t \in Tasks |-> FALSE]
    /\ over = [t \in Tasks |-> FALSE]
    /\ faults = 0

Managed == {t \in Tasks : status[t] # "none"}

\* What the files hold of a task, in whatever directory.
Newest(t) == IF active[t] < errored[t] THEN errored[t] ELSE active[t]

\* Between two awaits of the loop nobody else runs.
Awaits == loop \in {"recovering", "idle", "round", "cancelling"}

-----------------------------------------------------------------------------
(* save_context *)

\* Mutant: paused tasks are put aside.
DirOfPausedAside(s) == IF s \in {"cancelled", "paused"} THEN "errored" ELSE "active"

\* The directory of a status.
DirOf(s) == IF s = "cancelled" THEN "errored" ELSE "active"

\* How far a save gets: the file is written and renamed, then the one in the
\* other directory is removed.
Stages == {"nothing", "renamed", "all"}

\* Mutant: the other directory is cleaned up first.
StoreUnlinksFirst(t, dir, stage) ==
    /\ active' = CASE dir = "active" /\ stage = "all"      -> [active EXCEPT ![t] = version[t]]
                   [] dir # "active" /\ stage # "nothing"  -> [active EXCEPT ![t] = 0]
                   [] OTHER                                -> active
    /\ errored' = CASE dir = "errored" /\ stage = "all"     -> [errored EXCEPT ![t] = version[t]]
                    [] dir # "errored" /\ stage # "nothing" -> [errored EXCEPT ![t] = 0]
                    [] OTHER                                -> errored

Store(t, dir, stage) ==
    /\ active' = CASE dir = "active" /\ stage # "nothing" -> [active EXCEPT ![t] = version[t]]
                   [] dir # "active" /\ stage = "all"     -> [active EXCEPT ![t] = 0]
                   [] OTHER                               -> active
    /\ errored' = CASE dir = "errored" /\ stage # "nothing" -> [errored EXCEPT ![t] = version[t]]
                    [] dir # "errored" /\ stage = "all"     -> [errored EXCEPT ![t] = 0]
                    [] OTHER                                -> errored

AskForSave(t) ==
    /\ flag' = [flag EXCEPT ![t] = TRUE]
    /\ asked' = [asked EXCEPT ![t] = version'[t]]

Fault == faults < MaxFaults /\ faults' = faults + 1

\* The save is complete, or an exception stops it and it returns False.
SaveContext(t, s) ==
    \/ /\ Store(t, DirOf(s), "all")
       /\ failed' = [failed EXCEPT ![t] = FALSE]
       /\ UNCHANGED faults
    \/ /\ \E stage \in Stages \ {"all"} : Store(t, DirOf(s), stage)
       /\ failed' = [failed EXCEPT ![t] = TRUE]
       /\ Fault

\* Nothing is left but the files.
Forget ==
    /\ loop' = "down"
    /\ running' = FALSE
    /\ status' = [t \in Tasks |-> "none"]
    /\ version' = [t \in Tasks |-> 0]
    /\ flag' = [t \in Tasks |-> FALSE]
    /\ asked' = [t \in Tasks |-> 0]
    /\ exec' = [t \in Tasks |-> "no"]
    /\ starting' = {}
    /\ toRecover' = {}
    /\ failed' = [t \in Tasks |-> FALSE]

-----------------------------------------------------------------------------
(* start with recovery *)

Start ==
    /\ loop = "down"
    /\ loop' = "recovering"
    /\ toRecover' = {t \in Recoverable : active[t] > 0}
    /\ UNCHANGED <<running, memory, exec, starting, files, failed, over, faults>>

\* One task after the other; the flag was set when the context was saved.
RecoverTask(t) ==
    /\ loop = "recovering"
    /\ starting = {}
    /\ t \in toRecover
    /\ toRecover' = toRecover \ {t}
    /\ starting' = {t}
    /\ status' = [status EXCEPT ![t] = "inactive"]
    /\ version' = [version EXCEPT ![t] = active[t]]
    /\ AskForSave(t)
    /\ UNCHANGED <<loop, running, exec, files, failed, over, faults>>

RecoveryEnds ==
    /\ loop = "recovering"
    /\ toRecover = {} /\ starting = {}
    /\ loop' = "idle"
    /\ running' = TRUE
    /\ UNCHANGED <<memory, exec, starting, toRecover, files, failed, over, faults>>

\* start() of a task: active, whatever was asked of it meanwhile.
TaskStarts(t) ==
    /\ Awaits
    /\ t \in starting
    /\ starting' = starting \ {t}
    /\ status' = [status EXCEPT ![t] = "active"]
    /\ UNCHANGED <<loop, running, version, flag, asked, exec, toRecover, files, failed, over,
                   faults>>

\* The task stays among the managed ones.
TaskStartFails(t) ==
    /\ Awaits
    /\ t \in starting
    /\ starting' = starting \ {t}
    /\ Fault
    /\ UNCHANGED <<loop, running, memory, exec, toRecover, files, failed, over>>

-----------------------------------------------------------------------------
(* The callers *)

\* add_task: the context of a new task is a version of its own.
AddTask(t) ==
    /\ running /\ loop \in {"idle", "round"}
    /\ t \notin Managed
    /\ Newest(t) < MaxVersion[t]
    /\ status' = [status EXCEPT ![t] = "inactive"]
    /\ version' = [version EXCEPT ![t] = Newest(t) + 1]
    /\ AskForSave(t)
    /\ starting' = starting \union {t}
    /\ over' = [over EXCEPT ![t] = FALSE]
    /\ UNCHANGED <<loop, running, exec, toRecover, files, failed, faults>>

Pause(t) ==
    /\ Awaits
    /\ t \in Managed
    /\ status' = [status EXCEPT ![t] = "paused"]
    /\ UNCHANGED version
    /\ AskForSave(t)
    /\ UNCHANGED <<loop, running, exec, starting, toRecover, files, failed, over, faults>>

Cancel(t) ==
    /\ Awaits
    /\ t \in Managed
    /\ status' = [status EXCEPT ![t] = "cancelled"]
    /\ UNCHANGED <<loop, running, version, flag, asked, exec, starting, toRecover, files, failed,
                   over, faults>>

\* A step, a fill or the transfer monitor changes the context.  Some changes ask
\* for a save, as a tracked fill does; set_side, the quantities that initialize
\* loads, the status of a transfer, an adjusted quantity and update do not.  The
\* save that is due already takes them along.
ContextChanges(t) ==
    /\ Awaits
    /\ t \in Managed
    /\ version[t] < MaxVersion[t]
    /\ version' = [version EXCEPT ![t] = @ + 1]
    /\ AskForSave(t) \/ (~flag[t] /\ UNCHANGED <<flag, asked>>)
    /\ UNCHANGED <<loop, running, status, exec, starting, toRecover, files, failed, over, faults>>

-----------------------------------------------------------------------------
(* The execution loop *)

RoundStarts ==
    /\ loop = "idle" /\ running
    /\ Managed # {}
    /\ loop' = "round"
    /\ exec' = [t \in Tasks |-> IF t \in Managed THEN "waiting" ELSE "no"]
    /\ UNCHANGED <<running, memory, starting, toRecover, files, failed, over, faults>>

\* Mutant: the lock is not released.
AcquireForGood(t) ==
    /\ loop = "round"
    /\ exec[t] = "waiting"
    /\ \A u \in Tasks : SymbolOf[u] = SymbolOf[t] => exec[u] \notin {"stepping", "done"}
    /\ exec' = [exec EXCEPT ![t] = "stepping"]
    /\ UNCHANGED <<loop, running, memory, starting, toRecover, files, failed, over, faults>>

\* The lock of the task's symbol.
Acquire(t) ==
    /\ loop = "round"
    /\ exec[t] = "waiting"
    /\ \A u \in Tasks : SymbolOf[u] = SymbolOf[t] => exec[u] # "stepping"
    /\ exec' = [exec EXCEPT ![t] = "stepping"]
    /\ UNCHANGED <<loop, running, memory, starting, toRecover, files, failed, over, faults>>

\* Mutant: only active tasks are saved.
ExecutedActive(t, s) ==
    /\ exec[t] = "stepping"
    /\ exec' = [exec EXCEPT ![t] = IF s = "cancelled" THEN "finished" ELSE "done"]
    /\ flag' = [flag EXCEPT ![t] = FALSE]
    /\ IF flag[t] /\ s = "active" THEN SaveContext(t, s) ELSE UNCHANGED <<files, failed, faults>>
    /\ UNCHANGED <<loop, running, version, asked, starting, toRecover, over>>

\* Mutant: the result counts only when the context was to be saved.
ExecutedFlagged(t, s) ==
    /\ exec[t] = "stepping"
    /\ exec' = [exec EXCEPT ![t] = IF s = "cancelled" /\ flag[t] THEN "finished" ELSE "done"]
    /\ flag' = [flag EXCEPT ![t] = FALSE]
    /\ IF flag[t] THEN SaveContext(t, s) ELSE UNCHANGED <<files, failed, faults>>
    /\ UNCHANGED <<loop, running, version, asked, starting, toRecover, over>>

\* process() is over with status s: the flag is reset whatever the save did.
Executed(t, s) ==
    /\ exec[t] = "stepping"
    /\ exec' = [exec EXCEPT ![t] = IF s = "cancelled" THEN "finished" ELSE "done"]
    /\ flag' = [flag EXCEPT ![t] = FALSE]
    /\ IF flag[t] THEN SaveContext(t, s) ELSE UNCHANGED <<files, failed, faults>>
    /\ UNCHANGED <<loop, running, version, asked, starting, toRecover, over>>

StepEnds(t) ==
    /\ loop = "round"
    /\ Executed(t, status[t])
    /\ UNCHANGED status

AllExecuted == \A t \in Tasks : exec[t] \notin {"waiting", "stepping"}

RoundEnds ==
    /\ loop = "round"
    /\ AllExecuted
    /\ loop' = "collect"
    /\ UNCHANGED <<running, memory, exec, starting, toRecover, files, failed, over, faults>>

\* Mutant: saved under the status it has by now.
RemoveByStatus(t) ==
    /\ loop = "collect"
    /\ exec[t] = "finished"
    /\ SaveContext(t, status[t])
    /\ over' = [over EXCEPT ![t] = ~failed'[t]]
    /\ status' = [status EXCEPT ![t] = "none"]
    /\ version' = [version EXCEPT ![t] = 0]
    /\ flag' = [flag EXCEPT ![t] = FALSE]
    /\ asked' = [asked EXCEPT ![t] = 0]
    /\ exec' = [exec EXCEPT ![t] = "no"]
    /\ starting' = starting \ {t}
    /\ UNCHANGED <<loop, running, toRecover>>

\* The task was cancelled when its step ended: saved once more and removed,
\* whatever has become of it since and of the save.
RemoveFinished(t) ==
    /\ loop = "collect"
    /\ exec[t] = "finished"
    /\ SaveContext(t, "cancelled")
    /\ over' = [over EXCEPT ![t] = ~failed'[t]]
    /\ status' = [status EXCEPT ![t] = "none"]
    /\ version' = [version EXCEPT ![t] = 0]
    /\ flag' = [flag EXCEPT ![t] = FALSE]
    /\ asked' = [asked EXCEPT ![t] = 0]
    /\ exec' = [exec EXCEPT ![t] = "no"]
    /\ starting' = starting \ {t}
    /\ UNCHANGED <<loop, running, toRecover>>

CollectEnds ==
    /\ loop = "collect"
    /\ \A t \in Tasks : exec[t] # "finished"
    /\ loop' = "idle"
    /\ exec' = [t \in Tasks |-> "no"]
    /\ UNCHANGED <<running, memory, starting, toRecover, files, failed, over, faults>>

-----------------------------------------------------------------------------
(* stop, and crashes *)

Stop ==
    /\ running
    /\ Awaits
    /\ running' = FALSE
    /\ UNCHANGED <<loop, memory, exec, starting, toRecover, files, failed, over, faults>>

\* Mutant: the loop waits for its tasks.
LoopEndsEmpty ==
    /\ loop = "idle" /\ ~running
    /\ Managed = {}
    /\ Forget
    /\ UNCHANGED <<files, over, faults>>

\* The loop has seen the flag; the tasks are cleaned up, not saved.
LoopEnds ==
    /\ loop = "idle" /\ ~running
    /\ Forget
    /\ UNCHANGED <<files, over, faults>>

\* wait_for gives up after five seconds and cancels the round: the tasks that
\* wait for a lock end at once.
StopTimesOut ==
    /\ loop = "round" /\ ~running
    /\ loop' = "cancelling"
    /\ exec' = [t \in Tasks |-> IF exec[t] = "waiting" THEN "no" ELSE exec[t]]
    /\ UNCHANGED <<running, memory, starting, toRecover, files, failed, over, faults>>

\* Mutant: process() takes the cancellation for an error.
StepFails(t) ==
    /\ loop = "cancelling"
    /\ Executed(t, "error")
    /\ status' = [status EXCEPT ![t] = "error"]

\* process() takes the cancellation for one of the task.
StepIsCancelled(t) ==
    /\ loop = "cancelling"
    /\ Executed(t, "cancelled")
    /\ status' = [status EXCEPT ![t] = "cancelled"]

CancellingEnds ==
    /\ loop = "cancelling"
    /\ AllExecuted
    /\ Forget
    /\ UNCHANGED <<files, over, faults>>

Crash ==
    /\ loop # "down"
    /\ Fault
    /\ Forget
    /\ UNCHANGED <<files, over>>

\* A crash inside the save that t has come to.
CrashInSave(t) ==
    /\ \/ /\ exec[t] = "stepping" /\ flag[t]
          /\ \/ loop = "round" /\ Store(t, DirOf(status[t]), "renamed")
             \/ loop = "cancelling" /\ Store(t, DirOf("cancelled"), "renamed")
       \/ exec[t] = "finished" /\ loop = "collect" /\ Store(t, DirOf("cancelled"), "renamed")
    /\ Fault
    /\ Forget
    /\ UNCHANGED over

Execute(t) == Acquire(t) \/ StepEnds(t) \/ RemoveFinished(t) \/ StepIsCancelled(t)

Loop == RoundStarts \/ RoundEnds \/ CollectEnds \/ LoopEnds \/ CancellingEnds

Next ==
    \/ Start \/ RecoveryEnds \/ Stop \/ StopTimesOut \/ Crash \/ Loop
    \/ \E t \in Tasks :
         \/ RecoverTask(t) \/ TaskStarts(t) \/ TaskStartFails(t)
         \/ AddTask(t) \/ Pause(t) \/ Cancel(t) \/ ContextChanges(t)
         \/ Execute(t) \/ CrashInSave(t)

Spec == Init /\ [][Next]_vars

\* The event loop runs what can run, and every await of a step and of a start
\* has a timeout.
FairSpec ==
    /\ Spec
    /\ WF_vars(Loop \/ \E t \in Tasks : Execute(t))
    /\ WF_vars(\E t \in Tasks : TaskStarts(t))

-----------------------------------------------------------------------------
(* Properties *)

\* Unless its last save failed, a context that asks for no save is on disk at
\* least as it was when one was last asked for: no change that asks is lost
\* between a step, its save and the reset of the flag, whoever makes it in
\* between.  Changes that do not ask may be missing from the file.
FileIsCurrent ==
    \A t \in Managed :
        ~flag[t] /\ ~failed[t] =>
            \E v \in {active[t], errored[t]} : asked[t] <= v /\ v <= version[t]

\* A cancelled task that was saved and removed is not recovered by any later
\* start, unless it was added again.
FinishedStaysFinished ==
    \A t \in Tasks : over[t] => active[t] = 0 /\ t \notin Managed \union toRecover

\* A task with a file in each directory: its last save was cut.
Torn(t) == active[t] > 0 /\ errored[t] > 0

\* At no moment, crashes and failing saves included, is the newest version of a
\* context off the disk once it was there.  After a cut save it may be: the
\* task is recovered from the older of its two files.
SavesKeepNewest ==
    [][\A t \in Tasks : ~Torn(t) => Newest(t)' >= Newest(t)]_vars

\* A task can no longer be recovered only because it was cancelled, by a caller
\* or by a stop that ran out of time.
ActiveFileStays ==
    [][\A t \in Tasks :
          active[t] > 0 /\ active'[t] = 0
            => "cancelled" \in {status[t], status'[t]} \/ exec[t] = "finished"]_vars

\* A cancelled task leaves the manager, unless its start or a pause overwrites
\* the cancellation, or the manager stops.
CancelledLeaves ==
    \A t \in Tasks : status[t] = "cancelled" ~> status[t] # "cancelled" \/ ~running

\* A task of a running manager is stepped again and again: no lock and no
\* failed save keeps it out.
EveryTaskIsStepped ==
    \A t \in Tasks :
        running /\ t \in Managed ~> exec[t] = "stepping" \/ t \notin Managed \/ ~running

\* stop ends: the loop is over, whatever the tasks await.
StopReturns == loop \in {"idle", "round", "collect", "cancelling"} /\ ~running ~> loop = "down"
=============================================================================
