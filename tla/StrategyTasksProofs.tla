------------------------ MODULE StrategyTasksProofs ------------------------
(* Theorems about StrategyTasks. *)
EXTENDS StrategyTasks, TLAPS

USE BoundsAssumption, RecoverableAssumption

-----------------------------------------------------------------------------
(* The inductive invariant *)

\* A task that is executed or started is a managed one.
BusyIsManaged ==
    \A t \in Tasks : exec[t] # "no" \/ t \in starting => t \in Managed

\* Nothing is executed during the recovery, and nothing recovered after it.
RecoveryApart ==
    /\ loop \in {"down", "recovering", "idle"} => \A t \in Tasks : exec[t] = "no"
    /\ loop # "recovering" => toRecover = {}
    /\ \A t \in toRecover : active[t] > 0

\* A managed context is the newest version of the task, unless its last save
\* before a crash was cut.
ManagedIsNewest ==
    \A t \in Managed : version[t] > 0 /\ (Torn(t) \/ version[t] >= Newest(t))

Inv ==
    /\ TypeOK
    /\ BusyIsManaged
    /\ RecoveryApart
    /\ ManagedIsNewest
    /\ FileIsCurrent
    /\ FinishedStaysFinished

LEMMA InvInit ==
    ASSUME Init
    PROVE  Inv
<1>1. TypeOK
  <2>1. \A t \in Tasks : version[t] = 0 /\ asked[t] = 0 /\ active[t] = 0 /\ errored[t] = 0
    BY DEF Init
  <2>2. faults \in 0..MaxFaults
    BY DEF Init
  <2>3. \A t \in Tasks : /\ asked[t] <= version[t]
                         /\ version[t] <= MaxVersion[t]
                         /\ active[t] <= MaxVersion[t]
                         /\ errored[t] <= MaxVersion[t]
    BY <2>1
  <2>4. QED
    BY <2>2, <2>3 DEF Init, TypeOK
<1>2. Managed = {}
  BY DEF Init, Managed
<1>3. BusyIsManaged /\ RecoveryApart /\ ManagedIsNewest /\ FileIsCurrent
  BY <1>2 DEF Init, BusyIsManaged, RecoveryApart, ManagedIsNewest, FileIsCurrent
<1>4. FinishedStaysFinished
  BY <1>2 DEF Init, FinishedStaysFinished
<1>5. QED
  BY <1>1, <1>3, <1>4 DEF Inv

-----------------------------------------------------------------------------
(* Types *)

FileTypes ==
    /\ active \in [Tasks -> Nat]
    /\ errored \in [Tasks -> Nat]
    /\ \A t \in Tasks : active[t] <= MaxVersion[t] /\ errored[t] <= MaxVersion[t]

\* Whatever ends the process leaves a well-typed state.
LEMMA ForgetTypes ==
    ASSUME Forget, FileTypes', over' \in [Tasks -> BOOLEAN], faults' \in 0..MaxFaults
    PROVE  TypeOK'
<1>1. \A t \in Tasks : asked'[t] <= version'[t] /\ version'[t] <= MaxVersion[t]
  BY DEF Forget
<1>2. /\ version' \in [Tasks -> Nat] /\ asked' \in [Tasks -> Nat]
      /\ exec' \in [Tasks -> {"no", "waiting", "stepping", "done", "finished"}]
  BY DEF Forget
<1>3. status' \in [Tasks -> {"none", "inactive", "active", "paused", "cancelled"}]
  BY DEF Forget
<1>4. flag' \in [Tasks -> BOOLEAN] /\ failed' \in [Tasks -> BOOLEAN]
  BY DEF Forget
<1>5. loop' = "down" /\ running' = FALSE /\ starting' = {} /\ toRecover' = {}
  BY DEF Forget
<1>6. QED
  BY <1>1, <1>2, <1>3, <1>4, <1>5 DEF TypeOK, FileTypes

\* However far a save gets.
LEMMA StoreTypes ==
    ASSUME TypeOK, NEW t \in Tasks, NEW dir, NEW stage, Store(t, dir, stage)
    PROVE  FileTypes'
  BY DEF TypeOK, Store, FileTypes

\* Whether or not a save succeeds.
LEMMA SaveTypes ==
    ASSUME TypeOK, NEW t \in Tasks, NEW s, SaveContext(t, s)
    PROVE  FileTypes' /\ failed' \in [Tasks -> BOOLEAN] /\ faults' \in 0..MaxFaults
<1>1. FileTypes'
  BY StoreTypes DEF SaveContext
<1>2. failed' \in [Tasks -> BOOLEAN]
  BY DEF SaveContext, TypeOK
<1>3. faults' \in 0..MaxFaults
  BY DEF SaveContext, TypeOK, Fault
<1>4. QED
  BY <1>1, <1>2, <1>3

\* However a step ends.
LEMMA ExecutedTypes ==
    ASSUME TypeOK, NEW t \in Tasks, NEW s, Executed(t, s), loop' = loop,
           status' \in [Tasks -> {"none", "inactive", "active", "paused", "cancelled"}]
    PROVE  TypeOK'
<1>1. FileTypes' /\ failed' \in [Tasks -> BOOLEAN] /\ faults' \in 0..MaxFaults
  BY SaveTypes DEF Executed, TypeOK, FileTypes, files
<1>2. QED
  BY <1>1 DEF Executed, TypeOK, FileTypes

\* Every step keeps the types.
LEMMA TypeStep ==
    ASSUME TypeOK, BusyIsManaged, RecoveryApart, [Next]_vars
    PROVE  TypeOK'
<1>1. ASSUME Start PROVE TypeOK'
  BY <1>1 DEF Start, memory, files, TypeOK
<1>2. ASSUME NEW t \in Tasks, RecoverTask(t) PROVE TypeOK'
  BY <1>2 DEF RecoverTask, AskForSave, files, TypeOK
<1>3. ASSUME RecoveryEnds PROVE TypeOK'
  BY <1>3 DEF RecoveryEnds, memory, files, TypeOK
<1>4. ASSUME NEW t \in Tasks, TaskStarts(t) PROVE TypeOK'
  BY <1>4 DEF TaskStarts, files, TypeOK
<1>5. ASSUME NEW t \in Tasks, TaskStartFails(t) PROVE TypeOK'
  BY <1>5 DEF TaskStartFails, memory, files, Fault, TypeOK
<1>6. ASSUME NEW t \in Tasks, AddTask(t) PROVE TypeOK'
  BY <1>6 DEF AddTask, AskForSave, files, Newest, TypeOK
<1>7. ASSUME NEW t \in Tasks, Pause(t) PROVE TypeOK'
  BY <1>7 DEF Pause, AskForSave, files, TypeOK
<1>8. ASSUME NEW t \in Tasks, Cancel(t) PROVE TypeOK'
  BY <1>8 DEF Cancel, files, TypeOK
<1>9. ASSUME NEW t \in Tasks, ContextChanges(t) PROVE TypeOK'
  <2>1. CASE AskForSave(t)
    BY <1>9, <2>1 DEF ContextChanges, AskForSave, files, TypeOK
  <2>2. CASE UNCHANGED <<flag, asked>>
    BY <1>9, <2>2 DEF ContextChanges, files, TypeOK
  <2>3. QED
    BY <1>9, <2>1, <2>2 DEF ContextChanges
<1>10. ASSUME RoundStarts PROVE TypeOK'
  BY <1>10 DEF RoundStarts, memory, files, TypeOK
<1>11. ASSUME NEW t \in Tasks, Acquire(t) PROVE TypeOK'
  BY <1>11 DEF Acquire, memory, files, TypeOK
<1>12. ASSUME NEW t \in Tasks, StepEnds(t) PROVE TypeOK'
  <2>1. loop' = loop /\ status' = status
    BY <1>12 DEF StepEnds, Executed
  <2>2. status' \in [Tasks -> {"none", "inactive", "active", "paused", "cancelled"}]
    BY <2>1 DEF TypeOK
  <2>3. QED
    BY <1>12, <2>1, <2>2, ExecutedTypes DEF StepEnds
<1>13. ASSUME RoundEnds PROVE TypeOK'
  BY <1>13 DEF RoundEnds, memory, files, TypeOK
<1>14. ASSUME NEW t \in Tasks, RemoveFinished(t) PROVE TypeOK'
  <2>1. FileTypes' /\ failed' \in [Tasks -> BOOLEAN] /\ faults' \in 0..MaxFaults
    BY <1>14, SaveTypes DEF RemoveFinished
  <2>2. over' \in [Tasks -> BOOLEAN]
    BY <1>14, <2>1 DEF RemoveFinished, TypeOK
  <2>3. QED
    BY <1>14, <2>1, <2>2 DEF RemoveFinished, TypeOK, FileTypes
<1>15. ASSUME CollectEnds PROVE TypeOK'
  BY <1>15 DEF CollectEnds, memory, files, TypeOK
<1>16. ASSUME Stop PROVE TypeOK'
  BY <1>16 DEF Stop, memory, files, TypeOK
<1>17. ASSUME LoopEnds PROVE TypeOK'
  BY <1>17, ForgetTypes DEF LoopEnds, files, TypeOK, FileTypes
<1>18. ASSUME StopTimesOut PROVE TypeOK'
  BY <1>18 DEF StopTimesOut, memory, files, TypeOK
<1>19. ASSUME NEW t \in Tasks, StepIsCancelled(t) PROVE TypeOK'
  <2>1. loop' = loop
    BY <1>19 DEF StepIsCancelled, Executed
  <2>2. status' \in [Tasks -> {"none", "inactive", "active", "paused", "cancelled"}]
    BY <1>19 DEF StepIsCancelled, TypeOK
  <2>3. QED
    BY <1>19, <2>1, <2>2, ExecutedTypes DEF StepIsCancelled
<1>20. ASSUME CancellingEnds PROVE TypeOK'
  BY <1>20, ForgetTypes DEF CancellingEnds, files, TypeOK, FileTypes
<1>21. ASSUME Crash PROVE TypeOK'
  BY <1>21, ForgetTypes DEF Crash, Fault, files, TypeOK, FileTypes
<1>22. ASSUME NEW t \in Tasks, CrashInSave(t) PROVE TypeOK'
  <2>1. FileTypes'
    BY <1>22, StoreTypes DEF CrashInSave
  <2>2. Forget /\ over' \in [Tasks -> BOOLEAN] /\ faults' \in 0..MaxFaults
    BY <1>22 DEF CrashInSave, TypeOK, Fault
  <2>3. QED
    BY <2>1, <2>2, ForgetTypes
<1>23. ASSUME UNCHANGED vars PROVE TypeOK'
  BY <1>23 DEF vars, memory, files, TypeOK
<1>24. QED
  BY <1>1, <1>2, <1>3, <1>4, <1>5, <1>6, <1>7, <1>8, <1>9, <1>10, <1>11, <1>12, <1>13, <1>14,
     <1>15, <1>16, <1>17, <1>18, <1>19, <1>20, <1>21, <1>22, <1>23 DEF Next, Loop, Execute

-----------------------------------------------------------------------------
(* Every step keeps the rest *)

\* Nobody leaves the manager while it is executed or started.
LEMMA BusyStep ==
    ASSUME TypeOK, BusyIsManaged, [Next]_vars
    PROVE  BusyIsManaged'
<1>1. ASSUME Start PROVE BusyIsManaged'
  BY <1>1 DEF Start, memory, files, TypeOK, BusyIsManaged, Managed
<1>2. ASSUME NEW t \in Tasks, RecoverTask(t) PROVE BusyIsManaged'
  BY <1>2 DEF RecoverTask, AskForSave, files, TypeOK, BusyIsManaged, Managed
<1>3. ASSUME RecoveryEnds PROVE BusyIsManaged'
  BY <1>3 DEF RecoveryEnds, memory, files, TypeOK, BusyIsManaged, Managed
<1>4. ASSUME NEW t \in Tasks, TaskStarts(t) PROVE BusyIsManaged'
  BY <1>4 DEF TaskStarts, files, Awaits, TypeOK, BusyIsManaged, Managed
<1>5. ASSUME NEW t \in Tasks, TaskStartFails(t) PROVE BusyIsManaged'
  BY <1>5 DEF TaskStartFails, memory, files, Fault, Awaits, TypeOK, BusyIsManaged, Managed
<1>6. ASSUME NEW t \in Tasks, AddTask(t) PROVE BusyIsManaged'
  BY <1>6 DEF AddTask, AskForSave, files, TypeOK, BusyIsManaged, Managed
<1>7. ASSUME NEW t \in Tasks, Pause(t) PROVE BusyIsManaged'
  BY <1>7 DEF Pause, AskForSave, files, Awaits, TypeOK, BusyIsManaged, Managed
<1>8. ASSUME NEW t \in Tasks, Cancel(t) PROVE BusyIsManaged'
  BY <1>8 DEF Cancel, files, Awaits, TypeOK, BusyIsManaged, Managed
<1>9. ASSUME NEW t \in Tasks, ContextChanges(t) PROVE BusyIsManaged'
  BY <1>9 DEF ContextChanges, AskForSave, files, Awaits, TypeOK, BusyIsManaged, Managed
<1>10. ASSUME RoundStarts PROVE BusyIsManaged'
  BY <1>10 DEF RoundStarts, memory, files, TypeOK, BusyIsManaged, Managed
<1>11. ASSUME NEW t \in Tasks, Acquire(t) PROVE BusyIsManaged'
  BY <1>11 DEF Acquire, memory, files, TypeOK, BusyIsManaged, Managed
<1>12. ASSUME NEW t \in Tasks, StepEnds(t) PROVE BusyIsManaged'
  BY <1>12 DEF StepEnds, Executed, files, SaveContext, Fault, Store, DirOf, Stages, TypeOK,
               BusyIsManaged, Managed
<1>13. ASSUME RoundEnds PROVE BusyIsManaged'
  BY <1>13 DEF RoundEnds, memory, files, TypeOK, BusyIsManaged, Managed
<1>14. ASSUME NEW t \in Tasks, RemoveFinished(t) PROVE BusyIsManaged'
  BY <1>14 DEF RemoveFinished, SaveContext, Fault, Store, DirOf, Stages, TypeOK,
               BusyIsManaged, Managed
<1>15. ASSUME CollectEnds PROVE BusyIsManaged'
  BY <1>15 DEF CollectEnds, memory, files, TypeOK, BusyIsManaged, Managed
<1>16. ASSUME Stop PROVE BusyIsManaged'
  BY <1>16 DEF Stop, memory, files, Awaits, TypeOK, BusyIsManaged, Managed
<1>17. ASSUME LoopEnds PROVE BusyIsManaged'
  BY <1>17 DEF LoopEnds, files, Forget, TypeOK, BusyIsManaged, Managed
<1>18. ASSUME StopTimesOut PROVE BusyIsManaged'
  BY <1>18 DEF StopTimesOut, memory, files, TypeOK, BusyIsManaged, Managed
<1>19. ASSUME NEW t \in Tasks, StepIsCancelled(t) PROVE BusyIsManaged'
  BY <1>19 DEF StepIsCancelled, Executed, files, SaveContext, Fault, Store, DirOf, Stages,
               TypeOK, BusyIsManaged, Managed
<1>20. ASSUME CancellingEnds PROVE BusyIsManaged'
  BY <1>20 DEF CancellingEnds, files, Forget, TypeOK, BusyIsManaged, Managed
<1>21. ASSUME Crash PROVE BusyIsManaged'
  BY <1>21 DEF Crash, files, Forget, Fault, TypeOK, BusyIsManaged, Managed
<1>22. ASSUME NEW t \in Tasks, CrashInSave(t) PROVE BusyIsManaged'
  BY <1>22 DEF CrashInSave, Forget, Fault, Store, DirOf, TypeOK, BusyIsManaged, Managed
<1>23. ASSUME UNCHANGED vars PROVE BusyIsManaged'
  BY <1>23 DEF vars, memory, files, TypeOK, BusyIsManaged, Managed
<1>24. QED
  BY <1>1, <1>2, <1>3, <1>4, <1>5, <1>6, <1>7, <1>8, <1>9, <1>10, <1>11, <1>12, <1>13, <1>14,
     <1>15, <1>16, <1>17, <1>18, <1>19, <1>20, <1>21, <1>22, <1>23 DEF Next, Loop, Execute

\* The recovery and the rounds stay apart.
LEMMA RecoveryStep ==
    ASSUME TypeOK, RecoveryApart, [Next]_vars
    PROVE  RecoveryApart'
<1>1. ASSUME Start PROVE RecoveryApart'
  BY <1>1 DEF Start, memory, files, TypeOK, RecoveryApart
<1>2. ASSUME NEW t \in Tasks, RecoverTask(t) PROVE RecoveryApart'
  BY <1>2 DEF RecoverTask, AskForSave, files, TypeOK, RecoveryApart
<1>3. ASSUME RecoveryEnds PROVE RecoveryApart'
  BY <1>3 DEF RecoveryEnds, memory, files, TypeOK, RecoveryApart
<1>4. ASSUME NEW t \in Tasks, TaskStarts(t) PROVE RecoveryApart'
  BY <1>4 DEF TaskStarts, files, Awaits, TypeOK, RecoveryApart
<1>5. ASSUME NEW t \in Tasks, TaskStartFails(t) PROVE RecoveryApart'
  BY <1>5 DEF TaskStartFails, memory, files, Fault, Awaits, TypeOK, RecoveryApart
<1>6. ASSUME NEW t \in Tasks, AddTask(t) PROVE RecoveryApart'
  BY <1>6 DEF AddTask, AskForSave, files, TypeOK, RecoveryApart
<1>7. ASSUME NEW t \in Tasks, Pause(t) PROVE RecoveryApart'
  BY <1>7 DEF Pause, AskForSave, files, Awaits, TypeOK, RecoveryApart
<1>8. ASSUME NEW t \in Tasks, Cancel(t) PROVE RecoveryApart'
  BY <1>8 DEF Cancel, files, Awaits, TypeOK, RecoveryApart
<1>9. ASSUME NEW t \in Tasks, ContextChanges(t) PROVE RecoveryApart'
  BY <1>9 DEF ContextChanges, AskForSave, files, Awaits, TypeOK, RecoveryApart
<1>10. ASSUME RoundStarts PROVE RecoveryApart'
  BY <1>10 DEF RoundStarts, memory, files, TypeOK, RecoveryApart
<1>11. ASSUME NEW t \in Tasks, Acquire(t) PROVE RecoveryApart'
  BY <1>11 DEF Acquire, memory, files, TypeOK, RecoveryApart
<1>12. ASSUME NEW t \in Tasks, StepEnds(t) PROVE RecoveryApart'
  BY <1>12 DEF StepEnds, Executed, files, SaveContext, Fault, Store, DirOf, Stages, TypeOK,
               RecoveryApart
<1>13. ASSUME RoundEnds PROVE RecoveryApart'
  BY <1>13 DEF RoundEnds, memory, files, TypeOK, RecoveryApart
<1>14. ASSUME NEW t \in Tasks, RemoveFinished(t) PROVE RecoveryApart'
  BY <1>14 DEF RemoveFinished, SaveContext, Fault, Store, DirOf, Stages, TypeOK, RecoveryApart
<1>15. ASSUME CollectEnds PROVE RecoveryApart'
  BY <1>15 DEF CollectEnds, memory, files, TypeOK, RecoveryApart
<1>16. ASSUME Stop PROVE RecoveryApart'
  BY <1>16 DEF Stop, memory, files, Awaits, TypeOK, RecoveryApart
<1>17. ASSUME LoopEnds PROVE RecoveryApart'
  BY <1>17 DEF LoopEnds, files, Forget, TypeOK, RecoveryApart
<1>18. ASSUME StopTimesOut PROVE RecoveryApart'
  BY <1>18 DEF StopTimesOut, memory, files, TypeOK, RecoveryApart
<1>19. ASSUME NEW t \in Tasks, StepIsCancelled(t) PROVE RecoveryApart'
  BY <1>19 DEF StepIsCancelled, Executed, files, SaveContext, Fault, Store, DirOf, Stages,
               TypeOK, RecoveryApart
<1>20. ASSUME CancellingEnds PROVE RecoveryApart'
  BY <1>20 DEF CancellingEnds, files, Forget, TypeOK, RecoveryApart
<1>21. ASSUME Crash PROVE RecoveryApart'
  BY <1>21 DEF Crash, files, Forget, Fault, TypeOK, RecoveryApart
<1>22. ASSUME NEW t \in Tasks, CrashInSave(t) PROVE RecoveryApart'
  BY <1>22 DEF CrashInSave, Forget, Fault, Store, DirOf, TypeOK, RecoveryApart
<1>23. ASSUME UNCHANGED vars PROVE RecoveryApart'
  BY <1>23 DEF vars, memory, files, TypeOK, RecoveryApart
<1>24. QED
  BY <1>1, <1>2, <1>3, <1>4, <1>5, <1>6, <1>7, <1>8, <1>9, <1>10, <1>11, <1>12, <1>13, <1>14,
     <1>15, <1>16, <1>17, <1>18, <1>19, <1>20, <1>21, <1>22, <1>23 DEF Next, Loop, Execute

\* A managed context stays the newest version.
LEMMA NewestStep ==
    ASSUME TypeOK, BusyIsManaged, RecoveryApart, ManagedIsNewest, [Next]_vars
    PROVE  ManagedIsNewest'
<1>1. ASSUME Start PROVE ManagedIsNewest'
  BY <1>1 DEF Start, memory, files, TypeOK, RecoveryApart, BusyIsManaged, ManagedIsNewest,
              Newest, Torn, Managed
<1>2. ASSUME NEW t \in Tasks, RecoverTask(t) PROVE ManagedIsNewest'
  BY <1>2 DEF RecoverTask, AskForSave, files, TypeOK, RecoveryApart, BusyIsManaged,
              ManagedIsNewest,
              Newest, Torn, Managed
<1>3. ASSUME RecoveryEnds PROVE ManagedIsNewest'
  BY <1>3 DEF RecoveryEnds, memory, files, TypeOK, RecoveryApart, BusyIsManaged,
              ManagedIsNewest, Newest, Torn, Managed
<1>4. ASSUME NEW t \in Tasks, TaskStarts(t) PROVE ManagedIsNewest'
  BY <1>4 DEF TaskStarts, files, Awaits, TypeOK, RecoveryApart, BusyIsManaged,
              ManagedIsNewest, Newest, Torn, Managed
<1>5. ASSUME NEW t \in Tasks, TaskStartFails(t) PROVE ManagedIsNewest'
  BY <1>5 DEF TaskStartFails, memory, files, Fault, Awaits, TypeOK, RecoveryApart,
              BusyIsManaged, ManagedIsNewest, Newest, Torn, Managed
<1>6. ASSUME NEW t \in Tasks, AddTask(t) PROVE ManagedIsNewest'
  BY <1>6 DEF AddTask, AskForSave, files, Newest, TypeOK, RecoveryApart, BusyIsManaged,
              ManagedIsNewest,
              Torn, Managed
<1>7. ASSUME NEW t \in Tasks, Pause(t) PROVE ManagedIsNewest'
  BY <1>7 DEF Pause, AskForSave, files, Awaits, TypeOK, RecoveryApart, BusyIsManaged,
              ManagedIsNewest,
              Newest, Torn, Managed
<1>8. ASSUME NEW t \in Tasks, Cancel(t) PROVE ManagedIsNewest'
  BY <1>8 DEF Cancel, files, Awaits, TypeOK, RecoveryApart, BusyIsManaged, ManagedIsNewest,
              Newest, Torn, Managed
<1>9. ASSUME NEW t \in Tasks, ContextChanges(t) PROVE ManagedIsNewest'
  BY <1>9 DEF ContextChanges, AskForSave, files, Awaits, TypeOK, RecoveryApart, BusyIsManaged,
              ManagedIsNewest, Newest, Torn, Managed
<1>10. ASSUME RoundStarts PROVE ManagedIsNewest'
  BY <1>10 DEF RoundStarts, memory, files, TypeOK, RecoveryApart, BusyIsManaged,
               ManagedIsNewest, Newest, Torn, Managed
<1>11. ASSUME NEW t \in Tasks, Acquire(t) PROVE ManagedIsNewest'
  BY <1>11 DEF Acquire, memory, files, TypeOK, RecoveryApart, BusyIsManaged, ManagedIsNewest,
               Newest, Torn, Managed
<1>12. ASSUME NEW t \in Tasks, StepEnds(t) PROVE ManagedIsNewest'
  BY <1>12 DEF StepEnds, Executed, files, SaveContext, Fault, Store, DirOf, Stages, TypeOK,
               RecoveryApart, BusyIsManaged, ManagedIsNewest, Newest, Torn, Managed
<1>13. ASSUME RoundEnds PROVE ManagedIsNewest'
  BY <1>13 DEF RoundEnds, memory, files, TypeOK, RecoveryApart, BusyIsManaged,
               ManagedIsNewest, Newest, Torn, Managed
<1>14. ASSUME NEW t \in Tasks, RemoveFinished(t) PROVE ManagedIsNewest'
  BY <1>14 DEF RemoveFinished, SaveContext, Fault, Store, DirOf, Stages, TypeOK,
               RecoveryApart, BusyIsManaged, ManagedIsNewest, Newest, Torn, Managed
<1>15. ASSUME CollectEnds PROVE ManagedIsNewest'
  BY <1>15 DEF CollectEnds, memory, files, TypeOK, RecoveryApart, BusyIsManaged,
               ManagedIsNewest, Newest, Torn, Managed
<1>16. ASSUME Stop PROVE ManagedIsNewest'
  BY <1>16 DEF Stop, memory, files, Awaits, TypeOK, RecoveryApart, BusyIsManaged,
               ManagedIsNewest, Newest, Torn, Managed
<1>17. ASSUME LoopEnds PROVE ManagedIsNewest'
  BY <1>17 DEF LoopEnds, files, Forget, TypeOK, RecoveryApart, BusyIsManaged, ManagedIsNewest,
               Newest, Torn, Managed
<1>18. ASSUME StopTimesOut PROVE ManagedIsNewest'
  BY <1>18 DEF StopTimesOut, memory, files, TypeOK, RecoveryApart, BusyIsManaged,
               ManagedIsNewest, Newest, Torn, Managed
<1>19. ASSUME NEW t \in Tasks, StepIsCancelled(t) PROVE ManagedIsNewest'
  BY <1>19 DEF StepIsCancelled, Executed, files, SaveContext, Fault, Store, DirOf, Stages,
               TypeOK, RecoveryApart, BusyIsManaged, ManagedIsNewest, Newest, Torn, Managed
<1>20. ASSUME CancellingEnds PROVE ManagedIsNewest'
  BY <1>20 DEF CancellingEnds, files, Forget, TypeOK, RecoveryApart, BusyIsManaged,
               ManagedIsNewest, Newest, Torn, Managed
<1>21. ASSUME Crash PROVE ManagedIsNewest'
  BY <1>21 DEF Crash, files, Forget, Fault, TypeOK, RecoveryApart, BusyIsManaged,
               ManagedIsNewest, Newest, Torn, Managed
<1>22. ASSUME NEW t \in Tasks, CrashInSave(t) PROVE ManagedIsNewest'
  BY <1>22 DEF CrashInSave, Forget, Fault, Store, DirOf, TypeOK, RecoveryApart, BusyIsManaged,
               ManagedIsNewest, Newest, Torn, Managed
<1>23. ASSUME UNCHANGED vars PROVE ManagedIsNewest'
  BY <1>23 DEF vars, memory, files, TypeOK, RecoveryApart, BusyIsManaged, ManagedIsNewest,
               Newest, Torn, Managed
<1>24. QED
  BY <1>1, <1>2, <1>3, <1>4, <1>5, <1>6, <1>7, <1>8, <1>9, <1>10, <1>11, <1>12, <1>13, <1>14,
     <1>15, <1>16, <1>17, <1>18, <1>19, <1>20, <1>21, <1>22, <1>23 DEF Next, Loop, Execute

\* A context that asks for no save stays on disk as it was when it last did.
LEMMA CurrentStep ==
    ASSUME TypeOK, BusyIsManaged, FileIsCurrent, [Next]_vars
    PROVE  FileIsCurrent'
<1>1. ASSUME Start PROVE FileIsCurrent'
  BY <1>1 DEF Start, memory, files, TypeOK, BusyIsManaged, FileIsCurrent, Managed
<1>2. ASSUME NEW t \in Tasks, RecoverTask(t) PROVE FileIsCurrent'
  BY <1>2 DEF RecoverTask, AskForSave, files, TypeOK, BusyIsManaged, FileIsCurrent, Managed
<1>3. ASSUME RecoveryEnds PROVE FileIsCurrent'
  BY <1>3 DEF RecoveryEnds, memory, files, TypeOK, BusyIsManaged, FileIsCurrent, Managed
<1>4. ASSUME NEW t \in Tasks, TaskStarts(t) PROVE FileIsCurrent'
  BY <1>4 DEF TaskStarts, files, Awaits, TypeOK, BusyIsManaged, FileIsCurrent, Managed
<1>5. ASSUME NEW t \in Tasks, TaskStartFails(t) PROVE FileIsCurrent'
  BY <1>5 DEF TaskStartFails, memory, files, Fault, Awaits, TypeOK, BusyIsManaged,
              FileIsCurrent, Managed
<1>6. ASSUME NEW t \in Tasks, AddTask(t) PROVE FileIsCurrent'
  BY <1>6 DEF AddTask, AskForSave, files, TypeOK, BusyIsManaged, FileIsCurrent, Managed
<1>7. ASSUME NEW t \in Tasks, Pause(t) PROVE FileIsCurrent'
  BY <1>7 DEF Pause, AskForSave, files, Awaits, TypeOK, BusyIsManaged,
              FileIsCurrent, Managed
<1>8. ASSUME NEW t \in Tasks, Cancel(t) PROVE FileIsCurrent'
  BY <1>8 DEF Cancel, files, Awaits, TypeOK, BusyIsManaged, FileIsCurrent, Managed
<1>9. ASSUME NEW t \in Tasks, ContextChanges(t) PROVE FileIsCurrent'
  BY <1>9 DEF ContextChanges, AskForSave, files, Awaits, TypeOK, BusyIsManaged,
              FileIsCurrent, Managed
<1>10. ASSUME RoundStarts PROVE FileIsCurrent'
  BY <1>10 DEF RoundStarts, memory, files, TypeOK, BusyIsManaged, FileIsCurrent, Managed
<1>11. ASSUME NEW t \in Tasks, Acquire(t) PROVE FileIsCurrent'
  BY <1>11 DEF Acquire, memory, files, TypeOK, BusyIsManaged, FileIsCurrent, Managed
<1>12. ASSUME NEW t \in Tasks, StepEnds(t) PROVE FileIsCurrent'
  BY <1>12 DEF StepEnds, Executed, files, SaveContext, Fault, Store, DirOf, Stages, TypeOK,
               BusyIsManaged, FileIsCurrent, Managed
<1>13. ASSUME RoundEnds PROVE FileIsCurrent'
  BY <1>13 DEF RoundEnds, memory, files, TypeOK, BusyIsManaged, FileIsCurrent, Managed
<1>14. ASSUME NEW t \in Tasks, RemoveFinished(t) PROVE FileIsCurrent'
  BY <1>14 DEF RemoveFinished, SaveContext, Fault, Store, DirOf, Stages, TypeOK,
               BusyIsManaged, FileIsCurrent, Managed
<1>15. ASSUME CollectEnds PROVE FileIsCurrent'
  BY <1>15 DEF CollectEnds, memory, files, TypeOK, BusyIsManaged, FileIsCurrent, Managed
<1>16. ASSUME Stop PROVE FileIsCurrent'
  BY <1>16 DEF Stop, memory, files, Awaits, TypeOK, BusyIsManaged, FileIsCurrent, Managed
<1>17. ASSUME LoopEnds PROVE FileIsCurrent'
  BY <1>17 DEF LoopEnds, files, Forget, TypeOK, BusyIsManaged, FileIsCurrent, Managed
<1>18. ASSUME StopTimesOut PROVE FileIsCurrent'
  BY <1>18 DEF StopTimesOut, memory, files, TypeOK, BusyIsManaged, FileIsCurrent, Managed
<1>19. ASSUME NEW t \in Tasks, StepIsCancelled(t) PROVE FileIsCurrent'
  BY <1>19 DEF StepIsCancelled, Executed, files, SaveContext, Fault, Store, DirOf, Stages,
               TypeOK, BusyIsManaged, FileIsCurrent, Managed
<1>20. ASSUME CancellingEnds PROVE FileIsCurrent'
  BY <1>20 DEF CancellingEnds, files, Forget, TypeOK, BusyIsManaged, FileIsCurrent, Managed
<1>21. ASSUME Crash PROVE FileIsCurrent'
  BY <1>21 DEF Crash, files, Forget, Fault, TypeOK, BusyIsManaged, FileIsCurrent, Managed
<1>22. ASSUME NEW t \in Tasks, CrashInSave(t) PROVE FileIsCurrent'
  BY <1>22 DEF CrashInSave, Forget, Fault, Store, DirOf, TypeOK, BusyIsManaged, FileIsCurrent,
               Managed
<1>23. ASSUME UNCHANGED vars PROVE FileIsCurrent'
  BY <1>23 DEF vars, memory, files, TypeOK, BusyIsManaged, FileIsCurrent, Managed
<1>24. QED
  BY <1>1, <1>2, <1>3, <1>4, <1>5, <1>6, <1>7, <1>8, <1>9, <1>10, <1>11, <1>12, <1>13, <1>14,
     <1>15, <1>16, <1>17, <1>18, <1>19, <1>20, <1>21, <1>22, <1>23 DEF Next, Loop, Execute

\* Nothing brings back a finished task.
LEMMA FinishedStep ==
    ASSUME TypeOK, BusyIsManaged, RecoveryApart, FinishedStaysFinished, [Next]_vars
    PROVE  FinishedStaysFinished'
<1>1. ASSUME Start PROVE FinishedStaysFinished'
  BY <1>1 DEF Start, memory, files, TypeOK, BusyIsManaged, RecoveryApart,
              FinishedStaysFinished, Managed
<1>2. ASSUME NEW t \in Tasks, RecoverTask(t) PROVE FinishedStaysFinished'
  BY <1>2 DEF RecoverTask, AskForSave, files, TypeOK, BusyIsManaged, RecoveryApart,
              FinishedStaysFinished, Managed
<1>3. ASSUME RecoveryEnds PROVE FinishedStaysFinished'
  BY <1>3 DEF RecoveryEnds, memory, files, TypeOK, BusyIsManaged, RecoveryApart,
              FinishedStaysFinished, Managed
<1>4. ASSUME NEW t \in Tasks, TaskStarts(t) PROVE FinishedStaysFinished'
  BY <1>4 DEF TaskStarts, files, Awaits, TypeOK, BusyIsManaged, RecoveryApart,
              FinishedStaysFinished, Managed
<1>5. ASSUME NEW t \in Tasks, TaskStartFails(t) PROVE FinishedStaysFinished'
  BY <1>5 DEF TaskStartFails, memory, files, Fault, Awaits, TypeOK, BusyIsManaged,
              RecoveryApart, FinishedStaysFinished, Managed
<1>6. ASSUME NEW t \in Tasks, AddTask(t) PROVE FinishedStaysFinished'
  BY <1>6 DEF AddTask, AskForSave, files, Newest, TypeOK, BusyIsManaged, RecoveryApart,
              FinishedStaysFinished, Managed
<1>7. ASSUME NEW t \in Tasks, Pause(t) PROVE FinishedStaysFinished'
  BY <1>7 DEF Pause, AskForSave, files, Awaits, TypeOK, BusyIsManaged, RecoveryApart,
              FinishedStaysFinished, Managed
<1>8. ASSUME NEW t \in Tasks, Cancel(t) PROVE FinishedStaysFinished'
  BY <1>8 DEF Cancel, files, Awaits, TypeOK, BusyIsManaged, RecoveryApart,
              FinishedStaysFinished, Managed
<1>9. ASSUME NEW t \in Tasks, ContextChanges(t) PROVE FinishedStaysFinished'
  BY <1>9 DEF ContextChanges, AskForSave, files, Awaits, TypeOK, BusyIsManaged, RecoveryApart,
              FinishedStaysFinished, Managed
<1>10. ASSUME RoundStarts PROVE FinishedStaysFinished'
  BY <1>10 DEF RoundStarts, memory, files, TypeOK, BusyIsManaged, RecoveryApart,
               FinishedStaysFinished, Managed
<1>11. ASSUME NEW t \in Tasks, Acquire(t) PROVE FinishedStaysFinished'
  BY <1>11 DEF Acquire, memory, files, TypeOK, BusyIsManaged, RecoveryApart,
               FinishedStaysFinished, Managed
<1>12. ASSUME NEW t \in Tasks, StepEnds(t) PROVE FinishedStaysFinished'
  BY <1>12 DEF StepEnds, Executed, files, SaveContext, Fault, Store, DirOf, Stages, TypeOK,
               BusyIsManaged, RecoveryApart, FinishedStaysFinished, Managed
<1>13. ASSUME RoundEnds PROVE FinishedStaysFinished'
  BY <1>13 DEF RoundEnds, memory, files, TypeOK, BusyIsManaged, RecoveryApart,
               FinishedStaysFinished, Managed
<1>14. ASSUME NEW t \in Tasks, RemoveFinished(t) PROVE FinishedStaysFinished'
  BY <1>14 DEF RemoveFinished, SaveContext, Fault, Store, DirOf, Stages, TypeOK,
               BusyIsManaged, RecoveryApart, FinishedStaysFinished, Managed
<1>15. ASSUME CollectEnds PROVE FinishedStaysFinished'
  BY <1>15 DEF CollectEnds, memory, files, TypeOK, BusyIsManaged, RecoveryApart,
               FinishedStaysFinished, Managed
<1>16. ASSUME Stop PROVE FinishedStaysFinished'
  BY <1>16 DEF Stop, memory, files, Awaits, TypeOK, BusyIsManaged, RecoveryApart,
               FinishedStaysFinished, Managed
<1>17. ASSUME LoopEnds PROVE FinishedStaysFinished'
  BY <1>17 DEF LoopEnds, files, Forget, TypeOK, BusyIsManaged, RecoveryApart,
               FinishedStaysFinished, Managed
<1>18. ASSUME StopTimesOut PROVE FinishedStaysFinished'
  BY <1>18 DEF StopTimesOut, memory, files, TypeOK, BusyIsManaged, RecoveryApart,
               FinishedStaysFinished, Managed
<1>19. ASSUME NEW t \in Tasks, StepIsCancelled(t) PROVE FinishedStaysFinished'
  BY <1>19 DEF StepIsCancelled, Executed, files, SaveContext, Fault, Store, DirOf, Stages,
               TypeOK, BusyIsManaged, RecoveryApart, FinishedStaysFinished, Managed
<1>20. ASSUME CancellingEnds PROVE FinishedStaysFinished'
  BY <1>20 DEF CancellingEnds, files, Forget, TypeOK, BusyIsManaged, RecoveryApart,
               FinishedStaysFinished, Managed
<1>21. ASSUME Crash PROVE FinishedStaysFinished'
  BY <1>21 DEF Crash, files, Forget, Fault, TypeOK, BusyIsManaged, RecoveryApart,
               FinishedStaysFinished, Managed
<1>22. ASSUME NEW t \in Tasks, CrashInSave(t) PROVE FinishedStaysFinished'
  BY <1>22 DEF CrashInSave, Forget, Fault, Store, DirOf, TypeOK, BusyIsManaged, RecoveryApart,
               FinishedStaysFinished, Managed
<1>23. ASSUME UNCHANGED vars PROVE FinishedStaysFinished'
  BY <1>23 DEF vars, memory, files, TypeOK, BusyIsManaged, RecoveryApart,
               FinishedStaysFinished, Managed
<1>24. QED
  BY <1>1, <1>2, <1>3, <1>4, <1>5, <1>6, <1>7, <1>8, <1>9, <1>10, <1>11, <1>12, <1>13, <1>14,
     <1>15, <1>16, <1>17, <1>18, <1>19, <1>20, <1>21, <1>22, <1>23 DEF Next, Loop, Execute

LEMMA InvStep ==
    ASSUME Inv, [Next]_vars
    PROVE  Inv'
<1>1. TypeOK /\ BusyIsManaged /\ RecoveryApart /\ ManagedIsNewest
  BY DEF Inv
<1>2. FileIsCurrent /\ FinishedStaysFinished
  BY DEF Inv
<1>3. TypeOK' /\ BusyIsManaged' /\ RecoveryApart'
  BY <1>1, TypeStep, BusyStep, RecoveryStep
<1>4. ManagedIsNewest' /\ FileIsCurrent' /\ FinishedStaysFinished'
  BY <1>1, <1>2, NewestStep, CurrentStep, FinishedStep
<1>5. QED
  BY <1>3, <1>4 DEF Inv

LEMMA Invariance == Spec => []Inv
<1>1. Init => Inv
  BY InvInit
<1>2. Inv /\ [Next]_vars => Inv'
  BY InvStep
<1>3. QED
  BY <1>1, <1>2, PTL DEF Spec

-----------------------------------------------------------------------------
(* The theorems *)

\* The state is well typed, whatever the tasks, their types and the bounds.
THEOREM TypeCorrect == Spec => []TypeOK
<1>1. Inv => TypeOK
  BY DEF Inv
<1>2. QED
  BY <1>1, Invariance, PTL

\* No change of a context that asks for a save is lost between a step, its save
\* and the reset of the flag, whatever changes without asking.
THEOREM FilesAreCurrent == Spec => []FileIsCurrent
<1>1. Inv => FileIsCurrent
  BY DEF Inv
<1>2. QED
  BY <1>1, Invariance, PTL

\* No recovery brings back a task that was cancelled, saved and removed.
THEOREM FinishedTasksStayFinished == Spec => []FinishedStaysFinished
<1>1. Inv => FinishedStaysFinished
  BY DEF Inv
<1>2. QED
  BY <1>1, Invariance, PTL

\* The only steps that touch the files are saves of a managed task.
LEMMA FileSteps ==
    ASSUME TypeOK, BusyIsManaged, [Next]_vars, ~ UNCHANGED files
    PROVE  \E t \in Managed, stage \in Stages :
              \/ Store(t, DirOf("cancelled"), stage)
                   /\ (exec[t] = "finished" \/ status'[t] = "cancelled")
              \/ Store(t, DirOf("cancelled"), stage) /\ stage = "renamed"
              \/ Store(t, DirOf(status[t]), stage)
<1>1. ASSUME NEW t \in Tasks, exec[t] # "no" PROVE t \in Managed
  BY <1>1 DEF BusyIsManaged
<1>2. ASSUME NEW t \in Tasks, NEW s, SaveContext(t, s)
      PROVE  \E stage \in Stages : Store(t, DirOf(s), stage)
  BY <1>2 DEF SaveContext, Stages
<1>3. ASSUME NEW t \in Tasks, StepEnds(t)
      PROVE  t \in Managed /\ \E stage \in Stages : Store(t, DirOf(status[t]), stage)
  BY <1>1, <1>2, <1>3 DEF StepEnds, Executed, files
<1>4. ASSUME NEW t \in Tasks, StepIsCancelled(t)
      PROVE  /\ t \in Managed /\ status'[t] = "cancelled"
             /\ \E stage \in Stages : Store(t, DirOf("cancelled"), stage)
  <2>1. status'[t] = "cancelled"
    BY <1>4 DEF StepIsCancelled, TypeOK
  <2>2. QED
    BY <1>1, <1>2, <1>4, <2>1 DEF StepIsCancelled, Executed, files
<1>5. ASSUME NEW t \in Tasks, RemoveFinished(t)
      PROVE  /\ t \in Managed /\ exec[t] = "finished"
             /\ \E stage \in Stages : Store(t, DirOf("cancelled"), stage)
  BY <1>1, <1>2, <1>5 DEF RemoveFinished
<1>6. ASSUME NEW t \in Tasks, CrashInSave(t)
      PROVE  /\ t \in Managed
             /\ \/ Store(t, DirOf("cancelled"), "renamed")
                \/ Store(t, DirOf(status[t]), "renamed")
  BY <1>1, <1>6 DEF CrashInSave
<1>7. \E t \in Tasks : StepEnds(t) \/ StepIsCancelled(t) \/ RemoveFinished(t) \/ CrashInSave(t)
  BY DEF Next, Loop, Execute, vars, files, Start, RecoveryEnds, Stop, StopTimesOut, Crash,
         RoundStarts, RoundEnds, CollectEnds, LoopEnds, CancellingEnds, RecoverTask, TaskStarts,
         TaskStartFails, AddTask, Pause, Cancel, ContextChanges, Acquire
<1>8. QED
  BY <1>3, <1>4, <1>5, <1>6, <1>7 DEF Stages

\* However far a save of a managed context gets, the newest version is on disk.
LEMMA StoreKeepsNewest ==
    ASSUME TypeOK, ManagedIsNewest, NEW t \in Managed, NEW dir \in {"active", "errored"},
           NEW stage \in Stages, Store(t, dir, stage),
           NEW u \in Tasks, ~Torn(u)
    PROVE  Newest(u)' >= Newest(u)
  BY DEF TypeOK, ManagedIsNewest, Managed, Store, Stages, Newest, Torn

\* At no moment is the newest version of a context off the disk, unless a save
\* of it was cut.
THEOREM SavesKeepTheNewest == Spec => SavesKeepNewest
<1>1. ASSUME Inv, [Next]_vars
      PROVE  [\A t \in Tasks : ~Torn(t) => Newest(t)' >= Newest(t)]_vars
  <2>1. SUFFICES ASSUME NEW u \in Tasks, ~Torn(u)
                 PROVE  Newest(u)' >= Newest(u)
    OBVIOUS
  <2>2. TypeOK /\ BusyIsManaged /\ ManagedIsNewest
    BY <1>1 DEF Inv
  <2>3. CASE UNCHANGED files
    BY <2>2, <2>3 DEF files, Newest, TypeOK
  <2>4. CASE ~ UNCHANGED files
    <3>1. PICK t \in Managed, stage \in Stages :
             Store(t, DirOf("cancelled"), stage) \/ Store(t, DirOf(status[t]), stage)
      BY <1>1, <2>2, <2>4, FileSteps
    <3>2. \A s : DirOf(s) \in {"active", "errored"}
      BY DEF DirOf
    <3>3. QED
      BY <2>1, <2>2, <3>1, <3>2, StoreKeepsNewest
  <2>5. QED
    BY <2>3, <2>4
<1>2. QED
  BY <1>1, Invariance, PTL DEF Spec, SavesKeepNewest

\* A task loses its place among those to recover only because it was cancelled.
THEOREM ActiveFilesStay == Spec => ActiveFileStays
<1> DEFINE Stays == \A t \in Tasks :
                       active[t] > 0 /\ active'[t] = 0
                         => "cancelled" \in {status[t], status'[t]} \/ exec[t] = "finished"
<1>1. ASSUME Inv, [Next]_vars
      PROVE  [Stays]_vars
  <2>1. SUFFICES ASSUME NEW u \in Tasks, active[u] > 0, active'[u] = 0
                 PROVE  "cancelled" \in {status[u], status'[u]} \/ exec[u] = "finished"
    OBVIOUS
  <2>2. TypeOK /\ BusyIsManaged /\ ManagedIsNewest
    BY <1>1 DEF Inv
  <2>3. ~ UNCHANGED files
    BY <2>1 DEF files
  <2>4. PICK t \in Managed, stage \in Stages :
              \/ Store(t, DirOf("cancelled"), stage)
                   /\ (exec[t] = "finished" \/ status'[t] = "cancelled")
              \/ Store(t, DirOf("cancelled"), stage) /\ stage = "renamed"
              \/ Store(t, DirOf(status[t]), stage)
    BY <1>1, <2>2, <2>3, FileSteps
  <2>5. ASSUME NEW s, Store(t, DirOf(s), stage)
        PROVE  t = u /\ s = "cancelled" /\ stage = "all"
    BY <2>1, <2>2, <2>5 DEF Store, DirOf, TypeOK, ManagedIsNewest, Managed, Stages
  <2>6. QED
    BY <2>4, <2>5
<1>2. QED
  BY <1>1, Invariance, PTL DEF Spec, ActiveFileStays
=============================================================================
