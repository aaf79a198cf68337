--------------------------- MODULE RunLock_proofs ---------------------------
(***************************************************************************)
(* Theorems about the run locks, for any instances, threads and faults.    *)
(*                                                                         *)
(* LockInv (types, and who holds which lock) is inductive by itself.  With *)
(* it, LateInv says where a run that lost its lock can still be, and       *)
(* MarkerInv what an undisturbed run knows about the derived state at each *)
(* of its steps.                                                           *)
(***************************************************************************)
EXTENDS RunLock, TLAPS

\* The tuples the frame conditions name.
USE DEF process, run, bounds, Goto

\* A run that lost the lock has at most one guarded step behind it, and no
\* check to take another one.
LateInv ==
  \A t \in Threads : late[t] # 0 => late[t] = 1 /\ conn[t] = "lost" /\ ~checked[t]

\* What is stored and not described belongs to a run that has the connection.
MineInv == \A t \in Threads : mine[t] => conn[t] # "none"

Described == ~left /\ \A t \in Threads : ~mine[t]

\* The marker while no lock was ever lost: incomplete during the work, after
\* which the derived state describes everything.
MarkerInv ==
  ~lost =>
    /\ \A t \in Threads : conn[t] # "lost"
    /\ complete => Described
    /\ \A t \in Threads :
         /\ pc[t] \in {"walk", "rollup"} => ~complete /\ (~full[t] => ~left)
         /\ pc[t] = "mark" \/ (pc[t] = "close" /\ ok[t]) => Described

IInv == LockInv /\ LateInv /\ MineInv /\ MarkerInv
-----------------------------------------------------------------------------
LEMMA TypeStep == TypeOK /\ [Next]_vars => TypeOK'
<1> SUFFICES ASSUME TypeOK, [Next]_vars PROVE TypeOK'
  OBVIOUS
<1> USE RunLockAssumption DEF RunLockAssumption
<1> USE DEF TypeOK, Working, Gone, Guarded
<1>1. ASSUME NEW t \in Threads, Tick(t) PROVE TypeOK'
  BY <1>1 DEF Tick
<1>2. ASSUME NEW t \in Threads, TakeRunLock(t) PROVE TypeOK'
  BY <1>2 DEF TakeRunLock
<1>3. ASSUME NEW t \in Threads, Connect(t) PROVE TypeOK'
  BY <1>3 DEF Connect
<1>4. ASSUME NEW t \in Threads, ConnectFail(t) PROVE TypeOK'
  BY <1>4 DEF ConnectFail
<1>5. ASSUME NEW t \in Threads, Recheck(t) PROVE TypeOK'
  BY <1>5 DEF Recheck
<1>6. ASSUME NEW t \in Threads, SweepStaleRuns(t) PROVE TypeOK'
  BY <1>6 DEF SweepStaleRuns
<1>7. ASSUME NEW t \in Threads, OpenRun(t) PROVE TypeOK'
  BY <1>7 DEF OpenRun
<1>8. ASSUME NEW t \in Threads, SetProgress(t) PROVE TypeOK'
  BY <1>8 DEF SetProgress
<1>9. ASSUME NEW t \in Threads, BeginScope(t) PROVE TypeOK'
  BY <1>9 DEF BeginScope
<1>10. ASSUME NEW t \in Threads, Check(t) PROVE TypeOK'
  BY <1>10 DEF Check
<1>11. ASSUME NEW t \in Threads, Persist(t) PROVE TypeOK'
  BY <1>11 DEF Persist, Step
<1>12. ASSUME NEW t \in Threads, WalkDone(t) PROVE TypeOK'
  BY <1>12 DEF WalkDone, Step
<1>13. ASSUME NEW t \in Threads, Rebuild(t) PROVE TypeOK'
  <2>1. mine' \in [Threads -> BOOLEAN] /\ left' \in BOOLEAN
    BY <1>13 DEF Rebuild, TypeOK
  <2> QED BY <1>13, <2>1 DEF Rebuild, Step, TypeOK, Working, Guarded
<1>14. ASSUME NEW t \in Threads, Fatal(t) PROVE TypeOK'
  BY <1>14 DEF Fatal
<1>15. ASSUME NEW t \in Threads, CloseRun(t) PROVE TypeOK'
  BY <1>15 DEF CloseRun
<1>16. ASSUME NEW t \in Threads, CloseFail(t) PROVE TypeOK'
  BY <1>16 DEF CloseFail
<1>17. ASSUME NEW t \in Threads, MarkComplete(t) PROVE TypeOK'
  BY <1>17 DEF MarkComplete
<1>18. ASSUME NEW t \in Threads, Unlock(t) PROVE TypeOK'
  BY <1>18 DEF Unlock
<1>19. ASSUME NEW t \in Threads, Release(t) PROVE TypeOK'
  BY <1>19 DEF Release
<1>20. ASSUME NEW t \in Threads, LoseLock(t) PROVE TypeOK'
  BY <1>20 DEF LoseLock
<1>21. ASSUME NEW i \in Instances, RequestShutdown(i) PROVE TypeOK'
  BY <1>21 DEF RequestShutdown
<1>22. ASSUME NEW i \in Instances, CancelQueries(i) PROVE TypeOK'
  BY <1>22 DEF CancelQueries, AfterCancel, InStatement
<1>23. ASSUME NEW i \in Instances, WaitForRun(i) PROVE TypeOK'
  BY <1>23 DEF WaitForRun
<1>24. ASSUME NEW i \in Instances, WaitTimeout(i) PROVE TypeOK'
  BY <1>24 DEF WaitTimeout
<1>25. ASSUME NEW i \in Instances, CloseOpenRun(i) PROVE TypeOK'
  BY <1>25 DEF CloseOpenRun
<1>26. ASSUME NEW i \in Instances, Exit(i) PROVE TypeOK'
  BY <1>26 DEF Exit, EndProcess, ThreadsOf
<1>27. ASSUME NEW i \in Instances, Kill(i) PROVE TypeOK'
  BY <1>27 DEF Kill, EndProcess, ThreadsOf
<1>28. ASSUME NEW i \in Instances, Boot(i) PROVE TypeOK'
  BY <1>28 DEF Boot
<1>29. CASE UNCHANGED vars
  BY <1>29 DEF vars
<1> QED
  BY <1>1, <1>2, <1>3, <1>4, <1>5, <1>6, <1>7, <1>8, <1>9, <1>10, <1>11,
       <1>12, <1>13, <1>14, <1>15, <1>16, <1>17, <1>18, <1>19, <1>20, <1>21,
       <1>22, <1>23, <1>24, <1>25, <1>26, <1>27, <1>28, <1>29 DEF Next,
       RunStep, Teardown

LEMMA InitTyped == Init => LockInv
<1> USE RunLockAssumption DEF RunLockAssumption
<1> SUFFICES ASSUME Init PROVE LockInv
  OBVIOUS
<1>1. TypeOK
  BY DEF Init, TypeOK, Working, Gone
<1>2. LocksNest
  BY DEF Init, LocksNest, Working
<1> QED BY <1>1, <1>2 DEF LockInv
-----------------------------------------------------------------------------
LEMMA NestStep == LockInv /\ [Next]_vars => LocksNest'
<1> SUFFICES ASSUME LockInv, [Next]_vars PROVE LocksNest'
  OBVIOUS
<1> USE RunLockAssumption DEF RunLockAssumption, LockInv
<1> USE DEF TypeOK, LocksNest, Working, Gone, Guarded, Alive
<1>1. ASSUME NEW t \in Threads, Tick(t) PROVE LocksNest'
  BY <1>1 DEF Tick
<1>2. ASSUME NEW t \in Threads, TakeRunLock(t) PROVE LocksNest'
  BY <1>2 DEF TakeRunLock
<1>3. ASSUME NEW t \in Threads, Connect(t) PROVE LocksNest'
  BY <1>3 DEF Connect
<1>4. ASSUME NEW t \in Threads, ConnectFail(t) PROVE LocksNest'
  BY <1>4 DEF ConnectFail
<1>5. ASSUME NEW t \in Threads, Recheck(t) PROVE LocksNest'
  BY <1>5 DEF Recheck
<1>6. ASSUME NEW t \in Threads, SweepStaleRuns(t) PROVE LocksNest'
  BY <1>6 DEF SweepStaleRuns
<1>7. ASSUME NEW t \in Threads, OpenRun(t) PROVE LocksNest'
  BY <1>7 DEF OpenRun
<1>8. ASSUME NEW t \in Threads, SetProgress(t) PROVE LocksNest'
  BY <1>8 DEF SetProgress
<1>9. ASSUME NEW t \in Threads, BeginScope(t) PROVE LocksNest'
  BY <1>9 DEF BeginScope
<1>10. ASSUME NEW t \in Threads, Check(t) PROVE LocksNest'
  BY <1>10 DEF Check
<1>11. ASSUME NEW t \in Threads, Persist(t) PROVE LocksNest'
  BY <1>11 DEF Persist, Step
<1>12. ASSUME NEW t \in Threads, WalkDone(t) PROVE LocksNest'
  BY <1>12 DEF WalkDone, Step
<1>13. ASSUME NEW t \in Threads, Rebuild(t) PROVE LocksNest'
  BY <1>13 DEF Rebuild, Step
<1>14. ASSUME NEW t \in Threads, Fatal(t) PROVE LocksNest'
  BY <1>14 DEF Fatal
<1>15. ASSUME NEW t \in Threads, CloseRun(t) PROVE LocksNest'
  BY <1>15 DEF CloseRun
<1>16. ASSUME NEW t \in Threads, CloseFail(t) PROVE LocksNest'
  BY <1>16 DEF CloseFail
<1>17. ASSUME NEW t \in Threads, MarkComplete(t) PROVE LocksNest'
  BY <1>17 DEF MarkComplete
<1>18. ASSUME NEW t \in Threads, Unlock(t) PROVE LocksNest'
  BY <1>18 DEF Unlock
<1>19. ASSUME NEW t \in Threads, Release(t) PROVE LocksNest'
  BY <1>19 DEF Release
<1>20. ASSUME NEW t \in Threads, LoseLock(t) PROVE LocksNest'
  BY <1>20 DEF LoseLock
<1>21. ASSUME NEW i \in Instances, RequestShutdown(i) PROVE LocksNest'
  BY <1>21 DEF RequestShutdown
<1>22. ASSUME NEW i \in Instances, CancelQueries(i) PROVE LocksNest'
  BY <1>22 DEF CancelQueries, AfterCancel, InStatement
<1>23. ASSUME NEW i \in Instances, WaitForRun(i) PROVE LocksNest'
  BY <1>23 DEF WaitForRun
<1>24. ASSUME NEW i \in Instances, WaitTimeout(i) PROVE LocksNest'
  BY <1>24 DEF WaitTimeout
<1>25. ASSUME NEW i \in Instances, CloseOpenRun(i) PROVE LocksNest'
  BY <1>25 DEF CloseOpenRun
<1>26. ASSUME NEW i \in Instances, Exit(i) PROVE LocksNest'
  BY <1>26 DEF Exit, EndProcess, ThreadsOf
<1>27. ASSUME NEW i \in Instances, Kill(i) PROVE LocksNest'
  BY <1>27 DEF Kill, EndProcess, ThreadsOf
<1>28. ASSUME NEW i \in Instances, Boot(i) PROVE LocksNest'
  BY <1>28 DEF Boot
<1>29. CASE UNCHANGED vars
  BY <1>29 DEF vars
<1> QED
  BY <1>1, <1>2, <1>3, <1>4, <1>5, <1>6, <1>7, <1>8, <1>9, <1>10, <1>11,
       <1>12, <1>13, <1>14, <1>15, <1>16, <1>17, <1>18, <1>19, <1>20, <1>21,
       <1>22, <1>23, <1>24, <1>25, <1>26, <1>27, <1>28, <1>29 DEF Next,
       RunStep, Teardown
-----------------------------------------------------------------------------
LEMMA LateStep == LockInv /\ LateInv /\ [Next]_vars => LateInv'
<1> SUFFICES ASSUME LockInv, LateInv, [Next]_vars PROVE LateInv'
  OBVIOUS
<1> USE RunLockAssumption DEF RunLockAssumption, LockInv
<1> USE DEF TypeOK, LocksNest, LateInv, Working, Guarded
<1>1. ASSUME NEW t \in Threads, Tick(t) PROVE LateInv'
  BY <1>1 DEF Tick
<1>2. ASSUME NEW t \in Threads, TakeRunLock(t) PROVE LateInv'
  BY <1>2 DEF TakeRunLock
<1>3. ASSUME NEW t \in Threads, Connect(t) PROVE LateInv'
  BY <1>3 DEF Connect
<1>4. ASSUME NEW t \in Threads, ConnectFail(t) PROVE LateInv'
  BY <1>4 DEF ConnectFail
<1>5. ASSUME NEW t \in Threads, Recheck(t) PROVE LateInv'
  BY <1>5 DEF Recheck
<1>6. ASSUME NEW t \in Threads, SweepStaleRuns(t) PROVE LateInv'
  BY <1>6 DEF SweepStaleRuns
<1>7. ASSUME NEW t \in Threads, OpenRun(t) PROVE LateInv'
  BY <1>7 DEF OpenRun
<1>8. ASSUME NEW t \in Threads, SetProgress(t) PROVE LateInv'
  BY <1>8 DEF SetProgress
<1>9. ASSUME NEW t \in Threads, BeginScope(t) PROVE LateInv'
  BY <1>9 DEF BeginScope
<1>10. ASSUME NEW t \in Threads, Check(t) PROVE LateInv'
  BY <1>10 DEF Check
<1>11. ASSUME NEW t \in Threads, Persist(t) PROVE LateInv'
  BY <1>11 DEF Persist, Step
<1>12. ASSUME NEW t \in Threads, WalkDone(t) PROVE LateInv'
  BY <1>12 DEF WalkDone, Step
<1>13. ASSUME NEW t \in Threads, Rebuild(t) PROVE LateInv'
  BY <1>13 DEF Rebuild, Step
<1>14. ASSUME NEW t \in Threads, Fatal(t) PROVE LateInv'
  BY <1>14 DEF Fatal
<1>15. ASSUME NEW t \in Threads, CloseRun(t) PROVE LateInv'
  BY <1>15 DEF CloseRun
<1>16. ASSUME NEW t \in Threads, CloseFail(t) PROVE LateInv'
  BY <1>16 DEF CloseFail
<1>17. ASSUME NEW t \in Threads, MarkComplete(t) PROVE LateInv'
  BY <1>17 DEF MarkComplete
<1>18. ASSUME NEW t \in Threads, Unlock(t) PROVE LateInv'
  BY <1>18 DEF Unlock
<1>19. ASSUME NEW t \in Threads, Release(t) PROVE LateInv'
  BY <1>19 DEF Release
<1>20. ASSUME NEW t \in Threads, LoseLock(t) PROVE LateInv'
  BY <1>20 DEF LoseLock
<1>21. ASSUME NEW i \in Instances, RequestShutdown(i) PROVE LateInv'
  BY <1>21 DEF RequestShutdown
<1>22. ASSUME NEW i \in Instances, CancelQueries(i) PROVE LateInv'
  BY <1>22 DEF CancelQueries, AfterCancel, InStatement
<1>23. ASSUME NEW i \in Instances, WaitForRun(i) PROVE LateInv'
  BY <1>23 DEF WaitForRun
<1>24. ASSUME NEW i \in Instances, WaitTimeout(i) PROVE LateInv'
  BY <1>24 DEF WaitTimeout
<1>25. ASSUME NEW i \in Instances, CloseOpenRun(i) PROVE LateInv'
  BY <1>25 DEF CloseOpenRun
<1>26. ASSUME NEW i \in Instances, Exit(i) PROVE LateInv'
  BY <1>26 DEF Exit, EndProcess, ThreadsOf
<1>27. ASSUME NEW i \in Instances, Kill(i) PROVE LateInv'
  BY <1>27 DEF Kill, EndProcess, ThreadsOf
<1>28. ASSUME NEW i \in Instances, Boot(i) PROVE LateInv'
  BY <1>28 DEF Boot
<1>29. CASE UNCHANGED vars
  BY <1>29 DEF vars
<1> QED
  BY <1>1, <1>2, <1>3, <1>4, <1>5, <1>6, <1>7, <1>8, <1>9, <1>10, <1>11,
       <1>12, <1>13, <1>14, <1>15, <1>16, <1>17, <1>18, <1>19, <1>20, <1>21,
       <1>22, <1>23, <1>24, <1>25, <1>26, <1>27, <1>28, <1>29 DEF Next,
       RunStep, Teardown

LEMMA MineStep == LockInv /\ MineInv /\ [Next]_vars => MineInv'
<1> SUFFICES ASSUME LockInv, MineInv, [Next]_vars PROVE MineInv'
  OBVIOUS
<1> USE RunLockAssumption DEF RunLockAssumption, LockInv
<1> USE DEF TypeOK, LocksNest, MineInv, Working, Guarded
<1>1. ASSUME NEW t \in Threads, Tick(t) PROVE MineInv'
  BY <1>1 DEF Tick
<1>2. ASSUME NEW t \in Threads, TakeRunLock(t) PROVE MineInv'
  BY <1>2 DEF TakeRunLock
<1>3. ASSUME NEW t \in Threads, Connect(t) PROVE MineInv'
  BY <1>3 DEF Connect
<1>4. ASSUME NEW t \in Threads, ConnectFail(t) PROVE MineInv'
  BY <1>4 DEF ConnectFail
<1>5. ASSUME NEW t \in Threads, Recheck(t) PROVE MineInv'
  BY <1>5 DEF Recheck
<1>6. ASSUME NEW t \in Threads, SweepStaleRuns(t) PROVE MineInv'
  BY <1>6 DEF SweepStaleRuns
<1>7. ASSUME NEW t \in Threads, OpenRun(t) PROVE MineInv'
  BY <1>7 DEF OpenRun
<1>8. ASSUME NEW t \in Threads, SetProgress(t) PROVE MineInv'
  BY <1>8 DEF SetProgress
<1>9. ASSUME NEW t \in Threads, BeginScope(t) PROVE MineInv'
  BY <1>9 DEF BeginScope
<1>10. ASSUME NEW t \in Threads, Check(t) PROVE MineInv'
  BY <1>10 DEF Check
<1>11. ASSUME NEW t \in Threads, Persist(t) PROVE MineInv'
  BY <1>11 DEF Persist, Step
<1>12. ASSUME NEW t \in Threads, WalkDone(t) PROVE MineInv'
  BY <1>12 DEF WalkDone, Step
<1>13. ASSUME NEW t \in Threads, Rebuild(t) PROVE MineInv'
  BY <1>13 DEF Rebuild, Step
<1>14. ASSUME NEW t \in Threads, Fatal(t) PROVE MineInv'
  BY <1>14 DEF Fatal
<1>15. ASSUME NEW t \in Threads, CloseRun(t) PROVE MineInv'
  BY <1>15 DEF CloseRun
<1>16. ASSUME NEW t \in Threads, CloseFail(t) PROVE MineInv'
  BY <1>16 DEF CloseFail
<1>17. ASSUME NEW t \in Threads, MarkComplete(t) PROVE MineInv'
  BY <1>17 DEF MarkComplete
<1>18. ASSUME NEW t \in Threads, Unlock(t) PROVE MineInv'
  BY <1>18 DEF Unlock
<1>19. ASSUME NEW t \in Threads, Release(t) PROVE MineInv'
  BY <1>19 DEF Release
<1>20. ASSUME NEW t \in Threads, LoseLock(t) PROVE MineInv'
  BY <1>20 DEF LoseLock
<1>21. ASSUME NEW i \in Instances, RequestShutdown(i) PROVE MineInv'
  BY <1>21 DEF RequestShutdown
<1>22. ASSUME NEW i \in Instances, CancelQueries(i) PROVE MineInv'
  BY <1>22 DEF CancelQueries, AfterCancel, InStatement
<1>23. ASSUME NEW i \in Instances, WaitForRun(i) PROVE MineInv'
  BY <1>23 DEF WaitForRun
<1>24. ASSUME NEW i \in Instances, WaitTimeout(i) PROVE MineInv'
  BY <1>24 DEF WaitTimeout
<1>25. ASSUME NEW i \in Instances, CloseOpenRun(i) PROVE MineInv'
  BY <1>25 DEF CloseOpenRun
<1>26. ASSUME NEW i \in Instances, Exit(i) PROVE MineInv'
  BY <1>26 DEF Exit, EndProcess, ThreadsOf
<1>27. ASSUME NEW i \in Instances, Kill(i) PROVE MineInv'
  BY <1>27 DEF Kill, EndProcess, ThreadsOf
<1>28. ASSUME NEW i \in Instances, Boot(i) PROVE MineInv'
  BY <1>28 DEF Boot
<1>29. CASE UNCHANGED vars
  BY <1>29 DEF vars
<1> QED
  BY <1>1, <1>2, <1>3, <1>4, <1>5, <1>6, <1>7, <1>8, <1>9, <1>10, <1>11,
       <1>12, <1>13, <1>14, <1>15, <1>16, <1>17, <1>18, <1>19, <1>20, <1>21,
       <1>22, <1>23, <1>24, <1>25, <1>26, <1>27, <1>28, <1>29 DEF Next,
       RunStep, Teardown

\* The advisory lock has one holder, so two runs that both have a connection
\* cannot both still have the lock.
LEMMA OneHolder ==
  ASSUME LockInv, NEW t \in Threads, NEW u \in Threads, t # u,
         conn[t] # "none", conn[u] # "none"
  PROVE  conn[t] = "lost" \/ conn[u] = "lost"
BY DEF LockInv, TypeOK, LocksNest
-----------------------------------------------------------------------------
LEMMA MarkerStep == IInv /\ [Next]_vars => MarkerInv'
<1> SUFFICES ASSUME IInv, ~lost', [Next]_vars PROVE MarkerInv'
  BY DEF MarkerInv
<1>a. ~lost
  BY DEF IInv, LockInv, TypeOK, Next, vars, RunStep, Teardown, Tick,
       TakeRunLock, Connect, ConnectFail, Recheck, SweepStaleRuns, OpenRun,
       SetProgress, BeginScope, Check, Persist, WalkDone, Rebuild, Fatal,
       CloseRun, CloseFail, MarkComplete, Unlock, Release, LoseLock,
       RequestShutdown, CancelQueries, WaitForRun, WaitTimeout, CloseOpenRun,
       Exit, Kill, Boot, Step, EndProcess
<1>b. \A t, u \in Threads : conn[t] # "none" /\ conn[u] # "none" => t = u
  BY <1>a, OneHolder DEF IInv, MarkerInv
<1> USE RunLockAssumption, <1>a, <1>b DEF RunLockAssumption, LockInv, IInv
<1> USE DEF TypeOK, LocksNest, MineInv, MarkerInv, Described, Working, Guarded
<1>1. ASSUME NEW t \in Threads, Tick(t) PROVE MarkerInv'
  BY <1>1 DEF Tick
<1>2. ASSUME NEW t \in Threads, TakeRunLock(t) PROVE MarkerInv'
  BY <1>2 DEF TakeRunLock
<1>3. ASSUME NEW t \in Threads, Connect(t) PROVE MarkerInv'
  BY <1>3 DEF Connect
<1>4. ASSUME NEW t \in Threads, ConnectFail(t) PROVE MarkerInv'
  BY <1>4 DEF ConnectFail
<1>5. ASSUME NEW t \in Threads, Recheck(t) PROVE MarkerInv'
  BY <1>5 DEF Recheck
<1>6. ASSUME NEW t \in Threads, SweepStaleRuns(t) PROVE MarkerInv'
  BY <1>6 DEF SweepStaleRuns
<1>7. ASSUME NEW t \in Threads, OpenRun(t) PROVE MarkerInv'
  BY <1>7 DEF OpenRun
<1>8. ASSUME NEW t \in Threads, SetProgress(t) PROVE MarkerInv'
  BY <1>8 DEF SetProgress
<1>9. ASSUME NEW t \in Threads, BeginScope(t) PROVE MarkerInv'
  BY <1>9 DEF BeginScope
<1>10. ASSUME NEW t \in Threads, Check(t) PROVE MarkerInv'
  BY <1>10 DEF Check
<1>11. ASSUME NEW t \in Threads, Persist(t) PROVE MarkerInv'
  BY <1>11 DEF Persist, Step
<1>12. ASSUME NEW t \in Threads, WalkDone(t) PROVE MarkerInv'
  BY <1>12 DEF WalkDone, Step
<1>13. ASSUME NEW t \in Threads, Rebuild(t) PROVE MarkerInv'
  BY <1>13 DEF Rebuild, Step
<1>14. ASSUME NEW t \in Threads, Fatal(t) PROVE MarkerInv'
  BY <1>14 DEF Fatal
<1>15. ASSUME NEW t \in Threads, CloseRun(t) PROVE MarkerInv'
  BY <1>15 DEF CloseRun
<1>16. ASSUME NEW t \in Threads, CloseFail(t) PROVE MarkerInv'
  BY <1>16 DEF CloseFail
<1>17. ASSUME NEW t \in Threads, MarkComplete(t) PROVE MarkerInv'
  BY <1>17 DEF MarkComplete
<1>18. ASSUME NEW t \in Threads, Unlock(t) PROVE MarkerInv'
  BY <1>18 DEF Unlock
<1>19. ASSUME NEW t \in Threads, Release(t) PROVE MarkerInv'
  BY <1>19 DEF Release
<1>20. ASSUME NEW t \in Threads, LoseLock(t) PROVE MarkerInv'
  BY <1>20 DEF LoseLock
<1>21. ASSUME NEW i \in Instances, RequestShutdown(i) PROVE MarkerInv'
  BY <1>21 DEF RequestShutdown
<1>22. ASSUME NEW i \in Instances, CancelQueries(i) PROVE MarkerInv'
  BY <1>22 DEF CancelQueries, AfterCancel, InStatement
<1>23. ASSUME NEW i \in Instances, WaitForRun(i) PROVE MarkerInv'
  BY <1>23 DEF WaitForRun
<1>24. ASSUME NEW i \in Instances, WaitTimeout(i) PROVE MarkerInv'
  BY <1>24 DEF WaitTimeout
<1>25. ASSUME NEW i \in Instances, CloseOpenRun(i) PROVE MarkerInv'
  BY <1>25 DEF CloseOpenRun
<1>26. ASSUME NEW i \in Instances, Exit(i) PROVE MarkerInv'
  BY <1>26 DEF Exit, EndProcess, ThreadsOf
<1>27. ASSUME NEW i \in Instances, Kill(i) PROVE MarkerInv'
  BY <1>27 DEF Kill, EndProcess, ThreadsOf
<1>28. ASSUME NEW i \in Instances, Boot(i) PROVE MarkerInv'
  BY <1>28 DEF Boot
<1>29. CASE UNCHANGED vars
  BY <1>29 DEF vars
<1> QED
  BY <1>1, <1>2, <1>3, <1>4, <1>5, <1>6, <1>7, <1>8, <1>9, <1>10, <1>11,
       <1>12, <1>13, <1>14, <1>15, <1>16, <1>17, <1>18, <1>19, <1>20, <1>21,
       <1>22, <1>23, <1>24, <1>25, <1>26, <1>27, <1>28, <1>29 DEF Next,
       RunStep, Teardown
-----------------------------------------------------------------------------
\* Types and locks: every variable has its type, and who is past which lock
\* step holds which lock (run_ingest, _run_lock_nonblocking, _db_run_lock).
THEOREM LocksHold == Spec => []LockInv
<1>1. LockInv /\ [Next]_vars => LockInv'
  BY TypeStep, NestStep DEF LockInv
<1> QED BY InitTyped, <1>1, PTL DEF Spec

\* The invariant the other theorems rest on.
THEOREM Inductive == Spec => []IInv
<1>1. Init => IInv
  <2> SUFFICES ASSUME Init PROVE IInv
    OBVIOUS
  <2>1. LockInv
    BY InitTyped
  <2>2. LateInv /\ MineInv /\ MarkerInv
    BY DEF Init, LateInv, MineInv, MarkerInv
  <2> QED BY <2>1, <2>2 DEF IInv
<1>2. IInv /\ [Next]_vars => IInv'
  BY TypeStep, NestStep, LateStep, MineStep, MarkerStep DEF IInv, LockInv
<1> QED BY <1>1, <1>2, PTL DEF Spec

\* Two runs work on the database at once only if one of them lost its lock,
\* however many instances, threads, crashes and stops there are.
THEOREM RunsAreAlone == Spec => []RunsAlone
<1>1. LockInv => RunsAlone
  <2> SUFFICES ASSUME LockInv, NEW t \in Threads, NEW u \in Threads,
                      InRun(t), InRun(u), t # u
               PROVE  conn[t] = "lost" \/ conn[u] = "lost"
    BY DEF RunsAlone
  <2>1. conn[t] # "none" /\ conn[u] # "none"
    BY DEF LockInv, LocksNest, InRun
  <2> QED BY <2>1, OneHolder
<1> QED BY <1>1, LocksHold, PTL

\* A run that lost its lock takes at most one more guarded step.
THEOREM LateWorkIsBounded == Spec => []LateWorkBounded
<1>1. IInv => LateWorkBounded
  BY DEF IInv, LockInv, TypeOK, LateInv, LateWorkBounded
<1> QED BY <1>1, Inductive, PTL

\* While no run lost its lock, the marker is honest across any interleaving of
\* instances, stops, kills and failing runs.
THEOREM MarkerStaysHonest == Spec => []MarkerHonestUnlessLost
<1>1. IInv => MarkerHonestUnlessLost
  BY DEF IInv, MarkerInv, Described, MarkerHonestUnlessLost, MarkerHonest
<1> QED BY <1>1, Inductive, PTL

\* No teardown, sweep, restart or other thread rewrites a row its run closed.
THEOREM CloseWins == Spec => RunCloseWins
<1>1. ASSUME TypeOK, [Next]_vars, NEW t \in Threads,
             rows[t] = "run", rows'[t] # "run"
      PROVE  pc[t] = "open"
  BY <1>1 DEF TypeOK, Next, vars, RunStep, Teardown, Unfinished, Tick,
       TakeRunLock, Connect, ConnectFail, Recheck, SweepStaleRuns, OpenRun,
       SetProgress, BeginScope, Check, Persist, WalkDone, Rebuild, Fatal,
       CloseRun, CloseFail, MarkComplete, Unlock, Release, LoseLock,
       RequestShutdown, CancelQueries, WaitForRun, WaitTimeout, CloseOpenRun,
       Exit, Kill, Boot, Step, EndProcess
<1>2. TypeOK /\ [Next]_vars =>
        [\A t \in Threads :
           rows[t] = "run" /\ rows'[t] # "run" => pc[t] = "open"]_vars
  BY <1>1
<1>3. LockInv => TypeOK
  BY DEF LockInv
<1> QED BY <1>2, <1>3, LocksHold, PTL DEF Spec, RunCloseWins
=============================================================================
