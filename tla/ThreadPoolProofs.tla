--------------------------- MODULE ThreadPoolProofs ---------------------------
(***************************************************************************)
(* Safety of ThreadPool, for any number of threads and jobs.               *)
(***************************************************************************)
EXTENDS ThreadPool, TLAPS

Working == {"starting", "wait", "execute"}

(* A job that is being done has exactly one thread that does it.           *)
JobsTracked ==
    /\ \A j \in Jobs : job[j] = "new" => j \notin signalled
    /\ \A t \in Threads : hold[t] # NoJob => tpc[t] = "execute" /\ job[hold[t]] = "taken"
    /\ \A t, u \in Threads : hold[t] = hold[u] /\ hold[t] # NoJob => t = u
    /\ \A j \in Jobs : job[j] = "taken" => \E t \in Threads : hold[t] = j

(* The handles are those of all threads; a thread stops only while free    *)
(* waits for it, because the stop event is set for no other thread.        *)
ThreadsTracked ==
    /\ m_threads = {t \in Threads : tpc[t] # "absent"}
    /\ opc = "gone" => m_threads = {}
    /\ opc = "init" => m_stopEvent = "clear"
    /\ m_stopEvent = "set" /\ opc # "join" => m_threads = {}
    /\ \A t \in Threads : tpc[t] \in {"stopping", "ended"} => opc = "join"

(* While free waits, some thread is left as long as a job is due.          *)
DueTracked ==
    /\ due \subseteq signalled
    /\ opc = "join" /\ (\E j \in due : job[j] # "done") => \E t \in Threads : tpc[t] \in Working
    /\ opc # "join" => \A j \in due : job[j] = "done"

(* The inductive invariant.                                                *)
PoolInv == poolTypeOK /\ JobsTracked /\ ThreadsTracked /\ NoLostWakeup /\ DueTracked

-----------------------------------------------------------------------------
(* The number of threads init starts is positive.                          *)
LEMMA CountPositive ==
    ASSUME NEW n \in Counts
    PROVE  ThreadCount(n) \in Nat /\ ThreadCount(n) > 0
BY ThreadPoolAssumption DEF ThreadCount

(* init starts with the stop event reset.                                  *)
LEMMA InitKeeps ==
    ASSUME PoolInv, NEW n \in Counts, init(n)
    PROVE  PoolInv'
<1> USE DEF PoolInv, ownerVars, jobVars, init
<1>1. poolTypeOK'
  BY CountPositive DEF poolTypeOK
<1>2. JobsTracked'
  BY ThreadPoolAssumption DEF poolTypeOK, JobsTracked
<1>3. ThreadsTracked'
  BY DEF poolTypeOK, ThreadsTracked
<1>4. NoLostWakeup'
  BY DEF poolTypeOK, NoLostWakeup, JobsTracked
<1>5. DueTracked'
  BY DEF poolTypeOK, JobsTracked, ThreadsTracked, NoLostWakeup, DueTracked, Working
<1> QED BY <1>1, <1>2, <1>3, <1>4, <1>5

(* A thread more, or none.                                                 *)
LEMMA InitThreadKeeps ==
    ASSUME PoolInv, initThread
    PROVE  PoolInv'
<1> USE DEF PoolInv, ownerVars, jobVars, initThread
<1>1. poolTypeOK'
  BY DEF poolTypeOK
<1>2. JobsTracked'
  BY ThreadPoolAssumption DEF poolTypeOK, JobsTracked
<1>3. ThreadsTracked'
  BY DEF poolTypeOK, ThreadsTracked
<1>4. NoLostWakeup'
  BY DEF poolTypeOK, NoLostWakeup, JobsTracked
<1>5. DueTracked'
  BY DEF poolTypeOK, JobsTracked, ThreadsTracked, NoLostWakeup, DueTracked, Working
<1> QED BY <1>1, <1>2, <1>3, <1>4, <1>5

(* When free begins no thread has stopped yet.                             *)
LEMMA FreeKeeps ==
    ASSUME PoolInv, NEW d \in BOOLEAN, free(d)
    PROVE  PoolInv'
<1> USE DEF PoolInv, ownerVars, jobVars, free
<1>1. poolTypeOK'
  BY DEF poolTypeOK
<1>2. JobsTracked'
  BY ThreadPoolAssumption DEF poolTypeOK, JobsTracked
<1>3. ThreadsTracked'
  BY DEF poolTypeOK, ThreadsTracked
<1>4. NoLostWakeup'
  BY DEF poolTypeOK, NoLostWakeup, JobsTracked
<1>5. DueTracked'
  BY DEF poolTypeOK, JobsTracked, ThreadsTracked, NoLostWakeup, DueTracked, Working
<1> QED BY <1>1, <1>2, <1>3, <1>4, <1>5

(* Only a thread that has ended is dropped.                                *)
LEMMA FreeJoinKeeps ==
    ASSUME PoolInv, NEW t \in Threads, freeJoin(t)
    PROVE  PoolInv'
<1> USE DEF PoolInv, ownerVars, jobVars, freeJoin
<1>1. poolTypeOK'
  BY DEF poolTypeOK
<1>2. JobsTracked'
  BY ThreadPoolAssumption DEF poolTypeOK, JobsTracked
<1>3. ThreadsTracked'
  BY DEF poolTypeOK, ThreadsTracked
<1>4. NoLostWakeup'
  BY DEF poolTypeOK, NoLostWakeup, JobsTracked
<1>5. DueTracked'
  BY DEF poolTypeOK, JobsTracked, ThreadsTracked, NoLostWakeup, DueTracked, Working
<1> QED BY <1>1, <1>2, <1>3, <1>4, <1>5

(* When free returns no thread is left, so no job is due.                  *)
LEMMA FreeEndKeeps ==
    ASSUME PoolInv, freeEnd
    PROVE  PoolInv'
<1> USE DEF PoolInv, ownerVars, jobVars, freeEnd, CloseEvents
<1>1. poolTypeOK'
  BY DEF poolTypeOK
<1>2. JobsTracked'
  BY ThreadPoolAssumption DEF poolTypeOK, JobsTracked
<1>3. ThreadsTracked'
  BY DEF poolTypeOK, ThreadsTracked
<1>4. NoLostWakeup'
  BY DEF poolTypeOK, NoLostWakeup, JobsTracked
<1>5. DueTracked'
  BY DEF poolTypeOK, JobsTracked, ThreadsTracked, NoLostWakeup, DueTracked, Working
<1> QED BY <1>1, <1>2, <1>3, <1>4, <1>5

(* A new job has not been signalled.                                       *)
LEMMA AddJobKeeps ==
    ASSUME PoolInv, NEW j \in Jobs, addJob(j)
    PROVE  PoolInv'
<1> USE DEF PoolInv, ownerVars, jobVars, addJob
<1>1. poolTypeOK'
  BY DEF poolTypeOK
<1>2. JobsTracked'
  BY ThreadPoolAssumption DEF poolTypeOK, JobsTracked
<1>3. ThreadsTracked'
  BY DEF poolTypeOK, ThreadsTracked
<1>4. NoLostWakeup'
  BY DEF poolTypeOK, NoLostWakeup, JobsTracked
<1>5. DueTracked'
  BY DEF poolTypeOK, JobsTracked, ThreadsTracked, NoLostWakeup, DueTracked, Working
<1> QED BY <1>1, <1>2, <1>3, <1>4, <1>5

(* Signalling sets the event.                                              *)
LEMMA JobAvailableKeeps ==
    ASSUME PoolInv, NEW j \in Jobs, jobAvailable(j)
    PROVE  PoolInv'
<1> USE DEF PoolInv, ownerVars, jobVars, jobAvailable
<1>1. poolTypeOK'
  BY DEF poolTypeOK
<1>2. JobsTracked'
  BY ThreadPoolAssumption DEF poolTypeOK, JobsTracked
<1>3. ThreadsTracked'
  BY DEF poolTypeOK, ThreadsTracked
<1>4. NoLostWakeup'
  BY DEF poolTypeOK, NoLostWakeup, JobsTracked
<1>5. DueTracked'
  BY DEF poolTypeOK, JobsTracked, ThreadsTracked, NoLostWakeup, DueTracked, Working
<1> QED BY <1>1, <1>2, <1>3, <1>4, <1>5

(* A thread that starts goes to wait.                                      *)
LEMMA ThreadStartedKeeps ==
    ASSUME PoolInv, NEW t \in Threads, threadStarted(t)
    PROVE  PoolInv'
<1> USE DEF PoolInv, ownerVars, jobVars, threadStarted
<1>1. poolTypeOK'
  BY DEF poolTypeOK
<1>2. JobsTracked'
  BY ThreadPoolAssumption DEF poolTypeOK, JobsTracked
<1>3. ThreadsTracked'
  BY DEF poolTypeOK, ThreadsTracked
<1>4. NoLostWakeup'
  BY DEF poolTypeOK, NoLostWakeup, JobsTracked
<1>5. DueTracked'
  BY DEF poolTypeOK, JobsTracked, ThreadsTracked, NoLostWakeup, DueTracked, Working
<1> QED BY <1>1, <1>2, <1>3, <1>4, <1>5

(* The thread that takes the signal executes.                              *)
LEMMA WaitJobKeeps ==
    ASSUME PoolInv, NEW t \in Threads, waitJob(t)
    PROVE  PoolInv'
<1> USE DEF PoolInv, ownerVars, jobVars, waitJob
<1>1. poolTypeOK'
  BY DEF poolTypeOK
<1>2. JobsTracked'
  BY ThreadPoolAssumption DEF poolTypeOK, JobsTracked
<1>3. ThreadsTracked'
  BY DEF poolTypeOK, ThreadsTracked
<1>4. NoLostWakeup'
  BY DEF poolTypeOK, NoLostWakeup, JobsTracked
<1>5. DueTracked'
  BY DEF poolTypeOK, JobsTracked, ThreadsTracked, NoLostWakeup, DueTracked, Working
<1> QED BY <1>1, <1>2, <1>3, <1>4, <1>5

(* A thread stops only if another one has the jobs that are due.           *)
LEMMA WaitStopKeeps ==
    ASSUME PoolInv, NEW t \in Threads, waitStop(t)
    PROVE  PoolInv'
<1> USE DEF PoolInv, ownerVars, jobVars, waitStop
<1>1. poolTypeOK'
  BY DEF poolTypeOK
<1>2. JobsTracked'
  BY ThreadPoolAssumption DEF poolTypeOK, JobsTracked
<1>3. ThreadsTracked'
  BY DEF poolTypeOK, ThreadsTracked
<1>4. NoLostWakeup'
  BY DEF poolTypeOK, NoLostWakeup, JobsTracked
<1>5. DueTracked'
  <2>1. ASSUME NEW j \in due, job[j] # "done", opc = "join"
        PROVE  \E u \in Threads : tpc[u] = "execute"
    BY <2>1, ThreadPoolAssumption DEF poolTypeOK, JobsTracked, NoLostWakeup, DueTracked
  <2>2. ASSUME NEW u \in Threads, tpc[u] = "execute"
        PROVE  tpc'[u] \in Working
    BY <2>2 DEF poolTypeOK, Working
  <2> QED BY <2>1, <2>2 DEF DueTracked
<1> QED BY <1>1, <1>2, <1>3, <1>4, <1>5

(* A thread leaves execute only when no job waits.                         *)
LEMMA ExecuteKeeps ==
    ASSUME PoolInv, NEW t \in Threads, execute(t)
    PROVE  PoolInv'
<1> USE DEF PoolInv, ownerVars, jobVars, execute
<1>1. poolTypeOK'
  BY DEF poolTypeOK
<1>2. JobsTracked'
  BY ThreadPoolAssumption DEF poolTypeOK, JobsTracked
<1>3. ThreadsTracked'
  BY DEF poolTypeOK, ThreadsTracked
<1>4. NoLostWakeup'
  BY DEF poolTypeOK, NoLostWakeup, JobsTracked
<1>5. DueTracked'
  BY DEF poolTypeOK, JobsTracked, ThreadsTracked, NoLostWakeup, DueTracked, Working
<1> QED BY <1>1, <1>2, <1>3, <1>4, <1>5

(* Only the thread that holds a job finishes it.                           *)
LEMMA ExecutedKeeps ==
    ASSUME PoolInv, NEW t \in Threads, executed(t)
    PROVE  PoolInv'
<1> USE DEF PoolInv, ownerVars, jobVars, executed
<1>1. poolTypeOK'
  BY DEF poolTypeOK
<1>2. JobsTracked'
  BY ThreadPoolAssumption DEF poolTypeOK, JobsTracked
<1>3. ThreadsTracked'
  BY DEF poolTypeOK, ThreadsTracked
<1>4. NoLostWakeup'
  BY DEF poolTypeOK, NoLostWakeup, JobsTracked
<1>5. DueTracked'
  BY DEF poolTypeOK, JobsTracked, ThreadsTracked, NoLostWakeup, DueTracked, Working
<1> QED BY <1>1, <1>2, <1>3, <1>4, <1>5

(* A thread that stops ends.                                               *)
LEMMA ThreadStoppedKeeps ==
    ASSUME PoolInv, NEW t \in Threads, threadStopped(t)
    PROVE  PoolInv'
<1> USE DEF PoolInv, ownerVars, jobVars, threadStopped
<1>1. poolTypeOK'
  BY DEF poolTypeOK
<1>2. JobsTracked'
  BY ThreadPoolAssumption DEF poolTypeOK, JobsTracked
<1>3. ThreadsTracked'
  BY DEF poolTypeOK, ThreadsTracked
<1>4. NoLostWakeup'
  BY DEF poolTypeOK, NoLostWakeup, JobsTracked
<1>5. DueTracked'
  BY DEF poolTypeOK, JobsTracked, ThreadsTracked, NoLostWakeup, DueTracked, Working
<1> QED BY <1>1, <1>2, <1>3, <1>4, <1>5

-----------------------------------------------------------------------------
(* The invariant holds of a new pool,                                      *)
LEMMA PoolInitInv == ASSUME poolInit PROVE PoolInv
BY DEF poolInit, CreateEvents, PoolInv, poolTypeOK, JobsTracked, ThreadsTracked, NoLostWakeup, DueTracked

(* and every step of the owner, a producer or a thread keeps it.           *)
LEMMA PoolNextInv ==
    ASSUME PoolInv, [poolNext]_poolVars
    PROVE  PoolInv'
<1>1. CASE UNCHANGED poolVars
  BY <1>1 DEF poolVars, ownerVars, jobVars, PoolInv, poolTypeOK, JobsTracked, ThreadsTracked,
              NoLostWakeup, DueTracked
<1>2. CASE \E n \in Counts : init(n)
  BY <1>2, InitKeeps
<1>3. CASE \E destructor \in BOOLEAN : free(destructor)
  BY <1>3, FreeKeeps
<1>4. CASE Owner
  BY <1>4, InitThreadKeeps, FreeJoinKeeps, FreeEndKeeps DEF Owner
<1>5. CASE \E j \in Jobs : addJob(j) \/ jobAvailable(j)
  BY <1>5, AddJobKeeps, JobAvailableKeeps
<1>6. CASE \E t \in Threads : threadProc(t)
  BY <1>6, ThreadStartedKeeps, WaitJobKeeps, WaitStopKeeps, ExecuteKeeps, ExecutedKeeps,
     ThreadStoppedKeeps DEF threadProc
<1> QED BY <1>1, <1>2, <1>3, <1>4, <1>5, <1>6 DEF poolNext

(* So it holds throughout.                                                 *)
LEMMA PoolInvariant == poolSpec => []PoolInv
<1>1. poolInit => PoolInv
  BY PoolInitInv
<1>2. PoolInv /\ [poolNext]_poolVars => PoolInv'
  BY PoolNextInv
<1> QED BY <1>1, <1>2, PTL DEF poolSpec

(* Every variable of the pool keeps its type, and init's loop always has a *)
(* thread to start.                                                        *)
THEOREM PoolTypeCorrect == poolSpec => []poolTypeOK
<1>1. PoolInv => poolTypeOK
  BY DEF PoolInv
<1> QED BY <1>1, PoolInvariant, PTL

(* No signalled job is forgotten, in any life of the pool, for any number  *)
(* of threads and jobs and whichever threads could not be started.         *)
THEOREM WakeupSafe == poolSpec => []NoLostWakeup
<1>1. PoolInv => NoLostWakeup
  BY DEF PoolInv
<1> QED BY <1>1, PoolInvariant, PTL

(* free and the destructor wait for every thread.                          *)
THEOREM JoinSafe == poolSpec => []FreeWaits
<1>1. PoolInv => FreeWaits
  BY ThreadPoolAssumption DEF PoolInv, poolTypeOK, JobsTracked, ThreadsTracked, FreeWaits
<1> QED BY <1>1, PoolInvariant, PTL

(* The jobs signalled before free are done when it returns.                *)
THEOREM DrainSafe == poolSpec => []StopDrains
<1>1. PoolInv => StopDrains
  BY DEF PoolInv, DueTracked, StopDrains
<1> QED BY <1>1, PoolInvariant, PTL
=============================================================================
