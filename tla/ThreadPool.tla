----------------------------- MODULE ThreadPool -----------------------------
(***************************************************************************)
(* ThreadPool of netfilter/threadpool.h with the event handles of sync.h.  *)
(* One thread owns the pool and calls init, free and the destructor; any   *)
(* thread may add a job to the ThreadJobSource and call jobAvailable; the  *)
(* pool's threads run threadProc.  The job source is external: execute     *)
(* takes jobs until none is left, which is what an interface without a job *)
(* argument, woken by an event that does not count, asks of it.            *)
(***************************************************************************)
EXTENDS Integers, FiniteSets

CONSTANTS Threads,         \* bound: the threads there can be at a time
          Counts,          \* what init is called with
          Processors,      \* dwNumberOfProcessors
          Jobs, NoJob

ASSUME ThreadPoolAssumption ==
    /\ Counts \subseteq Int
    /\ Processors \in Nat
    /\ NoJob \notin Jobs

VARIABLES m_stopEvent,          \* manual-reset event: "clear", "set" or "closed"
          m_jobAvailableEvent,  \* auto-reset event
          m_threads,            \* the threads whose handles are kept
          opc, left, dying,     \* owner: where it is, threads still to start,
                                \* is free called by the destructor?
          tpc, hold,            \* thread: where it is, the job it executes
          job,                  \* external: where each job is
          signalled,            \* history: jobs jobAvailable was called for
          due                   \* history: those when free was called

ownerVars == <<m_threads, opc, left, dying, due>>
jobVars   == <<job, signalled>>
poolVars  == <<m_stopEvent, m_jobAvailableEvent, ownerVars, tpc, hold, jobVars>>

Alive == {t \in Threads : tpc[t] \notin {"absent", "ended"}}

-----------------------------------------------------------------------------
(* The owner.                                                              *)

(* Mutant of ThreadCount: no processor is not looked after.                *)
ThreadCountRaw(n) == IF n > 0 THEN n ELSE Processors

ThreadCount(n) ==
    IF n > 0 THEN n ELSE IF Processors = 0 THEN 1 ELSE Processors

(* Mutant of init: both events are reset.                                  *)
initResetsBoth(n) ==
    /\ opc = "ready"
    /\ Cardinality(m_threads) + ThreadCount(n) <= Cardinality(Threads)
    /\ m_stopEvent' = "clear" /\ m_jobAvailableEvent' = "clear"
    /\ left' = ThreadCount(n)
    /\ opc' = "init"
    /\ UNCHANGED <<m_threads, dying, due, tpc, hold, jobVars>>

(* init may be called again after free, and also without it.               *)
init(n) ==
    /\ opc = "ready"
    /\ Cardinality(m_threads) + ThreadCount(n) <= Cardinality(Threads)
    /\ m_stopEvent' = "clear"
    /\ left' = ThreadCount(n)
    /\ opc' = "init"
    /\ UNCHANGED <<m_jobAvailableEvent, m_threads, dying, due, tpc, hold, jobVars>>

(* One turn of init's loop.  A thread that cannot be started is passed     *)
(* over, and init returns true all the same.                               *)
initThread ==
    /\ opc = "init"
    /\ \/ \E t \in Threads :
            /\ tpc[t] = "absent"
            /\ tpc' = [tpc EXCEPT ![t] = "starting"]
            /\ m_threads' = m_threads \cup {t}
       \/ UNCHANGED <<tpc, m_threads>>
    /\ left' = left - 1
    /\ opc' = IF left = 1 THEN "ready" ELSE "init"
    /\ UNCHANGED <<m_stopEvent, m_jobAvailableEvent, dying, due, hold, jobVars>>

(* free, called alone or by ~ThreadPool; the latter's caller has no other  *)
(* thread left that is about to call jobAvailable.                         *)
free(destructor) ==
    /\ opc = "ready"
    /\ destructor => \A j \in Jobs : job[j] # "new" => j \in signalled
    /\ m_stopEvent' = "set"
    /\ dying' = destructor
    /\ due' = IF m_threads = {} THEN {} ELSE signalled
    /\ opc' = "join"
    /\ UNCHANGED <<m_jobAvailableEvent, m_threads, left, tpc, hold, jobVars>>

(* Mutant of freeJoin: the handle is closed without waiting.               *)
freeJoinNoWait(t) ==
    /\ opc = "join"
    /\ t \in m_threads
    /\ m_threads' = m_threads \ {t}
    /\ UNCHANGED <<m_stopEvent, m_jobAvailableEvent, opc, left, dying, due, tpc, hold, jobVars>>

(* One turn of free's loop: the thread has ended, its handle is closed.    *)
freeJoin(t) ==
    /\ opc = "join"
    /\ t \in m_threads /\ tpc[t] = "ended"
    /\ m_threads' = m_threads \ {t}
    /\ tpc' = [tpc EXCEPT ![t] = "absent"]
    /\ UNCHANGED <<m_stopEvent, m_jobAvailableEvent, opc, left, dying, due, hold, jobVars>>

(* The destructors of the two handles.                                     *)
CloseEvents == m_stopEvent' = "closed" /\ m_jobAvailableEvent' = "closed"

(* After the loop, free returns; in the destructor the events are closed   *)
(* behind it.                                                              *)
freeEnd ==
    /\ opc = "join" /\ m_threads = {}
    /\ \/ ~dying /\ opc' = "ready" /\ UNCHANGED <<m_stopEvent, m_jobAvailableEvent>>
       \/ dying /\ opc' = "gone" /\ CloseEvents
    /\ UNCHANGED <<m_threads, left, dying, due, tpc, hold, jobVars>>

-----------------------------------------------------------------------------
(* The producers.                                                          *)

addJob(j) ==
    /\ opc # "gone"
    /\ job[j] = "new"
    /\ job' = [job EXCEPT ![j] = "waiting"]
    /\ UNCHANGED <<m_stopEvent, m_jobAvailableEvent, ownerVars, tpc, hold, signalled>>

(* Mutant of jobAvailable: the event only wakes a thread that waits now.   *)
jobAvailablePulse(j) ==
    /\ opc # "gone"
    /\ job[j] # "new" /\ j \notin signalled
    /\ m_jobAvailableEvent' = IF \E t \in Threads : tpc[t] = "wait"
                              THEN "set" ELSE m_jobAvailableEvent
    /\ signalled' = signalled \cup {j}
    /\ UNCHANGED <<m_stopEvent, ownerVars, tpc, hold, job>>

jobAvailable(j) ==
    /\ opc # "gone"
    /\ job[j] # "new" /\ j \notin signalled
    /\ m_jobAvailableEvent' = "set"
    /\ signalled' = signalled \cup {j}
    /\ UNCHANGED <<m_stopEvent, ownerVars, tpc, hold, job>>

-----------------------------------------------------------------------------
(* threadProc.                                                             *)

threadStarted(t) ==
    /\ tpc[t] = "starting"
    /\ tpc' = [tpc EXCEPT ![t] = "wait"]
    /\ UNCHANGED <<m_stopEvent, m_jobAvailableEvent, ownerVars, hold, jobVars>>

(* WaitForMultipleObjects: of two events that are set, the first counts,   *)
(* and waiting for it resets it.                                           *)
waitJob(t) ==
    /\ tpc[t] = "wait"
    /\ m_jobAvailableEvent = "set"
    /\ m_jobAvailableEvent' = "clear"
    /\ tpc' = [tpc EXCEPT ![t] = "execute"]
    /\ UNCHANGED <<m_stopEvent, ownerVars, hold, jobVars>>

(* Mutants of waitStop: the handles are in the other order; the stop event *)
(* is an auto-reset one.                                                   *)
waitStopFirst(t) ==
    /\ tpc[t] = "wait"
    /\ m_stopEvent = "set"
    /\ tpc' = [tpc EXCEPT ![t] = "stopping"]
    /\ UNCHANGED <<m_stopEvent, m_jobAvailableEvent, ownerVars, hold, jobVars>>

waitStopAuto(t) ==
    /\ tpc[t] = "wait"
    /\ m_jobAvailableEvent # "set" /\ m_stopEvent = "set"
    /\ m_stopEvent' = "clear"
    /\ tpc' = [tpc EXCEPT ![t] = "stopping"]
    /\ UNCHANGED <<m_jobAvailableEvent, ownerVars, hold, jobVars>>

waitStop(t) ==
    /\ tpc[t] = "wait"
    /\ m_jobAvailableEvent # "set" /\ m_stopEvent = "set"
    /\ tpc' = [tpc EXCEPT ![t] = "stopping"]
    /\ UNCHANGED <<m_stopEvent, m_jobAvailableEvent, ownerVars, hold, jobVars>>

(* The job source: execute takes a job, does it, and returns when it finds *)
(* none.                                                                   *)
execute(t) ==
    /\ tpc[t] = "execute" /\ hold[t] = NoJob
    /\ \/ \E j \in Jobs :
            /\ job[j] = "waiting"
            /\ job' = [job EXCEPT ![j] = "taken"]
            /\ hold' = [hold EXCEPT ![t] = j]
            /\ UNCHANGED tpc
       \/ /\ \A j \in Jobs : job[j] # "waiting"
          /\ tpc' = [tpc EXCEPT ![t] = "wait"]
          /\ UNCHANGED <<job, hold>>
    /\ UNCHANGED <<m_stopEvent, m_jobAvailableEvent, ownerVars, signalled>>

executed(t) ==
    /\ hold[t] # NoJob
    /\ job' = [job EXCEPT ![hold[t]] = "done"]
    /\ hold' = [hold EXCEPT ![t] = NoJob]
    /\ UNCHANGED <<m_stopEvent, m_jobAvailableEvent, ownerVars, tpc, signalled>>

threadStopped(t) ==
    /\ tpc[t] = "stopping"
    /\ tpc' = [tpc EXCEPT ![t] = "ended"]
    /\ UNCHANGED <<m_stopEvent, m_jobAvailableEvent, ownerVars, hold, jobVars>>

-----------------------------------------------------------------------------
CreateEvents == m_stopEvent = "clear" /\ m_jobAvailableEvent = "clear"

poolInit ==
    /\ CreateEvents
    /\ m_threads = {}
    /\ opc = "ready" /\ left = 0 /\ dying = FALSE
    /\ tpc = [t \in Threads |-> "absent"]
    /\ hold = [t \in Threads |-> NoJob]
    /\ job = [j \in Jobs |-> "new"]
    /\ signalled = {} /\ due = {}

threadProc(t) ==
    threadStarted(t) \/ waitJob(t) \/ waitStop(t) \/ execute(t) \/ executed(t) \/ threadStopped(t)

Owner == initThread \/ (\E t \in Threads : freeJoin(t)) \/ freeEnd

poolNext ==
    \/ \E n \in Counts : init(n)
    \/ \E destructor \in BOOLEAN : free(destructor)
    \/ Owner
    \/ \E j \in Jobs : addJob(j) \/ jobAvailable(j)
    \/ \E t \in Threads : threadProc(t)

poolSpec == poolInit /\ [][poolNext]_poolVars

(* Fairness: every thread goes on with what it has begun.  Nothing obliges *)
(* the owner to call init or free, or anyone to add a job.                 *)
poolFairSpec ==
    /\ poolSpec
    /\ WF_poolVars(Owner)
    /\ \A j \in Jobs : WF_poolVars(jobAvailable(j))
    /\ \A t \in Threads : WF_poolVars(threadProc(t))

-----------------------------------------------------------------------------
(* Every variable has its type, and init always has a thread to start.     *)
poolTypeOK ==
    /\ m_stopEvent \in {"clear", "set", "closed"}
    /\ m_jobAvailableEvent \in {"clear", "set", "closed"}
    /\ m_threads \subseteq Threads
    /\ opc \in {"ready", "init", "join", "gone"}
    /\ left \in Nat /\ (opc = "init" => left > 0)
    /\ dying \in BOOLEAN
    /\ tpc \in [Threads -> {"absent", "starting", "wait", "execute", "stopping", "ended"}]
    /\ hold \in [Threads -> Jobs \cup {NoJob}]
    /\ job \in [Jobs -> {"new", "waiting", "taken", "done"}]
    /\ signalled \subseteq Jobs /\ due \subseteq Jobs

(* A job whose jobAvailable was called is never forgotten: it is waiting   *)
(* only while the event is set or some thread is in execute.  Signals that *)
(* fall together, a thread that is just going to wait, and the change from *)
(* one life of the pool to the next lose none.                             *)
NoLostWakeup ==
    opc # "gone" =>
        \A j \in signalled : job[j] = "waiting" =>
            m_jobAvailableEvent = "set" \/ \E t \in Threads : tpc[t] = "execute"

(* free waits for every thread that init started: the handles kept are     *)
(* those of all the threads there are, so that none uses the pool, its     *)
(* events or a job when free, or the destructor, has returned.             *)
FreeWaits ==
    /\ m_threads = {t \in Threads : tpc[t] # "absent"}
    /\ opc = "gone" => m_threads = {} /\ \A j \in Jobs : job[j] # "taken"

(* free stops the threads after the jobs that were signalled before it:    *)
(* when it returns these are done, if there was a thread to do them.       *)
StopDrains ==
    opc # "join" => \A j \in due : job[j] = "done"

(* free returns, given that jobs do not go on arriving for ever.           *)
FreeReturns == opc = "join" ~> opc # "join"

(* A job that was added is done, or all threads are gone.                  *)
JobsServed ==
    \A j \in Jobs : job[j] = "waiting" ~> job[j] = "done" \/ Alive = {}
=============================================================================
