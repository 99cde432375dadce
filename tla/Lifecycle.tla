----------------------------- MODULE Lifecycle -----------------------------
(***************************************************************************)
(* Starting and stopping the proxy: ProcessEvent (core/EventHandler.cpp),  *)
(* NetFilterCore::Start and Stop, and init and free of EventHandler,       *)
(* UDPProxy and IOCPService, run by the Qt thread beside the filter thread *)
(* and the worker thread of UdpEventHandler.  Stop frees the UDP proxy     *)
(* while the filter still indicates events, and takes m_cs for none of it, *)
(* so createProxyConnection is cut here where the other threads can see    *)
(* it.  Each loop of UDPProxy::free is one step, and what the kernel       *)
(* writes to an OV_DATA that was deleted under it is not followed.         *)
(* startConnect and UDPProxy::udpSend are one step each: that free deletes *)
(* an OV_DATA or PROXY_DATA the filter thread is using inside one of them  *)
(* is not shown, only what the worker thread meets.                        *)
(***************************************************************************)
EXTENDS UdpEventHandler

CONSTANT StartFaults       \* what Start may meet, a subset of StartFaultKinds

(* "address": the proxy's address is not understood;  "extensions":        *)
(* initExtensions fails;  "port": CreateIoCompletionPort returns NULL;     *)
(* "thread": _beginthreadex fails;  "driver": nf_init fails.               *)
StartFaultKinds == {"address", "extensions", "port", "thread", "driver"}

ASSUME LifecycleAssumption == StartFaults \subseteq StartFaultKinds

VARIABLES qpc,             \* Qt thread: where it is in Start or Stop
          caller,          \* who called EventHandler::free, "init" or "Stop"
          m_hIOCP,         \* "INVALID", "open", or NULL: there is no port
          m_workerThread,  \* "none", "running", or "ended" and not joined yet
          m_stopEvent,     \* is the event set?
          polled,          \* has the worker looked at it since its last handler?
          filtering,       \* external: between nf_init and nf_free
          threadless,      \* history: has a life had no worker thread?
          crashed          \* has the worker read through no OVERLAPPED?

lcVars == <<qpc, caller, m_hIOCP, m_workerThread, m_stopEvent, polled, filtering, threadless, crashed>>
everything == <<allVars, lcVars>>

-----------------------------------------------------------------------------
(* The Qt thread, Connected: Start.  When it has returned qpc is "started" *)
(* whatever it returned, for ProcessEvent does not look.                   *)

(* EventHandler::init returns before it has done anything.                 *)
addressFails ==
    /\ qpc = "stopped"
    /\ "address" \in StartFaults
    /\ qpc' = "started"
    /\ UNCHANGED <<allVars, caller, m_hIOCP, m_workerThread, m_stopEvent, polled, filtering, threadless, crashed>>

(* UDPProxy::init fails, because of initExtensions or because there is a   *)
(* port already, and EventHandler::init calls free.                        *)
initFails ==
    /\ qpc = "stopped"
    /\ "extensions" \in StartFaults \/ m_hIOCP # "INVALID"
    /\ qpc' = "free" /\ caller' = "init"
    /\ UNCHANGED <<allVars, m_hIOCP, m_workerThread, m_stopEvent, polled, filtering, threadless, crashed>>

(* IOCPService::init: a new port holds no completions.  NULL, which says   *)
(* that there is none, is not what the code looks for, and a thread that   *)
(* could not be started goes unnoticed too.                                *)
init ==
    /\ qpc = "stopped"
    /\ m_hIOCP = "INVALID"
    /\ m_hIOCP' \in {"open"} \cup (IF "port" \in StartFaults THEN {"NULL"} ELSE {})
    /\ io' = [o \in Ovs |-> IF io[o].st = "queued" THEN Idle ELSE io[o]]
    /\ m_stopEvent' = FALSE
    /\ m_workerThread' \in {"running"} \cup (IF "thread" \in StartFaults THEN {"none"} ELSE {})
    /\ threadless' = (threadless \/ m_workerThread' = "none")
    /\ polled' = TRUE
    /\ qpc' = "nf_init"
    /\ UNCHANGED <<open, ov, m_socketMap, m_cs, pc, cur, fate, wire, replies, created,
                   ehVars, caller, filtering, crashed>>

nf_init ==
    /\ qpc = "nf_init"
    /\ \/ filtering' = TRUE
       \/ "driver" \in StartFaults /\ UNCHANGED filtering
    /\ qpc' = "started"
    /\ UNCHANGED <<allVars, caller, m_hIOCP, m_workerThread, m_stopEvent, polled, threadless, crashed>>

-----------------------------------------------------------------------------
(* The Qt thread, Disconnecting: Stop, which is EventHandler::free and     *)
(* then nf_free.                                                           *)

Stop ==
    /\ qpc = "started"
    /\ qpc' = "free" /\ caller' = "Stop"
    /\ UNCHANGED <<allVars, m_hIOCP, m_workerThread, m_stopEvent, polled, filtering, threadless, crashed>>

(* Mutants of serviceFree: the worker is not waited for; nor told to stop. *)
serviceFreeUnjoined ==
    /\ qpc = "free"
    /\ m_stopEvent' = (m_workerThread # "none")
    /\ qpc' = "delete ovs"
    /\ UNCHANGED <<allVars, caller, m_hIOCP, m_workerThread, polled, filtering, threadless, crashed>>

serviceFreeUntold ==
    /\ qpc = "free"
    /\ qpc' = IF m_workerThread = "none" THEN "delete ovs" ELSE "join"
    /\ UNCHANGED <<allVars, caller, m_hIOCP, m_workerThread, m_stopEvent, polled, filtering, threadless, crashed>>

(* IOCPService::free: without a thread it returns at once, port and all.   *)
serviceFree ==
    /\ qpc = "free"
    /\ \/ m_workerThread = "none" /\ qpc' = "delete ovs" /\ UNCHANGED m_stopEvent
       \/ m_workerThread # "none" /\ qpc' = "join" /\ m_stopEvent' = TRUE
    /\ UNCHANGED <<allVars, caller, m_hIOCP, m_workerThread, polled, filtering, threadless, crashed>>

serviceJoin ==
    /\ qpc = "join"
    /\ m_workerThread = "ended"
    /\ m_workerThread' = "none"
    /\ m_hIOCP' = "INVALID"
    /\ qpc' = "delete ovs"
    /\ UNCHANGED <<allVars, caller, m_stopEvent, polled, filtering, threadless, crashed>>

(* UDPProxy::free: every OV_DATA, whether or not its operation is pending, *)
(* then every connection.                                                  *)
freeOvs ==
    /\ qpc = "delete ovs"
    /\ ov' = [o \in Ovs |-> FreeOv]
    /\ qpc' = "delete connections"
    /\ UNCHANGED <<open, io, m_socketMap, m_cs, pc, cur, fate, wire, replies, created,
                   ehVars, caller, m_hIOCP, m_workerThread, m_stopEvent, polled, filtering, threadless, crashed>>

freeConnections ==
    /\ qpc = "delete connections"
    /\ open' = {}
    /\ io' = Aborted(open)
    /\ m_socketMap' = [id \in Ids |-> NoConn]
    /\ fate' = [id \in Ids |->
                  [n \in DOMAIN fate[id] |-> IF fate[id][n] = "queued" THEN "lost" ELSE fate[id][n]]]
    /\ qpc' = "clear contexts"
    /\ UNCHANGED <<ov, m_cs, pc, cur, wire, replies, created,
                   ehVars, caller, m_hIOCP, m_workerThread, m_stopEvent, polled, filtering, threadless, crashed>>

freeContexts ==
    /\ qpc = "clear contexts"
    /\ lock = "free"
    /\ m_udpCtxMap' = {}
    /\ qpc' = IF caller = "init" THEN "started" ELSE "nf_free"
    /\ UNCHANGED <<vars, endpoint, lock, fpc, fid, late,
                   caller, m_hIOCP, m_workerThread, m_stopEvent, polled, filtering, threadless, crashed>>

(* nf_free: no further event is indicated, and the filter thread returns   *)
(* from the last one.  The endpoints of the next life are new, even if     *)
(* their ids are the same.                                                 *)
nf_free ==
    /\ qpc = "nf_free"
    /\ filtering' = FALSE
    /\ qpc' = "nf_free waits"
    /\ UNCHANGED <<allVars, caller, m_hIOCP, m_workerThread, m_stopEvent, polled, threadless, crashed>>

nf_freeReturns ==
    /\ qpc = "nf_free waits"
    /\ fpc = "idle"
    /\ endpoint' = [id \in Ids |-> "new"]
    /\ fate' = [id \in Ids |-> <<>>]
    /\ wire' = [id \in Ids |-> <<>>]
    /\ replies' = [id \in Ids |-> <<>>]
    /\ created' = {} /\ late' = {}
    /\ qpc' = "stopped"
    /\ UNCHANGED <<open, io, ov, m_socketMap, m_cs, pc, cur, m_udpCtxMap, lock, fpc, fid,
                   caller, m_hIOCP, m_workerThread, m_stopEvent, polled, filtering, threadless, crashed>>

-----------------------------------------------------------------------------
(* The filter thread: createProxyConnection, with the handler's lock held. *)

(* It returns false, and the datagram that made it be called is dropped.   *)
createFails ==
    /\ fate' = [fate EXCEPT ![fid] = Append(@, "lost")]
    /\ fpc' = "idle" /\ fid' = NoId /\ lock' = "free"

(* It does so after taking the connection out again, if it is still there. *)
createUndone ==
    /\ m_cs = "free"
    /\ open' = open \ Sockets(fid)
    /\ io' = Aborted(Sockets(fid))
    /\ m_socketMap' = [m_socketMap EXCEPT ![fid] = NoConn]
    /\ createFails
    /\ UNCHANGED <<ov, m_cs, pc, cur, wire, replies, created, m_udpCtxMap>>

(* WSASocket, twice, fails when no SOCKET values are left.                 *)
createSockets ==
    /\ fpc = "create"
    /\ \/ /\ m_cs = "free"
          /\ \E t, u \in NewHandles :
               /\ t # u
               /\ open' = open \cup {t, u}
               /\ m_socketMap' = [m_socketMap EXCEPT ![fid] = NewConn(t, u)]
          /\ fpc' = "register"
          /\ UNCHANGED <<fate, fid, lock>>
       \/ /\ "socket" \in Faults \/ Cardinality(NewHandles) < 2
          /\ createFails
          /\ UNCHANGED <<open, m_socketMap>>
    /\ UNCHANGED <<io, ov, m_cs, pc, cur, wire, replies, created,
                   endpoint, m_udpCtxMap, late, lcVars>>

(* Mutant of createRegister: the result of registerSocket is ignored.      *)
createRegisterIgnored ==
    /\ fpc = "register"
    /\ fpc' = "connect"
    /\ UNCHANGED <<vars, endpoint, m_udpCtxMap, lock, fid, late, lcVars>>

(* registerSocket of both sockets fails once the port is closed, and if    *)
(* free closed them meanwhile; NULL gets each of them a port of its own.   *)
createRegister ==
    /\ fpc = "register"
    /\ \/ /\ m_hIOCP # "INVALID" /\ Has(fid)
          /\ fpc' = "connect"
          /\ UNCHANGED <<vars, lock, fid, m_udpCtxMap>>
       \/ /\ "socket" \in Faults \/ ~(m_hIOCP # "INVALID" /\ Has(fid))
          /\ createUndone
    /\ UNCHANGED <<endpoint, late, lcVars>>

(* startConnect, and the new context.                                      *)
createConnect ==
    /\ fpc = "connect"
    /\ \/ /\ Has(fid) /\ m_cs = "free"
          /\ \E o \in Ovs :
               /\ newOV_DATA(o, {})
               /\ io' = [io EXCEPT ![o] = Pending(m_socketMap[fid].tcpSocket)]
               /\ ov' = [ov EXCEPT ![o] = [id |-> fid, type |-> "OVT_CONNECT"]]
          /\ created' = created \cup {fid}
          /\ m_udpCtxMap' = m_udpCtxMap \cup {fid}
          /\ fpc' = "send" /\ lock' = "free"
          /\ UNCHANGED <<open, m_socketMap, m_cs, pc, cur, fate, wire, replies, fid>>
       \/ /\ "socket" \in Faults \/ ~Has(fid)
          /\ createUndone
    /\ UNCHANGED <<endpoint, late, lcVars>>

filterEvent ==
    /\ filtering
    /\ \E id \in Ids : udpCreated(id) \/ ehUdpSend(id) \/ udpClosed(id)
    /\ UNCHANGED lcVars

filterCall ==
    \/ createSockets
    \/ createRegister
    \/ createConnect
    \/ (ehSend \/ ehDirect \/ ehForget) /\ UNCHANGED lcVars

-----------------------------------------------------------------------------
(* The worker thread looks at m_stopEvent after every handler and timeout. *)

Polled(now) ==
    /\ m_workerThread = "running"
    /\ polled' = now
    /\ UNCHANGED <<qpc, caller, m_hIOCP, filtering, threadless, crashed>>

workerHandles(o) ==
    /\ polled /\ m_hIOCP = "open"
    /\ Polled(FALSE)
    /\ Handle(o)
    /\ UNCHANGED <<ehVars, m_workerThread, m_stopEvent>>

workerPolls ==
    /\ pc = "wait" /\ ~polled
    /\ Polled(~m_stopEvent)
    /\ m_workerThread' = IF m_stopEvent THEN "ended" ELSE "running"
    /\ m_stopEvent' = FALSE
    /\ UNCHANGED allVars

(* 500 ms passed with nothing in the port.                                 *)
workerTimesOut ==
    /\ pc = "wait" /\ polled /\ m_hIOCP = "open"
    /\ \A o \in Ovs : io[o].st # "queued"
    /\ Polled(FALSE)
    /\ UNCHANGED <<allVars, m_workerThread, m_stopEvent>>

(* On no port GetQueuedCompletionStatus fails at once, and onComplete is   *)
(* called all the same, with what pOverlapped happens to hold: NULL.       *)
workerHasNoPort ==
    /\ pc = "wait" /\ polled /\ m_hIOCP = "NULL"
    /\ m_workerThread = "running"
    /\ crashed' = TRUE
    /\ UNCHANGED <<allVars, qpc, caller, m_hIOCP, m_workerThread, m_stopEvent, polled, filtering, threadless>>

-----------------------------------------------------------------------------
lcInit ==
    /\ ehInit
    /\ qpc = "stopped" /\ caller = "Stop"
    /\ m_hIOCP = "INVALID" /\ m_workerThread = "none"
    /\ m_stopEvent = FALSE /\ polled = FALSE
    /\ filtering = FALSE /\ threadless = FALSE /\ crashed = FALSE

qtStop == \/ serviceFree \/ serviceJoin \/ freeOvs \/ freeConnections
          \/ freeContexts \/ nf_free \/ nf_freeReturns

lcStep ==
    \/ addressFails \/ initFails \/ init \/ nf_init \/ Stop
    \/ qtStop
    \/ filterEvent
    \/ filterCall
    \/ \E o \in Ovs : workerHandles(o)
    \/ ehResume /\ UNCHANGED lcVars
    \/ workerPolls
    \/ workerTimesOut
    \/ workerHasNoPort
    \/ \E o \in Ovs : Kernel(o) /\ UNCHANGED <<ehVars, lcVars>>

(* An access violation ends the process, all of its threads.               *)
processGone == crashed /\ UNCHANGED everything

lcNext == (~crashed /\ lcStep) \/ processGone

lcSpec == lcInit /\ [][lcNext]_everything

(* Fairness: every thread goes on with what it has begun, and a worker     *)
(* with nothing to do times out.                                           *)
workerTakes == workerTimesOut \/ workerHasNoPort \/ \E o \in Ovs : workerHandles(o)

lcFairSpec ==
    /\ lcSpec
    /\ WF_everything(~crashed /\ qtStop)
    /\ WF_everything(~crashed /\ filterCall)
    /\ WF_everything(~crashed /\ ehResume /\ UNCHANGED lcVars)
    /\ WF_everything(~crashed /\ workerPolls)
    /\ WF_everything(~crashed /\ workerTakes)

-----------------------------------------------------------------------------
(* A worker that has a port never meets an OVERLAPPED that is no OV_DATA   *)
(* any more: neither the one it works on nor one that a completion it can  *)
(* still take refers to, whatever Stop deletes beside it and whatever an   *)
(* earlier life has left behind.  Of a worker that init gave no port it is *)
(* false: onComplete reads through NULL at once (workerHasNoPort).         *)
WorkerHasMemory ==
    m_workerThread = "running" /\ m_hIOCP # "NULL" =>
        /\ ~crashed
        /\ pc # "wait" => ov[cur.ov] # FreeOv
        /\ \A o \in Ovs : io[o].st = "queued" => ov[o] # FreeOv

(* When Stop has returned no thread, socket, connection or context is left *)
(* although the filter went on creating some while free deleted them, nor  *)
(* a port that would make the next Start fail.  Only after a worker thread *)
(* could not be started is that different, and for good.                   *)
StoppedIsClean ==
    qpc = "stopped" /\ ~threadless =>
        /\ m_workerThread = "none" /\ m_hIOCP = "INVALID"
        /\ Conns = {} /\ open = {} /\ m_udpCtxMap = {}

(* Stop returns: waiting for the worker, for lock and for the filter       *)
(* thread, none of which waits for the Qt thread; unless the process has   *)
(* ended for want of a port.                                               *)
StopReturns == qpc = "free" ~> qpc \in {"started", "stopped"} \/ crashed
=============================================================================
