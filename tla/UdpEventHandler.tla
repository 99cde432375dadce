-------------------------- MODULE UdpEventHandler --------------------------
(***************************************************************************)
(* The UDP half of EventHandler (netfilter/NFEventHandler.cpp) on top of   *)
(* UDPProxy.  The packet filter runs one thread (nf_setOptions is never    *)
(* called, so nThreads is 1) that calls udpCreated, udpSend and udpClosed; *)
(* the worker thread of the completion port calls onUdpReceiveComplete.    *)
(* `lock' is the mutex of EventHandler, m_cs the one of UDPProxy.          *)
(***************************************************************************)
EXTENDS UDPProxy

VARIABLES endpoint,        \* external: the endpoint as the filter driver sees it
          m_udpCtxMap,     \* the ids that have a UDPContext
          lock,            \* holder of the mutex
          fpc, fid,        \* filter thread: where it is, for which endpoint
          late             \* history: ids a datagram was posted to once closed

ehVars  == <<endpoint, m_udpCtxMap, lock, fpc, fid, late>>
allVars == <<vars, ehVars>>

-----------------------------------------------------------------------------
(* The filter thread.  An event is taken when the one before has returned. *)

udpCreated(id) ==
    /\ fpc = "idle" /\ lock = "free"
    /\ endpoint[id] = "new"
    /\ endpoint' = [endpoint EXCEPT ![id] = "up"]
    /\ UNCHANGED <<vars, m_udpCtxMap, lock, fpc, fid, late>>

(* udpSend, lines 207-215: without a context, lock is kept while the       *)
(* connection is created.                                                  *)
ehUdpSend(id) ==
    /\ fpc = "idle" /\ lock = "free"
    /\ endpoint[id] = "up"
    /\ Len(fate[id]) < MaxDgrams
    /\ \/ id \in m_udpCtxMap /\ fpc' = "send" /\ UNCHANGED lock
       \/ id \notin m_udpCtxMap /\ fpc' = "create" /\ lock' = "filter"
    /\ fid' = id
    /\ UNCHANGED <<vars, endpoint, m_udpCtxMap, late>>

(* Mutant of ehCreate: no context is stored.                               *)
ehCreateNoContext ==
    /\ fpc = "create"
    /\ \/ createProxyConnection(fid, TRUE) /\ fpc' = "send" /\ UNCHANGED fid
       \/ createProxyConnection(fid, FALSE) /\ fpc' = "idle" /\ fid' = NoId
    /\ lock' = "free"
    /\ UNCHANGED <<endpoint, m_udpCtxMap, late>>

ehCreate ==
    /\ fpc = "create"
    /\ \/ /\ createProxyConnection(fid, TRUE)
          /\ m_udpCtxMap' = m_udpCtxMap \cup {fid}
          /\ fpc' = "send"
          /\ UNCHANGED fid
       \/ /\ createProxyConnection(fid, FALSE)
          /\ fpc' = "idle" /\ fid' = NoId
          /\ UNCHANGED m_udpCtxMap
    /\ lock' = "free"
    /\ UNCHANGED <<endpoint, late>>

(* Lines 217-221, without lock.                                            *)
ehSend ==
    /\ fpc = "send"
    /\ \/ udpSend(fid, TRUE) /\ fpc' = "idle" /\ fid' = NoId
       \/ udpSend(fid, FALSE) /\ fpc' = "direct" /\ UNCHANGED fid
    /\ UNCHANGED <<endpoint, m_udpCtxMap, lock, late>>

(* nf_udpPostSend: the datagram goes to its destination past the proxy.    *)
ehDirect ==
    /\ fpc = "direct"
    /\ fpc' = "idle" /\ fid' = NoId
    /\ UNCHANGED <<vars, endpoint, m_udpCtxMap, lock, late>>

(* udpClosed: the connection goes first, then, under lock, the context.    *)
udpClosed(id) ==
    /\ fpc = "idle"
    /\ endpoint[id] = "up"
    /\ deleteProxyConnection(id)
    /\ fpc' = "close" /\ fid' = id
    /\ UNCHANGED <<endpoint, m_udpCtxMap, lock, late>>

(* Mutant of ehForget: the context is not erased.                          *)
ehForgetNothing ==
    /\ fpc = "close" /\ lock = "free"
    /\ endpoint' = [endpoint EXCEPT ![fid] = "closed"]
    /\ fpc' = "idle" /\ fid' = NoId
    /\ UNCHANGED <<vars, m_udpCtxMap, lock, late>>

ehForget ==
    /\ fpc = "close" /\ lock = "free"
    /\ m_udpCtxMap' = m_udpCtxMap \ {fid}
    /\ endpoint' = [endpoint EXCEPT ![fid] = "closed"]
    /\ fpc' = "idle" /\ fid' = NoId
    /\ UNCHANGED <<vars, lock, late>>

-----------------------------------------------------------------------------
(* Mutant of ehOnUdpReceiveComplete: the context is not looked up.         *)
ehOnUdpReceiveUnchecked ==
    LET id == ov[cur.ov].id IN
    /\ lock = "free"
    /\ callback
    /\ late' = IF endpoint[id] = "closed" THEN late \cup {id} ELSE late
    /\ UNCHANGED <<endpoint, m_udpCtxMap, lock, fpc, fid>>

(* The worker thread: EventHandler::onUdpReceiveComplete takes lock, and   *)
(* posts the datagram to the endpoint if it still has a context.           *)
ehOnUdpReceiveComplete ==
    LET id == ov[cur.ov].id IN
    /\ lock = "free"
    /\ callback
    /\ late' = IF id \in m_udpCtxMap /\ endpoint[id] = "closed" THEN late \cup {id} ELSE late
    /\ UNCHANGED <<endpoint, m_udpCtxMap, lock, fpc, fid>>

ehResume ==
    \/ ehOnUdpReceiveComplete
    \/ (drain \/ drainEnd \/ rearm("rearmTcp") \/ rearm("rearmUdp")) /\ UNCHANGED ehVars

-----------------------------------------------------------------------------
ehInit ==
    /\ Init
    /\ endpoint = [id \in Ids |-> "new"]
    /\ m_udpCtxMap = {}
    /\ lock = "free"
    /\ fpc = "idle"
    /\ fid = NoId
    /\ late = {}

ehCall == ehCreate \/ ehSend \/ ehDirect \/ ehForget

ehNext ==
    \/ \E id \in Ids : udpCreated(id) \/ ehUdpSend(id) \/ udpClosed(id)
    \/ ehCall
    \/ \E o \in Ovs : (Handle(o) \/ Kernel(o)) /\ UNCHANGED ehVars
    \/ ehResume
    \/ workerTimeout /\ UNCHANGED ehVars

ehSpec == ehInit /\ [][ehNext]_allVars

(* Fairness: both threads keep running; see Fairness of UDPProxy.          *)
ehFairSpec ==
    /\ ehSpec
    /\ WF_allVars(ehCall)
    /\ WF_allVars(ehResume)
    /\ \A o \in Ovs : WF_allVars(Handle(o) /\ UNCHANGED ehVars)

-----------------------------------------------------------------------------
(* Every variable of the handler has its type.                             *)
ehTypeOK ==
    /\ TypeOK
    /\ endpoint \in [Ids -> {"new", "up", "closed"}]
    /\ m_udpCtxMap \subseteq Ids
    /\ lock \in {"free", "filter"}
    /\ fpc \in {"idle", "create", "send", "direct", "close"}
    /\ fid \in Ids \cup {NoId}
    /\ late \subseteq Ids

(* The handler keeps UDPProxy's contract, and UDPProxy behaves with it as  *)
(* specified: in particular a connection is created at most once for an    *)
(* endpoint, so m_socketMap[id] never overwrites a live PROXY_DATA.        *)
ProxyContract == Spec

(* No datagram is posted to an endpoint after its udpClosed has returned,  *)
(* although the worker may be inside the callback while it is being closed *)
(* and goes on to re-arm its receive.                                      *)
NoReceiveAfterClose == late = {}

(* A closed endpoint leaves no context and no connection behind, and a     *)
(* connection always has a context to deliver its datagrams with.          *)
ClosedLeavesNothing ==
    /\ \A id \in Ids : endpoint[id] = "closed" => ~Has(id) /\ id \notin m_udpCtxMap
    /\ \A id \in Conns : id \in m_udpCtxMap

(* A receive that is re-armed with a SOCKET value remembered from before   *)
(* its endpoint was closed may end up on a socket of another connection    *)
(* and take what is meant for that one.  It is then of an endpoint with    *)
(* neither connection nor context, so that what it takes is lost, but is   *)
(* never posted to another application nor taken for an answer in another  *)
(* dialogue: no connection is created between the deletion of a connection *)
(* in udpClosed and that of its context.                                   *)
StrayIsForgotten ==
    \A o \in Ovs, id \in Conns :
        /\ ov[o].type \in ReceiveTypes /\ io[o].st = "pending"
        /\ io[o].sock \in Sockets(id)
        /\ ov[o].id # id
        => ~Has(ov[o].id) /\ ov[o].id \notin m_udpCtxMap

(* Datagrams of an endpoint that go past the proxy never overtake queued   *)
(* ones: when nf_udpPostSend is called the endpoint has none queued, and   *)
(* none is queued afterwards while the call is under way.                  *)
DirectAfterQueue ==
    fpc = "direct" => m_socketMap[fid].udpSendPackets = <<>>

(* Every call of the filter into the handler returns: neither lock nor     *)
(* m_cs is held for ever, and the two threads do not wait for each other.  *)
CallsReturn == fpc # "idle" ~> fpc = "idle"
=============================================================================
