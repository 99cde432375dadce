------------------------ MODULE EventHandlerProofs ------------------------
(***************************************************************************)
(* The UDP half of EventHandler keeps UDPProxy's contract, so that what is *)
(* proved of UDPProxy holds of the two together, and it cleans up after    *)
(* every endpoint.  Starting and stopping them beside the two threads      *)
(* leaves a worker that has a port its memory, and nothing behind.  For    *)
(* every instance and every fault.                                         *)
(***************************************************************************)
EXTENDS Lifecycle, UDPDialogueProofs

(* What a call of the filter thread that is under way has found out and    *)
(* may rely on, whatever the worker does meanwhile.                        *)
CallInv ==
    /\ fpc = "idle" <=> fid = NoId
    /\ lock = "filter" <=> fpc = "create"
    /\ fpc # "idle" => endpoint[fid] = "up"
    /\ fpc \in {"create", "send"} => Len(fate[fid]) < MaxDgrams
    /\ fpc = "create" => fid \notin m_udpCtxMap
    /\ fpc = "close" => ~Has(fid)

(* An id that a connection was ever created for keeps its context until    *)
(* the endpoint is closed: that is why it is not created again.            *)
ContextInv == \A id \in created : id \in m_udpCtxMap \/ endpoint[id] = "closed"

HandlerInv ==
    /\ ehTypeOK
    /\ CallInv
    /\ ContextInv
    /\ ClosedLeavesNothing
    /\ NoReceiveAfterClose
    /\ DirectAfterQueue

(* The inductive invariant.                                                *)
ehInv == FlowIInv /\ HandlerInv

-----------------------------------------------------------------------------
(* What a step of the worker, the kernel or the proxy may change of what   *)
(* the filter thread relies on: connections go, queues get shorter.        *)
Quiet ==
    /\ created' = created
    /\ \A id \in Ids : /\ Has(id)' => Has(id)
                       /\ Len(fate'[id]) = Len(fate[id])
                       /\ Queue(id) = <<>> => Queue(id)' = <<>>

Beside ==
    \/ \E o \in Ovs : Handle(o) \/ Kernel(o)
    \/ Resume
    \/ workerTimeout

(* No datagram is added by such a step.                                    *)
LEMMA BesideKeepsFates ==
    ASSUME IInv, Beside
    PROVE  created' = created /\ \A id \in Ids : Len(fate'[id]) = Len(fate[id])
  <1>0. fate \in [Ids -> Seq(Fates)]
    BY DEF IInv, TypeOK
  <1>1. CASE UNCHANGED <<fate, created>>
    BY <1>1
  <1>2. ASSUME NEW id \in Ids, Destroy(id) PROVE \A jd \in Ids : Len(fate'[jd]) = Len(fate[jd])
    <2>1. PICK n \in Nat : fate[id] \in [1 .. n -> Fates]
      BY <1>0
    <2>2. fate'[id] = Lost(fate[id]) /\ \A jd \in Ids \ {id} : fate'[jd] = fate[jd]
      BY <1>0, <1>2 DEF Destroy, Lost
    <2>3. fate'[id] \in Seq(Fates) /\ DOMAIN fate'[id] = DOMAIN fate[id]
      BY <1>0, <2>2, FateUpdates DEF Lost
    <2>4. Len(fate'[id]) = Len(fate[id])
      BY <1>0, <2>3
    <2> QED
      BY <2>2, <2>4
  <1>3. ASSUME NEW o \in Ovs, Handle(o)
        PROVE  created' = created /\ \A id \in Ids : Len(fate'[id]) = Len(fate[id])
    <2>1. CASE onConnectFailed(o)
      <3>1. ov[o].id \in Ids
        BY <2>1, Parts DEF onConnectFailed, Dequeued, IInv, OvOwnership
      <3>2. CASE ~Has(ov[o].id)
        BY <1>1, <2>1, <3>2 DEF onConnectFailed, deleteOV_DATA
      <3>3. CASE Has(ov[o].id)
        <4>1. PICK id \in Ids : id = ov[o].id
          BY <3>1
        <4>2. Destroy(id) /\ created' = created
          BY <2>1, <3>3, <4>1 DEF onConnectFailed, Destroy
        <4> QED
          BY <1>2, <4>2
      <3> QED
        BY <3>2, <3>3
    <2>2. CASE ~onConnectFailed(o)
      BY <1>1, <1>3, <2>2 DEF Handle, onConnectComplete, onTcpSendComplete, onUdpSendComplete,
           onTcpReceiveEnd, onTcpReceiveRequest, onTcpReceiveAssociated, onTcpReceiveIgnored,
           onUdpReceiveEnd, onUdpReceiveComplete, deleteOV_DATA
    <2> QED
      BY <2>1, <2>2
  <1>4. CASE drain
    <2>1. PICK id, h, f : /\ fate' = [fate EXCEPT ![id][h] = f]
                          /\ f \in Fates /\ created' = created
      BY <1>4 DEF drain, Fates
    <2> SUFFICES ASSUME NEW jd \in Ids PROVE Len(fate'[jd]) = Len(fate[jd])
      BY <2>1
    <2>2. CASE jd # id
      BY <1>0, <2>1, <2>2
    <2>3. CASE jd = id
      <3>1. fate'[jd] = [fate[jd] EXCEPT ![h] = f]
        BY <1>0, <2>1, <2>3
      <3>2. fate'[jd] \in Seq(Fates) /\ DOMAIN fate'[jd] = DOMAIN fate[jd]
        BY <1>0, <2>1, <3>1, FateUpdates
      <3> QED
        BY <1>0, <3>2
    <2> QED
      BY <2>2, <2>3
  <1>5. CASE drainEnd \/ callback \/ rearm("rearmTcp") \/ rearm("rearmUdp") \/ workerTimeout
    BY <1>1, <1>5 DEF drainEnd, callback, rearm, workerTimeout, vars
  <1>6. ASSUME NEW o \in Ovs, Kernel(o) PROVE UNCHANGED <<fate, created>>
    BY <1>6 DEF Kernel, connected, answered, hungUp, arrived, Env
  <1> QED
    BY <1>1, <1>3, <1>4, <1>5, <1>6 DEF Beside, Resume

(* So it is quiet.                                                         *)
LEMMA BesideQuiet ==
    ASSUME FlowIInv, FlowIInv', Beside
    PROVE  Quiet
  <1>1. created' = created /\ \A id \in Ids : Len(fate'[id]) = Len(fate[id])
    BY BesideKeepsFates DEF FlowIInv
  <1>2. FlowStep
    BY StepKinds DEF FlowIInv, Beside, Next
  <1>3. TypeOK /\ fate \in [Ids -> Seq(Fates)]
    BY DEF FlowIInv, IInv, TypeOK
  <1> SUFFICES ASSUME NEW id \in Ids
               PROVE  (Has(id)' => Has(id)) /\ (Queue(id) = <<>> => Queue(id)' = <<>>)
    BY <1>1 DEF Quiet
  <1>4. CASE SameFlow
    BY <1>4 DEF SameFlow
  <1>5. ASSUME NEW jd \in Ids, OthersSame(jd), id # jd
        PROVE  (Has(id)' <=> Has(id)) /\ Queue(id)' = Queue(id)
    BY <1>5 DEF OthersSame, Has, Queue
  <1>6. ASSUME NEW jd \in Ids, NEW f \in Fates, Sends(jd, f) PROVE FALSE
    <2>1. fate'[jd] = Append(fate[jd], f) /\ fate[jd] \in Seq(Fates)
      BY <1>3, <1>6 DEF Sends
    <2> QED
      BY <1>1, <2>1
  <1>7. ASSUME NEW jd \in Ids, Creates(jd) PROVE FALSE
    BY <1>1, <1>7 DEF Creates
  <1>8. ASSUME NEW jd \in Ids, Destroys(jd) \/ Establishes(jd) \/ \E f \in {"relayed", "lost"} : Drains(jd, f)
        PROVE  (Has(id)' => Has(id)) /\ (Queue(id) = <<>> => Queue(id)' = <<>>)
    <2>1. CASE id = jd
      BY <1>8, <2>1 DEF Destroys, Establishes, Drains
    <2>2. CASE id # jd
      BY <1>5, <1>8, <2>2 DEF Destroys, Establishes, Drains
    <2> QED
      BY <2>1, <2>2
  <1> QED
    BY <1>2, <1>4, <1>6, <1>7, <1>8 DEF FlowStep, EndsDrain

-----------------------------------------------------------------------------
(* A step of the handler is a step of UDPProxy, or leaves it alone.        *)
LEMMA StepIsProxys ==
    ASSUME ehInv, [ehNext]_allVars
    PROVE  [Next]_vars
  <1>1. fpc # "idle" => fid \in Ids
    BY DEF ehInv, HandlerInv, CallInv, ehTypeOK
  <1>2. CASE UNCHANGED vars
    BY <1>2
  <1>3. ASSUME NEW id \in Ids, udpCreated(id) \/ ehUdpSend(id) \/ udpClosed(id) PROVE [Next]_vars
    BY <1>2, <1>3 DEF udpCreated, ehUdpSend, udpClosed, Next, Client
  <1>4. CASE ehCreate
    <2>1. fid \in Ids /\ fid \notin created
      BY <1>1, <1>4 DEF ehCreate, ehInv, HandlerInv, CallInv, ContextInv
    <2>2. \E ok \in BOOLEAN : createProxyConnection(fid, ok)
      BY <1>4 DEF ehCreate
    <2> QED
      BY <2>1, <2>2 DEF Next, Client
  <1>5. CASE ehSend
    <2>1. fid \in Ids /\ Len(fate[fid]) < MaxDgrams
      BY <1>1, <1>5 DEF ehSend, ehInv, HandlerInv, CallInv
    <2>2. \E ok \in BOOLEAN : udpSend(fid, ok)
      BY <1>5 DEF ehSend
    <2> QED
      BY <2>1, <2>2 DEF Next, Client
  <1>6. CASE ehDirect \/ ehForget
    BY <1>2, <1>6 DEF ehDirect, ehForget
  <1>7. CASE Beside
    BY <1>7 DEF Beside, Next
  <1>8. CASE ehResume
    BY <1>7, <1>8 DEF ehResume, ehOnUdpReceiveComplete, Beside, Resume
  <1>9. CASE UNCHANGED allVars
    BY <1>2, <1>9 DEF allVars
  <1> QED
    BY <1>3, <1>4, <1>5, <1>6, <1>7, <1>8, <1>9 DEF ehNext, ehCall, Beside

(* Initially the handler's invariant holds.                                *)
LEMMA InitHandler == ehInit => ehInv
  <1> SUFFICES ASSUME ehInit PROVE ehInv
    OBVIOUS
  <1>1. FlowIInv
    BY InitFlow DEF ehInit
  <1>2. ehTypeOK
    BY <1>1 DEF ehInit, ehTypeOK, FlowIInv, IInv
  <1>3. CallInv
    BY DEF ehInit, CallInv
  <1>4. ContextInv /\ ClosedLeavesNothing /\ NoReceiveAfterClose /\ DirectAfterQueue
    BY DEF ehInit, Init, ContextInv, ClosedLeavesNothing, NoReceiveAfterClose, DirectAfterQueue,
           Conns, Has
  <1> QED
    BY <1>1, <1>2, <1>3, <1>4 DEF ehInv, HandlerInv

(* Where the filter thread stays where it is, the invariant is preserved   *)
(* by whatever is quiet.                                                   *)
LEMMA QuietKeeps ==
    ASSUME ehInv, TypeOK', Quiet, UNCHANGED ehVars
    PROVE  HandlerInv'
  <1> USE DEF ehInv, HandlerInv, ehVars
  <1>0. fpc # "idle" => fid \in Ids
    BY DEF CallInv, ehTypeOK
  <1>1. ehTypeOK'
    BY DEF ehTypeOK
  <1>2. CallInv'
    <2>1. fpc = "close" => ~Has(fid)'
      BY <1>0 DEF CallInv, Quiet
    <2>2. fpc \in {"create", "send"} => Len(fate'[fid]) < MaxDgrams
      BY <1>0 DEF CallInv, Quiet
    <2> QED
      BY <2>1, <2>2 DEF CallInv, Has
  <1>3. ContextInv'
    BY DEF ContextInv, Quiet
  <1>4. ClosedLeavesNothing'
    BY DEF ClosedLeavesNothing, Quiet, Conns
  <1>5. DirectAfterQueue'
    BY <1>0 DEF DirectAfterQueue, Quiet, Queue
  <1>6. NoReceiveAfterClose'
    BY DEF NoReceiveAfterClose
  <1> QED
    BY <1>1, <1>2, <1>3, <1>4, <1>5, <1>6

(* Leaving UDPProxy alone is quiet.                                        *)
LEMMA UntouchedQuiet ==
    ASSUME UNCHANGED vars
    PROVE  Quiet
  BY DEF vars, Quiet, Has, Queue

(* The steps that leave UDPProxy alone: an endpoint appears, a send        *)
(* begins, the datagram is sent directly, the context is erased.           *)
LEMMA FilterKeeps ==
    ASSUME ehInv, UNCHANGED vars,
           \/ \E id \in Ids : udpCreated(id) \/ ehUdpSend(id)
           \/ ehDirect \/ ehForget
    PROVE  HandlerInv'
  <1> USE DEF ehInv, HandlerInv
  <1>0. fpc # "idle" => fid \in Ids
    BY DEF CallInv, ehTypeOK
  <1>1. /\ fate' = fate /\ created' = created /\ m_socketMap' = m_socketMap
        /\ TypeOK' /\ Conns' = Conns /\ \A id \in Ids : Has(id)' <=> Has(id)
    BY DEF vars, ehTypeOK, TypeOK, OverlappedTypeOK, Conns, Has
  <1>2. ehTypeOK'
    BY <1>0, <1>1 DEF ehTypeOK, udpCreated, ehUdpSend, ehDirect, ehForget
  <1>3. CallInv'
    <2>1. ASSUME NEW id \in Ids, udpCreated(id) PROVE CallInv'
      BY <2>1 DEF CallInv, udpCreated
    <2>2. ASSUME NEW id \in Ids, ehUdpSend(id) PROVE CallInv'
      BY <1>1, <2>2, UDPProxyAssumption DEF CallInv, ehUdpSend
    <2>3. CASE ehDirect \/ ehForget
      BY <1>0, <2>3 DEF CallInv, ehDirect, ehForget
    <2> QED
      BY <2>1, <2>2, <2>3
  <1>4. ContextInv'
    BY <1>0, <1>1 DEF ContextInv, ehTypeOK, TypeOK, udpCreated, ehUdpSend, ehDirect, ehForget
  <1>5. ClosedLeavesNothing'
    <2>1. CASE ehForget
      <3>1. fid \in Ids /\ ~Has(fid)
        BY <1>0, <2>1 DEF ehForget, CallInv
      <3> QED
        BY <1>1, <2>1, <3>1 DEF ClosedLeavesNothing, ehForget, ehTypeOK, Conns
    <2>2. CASE ~ehForget
      BY <1>1, <2>2 DEF ClosedLeavesNothing, ehTypeOK, udpCreated, ehUdpSend, ehDirect, Conns
    <2> QED
      BY <2>1, <2>2
  <1>6. NoReceiveAfterClose'
    BY DEF NoReceiveAfterClose, udpCreated, ehUdpSend, ehDirect, ehForget
  <1>7. DirectAfterQueue'
    BY <1>1 DEF DirectAfterQueue, udpCreated, ehUdpSend, ehDirect, ehForget
  <1> QED
    BY <1>2, <1>3, <1>4, <1>5, <1>6, <1>7

(* createProxyConnection under lock, and the new context.                  *)
LEMMA CreateCallKeeps ==
    ASSUME ehInv, FlowIInv', ehCreate
    PROVE  HandlerInv'
  <1> USE DEF ehInv, HandlerInv
  <1>0. /\ TypeOK' /\ TypeOK /\ fid \in Ids /\ fpc = "create" /\ lock' = "free"
        /\ UNCHANGED <<endpoint, late>> /\ endpoint[fid] = "up" /\ Len(fate[fid]) < MaxDgrams
    BY DEF ehCreate, CallInv, ehTypeOK, FlowIInv, IInv
  <1>1. CASE createProxyConnection(fid, FALSE) /\ fpc' = "idle" /\ fid' = NoId /\ UNCHANGED m_udpCtxMap
    <2>1. UNCHANGED <<fate, created, m_socketMap>>
      BY <1>1 DEF createProxyConnection, vars
    <2>2. ehTypeOK' /\ CallInv'
      BY <1>0, <1>1 DEF ehTypeOK, CallInv
    <2>3. ContextInv' /\ ClosedLeavesNothing' /\ NoReceiveAfterClose' /\ DirectAfterQueue'
      BY <1>0, <1>1, <2>1 DEF ContextInv, ClosedLeavesNothing, NoReceiveAfterClose,
                              DirectAfterQueue, Conns, Has
    <2> QED
      BY <2>2, <2>3
  <1>2. CASE /\ createProxyConnection(fid, TRUE)
             /\ m_udpCtxMap' = m_udpCtxMap \cup {fid}
             /\ fpc' = "send" /\ UNCHANGED fid
    <2>1. /\ created' = created \cup {fid} /\ fate' = fate
          /\ \E c : m_socketMap' = [m_socketMap EXCEPT ![fid] = c]
      BY <1>2 DEF createProxyConnection
    <2>2. \A id \in Ids \ {fid} : Has(id)' <=> Has(id)
      BY <1>0, <2>1 DEF Has, TypeOK
    <2>3. ehTypeOK'
      BY <1>0, <1>2 DEF ehTypeOK
    <2>4. CallInv'
      BY <1>0, <1>2, <2>1, UDPProxyAssumption DEF CallInv
    <2>5. ContextInv' /\ NoReceiveAfterClose' /\ DirectAfterQueue'
      BY <1>0, <1>2, <2>1 DEF ContextInv, NoReceiveAfterClose, DirectAfterQueue
    <2>6. ClosedLeavesNothing'
      BY <1>0, <1>2, <2>2 DEF ClosedLeavesNothing, Conns
    <2> QED
      BY <2>3, <2>4, <2>5, <2>6
  <1> QED
    BY <1>1, <1>2 DEF ehCreate

(* UDPProxy::udpSend without lock.                                         *)
LEMMA SendCallKeeps ==
    ASSUME ehInv, FlowIInv', ehSend
    PROVE  HandlerInv'
  <1> USE DEF ehInv, HandlerInv
  <1>0. /\ TypeOK' /\ TypeOK /\ fid \in Ids /\ fpc = "send" /\ lock = "free"
        /\ UNCHANGED <<endpoint, m_udpCtxMap, lock, late>> /\ endpoint[fid] = "up"
    BY DEF ehSend, CallInv, ehTypeOK, FlowIInv, IInv
  <1>1. PICK id \in Ids : id = fid
    BY <1>0
  <1>2. PICK ok \in BOOLEAN : /\ udpSend(id, ok)
                              /\ ok => fpc' = "idle" /\ fid' = NoId
                              /\ ~ok => fpc' = "direct" /\ fid' = fid
    BY <1>1 DEF ehSend
  <1>3. created' = created /\ m_cs = "free"
    BY <1>2 DEF udpSend
  <1>5. /\ \A jd \in Ids : Has(jd)' <=> Has(jd)
        /\ ~ok => Queue(id)' = <<>>
    <2>1. /\ \/ UNCHANGED m_socketMap
             \/ m_socketMap' = [m_socketMap EXCEPT ![id].udpSendPackets = Append(@, Len(fate[id]) + 1)]
             \/ m_socketMap' = [m_socketMap EXCEPT ![id].udpRecvStarted = TRUE]
          /\ UNCHANGED m_socketMap \/ Has(id)
          /\ ~ok => UNCHANGED m_socketMap /\ (~Has(id) \/ Up(id))
      BY <1>2 DEF udpSend, Up
    <2>2. m_socketMap'[id].proxyState = m_socketMap[id].proxyState
      <3> DEFINE c == m_socketMap[id]
      <3>1. \/ m_socketMap'[id] = c
            \/ m_socketMap'[id] = [c EXCEPT !.udpSendPackets = Append(c.udpSendPackets, Len(fate[id]) + 1)]
            \/ m_socketMap'[id] = [c EXCEPT !.udpRecvStarted = TRUE]
        BY <1>0, <2>1 DEF TypeOK
      <3> HIDE DEF c
      <3>2. c \in PROXY_DATA \/ c = NoConn
        BY <1>0 DEF c, TypeOK
      <3> QED
        BY <3>1, <3>2 DEF PROXY_DATA, NoConn, c
    <2>3. Has(id)' <=> Has(id)
      BY <1>0, <2>2, HasState, HasStateNext
    <2>4. \A jd \in Ids \ {id} : m_socketMap'[jd] = m_socketMap[jd]
      BY <1>0, <2>1 DEF TypeOK
    <2>5. \A jd \in Ids : Has(jd)' <=> Has(jd)
      BY <2>3, <2>4 DEF Has
    <2>6. ~ok => Queue(id) = <<>>
      <3>1. Up(id) => Queue(id) = <<>>
        BY <1>3 DEF FlowIInv, QueueInv, FlowInv, Draining, IInv, WorkerInv
      <3> QED
        BY <1>0, <2>1, <3>1, HasState
    <2>7. ~ok => Queue(id)' = <<>>
      BY <2>1, <2>6 DEF Queue
    <2> QED
      BY <2>5, <2>7
  <1>6. ehTypeOK'
    BY <1>0, <1>2 DEF ehTypeOK
  <1>7. CallInv'
    BY <1>0, <1>2, UDPProxyAssumption DEF CallInv
  <1>8. ContextInv' /\ ClosedLeavesNothing' /\ NoReceiveAfterClose'
    BY <1>0, <1>3, <1>5 DEF ContextInv, ClosedLeavesNothing, NoReceiveAfterClose, Conns
  <1>9. DirectAfterQueue'
    BY <1>1, <1>2, <1>5 DEF DirectAfterQueue, Queue
  <1> QED
    BY <1>6, <1>7, <1>8, <1>9

(* UDPProxy::deleteProxyConnection, without lock.                          *)
LEMMA CloseCallKeeps ==
    ASSUME ehInv, FlowIInv', NEW id \in Ids, udpClosed(id)
    PROVE  HandlerInv'
  <1> USE DEF ehInv, HandlerInv
  <1>0. /\ TypeOK' /\ TypeOK /\ fpc = "idle" /\ endpoint[id] = "up" /\ fpc' = "close" /\ fid' = id
        /\ UNCHANGED <<endpoint, m_udpCtxMap, lock, late>>
    BY DEF udpClosed, ehTypeOK, FlowIInv, IInv
  <1>1. /\ created' = created /\ ~Has(id)' /\ \A jd \in Ids : Has(jd)' => Has(jd)
    <2>1. CASE Has(id) /\ Destroy(id) /\ UNCHANGED created
      <3>1. m_socketMap'[id] = NoConn /\ \A jd \in Ids \ {id} : m_socketMap'[jd] = m_socketMap[jd]
        BY <1>0, <2>1 DEF Destroy, TypeOK
      <3> QED
        BY <2>1, <3>1 DEF Has
    <2>2. CASE ~Has(id) /\ UNCHANGED vars
      BY <2>2 DEF vars, Has
    <2> QED
      BY <2>1, <2>2 DEF udpClosed, deleteProxyConnection
  <1>2. ehTypeOK'
    BY <1>0 DEF ehTypeOK
  <1>3. CallInv'
    <2>1. lock = "free"
      BY <1>0 DEF CallInv, ehTypeOK
    <2>2. id # NoId
      BY UDPProxyAssumption
    <2>3. ~Has(fid)'
      BY <1>0, <1>1 DEF Has
    <2> QED
      BY <1>0, <2>1, <2>2, <2>3 DEF CallInv
  <1>4. ContextInv' /\ ClosedLeavesNothing' /\ NoReceiveAfterClose' /\ DirectAfterQueue'
    BY <1>0, <1>1 DEF ContextInv, ClosedLeavesNothing, NoReceiveAfterClose, DirectAfterQueue, Conns
  <1> QED
    BY <1>2, <1>3, <1>4

(* The worker in onUdpReceiveComplete: a closed endpoint has no context.   *)
LEMMA ReceiveKeeps ==
    ASSUME ehInv, FlowIInv', ehOnUdpReceiveComplete
    PROVE  HandlerInv'
  <1>1. Quiet /\ TypeOK'
    <2>1. callback
      BY DEF ehOnUdpReceiveComplete
    <2>2. UNCHANGED <<m_socketMap, fate, created>>
      BY <2>1 DEF callback
    <2> QED
      BY <2>2 DEF Quiet, Has, Queue, FlowIInv, IInv
  <1>2. late' = late
    <2> DEFINE id == ov[cur.ov].id
    <2>1. late' = IF id \in m_udpCtxMap /\ endpoint[id] = "closed" THEN late \cup {id} ELSE late
      BY DEF ehOnUdpReceiveComplete
    <2> HIDE DEF id
    <2>2. id \in m_udpCtxMap => id \in Ids
      BY DEF ehInv, HandlerInv, ehTypeOK
    <2>3. ~(id \in m_udpCtxMap /\ endpoint[id] = "closed")
      BY <2>2 DEF ehInv, HandlerInv, ClosedLeavesNothing
    <2> QED
      BY <2>1, <2>3
  <1>3. UNCHANGED ehVars
    BY <1>2 DEF ehOnUdpReceiveComplete, ehVars
  <1> QED
    BY <1>1, <1>3, QuietKeeps

(* Every step of the composition preserves the invariant.                  *)
LEMMA NextHandler == ehInv /\ [ehNext]_allVars => ehInv'
  <1> SUFFICES ASSUME ehInv, [ehNext]_allVars PROVE ehInv'
    OBVIOUS
  <1>0. FlowIInv' /\ TypeOK'
    BY StepIsProxys, NextFlow DEF ehInv, FlowIInv, IInv
  <1>1. CASE Beside /\ UNCHANGED ehVars
    BY <1>0, <1>1, BesideQuiet, QuietKeeps DEF ehInv
  <1>2. CASE UNCHANGED allVars
    BY <1>0, <1>2, UntouchedQuiet, QuietKeeps DEF ehInv, allVars
  <1>3. ASSUME NEW id \in Ids, udpCreated(id) \/ ehUdpSend(id) PROVE ehInv'
    BY <1>0, <1>3, FilterKeeps DEF ehInv, udpCreated, ehUdpSend
  <1>4. CASE ehDirect \/ ehForget
    BY <1>0, <1>4, FilterKeeps DEF ehInv, ehDirect, ehForget
  <1>5. CASE ehCreate
    BY <1>0, <1>5, CreateCallKeeps DEF ehInv
  <1>6. CASE ehSend
    BY <1>0, <1>6, SendCallKeeps DEF ehInv
  <1>7. ASSUME NEW id \in Ids, udpClosed(id) PROVE ehInv'
    BY <1>0, <1>7, CloseCallKeeps DEF ehInv
  <1>8. CASE ehOnUdpReceiveComplete
    BY <1>0, <1>8, ReceiveKeeps DEF ehInv
  <1>9. CASE ehResume
    BY <1>1, <1>8, <1>9 DEF ehResume, Resume, Beside
  <1> QED
    BY <1>1, <1>2, <1>3, <1>4, <1>5, <1>6, <1>7, <1>9 DEF ehNext, ehCall, Beside

(* So it always holds.                                                     *)
LEMMA HandlerInvariance == ehSpec => []ehInv
  BY InitHandler, NextHandler, PTL DEF ehSpec

-----------------------------------------------------------------------------
(* The variables of the handler and of UDPProxy always have their types.   *)
THEOREM HandlerTypeCorrect == ehSpec => []ehTypeOK
  <1>1. ehInv => ehTypeOK
    BY DEF ehInv, HandlerInv
  <1> QED
    BY <1>1, HandlerInvariance, PTL

(* udpClosed leaves neither a context nor a connection behind, whatever    *)
(* the worker was doing, and every connection has a context.               *)
THEOREM ClosedSafe == ehSpec => []ClosedLeavesNothing
  <1>1. ehInv => ClosedLeavesNothing
    BY DEF ehInv, HandlerInv
  <1> QED
    BY <1>1, HandlerInvariance, PTL

(* onUdpReceiveComplete never posts to an endpoint whose udpClosed has     *)
(* returned.                                                               *)
THEOREM NoLateReceive == ehSpec => []NoReceiveAfterClose
  <1>1. ehInv => NoReceiveAfterClose
    BY DEF ehInv, HandlerInv
  <1> QED
    BY <1>1, HandlerInvariance, PTL

(* A datagram that udpSend of the handler sends past the proxy leaves none *)
(* of its endpoint behind in the queue.                                    *)
THEOREM DirectSafe == ehSpec => []DirectAfterQueue
  <1>1. ehInv => DirectAfterQueue
    BY DEF ehInv, HandlerInv
  <1> QED
    BY <1>1, HandlerInvariance, PTL

(* The handler calls UDPProxy only as Client of UDPProxy allows: together  *)
(* they implement UDPProxy's specification.                                *)
THEOREM ContractKept == ehSpec => ProxyContract
  <1>1. ehInit => Init
    BY DEF ehInit
  <1>2. ehInv /\ [ehNext]_allVars => [Next]_vars
    BY StepIsProxys
  <1> QED
    BY <1>1, <1>2, HandlerInvariance, PTL DEF ehSpec, ProxyContract, Spec

(* So everything proved of UDPProxy holds of it under the handler; first   *)
(* of all that the calls of the two threads together lose no datagram and  *)
(* let none overtake another.                                              *)
THEOREM HandlerFlow == ehSpec => FlowContract /\ []QueueKeepsAll /\ []NoOvertaking
  BY ContractKept, FlowImplemented, QueueSafe, OrderSafe, PTL DEF ProxyContract

-----------------------------------------------------------------------------
(* A receive of a connection that is gone, but whose context is still      *)
(* there, is on a socket that is closed, and stays so: the filter thread   *)
(* is inside udpClosed, and nobody else creates connections.               *)
StrayInv ==
    \A o \in Ovs :
        Live(o) /\ ov[o].id \in m_udpCtxMap /\ ~Has(ov[o].id) =>
          fpc = "close" /\ fid = ov[o].id /\ SockOf(o) \notin open

(* A receive for no connection was there before the step.                  *)
LEMMA LiveBefore ==
    ASSUME TypeOK, TypeOK', ReceiveStep, NEW o \in Ovs, Live(o)',
           NEW id \in Ids, ov'[o].id = id, ~Has(id)'
    PROVE  Live(o) /\ ov'[o] = ov[o] /\ SockOf(o)' = SockOf(o)
  <1>1. CASE OvKept(o)
    BY <1>1, KeptLive
  <1>2. ASSUME NEW jd \in Ids, Begins(o, jd) PROVE FALSE
    BY <1>2 DEF Begins, Live
  <1>3. ASSUME NEW jd \in Ids, Starts(o, jd), ov'[o] \in {TcpReceive(jd), UdpReceive(jd)}
        PROVE  FALSE
    <2>1. jd = id /\ Has(jd) /\ SocketsKept(jd)
      BY <1>3, Labels DEF Starts, Conns
    <2>2. m_socketMap'[jd].tcpSocket \in Handles
      BY <2>1, HasSocket DEF SocketsKept
    <2>3. m_socketMap'[id] = NoConn
      BY DEF Has
    <2> QED
      BY <2>1, <2>2, <2>3, OverlappedAssumption DEF NoConn
  <1>4. \/ OvKept(o)
        \/ \E jd \in Ids : Begins(o, jd)
        \/ \E jd \in Ids : Starts(o, jd) /\ ov'[o] \in {TcpReceive(jd), UdpReceive(jd)}
    BY DEF ReceiveStep, Calm, Begins, StartsTcp, StartsUdp, Starts
  <1> QED
    BY <1>1, <1>2, <1>3, <1>4

(* A step that leaves the sockets as they are deletes no connection.       *)
LEMMA OpenSpares ==
    ASSUME FlowIInv, FlowIInv', [Next]_vars, open' = open, NEW id \in Ids, Has(id)
    PROVE  Has(id)'
  <1>0. SocketsOwned /\ SocketsOwned'
    BY DEF FlowIInv, SocketsInv
  <1> SUFFICES ASSUME ~Has(id)' PROVE FALSE
    OBVIOUS
  <1>1. FlowStep
    BY StepKinds DEF FlowIInv
  <1>2. \A jd \in Ids : jd # id /\ OthersSame(jd) => (Has(id)' <=> Has(id))
    BY DEF OthersSame, Has
  <1>3. Destroys(id)
    BY <1>1, <1>2 DEF FlowStep, SameFlow, EndsDrain, Creates, Destroys, Sends, Establishes, Drains
  <1>4. \A jd \in Ids \ {id} : m_socketMap'[jd] = m_socketMap[jd]
    BY <1>3 DEF Destroys, OthersSame
  <1>5. PICK h : h \in Sockets(id)
    BY DEF Sockets
  <1>6. h \in open'
    BY <1>0, <1>5 DEF SocketsOwned, Conns
  <1>7. PICK jd \in Ids : Has(jd)' /\ h \in Sockets(jd)'
    BY <1>0, <1>6 DEF SocketsOwned, Conns
  <1>8. jd # id
    BY <1>7 DEF Has
  <1>9. Has(jd) /\ h \in Sockets(jd)
    BY <1>4, <1>7, <1>8 DEF Has, Sockets
  <1> QED
    BY <1>0, <1>5, <1>8, <1>9 DEF SocketsOwned, Conns

(* The worker and the kernel open no socket, and delete no connection that *)
(* a receive is under way for: a failed connect was the only operation.    *)
LEMMA BesideSpares ==
    ASSUME FlowIInv, FlowIInv', ReceiveInv, Beside
    PROVE  /\ open' \subseteq open
           /\ \A o \in Ovs, id \in Ids : Live(o) /\ ov[o].id = id /\ Has(id) => Has(id)'
  <1>0. TypeOK /\ [Next]_vars
    BY DEF FlowIInv, IInv, Beside, Next
  <1>1. CASE open' = open
    BY <1>0, <1>1, OpenSpares
  <1>2. ASSUME NEW p \in Ovs, onConnectFailed(p), Has(ov[p].id)
        PROVE  /\ open' \subseteq open
               /\ \A o \in Ovs, id \in Ids : Live(o) /\ ov[o].id = id /\ Has(id) => Has(id)'
    <2>1. PICK jd \in Ids : jd = ov[p].id
      BY <1>0, <1>2, Labels DEF onConnectFailed, Dequeued, Connects
    <2>2. Connects(p) /\ Destroy(jd)
      BY <1>2, <2>1 DEF onConnectFailed, Dequeued, Connects, Destroy
    <2>3. \A o \in Ovs : Live(o) => ov[o].id # jd /\ ov[o].id \in Ids
      BY <1>0, <2>1, <2>2, Labels DEF ReceiveInv, OnePerKind
    <2>4. \A id \in Ids \ {jd} : m_socketMap'[id] = m_socketMap[id]
      BY <1>0, <2>2 DEF Destroy, TypeOK
    <2>5. \A id \in Ids \ {jd} : Has(id) => Has(id)'
      BY <2>4 DEF Has
    <2> QED
      BY <2>2, <2>3, <2>5 DEF Destroy
  <1>3. ASSUME NEW p \in Ovs, Handle(p), ~(onConnectFailed(p) /\ Has(ov[p].id)) PROVE open' = open
    BY <1>3 DEF Handle, onConnectFailed, onConnectComplete, onTcpSendComplete, onUdpSendComplete,
         onTcpReceiveEnd, onTcpReceiveRequest, onTcpReceiveAssociated, onTcpReceiveIgnored,
         onUdpReceiveEnd, onUdpReceiveComplete, deleteOV_DATA
  <1>4. ASSUME NEW p \in Ovs, Kernel(p) PROVE open' = open
    BY <1>4 DEF Kernel, connected, answered, hungUp, arrived, Env
  <1>5. ASSUME Resume \/ workerTimeout PROVE open' = open
    BY <1>5 DEF Resume, drain, drainEnd, callback, rearm, workerTimeout, vars
  <1> QED
    BY <1>1, <1>2, <1>3, <1>4, <1>5 DEF Beside

(* Every step preserves it.                                                *)
LEMMA NextStray ==
    ASSUME ehInv, FlowIInv', ReceiveInv, ReceiveStep, StrayInv, [ehNext]_allVars
    PROVE  StrayInv'
  <1>0. /\ TypeOK /\ TypeOK' /\ FlowIInv /\ SocketsInv /\ CallInv
        /\ fpc # "idle" => fid \in Ids
    BY DEF ehInv, FlowIInv, IInv, HandlerInv, ehTypeOK, CallInv
  <1> SUFFICES ASSUME NEW o \in Ovs, NEW id \in Ids, Live(o)', ov'[o].id = id,
                      id \in m_udpCtxMap', ~Has(id)'
               PROVE  fpc' = "close" /\ fid' = id /\ SockOf(o)' \notin open'
    <2>1. \A o \in Ovs : Live(o)' => ov'[o].id \in Ids
      BY <1>0 DEF TypeOK, Live, OV_DATA, FreeOv
    <2> QED
      BY <2>1 DEF StrayInv
  <1>1. Live(o) /\ ov'[o] = ov[o] /\ SockOf(o)' = SockOf(o) /\ ov[o].id = id
    BY <1>0, LiveBefore
  <1>2. id \in m_udpCtxMap /\ ~Has(id) => fpc = "close" /\ fid = id /\ SockOf(o) \notin open
    BY <1>1 DEF StrayInv
  <1>3. CASE Beside /\ UNCHANGED <<m_udpCtxMap, fpc, fid>>
    <2>1. open' \subseteq open /\ (Has(id) => Has(id)')
      BY <1>0, <1>1, <1>3, BesideSpares
    <2> QED
      BY <1>1, <1>2, <1>3, <2>1
  <1>4. CASE ehForget
    <2>1. fid = id
      BY <1>2, <1>4 DEF ehForget, vars, Has
    <2> QED
      BY <1>4, <2>1 DEF ehForget
  <1>5. CASE UNCHANGED vars /\ UNCHANGED m_udpCtxMap /\ fpc # "close"
    BY <1>2, <1>5 DEF vars, Has
  <1>6. CASE UNCHANGED allVars
    BY <1>1, <1>2, <1>6 DEF allVars, ehVars, vars, Has
  <1>7. CASE ehCreate
    <2>1. fpc = "create" /\ fid \in Ids
      BY <1>0, <1>7 DEF ehCreate
    <2>2. CASE createProxyConnection(fid, FALSE) /\ UNCHANGED m_udpCtxMap
      BY <1>2, <2>1, <2>2 DEF createProxyConnection, vars, Has
    <2>3. CASE createProxyConnection(fid, TRUE) /\ m_udpCtxMap' = m_udpCtxMap \cup {fid}
      <3>1. PICK c : m_socketMap' = [m_socketMap EXCEPT ![fid] = c] /\ c # NoConn
        <4>1. PICK t \in Handles, u \in Handles :
                m_socketMap' = [m_socketMap EXCEPT ![fid] = NewConn(t, u)]
          BY <2>3 DEF createProxyConnection, NewHandles
        <4>2. NewConn(t, u).proxyState # NoConn.proxyState
          BY DEF NewConn, NoConn
        <4> QED
          BY <4>1, <4>2
      <3>2. id # fid /\ (Has(id)' <=> Has(id))
        BY <1>0, <2>1, <3>1 DEF Has, TypeOK
      <3> QED
        BY <1>2, <2>1, <2>3, <3>2
    <2> QED
      BY <1>7, <2>2, <2>3 DEF ehCreate
  <1>8. CASE ehSend
    <2>1. fpc = "send" /\ UNCHANGED m_udpCtxMap /\ \E ok \in BOOLEAN : udpSend(fid, ok)
      BY <1>8 DEF ehSend
    <2>2. Has(id) => Has(id)'
      BY <1>0, <2>1, StepIsProxys, OpenSpares DEF udpSend
    <2> QED
      BY <1>2, <2>1, <2>2
  <1>9. ASSUME NEW jd \in Ids, udpClosed(jd) PROVE fpc' = "close" /\ fid' = id /\ SockOf(o)' \notin open'
    <2>1. fpc = "idle" /\ UNCHANGED m_udpCtxMap /\ fpc' = "close" /\ fid' = jd
      BY <1>9 DEF udpClosed
    <2>2. Has(id)
      BY <1>2, <2>1
    <2>3. Has(jd) /\ Destroy(jd)
      BY <1>9, <2>2 DEF udpClosed, deleteProxyConnection, vars, Has
    <2>4. id = jd
      BY <1>0, <2>2, <2>3 DEF Destroy, Has, TypeOK
    <2>5. ov[o] \in {TcpReceive(id), UdpReceive(id)} /\ id \in Conns
      BY <1>0, <1>1, <2>2, Labels DEF Conns, Live
    <2>6. SockOf(o) \in Sockets(id)
      BY <1>1, <2>5 DEF ReceiveInv, OnOwnSocket, Sockets
    <2> QED
      BY <1>1, <2>1, <2>3, <2>4, <2>6 DEF Destroy
  <1>10. ASSUME NEW jd \in Ids, udpCreated(jd) \/ ehUdpSend(jd)
         PROVE  fpc' = "close" /\ fid' = id /\ SockOf(o)' \notin open'
    BY <1>5, <1>10 DEF udpCreated, ehUdpSend
  <1>11. CASE ehDirect
    BY <1>5, <1>11 DEF ehDirect
  <1>12. CASE ehResume
    BY <1>3, <1>12 DEF ehResume, ehOnUdpReceiveComplete, ehVars, Resume, Beside
  <1> QED
    BY <1>3, <1>4, <1>6, <1>7, <1>8, <1>9, <1>10, <1>11, <1>12
       DEF ehNext, ehCall, Beside, ehVars

(* A receive that is pending on a socket of another connection was re-     *)
(* armed after its own connection had gone, with a SOCKET value that has   *)
(* been given out again; by then udpClosed has erased the context as well. *)
LEMMA StrayImplies ==
    ASSUME ehInv, ReceiveInv, StrayInv
    PROVE  StrayIsForgotten
  <1> SUFFICES ASSUME NEW o \in Ovs, NEW id \in Conns, io[o].st = "pending",
                      ov[o].type \in ReceiveTypes, io[o].sock \in Sockets(id), ov[o].id # id
               PROVE  ~Has(ov[o].id) /\ ov[o].id \notin m_udpCtxMap
    BY DEF StrayIsForgotten
  <1>1. FlowIInv /\ OvOwnership /\ SocketsOwned
    BY DEF ehInv, FlowIInv, IInv, SocketsInv
  <1>2. Live(o) /\ SockOf(o) = io[o].sock
    BY <1>1 DEF ReceiveInv, NoResultYet, Live, OvOwnership, SockOf, ReceiveTypes
  <1>3. ~Has(ov[o].id)
    BY <1>1, <1>2, StrayIsGone
  <1>4. SockOf(o) \in open
    BY <1>1, <1>2 DEF SocketsOwned
  <1> QED
    BY <1>2, <1>3, <1>4 DEF StrayInv

(* Whatever SOCKET values are given out again and however late the worker  *)
(* re-arms a receive of an endpoint that is being closed: a receive on a   *)
(* socket of another connection belongs to an endpoint that has neither    *)
(* connection nor context any more, and what it takes goes to nobody.      *)
THEOREM StraySafe == ehSpec => []StrayIsForgotten
  <1> DEFINE Inv == ehInv /\ ReceiveInv /\ StrayInv
  <1>1. ehInit => Inv
    <2> SUFFICES ASSUME ehInit PROVE Inv
      OBVIOUS
    <2>1. ehInv /\ ReceiveInv
      BY InitHandler, InitReceives DEF ehInit
    <2>2. m_udpCtxMap = {}
      BY DEF ehInit
    <2> QED
      BY <2>1, <2>2 DEF StrayInv
  <1>2. Inv /\ [ehNext]_allVars => Inv'
    <2> SUFFICES ASSUME ehInv, ReceiveInv, StrayInv, [ehNext]_allVars PROVE Inv'
      OBVIOUS
    <2>1. ehInv'
      BY NextHandler
    <2>2. FlowIInv' /\ ReceiveInv' /\ ReceiveStep
      BY StepIsProxys, NextReceives DEF ehInv
    <2>3. StrayInv'
      BY <2>2, NextStray
    <2> QED
      BY <2>1, <2>2, <2>3
  <1>3. Inv => StrayIsForgotten
    BY StrayImplies
  <1> QED
    BY <1>1, <1>2, <1>3, PTL DEF ehSpec

-----------------------------------------------------------------------------
(* Starting and stopping.  What is pending is pending on an open socket.   *)
PendingOpen == \A o \in Ovs : io[o].st = "pending" => io[o].sock \in open

(* What remains of UDPProxy's invariant beside free: an OV_DATA may have   *)
(* lost its owner, for free forgets what is in the port, and the ones of   *)
(* `deleted' may be gone although their operations are not.                *)
ProxyInv(deleted) == InvBut(Ovs, deleted) /\ SocketsOwned /\ PendingOpen

(* Only without a worker thread is anything gone that something refers to. *)
MemoryInv == /\ m_workerThread = "none" => ProxyInv(Ovs)
             /\ m_workerThread # "none" => ProxyInv({})

(* Where the filter thread is, and that a connection has a context as soon *)
(* as it is complete.                                                      *)
FilterInv ==
    /\ fpc = "idle" \/ fid \in Ids
    /\ fpc = "idle" <=> fid = NoId
    /\ lock \in {"free", "filter"}
    /\ lock = "filter" <=> fpc \in {"create", "register", "connect"}
    /\ fpc \in {"create", "close"} => ~Has(fid)
    /\ \A id \in Conns : id \in m_udpCtxMap \/ (id = fid /\ fpc \in {"register", "connect"})

(* A port, or what is taken for one, has a worker, and a worker that ended *)
(* is in no handler.                                                       *)
PortInv ==
    /\ m_hIOCP = "INVALID" <=> m_workerThread = "none"
    /\ m_workerThread # "running" => pc = "wait"
    /\ qpc \in {"delete ovs", "delete connections", "clear contexts",
                "nf_free", "nf_free waits", "stopped"} => m_workerThread = "none"

(* Once free has deleted the connections, one that the filter thread still *)
(* creates gets no further than registerSocket.                            *)
CleanInv ==
    /\ qpc \in {"clear contexts", "nf_free", "nf_free waits", "stopped"} =>
         \A id \in Conns : id = fid /\ fpc = "register"
    /\ qpc \in {"nf_free", "nf_free waits", "stopped"} => m_udpCtxMap = {}
    /\ qpc \in {"nf_free waits", "stopped"} => ~filtering
    /\ qpc = "stopped" => fpc = "idle"

LifeInv == MemoryInv /\ FilterInv /\ PortInv /\ CleanInv

(* The inductive invariant.  When a worker thread could not be started     *)
(* only this is left: there never is one again.  And only a worker without *)
(* a port crashes.                                                         *)
lcInv ==
    /\ threadless \in BOOLEAN
    /\ crashed => m_hIOCP = "NULL"
    /\ threadless => m_workerThread = "none" /\ m_hIOCP # "INVALID"
    /\ ~threadless => LifeInv

-----------------------------------------------------------------------------
(* An operation that is started becomes pending on an open socket only.    *)
LEMMA StartedOpen ==
    ASSUME NEW h, NEW out \in Outcomes(h)
    PROVE  /\ Started(out, h).st = "pending" => Started(out, h).sock \in open
           /\ SendStarted(out, h).st # "pending"
  BY DEF Outcomes, FailOutcomes, Started, SendStarted, Pending, Queued, Idle

(* Neither is one that has completed, or that there is none of.            *)
LEMMA NotPending == /\ Idle.st # "pending"
                    /\ \A h, r : Queued(h, r).st # "pending"
  BY DEF Idle, Queued

(* Closing sockets leaves nothing pending on them.                         *)
LEMMA AbortedOpen ==
    ASSUME PendingOpen, NEW hs, open' = open \ hs,
           \A o \in Ovs : io'[o] = Aborted(hs)[o] \/ io'[o].st # "pending"
    PROVE  PendingOpen'
  <1> SUFFICES ASSUME NEW o \in Ovs, Aborted(hs)[o].st = "pending"
               PROVE  Aborted(hs)[o].sock \in open \ hs
    BY DEF PendingOpen
  <1> QED
    BY NotPending DEF Aborted, PendingOpen

(* Where an OVERLAPPED changes only to what is not pending, or pending on  *)
(* an open socket, the property is kept.                                   *)
LEMMA PendingKept ==
    ASSUME PendingOpen, open \subseteq open',
           \A o \in Ovs : \/ io'[o] = io[o]
                          \/ io'[o].st = "pending" => io'[o].sock \in open
    PROVE  PendingOpen'
  BY DEF PendingOpen

(* It is by a WSASendTo, of udpSend or of the loop over the queue.         *)
LEMMA SendPending ==
    ASSUME TypeOK, PendingOpen, NEW id \in Ids, UNCHANGED open,
           SendStarts(id) \/ SendFails(id)
    PROVE  PendingOpen'
  <1> DEFINE u == m_socketMap[id].udpSocket
  <1>0. io \in [Ovs -> IoState]
    BY DEF TypeOK, OverlappedTypeOK
  <1>1. CASE SendFails(id)
    <2>1. PICK o \in Ovs, out \in SendToOutcomes(id) \ {"pending"} :
            io' = [io EXCEPT ![o] = Started(out, u)]
      BY <1>1 DEF SendFails
    <2>2. Started(out, u).st # "pending"
      BY SendToOutcomesType DEF Started, Queued, Idle
    <2> QED
      BY <1>0, <2>1, <2>2, PendingKept
  <1>2. CASE SendStarts(id) /\ m_socketMap[id].udpRecvStarted
    BY <1>0, <1>2, NotPending, PendingKept DEF SendStarts
  <1>3. CASE SendStarts(id) /\ ~m_socketMap[id].udpRecvStarted
    <2>1. PICK o \in Ovs, p \in Ovs, out \in Outcomes(u) :
            io' = [io EXCEPT ![o] = Queued(u, "ok"), ![p] = Started(out, u)]
      BY <1>3 DEF SendStarts
    <2>2. Started(out, u).st = "pending" => Started(out, u).sock \in open
      BY StartedOpen
    <2> QED
      BY <1>0, <2>1, <2>2, NotPending, PendingKept
  <1> QED
    BY <1>1, <1>2, <1>3

(* It is by the handlers of the worker.                                    *)
LEMMA HandlePending ==
    ASSUME TypeOK, PendingOpen, NEW o \in Ovs, Handle(o)
    PROVE  PendingOpen'
  <1>0. io \in [Ovs -> IoState]
    BY DEF TypeOK, OverlappedTypeOK
  <1>1. ASSUME UNCHANGED open, io' = [io EXCEPT ![o] = Idle] PROVE PendingOpen'
    BY <1>0, <1>1, NotPending, PendingKept
  <1>2. CASE deleteOV_DATA(o)
    BY <1>1, <1>2 DEF deleteOV_DATA
  <1>3. CASE onConnectFailed(o)
    <2> DEFINE id == ov[o].id
    <2>1. CASE io' = [Aborted(Sockets(id)) EXCEPT ![o] = Idle] /\ open' = open \ Sockets(id)
      <3>1. \A p \in Ovs : io'[p] = IF p = o THEN Idle ELSE Aborted(Sockets(id))[p]
        BY <2>1 DEF Aborted
      <3> QED
        BY <2>1, <3>1, NotPending, AbortedOpen
    <2> QED
      BY <1>2, <1>3, <2>1 DEF onConnectFailed, Destroy
  <1>4. CASE onConnectComplete(o) /\ ~deleteOV_DATA(o)
    <2> DEFINE t == m_socketMap[ov[o].id].tcpSocket
    <2>1. PICK p \in Ovs, q \in Ovs, out \in Outcomes(t), rout \in Outcomes(t) :
            /\ io' = [io EXCEPT ![p] = SendStarted(out, t), ![q] = Started(rout, t), ![o] = Idle]
            /\ open' = open
      BY <1>4, ZenonT(60) DEF onConnectComplete
    <2>2. /\ SendStarted(out, t).st # "pending"
          /\ Started(rout, t).st = "pending" => Started(rout, t).sock \in open
      BY StartedOpen
    <2> QED
      BY <1>0, <2>1, <2>2, NotPending, PendingKept
  <1>5. CASE onTcpReceiveRequest(o)
    <2> DEFINE t == m_socketMap[ov[o].id].tcpSocket
    <2>1. PICK p \in Ovs, out \in Outcomes(t) :
            /\ io' = [io EXCEPT ![p] = SendStarted(out, t), ![o] = Idle]
            /\ open' = open
      BY <1>5 DEF onTcpReceiveRequest
    <2>2. SendStarted(out, t).st # "pending"
      BY StartedOpen
    <2> QED
      BY <1>0, <2>1, <2>2, NotPending, PendingKept
  <1>6. CASE onTcpReceiveAssociated(o) \/ onTcpReceiveIgnored(o) \/ onUdpReceiveComplete(o)
    BY <1>1, <1>6 DEF onTcpReceiveAssociated, onTcpReceiveIgnored, onUdpReceiveComplete
  <1> QED
    BY <1>2, <1>3, <1>4, <1>5, <1>6
    DEF Handle, onTcpSendComplete, onUdpSendComplete, onTcpReceiveEnd, onUdpReceiveEnd

(* It is by the rest of their work.                                        *)
LEMMA ResumePending ==
    ASSUME NEW L, InvBut(L, {}), PendingOpen, Resume
    PROVE  PendingOpen'
  <1>0. TypeOK /\ io \in [Ovs -> IoState]
    BY DEF InvBut, TypeOK, OverlappedTypeOK
  <1>1. CASE drain
    <2>1. ov[cur.ov].id \in Ids
      BY <1>0, <1>1, Parts DEF drain, InvBut, WorkerInv, Owned
    <2>2. PICK id \in Ids : id = ov[cur.ov].id
      BY <2>1
    <2> QED
      BY <1>0, <1>1, <2>2, SendPending DEF drain
  <1>2. CASE drainEnd \/ callback
    BY <1>2 DEF drainEnd, callback, PendingOpen
  <1>3. ASSUME NEW at, rearm(at) PROVE PendingOpen'
    <2>1. PICK out \in RearmOutcomes :
            io' = [io EXCEPT ![cur.ov] = Started(out, cur.sock)] /\ open' = open
      BY <1>3 DEF rearm
    <2>2. Started(out, cur.sock).st = "pending" => Started(out, cur.sock).sock \in open
      <3>1. out \in FailOutcomes => Started(out, cur.sock).st # "pending"
        BY DEF FailOutcomes, Started, Queued, Idle
      <3> QED
        BY <3>1, StartedOpen DEF RearmOutcomes
    <2> QED
      BY <1>0, <2>1, <2>2, PendingKept
  <1> QED
    BY <1>1, <1>2, <1>3 DEF Resume

-----------------------------------------------------------------------------
(* One step of each thread, and what is left of UDPProxy's invariant.      *)

(* What holds with nothing deleted holds with anything deleted.            *)
LEMMA DeletedMore == /\ ProxyInv({}) => ProxyInv(Ovs)
                     /\ ProxyInv({})' => ProxyInv(Ovs)'
  BY DEF ProxyInv, InvBut, Owned

(* A step that keeps the worker thread, and either case, keeps both.       *)
LEMMA MemoryKept ==
    ASSUME MemoryInv, UNCHANGED m_workerThread,
           ProxyInv(Ovs) => ProxyInv(Ovs)', ProxyInv({}) => ProxyInv({})'
    PROVE  MemoryInv'
  BY DEF MemoryInv

(* A step that leaves UDPProxy alone keeps its invariant.                  *)
LEMMA SameProxy ==
    ASSUME NEW D, ProxyInv(D), UNCHANGED vars
    PROVE  ProxyInv(D)' /\ Conns' = Conns /\ \A id \in Ids : Has(id)' <=> Has(id)
  <1>1. InvBut(Ovs, D)'
    BY DEF ProxyInv, vars, InvBut, TypeOK, OverlappedTypeOK, Owned, WorkerInv, Has
  <1>2. SocketsOwned'
    BY DEF ProxyInv, vars, SocketsOwned, Conns, Has, Sockets
  <1>3. PendingOpen'
    BY DEF ProxyInv, vars, PendingOpen
  <1> QED
    BY <1>1, <1>2, <1>3 DEF ProxyInv, Conns, Has, vars

(* A handler of the worker keeps it.                                       *)
LEMMA HandleProxy ==
    ASSUME ProxyInv({}), NEW o \in Ovs, Handle(o)
    PROVE  ProxyInv({})' /\ Conns' \subseteq Conns
  <1>0. TypeOK /\ InvBut(Ovs, {}) /\ SocketsOwned /\ PendingOpen
    BY DEF ProxyInv, InvBut
  <1>1. InvBut(Ovs, {})'
    BY <1>0, HandleKeeps
  <1>2. SocketsRemain
    BY <1>0, <1>1, HandleKeepsSockets DEF InvBut
  <1>3. PendingOpen'
    BY <1>0, HandlePending
  <1> QED
    BY <1>1, <1>2, <1>3 DEF ProxyInv, SocketsRemain

(* So does the rest of its work.                                           *)
LEMMA ResumeProxy ==
    ASSUME ProxyInv({}), Resume
    PROVE  ProxyInv({})' /\ Conns' \subseteq Conns
  <1>0. TypeOK /\ InvBut(Ovs, {}) /\ SocketsOwned /\ PendingOpen
    BY DEF ProxyInv, InvBut
  <1>1. InvBut(Ovs, {})'
    BY <1>0, ResumeKeeps
  <1>2. SocketsRemain
    BY <1>0, <1>1, ResumeKeepsSockets DEF InvBut
  <1>3. PendingOpen'
    BY <1>0, ResumePending
  <1> QED
    BY <1>1, <1>2, <1>3 DEF ProxyInv, SocketsRemain

(* So does the kernel, whatever was deleted.                               *)
LEMMA KernelProxy ==
    ASSUME NEW D, ProxyInv(D), NEW o \in Ovs, Kernel(o)
    PROVE  ProxyInv(D)' /\ Conns' \subseteq Conns
  <1>0. TypeOK /\ InvBut(Ovs, D) /\ SocketsOwned /\ PendingOpen
    BY DEF ProxyInv, InvBut
  <1>1. InvBut(Ovs, D)'
    BY <1>0, KernelKeeps
  <1>2. SocketsRemain
    BY <1>0, <1>1, KernelKeepsSockets DEF InvBut
  <1>3. PendingOpen'
    <2>1. open' = open /\ \E r : io' = [io EXCEPT ![o] = Queued(io[o].sock, r)]
      BY DEF Kernel, connected, answered, hungUp, arrived, Env, Complete
    <2> QED
      BY <1>0, <2>1, NotPending, PendingKept DEF TypeOK, OverlappedTypeOK
  <1> QED
    BY <1>1, <1>2, <1>3 DEF ProxyInv, SocketsRemain

(* So does udpSend.                                                        *)
LEMMA UdpSendProxy ==
    ASSUME NEW D, ProxyInv(D), NEW id \in Ids, NEW ok \in BOOLEAN, udpSend(id, ok)
    PROVE  ProxyInv(D)' /\ Conns' \subseteq Conns
  <1>0. TypeOK /\ InvBut(Ovs, D) /\ SocketsOwned /\ PendingOpen
    BY DEF ProxyInv, InvBut
  <1>1. InvBut(Ovs, D)'
    BY <1>0, UdpSendKeeps
  <1>2. SocketsRemain
    BY <1>0, <1>1, UdpSendKeepsSockets DEF InvBut
  <1>3. PendingOpen'
    <2>1. open' = open /\ (UNCHANGED io \/ SendStarts(id) \/ SendFails(id))
      BY DEF udpSend
    <2>2. CASE UNCHANGED io
      BY <1>0, <2>1, <2>2 DEF PendingOpen
    <2> QED
      BY <1>0, <2>1, <2>2, SendPending
  <1> QED
    BY <1>1, <1>2, <1>3 DEF ProxyInv, SocketsRemain

(* So does deleteProxyConnection, after which the connection is gone.      *)
LEMMA DeleteProxy ==
    ASSUME NEW D, ProxyInv(D), NEW id \in Ids, deleteProxyConnection(id)
    PROVE  ProxyInv(D)' /\ Conns' = Conns \ {id}
  <1>0. TypeOK /\ InvBut(Ovs, D) /\ SocketsOwned /\ PendingOpen
    BY DEF ProxyInv, InvBut
  <1>1. InvBut(Ovs, D)'
    BY <1>0, DeleteConnectionKeeps
  <1>2. SocketsOwned' /\ Conns' = Conns \ {id}
    BY <1>0, DeleteKeepsSockets
  <1>3. PendingOpen'
    <2>1. \/ UNCHANGED <<open, io>>
          \/ open' = open \ Sockets(id) /\ io' = Aborted(Sockets(id))
      BY DEF deleteProxyConnection, Destroy, vars
    <2> QED
      BY <1>0, <2>1, AbortedOpen DEF PendingOpen
  <1> QED
    BY <1>1, <1>2, <1>3 DEF ProxyInv

(* So does the end of a createProxyConnection that failed after it had     *)
(* entered the connection into the map.                                    *)
LEMMA UndoneProxy ==
    ASSUME NEW D, ProxyInv(D), fid \in Ids, createUndone
    PROVE  ProxyInv(D)' /\ Conns' = Conns \ {fid}
  <1>0. TypeOK /\ InvBut(Ovs, D) /\ SocketsOwned /\ PendingOpen
    BY DEF ProxyInv, InvBut
  <1>1. PICK id \in Ids : id = fid
    OBVIOUS
  <1>2. /\ m_cs = "free"
        /\ open' = open \ Sockets(id) /\ io' = Aborted(Sockets(id))
        /\ m_socketMap' = [m_socketMap EXCEPT ![id] = NoConn]
        /\ fate' = [fate EXCEPT ![id] = Append(@, "lost")]
        /\ UNCHANGED <<ov, m_cs, pc, cur, wire, replies, created>>
    BY <1>1 DEF createUndone, createFails
  <1>3. TypeOK'
    <2>1. fate' \in [Ids -> Seq(Fates)]
      BY <1>0, <1>2, FateUpdates DEF TypeOK, Fates
    <2>2. open' \subseteq Handles /\ m_socketMap' \in [Ids -> PROXY_DATA \cup {NoConn}]
      BY <1>0, <1>2 DEF TypeOK, OverlappedTypeOK
    <2> QED
      BY <1>0, <1>2, <2>1, <2>2, AbortedFacts DEF TypeOK, OverlappedTypeOK
  <1>4. Owned(Ovs, D)'
    <2>1. \A o \in Ovs : io'[o].st = "idle" <=> io[o].st = "idle"
      BY <1>0, <1>2, AbortedFacts DEF TypeOK
    <2> QED
      BY <1>0, <1>2, <2>1 DEF InvBut, Owned
  <1>5. WorkerInv'
    BY <1>0, <1>2 DEF InvBut, WorkerInv
  <1>6. SocketsOwned' /\ Conns' = Conns \ {id}
    BY <1>0, <1>2, ClosingKeepsSockets
  <1>7. PendingOpen'
    BY <1>0, <1>2, AbortedOpen
  <1> QED
    BY <1>1, <1>3, <1>4, <1>5, <1>6, <1>7 DEF ProxyInv, InvBut

(* A createProxyConnection that fails before that changes a fate only.     *)
LEMMA RefusedProxy ==
    ASSUME NEW D, ProxyInv(D), fid \in Ids, createFails,
           UNCHANGED <<open, m_socketMap, io, ov, m_cs, pc, cur, wire, replies, created>>
    PROVE  ProxyInv(D)' /\ Conns' = Conns
  <1>1. fate' \in [Ids -> Seq(Fates)]
    BY FateUpdates DEF ProxyInv, InvBut, TypeOK, Fates, createFails
  <1>2. InvBut(Ovs, D)'
    BY <1>1 DEF ProxyInv, InvBut, TypeOK, OverlappedTypeOK, Owned, WorkerInv, Has
  <1>3. SocketsOwned' /\ PendingOpen' /\ Conns' = Conns
    BY DEF ProxyInv, SocketsOwned, PendingOpen, Conns, Has, Sockets
  <1> QED
    BY <1>2, <1>3 DEF ProxyInv

(* Its two WSASockets and the entry into the map keep the invariant.       *)
LEMMA SocketsProxy ==
    ASSUME NEW D, ProxyInv(D), NEW id \in Ids, id = fid, ~Has(id), createSockets, fpc' = "register"
    PROVE  ProxyInv(D)' /\ Conns' = Conns \cup {id} /\ UNCHANGED <<fid, lock>>
  <1>0. TypeOK /\ InvBut(Ovs, D) /\ SocketsOwned /\ PendingOpen
    BY DEF ProxyInv, InvBut
  <1>1. PICK t \in Handles \ open, u \in Handles \ open :
          /\ t # u
          /\ open' = open \cup {t, u}
          /\ m_socketMap' = [m_socketMap EXCEPT ![id] = NewConn(t, u)]
    BY DEF createSockets, createFails, NewHandles
  <1>2. /\ m_cs = "free" /\ UNCHANGED <<fate, fid, lock>>
        /\ UNCHANGED <<io, ov, m_cs, pc, cur, wire, replies, created>>
    BY DEF createSockets, createFails
  <1>3. TypeOK'
    BY <1>0, <1>1, <1>2, NewConnType DEF TypeOK, OverlappedTypeOK
  <1>4. Owned(Ovs, D)' /\ WorkerInv'
    BY <1>0, <1>2 DEF InvBut, Owned, WorkerInv
  <1>5. SocketsOwned' /\ Conns' = Conns \cup {id}
    BY <1>0, <1>1, NewSocketsOwned
  <1>6. PendingOpen'
    BY <1>0, <1>1, <1>2 DEF PendingOpen
  <1> QED
    BY <1>2, <1>3, <1>4, <1>5, <1>6 DEF ProxyInv, InvBut

(* So does startConnect.                                                   *)
LEMMA ConnectProxy ==
    ASSUME NEW D, ProxyInv(D), NEW id \in Ids, id = fid, createConnect, fpc' = "send"
    PROVE  /\ ProxyInv(D)' /\ Conns' = Conns /\ Has(id)
           /\ m_udpCtxMap' = m_udpCtxMap \cup {id} /\ lock' = "free" /\ UNCHANGED fid
  <1>0. TypeOK /\ InvBut(Ovs, D) /\ SocketsOwned /\ PendingOpen
    BY DEF ProxyInv, InvBut
  <1> DEFINE t == m_socketMap[id].tcpSocket
             d == [id |-> id, type |-> "OVT_CONNECT"]
  <1>1. PICK o \in Ovs :
          /\ newOV_DATA(o, {})
          /\ io' = [io EXCEPT ![o] = Pending(t)]
          /\ ov' = [ov EXCEPT ![o] = d]
    BY DEF createConnect, createUndone, createFails
  <1>2. /\ Has(id) /\ created' = created \cup {id}
        /\ m_udpCtxMap' = m_udpCtxMap \cup {id} /\ lock' = "free" /\ UNCHANGED fid
        /\ UNCHANGED <<open, m_socketMap, m_cs, pc, cur, fate, wire, replies>>
    BY DEF createConnect, createUndone, createFails
  <1>3. d \in OV_DATA /\ d # FreeOv
    BY DEF OV_DATA, OV_TYPE, FreeOv
  <1>4. ov[o] = FreeOv
    BY <1>1 DEF newOV_DATA, m_ovDataSet
  <1>5. /\ Pending(t) \in IoState /\ Pending(t).st = "pending" /\ Pending(t).sock = t
        /\ t \in open
    <2>1. t \in open
      BY <1>0, <1>2 DEF SocketsOwned, Conns, Sockets
    <2> QED
      BY <1>0, <2>1, IoStates DEF TypeOK, OverlappedTypeOK, Pending, Results
  <1> HIDE DEF d, t
  <1>6. TypeOK'
    BY <1>0, <1>1, <1>2, <1>3, <1>5 DEF TypeOK, OverlappedTypeOK
  <1>7. Owned(Ovs, D)'
    BY <1>0, <1>1, <1>2, <1>3, <1>4, <1>5 DEF InvBut, TypeOK, OverlappedTypeOK, Owned
  <1>8. WorkerInv'
    <2>1. cur.ov \in Ovs => ov'[cur.ov] = ov[cur.ov]
      BY <1>0, <1>1, <1>4 DEF InvBut, Owned, TypeOK
    <2> QED
      BY <1>0, <1>2, <2>1 DEF InvBut, WorkerInv, Has
  <1>9. SocketsOwned' /\ Conns' = Conns
    BY <1>0, <1>2 DEF SocketsOwned, Conns, Has, Sockets
  <1>10. PendingOpen'
    BY <1>0, <1>1, <1>2, <1>5, PendingKept DEF TypeOK, OverlappedTypeOK
  <1> QED
    BY <1>2, <1>6, <1>7, <1>8, <1>9, <1>10 DEF ProxyInv, InvBut

-----------------------------------------------------------------------------
(* The filter thread.                                                      *)

(* One of the two cases of the invariant holds, so the connections are     *)
(* where the map has them.                                                 *)
LEMMA SomeProxy ==
    ASSUME LifeInv
    PROVE  \E D \in {{}, Ovs} : ProxyInv(D)
  BY DEF LifeInv, MemoryInv

(* What other threads do without creating a connection leaves what the     *)
(* filter thread and Stop rely on.                                         *)
LEMMA BesideFilter ==
    ASSUME LifeInv, Conns' \subseteq Conns,
           UNCHANGED <<m_udpCtxMap, lock, fpc, fid, qpc, filtering>>
    PROVE  FilterInv' /\ CleanInv'
  <1>1. fpc \in {"create", "close"} => ~Has(fid)'
    BY DEF LifeInv, FilterInv, Conns, Has
  <1>2. FilterInv'
    BY <1>1 DEF LifeInv, FilterInv
  <1>3. CleanInv'
    BY DEF LifeInv, CleanInv
  <1> QED
    BY <1>2, <1>3

(* An endpoint appears, a send begins, the datagram is sent directly, the  *)
(* context is erased.                                                      *)
LEMMA EventKeepsLife ==
    ASSUME LifeInv, UNCHANGED vars, UNCHANGED lcVars,
           \/ filtering /\ \E id \in Ids : udpCreated(id) \/ ehUdpSend(id)
           \/ ehDirect \/ ehForget
    PROVE  LifeInv'
  <1>1. Conns' = Conns /\ \A id \in Ids : Has(id)' <=> Has(id)
    BY SomeProxy, SameProxy
  <1>2. MemoryInv'
    BY SameProxy, MemoryKept DEF LifeInv, lcVars
  <1>3. PortInv'
    BY DEF LifeInv, PortInv, lcVars, vars
  <1>4. ASSUME NEW id \in Ids, udpCreated(id) PROVE FilterInv' /\ CleanInv'
    <2>1. UNCHANGED <<m_udpCtxMap, lock, fpc, fid, qpc, filtering>>
      BY <1>4 DEF udpCreated, lcVars
    <2> QED
      BY <1>1, <2>1, BesideFilter
  <1>5. ASSUME NEW id \in Ids, ehUdpSend(id), filtering PROVE FilterInv' /\ CleanInv'
    <2>1. /\ fpc = "idle" /\ lock = "free" /\ fid' = id /\ id # NoId /\ m_udpCtxMap' = m_udpCtxMap
          /\ \/ id \in m_udpCtxMap /\ fpc' = "send" /\ lock' = lock
             \/ id \notin m_udpCtxMap /\ fpc' = "create" /\ lock' = "filter"
      BY <1>5, UDPProxyAssumption DEF ehUdpSend
    <2>2. id \notin m_udpCtxMap => ~Has(id)'
      BY <1>1, <2>1 DEF LifeInv, FilterInv, Conns
    <2>3. fpc' \in {"create", "close"} => ~Has(fid)'
      BY <2>1, <2>2 DEF Has
    <2>4. FilterInv'
      BY <1>1, <2>1, <2>3 DEF LifeInv, FilterInv
    <2>5. CleanInv'
      BY <1>1, <1>5, <2>1 DEF LifeInv, CleanInv, lcVars
    <2> QED
      BY <2>4, <2>5
  <1>6. CASE ehDirect \/ ehForget
    <2>1. /\ fpc' = "idle" /\ fid' = NoId /\ lock' = lock /\ fpc \in {"direct", "close"}
          /\ m_udpCtxMap' = m_udpCtxMap \/ (fpc = "close" /\ m_udpCtxMap' = m_udpCtxMap \ {fid})
      BY <1>6 DEF ehDirect, ehForget
    <2>2. fpc = "close" => fid \notin Conns
      BY DEF LifeInv, FilterInv, Conns
    <2>3. FilterInv'
      BY <1>1, <2>1, <2>2 DEF LifeInv, FilterInv
    <2>4. CleanInv'
      BY <1>1, <2>1 DEF LifeInv, CleanInv, lcVars
    <2> QED
      BY <1>2, <1>3, <2>3, <2>4 DEF LifeInv
  <1> QED
    BY <1>2, <1>3, <1>4, <1>5, <1>6 DEF LifeInv

(* The datagram is given to UDPProxy::udpSend.                             *)
LEMMA SendKeepsLife ==
    ASSUME LifeInv, ehSend, UNCHANGED lcVars
    PROVE  LifeInv'
  <1>1. PICK id \in Ids : id = fid
    BY DEF LifeInv, FilterInv, ehSend
  <1>2. PICK ok \in BOOLEAN : /\ udpSend(id, ok)
                              /\ \/ fpc' = "idle" /\ fid' = NoId
                                 \/ fpc' = "direct" /\ fid' = fid
    BY <1>1 DEF ehSend
  <1>3. fpc = "send" /\ UNCHANGED <<m_udpCtxMap, lock>> /\ UNCHANGED pc
    BY <1>2 DEF ehSend, udpSend
  <1>4. MemoryInv'
    BY <1>2, UdpSendProxy, MemoryKept DEF LifeInv, lcVars
  <1>5. Conns' \subseteq Conns
    BY <1>2, SomeProxy, UdpSendProxy
  <1>6. FilterInv'
    BY <1>1, <1>2, <1>3, <1>5, UDPProxyAssumption DEF LifeInv, FilterInv
  <1>7. CleanInv' /\ PortInv'
    BY <1>2, <1>3, <1>5 DEF LifeInv, CleanInv, PortInv, lcVars
  <1> QED
    BY <1>4, <1>6, <1>7 DEF LifeInv

(* The endpoint is closed, and its connection deleted.                     *)
LEMMA ClosedKeepsLife ==
    ASSUME LifeInv, filtering, NEW id \in Ids, udpClosed(id), UNCHANGED lcVars
    PROVE  LifeInv'
  <1>1. /\ deleteProxyConnection(id) /\ fpc = "idle" /\ fpc' = "close" /\ fid' = id
        /\ UNCHANGED <<m_udpCtxMap, lock>> /\ id # NoId
    BY UDPProxyAssumption DEF udpClosed
  <1>2. UNCHANGED pc
    BY <1>1 DEF deleteProxyConnection, vars
  <1>3. MemoryInv'
    BY <1>1, DeleteProxy, MemoryKept DEF LifeInv, lcVars
  <1>4. Conns' = Conns \ {id}
    BY <1>1, SomeProxy, DeleteProxy
  <1>5. ~Has(fid)'
    BY <1>1, <1>4 DEF Conns, Has
  <1>6. FilterInv'
    BY <1>1, <1>4, <1>5 DEF LifeInv, FilterInv
  <1>7. CleanInv' /\ PortInv'
    BY <1>1, <1>2, <1>4 DEF LifeInv, CleanInv, PortInv, lcVars
  <1> QED
    BY <1>3, <1>6, <1>7 DEF LifeInv

(* The three steps of createProxyConnection.                               *)
LEMMA CreateKeepsLife ==
    ASSUME LifeInv, createSockets \/ createRegister \/ createConnect
    PROVE  LifeInv'
  <1>0. fpc \in {"create", "register", "connect"} /\ UNCHANGED lcVars
    BY DEF createSockets, createRegister, createConnect
  <1>1. PICK id \in Ids : id = fid
    BY <1>0 DEF LifeInv, FilterInv
  <1>2. PortInv'
    BY <1>0 DEF LifeInv, PortInv, lcVars, createSockets, createRegister, createConnect, createUndone, vars
  <1>3. CASE createFails /\ m_udpCtxMap' = m_udpCtxMap /\ Conns' = Conns \ {fid} /\ MemoryInv'
    <2>1. FilterInv'
      BY <1>0, <1>3 DEF LifeInv, FilterInv, createFails
    <2>2. CleanInv'
      BY <1>0, <1>3 DEF LifeInv, CleanInv, createFails, lcVars
    <2> QED
      BY <1>2, <1>3, <2>1, <2>2 DEF LifeInv
  <1>4. CASE createUndone
    <2>1. MemoryInv'
      BY <1>0, <1>1, <1>4, UndoneProxy, MemoryKept DEF LifeInv, lcVars
    <2>2. Conns' = Conns \ {fid}
      BY <1>1, <1>4, SomeProxy, UndoneProxy
    <2> QED
      BY <1>3, <1>4, <2>1, <2>2 DEF createUndone
  <1>5. CASE createSockets
    <2>1. fpc = "create" /\ ~Has(id) /\ id \notin Conns /\ m_udpCtxMap' = m_udpCtxMap
      BY <1>1, <1>5 DEF LifeInv, FilterInv, createSockets, Conns
    <2>2. CASE fpc' = "register"
      <3>1. MemoryInv'
        BY <1>0, <1>1, <1>5, <2>1, <2>2, SocketsProxy, MemoryKept DEF LifeInv, lcVars
      <3>2. Conns' = Conns \cup {id} /\ UNCHANGED <<fid, lock>>
        BY <1>1, <1>5, <2>1, <2>2, SomeProxy, SocketsProxy
      <3>3. FilterInv'
        BY <1>1, <2>1, <2>2, <3>2 DEF LifeInv, FilterInv
      <3>4. CleanInv'
        BY <1>0, <1>1, <2>1, <2>2, <3>2 DEF LifeInv, CleanInv, lcVars
      <3> QED
        BY <1>2, <3>1, <3>3, <3>4 DEF LifeInv
    <2>3. CASE fpc' # "register"
      <3>1. /\ createFails
            /\ UNCHANGED <<open, m_socketMap, io, ov, m_cs, pc, cur, wire, replies, created>>
        BY <1>5, <2>3 DEF createSockets
      <3>2. MemoryInv'
        BY <1>0, <1>1, <3>1, RefusedProxy, MemoryKept DEF LifeInv, lcVars
      <3>3. Conns' = Conns \ {fid}
        BY <1>1, <2>1, <3>1, SomeProxy, RefusedProxy
      <3> QED
        BY <1>3, <2>1, <3>1, <3>2, <3>3
    <2> QED
      BY <2>2, <2>3
  <1>6. CASE createRegister /\ ~createUndone
    <2>1. /\ fpc = "register" /\ fpc' = "connect" /\ m_hIOCP # "INVALID"
          /\ UNCHANGED vars /\ UNCHANGED <<lock, fid, m_udpCtxMap>>
      BY <1>6 DEF createRegister
    <2>2. MemoryInv' /\ Conns' = Conns
      BY <1>0, <2>1, SomeProxy, SameProxy, MemoryKept DEF LifeInv, lcVars
    <2>3. FilterInv'
      BY <2>1, <2>2 DEF LifeInv, FilterInv
    <2>4. CleanInv'
      BY <1>0, <2>1 DEF LifeInv, CleanInv, PortInv, lcVars
    <2> QED
      BY <1>2, <2>2, <2>3, <2>4 DEF LifeInv
  <1>7. CASE createConnect /\ ~createUndone
    <2>1. fpc = "connect" /\ fpc' = "send"
      BY <1>7 DEF createConnect
    <2>2. MemoryInv'
      BY <1>0, <1>1, <1>7, <2>1, ConnectProxy, MemoryKept DEF LifeInv, lcVars
    <2>3. /\ Conns' = Conns /\ Has(id) /\ lock' = "free" /\ fid' = fid
          /\ m_udpCtxMap' = m_udpCtxMap \cup {id}
      BY <1>1, <1>7, <2>1, SomeProxy, ConnectProxy
    <2>4. FilterInv'
      BY <1>1, <2>1, <2>3 DEF LifeInv, FilterInv
    <2>5. CleanInv'
      BY <1>0, <2>1, <2>3 DEF LifeInv, CleanInv, PortInv, lcVars, Conns
    <2> QED
      BY <1>2, <2>2, <2>4, <2>5 DEF LifeInv
  <1> QED
    BY <1>4, <1>5, <1>6, <1>7

-----------------------------------------------------------------------------
(* The worker thread and the kernel.                                       *)

(* A handler, or the rest of one, of the worker.                           *)
LEMMA WorkerKeepsLife ==
    ASSUME LifeInv, m_workerThread = "running", (\E o \in Ovs : Handle(o)) \/ Resume,
           UNCHANGED <<m_udpCtxMap, lock, fpc, fid, qpc, filtering, m_workerThread, m_hIOCP>>
    PROVE  LifeInv'
  <1>1. ProxyInv({})
    BY DEF LifeInv, MemoryInv
  <1>2. ProxyInv({})' /\ Conns' \subseteq Conns
    BY <1>1, HandleProxy, ResumeProxy
  <1>3. MemoryInv'
    BY <1>2 DEF MemoryInv
  <1>4. PortInv'
    BY DEF LifeInv, PortInv
  <1> QED
    BY <1>2, <1>3, <1>4, BesideFilter DEF LifeInv

(* The worker looks at m_stopEvent, or has nothing to do.                  *)
LEMMA PollKeepsLife ==
    ASSUME LifeInv, workerPolls \/ workerTimesOut
    PROVE  LifeInv'
  <1>1. /\ UNCHANGED vars /\ UNCHANGED <<m_udpCtxMap, lock, fpc, fid, qpc, filtering, m_hIOCP>>
        /\ m_workerThread = "running" /\ m_workerThread' \in {"running", "ended"}
        /\ pc = "wait"
    BY DEF workerPolls, workerTimesOut, Polled, allVars, ehVars
  <1>2. ProxyInv({})' /\ Conns' = Conns
    BY <1>1, SameProxy DEF LifeInv, MemoryInv
  <1>3. MemoryInv'
    BY <1>1, <1>2 DEF MemoryInv
  <1>4. PortInv'
    BY <1>1 DEF LifeInv, PortInv, vars
  <1> QED
    BY <1>1, <1>2, <1>3, <1>4, BesideFilter DEF LifeInv

(* The kernel completes an operation, deleted under it or not.             *)
LEMMA KernelKeepsLife ==
    ASSUME LifeInv, NEW o \in Ovs, Kernel(o), UNCHANGED <<ehVars, lcVars>>
    PROVE  LifeInv'
  <1>1. Conns' \subseteq Conns
    BY SomeProxy, KernelProxy
  <1>2. MemoryInv'
    BY KernelProxy, MemoryKept DEF LifeInv, lcVars
  <1>3. UNCHANGED pc
    BY DEF Kernel, connected, answered, hungUp, arrived, Env
  <1>4. PortInv'
    BY <1>3 DEF LifeInv, PortInv, lcVars
  <1> QED
    BY <1>1, <1>2, <1>4, BesideFilter DEF LifeInv, ehVars, lcVars

-----------------------------------------------------------------------------
(* The Qt thread.                                                          *)

(* Its steps that only move on, or start and stop the filter.              *)
LEMMA MoveKeepsLife ==
    ASSUME LifeInv, addressFails \/ initFails \/ nf_init \/ Stop \/ serviceFree \/ nf_free
    PROVE  LifeInv'
  <1>1. /\ UNCHANGED vars /\ UNCHANGED <<m_udpCtxMap, lock, fpc, fid, m_hIOCP, m_workerThread>>
        /\ \/ qpc' \in {"free", "started"}
           \/ qpc' = "delete ovs" /\ m_workerThread = "none"
           \/ qpc' = "join"
           \/ qpc = "nf_free" /\ qpc' = "nf_free waits" /\ ~filtering'
    BY DEF addressFails, initFails, nf_init, Stop, serviceFree, nf_free, allVars, ehVars
  <1>2. MemoryInv' /\ Conns' = Conns
    BY <1>1, SomeProxy, SameProxy, MemoryKept DEF LifeInv
  <1>3. fpc \in {"create", "close"} => ~Has(fid)'
    BY <1>1 DEF LifeInv, FilterInv, Has, vars
  <1>4. FilterInv'
    BY <1>1, <1>2, <1>3 DEF LifeInv, FilterInv
  <1>5. PortInv'
    BY <1>1 DEF LifeInv, PortInv, vars
  <1>6. CleanInv'
    BY <1>1, <1>2 DEF LifeInv, CleanInv
  <1> QED
    BY <1>2, <1>4, <1>5, <1>6 DEF LifeInv

(* A new life: without a socket nothing is pending, and the new port holds *)
(* nothing, so what the last life left behind never reaches the worker.    *)
LEMMA InitKeepsLife ==
    ASSUME LifeInv, init, m_workerThread' = "running"
    PROVE  LifeInv'
  <1>1. /\ qpc = "stopped" /\ qpc' = "nf_init" /\ m_hIOCP' # "INVALID"
        /\ io' = [o \in Ovs |-> IF io[o].st = "queued" THEN Idle ELSE io[o]]
        /\ UNCHANGED <<open, ov, m_socketMap, m_cs, pc, cur, fate, wire, replies, created>>
        /\ UNCHANGED <<m_udpCtxMap, lock, fpc, fid, filtering>>
    BY DEF init, ehVars
  <1>2. m_workerThread = "none" /\ pc = "wait" /\ fpc = "idle" /\ Conns = {}
    BY <1>1 DEF LifeInv, PortInv, CleanInv
  <1>3. InvBut(Ovs, Ovs) /\ SocketsOwned /\ PendingOpen /\ TypeOK
    BY <1>2 DEF LifeInv, MemoryInv, ProxyInv, InvBut
  <1>4. open = {} /\ \A o \in Ovs : io[o].st # "pending"
    BY <1>2, <1>3 DEF SocketsOwned, PendingOpen
  <1>5. io' \in [Ovs -> IoState] /\ \A o \in Ovs : io'[o].st = "idle"
    BY <1>1, <1>3, <1>4, IoStates DEF TypeOK, OverlappedTypeOK, IoState
  <1>6. TypeOK'
    BY <1>1, <1>3, <1>5 DEF TypeOK, OverlappedTypeOK
  <1>7. Owned(Ovs, {})' /\ WorkerInv'
    BY <1>1, <1>2, <1>3, <1>5 DEF InvBut, Owned, WorkerInv
  <1>8. SocketsOwned' /\ PendingOpen' /\ Conns' = Conns
    BY <1>1, <1>3, <1>5 DEF SocketsOwned, PendingOpen, Conns, Has, Sockets
  <1>9. MemoryInv'
    BY <1>6, <1>7, <1>8 DEF MemoryInv, ProxyInv, InvBut
  <1>10. FilterInv' /\ PortInv' /\ CleanInv'
    BY <1>1, <1>2, <1>8 DEF LifeInv, FilterInv, PortInv, CleanInv
  <1> QED
    BY <1>9, <1>10 DEF LifeInv

(* The worker thread is joined, and the port closed.                       *)
LEMMA JoinKeepsLife ==
    ASSUME LifeInv, serviceJoin
    PROVE  LifeInv'
  <1>1. /\ UNCHANGED vars /\ UNCHANGED <<m_udpCtxMap, lock, fpc, fid>>
        /\ m_workerThread = "ended" /\ m_workerThread' = "none" /\ m_hIOCP' = "INVALID"
        /\ qpc' = "delete ovs"
    BY DEF serviceJoin, allVars, ehVars
  <1>2. ProxyInv({})' /\ Conns' = Conns
    BY <1>1, SameProxy DEF LifeInv, MemoryInv
  <1>3. MemoryInv'
    BY <1>1, <1>2, DeletedMore DEF MemoryInv
  <1>4. fpc \in {"create", "close"} => ~Has(fid)'
    BY <1>1 DEF LifeInv, FilterInv, Has, vars
  <1>5. FilterInv'
    BY <1>1, <1>2, <1>4 DEF LifeInv, FilterInv
  <1>6. PortInv' /\ CleanInv'
    BY <1>1 DEF LifeInv, PortInv, CleanInv, vars
  <1> QED
    BY <1>3, <1>5, <1>6 DEF LifeInv

(* Every OV_DATA is deleted.                                               *)
LEMMA FreeOvsKeepsLife ==
    ASSUME LifeInv, freeOvs
    PROVE  LifeInv'
  <1>1. /\ qpc = "delete ovs" /\ qpc' = "delete connections"
        /\ ov' = [o \in Ovs |-> FreeOv]
        /\ UNCHANGED <<open, io, m_socketMap, m_cs, pc, cur, fate, wire, replies, created>>
        /\ UNCHANGED <<m_udpCtxMap, lock, fpc, fid, m_hIOCP, m_workerThread>>
    BY DEF freeOvs, ehVars
  <1>2. m_workerThread = "none" /\ pc = "wait"
    BY <1>1 DEF LifeInv, PortInv
  <1>3. InvBut(Ovs, Ovs) /\ SocketsOwned /\ PendingOpen /\ TypeOK
    BY <1>2 DEF LifeInv, MemoryInv, ProxyInv, InvBut
  <1>4. TypeOK'
    BY <1>1, <1>3 DEF TypeOK, OverlappedTypeOK
  <1>5. Owned(Ovs, Ovs)' /\ WorkerInv'
    BY <1>1, <1>2, <1>3, OverlappedAssumption DEF InvBut, Owned, WorkerInv
  <1>6. SocketsOwned' /\ PendingOpen' /\ Conns' = Conns
    BY <1>1, <1>3 DEF SocketsOwned, PendingOpen, Conns, Has, Sockets
  <1>7. MemoryInv'
    BY <1>1, <1>2, <1>4, <1>5, <1>6 DEF MemoryInv, ProxyInv, InvBut
  <1>8. fpc \in {"create", "close"} => ~Has(fid)'
    BY <1>1 DEF LifeInv, FilterInv, Has
  <1>9. FilterInv' /\ PortInv' /\ CleanInv'
    BY <1>1, <1>6, <1>8 DEF LifeInv, FilterInv, PortInv, CleanInv
  <1> QED
    BY <1>7, <1>9 DEF LifeInv

(* Every connection is deleted, and with it every socket closed.           *)
LEMMA FreeConnectionsKeepsLife ==
    ASSUME LifeInv, freeConnections
    PROVE  LifeInv'
  <1>1. /\ qpc = "delete connections" /\ qpc' = "clear contexts"
        /\ open' = {} /\ io' = Aborted(open)
        /\ m_socketMap' = [id \in Ids |-> NoConn]
        /\ fate' = [id \in Ids |->
             [n \in DOMAIN fate[id] |-> IF fate[id][n] = "queued" THEN "lost" ELSE fate[id][n]]]
        /\ UNCHANGED <<ov, m_cs, pc, cur, wire, replies, created>>
        /\ UNCHANGED <<m_udpCtxMap, lock, fpc, fid, m_hIOCP, m_workerThread>>
    BY DEF freeConnections, ehVars
  <1>2. m_workerThread = "none" /\ pc = "wait"
    BY <1>1 DEF LifeInv, PortInv
  <1>3. InvBut(Ovs, Ovs) /\ SocketsOwned /\ PendingOpen /\ TypeOK
    BY <1>2 DEF LifeInv, MemoryInv, ProxyInv, InvBut
  <1>4. TypeOK'
    <2>1. fate' \in [Ids -> Seq(Fates)]
      BY <1>1, <1>3, FateUpdates DEF TypeOK
    <2>2. io' \in [Ovs -> IoState]
      BY <1>1, <1>3, AbortedFacts DEF TypeOK
    <2> QED
      BY <1>1, <1>3, <2>1, <2>2 DEF TypeOK, OverlappedTypeOK
  <1>5. Owned(Ovs, Ovs)' /\ WorkerInv'
    <2>1. \A o \in Ovs : io'[o].st = "idle" <=> io[o].st = "idle"
      BY <1>1, <1>3, AbortedFacts DEF TypeOK
    <2> QED
      BY <1>1, <1>2, <1>3, <2>1 DEF InvBut, Owned, WorkerInv
  <1>6. Conns' = {}
    BY <1>1 DEF Conns, Has
  <1>7. SocketsOwned' /\ PendingOpen'
    <2>1. SocketsOwned'
      BY <1>1, <1>6 DEF SocketsOwned
    <2>2. open' = open \ open
      BY <1>1
    <2> QED
      BY <1>1, <1>3, <2>1, <2>2, AbortedOpen
  <1>8. MemoryInv'
    BY <1>1, <1>2, <1>4, <1>5, <1>7 DEF MemoryInv, ProxyInv, InvBut
  <1>9. fpc # "idle" => ~Has(fid)'
    BY <1>1 DEF LifeInv, FilterInv, Has
  <1>10. FilterInv' /\ PortInv' /\ CleanInv'
    BY <1>1, <1>6, <1>9 DEF LifeInv, FilterInv, PortInv, CleanInv
  <1> QED
    BY <1>8, <1>10 DEF LifeInv

(* The contexts are deleted while the filter thread is not in the middle   *)
(* of a createProxyConnection.                                             *)
LEMMA FreeContextsKeepsLife ==
    ASSUME LifeInv, freeContexts
    PROVE  LifeInv'
  <1>1. /\ qpc = "clear contexts" /\ qpc' \in {"started", "nf_free"}
        /\ lock = "free" /\ m_udpCtxMap' = {} /\ UNCHANGED vars
        /\ UNCHANGED <<lock, fpc, fid, m_hIOCP, m_workerThread, filtering>>
    BY DEF freeContexts
  <1>2. MemoryInv' /\ Conns' = Conns
    BY <1>1, SomeProxy, SameProxy, MemoryKept DEF LifeInv
  <1>3. Conns = {}
    BY <1>1 DEF LifeInv, FilterInv, CleanInv
  <1>4. fpc \in {"create", "close"} => ~Has(fid)'
    BY <1>1 DEF LifeInv, FilterInv, Has, vars
  <1>5. FilterInv' /\ CleanInv'
    BY <1>1, <1>2, <1>3, <1>4 DEF LifeInv, FilterInv, CleanInv
  <1>6. PortInv'
    BY <1>1 DEF LifeInv, PortInv, vars
  <1> QED
    BY <1>2, <1>5, <1>6 DEF LifeInv

(* The filter thread has returned from its last event.                     *)
LEMMA StoppedKeepsLife ==
    ASSUME LifeInv, nf_freeReturns
    PROVE  LifeInv'
  <1>1. /\ qpc = "nf_free waits" /\ qpc' = "stopped" /\ fpc = "idle"
        /\ fate' = [id \in Ids |-> <<>>] /\ wire' = [id \in Ids |-> <<>>]
        /\ replies' = [id \in Ids |-> <<>>] /\ created' = {}
        /\ UNCHANGED <<open, io, ov, m_socketMap, m_cs, pc, cur, m_udpCtxMap, lock, fpc, fid>>
        /\ UNCHANGED <<m_hIOCP, m_workerThread, filtering>>
    BY DEF nf_freeReturns
  <1>2. ASSUME NEW D, ProxyInv(D) PROVE ProxyInv(D)' /\ Conns' = Conns
    <2>1. TypeOK'
      <3>0. \A S : <<>> \in Seq(S)
        OBVIOUS
      <3>1. /\ fate' \in [Ids -> Seq(Fates)]
            /\ wire' \in [Ids -> Seq({"greeting", "auth", "associate"})]
            /\ replies' \in [Ids -> Seq(TcpReplies)]
            /\ created' \subseteq Ids
        BY <1>1, <3>0
      <3> QED
        BY <1>1, <1>2, <3>1 DEF ProxyInv, InvBut, TypeOK, OverlappedTypeOK
    <2>2. Owned(Ovs, D)' /\ WorkerInv'
      BY <1>1, <1>2 DEF ProxyInv, InvBut, Owned, WorkerInv, Has
    <2>3. SocketsOwned' /\ PendingOpen' /\ Conns' = Conns
      BY <1>1, <1>2 DEF ProxyInv, SocketsOwned, PendingOpen, Conns, Has, Sockets
    <2> QED
      BY <2>1, <2>2, <2>3 DEF ProxyInv, InvBut
  <1>3. MemoryInv' /\ Conns' = Conns
    BY <1>1, <1>2, SomeProxy, MemoryKept DEF LifeInv
  <1>4. FilterInv' /\ PortInv' /\ CleanInv'
    BY <1>1, <1>3 DEF LifeInv, FilterInv, PortInv, CleanInv
  <1> QED
    BY <1>3, <1>4 DEF LifeInv

-----------------------------------------------------------------------------
(* Initially there is nothing.                                             *)
LEMMA InitLife == lcInit => lcInv
  <1> SUFFICES ASSUME lcInit PROVE LifeInv
    BY DEF lcInit, lcInv
  <1>1. IInv /\ Conns = {} /\ open = {} /\ \A o \in Ovs : io[o].st # "pending"
    BY InitIInv, IoStates DEF lcInit, ehInit, Init, OverlappedInit, Conns, Has
  <1>2. ProxyInv(Ovs)
    <2>1. InvBut(Ovs, Ovs)
      BY <1>1 DEF IInv, InvBut, OvOwnership, Owned
    <2> QED
      BY <1>1, <2>1 DEF ProxyInv, SocketsOwned, PendingOpen
  <1>3. MemoryInv
    BY <1>2 DEF lcInit, MemoryInv
  <1>4. FilterInv /\ PortInv /\ CleanInv
    BY <1>1 DEF lcInit, ehInit, Init, FilterInv, PortInv, CleanInv
  <1> QED
    BY <1>3, <1>4 DEF LifeInv

(* A life without a worker thread stays one, and Start fails from then on. *)
LEMMA ThreadlessKept ==
    ASSUME threadless, m_workerThread = "none", m_hIOCP # "INVALID", [lcNext]_everything
    PROVE  threadless' = threadless /\ m_workerThread' = "none" /\ m_hIOCP' # "INVALID"
  <1>1. CASE UNCHANGED lcVars
    BY <1>1 DEF lcVars
  <1>2. CASE addressFails \/ initFails \/ init \/ nf_init \/ Stop \/ qtStop
    BY <1>2 DEF addressFails, initFails, init, nf_init, Stop, qtStop, serviceFree, serviceJoin, freeOvs,
         freeConnections, freeContexts, nf_free, nf_freeReturns
  <1>3. CASE filterEvent \/ filterCall
    BY <1>1, <1>3 DEF filterEvent, filterCall, createSockets, createRegister, createConnect
  <1>4. CASE (\E o \in Ovs : workerHandles(o)) \/ workerPolls \/ workerTimesOut \/ workerHasNoPort
    BY <1>4 DEF workerHandles, workerPolls, workerTimesOut, workerHasNoPort, Polled
  <1>5. CASE UNCHANGED everything
    BY <1>1, <1>5 DEF everything
  <1> QED
    BY <1>1, <1>2, <1>3, <1>4, <1>5 DEF lcNext, lcStep, processGone

(* Nothing but the lack of a port makes the worker crash.                  *)
LEMMA CrashKept ==
    ASSUME lcInv, [lcNext]_everything
    PROVE  crashed' => m_hIOCP' = "NULL"
  <1>1. CASE UNCHANGED everything
    BY <1>1 DEF lcInv, everything, lcVars
  <1>2. CASE workerHasNoPort
    BY <1>2 DEF workerHasNoPort
  <1>3. CASE ~crashed /\ lcStep /\ ~workerHasNoPort
    <2>1. CASE addressFails \/ initFails \/ init \/ nf_init \/ Stop \/ qtStop
      BY <1>3, <2>1 DEF addressFails, initFails, init, nf_init, Stop, qtStop, serviceFree,
           serviceJoin, freeOvs, freeConnections, freeContexts, nf_free, nf_freeReturns
    <2>2. CASE filterEvent \/ filterCall \/ UNCHANGED lcVars
      BY <1>3, <2>2 DEF filterEvent, filterCall, createSockets, createRegister, createConnect, lcVars
    <2>3. CASE (\E o \in Ovs : workerHandles(o)) \/ workerPolls \/ workerTimesOut
      BY <1>3, <2>3 DEF workerHandles, workerPolls, workerTimesOut, Polled
    <2> QED
      BY <1>3, <2>1, <2>2, <2>3 DEF lcStep
  <1> QED
    BY <1>1, <1>2, <1>3 DEF lcNext, processGone

(* Every step of the four actors preserves the invariant.                  *)
LEMMA NextLife == lcInv /\ [lcNext]_everything => lcInv'
  <1> SUFFICES ASSUME lcInv, [lcNext]_everything PROVE lcInv'
    OBVIOUS
  <1>0. crashed' => m_hIOCP' = "NULL"
    BY CrashKept
  <1>1. CASE threadless
    BY <1>0, <1>1, ThreadlessKept DEF lcInv
  <1>2. CASE ~threadless
    <2>0. LifeInv
      BY <1>2 DEF lcInv
    <2>1. ASSUME LifeInv', threadless' = threadless PROVE lcInv'
      BY <1>0, <1>2, <2>1 DEF lcInv
    <2>2. CASE init
      <3>1. /\ m_workerThread' \in {"running", "none"} /\ m_hIOCP' # "INVALID"
            /\ threadless' = (threadless \/ m_workerThread' = "none")
        BY <2>2 DEF init
      <3>2. CASE m_workerThread' = "none"
        BY <1>0, <1>2, <3>1, <3>2 DEF lcInv
      <3>3. CASE m_workerThread' = "running"
        BY <1>0, <1>2, <2>0, <2>2, <3>1, <3>3, InitKeepsLife DEF lcInv
      <3> QED
        BY <3>1, <3>2, <3>3
    <2>3. CASE addressFails \/ initFails \/ nf_init \/ Stop \/ qtStop
      <3>1. threadless' = threadless
        BY <2>3 DEF addressFails, initFails, nf_init, Stop, qtStop, serviceFree, serviceJoin, freeOvs,
             freeConnections, freeContexts, nf_free, nf_freeReturns
      <3>2. LifeInv'
        BY <2>0, <2>3, MoveKeepsLife, JoinKeepsLife, FreeOvsKeepsLife, FreeConnectionsKeepsLife,
           FreeContextsKeepsLife, StoppedKeepsLife DEF qtStop
      <3> QED
        BY <2>1, <3>1, <3>2
    <2>4. CASE filterEvent \/ filterCall
      <3>1. UNCHANGED lcVars
        BY <2>4 DEF filterEvent, filterCall, createSockets, createRegister, createConnect
      <3>2. ASSUME NEW id \in Ids, udpCreated(id) \/ ehUdpSend(id), filtering PROVE LifeInv'
        <4>1. UNCHANGED vars
          BY <3>2 DEF udpCreated, ehUdpSend
        <4> QED
          BY <2>0, <3>1, <3>2, <4>1, EventKeepsLife
      <3>3. ASSUME ehDirect \/ ehForget PROVE LifeInv'
        <4>1. UNCHANGED vars
          BY <3>3 DEF ehDirect, ehForget
        <4> QED
          BY <2>0, <3>1, <3>3, <4>1, EventKeepsLife
      <3>4. LifeInv'
        BY <2>0, <2>4, <3>1, <3>2, <3>3, SendKeepsLife, ClosedKeepsLife, CreateKeepsLife
           DEF filterEvent, filterCall
      <3> QED
        BY <2>1, <3>1, <3>4 DEF lcVars
    <2>5. ASSUME NEW o \in Ovs, workerHandles(o) PROVE lcInv'
      BY <2>0, <2>1, <2>5, WorkerKeepsLife DEF workerHandles, Polled, ehVars
    <2>6. CASE ehResume /\ UNCHANGED lcVars
      <3>1. Resume /\ UNCHANGED <<m_udpCtxMap, lock, fpc, fid>> /\ pc # "wait"
        BY <2>6 DEF ehResume, ehOnUdpReceiveComplete, Resume, ehVars, drain, drainEnd, rearm, callback
      <3>2. m_workerThread = "running"
        BY <2>0, <3>1 DEF LifeInv, PortInv
      <3> QED
        BY <2>0, <2>1, <2>6, <3>1, <3>2, WorkerKeepsLife DEF lcVars
    <2>7. CASE workerPolls \/ workerTimesOut
      BY <2>0, <2>1, <2>7, PollKeepsLife DEF workerPolls, workerTimesOut, Polled
    <2>8. ASSUME NEW o \in Ovs, Kernel(o), UNCHANGED <<ehVars, lcVars>> PROVE lcInv'
      BY <2>0, <2>1, <2>8, KernelKeepsLife DEF lcVars
    <2>9. CASE workerHasNoPort \/ UNCHANGED everything
      <3>1. /\ UNCHANGED vars /\ UNCHANGED ehVars
            /\ UNCHANGED <<qpc, m_hIOCP, m_workerThread, filtering, threadless>>
        BY <2>9 DEF workerHasNoPort, everything, allVars, lcVars
      <3>2. MemoryInv' /\ Conns' = Conns
        BY <2>0, <3>1, SomeProxy, SameProxy, MemoryKept DEF LifeInv
      <3>3. FilterInv' /\ CleanInv'
        BY <2>0, <3>1, <3>2, BesideFilter DEF ehVars
      <3>4. PortInv'
        BY <2>0, <3>1 DEF LifeInv, PortInv, vars
      <3> QED
        BY <2>1, <3>1, <3>2, <3>3, <3>4 DEF LifeInv
    <2> QED
      BY <2>2, <2>3, <2>4, <2>5, <2>6, <2>7, <2>8, <2>9 DEF lcNext, lcStep, processGone
  <1> QED
    BY <1>1, <1>2 DEF lcInv

(* So it holds throughout every number of lives.                           *)
LEMMA LifeInvariance == lcSpec => []lcInv
  BY InitLife, NextLife, PTL DEF lcSpec

(* However often the proxy is started and stopped, and wherever the filter *)
(* thread is meanwhile, a worker with a port never meets an OV_DATA that   *)
(* was deleted under it or under the operation it completes, and does not  *)
(* read through no OVERLAPPED.                                             *)
THEOREM MemorySafe == lcSpec => []WorkerHasMemory
  <1>1. lcInv => WorkerHasMemory
    <2> SUFFICES ASSUME lcInv, m_workerThread = "running", m_hIOCP # "NULL"
                 PROVE  /\ ~crashed
                        /\ pc # "wait" => ov[cur.ov] # FreeOv
                        /\ \A o \in Ovs : io[o].st = "queued" => ov[o] # FreeOv
      BY DEF WorkerHasMemory
    <2>1. ProxyInv({})
      BY DEF lcInv, LifeInv, MemoryInv
    <2>2. ~crashed
      BY DEF lcInv
    <2> QED
      BY <2>1, <2>2 DEF ProxyInv, InvBut, Owned, WorkerInv
  <1> QED
    BY <1>1, LifeInvariance, PTL

(* When Stop has returned no thread, port, socket, connection or context   *)
(* is left, whatever the filter created while free was deleting.           *)
THEOREM StopSafe == lcSpec => []StoppedIsClean
  <1>1. lcInv => StoppedIsClean
    <2> SUFFICES ASSUME lcInv, qpc = "stopped", ~threadless
                 PROVE  /\ m_workerThread = "none" /\ m_hIOCP = "INVALID"
                        /\ Conns = {} /\ open = {} /\ m_udpCtxMap = {}
      BY DEF StoppedIsClean
    <2>1. LifeInv
      BY DEF lcInv
    <2>2. m_workerThread = "none" /\ m_hIOCP = "INVALID" /\ m_udpCtxMap = {} /\ Conns = {}
      BY <2>1 DEF LifeInv, PortInv, CleanInv
    <2>3. open = {}
      BY <2>1, <2>2 DEF LifeInv, MemoryInv, ProxyInv, SocketsOwned
    <2> QED
      BY <2>2, <2>3
  <1> QED
    BY <1>1, LifeInvariance, PTL
=============================================================================
