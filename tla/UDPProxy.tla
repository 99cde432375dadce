------------------------------ MODULE UDPProxy ------------------------------
(***************************************************************************)
(* The SOCKS5 UDP-associate client of netfilter/UDPProxy.cpp and           *)
(* UdpProxy.h: one control TCP connection and one UDP socket per UDP       *)
(* endpoint id, driven by the completion-port worker thread of iocp.h and  *)
(* called by the packet filter's thread.  m_cs is the critical section of  *)
(* the class; an action that needs it waits until it is free, and a part   *)
(* of a handler that runs in one m_cs section is one action.               *)
(***************************************************************************)
EXTENDS Overlapped, Sequences

CONSTANTS Ids,             \* ENDPOINT_IDs of UDP endpoints
          NoId,
          HasUser,         \* is a user name configured?
          Empty,           \* which datagrams of an endpoint have length 0
          MaxDgrams        \* bound: datagrams sent by one endpoint

ASSUME UDPProxyAssumption ==
    /\ NoId \notin Ids
    /\ HasUser \in BOOLEAN
    /\ MaxDgrams \in Nat
    /\ Empty \subseteq 1 .. MaxDgrams

VARIABLES ov,              \* the OV_DATA at each address; m_ovDataSet holds
                           \* the ones that are not FreeOv
          m_socketMap,     \* id -> PROXY_DATA, or NoConn
          m_cs,            \* holder of the critical section
          pc, cur,         \* worker thread: where it is, the completion it handles
          fate,            \* history: what became of each datagram of an id
          wire,            \* history: requests sent on the control connection
          replies,         \* history: answers the proxy sent on it
          created          \* history: ids createProxyConnection succeeded for

vars == <<open, io, ov, m_socketMap, m_cs, pc, cur, fate, wire, replies, created>>

OV_TYPE == {"OVT_CONNECT", "OVT_TCP_SEND", "OVT_TCP_RECEIVE",
            "OVT_UDP_SEND", "OVT_UDP_RECEIVE"}
FreeOv  == [id |-> NoId, type |-> "free"]
OV_DATA == [id : Ids, type : OV_TYPE]

m_ovDataSet == {o \in Ovs : ov[o] # FreeOv}

PROXY_STATE == {"PS_NONE", "PS_AUTH", "PS_AUTH_NEGOTIATION", "PS_UDP_ASSOC",
                "PS_CONNECTED"}

(* remoteAddress, where the relay listens: "v4" as the proxy answered,     *)
(* "v6" an IPv6 address (the UDP socket is AF_INET), "cut" a port read     *)
(* from beyond a truncated answer.                                         *)
PROXY_DATA == [tcpSocket : Handles, udpSocket : Handles,
               proxyState : PROXY_STATE,
               remoteAddress : {"zero", "v4", "v6", "cut"},
               udpSendPackets : Seq(Nat),
               udpRecvStarted : BOOLEAN]

NoConn == [tcpSocket |-> INVALID_SOCKET, udpSocket |-> INVALID_SOCKET,
           proxyState |-> "absent", remoteAddress |-> "zero",
           udpSendPackets |-> <<>>, udpRecvStarted |-> FALSE]

(* Mutant of NewConn: the UDP socket is not stored.                        *)
NewConnNoUdp(t, u) == [NoConn EXCEPT !.tcpSocket = t, !.proxyState = "PS_NONE"]

NewConn(t, u) == [tcpSocket |-> t, udpSocket |-> u,
                  proxyState |-> "PS_NONE", remoteAddress |-> "zero",
                  udpSendPackets |-> <<>>, udpRecvStarted |-> FALSE]

Has(id)     == m_socketMap[id] # NoConn
Conns       == {id \in Ids : Has(id)}
Sockets(id) == {m_socketMap[id].tcpSocket, m_socketMap[id].udpSocket}

Fates   == {"queued", "relayed", "refused", "lost"}
NoCur   == [ov |-> 0, sock |-> INVALID_SOCKET, res |-> "none"]
Rests   == {"drain", "rearmTcp", "callback", "rearmUdp"}

-----------------------------------------------------------------------------
(* OV_DATA allocation.  `new' may return any unused address; the least one *)
(* is taken, addresses being interchangeable.                              *)

newOV_DATA(o, taken) ==
    /\ o \in (Ovs \ m_ovDataSet) \ taken
    /\ \A p \in (Ovs \ m_ovDataSet) \ taken : o <= p

(* Bound: the worker does not start on a queue it has no addresses for; it *)
(* takes other completions first.                                          *)
Room(k) == Cardinality(Ovs \ m_ovDataSet) >= k

(* Mutant of Labelled: deleted although its completion was posted.         *)
LabelledFreed(out, id, type, onFail) ==
    IF out = "pending" THEN [id |-> id, type |-> type] ELSE FreeOv

(* The OV_DATA after its operation was started: gone when even the posted  *)
(* completion failed, relabelled (as `onFail') when only the start failed. *)
Labelled(out, id, type, onFail) ==
    CASE out = "pending" -> [id |-> id, type |-> type]
      [] out = "posted"  -> [id |-> id, type |-> onFail]
      [] OTHER           -> FreeOv

(* WSASendTo may fail on its address family or port as well.               *)
SendToOutcomes(id) ==
    LET c == m_socketMap[id] IN
    (IF c.remoteAddress = "v6" THEN {} ELSE Outcomes(c.udpSocket) \cap {"pending"})
      \cup (IF c.remoteAddress # "v4" \/ "io" \in Faults THEN FailOutcomes ELSE {})

(* udpSend once the association is up, lines 418-481: the WSASendTo failed *)
SendFails(id) ==
    \E o \in Ovs, out \in SendToOutcomes(id) \ {"pending"} :
        /\ newOV_DATA(o, {})
        /\ io' = [io EXCEPT ![o] = Started(out, m_socketMap[id].udpSocket)]
        /\ ov' = [ov EXCEPT ![o] = Labelled(out, id, "OVT_UDP_SEND", "OVT_UDP_RECEIVE")]

(* Mutant of SendStarts: udpRecvStarted is not consulted.                  *)
SendStartsAgain(id) ==
    LET u == m_socketMap[id].udpSocket IN
    /\ "pending" \in SendToOutcomes(id)
    /\ \E o, p \in Ovs, out \in Outcomes(u) :
         /\ newOV_DATA(o, {}) /\ newOV_DATA(p, {o})
         /\ io' = [io EXCEPT ![o] = Queued(u, "ok"), ![p] = Started(out, u)]
         /\ ov' = [ov EXCEPT ![o] = [id |-> id, type |-> "OVT_UDP_SEND"],
                             ![p] = Labelled(out, id, "OVT_UDP_RECEIVE", "OVT_UDP_RECEIVE")]

(* or was started, and the first one to be started also starts receiving.  *)
SendStarts(id) ==
    LET u == m_socketMap[id].udpSocket IN
    /\ "pending" \in SendToOutcomes(id)
    /\ \E o \in Ovs :
        /\ newOV_DATA(o, {})
        /\ \/ /\ m_socketMap[id].udpRecvStarted
              /\ io' = [io EXCEPT ![o] = Queued(u, "ok")]
              /\ ov' = [ov EXCEPT ![o] = [id |-> id, type |-> "OVT_UDP_SEND"]]
           \/ /\ ~m_socketMap[id].udpRecvStarted
              /\ \E p \in Ovs, out \in Outcomes(u) :
                   /\ newOV_DATA(p, {o})
                   /\ io' = [io EXCEPT ![o] = Queued(u, "ok"), ![p] = Started(out, u)]
                   /\ ov' = [ov EXCEPT
                               ![o] = [id |-> id, type |-> "OVT_UDP_SEND"],
                               ![p] = Labelled(out, id, "OVT_UDP_RECEIVE", "OVT_UDP_RECEIVE")]

(* Mutant of Destroy: the UDP socket stays open.                           *)
DestroyTcpOnly(id) ==
    /\ open' = open \ {m_socketMap[id].tcpSocket}
    /\ m_socketMap' = [m_socketMap EXCEPT ![id] = NoConn]
    /\ fate' = [fate EXCEPT ![id] =
                  [n \in DOMAIN @ |-> IF @[n] = "queued" THEN "lost" ELSE @[n]]]

(* ~PROXY_DATA: both sockets are closed and the queued datagrams dropped.  *)
Destroy(id) ==
    /\ open' = open \ Sockets(id)
    /\ m_socketMap' = [m_socketMap EXCEPT ![id] = NoConn]
    /\ fate' = [fate EXCEPT ![id] =
                  [n \in DOMAIN @ |-> IF @[n] = "queued" THEN "lost" ELSE @[n]]]

-----------------------------------------------------------------------------
(* The interface the packet filter's thread calls.                         *)

(* createProxyConnection: `ok' is what it returns; a failure leaves nothing *)
(* behind, whichever of its steps it comes from.                            *)
createProxyConnection(id, ok) ==
    /\ m_cs = "free"
    /\ \/ /\ ok
          /\ \E t, u \in NewHandles, o \in Ovs :
               /\ t # u
               /\ newOV_DATA(o, {})
               /\ open' = open \cup {t, u}
               /\ m_socketMap' = [m_socketMap EXCEPT ![id] = NewConn(t, u)]
               /\ io' = [io EXCEPT ![o] = Pending(t)]
               /\ ov' = [ov EXCEPT ![o] = [id |-> id, type |-> "OVT_CONNECT"]]
          /\ created' = created \cup {id}
          /\ UNCHANGED <<m_cs, pc, cur, fate, wire, replies>>
       \/ /\ ~ok
          /\ "socket" \in Faults
          /\ UNCHANGED vars

deleteProxyConnection(id) ==
    /\ m_cs = "free"
    /\ \/ /\ Has(id)
          /\ Destroy(id)
          /\ io' = Aborted(Sockets(id))
          /\ UNCHANGED <<ov, m_cs, pc, cur, wire, replies, created>>
       \/ /\ ~Has(id)
          /\ UNCHANGED vars

(* udpSend of the endpoint's next datagram; `ok' is what it returns.       *)
udpSend(id, ok) ==
    LET n == Len(fate[id]) + 1
        Becomes(f) == fate' = [fate EXCEPT ![id] = Append(@, f)]
    IN
    /\ m_cs = "free"
    /\ \/ /\ ~ok /\ ~Has(id)
          /\ Becomes("refused")
          /\ UNCHANGED <<io, ov, m_socketMap>>
       \/ /\ ok /\ Has(id) /\ m_socketMap[id].proxyState # "PS_CONNECTED"
          /\ \/ /\ n \notin Empty
                /\ m_socketMap' = [m_socketMap EXCEPT ![id].udpSendPackets = Append(@, n)]
                /\ Becomes("queued")
             \/ /\ n \in Empty
                /\ Becomes("lost")
                /\ UNCHANGED m_socketMap
          /\ UNCHANGED <<io, ov>>
       \/ /\ ok /\ Has(id) /\ m_socketMap[id].proxyState = "PS_CONNECTED"
          /\ SendStarts(id)
          /\ m_socketMap' = [m_socketMap EXCEPT ![id].udpRecvStarted = TRUE]
          /\ Becomes("relayed")
       \/ /\ ~ok /\ Has(id) /\ m_socketMap[id].proxyState = "PS_CONNECTED"
          /\ SendFails(id)
          /\ Becomes("refused")
          /\ UNCHANGED m_socketMap
    /\ UNCHANGED <<open, m_cs, pc, cur, wire, replies, created>>
-----------------------------------------------------------------------------
(* The worker thread: GetQueuedCompletionStatus, then onComplete on the    *)
(* type of the OV_DATA.  Taking a completion from the port commutes with   *)
(* all the filter thread does, so it is one step with the handler's first  *)
(* m_cs section.                                                           *)

Dequeued(o, type) ==
    /\ pc = "wait"
    /\ m_cs = "free"
    /\ io[o].st = "queued"
    /\ ov[o].type = type

Continue(at, o) ==
    /\ pc' = at
    /\ cur' = [ov |-> o, sock |-> io[o].sock, res |-> io[o].res]

(* The handler does nothing but deleteOV_DATA.                             *)
deleteOV_DATA(o) ==
    /\ io' = [io EXCEPT ![o] = Idle]
    /\ ov' = [ov EXCEPT ![o] = FreeOv]
    /\ UNCHANGED <<open, m_socketMap, m_cs, pc, cur, fate, wire, replies, created>>

onTcpSendComplete(o) == Dequeued(o, "OVT_TCP_SEND") /\ deleteOV_DATA(o)

onUdpSendComplete(o) == Dequeued(o, "OVT_UDP_SEND") /\ deleteOV_DATA(o)

(* onConnectComplete with an error: the connection is deleted.             *)
onConnectFailed(o) ==
    LET id == ov[o].id IN
    /\ Dequeued(o, "OVT_CONNECT")
    /\ io[o].res = "fail"
    /\ \/ /\ Has(id)
          /\ Destroy(id)
          /\ io' = [Aborted(Sockets(id)) EXCEPT ![o] = Idle]
          /\ ov' = [ov EXCEPT ![o] = FreeOv]
          /\ UNCHANGED <<m_cs, pc, cur, wire, replies, created>>
       \/ ~Has(id) /\ deleteOV_DATA(o)

(* onConnectComplete without one: the greeting is sent and the receiving   *)
(* of answers started, unless the connection is gone by now.               *)
onConnectComplete(o) ==
    LET id == ov[o].id
        t  == m_socketMap[id].tcpSocket
    IN
    /\ Dequeued(o, "OVT_CONNECT")
    /\ io[o].res # "fail"
    /\ \/ ~Has(id) /\ deleteOV_DATA(o)
       \/ /\ Has(id)
          /\ \E p, q \in Ovs, out, rout \in Outcomes(t) :
               /\ newOV_DATA(p, {})
               /\ newOV_DATA(q, {p})
               /\ io' = [io EXCEPT ![p] = SendStarted(out, t), ![q] = Started(rout, t), ![o] = Idle]
               /\ ov' = [ov EXCEPT
                           ![p] = Labelled(out, id, "OVT_TCP_SEND", "OVT_TCP_RECEIVE"),
                           ![q] = Labelled(rout, id, "OVT_TCP_RECEIVE", "OVT_TCP_RECEIVE"),
                           ![o] = FreeOv]
               /\ \/ /\ out = "pending"
                     /\ m_socketMap' = [m_socketMap EXCEPT ![id].proxyState = "PS_AUTH"]
                     /\ wire' = [wire EXCEPT ![id] = Append(@, "greeting")]
                  \/ /\ out # "pending"
                     /\ UNCHANGED <<m_socketMap, wire>>
          /\ UNCHANGED <<open, m_cs, pc, cur, fate, replies, created>>

(* Mutant of NextRequest: the status of the credentials is not looked at.  *)
NextRequestUnchecked(c, r) ==
    CASE c.proxyState = "PS_AUTH" /\ r = "unpw" /\ HasUser -> "auth"
      [] c.proxyState = "PS_AUTH" /\ r \in MethodReplies \cup AssocReplies
                                /\ ~(r = "unpw" /\ HasUser) -> "associate"
      [] c.proxyState = "PS_AUTH_NEGOTIATION" /\ r \in AuthReplies -> "associate"
      [] OTHER -> "none"

(* What an answer makes the state machine of onTcpReceiveComplete send.    *)
(* A reply of version 5 with any method but an expected UNPW is taken for  *)
(* "no authentication", the refusal 0xFF included.                         *)
NextRequest(c, r) ==
    CASE c.proxyState = "PS_AUTH" /\ r = "unpw" /\ HasUser -> "auth"
      [] c.proxyState = "PS_AUTH" /\ r \in MethodReplies \cup AssocReplies
                                /\ ~(r = "unpw" /\ HasUser) -> "associate"
      [] c.proxyState = "PS_AUTH_NEGOTIATION" /\ r = "authok" -> "associate"
      [] OTHER -> "none"

(* Mutant of StateAfter: PS_AUTH_NEGOTIATION is skipped.                   *)
StateAfterAny(request) == "PS_UDP_ASSOC"

StateAfter(request) == IF request = "auth" THEN "PS_AUTH_NEGOTIATION" ELSE "PS_UDP_ASSOC"

Accepts(c, r) == c.proxyState = "PS_UDP_ASSOC" /\ r \in {"v4", "v6", "cut"}

(* onTcpReceiveComplete of no bytes: the control connection is finished.   *)
onTcpReceiveEnd(o) ==
    /\ Dequeued(o, "OVT_TCP_RECEIVE")
    /\ io[o].res = "fail"
    /\ deleteOV_DATA(o)

(* An answer that makes the client send the next request.                  *)
onTcpReceiveRequest(o) ==
    LET id  == ov[o].id
        t   == m_socketMap[id].tcpSocket
        req == NextRequest(m_socketMap[id], io[o].res)
    IN
    /\ Dequeued(o, "OVT_TCP_RECEIVE")
    /\ io[o].res # "fail"
    /\ req # "none"
    /\ \E p \in Ovs, out \in Outcomes(t) :
         /\ newOV_DATA(p, {})
         /\ io' = [io EXCEPT ![p] = SendStarted(out, t), ![o] = Idle]
         /\ ov' = [ov EXCEPT ![p] = Labelled(out, id, "OVT_TCP_SEND", "OVT_TCP_RECEIVE")]
         /\ \/ /\ out = "pending"
               /\ m_socketMap' = [m_socketMap EXCEPT ![id].proxyState = StateAfter(req)]
               /\ wire' = [wire EXCEPT ![id] = Append(@, req)]
            \/ /\ out # "pending"
               /\ UNCHANGED <<m_socketMap, wire>>
    /\ Continue("rearmTcp", o)
    /\ UNCHANGED <<open, m_cs, fate, replies, created>>

(* Mutants of onTcpReceiveAssociated: m_cs is released before the loop;    *)
(* there is no loop.                                                       *)
onTcpReceiveAssociatedUnlocked(o) ==
    LET id == ov[o].id IN
    /\ Dequeued(o, "OVT_TCP_RECEIVE")
    /\ Accepts(m_socketMap[id], io[o].res)
    /\ m_socketMap' = [m_socketMap EXCEPT ![id].proxyState = "PS_CONNECTED",
                                          ![id].remoteAddress = io[o].res]
    /\ io' = [io EXCEPT ![o] = Idle]
    /\ Continue("drain", o)
    /\ UNCHANGED <<open, ov, m_cs, fate, wire, replies, created>>

onTcpReceiveAssociatedUndrained(o) ==
    LET id == ov[o].id IN
    /\ Dequeued(o, "OVT_TCP_RECEIVE")
    /\ Accepts(m_socketMap[id], io[o].res)
    /\ m_socketMap' = [m_socketMap EXCEPT ![id].proxyState = "PS_CONNECTED",
                                          ![id].remoteAddress = io[o].res]
    /\ io' = [io EXCEPT ![o] = Idle]
    /\ Continue("rearmTcp", o)
    /\ UNCHANGED <<open, ov, m_cs, fate, wire, replies, created>>

(* The answer to UDP ASSOCIATE: the association is up, and what was queued *)
(* is sent before m_cs is released.                                        *)
onTcpReceiveAssociated(o) ==
    LET id == ov[o].id IN
    /\ Dequeued(o, "OVT_TCP_RECEIVE")
    /\ Accepts(m_socketMap[id], io[o].res)
    /\ Room(Len(m_socketMap[id].udpSendPackets) + 1)
    /\ m_socketMap' = [m_socketMap EXCEPT ![id].proxyState = "PS_CONNECTED",
                                          ![id].remoteAddress = io[o].res]
    /\ io' = [io EXCEPT ![o] = Idle]
    /\ m_cs' = "worker"
    /\ Continue("drain", o)
    /\ UNCHANGED <<open, ov, fate, wire, replies, created>>

(* Anything else is ignored, and so is what arrives for no connection.     *)
onTcpReceiveIgnored(o) ==
    LET id == ov[o].id IN
    /\ Dequeued(o, "OVT_TCP_RECEIVE")
    /\ io[o].res # "fail"
    /\ NextRequest(m_socketMap[id], io[o].res) = "none"
    /\ ~Accepts(m_socketMap[id], io[o].res)
    /\ io' = [io EXCEPT ![o] = Idle]
    /\ Continue("rearmTcp", o)
    /\ UNCHANGED <<open, ov, m_socketMap, m_cs, fate, wire, replies, created>>

(* Mutant of drain: a datagram that could not be sent is not erased.       *)
drainKeeping ==
    LET id == ov[cur.ov].id
        c  == m_socketMap[id]
        Becomes(f) == fate' = [fate EXCEPT ![id][Head(c.udpSendPackets)] = f]
    IN
    /\ pc = "drain"
    /\ c.udpSendPackets # <<>>
    /\ \/ /\ SendStarts(id)
          /\ m_socketMap' = [m_socketMap EXCEPT ![id].udpSendPackets = Tail(@),
                                                ![id].udpRecvStarted = TRUE]
          /\ Becomes("relayed")
       \/ /\ SendFails(id)
          /\ Becomes("lost")
          /\ UNCHANGED m_socketMap
    /\ UNCHANGED <<open, m_cs, pc, cur, wire, replies, created>>

(* One turn of the loop over udpSendPackets; udpSend's result is ignored.  *)
drain ==
    LET id == ov[cur.ov].id
        c  == m_socketMap[id]
        Becomes(f) == fate' = [fate EXCEPT ![id][Head(c.udpSendPackets)] = f]
    IN
    /\ pc = "drain"
    /\ c.udpSendPackets # <<>>
    /\ \/ /\ SendStarts(id)
          /\ m_socketMap' = [m_socketMap EXCEPT ![id].udpSendPackets = Tail(@),
                                                ![id].udpRecvStarted = TRUE]
          /\ Becomes("relayed")
       \/ /\ SendFails(id)
          /\ m_socketMap' = [m_socketMap EXCEPT ![id].udpSendPackets = Tail(@)]
          /\ Becomes("lost")
    /\ UNCHANGED <<open, m_cs, pc, cur, wire, replies, created>>

(* Mutant of drainEnd: m_cs is never released.                             *)
drainEndLocked ==
    /\ pc = "drain"
    /\ m_socketMap[ov[cur.ov].id].udpSendPackets = <<>>
    /\ pc' = "rearmTcp"
    /\ UNCHANGED <<open, io, ov, m_socketMap, m_cs, cur, fate, wire, replies, created>>

drainEnd ==
    /\ pc = "drain"
    /\ m_socketMap[ov[cur.ov].id].udpSendPackets = <<>>
    /\ m_cs' = "free"
    /\ pc' = "rearmTcp"
    /\ UNCHANGED <<open, io, ov, m_socketMap, cur, fate, wire, replies, created>>

(* startTcpReceive / startUdpReceive with the OV_DATA and the SOCKET value *)
(* the completion came with, after m_cs was released.  The value may be    *)
(* another connection's by now, and its socket not ready to receive.       *)
RearmOutcomes ==
    Outcomes(cur.sock) \cup (IF Has(ov[cur.ov].id) THEN {} ELSE FailOutcomes)

rearm(at) ==
    /\ pc = at
    /\ \E out \in RearmOutcomes :
         /\ io' = [io EXCEPT ![cur.ov] = Started(out, cur.sock)]
         /\ ov' = [ov EXCEPT ![cur.ov] = IF out = "dropped" THEN FreeOv ELSE @]
    /\ pc' = "wait"
    /\ cur' = NoCur
    /\ UNCHANGED <<open, m_socketMap, m_cs, fate, wire, replies, created>>

(* Mutant of onUdpReceiveEnd: the receive is re-armed instead.             *)
onUdpReceiveEndRearmed(o) ==
    /\ Dequeued(o, "OVT_UDP_RECEIVE")
    /\ io[o].res = "fail"
    /\ io' = [io EXCEPT ![o] = Idle]
    /\ Continue("rearmUdp", o)
    /\ UNCHANGED <<open, ov, m_socketMap, m_cs, fate, wire, replies, created>>

(* onUdpReceiveComplete of no bytes: receiving ends for good.              *)
onUdpReceiveEnd(o) ==
    /\ Dequeued(o, "OVT_UDP_RECEIVE")
    /\ io[o].res = "fail"
    /\ deleteOV_DATA(o)

(* Of a datagram: more than four bytes with a known address type go to the *)
(* handler; the map is not consulted.                                      *)
onUdpReceiveComplete(o) ==
    /\ Dequeued(o, "OVT_UDP_RECEIVE")
    /\ io[o].res # "fail"
    /\ io' = [io EXCEPT ![o] = Idle]
    /\ Continue(IF io[o].res \in {"data", "runt"} THEN "callback" ELSE "rearmUdp", o)
    /\ UNCHANGED <<open, ov, m_socketMap, m_cs, fate, wire, replies, created>>

(* m_pProxyHandler->onUdpReceiveComplete, without m_cs.                    *)
callback ==
    /\ pc = "callback"
    /\ pc' = "rearmUdp"
    /\ UNCHANGED <<open, io, ov, m_socketMap, m_cs, cur, fate, wire, replies, created>>

(* GetQueuedCompletionStatus times out after 500 ms and is called again.   *)
workerTimeout == pc = "wait" /\ UNCHANGED vars

-----------------------------------------------------------------------------
(* The kernel and the SOCKS5 proxy.                                        *)

Env == <<open, ov, m_socketMap, m_cs, pc, cur, fate, wire, created>>

connected(o) ==
    /\ ov[o].type = "OVT_CONNECT"
    /\ \/ Complete(o, "ok")
       \/ "connect" \in Faults /\ Complete(o, "fail")
    /\ UNCHANGED <<Env, replies>>

(* The proxy answers the requests of a control connection in turn.         *)
Proper(request) ==
    CASE request = "greeting"  -> {IF HasUser THEN "unpw" ELSE "noauth"}
      [] request = "auth"      -> {"authok"}
      [] request = "associate" -> {"v4"}

(* Whichever receive is pending on the socket takes what arrives there, be *)
(* it one of an endpoint that is gone and of the other kind.               *)
ReceiveTypes == {"OVT_TCP_RECEIVE", "OVT_UDP_RECEIVE"}

TakenAs(type, r) == IF type = "OVT_TCP_RECEIVE" THEN {r} ELSE UdpReplies

answered(id, o) ==
    LET k == Len(replies[id]) + 1 IN
    /\ k <= Len(wire[id])
    /\ ov[o].type \in ReceiveTypes
    /\ io[o].sock = m_socketMap[id].tcpSocket
    /\ \E r \in Proper(wire[id][k]) \cup (IF "reply" \in Faults THEN TcpReplies ELSE {}) :
         /\ \E s \in TakenAs(ov[o].type, r) : Complete(o, s)
         /\ replies' = [replies EXCEPT ![id] = Append(@, r)]
    /\ UNCHANGED Env

hungUp(o) ==
    /\ "close" \in Faults
    /\ ov[o].type \in ReceiveTypes
    /\ \E id \in Conns : io[o].sock = m_socketMap[id].tcpSocket
    /\ Complete(o, "fail")
    /\ UNCHANGED <<Env, replies>>

(* The first byte of a relayed datagram is no SOCKS version.               *)
arrived(o) ==
    /\ ov[o].type \in ReceiveTypes
    /\ \E id \in Conns : io[o].sock = m_socketMap[id].udpSocket
    /\ \E r \in {IF ov[o].type = "OVT_UDP_RECEIVE" THEN "data" ELSE "short"}
                \cup (IF "close" \in Faults THEN {"fail"} ELSE {})
                \cup (IF "reply" \in Faults
                      THEN IF ov[o].type = "OVT_UDP_RECEIVE" THEN UdpReplies ELSE TcpReplies
                      ELSE {}) : Complete(o, r)
    /\ UNCHANGED <<Env, replies>>

-----------------------------------------------------------------------------
Init ==
    /\ OverlappedInit
    /\ ov = [o \in Ovs |-> FreeOv]
    /\ m_socketMap = [id \in Ids |-> NoConn]
    /\ m_cs = "free"
    /\ pc = "wait"
    /\ cur = NoCur
    /\ fate = [id \in Ids |-> <<>>]
    /\ wire = [id \in Ids |-> <<>>]
    /\ replies = [id \in Ids |-> <<>>]
    /\ created = {}

(* What a client may do: a connection is created once for an id, and an    *)
(* endpoint sends at most MaxDgrams datagrams.                             *)
Client(id) ==
    \/ \E ok \in BOOLEAN : id \notin created /\ createProxyConnection(id, ok)
    \/ \E ok \in BOOLEAN : Len(fate[id]) < MaxDgrams /\ udpSend(id, ok)
    \/ deleteProxyConnection(id)

Handle(o) ==
    \/ onConnectFailed(o)
    \/ onConnectComplete(o)
    \/ onTcpSendComplete(o)
    \/ onUdpSendComplete(o)
    \/ onTcpReceiveEnd(o)
    \/ onTcpReceiveRequest(o)
    \/ onTcpReceiveAssociated(o)
    \/ onTcpReceiveIgnored(o)
    \/ onUdpReceiveEnd(o)
    \/ onUdpReceiveComplete(o)

Resume == drain \/ drainEnd \/ callback \/ rearm("rearmTcp") \/ rearm("rearmUdp")

Kernel(o) ==
    \/ connected(o)
    \/ \E id \in Ids : answered(id, o)
    \/ hungUp(o)
    \/ arrived(o)

Next ==
    \/ \E id \in Ids : Client(id)
    \/ \E o \in Ovs : Handle(o) \/ Kernel(o)
    \/ Resume
    \/ workerTimeout

Spec == Init /\ [][Next]_vars

(* Fairness: the worker thread keeps taking completions and runs its       *)
(* handlers to the end; a connection attempt ends and the proxy answers.   *)
(* Nothing is assumed of the callers, of faults or of incoming datagrams.  *)
Fairness ==
    /\ \A o \in Ovs : WF_vars(Handle(o))
    /\ WF_vars(Resume)
    /\ \A o \in Ovs : WF_vars(connected(o))
    /\ \A o \in Ovs, id \in Ids : WF_vars(answered(id, o))

FairSpec == Spec /\ Fairness

-----------------------------------------------------------------------------
(* Properties.                                                             *)

(* Every variable has its type.                                            *)
TypeOK ==
    /\ OverlappedTypeOK
    /\ ov \in [Ovs -> OV_DATA \cup {FreeOv}]
    /\ m_socketMap \in [Ids -> PROXY_DATA \cup {NoConn}]
    /\ m_cs \in {"free", "worker"}
    /\ pc \in {"wait"} \cup Rests
    /\ cur \in [ov : Ovs \cup {0}, sock : Handles \cup {INVALID_SOCKET}, res : Results]
    /\ fate \in [Ids -> Seq(Fates)]
    /\ wire \in [Ids -> Seq({"greeting", "auth", "associate"})]
    /\ replies \in [Ids -> Seq(TcpReplies)]
    /\ created \subseteq Ids

(* An OV_DATA has exactly one owner: the kernel or the port while its      *)
(* operation is pending or completed, the worker while it handles the      *)
(* completion.  So none is freed while the kernel may still write to it    *)
(* or the port hand it out, none is handed to the kernel twice, and none   *)
(* leaks, whichever of the error paths (relabel and post, or delete) ran.  *)
OvOwnership ==
    \A o \in Ovs :
        /\ io[o].st # "idle" => ov[o] # FreeOv /\ cur.ov # o
        /\ ov[o] # FreeOv => io[o].st # "idle" \/ cur.ov = o
        /\ cur.ov = o => ov[o] # FreeOv

(* The sockets that are open are the ones m_socketMap holds, and no two    *)
(* connections share one: createProxyConnection, deleteProxyConnection and *)
(* a failed connect neither leak a socket nor close a foreign one.         *)
SocketsOwned ==
    /\ open = UNION {Sockets(id) : id \in Conns}
    /\ \A id \in Conns : m_socketMap[id].tcpSocket # m_socketMap[id].udpSocket
    /\ \A id, jd \in Conns : id # jd => Sockets(id) \cap Sockets(jd) = {}

(* Where the dialogue stands says what was sent and how it was answered:   *)
(* an association is up only after the proxy accepted UDP ASSOCIATE, which *)
(* was requested once, after the credentials were accepted if any were     *)
(* sent, and these were sent only if configured and asked for.             *)
SocksDialogue ==
    \A id \in Conns :
        LET w == wire[id]
            r == replies[id]
            s == m_socketMap[id].proxyState
        IN
        /\ s = "PS_NONE" => w = <<>>
        /\ s = "PS_AUTH" => w = <<"greeting">>
        /\ s = "PS_AUTH_NEGOTIATION" => w = <<"greeting", "auth">>
        /\ s \in {"PS_UDP_ASSOC", "PS_CONNECTED"} =>
              \/ w = <<"greeting", "associate">> /\ r # <<>>
              \/ w = <<"greeting", "auth", "associate">> /\ Len(r) >= 2 /\ r[2] = "authok"
        /\ Len(w) >= 2 /\ w[2] = "auth" => HasUser /\ r # <<>> /\ r[1] = "unpw"
        /\ s = "PS_CONNECTED" => Len(r) = Len(w) /\ r[Len(r)] \in {"v4", "v6", "cut"}

(* The queue of a connection holds, in the order they were sent, exactly   *)
(* the datagrams udpSend accepted and that have no other fate yet: the     *)
(* concurrent udpSend, drain and delete neither lose nor repeat one.       *)
QueueKeepsAll ==
    \A id \in Ids :
        LET q == m_socketMap[id].udpSendPackets IN
        /\ {q[i] : i \in DOMAIN q} = {n \in DOMAIN fate[id] : fate[id][n] = "queued"}
        /\ \A i, j \in DOMAIN q : i < j => q[i] < q[j]

(* No datagram overtakes an earlier one of its endpoint: one that was      *)
(* relayed, or handed back to be sent directly, has none queued before it. *)
NoOvertaking ==
    \A id \in Ids : \A m, n \in DOMAIN fate[id] :
        m < n /\ fate[id][m] = "queued" => fate[id][n] \in {"queued", "lost"}

(* An association that is up has nothing queued, except while the worker   *)
(* empties the queue inside m_cs: nothing is left behind in it for ever.   *)
NothingStranded ==
    \A id \in Conns :
        /\ m_socketMap[id].proxyState = "PS_CONNECTED"
        /\ m_socketMap[id].udpSendPackets # <<>>
        => m_cs = "worker" /\ pc = "drain" /\ ov[cur.ov].id = id

(* The state of UdpFlow that a state of UDPProxy stands for.               *)
Phase(id) ==
    IF Has(id)
    THEN IF m_socketMap[id].proxyState = "PS_CONNECTED" THEN "up" ELSE "waiting"
    ELSE IF id \in created THEN "gone" ELSE "none"

Flow == INSTANCE UdpFlow WITH phase <- [id \in Ids |-> Phase(id)]

(* UDPProxy implements UdpFlow: whatever the sockets, completions, answers *)
(* and the two threads do, an endpoint sees an association that is set up  *)
(* once and ends once, and each datagram has one fate in its turn: nothing *)
(* is decided while earlier datagrams are queued, the queue leaves from    *)
(* its head, and a fate once given stays.                                  *)
FlowContract == Flow!FlowSpec

(* The receives of an id that are under way.                               *)
Receives(id, type) ==
    {o \in Ovs : ov[o].id = id /\ ov[o].type = type /\ io[o].res # "fail"}

(* At most one receive of each kind is under way for an id, so that the    *)
(* answers of the control connection are handled one at a time and in      *)
(* order; and without faults an association that has sent can still hear.  *)
OneReceiver ==
    \A id \in Ids :
        /\ Cardinality(Receives(id, "OVT_TCP_RECEIVE")) <= 1
        /\ Cardinality(Receives(id, "OVT_UDP_RECEIVE")) <= 1
        /\ Faults = {} /\ m_socketMap[id].udpRecvStarted =>
              Receives(id, "OVT_UDP_RECEIVE") # {}

(* Once a connection is gone every OV_DATA that belonged to it is freed:   *)
(* the aborted operations come back, and a receive that is being re-armed  *)
(* on the closed socket does not go round for ever.                        *)
Reclaimed ==
    \A id \in Ids : id \in created /\ ~Has(id) ~> \A o \in Ovs : ov[o].id # id

(* With a proxy that answers, nothing stays queued.                        *)
NothingQueuedForever ==
    \A id \in Ids : m_socketMap[id].udpSendPackets # <<>>
                      ~> m_socketMap[id].udpSendPackets = <<>>
=============================================================================
