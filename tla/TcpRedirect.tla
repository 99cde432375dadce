---------------------------- MODULE TcpRedirect ----------------------------
(***************************************************************************)
(* The TCP half of EventHandler (netfilter/NFEventHandler.cpp): outgoing   *)
(* connections are redirected to the local SOCKS inbound, and a SOCKS4     *)
(* CONNECT is spoken inside the redirected stream.  All callbacks come     *)
(* from the filter's one thread, so each is one action.  The application   *)
(* sends chunks 1, 2, ... and so does the destination.                     *)
(***************************************************************************)
EXTENDS Integers, Sequences, FiniteSets

CONSTANTS TcpIds,          \* ENDPOINT_IDs of TCP connections
          MaxChunks        \* bound: chunks sent in each direction

ASSUME TcpRedirectAssumption == MaxChunks \in Nat

VARIABLES conn,            \* external: "none", "up" or "closed"
          filtered,        \* external: does the driver indicate the data?
          m_connInfoMap,   \* id -> ORIGINAL_CONN_INFO, or NoInfo
          family,          \* history: original destination of the connection
          appSent,         \* history: chunks the application has sent
          toServer,        \* history: what the SOCKS server was sent
          replied,         \* has the server answered the request?
          split,           \* history: did the reply come in pieces, or with data?
          destSent,        \* history: chunks the destination has sent
          toApp            \* history: what the application was given

tcpVars == <<conn, filtered, m_connInfoMap, family, appSent, toServer, replied,
             split, destSent, toApp>>

(* "v4", "v6": the address family; "proxy": the SOCKS inbound itself.      *)
Families == {"v4", "v6", "proxy"}
REQUEST  == 0              \* a SOCKS4_REQUEST in a stream
REPLY    == 0              \* (a piece of) the reply to it

NoInfo == [remoteAddress |-> "none", pendedSends |-> <<>>]
ORIGINAL_CONN_INFO == [remoteAddress : Families, pendedSends : Seq(Nat)]

Known(id) == m_connInfoMap[id] # NoInfo

-----------------------------------------------------------------------------
(* Mutant of tcpConnectRequest: insert, which keeps an entry of that id.   *)
tcpConnectRequestInsert(id, f) ==
    /\ conn[id] = "none"
    /\ conn' = [conn EXCEPT ![id] = "up"]
    /\ family' = [family EXCEPT ![id] = f]
    /\ m_connInfoMap' = [m_connInfoMap EXCEPT
                           ![id] = IF Known(id) THEN @
                                   ELSE [remoteAddress |-> f, pendedSends |-> <<>>]]
    /\ filtered' = [filtered EXCEPT ![id] = f # "proxy"]
    /\ UNCHANGED <<appSent, toServer, replied, split, destSent, toApp>>

tcpConnectRequest(id, f) ==
    /\ conn[id] = "none"
    /\ conn' = [conn EXCEPT ![id] = "up"]
    /\ family' = [family EXCEPT ![id] = f]
    /\ m_connInfoMap' = [m_connInfoMap EXCEPT
                           ![id] = [remoteAddress |-> f, pendedSends |-> <<>>]]
    /\ filtered' = [filtered EXCEPT ![id] = f # "proxy"]
    /\ UNCHANGED <<appSent, toServer, replied, split, destSent, toApp>>

(* Mutant of tcpSend: the data follows the request at once.                *)
tcpSendEager(id) ==
    LET n == appSent[id] + 1 IN
    /\ conn[id] = "up" /\ n <= MaxChunks
    /\ appSent' = [appSent EXCEPT ![id] = n]
    /\ toServer' = [toServer EXCEPT ![id] =
                      IF filtered[id] /\ Known(id) THEN @ \o <<REQUEST, n>> ELSE Append(@, n)]
    /\ UNCHANGED <<conn, filtered, m_connInfoMap, family, replied, split, destSent, toApp>>

(* The application sends its next chunk.  Until the reply is in, tcpSend   *)
(* posts a request and keeps the chunk, or drops it if the destination was *)
(* IPv6.                                                                   *)
tcpSend(id) ==
    LET n == appSent[id] + 1 IN
    /\ conn[id] = "up" /\ n <= MaxChunks
    /\ appSent' = [appSent EXCEPT ![id] = n]
    /\ \/ /\ filtered[id] /\ Known(id)
          /\ m_connInfoMap[id].remoteAddress = "v6"
          /\ UNCHANGED <<toServer, m_connInfoMap>>
       \/ /\ filtered[id] /\ Known(id)
          /\ m_connInfoMap[id].remoteAddress # "v6"
          /\ toServer' = [toServer EXCEPT ![id] = Append(@, REQUEST)]
          /\ m_connInfoMap' = [m_connInfoMap EXCEPT ![id].pendedSends = Append(@, n)]
       \/ /\ ~(filtered[id] /\ Known(id))
          /\ toServer' = [toServer EXCEPT ![id] = Append(@, n)]
          /\ UNCHANGED m_connInfoMap
    /\ UNCHANGED <<conn, filtered, family, replied, split, destSent, toApp>>

(* Mutants of tcpReceive: the entry stays; nothing happens to it.          *)
tcpReceiveKept(id, data) ==
    /\ toServer' = [toServer EXCEPT ![id] = @ \o m_connInfoMap[id].pendedSends]
    /\ toApp' = [toApp EXCEPT ![id] = IF Known(id) THEN @ ELSE @ \o data]
    /\ m_connInfoMap' = [m_connInfoMap EXCEPT ![id].pendedSends = <<>>]
    /\ filtered' = [filtered EXCEPT ![id] = @ /\ Known(id)]

tcpReceiveIdle(id, data) ==
    /\ toApp' = [toApp EXCEPT ![id] = IF Known(id) THEN @ ELSE @ \o data]
    /\ filtered' = [filtered EXCEPT ![id] = @ /\ Known(id)]
    /\ UNCHANGED <<toServer, m_connInfoMap>>

(* tcpReceive of a buffer holding `data'.  The first one is taken for the  *)
(* reply, whatever it holds: the kept chunks are posted and the entry goes.*)
(* A later one is passed on and ends the filtering.                        *)
tcpReceive(id, data) ==
    \/ /\ Known(id)
       /\ toServer' = [toServer EXCEPT ![id] = @ \o m_connInfoMap[id].pendedSends]
       /\ m_connInfoMap' = [m_connInfoMap EXCEPT ![id] = NoInfo]
       /\ UNCHANGED <<filtered, toApp>>
    \/ /\ ~Known(id)
       /\ toApp' = [toApp EXCEPT ![id] = @ \o data]
       /\ filtered' = [filtered EXCEPT ![id] = FALSE]
       /\ UNCHANGED <<toServer, m_connInfoMap>>

tcpClosed(id) ==
    /\ conn[id] = "up"
    /\ conn' = [conn EXCEPT ![id] = "closed"]
    /\ m_connInfoMap' = [m_connInfoMap EXCEPT ![id] = NoInfo]
    /\ UNCHANGED <<filtered, family, appSent, toServer, replied, split, destSent, toApp>>

Fresh(v) == [id \in TcpIds |-> v]

(* Stop and a later Start: free leaves m_connInfoMap as it is, nf_free ends *)
(* all connections without a tcpClosed, and the driver numbers anew.        *)
Restart ==
    /\ \E id \in TcpIds : conn[id] # "none"
    /\ conn' = Fresh("none") /\ filtered' = Fresh(FALSE) /\ family' = Fresh("v4")
    /\ appSent' = Fresh(0) /\ toServer' = Fresh(<<>>)
    /\ replied' = Fresh(FALSE) /\ split' = Fresh(FALSE)
    /\ destSent' = Fresh(0) /\ toApp' = Fresh(<<>>)
    /\ UNCHANGED m_connInfoMap

-----------------------------------------------------------------------------
(* The SOCKS server: it answers the request at the head of the stream, and *)
(* relays what the destination sends after that.  The reply may arrive in  *)
(* two buffers, or together with the destination's data.                   *)
Indicated(id, data) ==
    \/ filtered[id] /\ tcpReceive(id, data)
    \/ /\ ~filtered[id]
       /\ toApp' = [toApp EXCEPT ![id] = @ \o data]
       /\ UNCHANGED <<filtered, m_connInfoMap, toServer>>

serverReplies(id) ==
    /\ conn[id] = "up" /\ ~replied[id]
    /\ toServer[id] # <<>> /\ toServer[id][1] = REQUEST
    /\ \/ /\ Indicated(id, <<REPLY>>)
          /\ UNCHANGED <<destSent, split>>
       \/ /\ destSent[id] < MaxChunks
          /\ Indicated(id, <<REPLY, destSent[id] + 1>>)
          /\ destSent' = [destSent EXCEPT ![id] = @ + 1]
          /\ split' = [split EXCEPT ![id] = TRUE]
    /\ replied' = [replied EXCEPT ![id] = TRUE]
    /\ UNCHANGED <<conn, family, appSent>>

serverRest(id) ==
    /\ conn[id] = "up" /\ replied[id] /\ destSent[id] = 0 /\ toApp[id] = <<>>
    /\ Indicated(id, <<REPLY>>)
    /\ split' = [split EXCEPT ![id] = TRUE]
    /\ UNCHANGED <<conn, family, appSent, replied, destSent>>

destinationSends(id) ==
    /\ conn[id] = "up" /\ replied[id] /\ destSent[id] < MaxChunks
    /\ destSent' = [destSent EXCEPT ![id] = @ + 1]
    /\ Indicated(id, <<destSent[id] + 1>>)
    /\ UNCHANGED <<conn, family, appSent, replied, split>>

-----------------------------------------------------------------------------
tcpInit ==
    /\ conn = Fresh("none") /\ filtered = Fresh(FALSE) /\ family = Fresh("v4")
    /\ m_connInfoMap = Fresh(NoInfo)
    /\ appSent = Fresh(0) /\ toServer = Fresh(<<>>)
    /\ replied = Fresh(FALSE) /\ split = Fresh(FALSE)
    /\ destSent = Fresh(0) /\ toApp = Fresh(<<>>)

tcpNext ==
    \/ \E id \in TcpIds :
         \/ \E f \in Families : tcpConnectRequest(id, f)
         \/ tcpSend(id)
         \/ tcpClosed(id)
         \/ serverReplies(id)
         \/ serverRest(id)
         \/ destinationSends(id)
    \/ Restart

tcpSpec == tcpInit /\ [][tcpNext]_tcpVars

(* Fairness: the server answers a request it was sent.                     *)
tcpFairSpec == tcpSpec /\ \A id \in TcpIds : WF_tcpVars(serverReplies(id))

-----------------------------------------------------------------------------
(* The data of a stream: what is neither a request nor a piece of the      *)
(* reply; and that it is chunks a, ..., b, each once and in order.         *)
DataAt(s) == {i \in DOMAIN s : s[i] # REQUEST}
Carries(s, a, b) ==
    /\ {s[i] : i \in DataAt(s)} = a .. b
    /\ \A i, j \in DataAt(s) : i < j => s[i] < s[j]

Redirected(id) == family[id] = "v4" /\ conn[id] = "up"

(* Apart from requests, the SOCKS server is sent the application's chunks  *)
(* in order, and what it was not sent yet is kept: none is lost, repeated  *)
(* or reordered where tcpSend, the flush in tcpReceive and the unfiltered  *)
(* part of the stream meet, and none comes from a connection of an earlier *)
(* life that had the same id.                                              *)
PayloadInOrder ==
    \A id \in TcpIds : Redirected(id) =>
        \E k \in 0 .. appSent[id] :
            /\ Carries(toServer[id], 1, k)
            /\ m_connInfoMap[id].pendedSends = [i \in 1 .. appSent[id] - k |-> k + i]

(* The SOCKS server is sent nothing of a redirected connection before it   *)
(* was told the destination, and no data before it has answered; for an    *)
(* IPv6 destination, which SOCKS4 has no request for, nothing at all.      *)
DataAfterReply ==
    \A id \in TcpIds : family[id] # "proxy" /\ toServer[id] # <<>> =>
        /\ family[id] = "v4"
        /\ toServer[id][1] = REQUEST
        /\ ~replied[id] => DataAt(toServer[id]) = {}

(* If the reply arrives in a buffer of its own, the application is given   *)
(* what the destination sent and nothing of the reply.  If not, it may get *)
(* a piece of the reply, and at worst misses the data in the reply's       *)
(* buffer; all later data arrives, in order.                               *)
ReplyIsHidden ==
    \A id \in TcpIds : Redirected(id) =>
        IF split[id] THEN \E k \in {1, 2} : Carries(toApp[id], k, destSent[id])
                     ELSE toApp[id] = [n \in 1 .. destSent[id] |-> n]

(* Chunks of a connection are not kept for ever if the server answers.     *)
PendedIsPosted ==
    \A id \in TcpIds : conn[id] = "up" /\ m_connInfoMap[id].pendedSends # <<>>
                         ~> conn[id] # "up" \/ m_connInfoMap[id].pendedSends = <<>>

(* What the code's comment "Send the request first" promises the server:   *)
(* one request, ahead of the data, so that the rest of the stream is the   *)
(* application's.                                                          *)
RequestOnce ==
    \A id \in TcpIds :
        Cardinality({i \in DOMAIN toServer[id] : toServer[id][i] = REQUEST}) <= 1
=============================================================================
