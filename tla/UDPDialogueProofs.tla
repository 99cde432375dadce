------------------------- MODULE UDPDialogueProofs -------------------------
(***************************************************************************)
(* Who receives what the SOCKS5 proxy sends: one receive of each kind is   *)
(* under way for a connection, on the connection's own socket, and so the  *)
(* dialogue on the control connection takes one answer after the other.    *)
(* For every instance and every fault.                                     *)
(***************************************************************************)
EXTENDS UDPFlowProofs, FiniteSetTheorems, SequenceTheorems

TcpReceive(id) == [id |-> id, type |-> "OVT_TCP_RECEIVE"]
UdpReceive(id) == [id |-> id, type |-> "OVT_UDP_RECEIVE"]

(* A receive that has not failed, and the SOCKET value it goes on with.    *)
Live(o) ==
    /\ ov[o].type \in {"OVT_TCP_RECEIVE", "OVT_UDP_RECEIVE"}
    /\ io[o].res # "fail"

SockOf(o) == IF cur.ov = o THEN cur.sock ELSE io[o].sock

Listens(id) == m_socketMap[id].udpRecvStarted

(* The inductive invariant for the receives.  A connect that is under way  *)
(* excludes a receive of its connection, since its completion starts the   *)
(* first one; udpRecvStarted says whether there was one on the UDP socket. *)
OnePerKind ==
    /\ \A o, p \in Ovs : Live(o) /\ Live(p) /\ ov[o] = ov[p] => o = p
    /\ \A o, p \in Ovs : Connects(o) /\ Live(p) => ov[o].id # ov[p].id
    /\ \A o \in Ovs : Live(o) /\ ov[o].type = "OVT_UDP_RECEIVE" /\ Has(ov[o].id)
                        => Listens(ov[o].id)

OnOwnSocket ==
    \A o \in Ovs, id \in Conns :
        /\ Live(o) /\ ov[o] = TcpReceive(id) => SockOf(o) = m_socketMap[id].tcpSocket
        /\ Live(o) /\ ov[o] = UdpReceive(id) => SockOf(o) = m_socketMap[id].udpSocket

StillHears ==
    Faults = {} => \A id \in Ids : Listens(id) => \E o \in Ovs : Live(o) /\ ov[o] = UdpReceive(id)

NoResultYet == \A o \in Ovs : io[o].st # "queued" => io[o].res = "none"

ReceiveInv == OnePerKind /\ OnOwnSocket /\ StillHears /\ NoResultYet

(* The inductive invariant for the dialogue: at most the last request is   *)
(* not answered, and an answer the worker has yet to handle is the last    *)
(* one, to the last request.                                               *)
AnswerInv ==
    /\ \A id \in Ids \ created : wire[id] = <<>> /\ replies[id] = <<>>
    /\ \A id \in Conns : Len(wire[id]) \in {Len(replies[id]), Len(replies[id]) + 1}
    /\ \A o \in Ovs, id \in Conns :
         ov[o] = TcpReceive(id) /\ io[o].st = "queued" /\ io[o].res # "fail"
           => /\ Len(replies[id]) = Len(wire[id]) /\ replies[id] # <<>>
              /\ io[o].res = replies[id][Len(replies[id])]

DialogueInv == AnswerInv /\ SocksDialogue

-----------------------------------------------------------------------------
(* What the steps of UDPProxy do to the receives.  Most let some fail or   *)
(* end and start at most sends, and connections go or keep their sockets.  *)

OvKept(o) ==
    \/ ov'[o] = ov[o] /\ SockOf(o)' = SockOf(o) /\ (Live(o)' => Live(o))
    \/ ov'[o] = FreeOv
    \/ /\ ov[o] = FreeOv /\ ov'[o] # FreeOv
       /\ ov'[o].type # "OVT_CONNECT" /\ ~Live(o)'
       /\ ov'[o].id \in Conns /\ SockOf(o)' \in Sockets(ov'[o].id)

SocketsKept(id) ==
    /\ m_socketMap'[id].tcpSocket = m_socketMap[id].tcpSocket
    /\ m_socketMap'[id].udpSocket = m_socketMap[id].udpSocket

ConnKept(id) ==
    \/ m_socketMap'[id] = NoConn
    \/ /\ SocketsKept(id)
       /\ Listens(id)' = Listens(id) \/ (Listens(id)' /\ Faults # {})

(* Without faults a receive of a connection goes on while its socket is    *)
(* open.                                                                   *)
LivesOn ==
    Faults = {} => \A o \in Ovs : Live(o) /\ Has(ov[o].id) /\ SockOf(o) \in open'
                                    => Live(o)' /\ ov'[o] = ov[o]

Calm ==
    /\ \A o \in Ovs : OvKept(o)
    /\ \A id \in Ids : ConnKept(id)
    /\ LivesOn

(* The others start a connection, or one of its receives.                  *)
Begins(o, id) ==
    /\ id \notin created
    /\ ov'[o] = [id |-> id, type |-> "OVT_CONNECT"]
    /\ Has(id)' /\ SockOf(o)' \in Sockets(id)'
    /\ \A p \in Ovs \ {o} : OvKept(p)
    /\ ~Listens(id)'
    /\ \A jd \in Ids \ {id} : ConnKept(jd)
    /\ LivesOn

Starts(p, id) ==
    /\ ov[p] = FreeOv
    /\ id \in Conns
    /\ SocketsKept(id)
    /\ \A o \in Ovs \ {p} : OvKept(o)
    /\ \A jd \in Ids \ {id} : ConnKept(jd)
    /\ LivesOn

StartsTcp(p, id) ==
    /\ Starts(p, id)
    /\ ov'[p] = TcpReceive(id) /\ SockOf(p)' = m_socketMap[id].tcpSocket
    /\ \E o \in Ovs : Connects(o) /\ ov[o].id = id /\ ov'[o] = FreeOv
    /\ Listens(id)' = Listens(id)

StartsUdp(p, id) ==
    /\ Starts(p, id)
    /\ ov'[p] = UdpReceive(id) /\ SockOf(p)' = m_socketMap[id].udpSocket /\ Live(p)'
    /\ ~Listens(id) /\ Listens(id)' /\ Up(id)

ReceiveStep ==
    \/ Calm
    \/ \E o \in Ovs, id \in Ids : Begins(o, id) \/ StartsTcp(o, id) \/ StartsUdp(o, id)

-----------------------------------------------------------------------------
(* Labels of a connect, a receive and a free OV_DATA are different.        *)
LEMMA Labels ==
    ASSUME TypeOK
    PROVE  /\ FreeOv.type = "free"
           /\ \A id : /\ TcpReceive(id).type = "OVT_TCP_RECEIVE" /\ TcpReceive(id).id = id
                      /\ UdpReceive(id).type = "OVT_UDP_RECEIVE" /\ UdpReceive(id).id = id
           /\ \A o \in Ovs : Live(o) \/ Connects(o) => ov[o] # FreeOv /\ ov[o].id \in Ids
           /\ \A o \in Ovs : /\ ov[o].type = "OVT_TCP_RECEIVE" => ov[o] = TcpReceive(ov[o].id)
                             /\ ov[o].type = "OVT_UDP_RECEIVE" => ov[o] = UdpReceive(ov[o].id)
  <1>1. FreeOv.type = "free"
    BY DEF FreeOv
  <1>2. \A o \in Ovs : ov[o] = FreeOv \/ ov[o] \in OV_DATA
    BY DEF TypeOK
  <1> QED
    BY <1>1, <1>2 DEF TcpReceive, UdpReceive, Live, Connects, OV_DATA

(* A connection that is there after a step other than its creation was     *)
(* there before, with the same sockets.                                    *)
LEMMA KeptConns ==
    ASSUME TypeOK, TypeOK', NEW id \in Ids, ConnKept(id) \/ SocketsKept(id), Has(id)'
    PROVE  Has(id) /\ SocketsKept(id)
  <1>1. SocketsKept(id)
    BY DEF ConnKept, Has
  <1>2. m_socketMap'[id].tcpSocket \in Handles
    BY OverlappedAssumption, ConnDistinct DEF TypeOK, Has, NoConn, PROXY_DATA
  <1> QED
    BY <1>1, <1>2, HasSocket DEF SocketsKept

(* What is live after a step other than its start was live before, with    *)
(* the same label and socket.                                              *)
LEMMA KeptLive ==
    ASSUME TypeOK', NEW o \in Ovs, OvKept(o), Live(o)' \/ Connects(o)'
    PROVE  /\ ov'[o] = ov[o] /\ SockOf(o)' = SockOf(o)
           /\ Live(o)' => Live(o)
           /\ Connects(o)' => Connects(o)
  BY DEF OvKept, Live, Connects, FreeOv

(* Nothing is live or connecting for an id no connection was created for.  *)
LEMMA NotYet ==
    ASSUME TypeOK, ConnectInv, NEW id \in Ids \ created, NEW o \in Ovs, Live(o) \/ Connects(o)
    PROVE  ov[o].id # id
  BY Labels DEF ConnectInv

(* Each kind of step preserves the uniqueness of receives.                 *)
LEMMA OneKept ==
    ASSUME TypeOK, TypeOK', ConnectInv, OnePerKind, ReceiveStep
    PROVE  OnePerKind'
  <1>1. ASSUME NEW x \in Ovs, NEW y \in Ids,
               \A o \in Ovs \ {x} : OvKept(o),
               \A id \in Ids \ {y} : ConnKept(id),
               SocketsKept(y) \/ ConnKept(y) \/ y \notin created,
               Live(x)' => /\ ov[x] = FreeOv /\ ov'[x].id = y
                           /\ \A o \in Ovs : Live(o) => ov[o] # ov'[x]
                           /\ \A o \in Ovs \ {x} : Connects(o)' => ov[o].id # y
                           /\ ov'[x] = UdpReceive(y) => Listens(y)',
               Connects(x)' => y \notin created /\ ov'[x].id = y,
               \A o \in Ovs \ {x} : Live(o)' /\ ov[o] = UdpReceive(y) /\ Has(y)' => Listens(y)'
        PROVE  OnePerKind'
    <2>1. \A o \in Ovs \ {x} : Live(o)' => ov'[o] = ov[o] /\ Live(o)
      BY <1>1, KeptLive
    <2>2. \A o \in Ovs \ {x} : Connects(o)' => ov'[o] = ov[o] /\ Connects(o)
      BY <1>1, KeptLive
    <2>3. ASSUME NEW o \in Ovs, NEW p \in Ovs, Live(o)', Live(p)', ov'[o] = ov'[p] PROVE o = p
      BY <1>1, <2>1, <2>3 DEF OnePerKind
    <2>4. ASSUME NEW o \in Ovs, NEW p \in Ovs, Connects(o)', Live(p)', ov'[o].id = ov'[p].id
          PROVE  FALSE
      <3>1. o # p
        BY <2>4 DEF Connects, Live
      <3>3. CASE p = x
        BY <1>1, <2>2, <2>4, <3>1, <3>3
      <3>4. CASE o = x
        <4>1. Live(p) /\ ov'[p] = ov[p] /\ ov[p].id = y /\ y \notin created
          BY <1>1, <2>1, <2>4, <3>1, <3>4
        <4> QED
          BY <4>1, NotYet
      <3>5. CASE o # x /\ p # x
        BY <2>1, <2>2, <2>4, <3>5 DEF OnePerKind
      <3> QED
        BY <3>3, <3>4, <3>5
    <2>5. ASSUME NEW o \in Ovs, Live(o)', ov'[o].type = "OVT_UDP_RECEIVE",
                 NEW id, id = ov'[o].id, Has(id)'
          PROVE  Listens(id)'
      <3>1. ov'[o] = UdpReceive(id) /\ id \in Ids
        BY <2>5 DEF TypeOK, OV_DATA, FreeOv, UdpReceive
      <3>2. CASE o = x
        BY <1>1, <2>5, <3>1, <3>2
      <3>3. CASE o # x /\ id # y
        <4>1. Live(o) /\ ov[o] = UdpReceive(id) /\ ConnKept(id)
          BY <1>1, <2>1, <2>5, <3>1, <3>3
        <4>2. Has(id)
          BY <2>5, <3>1, <4>1, KeptConns
        <4>3. Listens(id)
          BY <4>1, <4>2, Labels DEF OnePerKind
        <4> QED
          BY <2>5, <4>1, <4>3 DEF ConnKept, Has
      <3>4. CASE o # x /\ id = y
        BY <1>1, <2>1, <2>5, <3>1, <3>4
      <3> QED
        BY <3>2, <3>3, <3>4
    <2> QED
      BY <2>3, <2>4, <2>5 DEF OnePerKind
  <1>2. CASE Calm
    <2>1. \A o \in Ovs : Live(o)' => ov'[o] = ov[o] /\ Live(o)
      BY <1>2, KeptLive DEF Calm
    <2>2. \A o \in Ovs : Connects(o)' => ov'[o] = ov[o] /\ Connects(o)
      BY <1>2, KeptLive DEF Calm
    <2>3. ASSUME NEW o \in Ovs, Live(o)', ov'[o].type = "OVT_UDP_RECEIVE",
                 NEW id, id = ov'[o].id, Has(id)'
          PROVE  Listens(id)'
      <3>1. Live(o) /\ ov'[o] = ov[o] /\ id \in Ids
        BY <2>1, <2>3, Labels
      <3>2. Has(id) /\ ConnKept(id)
        BY <1>2, <2>3, <3>1, KeptConns DEF Calm
      <3>3. Listens(id)
        BY <2>3, <3>1, <3>2 DEF OnePerKind
      <3> QED
        BY <2>3, <3>2, <3>3 DEF ConnKept, Has
    <2> QED
      BY <2>1, <2>2, <2>3 DEF OnePerKind
  <1>3. ASSUME NEW o \in Ovs, NEW id \in Ids, Begins(o, id) PROVE OnePerKind'
    <2>1. Connects(o)' /\ ~Live(o)' /\ ov'[o].id = id
      BY <1>3 DEF Begins, Connects, Live
    <2>2. \A p \in Ovs \ {o} : Live(p)' => ov[p] # UdpReceive(id)
      <3>1. \A p \in Ovs \ {o} : Live(p)' => Live(p)
        BY <1>3, KeptLive DEF Begins
      <3> QED
        BY <1>3, <3>1, NotYet, Labels DEF Begins
    <2> QED
      BY <1>1, <1>3, <2>1, <2>2 DEF Begins
  <1>4. ASSUME NEW p \in Ovs, NEW id \in Ids, StartsTcp(p, id) PROVE OnePerKind'
    <2>0. ov[p] = FreeOv /\ ov'[p] = TcpReceive(id) /\ ~Connects(p)' /\ Has(id)
      BY <1>4 DEF StartsTcp, Starts, Connects, TcpReceive, Conns
    <2>1. PICK o \in Ovs : Connects(o) /\ ov[o].id = id /\ ov'[o] = FreeOv
      BY <1>4 DEF StartsTcp
    <2>2. \A q \in Ovs : Live(q) => ov[q] # TcpReceive(id)
      BY <2>1, Labels DEF OnePerKind
    <2>3. \A q \in Ovs \ {p} : Connects(q)' => ov[q].id # id
      <3>1. \A q \in Ovs \ {p} : Connects(q)' => Connects(q) /\ ov'[q] = ov[q]
        BY <1>4, KeptLive DEF StartsTcp, Starts
      <3>2. ~Connects(o)'
        BY <2>1 DEF Connects, FreeOv
      <3> QED
        BY <2>1, <3>1, <3>2 DEF ConnectInv
    <2>4. \A q \in Ovs \ {p} : Live(q)' /\ ov[q] = UdpReceive(id) => Listens(id)'
      <3>1. \A q \in Ovs \ {p} : Live(q)' => Live(q)
        BY <1>4, KeptLive DEF StartsTcp, Starts
      <3> QED
        BY <1>4, <2>0, <3>1, Labels DEF OnePerKind, StartsTcp
    <2>5. TcpReceive(id).id = id /\ TcpReceive(id) # UdpReceive(id)
          /\ \A jd : TcpReceive(jd) = TcpReceive(id) => jd = id
      BY Labels
    <2> QED
      BY <1>1, <1>4, <2>0, <2>2, <2>3, <2>4, <2>5 DEF StartsTcp, Starts
  <1>5. ASSUME NEW p \in Ovs, NEW id \in Ids, StartsUdp(p, id) PROVE OnePerKind'
    <2>0. /\ ov[p] = FreeOv /\ ov'[p] = UdpReceive(id) /\ ~Connects(p)' /\ Has(id)
          /\ ~Listens(id) /\ Listens(id)'
      BY <1>5 DEF StartsUdp, Starts, Connects, UdpReceive, Conns
    <2>1. \A q \in Ovs : Live(q) => ov[q] # UdpReceive(id)
      BY <2>0, Labels DEF OnePerKind
    <2>2. UdpReceive(id).id = id
      BY Labels
    <2>3. \A q \in Ovs \ {p} : Connects(q)' => ov[q].id # id
      <3>1. \A q \in Ovs \ {p} : Connects(q)' => Connects(q)
        BY <1>5, KeptLive DEF StartsUdp, Starts
      <3> QED
        BY <1>5, <2>0, <3>1 DEF ConnectInv, StartsUdp, Up
    <2> QED
      BY <1>1, <1>5, <2>0, <2>1, <2>2, <2>3 DEF StartsUdp, Starts
  <1> QED
    BY <1>2, <1>3, <1>4, <1>5 DEF ReceiveStep

(* A receive stays on its connection's own socket.                         *)
LEMMA OwnSocketKept ==
    ASSUME TypeOK, TypeOK', ConnectInv, OnOwnSocket, ReceiveStep
    PROVE  OnOwnSocket'
  <1> SUFFICES ASSUME NEW o \in Ovs, NEW id \in Ids, Has(id)', Live(o)'
               PROVE  /\ ov'[o] = TcpReceive(id) => SockOf(o)' = m_socketMap'[id].tcpSocket
                      /\ ov'[o] = UdpReceive(id) => SockOf(o)' = m_socketMap'[id].udpSocket
    BY DEF OnOwnSocket, Conns
  <1>1. CASE OvKept(o) /\ (ConnKept(id) \/ SocketsKept(id))
    <2>1. Has(id) /\ SocketsKept(id)
      BY <1>1, KeptConns
    <2>2. Live(o) /\ ov'[o] = ov[o] /\ SockOf(o)' = SockOf(o)
      BY <1>1, KeptLive
    <2> QED
      BY <2>1, <2>2 DEF OnOwnSocket, Conns, SocketsKept
  <1>2. CASE Calm
    BY <1>1, <1>2 DEF Calm
  <1>3. ASSUME NEW p \in Ovs, NEW jd \in Ids, Begins(p, jd)
        PROVE  /\ ov'[o] = TcpReceive(id) => SockOf(o)' = m_socketMap'[id].tcpSocket
               /\ ov'[o] = UdpReceive(id) => SockOf(o)' = m_socketMap'[id].udpSocket
    <2>1. o # p
      BY <1>3 DEF Begins, Live
    <2>2. CASE id # jd
      BY <1>1, <1>3, <2>1, <2>2 DEF Begins
    <2>3. CASE id = jd
      <3>1. Live(o) /\ ov'[o] = ov[o] /\ id \notin created
        BY <1>3, <2>1, <2>3, KeptLive DEF Begins
      <3>2. ov'[o].id # id
        BY <3>1, NotYet
      <3> QED
        BY <3>2, Labels
    <2> QED
      BY <2>2, <2>3
  <1>4. ASSUME NEW p \in Ovs, NEW jd \in Ids, StartsTcp(p, jd) \/ StartsUdp(p, jd)
        PROVE  /\ ov'[o] = TcpReceive(id) => SockOf(o)' = m_socketMap'[id].tcpSocket
               /\ ov'[o] = UdpReceive(id) => SockOf(o)' = m_socketMap'[id].udpSocket
    <2>1. CASE o # p
      <3>1. OvKept(o) /\ (ConnKept(id) \/ SocketsKept(id))
        BY <1>4, <2>1 DEF StartsTcp, StartsUdp, Starts
      <3> QED
        BY <1>1, <3>1
    <2>2. CASE o = p
      <3>1. /\ \A x : TcpReceive(x).type = "OVT_TCP_RECEIVE" /\ TcpReceive(x).id = x
            /\ \A x : UdpReceive(x).type = "OVT_UDP_RECEIVE" /\ UdpReceive(x).id = x
        BY Labels
      <3> QED
        BY <1>4, <2>2, <3>1 DEF StartsTcp, StartsUdp, Starts, SocketsKept
    <2> QED
      BY <2>1, <2>2
  <1> QED
    BY <1>2, <1>3, <1>4 DEF ReceiveStep

(* Without faults a connection that has begun to receive still does.       *)
LEMMA StillHearsKept ==
    ASSUME TypeOK, TypeOK', SocketsInv', OnOwnSocket, StillHears, ReceiveStep
    PROVE  StillHears'
  <1> SUFFICES ASSUME Faults = {}, NEW id \in Ids, Listens(id)'
               PROVE  \E o \in Ovs : Live(o)' /\ ov'[o] = UdpReceive(id)
    BY DEF StillHears
  <1>0. Has(id)'
    BY DEF Has, Listens, NoConn
  <1>1. ASSUME ConnKept(id) \/ SocketsKept(id), Listens(id), LivesOn
        PROVE  \E o \in Ovs : Live(o)' /\ ov'[o] = UdpReceive(id)
    <2>1. Has(id) /\ SocketsKept(id)
      BY <1>0, <1>1, KeptConns
    <2>2. PICK o \in Ovs : Live(o) /\ ov[o] = UdpReceive(id)
      BY <1>1 DEF StillHears
    <2>3. SockOf(o) = m_socketMap'[id].udpSocket
      BY <2>1, <2>2 DEF OnOwnSocket, Conns, SocketsKept
    <2>4. m_socketMap'[id].udpSocket \in open'
      BY <1>0 DEF SocketsInv, SocketsOwned, Conns, Sockets
    <2>5. Has(ov[o].id)
      BY <2>1, <2>2, Labels
    <2> QED
      BY <1>1, <2>2, <2>3, <2>4, <2>5 DEF LivesOn
  <1>2. ASSUME ConnKept(id), LivesOn
        PROVE  \E o \in Ovs : Live(o)' /\ ov'[o] = UdpReceive(id)
    BY <1>0, <1>1, <1>2 DEF ConnKept, Has
  <1>3. CASE Calm
    BY <1>2, <1>3 DEF Calm
  <1>4. ASSUME NEW p \in Ovs, NEW jd \in Ids, Begins(p, jd)
        PROVE  \E o \in Ovs : Live(o)' /\ ov'[o] = UdpReceive(id)
    BY <1>2, <1>4 DEF Begins
  <1>5. ASSUME NEW p \in Ovs, NEW jd \in Ids, StartsTcp(p, jd) \/ StartsUdp(p, jd)
        PROVE  \E o \in Ovs : Live(o)' /\ ov'[o] = UdpReceive(id)
    <2>1. CASE id # jd
      BY <1>2, <1>5, <2>1 DEF StartsTcp, StartsUdp, Starts
    <2>2. CASE id = jd /\ StartsTcp(p, jd)
      BY <1>1, <2>2 DEF StartsTcp, Starts
    <2>3. CASE id = jd /\ StartsUdp(p, jd)
      BY <2>3 DEF StartsUdp
    <2> QED
      BY <1>5, <2>1, <2>2, <2>3
  <1> QED
    BY <1>3, <1>4, <1>5 DEF ReceiveStep

-----------------------------------------------------------------------------
(* The states an operation is started in: what is not completed has no     *)
(* result, and only a failed start is completed with a failure.            *)
LEMMA StartShapes ==
    ASSUME NEW h, NEW out \in {"pending", "posted", "dropped"}
    PROVE  /\ Started(out, h).st # "queued" => Started(out, h).res = "none"
           /\ SendStarted(out, h).st # "queued" => SendStarted(out, h).res = "none"
           /\ out # "dropped" => Started(out, h).sock = h /\ SendStarted(out, h).sock = h
           /\ out = "posted" => Started(out, h).res = "fail" /\ SendStarted(out, h).res = "fail"
           /\ out = "pending" => Started(out, h).res = "none" /\ Started(out, h).st = "pending"
  BY DEF Started, SendStarted, Pending, Queued, Idle

(* The label an operation's OV_DATA has then.                              *)
LEMMA StartLabels ==
    ASSUME NEW id, NEW type, NEW onFail, NEW out \in {"pending", "posted", "dropped"}
    PROVE  /\ out = "dropped" => Labelled(out, id, type, onFail) = FreeOv
           /\ out = "posted"  => Labelled(out, id, type, onFail) = [id |-> id, type |-> onFail]
           /\ out = "pending" => Labelled(out, id, type, onFail) = [id |-> id, type |-> type]
  BY DEF Labelled

(* A started operation is pending if no fault is possible and the socket   *)
(* is open.                                                                *)
LEMMA SureStart ==
    ASSUME Faults = {}, NEW h \in open, NEW out \in Outcomes(h)
    PROVE  out = "pending"
  BY DEF Outcomes

(* An OV_DATA nothing happens to is kept,                                  *)
LEMMA UntouchedOv ==
    ASSUME NEW o \in Ovs, ov'[o] = ov[o], io'[o] = io[o],
           \/ cur' = cur
           \/ cur.ov # o /\ cur'.ov # o
    PROVE  OvKept(o)
  BY DEF OvKept, SockOf, Live

(* and so is one allocated for a send, be it started or not,               *)
LEMMA FreshOv ==
    ASSUME NEW p \in Ovs, ov[p] = FreeOv, NEW id \in Conns, cur'.ov # p,
           \/ ov'[p] = FreeOv
           \/ /\ ov'[p].id = id /\ ov'[p] # FreeOv /\ io'[p].sock \in Sockets(id)
              /\ \/ ov'[p].type \in {"OVT_TCP_SEND", "OVT_UDP_SEND"}
                 \/ /\ ov'[p].type \in {"OVT_TCP_RECEIVE", "OVT_UDP_RECEIVE"}
                    /\ io'[p].res = "fail"
    PROVE  OvKept(p)
  BY DEF OvKept, SockOf, Live

(* in particular on the control connection,                                *)
LEMMA ControlOv ==
    ASSUME NEW x \in Ovs, ov[x] = FreeOv, NEW id \in Conns, cur'.ov # x,
           NEW out \in {"pending", "posted", "dropped"},
           NEW type \in {"OVT_TCP_SEND", "OVT_TCP_RECEIVE"},
           out = "pending" => type = "OVT_TCP_SEND",
           ov'[x] = Labelled(out, id, type, "OVT_TCP_RECEIVE"),
           \/ io'[x] = SendStarted(out, m_socketMap[id].tcpSocket)
           \/ io'[x] = Started(out, m_socketMap[id].tcpSocket)
    PROVE  OvKept(x)
  <1> DEFINE t == m_socketMap[id].tcpSocket
  <1>0. t \in Sockets(id)
    BY DEF Sockets
  <1>1. CASE out = "dropped"
    BY <1>1, StartLabels DEF OvKept
  <1>2. CASE out = "posted"
    <2>1. ov'[x] = TcpReceive(id) /\ io'[x].sock = t /\ io'[x].res = "fail"
      BY <1>2, StartLabels, StartShapes DEF TcpReceive
    <2>2. ov'[x].id = id /\ ov'[x].type = "OVT_TCP_RECEIVE" /\ ov'[x] # FreeOv
      BY <2>1 DEF TcpReceive, FreeOv
    <2> QED
      BY <1>0, <2>1, <2>2, FreshOv
  <1>3. CASE out = "pending"
    <2>1. ov'[x] = [id |-> id, type |-> "OVT_TCP_SEND"] /\ io'[x].sock = t
      BY <1>3, StartLabels, StartShapes
    <2>2. ov'[x].id = id /\ ov'[x].type = "OVT_TCP_SEND" /\ ov'[x] # FreeOv
      BY <2>1 DEF FreeOv
    <2> QED
      BY <1>0, <2>1, <2>2, FreshOv
  <1> QED
    BY <1>1, <1>2, <1>3

(* one the worker takes a completion of,                                   *)
LEMMA TakenOv ==
    ASSUME IInv, NoResultYet, NEW o \in Ovs, NEW type, Dequeued(o, type), io[o].res # "fail",
           NEW at, Continue(at, o), ov'[o] = ov[o], io'[o] = Idle
    PROVE  OvKept(o) /\ (Live(o) => Live(o)')
  <1>1. cur.ov # o /\ cur'.ov = o /\ cur'.sock = io[o].sock
    BY OverlappedAssumption DEF IInv, WorkerInv, Dequeued, Continue
  <1>2. Idle.res = "none"
    BY DEF Idle
  <1> QED
    BY <1>1, <1>2 DEF OvKept, SockOf, Live

(* one the kernel completes,                                               *)
LEMMA CompletedOv ==
    ASSUME IInv, NoResultYet, NEW o \in Ovs, NEW r, io[o].st = "pending",
           io'[o] = Queued(io[o].sock, r), ov'[o] = ov[o], cur' = cur
    PROVE  OvKept(o) /\ (Live(o)' => Live(o)) /\ (Live(o) /\ r # "fail" => Live(o)')
  <1>1. cur.ov # o /\ io[o].res = "none"
    BY DEF IInv, OvOwnership, NoResultYet
  <1>2. Queued(io[o].sock, r).sock = io[o].sock /\ Queued(io[o].sock, r).res = r
    BY DEF Queued
  <1> QED
    BY <1>1, <1>2 DEF OvKept, SockOf, Live

(* Where no OV_DATA in use is freed or fails, every receive lives on.      *)
LEMMA AllLiveOn ==
    ASSUME \A o \in Ovs : Live(o) => ov'[o] = ov[o] /\ Live(o)'
    PROVE  LivesOn
  BY DEF LivesOn

(* Updates of the other fields of one connection.                          *)
LEMMA FieldsKept ==
    ASSUME TypeOK, NEW id \in Ids
    PROVE  LET c == m_socketMap[id]
               Same(d) == /\ d.tcpSocket = c.tcpSocket /\ d.udpSocket = c.udpSocket
                          /\ d.udpRecvStarted = c.udpRecvStarted
               Begun(d) == /\ d.tcpSocket = c.tcpSocket /\ d.udpSocket = c.udpSocket
                           /\ d.udpRecvStarted
           IN  /\ \A s : Same([c EXCEPT !.proxyState = s])
               /\ \A s, r : Same([c EXCEPT !.proxyState = s, !.remoteAddress = r])
               /\ \A q : Same([c EXCEPT !.udpSendPackets = q])
               /\ Begun([c EXCEPT !.udpRecvStarted = TRUE])
               /\ \A q : Begun([c EXCEPT !.udpSendPackets = q, !.udpRecvStarted = TRUE])
  <1>1. m_socketMap[id] \in PROXY_DATA \/ m_socketMap[id] = NoConn
    BY DEF TypeOK
  <1> QED
    BY <1>1 DEF PROXY_DATA, NoConn

(* Such an update keeps every connection.                                  *)
LEMMA OneConnKept ==
    ASSUME TypeOK, NEW id \in Ids, NEW d, m_socketMap' = [m_socketMap EXCEPT ![id] = d],
           d.tcpSocket = m_socketMap[id].tcpSocket, d.udpSocket = m_socketMap[id].udpSocket,
           d.udpRecvStarted = m_socketMap[id].udpRecvStarted
    PROVE  \A jd \in Ids : ConnKept(jd) /\ SocketsKept(jd) /\ Listens(jd)' = Listens(jd)
  BY DEF TypeOK, ConnKept, SocketsKept, Listens

(* So does a step that touches none.                                       *)
LEMMA NoConnTouched ==
    ASSUME UNCHANGED m_socketMap
    PROVE  \A jd \in Ids : ConnKept(jd) /\ SocketsKept(jd) /\ Listens(jd)' = Listens(jd)
  BY DEF ConnKept, SocketsKept, Listens

-----------------------------------------------------------------------------
(* The actions, one lemma for each kind.                                   *)

(* A step that changes none of what the receives are about.                *)
LEMMA UntouchedReceives ==
    ASSUME UNCHANGED <<io, ov, cur, m_socketMap>>
    PROVE  Calm
  BY UntouchedOv, NoConnTouched DEF Calm, LivesOn, Live

(* deleteOV_DATA of a completion that is not a live receive.               *)
LEMMA DeleteReceives ==
    ASSUME IInv, NEW o \in Ovs, ~Live(o), deleteOV_DATA(o)
    PROVE  Calm
  <1>1. /\ ov'[o] = FreeOv
        /\ \A p \in Ovs \ {o} : ov'[p] = ov[p] /\ io'[p] = io[p]
        /\ UNCHANGED <<cur, m_socketMap>>
    BY DEF deleteOV_DATA, IInv, TypeOK, OverlappedTypeOK
  <1>2. \A p \in Ovs : OvKept(p)
    BY <1>1, UntouchedOv DEF OvKept
  <1>3. LivesOn
    BY <1>1 DEF LivesOn, Live
  <1> QED
    BY <1>1, <1>2, <1>3, NoConnTouched DEF Calm

(* ~PROXY_DATA, in deleteProxyConnection and onConnectComplete; the        *)
(* latter also frees the OV_DATA of the connect.                           *)
LEMMA DestroyReceives ==
    ASSUME IInv, NoResultYet, NEW id \in Ids, Has(id), Destroy(id), UNCHANGED cur,
           \/ io' = Aborted(Sockets(id)) /\ UNCHANGED ov
           \/ \E o \in Ovs : /\ io' = [Aborted(Sockets(id)) EXCEPT ![o] = Idle]
                             /\ ov' = [ov EXCEPT ![o] = FreeOv] /\ ~Live(o)
    PROVE  Calm
  <1>1. \A jd \in Ids : ConnKept(jd)
    BY DEF Destroy, ConnKept, SocketsKept, Listens, IInv, TypeOK
  <1>2. ASSUME NEW p \in Ovs
        PROVE  OvKept(p) /\ (Live(p) /\ SockOf(p) \in open' => Live(p)' /\ ov'[p] = ov[p])
    <2>1. CASE ov'[p] = FreeOv /\ ~Live(p)
      BY <2>1 DEF OvKept
    <2>2. CASE io'[p] = Aborted(Sockets(id))[p] /\ ov'[p] = ov[p]
      <3>1. CASE io[p].st = "pending" /\ io[p].sock \in Sockets(id)
        <4>1. io'[p] = Queued(io[p].sock, "fail")
          BY <2>2, <3>1 DEF Aborted
        <4>2. OvKept(p)
          BY <2>2, <3>1, <4>1, CompletedOv
        <4>3. SockOf(p) \notin open'
          BY <3>1 DEF SockOf, Destroy, IInv, OvOwnership
        <4> QED
          BY <4>2, <4>3
      <3>2. CASE ~(io[p].st = "pending" /\ io[p].sock \in Sockets(id))
        <4>1. io'[p] = io[p]
          BY <2>2, <3>2 DEF Aborted
        <4> QED
          BY <2>2, <4>1, UntouchedOv DEF Live
      <3> QED
        BY <3>1, <3>2
    <2>3. Aborted(Sockets(id)) \in [Ovs -> IoState] /\ ov \in [Ovs -> OV_DATA \cup {FreeOv}]
      BY AbortedFacts DEF IInv, TypeOK
    <2> QED
      BY <2>1, <2>2, <2>3
  <1> QED
    BY <1>1, <1>2 DEF Calm, LivesOn

(* The kernel completes an operation.                                      *)
LEMMA KernelReceives ==
    ASSUME IInv, NoResultYet, NEW o \in Ovs, Kernel(o)
    PROVE  Calm
  <1>1. PICK r : /\ Complete(o, r)
                 /\ UNCHANGED Env
                 /\ Live(o) /\ Faults = {} => r # "fail"
    <2>1. CASE connected(o)
      BY <2>1 DEF connected, Live
    <2>2. CASE hungUp(o)
      BY <2>2 DEF hungUp
    <2>3. CASE arrived(o)
      BY <2>3 DEF arrived
    <2>4. ASSUME NEW id \in Ids, answered(id, o)
          PROVE  \E r : Complete(o, r) /\ UNCHANGED Env /\ (Live(o) /\ Faults = {} => r # "fail")
      <3>0. wire[id][Len(replies[id]) + 1] \in {"greeting", "auth", "associate"}
        BY <2>4 DEF answered, IInv, TypeOK
      <3>1. Proper(wire[id][Len(replies[id]) + 1]) \subseteq TcpReplies
        BY <3>0 DEF Proper, TcpReplies, MethodReplies, AuthReplies, AssocReplies
      <3>2. \E r \in TcpReplies \cup UdpReplies : Complete(o, r) /\ UNCHANGED Env
        BY <2>4, <3>1 DEF answered, TakenAs
      <3>3. "fail" \notin TcpReplies \cup UdpReplies
        BY DEF TcpReplies, MethodReplies, AuthReplies, AssocReplies, UdpReplies
      <3> QED
        BY <3>2, <3>3
    <2> QED
      BY <2>1, <2>2, <2>3, <2>4 DEF Kernel
  <1>2. /\ io[o].st = "pending" /\ io'[o] = Queued(io[o].sock, r)
        /\ \A p \in Ovs \ {o} : io'[p] = io[p]
        /\ UNCHANGED <<ov, cur, m_socketMap, open>>
    BY <1>1 DEF Complete, Env, IInv, TypeOK, OverlappedTypeOK
  <1>3. OvKept(o) /\ (Live(o) /\ Faults = {} => Live(o)')
    BY <1>1, <1>2, CompletedOv
  <1>4. \A p \in Ovs \ {o} : OvKept(p) /\ (Live(p) => Live(p)')
    BY <1>2, UntouchedOv DEF Live
  <1> QED
    BY <1>2, <1>3, <1>4, NoConnTouched DEF Calm, LivesOn

(* The worker takes a completion and goes on with its OV_DATA.             *)
LEMMA TakenReceives ==
    ASSUME IInv, NoResultYet, NEW o \in Ovs, NEW type, Dequeued(o, type), io[o].res # "fail",
           NEW at, Continue(at, o), UNCHANGED ov, io' = [io EXCEPT ![o] = Idle],
           \A jd \in Ids : ConnKept(jd)
    PROVE  Calm
  <1>1. io'[o] = Idle /\ \A p \in Ovs \ {o} : io'[p] = io[p]
    BY DEF IInv, TypeOK, OverlappedTypeOK
  <1>2. \A p \in Ovs \ {o} : cur.ov # p /\ cur'.ov # p
    BY OverlappedAssumption DEF IInv, WorkerInv, Dequeued, Continue
  <1>3. \A p \in Ovs \ {o} : OvKept(p) /\ (Live(p) => Live(p)')
    BY <1>1, <1>2, UntouchedOv DEF Live
  <1>4. OvKept(o) /\ (Live(o) => Live(o)')
    BY <1>1, TakenOv
  <1> QED
    BY <1>3, <1>4 DEF Calm, LivesOn

(* The worker re-arms a receive with the SOCKET value in its hand.         *)
LEMMA RearmReceives ==
    ASSUME IInv, NoResultYet, NEW at \in {"rearmTcp", "rearmUdp"}, rearm(at)
    PROVE  Calm
  <1>1. PICK out \in RearmOutcomes :
          /\ io' = [io EXCEPT ![cur.ov] = Started(out, cur.sock)]
          /\ ov' = [ov EXCEPT ![cur.ov] = IF out = "dropped" THEN FreeOv ELSE @]
          /\ cur' = NoCur /\ UNCHANGED <<open, m_socketMap>>
    BY DEF rearm
  <1>2. /\ cur.ov \in Ovs /\ 0 \notin Ovs
        /\ out \in {"pending", "posted", "dropped"}
        /\ \A p \in Ovs : cur'.ov # p
    BY <1>1, OverlappedAssumption, RearmOutcomesType DEF rearm, IInv, WorkerInv, NoCur
  <1>3. PICK o \in Ovs : o = cur.ov
    BY <1>2
  <1>4. /\ io'[o] = Started(out, cur.sock)
        /\ ov'[o] = IF out = "dropped" THEN FreeOv ELSE ov[o]
        /\ \A p \in Ovs \ {o} : io'[p] = io[p] /\ ov'[p] = ov[p]
    BY <1>1, <1>3 DEF IInv, TypeOK, OverlappedTypeOK
  <1>5. io[o].res = "none"
    BY <1>3 DEF IInv, OvOwnership, NoResultYet
  <1>6. OvKept(o)
    <2>1. CASE out = "dropped"
      BY <1>4, <2>1 DEF OvKept
    <2>2. CASE out # "dropped"
      <3>1. SockOf(o)' = SockOf(o)
        BY <1>2, <1>3, <1>4, <2>2, StartShapes DEF SockOf
      <3> QED
        BY <1>4, <1>5, <2>2, <3>1 DEF OvKept, Live
    <2> QED
      BY <2>1, <2>2
  <1>7. \A p \in Ovs \ {o} : OvKept(p) /\ (Live(p) => Live(p)')
    BY <1>2, <1>3, <1>4, UntouchedOv DEF Live
  <1>8. Faults = {} /\ SockOf(o) \in open' /\ Live(o) /\ Has(ov[o].id)
          => Live(o)' /\ ov'[o] = ov[o]
    <2>1. CASE Faults = {} /\ cur.sock \in open /\ Has(ov[o].id)
      <3>1. out = "pending"
        BY <1>1, <1>3, <2>1, SureStart DEF RearmOutcomes
      <3> QED
        BY <1>4, <3>1, StartShapes DEF Live
    <2> QED
      BY <1>1, <1>3, <2>1 DEF SockOf
  <1> QED
    BY <1>1, <1>4, <1>6, <1>7, <1>8, NoConnTouched DEF Calm, LivesOn

(* Sending a datagram on an association that is up, and the receive that   *)
(* the first one starts.                                                   *)
LEMMA SendReceives ==
    ASSUME IInv, SocketsInv, NEW id \in Conns, Up(id), UNCHANGED <<cur, open>>,
           \A jd \in Ids : SocketsKept(jd),
           \A jd \in Ids \ {id} : Listens(jd)' = Listens(jd),
           \/ SendFails(id) /\ Listens(id)' = Listens(id)
           \/ SendStarts(id) /\ Listens(id)'
    PROVE  ReceiveStep
  <1> DEFINE u == m_socketMap[id].udpSocket
  <1>0. /\ u \in Sockets(id) /\ u \in open /\ id \in Ids
        /\ io \in [Ovs -> IoState] /\ ov \in [Ovs -> OV_DATA \cup {FreeOv}]
        /\ \A o \in Ovs : ov[o] = FreeOv => cur'.ov # o /\ ~Live(o)
        /\ \A jd \in Ids \ {id} : ConnKept(jd)
    BY DEF Sockets, SocketsInv, SocketsOwned, Conns, IInv, TypeOK, OverlappedTypeOK, OvOwnership,
           ConnKept, Live, FreeOv
  <1>1. ASSUME NEW o \in Ovs, io'[o] = io[o], ov'[o] = ov[o] PROVE OvKept(o) /\ (Live(o) => Live(o)')
    BY <1>1, UntouchedOv DEF Live
  <1>2. ASSUME NEW o \in Ovs, ov[o] = FreeOv,
               ov'[o] = [id |-> id, type |-> "OVT_UDP_SEND"], io'[o] = Queued(u, "ok")
        PROVE  OvKept(o)
    <2>1. /\ ov'[o].id = id /\ ov'[o] # FreeOv /\ ov'[o].type = "OVT_UDP_SEND"
          /\ io'[o].sock = u
      BY <1>2 DEF FreeOv, Queued
    <2> QED
      BY <1>0, <1>2, <2>1, FreshOv
  <1>3. CASE SendFails(id) /\ Listens(id)' = Listens(id)
    <2>1. PICK o \in Ovs, out \in SendToOutcomes(id) \ {"pending"} :
            /\ newOV_DATA(o, {})
            /\ io' = [io EXCEPT ![o] = Started(out, u)]
            /\ ov' = [ov EXCEPT ![o] = Labelled(out, id, "OVT_UDP_SEND", "OVT_UDP_RECEIVE")]
      BY <1>3 DEF SendFails
    <2>2. /\ out \in {"posted", "dropped"} /\ ov[o] = FreeOv
          /\ io'[o] = Started(out, u)
          /\ ov'[o] = Labelled(out, id, "OVT_UDP_SEND", "OVT_UDP_RECEIVE")
          /\ \A p \in Ovs \ {o} : io'[p] = io[p] /\ ov'[p] = ov[p]
      BY <1>0, <2>1, SendToOutcomesType DEF newOV_DATA, m_ovDataSet
    <2>3. OvKept(o)
      <3>1. CASE out = "dropped"
        BY <2>2, <3>1, StartLabels DEF OvKept
      <3>2. CASE out = "posted"
        <4>1. ov'[o] = UdpReceive(id) /\ io'[o].sock = u /\ io'[o].res = "fail"
          BY <2>2, <3>2, StartLabels, StartShapes DEF UdpReceive
        <4>2. ov'[o].id = id /\ ov'[o].type = "OVT_UDP_RECEIVE" /\ ov'[o] # FreeOv
          BY <4>1 DEF UdpReceive, FreeOv
        <4> QED
          BY <1>0, <2>2, <4>1, <4>2, FreshOv
      <3> QED
        BY <2>2, <3>1, <3>2
    <2>4. \A p \in Ovs : OvKept(p) /\ (Live(p) => Live(p)' /\ ov'[p] = ov[p])
      BY <1>0, <1>1, <2>2, <2>3
    <2> QED
      BY <1>0, <1>3, <2>4 DEF ReceiveStep, Calm, LivesOn, ConnKept
  <1>4. CASE SendStarts(id) /\ Listens(id) /\ Listens(id)'
    <2>1. PICK o \in Ovs :
            /\ newOV_DATA(o, {})
            /\ io' = [io EXCEPT ![o] = Queued(u, "ok")]
            /\ ov' = [ov EXCEPT ![o] = [id |-> id, type |-> "OVT_UDP_SEND"]]
      BY <1>4 DEF SendStarts, Listens
    <2>2. /\ ov[o] = FreeOv /\ io'[o] = Queued(u, "ok")
          /\ ov'[o] = [id |-> id, type |-> "OVT_UDP_SEND"]
          /\ \A p \in Ovs \ {o} : io'[p] = io[p] /\ ov'[p] = ov[p]
      BY <1>0, <2>1 DEF newOV_DATA, m_ovDataSet
    <2>3. \A p \in Ovs : OvKept(p) /\ (Live(p) => Live(p)' /\ ov'[p] = ov[p])
      BY <1>0, <1>1, <1>2, <2>2
    <2>4. Listens(id)' = Listens(id)
      <3>1. m_socketMap[id] \in PROXY_DATA
        BY <1>0, Parts DEF IInv, Conns
      <3>2. Listens(id) = TRUE
        BY <1>4, <3>1 DEF Listens, PROXY_DATA
      <3>3. m_socketMap'[id].udpRecvStarted = TRUE
        BY <1>4 DEF Listens
      <3> QED
        BY <3>2, <3>3 DEF Listens
    <2> QED
      BY <1>0, <1>4, <2>3, <2>4 DEF ReceiveStep, Calm, LivesOn, ConnKept
  <1>5. CASE SendStarts(id) /\ ~Listens(id) /\ Listens(id)'
    <2>0. SendStarts(id) /\ ~m_socketMap[id].udpRecvStarted
      BY <1>5 DEF Listens
    <2>1. PICK o \in Ovs, p \in Ovs, out \in Outcomes(u) :
            /\ newOV_DATA(o, {})
            /\ newOV_DATA(p, {o})
            /\ io' = [io EXCEPT ![o] = Queued(u, "ok"), ![p] = Started(out, u)]
            /\ ov' = [ov EXCEPT
                        ![o] = [id |-> id, type |-> "OVT_UDP_SEND"],
                        ![p] = Labelled(out, id, "OVT_UDP_RECEIVE", "OVT_UDP_RECEIVE")]
      BY <2>0 DEF SendStarts
    <2>2. /\ out \in {"pending", "posted", "dropped"} /\ ov[o] = FreeOv /\ ov[p] = FreeOv /\ o # p
      BY <2>1, OutcomesType DEF newOV_DATA, m_ovDataSet
    <2>3. /\ io'[o] = Queued(u, "ok") /\ ov'[o] = [id |-> id, type |-> "OVT_UDP_SEND"]
          /\ io'[p] = Started(out, u)
          /\ ov'[p] = Labelled(out, id, "OVT_UDP_RECEIVE", "OVT_UDP_RECEIVE")
          /\ \A x \in Ovs \ {o, p} : io'[x] = io[x] /\ ov'[x] = ov[x]
      BY <1>0, <2>1, <2>2
    <2>4. \A x \in Ovs \ {p} : OvKept(x) /\ (Live(x) => Live(x)' /\ ov'[x] = ov[x])
      BY <1>0, <1>1, <1>2, <2>2, <2>3
    <2>5. LivesOn
      BY <1>0, <2>2, <2>4 DEF LivesOn
    <2>6. CASE out = "pending"
      <3>1. ov'[p] = UdpReceive(id) /\ io'[p].sock = u /\ io'[p].res = "none"
        BY <2>3, <2>6, StartLabels, StartShapes DEF UdpReceive
      <3>2. SockOf(p)' = u /\ Live(p)'
        BY <1>0, <2>2, <3>1 DEF SockOf, Live, UdpReceive
      <3> QED
        BY <1>0, <1>5, <2>2, <2>4, <2>5, <3>1, <3>2 DEF ReceiveStep, StartsUdp, Starts
    <2>7. CASE out # "pending"
      <3>1. Faults # {}
        BY <1>0, <2>7, SureStart
      <3>2. OvKept(p)
        <4>1. CASE out = "dropped"
          BY <2>3, <4>1, StartLabels DEF OvKept
        <4>2. CASE out = "posted"
          <5>1. ov'[p] = UdpReceive(id) /\ io'[p].sock = u /\ io'[p].res = "fail"
            BY <2>3, <4>2, StartLabels, StartShapes DEF UdpReceive
          <5>2. ov'[p].id = id /\ ov'[p].type = "OVT_UDP_RECEIVE" /\ ov'[p] # FreeOv
            BY <5>1 DEF UdpReceive, FreeOv
          <5> QED
            BY <1>0, <2>2, <5>1, <5>2, FreshOv
        <4> QED
          BY <2>2, <2>7, <4>1, <4>2
      <3> QED
        BY <1>0, <1>5, <2>4, <2>5, <3>1, <3>2 DEF ReceiveStep, Calm, ConnKept
    <2> QED
      BY <2>6, <2>7
  <1> QED
    BY <1>3, <1>4, <1>5

(* The control connection is up: the greeting is sent, receiving started.  *)
LEMMA ConnectReceives ==
    ASSUME IInv, SocketsInv, NoResultYet, NEW o \in Ovs, onConnectComplete(o),
           NEW id, id = ov[o].id, Has(id)
    PROVE  ReceiveStep
  <1> DEFINE t == m_socketMap[id].tcpSocket
  <1>1. Dequeued(o, "OVT_CONNECT")
    BY DEF onConnectComplete
  <1>2. PICK p \in Ovs, q \in Ovs, out \in Outcomes(t), rout \in Outcomes(t) :
          /\ newOV_DATA(p, {})
          /\ newOV_DATA(q, {p})
          /\ io' = [io EXCEPT ![p] = SendStarted(out, t), ![q] = Started(rout, t), ![o] = Idle]
          /\ ov' = [ov EXCEPT
                      ![p] = Labelled(out, id, "OVT_TCP_SEND", "OVT_TCP_RECEIVE"),
                      ![q] = Labelled(rout, id, "OVT_TCP_RECEIVE", "OVT_TCP_RECEIVE"),
                      ![o] = FreeOv]
          /\ \/ m_socketMap' = [m_socketMap EXCEPT ![id].proxyState = "PS_AUTH"]
             \/ UNCHANGED m_socketMap
          /\ UNCHANGED <<open, cur>>
    BY ZenonT(60) DEF onConnectComplete
  <1>3. /\ id \in Ids /\ id \in Conns /\ t \in Sockets(id) /\ ov[o] # FreeOv /\ ~Live(o) /\ Connects(o)
        /\ cur.ov = 0 /\ 0 \notin Ovs
    BY <1>1, Parts, OverlappedAssumption DEF IInv, Dequeued, OvOwnership, Conns, Sockets, Live,
                                             Connects, WorkerInv
  <1>4. /\ ov[p] = FreeOv /\ ov[q] = FreeOv /\ p # q /\ o # p /\ o # q
        /\ out \in {"pending", "posted", "dropped"} /\ rout \in {"pending", "posted", "dropped"}
    BY <1>2, <1>3, OutcomesType DEF newOV_DATA, m_ovDataSet
  <1>5. /\ ov'[o] = FreeOv
        /\ io'[p] = SendStarted(out, t) /\ io'[q] = Started(rout, t)
        /\ ov'[p] = Labelled(out, id, "OVT_TCP_SEND", "OVT_TCP_RECEIVE")
        /\ ov'[q] = Labelled(rout, id, "OVT_TCP_RECEIVE", "OVT_TCP_RECEIVE")
        /\ \A x \in Ovs \ {o, p, q} : io'[x] = io[x] /\ ov'[x] = ov[x]
    <2>1. io \in [Ovs -> IoState] /\ ov \in [Ovs -> OV_DATA \cup {FreeOv}]
      BY DEF IInv, TypeOK, OverlappedTypeOK
    <2> QED
      BY <1>2, <1>4, <2>1
  <1>6. \A x \in Ovs \ {p, q} : OvKept(x) /\ (Live(x) => Live(x)' /\ ov'[x] = ov[x])
    <2>1. OvKept(o)
      BY <1>5 DEF OvKept
    <2> QED
      BY <1>2, <1>3, <1>5, <2>1, UntouchedOv DEF Live
  <1>7. cur'.ov # p /\ cur'.ov # q
    BY <1>2, <1>3
  <1>8. OvKept(p)
    BY <1>3, <1>4, <1>5, <1>7, ControlOv
  <1>9. ~Live(p) /\ ~Live(q)
    BY <1>4 DEF Live, FreeOv
  <1>10. LivesOn
    BY <1>4, <1>6, <1>9 DEF LivesOn
  <1>11. \A jd \in Ids : ConnKept(jd) /\ SocketsKept(jd) /\ Listens(jd)' = Listens(jd)
    <2>1. CASE UNCHANGED m_socketMap
      BY <2>1, NoConnTouched
    <2>2. CASE m_socketMap' = [m_socketMap EXCEPT ![id].proxyState = "PS_AUTH"]
      <3> DEFINE d == [m_socketMap[id] EXCEPT !.proxyState = "PS_AUTH"]
      <3>1. m_socketMap' = [m_socketMap EXCEPT ![id] = d]
        BY <2>2
      <3>2. /\ d.tcpSocket = m_socketMap[id].tcpSocket /\ d.udpSocket = m_socketMap[id].udpSocket
            /\ d.udpRecvStarted = m_socketMap[id].udpRecvStarted
        BY <1>3, FieldsKept DEF IInv
      <3> HIDE DEF d
      <3> QED
        BY <1>3, <3>1, <3>2, OneConnKept DEF IInv
    <2> QED
      BY <1>2, <2>1, <2>2
  <1>12. CASE rout = "pending"
    <2>1. ov'[q] = TcpReceive(id) /\ SockOf(q)' = t
      <3>1. cur'.ov # q
        BY <1>2, <1>3
      <3>2. ov'[q] = TcpReceive(id)
        BY <1>4, <1>5, <1>12, StartLabels DEF TcpReceive
      <3>3. io'[q].sock = t
        BY <1>4, <1>5, <1>12, StartShapes
      <3> QED
        BY <3>1, <3>2, <3>3 DEF SockOf
    <2>2. StartsTcp(q, id)
      BY <1>3, <1>4, <1>5, <1>6, <1>8, <1>10, <1>11, <2>1 DEF StartsTcp, Starts
    <2> QED
      BY <1>3, <2>2 DEF ReceiveStep
  <1>13. CASE rout # "pending"
    <2>1. OvKept(q)
      BY <1>3, <1>4, <1>5, <1>7, <1>13, ControlOv
    <2> QED
      BY <1>6, <1>8, <1>10, <1>11, <2>1 DEF ReceiveStep, Calm
  <1> QED
    BY <1>12, <1>13

(* An answer that makes the client send the next request.                  *)
LEMMA RequestReceives ==
    ASSUME IInv, SocketsInv, NoResultYet, NEW o \in Ovs, onTcpReceiveRequest(o)
    PROVE  ReceiveStep
  <1>0. PICK id : id = ov[o].id
    OBVIOUS
  <1> DEFINE t   == m_socketMap[id].tcpSocket
             req == NextRequest(m_socketMap[id], io[o].res)
  <1>1. id \in Ids /\ Has(id) /\ id \in Conns
    BY <1>0, RequestMoves DEF Conns
  <1>2. /\ Dequeued(o, "OVT_TCP_RECEIVE") /\ io[o].res # "fail" /\ Continue("rearmTcp", o)
        /\ UNCHANGED open
    BY DEF onTcpReceiveRequest
  <1>3. PICK p \in Ovs, out \in Outcomes(t) :
          /\ newOV_DATA(p, {})
          /\ io' = [io EXCEPT ![p] = SendStarted(out, t), ![o] = Idle]
          /\ ov' = [ov EXCEPT ![p] = Labelled(out, id, "OVT_TCP_SEND", "OVT_TCP_RECEIVE")]
          /\ \/ m_socketMap' = [m_socketMap EXCEPT ![id].proxyState = StateAfter(req)]
             \/ UNCHANGED m_socketMap
    BY <1>0 DEF onTcpReceiveRequest
  <1>4. /\ ov[o] # FreeOv /\ ov[p] = FreeOv /\ o # p
        /\ out \in {"pending", "posted", "dropped"}
    BY <1>2, <1>3, OutcomesType DEF newOV_DATA, m_ovDataSet, IInv, Dequeued, OvOwnership
  <1>5. /\ io'[o] = Idle /\ ov'[o] = ov[o]
        /\ io'[p] = SendStarted(out, t)
        /\ ov'[p] = Labelled(out, id, "OVT_TCP_SEND", "OVT_TCP_RECEIVE")
        /\ \A x \in Ovs \ {o, p} : io'[x] = io[x] /\ ov'[x] = ov[x]
    <2>1. io \in [Ovs -> IoState] /\ ov \in [Ovs -> OV_DATA \cup {FreeOv}]
      BY DEF IInv, TypeOK, OverlappedTypeOK
    <2> QED
      BY <1>3, <1>4, <2>1
  <1>6. \A x \in Ovs \ {o} : cur.ov # x /\ cur'.ov # x
    BY <1>2, OverlappedAssumption DEF IInv, WorkerInv, Dequeued, Continue
  <1>7. OvKept(o) /\ (Live(o) => Live(o)')
    BY <1>2, <1>5, TakenOv
  <1>8. OvKept(p) /\ ~Live(p)
    <2>1. OvKept(p)
      BY <1>1, <1>4, <1>5, <1>6, ControlOv
    <2> QED
      BY <1>4, <2>1 DEF Live, FreeOv
  <1>9. \A x \in Ovs \ {o, p} : OvKept(x) /\ (Live(x) => Live(x)')
    BY <1>5, <1>6, UntouchedOv DEF Live
  <1>10. \A jd \in Ids : ConnKept(jd)
    <2>1. CASE UNCHANGED m_socketMap
      BY <2>1, NoConnTouched
    <2>2. CASE m_socketMap' = [m_socketMap EXCEPT ![id].proxyState = StateAfter(req)]
      <3> DEFINE d == [m_socketMap[id] EXCEPT !.proxyState = StateAfter(req)]
      <3>1. m_socketMap' = [m_socketMap EXCEPT ![id] = d]
        BY <2>2
      <3>2. /\ d.tcpSocket = m_socketMap[id].tcpSocket /\ d.udpSocket = m_socketMap[id].udpSocket
            /\ d.udpRecvStarted = m_socketMap[id].udpRecvStarted
        BY <1>1, FieldsKept DEF IInv
      <3> HIDE DEF d
      <3> QED
        BY <1>1, <3>1, <3>2, OneConnKept DEF IInv
    <2> QED
      BY <1>3, <2>1, <2>2
  <1> QED
    BY <1>5, <1>7, <1>8, <1>9, <1>10 DEF ReceiveStep, Calm, LivesOn

(* createProxyConnection starts the connect.                               *)
LEMMA CreateReceives ==
    ASSUME IInv, TypeOK', NEW id \in Ids, id \notin created,
           NEW ok \in BOOLEAN, createProxyConnection(id, ok)
    PROVE  ReceiveStep
  <1>1. CASE UNCHANGED vars
    BY <1>1, UntouchedReceives DEF vars, ReceiveStep
  <1>2. CASE ~UNCHANGED vars
    <2>1. PICK t \in NewHandles, u \in NewHandles, o \in Ovs :
            /\ newOV_DATA(o, {})
            /\ open' = open \cup {t, u}
            /\ m_socketMap' = [m_socketMap EXCEPT ![id] = NewConn(t, u)]
            /\ io' = [io EXCEPT ![o] = Pending(t)]
            /\ ov' = [ov EXCEPT ![o] = [id |-> id, type |-> "OVT_CONNECT"]]
            /\ UNCHANGED cur
      BY <1>2 DEF createProxyConnection
    <2>2. /\ ov[o] = FreeOv /\ cur'.ov # o
          /\ io'[o] = Pending(t) /\ ov'[o] = [id |-> id, type |-> "OVT_CONNECT"]
          /\ \A p \in Ovs \ {o} : io'[p] = io[p] /\ ov'[p] = ov[p]
          /\ m_socketMap'[id] = NewConn(t, u)
          /\ \A jd \in Ids \ {id} : m_socketMap'[jd] = m_socketMap[jd]
      <3>1. ov[o] = FreeOv
        BY <2>1 DEF newOV_DATA, m_ovDataSet
      <3> QED
        BY <2>1, <3>1 DEF IInv, TypeOK, OverlappedTypeOK, OvOwnership
    <2>3. \A p \in Ovs \ {o} : OvKept(p) /\ ov'[p] = ov[p] /\ SockOf(p)' = SockOf(p)
                               /\ (Live(p) => Live(p)')
      BY <2>1, <2>2, UntouchedOv DEF Live, SockOf
    <2>4. LivesOn
      BY <2>2, <2>3 DEF LivesOn, Live, FreeOv
    <2>5. /\ Has(id)' /\ ~Listens(id)' /\ SockOf(o)' \in Sockets(id)' /\ Sockets(id)' = {t, u}
      <3>1. NewConn(t, u).udpRecvStarted = FALSE /\ NewConn(t, u).proxyState # NoConn.proxyState
            /\ NewConn(t, u).tcpSocket = t /\ NewConn(t, u).udpSocket = u
        BY DEF NewConn, NoConn
      <3>2. SockOf(o)' = t
        BY <2>2 DEF SockOf, Pending
      <3> QED
        BY <2>2, <3>1, <3>2 DEF Has, Listens, Sockets
    <2>7. \A jd \in Ids \ {id} : ConnKept(jd)
      BY <2>2 DEF ConnKept, SocketsKept, Listens
    <2>8. Begins(o, id)
      BY <2>2, <2>3, <2>4, <2>5, <2>7 DEF Begins
    <2> QED
      BY <2>8 DEF ReceiveStep
  <1> QED
    BY <1>1, <1>2

(* udpSend of the filter thread.                                           *)
LEMMA UdpSendReceives ==
    ASSUME IInv, SocketsInv, NEW id \in Ids, NEW ok \in BOOLEAN, udpSend(id, ok)
    PROVE  ReceiveStep
  <1> DEFINE c == m_socketMap[id]
  <1>0. TypeOK /\ UNCHANGED <<cur, open>>
    BY DEF IInv, udpSend
  <1>1. CASE UNCHANGED <<io, ov, m_socketMap>>
    BY <1>0, <1>1, UntouchedReceives DEF ReceiveStep
  <1>2. CASE /\ UNCHANGED <<io, ov>>
             /\ m_socketMap' = [m_socketMap EXCEPT ![id].udpSendPackets = Append(@, Len(fate[id]) + 1)]
    <2> DEFINE d == [c EXCEPT !.udpSendPackets = Append(c.udpSendPackets, Len(fate[id]) + 1)]
    <2>1. m_socketMap' = [m_socketMap EXCEPT ![id] = d]
      BY <1>2
    <2>2. /\ d.tcpSocket = c.tcpSocket /\ d.udpSocket = c.udpSocket
          /\ d.udpRecvStarted = c.udpRecvStarted
      BY <1>0, FieldsKept
    <2> HIDE DEF d
    <2>3. \A jd \in Ids : ConnKept(jd)
      BY <1>0, <2>1, <2>2, OneConnKept
    <2> QED
      BY <1>0, <1>2, <2>3, UntouchedOv DEF ReceiveStep, Calm, LivesOn, Live
  <1>3. CASE Has(id) /\ Up(id) /\ SendFails(id) /\ UNCHANGED m_socketMap
    BY <1>0, <1>3, NoConnTouched, SendReceives DEF Conns
  <1>4. CASE /\ Has(id) /\ Up(id) /\ SendStarts(id)
             /\ m_socketMap' = [m_socketMap EXCEPT ![id].udpRecvStarted = TRUE]
    <2> DEFINE d == [c EXCEPT !.udpRecvStarted = TRUE]
    <2>1. m_socketMap' = [m_socketMap EXCEPT ![id] = d]
      BY <1>4
    <2>2. d.tcpSocket = c.tcpSocket /\ d.udpSocket = c.udpSocket /\ d.udpRecvStarted
      BY <1>0, FieldsKept
    <2> HIDE DEF d
    <2>3. m_socketMap'[id] = d /\ \A jd \in Ids \ {id} : m_socketMap'[jd] = m_socketMap[jd]
      BY <1>0, <2>1 DEF TypeOK
    <2>4. /\ \A jd \in Ids : SocketsKept(jd)
          /\ Listens(id)' /\ \A jd \in Ids \ {id} : Listens(jd)' = Listens(jd)
      BY <2>2, <2>3 DEF SocketsKept, Listens
    <2> QED
      BY <1>0, <1>4, <2>4, SendReceives DEF Conns
  <1> QED
    BY <1>1, <1>2, <1>3, <1>4 DEF udpSend, Up

(* One turn of the loop over the queue.                                    *)
LEMMA DrainReceives ==
    ASSUME IInv, SocketsInv, QueueInv, drain
    PROVE  ReceiveStep
  <1>0. PICK id : id = ov[cur.ov].id
    OBVIOUS
  <1> DEFINE c == m_socketMap[id]
             q == Tail(c.udpSendPackets)
  <1>1. /\ TypeOK /\ UNCHANGED <<cur, open>> /\ id \in Conns /\ id \in Ids /\ Up(id)
    <2>1. TypeOK /\ UNCHANGED <<cur, open>> /\ id \in Conns /\ id \in Ids
      BY <1>0, Parts DEF IInv, drain, WorkerInv, OvOwnership, Conns
    <2> QED
      BY <1>0, <2>1 DEF QueueInv, FlowInv, Draining, drain
  <1>2. CASE /\ SendStarts(id)
             /\ m_socketMap' = [m_socketMap EXCEPT ![id].udpSendPackets = Tail(@),
                                                   ![id].udpRecvStarted = TRUE]
    <2> DEFINE d == [c EXCEPT !.udpSendPackets = q, !.udpRecvStarted = TRUE]
    <2>1. m_socketMap'[id] = d /\ \A jd \in Ids \ {id} : m_socketMap'[jd] = m_socketMap[jd]
      BY <1>1, <1>2 DEF TypeOK
    <2>2. d.tcpSocket = c.tcpSocket /\ d.udpSocket = c.udpSocket /\ d.udpRecvStarted
      BY <1>1, FieldsKept
    <2> HIDE DEF d
    <2>3. /\ \A jd \in Ids : SocketsKept(jd)
          /\ Listens(id)' /\ \A jd \in Ids \ {id} : Listens(jd)' = Listens(jd)
      BY <2>1, <2>2 DEF SocketsKept, Listens
    <2> QED
      BY <1>1, <1>2, <2>3, SendReceives
  <1>3. CASE SendFails(id) /\ m_socketMap' = [m_socketMap EXCEPT ![id].udpSendPackets = Tail(@)]
    <2> DEFINE d == [c EXCEPT !.udpSendPackets = q]
    <2>1. m_socketMap' = [m_socketMap EXCEPT ![id] = d]
      BY <1>3
    <2>2. /\ d.tcpSocket = c.tcpSocket /\ d.udpSocket = c.udpSocket
          /\ d.udpRecvStarted = c.udpRecvStarted
      BY <1>1, FieldsKept
    <2> HIDE DEF d
    <2>3. \A jd \in Ids : SocketsKept(jd) /\ Listens(jd)' = Listens(jd)
      BY <1>1, <2>1, <2>2, OneConnKept
    <2> QED
      BY <1>1, <1>3, <2>3, SendReceives
  <1> QED
    BY <1>0, <1>2, <1>3 DEF drain

(* Every step is of one of the kinds.                                      *)
LEMMA ReceiveKinds ==
    ASSUME IInv, TypeOK', SocketsInv, QueueInv, NoResultYet, [Next]_vars
    PROVE  ReceiveStep
  <1>1. CASE UNCHANGED <<io, ov, cur, m_socketMap>>
    BY <1>1, UntouchedReceives DEF ReceiveStep
  <1>2. ASSUME NEW id \in Ids, Client(id) PROVE ReceiveStep
    <2>1. ASSUME NEW ok \in BOOLEAN, id \notin created, createProxyConnection(id, ok) PROVE ReceiveStep
      BY <2>1, CreateReceives
    <2>2. ASSUME NEW ok \in BOOLEAN, udpSend(id, ok) PROVE ReceiveStep
      BY <2>2, UdpSendReceives
    <2>3. CASE deleteProxyConnection(id)
      <3>1. CASE Has(id) /\ Destroy(id) /\ io' = Aborted(Sockets(id)) /\ UNCHANGED <<ov, cur>>
        BY <3>1, DestroyReceives DEF ReceiveStep
      <3> QED
        BY <1>1, <2>3, <3>1 DEF deleteProxyConnection, vars
    <2> QED
      BY <1>2, <2>1, <2>2, <2>3 DEF Client
  <1>3. ASSUME NEW o \in Ovs, Handle(o) PROVE ReceiveStep
    <2>1. CASE onConnectFailed(o)
      <3>0. ~Live(o)
        BY <2>1 DEF onConnectFailed, Dequeued, Live
      <3>1. PICK id \in Ids : id = ov[o].id
        BY <2>1, Parts DEF onConnectFailed, Dequeued, IInv, OvOwnership
      <3>2. CASE Has(id)
        BY <2>1, <3>0, <3>1, <3>2, DestroyReceives DEF onConnectFailed, ReceiveStep
      <3>3. CASE ~Has(id)
        BY <2>1, <3>0, <3>1, <3>3, DeleteReceives DEF onConnectFailed, ReceiveStep
      <3> QED
        BY <3>2, <3>3
    <2>2. CASE onConnectComplete(o)
      <3>0. ~Live(o)
        BY <2>2 DEF onConnectComplete, Dequeued, Live
      <3>1. CASE Has(ov[o].id)
        BY <2>2, <3>1, ConnectReceives
      <3>2. CASE ~Has(ov[o].id)
        BY <2>2, <3>0, <3>2, DeleteReceives DEF onConnectComplete, ReceiveStep
      <3> QED
        BY <3>1, <3>2
    <2>3. CASE onTcpSendComplete(o) \/ onUdpSendComplete(o) \/ onTcpReceiveEnd(o) \/ onUdpReceiveEnd(o)
      <3>1. ~Live(o) /\ deleteOV_DATA(o)
        BY <2>3 DEF onTcpSendComplete, onUdpSendComplete, onTcpReceiveEnd, onUdpReceiveEnd,
                    Dequeued, Live
      <3> QED
        BY <3>1, DeleteReceives DEF ReceiveStep
    <2>4. CASE onTcpReceiveRequest(o)
      BY <2>4, RequestReceives
    <2>5. CASE onTcpReceiveAssociated(o)
      <3>1. PICK id \in Ids : id = ov[o].id
        BY <2>5, AssociatedMoves
      <3> DEFINE d == [m_socketMap[id] EXCEPT !.proxyState = "PS_CONNECTED", !.remoteAddress = io[o].res]
      <3>2. /\ Dequeued(o, "OVT_TCP_RECEIVE") /\ io[o].res # "fail" /\ Continue("drain", o)
            /\ UNCHANGED ov /\ io' = [io EXCEPT ![o] = Idle]
            /\ m_socketMap' = [m_socketMap EXCEPT ![id].proxyState = "PS_CONNECTED",
                                                  ![id].remoteAddress = io[o].res]
        BY <2>5, <3>1 DEF onTcpReceiveAssociated, Accepts
      <3>3. m_socketMap' = [m_socketMap EXCEPT ![id] = d]
        BY <3>2 DEF IInv, TypeOK
      <3>4. /\ d.tcpSocket = m_socketMap[id].tcpSocket /\ d.udpSocket = m_socketMap[id].udpSocket
            /\ d.udpRecvStarted = m_socketMap[id].udpRecvStarted
        BY FieldsKept DEF IInv
      <3> HIDE DEF d
      <3>5. \A jd \in Ids : ConnKept(jd)
        BY <3>3, <3>4, OneConnKept DEF IInv
      <3> QED
        BY <3>2, <3>5, TakenReceives DEF ReceiveStep
    <2>6. CASE onTcpReceiveIgnored(o) \/ onUdpReceiveComplete(o)
      <3>1. PICK type, at : /\ Dequeued(o, type) /\ io[o].res # "fail" /\ Continue(at, o)
                            /\ UNCHANGED <<ov, m_socketMap>> /\ io' = [io EXCEPT ![o] = Idle]
        BY <2>6 DEF onTcpReceiveIgnored, onUdpReceiveComplete
      <3>2. \A jd \in Ids : ConnKept(jd)
        BY <3>1, NoConnTouched
      <3> QED
        BY <3>1, <3>2, TakenReceives DEF ReceiveStep
    <2> QED
      BY <1>3, <2>1, <2>2, <2>3, <2>4, <2>5, <2>6 DEF Handle
  <1>4. ASSUME NEW o \in Ovs, Kernel(o) PROVE ReceiveStep
    BY <1>4, KernelReceives DEF ReceiveStep
  <1>5. CASE drain
    BY <1>5, DrainReceives
  <1>6. CASE rearm("rearmTcp") \/ rearm("rearmUdp")
    BY <1>6, RearmReceives DEF ReceiveStep
  <1>7. CASE drainEnd \/ callback \/ workerTimeout \/ UNCHANGED vars
    BY <1>1, <1>7 DEF drainEnd, callback, workerTimeout, vars
  <1> QED
    BY <1>2, <1>3, <1>4, <1>5, <1>6, <1>7 DEF Next, Resume

(* No step gives an operation that is not completed a result.              *)
LEMMA NextNoResult ==
    ASSUME IInv, NoResultYet, [Next]_vars
    PROVE  NoResultYet'
  <1> DEFINE Bare(s) == s.st # "queued" => s.res = "none"
  <1>0. io \in [Ovs -> IoState]
    BY DEF IInv, TypeOK, OverlappedTypeOK
  <1>1. Bare(Idle) /\ (\A h : Bare(Pending(h))) /\ (\A h, r : Bare(Queued(h, r)))
    BY DEF Idle, Pending, Queued
  <1>2. \A h : \A out \in Outcomes(h) : Bare(Started(out, h)) /\ Bare(SendStarted(out, h))
    BY OutcomesType, StartShapes
  <1>3. ASSUME \A o \in Ovs : io'[o] = io[o] \/ Bare(io'[o]) PROVE NoResultYet'
    BY <1>3 DEF NoResultYet
  <1>4. CASE UNCHANGED io
    BY <1>3, <1>4
  <1>5. ASSUME NEW id, SendStarts(id) \/ SendFails(id) PROVE NoResultYet'
    <2>1. \A h : \A out \in SendToOutcomes(id) : Bare(Started(out, h))
      BY SendToOutcomesType, StartShapes
    <2> HIDE DEF Bare
    <2>2. CASE SendFails(id)
      BY <1>0, <1>3, <2>1, <2>2 DEF SendFails
    <2>3. CASE SendStarts(id)
      BY <1>0, <1>1, <1>2, <1>3, <2>3 DEF SendStarts
    <2> QED
      BY <1>5, <2>2, <2>3
  <1>6. ASSUME NEW id \in Ids, Client(id) PROVE NoResultYet'
    <2>1. ASSUME NEW ok \in BOOLEAN, createProxyConnection(id, ok) PROVE NoResultYet'
      <3>1. CASE \E h : \E o \in Ovs : io' = [io EXCEPT ![o] = Pending(h)]
        <4> HIDE DEF Bare
        <4> QED
          BY <1>0, <1>1, <1>3, <3>1
      <3> QED
        BY <1>4, <2>1, <3>1 DEF createProxyConnection, vars
    <2>2. CASE deleteProxyConnection(id)
      <3>1. CASE io' = Aborted(Sockets(id))
        BY <1>0, <1>1, <1>3, <3>1 DEF Aborted
      <3> QED
        BY <1>4, <2>2, <3>1 DEF deleteProxyConnection, vars
    <2> QED
      BY <1>4, <1>5, <1>6, <2>1, <2>2 DEF Client, udpSend
  <1>7. ASSUME NEW o \in Ovs, Handle(o) PROVE NoResultYet'
    <2>1. CASE io' = [io EXCEPT ![o] = Idle]
      <3> HIDE DEF Bare
      <3> QED
        BY <1>0, <1>1, <1>3, <2>1
    <2>2. ASSUME NEW id, io' = [Aborted(Sockets(id)) EXCEPT ![o] = Idle] PROVE NoResultYet'
      BY <1>0, <1>1, <1>3, <2>2 DEF Aborted
    <2>3. CASE onConnectComplete(o)
      <3> DEFINE t == m_socketMap[ov[o].id].tcpSocket
      <3>1. CASE deleteOV_DATA(o)
        BY <2>1, <3>1 DEF deleteOV_DATA
      <3>2. CASE Has(ov[o].id)
        <4>1. PICK p \in Ovs, q \in Ovs, out \in Outcomes(t), rout \in Outcomes(t) :
                /\ newOV_DATA(p, {})
                /\ newOV_DATA(q, {p})
                /\ io' = [io EXCEPT ![p] = SendStarted(out, t), ![q] = Started(rout, t), ![o] = Idle]
                /\ ov' = [ov EXCEPT
                            ![p] = Labelled(out, ov[o].id, "OVT_TCP_SEND", "OVT_TCP_RECEIVE"),
                            ![q] = Labelled(rout, ov[o].id, "OVT_TCP_RECEIVE", "OVT_TCP_RECEIVE"),
                            ![o] = FreeOv]
                /\ \/ /\ m_socketMap' = [m_socketMap EXCEPT ![ov[o].id].proxyState = "PS_AUTH"]
                      /\ wire' = [wire EXCEPT ![ov[o].id] = Append(@, "greeting")]
                   \/ UNCHANGED <<m_socketMap, wire>>
                /\ UNCHANGED <<open, m_cs, pc, cur, fate, replies, created>>
          BY <2>3, <3>2 DEF onConnectComplete
        <4> HIDE DEF Bare, t
        <4>2. Bare(SendStarted(out, t)) /\ Bare(Started(rout, t)) /\ Bare(Idle)
          BY <1>1, <1>2
        <4>3. \A x \in Ovs : io'[x] = io[x] \/ Bare(io'[x])
          BY <1>0, <4>1, <4>2
        <4> QED
          BY <1>3, <4>3
      <3> QED
        BY <2>3, <3>1, <3>2 DEF onConnectComplete
    <2>4. CASE onTcpReceiveRequest(o)
      <3>1. \E t, p : \E out \in Outcomes(t) : io' = [io EXCEPT ![p] = SendStarted(out, t), ![o] = Idle]
        BY <2>4 DEF onTcpReceiveRequest
      <3> HIDE DEF Bare
      <3> QED
        BY <1>0, <1>1, <1>2, <1>3, <3>1
    <2> QED
      BY <1>7, <2>1, <2>2, <2>3, <2>4 DEF Handle, onConnectFailed, onTcpSendComplete,
           onUdpSendComplete, onTcpReceiveEnd, onTcpReceiveAssociated, onTcpReceiveIgnored,
           onUdpReceiveEnd, onUdpReceiveComplete, deleteOV_DATA
  <1>8. ASSUME NEW o \in Ovs, Kernel(o) PROVE NoResultYet'
    <2>1. \E r : io' = [io EXCEPT ![o] = Queued(io[o].sock, r)]
      BY <1>8 DEF Kernel, connected, answered, hungUp, arrived, Complete
    <2> HIDE DEF Bare
    <2> QED
      BY <1>0, <1>1, <1>3, <2>1
  <1>9. CASE Resume
    <2>1. CASE \E out \in RearmOutcomes : io' = [io EXCEPT ![cur.ov] = Started(out, cur.sock)]
      <3>1. PICK out \in RearmOutcomes : io' = [io EXCEPT ![cur.ov] = Started(out, cur.sock)]
        BY <2>1
      <3>2. Bare(Started(out, cur.sock))
        BY <3>1, RearmOutcomesType, StartShapes
      <3> HIDE DEF Bare
      <3> QED
        BY <1>0, <1>3, <3>1, <3>2
    <2> QED
      BY <1>4, <1>5, <1>9, <2>1 DEF Resume, drain, drainEnd, callback, rearm
  <1> QED
    BY <1>4, <1>6, <1>7, <1>8, <1>9 DEF Next, workerTimeout, vars

-----------------------------------------------------------------------------
(* A set whose elements are all the same has at most one.                  *)
LEMMA AtMostOne ==
    ASSUME NEW S, \A x, y \in S : x = y
    PROVE  Cardinality(S) <= 1
  <1>1. CASE S = {}
    BY <1>1, FS_EmptySet
  <1>2. ASSUME NEW x \in S PROVE Cardinality(S) <= 1
    <2>1. S = {x}
      BY <1>2
    <2>2. Cardinality({x}) = 1
      BY FS_Singleton
    <2> QED
      BY <2>1, <2>2
  <1> QED
    BY <1>1, <1>2

(* What the invariant says of the receives.                                *)
LEMMA ReceiveImplies == IInv /\ ReceiveInv => OneReceiver
  <1> SUFFICES ASSUME IInv, ReceiveInv PROVE OneReceiver
    OBVIOUS
  <1> SUFFICES ASSUME NEW id \in Ids
               PROVE  /\ Cardinality(Receives(id, "OVT_TCP_RECEIVE")) <= 1
                      /\ Cardinality(Receives(id, "OVT_UDP_RECEIVE")) <= 1
                      /\ Faults = {} /\ m_socketMap[id].udpRecvStarted =>
                            Receives(id, "OVT_UDP_RECEIVE") # {}
    BY DEF OneReceiver
  <1>1. ASSUME NEW type \in {"OVT_TCP_RECEIVE", "OVT_UDP_RECEIVE"}
        PROVE  Cardinality(Receives(id, type)) <= 1
    <2>1. \A o \in Receives(id, type) : /\ o \in Ovs /\ Live(o)
                                        /\ ov[o] \in {TcpReceive(id), UdpReceive(id)}
                                        /\ ov[o].type = type
      BY <1>1, Labels DEF Receives, Live, IInv
    <2>2. \A o, p \in Receives(id, type) : ov[o] = ov[p]
      BY <2>1, Labels DEF IInv
    <2>3. \A o, p \in Receives(id, type) : o = p
      BY <2>1, <2>2 DEF ReceiveInv, OnePerKind
    <2> QED
      BY <2>3, AtMostOne
  <1>2. Faults = {} /\ m_socketMap[id].udpRecvStarted => Receives(id, "OVT_UDP_RECEIVE") # {}
    <2> SUFFICES ASSUME Faults = {}, Listens(id) PROVE Receives(id, "OVT_UDP_RECEIVE") # {}
      BY DEF Listens
    <2>1. PICK o \in Ovs : Live(o) /\ ov[o] = UdpReceive(id)
      BY DEF ReceiveInv, StillHears
    <2>2. o \in Receives(id, "OVT_UDP_RECEIVE")
      BY <2>1, Labels DEF Receives, Live, IInv
    <2> QED
      BY <2>2
  <1> QED
    BY <1>1, <1>2

(* The invariant holds initially,                                          *)
LEMMA InitReceives == Init => FlowIInv /\ ReceiveInv
  <1> SUFFICES ASSUME Init PROVE FlowIInv /\ ReceiveInv
    OBVIOUS
  <1>0. FreeOv.type = "free"
    BY DEF FreeOv
  <1>1. \A o \in Ovs : ov[o] = FreeOv /\ io[o] = Idle /\ ~Live(o) /\ ~Connects(o)
    BY <1>0 DEF Init, OverlappedInit, Live, Connects
  <1>2. \A id \in Ids : ~Listens(id) /\ ~Has(id)
    BY DEF Init, Listens, NoConn, Has
  <1>3. NoResultYet
    BY <1>1 DEF NoResultYet, Idle
  <1>4. OnePerKind /\ OnOwnSocket /\ StillHears
    BY <1>1, <1>2 DEF OnePerKind, OnOwnSocket, StillHears, Conns
  <1> QED
    BY <1>3, <1>4, InitFlow DEF ReceiveInv

(* and every step preserves it.                                            *)
LEMMA NextReceives ==
    ASSUME FlowIInv, ReceiveInv, [Next]_vars
    PROVE  FlowIInv' /\ ReceiveInv' /\ ReceiveStep
  <1>1. FlowIInv'
    BY NextFlow
  <1>2. IInv /\ TypeOK /\ TypeOK' /\ SocketsInv /\ SocketsInv' /\ ConnectInv /\ QueueInv
    BY <1>1 DEF FlowIInv, IInv
  <1>3. NoResultYet'
    BY <1>2, NextNoResult DEF ReceiveInv
  <1>4. ReceiveStep
    BY <1>2, ReceiveKinds DEF ReceiveInv
  <1>5. OnePerKind' /\ OnOwnSocket' /\ StillHears'
    BY <1>2, <1>4, OneKept, OwnSocketKept, StillHearsKept DEF ReceiveInv
  <1> QED
    BY <1>1, <1>3, <1>4, <1>5 DEF ReceiveInv

(* A connection never has two receives of a kind under way, whatever fails *)
(* and in whatever order completions are taken; and where nothing fails an *)
(* association that has sent never stops receiving.                        *)
THEOREM OneReceiverSafe == Spec => []OneReceiver
  <1>1. Init => FlowIInv /\ ReceiveInv
    BY InitReceives
  <1>2. FlowIInv /\ ReceiveInv /\ [Next]_vars => FlowIInv' /\ ReceiveInv'
    BY NextReceives
  <1>3. FlowIInv /\ ReceiveInv => OneReceiver
    BY ReceiveImplies DEF FlowIInv
  <1> QED
    BY <1>1, <1>2, <1>3, PTL DEF Spec

(* A receive that is under way on a socket of another connection belongs   *)
(* to a connection that is gone.                                           *)
LEMMA StrayIsGone ==
    ASSUME FlowIInv, ReceiveInv, NEW o \in Ovs, NEW id \in Conns, Live(o),
           SockOf(o) \in Sockets(id), ov[o].id # id
    PROVE  ~Has(ov[o].id)
  <1> SUFFICES ASSUME Has(ov[o].id) PROVE FALSE
    OBVIOUS
  <1>1. ov[o].id \in Conns /\ ov[o] \in {TcpReceive(ov[o].id), UdpReceive(ov[o].id)}
    BY Labels DEF FlowIInv, IInv, Conns, Live
  <1>2. SockOf(o) \in Sockets(ov[o].id)
    BY <1>1 DEF ReceiveInv, OnOwnSocket, Sockets
  <1> QED
    BY <1>1, <1>2 DEF FlowIInv, SocketsInv, SocketsOwned

-----------------------------------------------------------------------------
(* The dialogue of one connection: its state, requests and answers.        *)
Dialogue(s, w, r) ==
    /\ s = "PS_NONE" => w = <<>>
    /\ s = "PS_AUTH" => w = <<"greeting">>
    /\ s = "PS_AUTH_NEGOTIATION" => w = <<"greeting", "auth">>
    /\ s \in {"PS_UDP_ASSOC", "PS_CONNECTED"} =>
          \/ w = <<"greeting", "associate">> /\ r # <<>>
          \/ w = <<"greeting", "auth", "associate">> /\ Len(r) >= 2 /\ r[2] = "authok"
    /\ Len(w) >= 2 /\ w[2] = "auth" => HasUser /\ r # <<>> /\ r[1] = "unpw"
    /\ s = "PS_CONNECTED" => Len(r) = Len(w) /\ r[Len(r)] \in {"v4", "v6", "cut"}

Requests == {"greeting", "auth", "associate"}
State(id) == m_socketMap[id].proxyState

(* SocksDialogue says it of every connection.                              *)
LEMMA DialogueIs ==
    SocksDialogue <=> \A id \in Conns : Dialogue(State(id), wire[id], replies[id])
  BY DEF SocksDialogue, Dialogue, State

(* Appending to short sequences.                                           *)
LEMMA AppendTuples ==
    ASSUME NEW a, NEW b, NEW c
    PROVE  Append(<<a>>, b) = <<a, b>> /\ Append(<<a, b>>, c) = <<a, b, c>>
  <1> DEFINE S == {a, b, c}
             s == Append(<<a>>, b)
             t == Append(<<a, b>>, c)
  <1>1. s = <<a, b>>
    <2>1. <<a>> \in Seq(S) /\ <<a, b>> \in Seq(S) /\ Len(<<a>>) = 1 /\ Len(<<a, b>>) = 2
      OBVIOUS
    <2>2. s \in Seq(S) /\ Len(s) = 2 /\ s[1] = a /\ s[2] = b
      BY <2>1, AppendProperties
    <2> HIDE DEF s
    <2> QED
      BY <2>1, <2>2, SeqEqual
  <1>2. t = <<a, b, c>>
    <2>1. /\ <<a, b>> \in Seq(S) /\ <<a, b, c>> \in Seq(S)
          /\ Len(<<a, b>>) = 2 /\ Len(<<a, b, c>>) = 3
      OBVIOUS
    <2>2. t \in Seq(S) /\ Len(t) = 3 /\ t[1] = a /\ t[2] = b /\ t[3] = c
      BY <2>1, AppendProperties
    <2> HIDE DEF t
    <2> QED
      BY <2>1, <2>2, SeqEqual
  <1> QED
    BY <1>1, <1>2

(* What the three requests make of the sequence sent.                      *)
LEMMA RequestTuples ==
    /\ Append(<<>>, "greeting") = <<"greeting">>
    /\ Append(<<"greeting">>, "auth") = <<"greeting", "auth">>
    /\ Append(<<"greeting">>, "associate") = <<"greeting", "associate">>
    /\ Append(<<"greeting", "auth">>, "associate") = <<"greeting", "auth", "associate">>
    /\ Len(<<"greeting">>) = 1 /\ Len(<<"greeting", "auth">>) = 2
    /\ Len(<<"greeting", "associate">>) = 2 /\ Len(<<"greeting", "auth", "associate">>) = 3
    /\ <<"greeting", "auth">>[2] = "auth" /\ <<"greeting", "associate">>[2] = "associate"
    /\ <<"greeting", "auth", "associate">>[2] = "auth"
  <1>1. Append(<<>>, "greeting") = <<"greeting">>
    OBVIOUS
  <1>2. /\ Append(<<"greeting">>, "auth") = <<"greeting", "auth">>
        /\ Append(<<"greeting">>, "associate") = <<"greeting", "associate">>
    BY AppendTuples
  <1>3. Append(<<"greeting", "auth">>, "associate") = <<"greeting", "auth", "associate">>
    BY AppendTuples
  <1>4. /\ Len(<<"greeting">>) = 1 /\ Len(<<"greeting", "auth">>) = 2
        /\ Len(<<"greeting", "associate">>) = 2 /\ Len(<<"greeting", "auth", "associate">>) = 3
    OBVIOUS
  <1>5. /\ <<"greeting", "auth">>[2] = "auth" /\ <<"greeting", "associate">>[2] = "associate"
        /\ <<"greeting", "auth", "associate">>[2] = "auth"
    OBVIOUS
  <1> QED
    BY <1>1, <1>2, <1>3, <1>4, <1>5

(* An answer, while one is owed.                                           *)
LEMMA AnswerMoves ==
    ASSUME NEW s, NEW w \in Seq(Requests), NEW r \in Seq(TcpReplies), NEW x \in TcpReplies,
           Dialogue(s, w, r), Len(r) < Len(w)
    PROVE  Dialogue(s, w, Append(r, x))
  <1> DEFINE q == Append(r, x)
  <1>1. /\ q \in Seq(TcpReplies) /\ Len(q) = Len(r) + 1 /\ q # <<>>
        /\ \A i \in 1 .. Len(r) : q[i] = r[i]
    OBVIOUS
  <1>2. /\ r # <<>> => q[1] = r[1]
        /\ Len(r) >= 2 => q[2] = r[2]
    BY <1>1
  <1> HIDE DEF q
  <1> QED
    BY <1>1, <1>2 DEF Dialogue, q

(* The greeting, on a connection that has just been made.                  *)
LEMMA GreetingMoves ==
    ASSUME NEW w \in Seq(Requests), NEW r \in Seq(TcpReplies), Dialogue("PS_NONE", w, r)
    PROVE  Dialogue("PS_AUTH", Append(w, "greeting"), r)
  <1>1. Append(w, "greeting") = <<"greeting">>
    BY RequestTuples DEF Dialogue
  <1> QED
    BY <1>1, RequestTuples DEF Dialogue

(* The next request, on an answer to the one before.                       *)
LEMMA NextRequestMoves ==
    ASSUME NEW c, NEW w \in Seq(Requests), NEW r \in Seq(TcpReplies), NEW x,
           Dialogue(c.proxyState, w, r), Len(r) = Len(w), r # <<>>, x = r[Len(r)],
           NextRequest(c, x) # "none"
    PROVE  /\ Dialogue(StateAfter(NextRequest(c, x)), Append(w, NextRequest(c, x)), r)
           /\ NextRequest(c, x) \in Requests
  <1>1. CASE c.proxyState = "PS_AUTH" /\ x = "unpw" /\ HasUser
    <2>1. NextRequest(c, x) = "auth" /\ StateAfter("auth") = "PS_AUTH_NEGOTIATION"
      BY <1>1 DEF NextRequest, StateAfter
    <2>2. w = <<"greeting">> /\ Len(r) = 1 /\ r[1] = "unpw"
      BY <1>1, RequestTuples DEF Dialogue
    <2>3. Append(w, "auth") = <<"greeting", "auth">>
      BY <2>2, RequestTuples
    <2>4. Dialogue("PS_AUTH_NEGOTIATION", Append(w, "auth"), r)
      BY <1>1, <2>2, <2>3, RequestTuples DEF Dialogue
    <2> QED
      BY <2>1, <2>4 DEF Requests
  <1>2. CASE c.proxyState = "PS_AUTH" /\ ~(x = "unpw" /\ HasUser)
    <2>1. NextRequest(c, x) = "associate" /\ StateAfter("associate") = "PS_UDP_ASSOC"
      BY <1>2 DEF NextRequest, StateAfter
    <2>2. w = <<"greeting">>
      BY <1>2 DEF Dialogue
    <2>3. Append(w, "associate") = <<"greeting", "associate">>
      BY <2>2, RequestTuples
    <2>4. Dialogue("PS_UDP_ASSOC", Append(w, "associate"), r)
      BY <2>3, RequestTuples DEF Dialogue
    <2> QED
      BY <2>1, <2>4 DEF Requests
  <1>3. CASE c.proxyState = "PS_AUTH_NEGOTIATION"
    <2>1. /\ NextRequest(c, x) = "associate" /\ StateAfter("associate") = "PS_UDP_ASSOC"
          /\ x = "authok"
      BY <1>3 DEF NextRequest, StateAfter
    <2>2. w = <<"greeting", "auth">> /\ Len(r) = 2 /\ r[2] = "authok"
      BY <1>3, <2>1, RequestTuples DEF Dialogue
    <2>3. Append(w, "associate") = <<"greeting", "auth", "associate">>
      BY <2>2, RequestTuples
    <2>4. HasUser /\ r[1] = "unpw"
      BY <2>2, RequestTuples DEF Dialogue
    <2>5. Dialogue("PS_UDP_ASSOC", Append(w, "associate"), r)
      BY <2>2, <2>3, <2>4, RequestTuples DEF Dialogue
    <2> QED
      BY <2>1, <2>5 DEF Requests
  <1>4. c.proxyState \in {"PS_AUTH", "PS_AUTH_NEGOTIATION"}
    BY DEF NextRequest
  <1> QED
    BY <1>1, <1>2, <1>3, <1>4

(* The association is accepted.                                            *)
LEMMA AcceptMoves ==
    ASSUME NEW w \in Seq(Requests), NEW r \in Seq(TcpReplies),
           Dialogue("PS_UDP_ASSOC", w, r), Len(r) = Len(w), r[Len(r)] \in {"v4", "v6", "cut"}
    PROVE  Dialogue("PS_CONNECTED", w, r)
  BY DEF Dialogue

-----------------------------------------------------------------------------
(* What the steps of UDPProxy do to the dialogues.                         *)

Answer(o) ==
    ov[o].type = "OVT_TCP_RECEIVE" /\ io[o].st = "queued" /\ io[o].res # "fail"

(* No answer appears that was not there.                                   *)
NoNewAnswer == \A o \in Ovs : Answer(o)' => ov'[o] = ov[o] /\ io'[o] = io[o]

StateKept(id) == Has(id)' => Has(id) /\ State(id)' = State(id)

(* The last request was answered, with x.                                  *)
LastAnswer(id, x) ==
    /\ Len(replies[id]) = Len(wire[id]) /\ replies[id] # <<>>
    /\ x = replies[id][Len(replies[id])]

Silent ==
    /\ UNCHANGED <<wire, replies, created>>
    /\ NoNewAnswer
    /\ \A id \in Ids : StateKept(id)

Joins(id) ==
    /\ id \notin created /\ created' = created \cup {id}
    /\ UNCHANGED <<wire, replies>>
    /\ NoNewAnswer
    /\ State(id)' = "PS_NONE"
    /\ \A jd \in Ids \ {id} : StateKept(jd)

Asks(id, request) ==
    /\ Has(id)
    /\ wire' = [wire EXCEPT ![id] = Append(@, request)]
    /\ UNCHANGED <<replies, created>>
    /\ NoNewAnswer
    /\ \A o \in Ovs : Answer(o)' => ov'[o].id # id
    /\ \A jd \in Ids \ {id} : StateKept(jd)

Greets(id) ==
    /\ Asks(id, "greeting")
    /\ State(id) = "PS_NONE" /\ State(id)' = "PS_AUTH"

Goes(id) ==
    \E x : /\ LastAnswer(id, x)
           /\ NextRequest(m_socketMap[id], x) # "none"
           /\ Asks(id, NextRequest(m_socketMap[id], x))
           /\ State(id)' = StateAfter(NextRequest(m_socketMap[id], x))

Associates(id) ==
    /\ Has(id) /\ State(id) = "PS_UDP_ASSOC" /\ State(id)' = "PS_CONNECTED"
    /\ \E x \in {"v4", "v6", "cut"} : LastAnswer(id, x)
    /\ UNCHANGED <<wire, replies, created>>
    /\ NoNewAnswer
    /\ \A jd \in Ids \ {id} : StateKept(jd)

(* The proxy answers a request of id, and what was under way as o brings   *)
(* the answer: a receive of id's own, or one of a connection that is gone, *)
(* which may be of the other kind.                                         *)
Hears(id, o) ==
    /\ Len(replies[id]) < Len(wire[id])
    /\ \E x \in TcpReplies : /\ replies' = [replies EXCEPT ![id] = Append(@, x)]
                             /\ Answer(o)' => io'[o].res = x
    /\ ov'[o].id = id \/ ~(\E jd \in Conns : ov'[o].id = jd)
    /\ UNCHANGED <<wire, created, m_socketMap>>
    /\ \A p \in Ovs \ {o} : Answer(p)' => ov'[p] = ov[p] /\ io'[p] = io[p]

(* What was under way as o, for a connection that is gone, takes a         *)
(* datagram for an answer.                                                 *)
Strays(o) ==
    /\ ~(\E jd \in Conns : ov'[o].id = jd)
    /\ UNCHANGED <<wire, replies, created, m_socketMap>>
    /\ \A p \in Ovs \ {o} : Answer(p)' => ov'[p] = ov[p] /\ io'[p] = io[p]

DialogueStep ==
    \/ Silent
    \/ \E id \in Ids : Joins(id) \/ Greets(id) \/ Goes(id) \/ Associates(id)
    \/ \E id \in Ids, o \in Ovs : Hears(id, o)
    \/ \E o \in Ovs : Strays(o)

(* They preserve the invariant, which for the answers reads as follows.    *)
LEMMA AnswerIs ==
    ASSUME TypeOK
    PROVE  AnswerInv <=>
             /\ \A id \in Ids \ created : wire[id] = <<>> /\ replies[id] = <<>>
             /\ \A id \in Conns : Len(wire[id]) \in {Len(replies[id]), Len(replies[id]) + 1}
             /\ \A o \in Ovs : Answer(o) /\ ov[o].id \in Conns => LastAnswer(ov[o].id, io[o].res)
  BY Labels DEF AnswerInv, Answer, LastAnswer

(* The same in the next state.                                             *)
LEMMA AnswerIsNext ==
    ASSUME TypeOK',
           \A id \in Ids \ created' : wire'[id] = <<>> /\ replies'[id] = <<>>,
           \A id \in Conns' : Len(wire'[id]) \in {Len(replies'[id]), Len(replies'[id]) + 1},
           \A o \in Ovs, id \in Conns' :
             Answer(o)' /\ ov'[o].id = id =>
               /\ Len(replies'[id]) = Len(wire'[id]) /\ replies'[id] # <<>>
               /\ io'[o].res = replies'[id][Len(replies'[id])]
    PROVE  AnswerInv'
  BY DEF AnswerInv, Answer, TcpReceive

(* What the invariant says of one connection after a step.                 *)
Converses(id) ==
    /\ Len(wire'[id]) \in {Len(replies'[id]), Len(replies'[id]) + 1}
    /\ Dialogue(State(id)', wire'[id], replies'[id])
    /\ \A o \in Ovs : Answer(o)' /\ ov'[o].id = id =>
         /\ Len(replies'[id]) = Len(wire'[id]) /\ replies'[id] # <<>>
         /\ io'[o].res = replies'[id][Len(replies'[id])]

(* If it holds of all, the invariant holds after the step.                 *)
LEMMA ConversesAll ==
    ASSUME TypeOK', \A id \in Ids \ created' : wire'[id] = <<>> /\ replies'[id] = <<>>,
           \A id \in Ids : Has(id)' => Converses(id)
    PROVE  DialogueInv'
  <1>1. \A id \in Conns' : id \in Ids /\ Has(id)'
    BY DEF Conns
  <1>2. AnswerInv'
    BY <1>1, AnswerIsNext DEF Converses
  <1>3. \A id \in Conns' : Dialogue(State(id)', wire'[id], replies'[id])
    BY <1>1 DEF Converses
  <1>4. SocksDialogue'
    BY <1>3 DEF SocksDialogue, Dialogue, State
  <1> QED
    BY <1>2, <1>4 DEF DialogueInv

(* A connection that a step leaves alone goes on as it was.                *)
LEMMA OthersConverse ==
    ASSUME TypeOK, TypeOK', DialogueInv, NEW id \in Ids, Has(id)', StateKept(id),
           wire'[id] = wire[id], replies'[id] = replies[id],
           \A o \in Ovs : Answer(o)' /\ ov'[o].id = id => ov'[o] = ov[o] /\ io'[o] = io[o]
    PROVE  Converses(id)
  <1>1. id \in Conns /\ State(id)' = State(id)
    BY DEF StateKept, Conns
  <1>2. /\ Dialogue(State(id), wire[id], replies[id])
        /\ Len(wire[id]) \in {Len(replies[id]), Len(replies[id]) + 1}
    BY <1>1, DialogueIs DEF DialogueInv, AnswerInv
  <1>3. ASSUME NEW o \in Ovs, Answer(o)', ov'[o].id = id PROVE LastAnswer(id, io'[o].res)
    <2>1. ov'[o] = ov[o] /\ io'[o] = io[o] /\ Answer(o)
      BY <1>3 DEF Answer
    <2> QED
      BY <1>1, <1>3, <2>1, AnswerIs DEF DialogueInv
  <1> QED
    BY <1>1, <1>2, <1>3 DEF Converses, LastAnswer

(* Every kind of step preserves the invariant.                             *)
LEMMA DialogueKept ==
    ASSUME TypeOK, TypeOK', ConnectInv, Conns \subseteq created, DialogueInv, DialogueStep
    PROVE  DialogueInv'
  <1>0. /\ wire \in [Ids -> Seq(Requests)] /\ replies \in [Ids -> Seq(TcpReplies)]
        /\ \A id \in Ids \ created : wire[id] = <<>> /\ replies[id] = <<>>
        /\ \A id \in Ids : Has(id) => /\ Dialogue(State(id), wire[id], replies[id])
                                      /\ Len(wire[id]) \in {Len(replies[id]), Len(replies[id]) + 1}
                                      /\ id \in created
    BY DialogueIs DEF TypeOK, Requests, DialogueInv, AnswerInv, Conns
  <1>1. CASE Silent
    <2>1. \A id \in Ids : Has(id)' => Converses(id)
      BY <1>1, OthersConverse DEF Silent, NoNewAnswer
    <2> QED
      BY <1>0, <1>1, <2>1, ConversesAll DEF Silent
  <1>2. ASSUME NEW id \in Ids, Joins(id) PROVE DialogueInv'
    <2>1. \A jd \in Ids \ {id} : Has(jd)' => Converses(jd)
      BY <1>2, OthersConverse DEF Joins, NoNewAnswer
    <2>2. Converses(id)
      <3>1. /\ wire'[id] = <<>> /\ replies'[id] = <<>> /\ State(id)' = "PS_NONE"
        BY <1>0, <1>2 DEF Joins
      <3>2. Dialogue("PS_NONE", <<>>, <<>>)
        BY DEF Dialogue
      <3>3. ASSUME NEW o \in Ovs, Answer(o)' PROVE ov'[o].id # id
        <4>1. ov'[o] = ov[o] /\ Answer(o)
          BY <1>2, <3>3 DEF Joins, NoNewAnswer, Answer
        <4>2. ov[o].id = id => id \in created
          BY <4>1 DEF ConnectInv, Answer, FreeOv
        <4> QED
          BY <1>2, <4>1, <4>2 DEF Joins
      <3> QED
        BY <3>1, <3>2, <3>3 DEF Converses
    <2> QED
      BY <1>0, <1>2, <2>1, <2>2, ConversesAll DEF Joins
  <1>3. ASSUME NEW id \in Ids, NEW request \in Requests, Asks(id, request),
               Dialogue(State(id)', Append(wire[id], request), replies[id]),
               Len(replies[id]) = Len(wire[id])
        PROVE  DialogueInv'
    <2>0. /\ wire'[id] = Append(wire[id], request)
          /\ \A jd \in Ids \ {id} : wire'[jd] = wire[jd]
          /\ UNCHANGED <<replies, created>> /\ Has(id)
      BY <1>0, <1>3 DEF Asks
    <2>1. \A jd \in Ids \ {id} : Has(jd)' => Converses(jd)
      BY <1>3, <2>0, OthersConverse DEF Asks, NoNewAnswer
    <2>2. Len(wire'[id]) = Len(replies'[id]) + 1
      BY <1>0, <1>3, <2>0
    <2>3. Converses(id)
      BY <1>3, <2>0, <2>2 DEF Converses, Asks
    <2>4. \A jd \in Ids \ created' : wire'[jd] = <<>> /\ replies'[jd] = <<>>
      BY <1>0, <2>0
    <2> QED
      BY <2>1, <2>3, <2>4, ConversesAll
  <1>4. ASSUME NEW id \in Ids, Greets(id) PROVE DialogueInv'
    <2>1. Dialogue("PS_AUTH", Append(wire[id], "greeting"), replies[id])
      BY <1>0, <1>4, GreetingMoves DEF Greets, Asks
    <2>2. Len(wire[id]) = 0 /\ Len(replies[id]) = 0
      BY <1>0, <1>4 DEF Greets, Asks, Dialogue
    <2> QED
      BY <1>3, <1>4, <2>1, <2>2 DEF Greets, Requests
  <1>5. ASSUME NEW id \in Ids, Goes(id) PROVE DialogueInv'
    <2>1. PICK x : /\ LastAnswer(id, x)
                   /\ NextRequest(m_socketMap[id], x) # "none"
                   /\ Asks(id, NextRequest(m_socketMap[id], x))
                   /\ State(id)' = StateAfter(NextRequest(m_socketMap[id], x))
      BY <1>5 DEF Goes
    <2> DEFINE c   == m_socketMap[id]
               req == NextRequest(c, x)
    <2>2. Dialogue(c.proxyState, wire[id], replies[id])
      BY <1>0, <2>1 DEF Asks, State
    <2>3. wire[id] \in Seq(Requests) /\ replies[id] \in Seq(TcpReplies)
      BY <1>0
    <2>4. Dialogue(StateAfter(req), Append(wire[id], req), replies[id]) /\ req \in Requests
      BY <2>1, <2>2, <2>3, NextRequestMoves DEF LastAnswer
    <2> QED
      BY <1>3, <2>1, <2>4 DEF LastAnswer
  <1>6. ASSUME NEW id \in Ids, Associates(id) PROVE DialogueInv'
    <2>0. /\ UNCHANGED <<wire, replies, created>> /\ Has(id)
      BY <1>6 DEF Associates
    <2>1. \A jd \in Ids \ {id} : Has(jd)' => Converses(jd)
      BY <1>6, <2>0, OthersConverse DEF Associates, NoNewAnswer
    <2>2. Dialogue(State(id)', wire[id], replies[id])
      BY <1>0, <1>6, <2>0, AcceptMoves DEF Associates, LastAnswer
    <2>3. ASSUME NEW o \in Ovs, Answer(o)', ov'[o].id = id PROVE LastAnswer(id, io'[o].res)
      <3>1. ov'[o] = ov[o] /\ io'[o] = io[o] /\ Answer(o)
        BY <1>6, <2>3 DEF Associates, NoNewAnswer, Answer
      <3> QED
        BY <2>0, <2>3, <3>1, AnswerIs DEF DialogueInv, Conns
    <2>4. Converses(id)
      BY <1>0, <2>0, <2>2, <2>3 DEF Converses, LastAnswer
    <2> QED
      BY <1>0, <2>0, <2>1, <2>4, ConversesAll
  <1>7. ASSUME NEW id \in Ids, NEW o \in Ovs, Hears(id, o) PROVE DialogueInv'
    <2>0. PICK x \in TcpReplies : /\ replies' = [replies EXCEPT ![id] = Append(@, x)]
                                  /\ Answer(o)' => io'[o].res = x
      BY <1>7 DEF Hears
    <2>1. /\ replies'[id] = Append(replies[id], x)
          /\ \A jd \in Ids \ {id} : replies'[jd] = replies[jd]
          /\ UNCHANGED <<wire, created, m_socketMap>> /\ Len(replies[id]) < Len(wire[id])
      BY <1>0, <1>7, <2>0 DEF Hears
    <2>6. \A jd \in Ids : StateKept(jd) /\ (Has(jd)' <=> Has(jd))
      BY <2>1 DEF StateKept, Has, State
    <2>2. /\ Len(replies'[id]) = Len(replies[id]) + 1
          /\ replies'[id] # <<>> /\ replies'[id][Len(replies'[id])] = x
      <3>1. replies[id] \in Seq(TcpReplies)
        BY <1>0
      <3> QED
        BY <2>1, <3>1, AppendProperties
    <2>3. ASSUME NEW jd \in Ids \ {id}, Has(jd)' PROVE Converses(jd)
      <3>1. ov'[o].id # jd
        BY <1>7, <2>1, <2>3, <2>6 DEF Hears, Conns
      <3> QED
        BY <1>7, <2>1, <2>3, <2>6, <3>1, OthersConverse DEF Hears
    <2>4. ASSUME Has(id)' PROVE Converses(id)
      <3>1. Dialogue(State(id)', wire'[id], replies'[id])
        <4>1. Dialogue(State(id), wire[id], replies[id])
          BY <1>0, <2>4, <2>6
        <4>2. Dialogue(State(id), wire[id], Append(replies[id], x))
          BY <1>0, <2>1, <4>1, AnswerMoves
        <4> QED
          BY <2>1, <4>2 DEF State
      <3>2. ASSUME NEW p \in Ovs, Answer(p)', ov'[p].id = id
            PROVE  p = o
        <4>1. CASE p # o
          <5>1. Answer(p) /\ ov[p].id = id /\ id \in Conns
            BY <1>7, <2>4, <2>6, <3>2, <4>1 DEF Hears, Answer, Conns
          <5>2. LastAnswer(id, io[p].res)
            BY <5>1, AnswerIs DEF DialogueInv
          <5> QED
            BY <1>0, <2>1, <5>2 DEF LastAnswer
        <4> QED
          BY <4>1
      <3>3. Len(replies'[id]) = Len(wire'[id])
        BY <1>0, <2>1, <2>2, <2>4, <2>6
      <3> QED
        BY <2>0, <2>1, <2>2, <3>1, <3>2, <3>3 DEF Converses
    <2>5. \A jd \in Ids \ created' : wire'[jd] = <<>> /\ replies'[jd] = <<>>
      BY <1>0, <2>1
    <2> QED
      BY <2>3, <2>4, <2>5, ConversesAll
  <1>8. ASSUME NEW o \in Ovs, Strays(o) PROVE DialogueInv'
    <2>1. \A jd \in Ids : StateKept(jd) /\ (Has(jd)' <=> Has(jd))
      BY <1>8 DEF Strays, StateKept, Has, State
    <2>2. ASSUME NEW jd \in Ids, Has(jd)' PROVE Converses(jd)
      <3>1. ov'[o].id # jd
        BY <1>8, <2>1, <2>2 DEF Strays, Conns
      <3> QED
        BY <1>8, <2>1, <2>2, <3>1, OthersConverse DEF Strays
    <2> QED
      BY <1>0, <1>8, <2>2, ConversesAll DEF Strays
  <1> QED
    BY <1>1, <1>2, <1>4, <1>5, <1>6, <1>7, <1>8 DEF DialogueStep
-----------------------------------------------------------------------------
(* The steps of UDPProxy are of these kinds.                               *)

(* An OV_DATA that is not a receive on a control connection, or whose      *)
(* operation is under way or has failed, brings no answer.                 *)
Mute(d, s) == d.type # "OVT_TCP_RECEIVE" \/ s.st # "queued" \/ s.res = "fail"

(* Where every OV_DATA a step touches is mute, there is no new answer.     *)
LEMMA MuteSteps ==
    ASSUME \A o \in Ovs : (ov'[o] = ov[o] /\ io'[o] = io[o]) \/ Mute(ov'[o], io'[o])
    PROVE  NoNewAnswer
  BY DEF NoNewAnswer, Answer, Mute

(* What is started is mute: a receive has no result yet, or has failed,    *)
(* and a send has another label unless it failed.                          *)
LEMMA StartsMute ==
    ASSUME NEW h, NEW out \in {"pending", "posted", "dropped"}, NEW id
    PROVE  /\ \A d, g : Mute(d, Idle) /\ Mute(d, Pending(g)) /\ Mute(d, Queued(g, "fail"))
           /\ \A s : Mute(FreeOv, s)
           /\ \A s : /\ Mute([id |-> id, type |-> "OVT_UDP_SEND"], s)
                     /\ Mute([id |-> id, type |-> "OVT_CONNECT"], s)
           /\ \A d : Mute(d, Started(out, h))
           /\ \A onFail : Mute(Labelled(out, id, "OVT_TCP_SEND", onFail), SendStarted(out, h))
  <1>1. /\ \A d, g : Mute(d, Idle) /\ Mute(d, Pending(g)) /\ Mute(d, Queued(g, "fail"))
        /\ \A s : Mute(FreeOv, s)
    BY DEF Mute, Idle, Pending, Queued, FreeOv
  <1>2. \A s : /\ Mute([id |-> id, type |-> "OVT_UDP_SEND"], s)
               /\ Mute([id |-> id, type |-> "OVT_CONNECT"], s)
    BY DEF Mute
  <1>3. \A d : Mute(d, Started(out, h))
    BY <1>1 DEF Started
  <1>4. ASSUME NEW onFail
        PROVE  Mute(Labelled(out, id, "OVT_TCP_SEND", onFail), SendStarted(out, h))
    <2>1. CASE out = "pending"
      <3>1. Labelled(out, id, "OVT_TCP_SEND", onFail).type = "OVT_TCP_SEND"
        BY <2>1, StartLabels
      <3> QED
        BY <3>1 DEF Mute
    <2>2. CASE out # "pending"
      BY <1>3, <2>2 DEF SendStarted
    <2> QED
      BY <2>1, <2>2
  <1> QED
    BY <1>1, <1>2, <1>3, <1>4

(* Sending a datagram brings no answer.                                    *)
LEMMA SendMute ==
    ASSUME TypeOK, NEW id, SendStarts(id) \/ SendFails(id)
    PROVE  NoNewAnswer
  <1>0. io \in [Ovs -> IoState] /\ ov \in [Ovs -> OV_DATA \cup {FreeOv}]
    BY DEF TypeOK, OverlappedTypeOK
  <1> DEFINE u == m_socketMap[id].udpSocket
             e == [id |-> id, type |-> "OVT_UDP_SEND"]
  <1>1. CASE SendFails(id)
    <2>1. PICK o \in Ovs, out \in SendToOutcomes(id) :
            /\ io' = [io EXCEPT ![o] = Started(out, u)]
            /\ ov' = [ov EXCEPT ![o] = Labelled(out, id, "OVT_UDP_SEND", "OVT_UDP_RECEIVE")]
      BY <1>1 DEF SendFails
    <2>2. \A d : Mute(d, Started(out, u))
      BY SendToOutcomesType, StartsMute
    <2> QED
      BY <1>0, <2>1, <2>2, MuteSteps
  <1>2. CASE SendStarts(id)
    <2>1. \A s : Mute(e, s)
      BY DEF Mute
    <2>2. CASE \E o \in Ovs : io' = [io EXCEPT ![o] = Queued(u, "ok")] /\ ov' = [ov EXCEPT ![o] = e]
      <3> HIDE DEF e
      <3> QED
        BY <1>0, <2>1, <2>2, MuteSteps
    <2>3. ASSUME NEW o \in Ovs, NEW p \in Ovs, NEW out \in Outcomes(u),
                 io' = [io EXCEPT ![o] = Queued(u, "ok"), ![p] = Started(out, u)],
                 ov' = [ov EXCEPT ![o] = e,
                                  ![p] = Labelled(out, id, "OVT_UDP_RECEIVE", "OVT_UDP_RECEIVE")]
          PROVE  NoNewAnswer
      <3>1. \A d : Mute(d, Started(out, u))
        BY OutcomesType, StartsMute
      <3> HIDE DEF e
      <3> QED
        BY <1>0, <2>1, <2>3, <3>1, MuteSteps
    <2> QED
      BY <1>2, <2>2, <2>3 DEF SendStarts
  <1> QED
    BY <1>1, <1>2
(* A step that touches no connection is silent.                            *)
LEMMA QuietSteps ==
    ASSUME NoNewAnswer, UNCHANGED <<m_socketMap, wire, replies, created>>
    PROVE  Silent
  BY DEF Silent, StateKept, Has, State

(* So is one that keeps the state of the one connection it touches, or     *)
(* takes it away.                                                          *)
LEMMA OneStateKept ==
    ASSUME TypeOK, NEW id \in Ids, NEW d, m_socketMap' = [m_socketMap EXCEPT ![id] = d],
           d = NoConn \/ (Has(id) /\ d.proxyState = State(id))
    PROVE  \A jd \in Ids : StateKept(jd)
  BY DEF TypeOK, StateKept, Has, State

(* createProxyConnection.                                                  *)
LEMMA CreateDialogue ==
    ASSUME IInv, NEW id \in Ids, NEW ok \in BOOLEAN, id \notin created, createProxyConnection(id, ok)
    PROVE  DialogueStep
  <1>0. io \in [Ovs -> IoState] /\ ov \in [Ovs -> OV_DATA \cup {FreeOv}]
    BY DEF IInv, TypeOK, OverlappedTypeOK
  <1>1. CASE UNCHANGED vars
    <2>1. NoNewAnswer
      BY <1>1 DEF NoNewAnswer, vars
    <2> QED
      BY <1>1, <2>1, QuietSteps DEF DialogueStep, vars
  <1>2. CASE ~UNCHANGED vars
    <2>1. PICK t \in Handles, u \in Handles, o \in Ovs :
            /\ m_socketMap' = [m_socketMap EXCEPT ![id] = NewConn(t, u)]
            /\ io' = [io EXCEPT ![o] = Pending(t)]
            /\ ov' = [ov EXCEPT ![o] = [id |-> id, type |-> "OVT_CONNECT"]]
      BY <1>2 DEF createProxyConnection, NewHandles
    <2>2. created' = created \cup {id} /\ UNCHANGED <<wire, replies>>
      BY <1>2 DEF createProxyConnection
    <2>3. NoNewAnswer
      <3>1. \A d : Mute(d, Pending(t))
        BY StartsMute
      <3> QED
        BY <1>0, <2>1, <3>1, MuteSteps
    <2>4. State(id)' = "PS_NONE" /\ \A jd \in Ids \ {id} : StateKept(jd)
      BY <2>1 DEF NewConn, State, StateKept, Has, IInv, TypeOK
    <2> QED
      BY <2>2, <2>3, <2>4 DEF Joins, DialogueStep
  <1> QED
    BY <1>1, <1>2

(* udpSend.                                                                *)
LEMMA UdpSendDialogue ==
    ASSUME IInv, NEW id \in Ids, NEW ok \in BOOLEAN, udpSend(id, ok)
    PROVE  Silent
  <1> DEFINE c == m_socketMap[id]
             n == Len(fate[id]) + 1
  <1>0. TypeOK /\ UNCHANGED <<wire, replies, created>>
    BY DEF IInv, udpSend
  <1>1. NoNewAnswer
    <2>1. CASE UNCHANGED <<io, ov>>
      BY <2>1 DEF NoNewAnswer
    <2> QED
      BY <1>0, <2>1, SendMute DEF udpSend
  <1>2. CASE UNCHANGED m_socketMap
    BY <1>0, <1>1, <1>2, QuietSteps
  <1>3. CASE /\ Has(id)
             /\ \/ m_socketMap' = [m_socketMap EXCEPT ![id].udpSendPackets = Append(@, n)]
                \/ m_socketMap' = [m_socketMap EXCEPT ![id].udpRecvStarted = TRUE]
    <2>1. PICK d : /\ m_socketMap' = [m_socketMap EXCEPT ![id] = d]
                   /\ \/ d = [c EXCEPT !.udpSendPackets = Append(@, n)]
                      \/ d = [c EXCEPT !.udpRecvStarted = TRUE]
      BY <1>0, <1>3 DEF TypeOK
    <2>2. d.proxyState = State(id)
      <3>1. c \in PROXY_DATA /\ c.proxyState = State(id)
        BY <1>0, <1>3, Parts DEF State
      <3> HIDE DEF c
      <3> QED
        BY <2>1, <3>1 DEF PROXY_DATA
    <2> QED
      BY <1>0, <1>1, <1>3, <2>1, <2>2, OneStateKept DEF Silent
  <1> QED
    BY <1>2, <1>3 DEF udpSend

(* One turn of the loop over the queue.                                    *)
LEMMA DrainDialogue ==
    ASSUME IInv, TypeOK', SocketsInv, drain
    PROVE  Silent
  <1>1. PICK id \in Ids : id = ov[cur.ov].id
    BY DrainMoves
  <1>2. PICK f \in {"relayed", "lost"} : Drains(id, f)
    BY <1>1, DrainMoves
  <1>3. State(id)' = State(id) /\ Has(id) /\ OthersSame(id)
    BY <1>1, <1>2, DrainMoves DEF State, Drains
  <1>4. \A jd \in Ids : StateKept(jd)
    BY <1>3 DEF StateKept, OthersSame, Has, State
  <1>5. NoNewAnswer
    BY <1>1, SendMute DEF drain, IInv
  <1>6. UNCHANGED <<wire, replies, created>>
    BY DEF drain
  <1> QED
    BY <1>4, <1>5, <1>6 DEF Silent

(* ~PROXY_DATA, in deleteProxyConnection and onConnectComplete.            *)
LEMMA DestroyDialogue ==
    ASSUME IInv, NEW id \in Ids, Destroy(id), UNCHANGED <<wire, replies, created>>,
           \/ io' = Aborted(Sockets(id)) /\ UNCHANGED ov
           \/ \E o \in Ovs : /\ io' = [Aborted(Sockets(id)) EXCEPT ![o] = Idle]
                             /\ ov' = [ov EXCEPT ![o] = FreeOv]
    PROVE  Silent
  <1> DEFINE a == Aborted(Sockets(id))
  <1>0. /\ ov \in [Ovs -> OV_DATA \cup {FreeOv}] /\ a \in [Ovs -> IoState] /\ TypeOK
    BY AbortedFacts DEF IInv, TypeOK
  <1>1. \A d, g : Mute(d, Idle) /\ Mute(d, Queued(g, "fail"))
    BY StartsMute
  <1>2. \A o \in Ovs : a[o] = io[o] \/ \E g : a[o] = Queued(g, "fail")
    BY DEF Aborted
  <1> HIDE DEF a
  <1>3. \A o \in Ovs : (ov'[o] = ov[o] /\ io'[o] = a[o]) \/ io'[o] = Idle
    BY <1>0 DEF a
  <1>4. NoNewAnswer
    BY <1>1, <1>2, <1>3, MuteSteps
  <1>5. \A jd \in Ids : StateKept(jd)
    BY <1>0, OneStateKept DEF Destroy
  <1> QED
    BY <1>4, <1>5 DEF Silent

(* A completion whose OV_DATA is deleted, or taken into the worker's hand. *)
LEMMA TakenDialogue ==
    ASSUME IInv, NEW o \in Ovs, UNCHANGED <<wire, replies, created, m_socketMap>>,
           io' = [io EXCEPT ![o] = Idle], UNCHANGED ov \/ ov' = [ov EXCEPT ![o] = FreeOv]
    PROVE  Silent
  <1>0. io \in [Ovs -> IoState] /\ ov \in [Ovs -> OV_DATA \cup {FreeOv}]
    BY DEF IInv, TypeOK, OverlappedTypeOK
  <1>1. \A d : Mute(d, Idle)
    BY StartsMute
  <1>2. NoNewAnswer
    BY <1>0, <1>1, MuteSteps
  <1> QED
    BY <1>2, QuietSteps

(* The worker re-arms a receive.                                           *)
LEMMA RearmDialogue ==
    ASSUME IInv, NEW at, rearm(at)
    PROVE  Silent
  <1>0. io \in [Ovs -> IoState] /\ ov \in [Ovs -> OV_DATA \cup {FreeOv}]
    BY DEF IInv, TypeOK, OverlappedTypeOK
  <1>1. PICK out \in RearmOutcomes :
          /\ io' = [io EXCEPT ![cur.ov] = Started(out, cur.sock)]
          /\ ov' = [ov EXCEPT ![cur.ov] = IF out = "dropped" THEN FreeOv ELSE @]
    BY DEF rearm
  <1>2. \A d : Mute(d, Started(out, cur.sock))
    BY RearmOutcomesType, StartsMute
  <1>3. NoNewAnswer
    BY <1>0, <1>1, <1>2, MuteSteps
  <1> QED
    BY <1>3, QuietSteps DEF rearm
(* onConnectComplete of a connection that is still there: the greeting is  *)
(* sent, or could not be.                                                  *)
LEMMA ConnectDialogue ==
    ASSUME IInv, SocketsInv, ConnectInv, OnePerKind,
           NEW o \in Ovs, onConnectComplete(o), Has(ov[o].id)
    PROVE  DialogueStep
  <1>0. io \in [Ovs -> IoState] /\ ov \in [Ovs -> OV_DATA \cup {FreeOv}] /\ TypeOK
    BY DEF IInv, TypeOK, OverlappedTypeOK
  <1>1. PICK id \in Ids : id = ov[o].id
    BY ConnectMoves
  <1>2. Has(id) /\ Connects(o) /\ m_socketMap[id].proxyState = "PS_NONE"
    <2>1. Has(id) /\ Connects(o)
      BY <1>1, ConnectMoves
    <2> QED
      BY <1>1, <2>1 DEF ConnectInv
  <1> DEFINE t == m_socketMap[ov[o].id].tcpSocket
  <1>3. PICK p \in Ovs, q \in Ovs, out \in Outcomes(t), rout \in Outcomes(t) :
          /\ newOV_DATA(p, {})
          /\ newOV_DATA(q, {p})
          /\ io' = [io EXCEPT ![p] = SendStarted(out, t), ![q] = Started(rout, t), ![o] = Idle]
          /\ ov' = [ov EXCEPT
                      ![p] = Labelled(out, ov[o].id, "OVT_TCP_SEND", "OVT_TCP_RECEIVE"),
                      ![q] = Labelled(rout, ov[o].id, "OVT_TCP_RECEIVE", "OVT_TCP_RECEIVE"),
                      ![o] = FreeOv]
          /\ \/ /\ m_socketMap' = [m_socketMap EXCEPT ![ov[o].id].proxyState = "PS_AUTH"]
                /\ wire' = [wire EXCEPT ![ov[o].id] = Append(@, "greeting")]
             \/ UNCHANGED <<m_socketMap, wire>>
          /\ UNCHANGED <<open, m_cs, pc, cur, fate, replies, created>>
    BY ZenonT(60) DEF onConnectComplete
  <1>4. NoNewAnswer
    <2> DEFINE d == Labelled(out, ov[o].id, "OVT_TCP_SEND", "OVT_TCP_RECEIVE")
               e == Labelled(rout, ov[o].id, "OVT_TCP_RECEIVE", "OVT_TCP_RECEIVE")
    <2>1. /\ Mute(d, SendStarted(out, t)) /\ Mute(e, Started(rout, t)) /\ Mute(FreeOv, Idle)
      BY OutcomesType, StartsMute
    <2>2. p # q /\ p # o /\ q # o
      BY <1>2, <1>3 DEF newOV_DATA, m_ovDataSet, Connects, FreeOv
    <2>3. /\ ov' = [ov EXCEPT ![p] = d, ![q] = e, ![o] = FreeOv]
          /\ io' = [io EXCEPT ![p] = SendStarted(out, t), ![q] = Started(rout, t), ![o] = Idle]
      BY <1>3
    <2> HIDE DEF d, e, t
    <2> QED
      BY <1>0, <2>1, <2>2, <2>3, MuteSteps
  <1>5. CASE UNCHANGED <<m_socketMap, wire>>
    BY <1>3, <1>4, <1>5, QuietSteps DEF DialogueStep
  <1>6. CASE /\ m_socketMap' = [m_socketMap EXCEPT ![id].proxyState = "PS_AUTH"]
             /\ wire' = [wire EXCEPT ![id] = Append(@, "greeting")]
    <2>1. /\ m_socketMap'[id] = [m_socketMap[id] EXCEPT !.proxyState = "PS_AUTH"]
          /\ \A jd \in Ids \ {id} : m_socketMap'[jd] = m_socketMap[jd]
      BY <1>0, <1>6 DEF TypeOK
    <2>2. State(id)' = "PS_AUTH"
      BY <1>0, <2>1, FieldUpdates DEF State
    <2>3. \A jd \in Ids \ {id} : StateKept(jd)
      BY <2>1 DEF StateKept, Has, State
    <2>4. ASSUME NEW x \in Ovs, Answer(x)' PROVE ov'[x].id # id
      <3>1. Answer(x) /\ ov'[x] = ov[x]
        BY <1>4, <2>4 DEF NoNewAnswer, Answer
      <3> QED
        BY <1>1, <1>2, <3>1 DEF OnePerKind, Answer, Live
    <2> QED
      BY <1>2, <1>3, <1>4, <1>6, <2>2, <2>3, <2>4 DEF DialogueStep, Greets, Asks, State
  <1> QED
    BY <1>1, <1>3, <1>5, <1>6

(* onTcpReceiveComplete of an answer that makes the client send the next   *)
(* request: the request is sent, or could not be.                          *)
LEMMA RequestDialogue ==
    ASSUME IInv, SocketsInv, OnePerKind, DialogueInv, NEW o \in Ovs, onTcpReceiveRequest(o)
    PROVE  DialogueStep
  <1>0. io \in [Ovs -> IoState] /\ ov \in [Ovs -> OV_DATA \cup {FreeOv}] /\ TypeOK
    BY DEF IInv, TypeOK, OverlappedTypeOK
  <1>1. PICK id \in Ids : id = ov[o].id /\ Has(id)
    BY RequestMoves
  <1> DEFINE t   == m_socketMap[id].tcpSocket
             x   == io[o].res
             req == NextRequest(m_socketMap[id], x)
  <1>2. PICK p \in Ovs, out \in Outcomes(t) :
          /\ newOV_DATA(p, {})
          /\ io' = [io EXCEPT ![p] = SendStarted(out, t), ![o] = Idle]
          /\ ov' = [ov EXCEPT ![p] = Labelled(out, id, "OVT_TCP_SEND", "OVT_TCP_RECEIVE")]
          /\ \/ /\ m_socketMap' = [m_socketMap EXCEPT ![id].proxyState = StateAfter(req)]
                /\ wire' = [wire EXCEPT ![id] = Append(@, req)]
             \/ UNCHANGED <<m_socketMap, wire>>
    BY <1>1 DEF onTcpReceiveRequest
  <1>3. Answer(o) /\ req # "none" /\ UNCHANGED <<replies, created>>
    BY <1>1 DEF onTcpReceiveRequest, Dequeued, Answer
  <1>4. LastAnswer(id, x)
    BY <1>0, <1>1, <1>3, AnswerIs DEF DialogueInv, Conns
  <1>5. NoNewAnswer /\ ~Answer(o)'
    <2> DEFINE d == Labelled(out, id, "OVT_TCP_SEND", "OVT_TCP_RECEIVE")
    <2>1. Mute(d, SendStarted(out, t)) /\ Mute(ov[o], Idle)
      BY OutcomesType, StartsMute
    <2>2. p # o
      BY <1>2, <1>3 DEF newOV_DATA, m_ovDataSet, Answer, FreeOv
    <2>3. /\ ov' = [ov EXCEPT ![p] = d]
          /\ io' = [io EXCEPT ![p] = SendStarted(out, t), ![o] = Idle]
      BY <1>2
    <2>4. io'[o] = Idle /\ Idle.st # "queued"
      BY <1>0, <2>3 DEF Idle
    <2> HIDE DEF d, t
    <2>5. NoNewAnswer
      BY <1>0, <2>1, <2>2, <2>3, MuteSteps
    <2> QED
      BY <2>4, <2>5 DEF Answer
  <1>6. CASE UNCHANGED <<m_socketMap, wire>>
    BY <1>3, <1>5, <1>6, QuietSteps DEF DialogueStep
  <1>7. CASE /\ m_socketMap' = [m_socketMap EXCEPT ![id].proxyState = StateAfter(req)]
             /\ wire' = [wire EXCEPT ![id] = Append(@, req)]
    <2>1. /\ m_socketMap'[id] = [m_socketMap[id] EXCEPT !.proxyState = StateAfter(req)]
          /\ \A jd \in Ids \ {id} : m_socketMap'[jd] = m_socketMap[jd]
      BY <1>0, <1>7 DEF TypeOK
    <2>2. State(id)' = StateAfter(req)
      BY <1>0, <2>1, FieldUpdates DEF State
    <2>3. \A jd \in Ids \ {id} : StateKept(jd)
      BY <2>1 DEF StateKept, Has, State
    <2>4. ASSUME NEW y \in Ovs, Answer(y)' PROVE ov'[y].id # id
      <3>1. Answer(y) /\ ov'[y] = ov[y] /\ y # o
        BY <1>5, <2>4 DEF NoNewAnswer, Answer
      <3>2. ov[y] = TcpReceive(ov[y].id) /\ ov[o] = TcpReceive(id) /\ Live(o) /\ Live(y)
        BY <1>0, <1>1, <1>3, <3>1, Labels DEF Answer, Live
      <3> QED
        BY <3>1, <3>2 DEF OnePerKind
    <2>5. Asks(id, req)
      BY <1>1, <1>3, <1>5, <1>7, <2>3, <2>4 DEF Asks
    <2> QED
      BY <1>3, <1>4, <2>2, <2>5 DEF DialogueStep, Goes
  <1> QED
    BY <1>2, <1>6, <1>7

(* onTcpReceiveComplete of the answer that brings the association up.      *)
LEMMA AssociatedDialogue ==
    ASSUME IInv, DialogueInv, NEW o \in Ovs, onTcpReceiveAssociated(o)
    PROVE  DialogueStep
  <1>0. io \in [Ovs -> IoState] /\ TypeOK
    BY DEF IInv, TypeOK, OverlappedTypeOK
  <1>1. PICK id \in Ids : id = ov[o].id
    BY AssociatedMoves
  <1>2. /\ Has(id) /\ State(id) = "PS_UDP_ASSOC" /\ State(id)' = "PS_CONNECTED" /\ OthersSame(id)
    BY <1>1, AssociatedMoves DEF State
  <1>3. /\ Dequeued(o, "OVT_TCP_RECEIVE") /\ io[o].res \in {"v4", "v6", "cut"}
        /\ io' = [io EXCEPT ![o] = Idle]
        /\ UNCHANGED <<ov, wire, replies, created>>
    BY DEF onTcpReceiveAssociated, Accepts
  <1>4. LastAnswer(id, io[o].res)
    BY <1>0, <1>1, <1>2, <1>3, AnswerIs DEF DialogueInv, Conns, Dequeued, Answer
  <1>5. NoNewAnswer
    <2>1. Mute(ov[o], Idle)
      BY StartsMute
    <2> QED
      BY <1>0, <1>3, <2>1, MuteSteps
  <1>6. \A jd \in Ids \ {id} : StateKept(jd)
    BY <1>2 DEF OthersSame, StateKept, Has, State
  <1> QED
    BY <1>2, <1>3, <1>4, <1>5, <1>6 DEF Associates, DialogueStep
(* A receive that is pending on a control connection belongs to it or to a *)
(* connection that is gone, and so does one that is pending on a UDP       *)
(* socket; those of a connection that is there are of the socket's kind.   *)
LEMMA PendingOn ==
    ASSUME IInv, SocketsInv, ReceiveInv, NEW id \in Conns, NEW o \in Ovs,
           ov[o].type \in ReceiveTypes, io[o].st = "pending", NEW jd \in Conns, ov[o].id = jd
    PROVE  /\ io[o].sock = m_socketMap[id].tcpSocket => jd = id /\ ov[o].type = "OVT_TCP_RECEIVE"
           /\ io[o].sock = m_socketMap[id].udpSocket => jd = id /\ ov[o].type = "OVT_UDP_RECEIVE"
  <1>1. Live(o) /\ SockOf(o) = io[o].sock
    BY DEF ReceiveInv, NoResultYet, Live, IInv, OvOwnership, SockOf, ReceiveTypes
  <1>2. \/ /\ ov[o].type = "OVT_TCP_RECEIVE" /\ ov[o] = TcpReceive(jd)
           /\ io[o].sock = m_socketMap[jd].tcpSocket
        \/ /\ ov[o].type = "OVT_UDP_RECEIVE" /\ ov[o] = UdpReceive(jd)
           /\ io[o].sock = m_socketMap[jd].udpSocket
    BY <1>1, Labels DEF ReceiveInv, OnOwnSocket, IInv, ReceiveTypes
  <1>3. io[o].sock \in Sockets(jd)
    BY <1>2 DEF Sockets
  <1>4. io[o].sock \in Sockets(id) => jd = id
    BY <1>3 DEF SocketsInv, SocketsOwned
  <1>5. m_socketMap[jd].tcpSocket # m_socketMap[jd].udpSocket
    BY DEF SocketsInv, SocketsOwned
  <1> QED
    BY <1>2, <1>4, <1>5 DEF Sockets

(* The proxy's answer reaches the connection it answers, or one that is    *)
(* gone.                                                                   *)
LEMMA AnsweredDialogue ==
    ASSUME IInv, SocketsInv, ReceiveInv, NEW id \in Ids, NEW o \in Ovs, answered(id, o)
    PROVE  Hears(id, o)
  <1>0. io \in [Ovs -> IoState] /\ TypeOK
    BY DEF IInv, TypeOK, OverlappedTypeOK
  <1>1. /\ Len(replies[id]) + 1 <= Len(wire[id])
        /\ ov[o].type \in ReceiveTypes /\ io[o].sock = m_socketMap[id].tcpSocket
        /\ io[o].st = "pending" /\ UNCHANGED <<ov, m_socketMap, wire, created>>
    BY DEF answered, Complete, Env
  <1>2. /\ wire[id] \in Seq({"greeting", "auth", "associate"}) /\ replies[id] \in Seq(TcpReplies)
    BY <1>0 DEF TypeOK
  <1>3. Len(replies[id]) < Len(wire[id])
    BY <1>1, <1>2
  <1>4. wire[id][Len(replies[id]) + 1] \in {"greeting", "auth", "associate"}
    BY <1>1, <1>2
  <1>5. PICK x, y :
          /\ x \in TcpReplies /\ y \in TakenAs(ov[o].type, x)
          /\ io' = [io EXCEPT ![o] = Queued(io[o].sock, y)]
          /\ replies' = [replies EXCEPT ![id] = Append(@, x)]
    <2>1. Proper(wire[id][Len(replies[id]) + 1]) \subseteq TcpReplies
      BY <1>4 DEF Proper, TcpReplies, MethodReplies, AuthReplies, AssocReplies
    <2> QED
      BY <2>1 DEF answered, Complete
  <1>6. io'[o].res = y /\ \A p \in Ovs \ {o} : io'[p] = io[p]
    BY <1>0, <1>5 DEF Queued
  <1>7. Answer(o)' => io'[o].res = x
    BY <1>1, <1>5, <1>6 DEF Answer, TakenAs
  <1>8. ASSUME NEW jd \in Conns, ov[o].id = jd PROVE jd = id
    <2>1. CASE id \in Conns
      BY <1>1, <1>8, <2>1, PendingOn
    <2>2. CASE id \notin Conns
      <3>1. Live(o) /\ SockOf(o) = io[o].sock /\ jd \in Ids /\ Has(jd)
        BY <1>1, <1>8 DEF ReceiveInv, NoResultYet, Live, IInv, OvOwnership, SockOf, ReceiveTypes,
                          Conns
      <3>2. io[o].sock \in Sockets(jd)
        BY <1>0, <1>8, <3>1, Labels DEF ReceiveInv, OnOwnSocket, Sockets, Live
      <3>3. m_socketMap[id].tcpSocket \in Handles
        BY <1>0, <1>1, <3>1, <3>2, HasSocket DEF Sockets
      <3> QED
        BY <1>0, <2>2, <3>3, HasSocket DEF Conns
    <2> QED
      BY <2>1, <2>2
  <1> QED
    BY <1>1, <1>3, <1>5, <1>6, <1>7, <1>8 DEF Hears

(* Every step is of one of the kinds.                                      *)
LEMMA DialogueKinds ==
    ASSUME IInv, TypeOK', SocketsInv, ConnectInv, ReceiveInv, DialogueInv, [Next]_vars
    PROVE  DialogueStep
  <1>0. io \in [Ovs -> IoState] /\ ov \in [Ovs -> OV_DATA \cup {FreeOv}]
    BY DEF IInv, TypeOK, OverlappedTypeOK
  <1>1. CASE UNCHANGED <<io, ov, m_socketMap, wire, replies, created>>
    <2>1. NoNewAnswer
      BY <1>1 DEF NoNewAnswer
    <2> QED
      BY <1>1, <2>1, QuietSteps DEF DialogueStep
  <1>2. ASSUME NEW id \in Ids, Client(id) PROVE DialogueStep
    <2>1. ASSUME NEW ok \in BOOLEAN, id \notin created, createProxyConnection(id, ok)
          PROVE  DialogueStep
      BY <2>1, CreateDialogue
    <2>2. ASSUME NEW ok \in BOOLEAN, udpSend(id, ok) PROVE DialogueStep
      BY <2>2, UdpSendDialogue DEF DialogueStep
    <2>3. CASE deleteProxyConnection(id)
      BY <1>1, <2>3, DestroyDialogue DEF deleteProxyConnection, vars, DialogueStep
    <2> QED
      BY <1>2, <2>1, <2>2, <2>3 DEF Client
  <1>3. ASSUME NEW o \in Ovs, Handle(o) PROVE DialogueStep
    <2>1. CASE deleteOV_DATA(o)
      BY <2>1, TakenDialogue DEF deleteOV_DATA, DialogueStep
    <2>2. CASE onConnectFailed(o)
      <3>1. PICK id \in Ids : id = ov[o].id
        BY <2>2, Parts DEF onConnectFailed, Dequeued, IInv, OvOwnership
      <3>2. CASE Destroy(id) /\ UNCHANGED <<wire, replies, created>>
                 /\ io' = [Aborted(Sockets(id)) EXCEPT ![o] = Idle]
                 /\ ov' = [ov EXCEPT ![o] = FreeOv]
        BY <3>2, DestroyDialogue DEF DialogueStep
      <3> QED
        BY <2>1, <2>2, <3>1, <3>2 DEF onConnectFailed
    <2>3. CASE onConnectComplete(o)
      <3>1. CASE Has(ov[o].id)
        BY <2>3, <3>1, ConnectDialogue DEF ReceiveInv
      <3>2. CASE ~Has(ov[o].id)
        BY <2>1, <2>3, <3>2 DEF onConnectComplete
      <3> QED
        BY <3>1, <3>2
    <2>4. CASE onTcpSendComplete(o) \/ onUdpSendComplete(o) \/ onTcpReceiveEnd(o) \/ onUdpReceiveEnd(o)
      BY <2>1, <2>4 DEF onTcpSendComplete, onUdpSendComplete, onTcpReceiveEnd, onUdpReceiveEnd
    <2>5. CASE onTcpReceiveRequest(o)
      BY <2>5, RequestDialogue DEF ReceiveInv
    <2>6. CASE onTcpReceiveAssociated(o)
      BY <2>6, AssociatedDialogue
    <2>7. CASE onTcpReceiveIgnored(o) \/ onUdpReceiveComplete(o)
      BY <2>7, TakenDialogue DEF onTcpReceiveIgnored, onUdpReceiveComplete, DialogueStep
    <2> QED
      BY <1>3, <2>2, <2>3, <2>4, <2>5, <2>6, <2>7 DEF Handle
  <1>4. ASSUME NEW o \in Ovs, Kernel(o) PROVE DialogueStep
    <2>1. ASSUME NEW id \in Ids, answered(id, o) PROVE DialogueStep
      BY <2>1, AnsweredDialogue DEF DialogueStep
    <2>2. CASE connected(o) \/ hungUp(o) \/ (arrived(o) /\ ov[o].type = "OVT_UDP_RECEIVE")
      <3>1. PICK r : /\ io' = [io EXCEPT ![o] = Queued(io[o].sock, r)]
                     /\ ov[o].type # "OVT_TCP_RECEIVE" \/ r = "fail"
                     /\ UNCHANGED <<ov, m_socketMap, wire, replies, created>>
        BY <2>2 DEF connected, hungUp, arrived, Complete, Env
      <3>2. Mute(ov[o], Queued(io[o].sock, r))
        BY <3>1 DEF Mute, Queued
      <3>3. NoNewAnswer
        BY <1>0, <3>1, <3>2, MuteSteps
      <3> QED
        BY <3>1, <3>3, QuietSteps DEF DialogueStep
    <2>3. CASE arrived(o) /\ ov[o].type # "OVT_UDP_RECEIVE"
      <3>1. PICK id \in Conns : io[o].sock = m_socketMap[id].udpSocket
        BY <2>3 DEF arrived
      <3>2. PICK r : /\ io[o].st = "pending" /\ io' = [io EXCEPT ![o] = Queued(io[o].sock, r)]
                     /\ UNCHANGED <<ov, m_socketMap, wire, replies, created>>
        BY <2>3 DEF arrived, Complete, Env
      <3>3. ~(\E jd \in Conns : ov'[o].id = jd)
        BY <2>3, <3>1, <3>2, PendingOn DEF arrived
      <3>4. \A p \in Ovs \ {o} : io'[p] = io[p]
        BY <1>0, <3>2
      <3> QED
        BY <3>2, <3>3, <3>4 DEF DialogueStep, Strays
    <2> QED
      BY <1>4, <2>1, <2>2, <2>3 DEF Kernel
  <1>5. CASE drain
    BY <1>5, DrainDialogue DEF DialogueStep
  <1>6. CASE rearm("rearmTcp") \/ rearm("rearmUdp")
    BY <1>6, RearmDialogue DEF DialogueStep
  <1>7. CASE drainEnd \/ callback \/ workerTimeout \/ UNCHANGED vars
    BY <1>1, <1>7 DEF drainEnd, callback, workerTimeout, vars
  <1> QED
    BY <1>2, <1>3, <1>4, <1>5, <1>6, <1>7 DEF Next, Resume

(* The invariant holds initially,                                          *)
LEMMA InitDialogue == Init => DialogueInv
  <1> SUFFICES ASSUME Init PROVE DialogueInv
    OBVIOUS
  <1>1. Conns = {} /\ \A id \in Ids : wire[id] = <<>> /\ replies[id] = <<>>
    BY DEF Init, Conns, Has
  <1> QED
    BY <1>1 DEF DialogueInv, AnswerInv, SocksDialogue

(* and every step preserves it.                                            *)
LEMMA NextDialogue ==
    ASSUME FlowIInv, FlowIInv', ReceiveInv, DialogueInv, [Next]_vars
    PROVE  DialogueInv'
  <1>1. IInv /\ TypeOK /\ TypeOK' /\ SocketsInv /\ ConnectInv /\ Conns \subseteq created
    BY DEF FlowIInv, IInv, SocketsInv
  <1>2. DialogueStep
    BY <1>1, DialogueKinds
  <1> QED
    BY <1>1, <1>2, DialogueKept

(* onTcpReceiveComplete keeps to the order of the dialogue, whatever is    *)
(* answered and whatever fails: an association counts as up only after the *)
(* proxy accepted a UDP ASSOCIATE that was requested once, and after the   *)
(* credentials were accepted if the proxy asked for them.                  *)
THEOREM DialogueSafe == Spec => []SocksDialogue
  <1>1. Init => FlowIInv /\ ReceiveInv /\ DialogueInv
    BY InitReceives, InitDialogue
  <1>2. FlowIInv /\ ReceiveInv /\ DialogueInv /\ [Next]_vars
          => FlowIInv' /\ ReceiveInv' /\ DialogueInv'
    <2> SUFFICES ASSUME FlowIInv, ReceiveInv, DialogueInv, [Next]_vars
                 PROVE  FlowIInv' /\ ReceiveInv' /\ DialogueInv'
      OBVIOUS
    <2>1. FlowIInv' /\ ReceiveInv'
      BY NextReceives
    <2> QED
      BY <2>1, NextDialogue
  <1>3. DialogueInv => SocksDialogue
    BY DEF DialogueInv
  <1> QED
    BY <1>1, <1>2, <1>3, PTL DEF Spec
=============================================================================
