--------------------------- MODULE UDPProxyProofs ---------------------------
(***************************************************************************)
(* Proofs about UDPProxy, for every number of endpoints, of OV_DATA        *)
(* addresses, of SOCKET values and every set of faults, with and without   *)
(* immediate reuse of SOCKET values.                                       *)
(***************************************************************************)
EXTENDS UDPProxy, TLAPS

(* The worker has a completion in hand exactly when it is not waiting for  *)
(* one, and keeps m_cs only while it empties the queue of a connection.    *)
WorkerInv ==
    /\ pc = "wait" <=> cur.ov = 0
    /\ pc # "wait" => cur.ov \in Ovs
    /\ m_cs = "worker" <=> pc = "drain"
    /\ pc = "drain" => Has(ov[cur.ov].id)

(* The inductive invariant.                                                *)
IInv == TypeOK /\ OvOwnership /\ WorkerInv

(* OvOwnership where the OV_DATA of `leaked' may have no owner and those   *)
(* of `deleted' may be gone under their owner: what remains true of a      *)
(* proxy while it is being freed.                                          *)
Owned(leaked, deleted) ==
    \A o \in Ovs :
        /\ io[o].st # "idle" => (ov[o] # FreeOv \/ o \in deleted) /\ cur.ov # o
        /\ ov[o] # FreeOv => io[o].st # "idle" \/ cur.ov = o \/ o \in leaked
        /\ cur.ov = o => ov[o] # FreeOv

InvBut(leaked, deleted) == TypeOK /\ Owned(leaked, deleted) /\ WorkerInv

-----------------------------------------------------------------------------
(* An operation that was started is known to the kernel or the port        *)
(* exactly when its OV_DATA was kept, and both have their types.           *)
LEMMA StartedFacts ==
    ASSUME NEW h \in Handles \cup {INVALID_SOCKET}, NEW out \in {"pending", "posted", "dropped"}
    PROVE  /\ Started(out, h) \in IoState
           /\ SendStarted(out, h) \in IoState
           /\ Started(out, h).st = "idle" <=> out = "dropped"
           /\ SendStarted(out, h).st = "idle" <=> out = "dropped"
  BY DEF Started, SendStarted, Pending, Queued, Idle, IoState, Results

(* An OV_DATA is freed exactly when its operation was dropped.             *)
LEMMA LabelledFacts ==
    ASSUME NEW id \in Ids, NEW type \in OV_TYPE, NEW onFail \in OV_TYPE,
           NEW out \in {"pending", "posted", "dropped"}
    PROVE  /\ Labelled(out, id, type, onFail) \in OV_DATA \cup {FreeOv}
           /\ Labelled(out, id, type, onFail) = FreeOv <=> out = "dropped"
  BY UDPProxyAssumption DEF Labelled, OV_DATA, FreeOv, OV_TYPE

(* Starting an operation has one of the three outcomes.                    *)
LEMMA OutcomesType ==
    ASSUME NEW h
    PROVE  Outcomes(h) \subseteq {"pending", "posted", "dropped"}
  BY DEF Outcomes, FailOutcomes

(* So has the start of the next receive.                                   *)
LEMMA RearmOutcomesType == RearmOutcomes \subseteq {"pending", "posted", "dropped"}
  BY OutcomesType DEF RearmOutcomes, FailOutcomes

(* So has WSASendTo.                                                       *)
LEMMA SendToOutcomesType ==
    ASSUME NEW id
    PROVE  SendToOutcomes(id) \subseteq {"pending", "posted", "dropped"}
  BY OutcomesType DEF SendToOutcomes, FailOutcomes

(* The states an OVERLAPPED is put into have their types.                  *)
LEMMA IoStates ==
    /\ Idle \in IoState /\ Idle.st = "idle"
    /\ \A h \in Handles \cup {INVALID_SOCKET}, r \in Results :
         /\ Queued(h, r) \in IoState /\ Queued(h, r).st = "queued"
         /\ Pending(h) \in IoState /\ Pending(h).st = "pending"
  BY DEF Idle, Queued, Pending, IoState, Results

(* Closing sockets takes no OVERLAPPED from the kernel's care.             *)
LEMMA AbortedFacts ==
    ASSUME OverlappedTypeOK, NEW hs
    PROVE  /\ Aborted(hs) \in [Ovs -> IoState]
           /\ \A o \in Ovs : Aborted(hs)[o].st = "idle" <=> io[o].st = "idle"
  BY IoStates DEF OverlappedTypeOK, Aborted, IoState, Queued, Results

(* A connection stays one under the updates of its fields.                 *)
LEMMA ConnUpdates ==
    ASSUME NEW c \in PROXY_DATA
    PROVE  /\ \A s \in PROXY_STATE : [c EXCEPT !.proxyState = s] \in PROXY_DATA
           /\ \A a \in {"v4", "v6", "cut"} :
                [c EXCEPT !.proxyState = "PS_CONNECTED", !.remoteAddress = a] \in PROXY_DATA
           /\ [c EXCEPT !.udpRecvStarted = TRUE] \in PROXY_DATA
           /\ \A q \in Seq(Nat) : [c EXCEPT !.udpSendPackets = q] \in PROXY_DATA
           /\ \A q \in Seq(Nat) :
                [c EXCEPT !.udpSendPackets = q, !.udpRecvStarted = TRUE] \in PROXY_DATA
  BY DEF PROXY_DATA, PROXY_STATE

(* A PROXY_DATA is never mistaken for its absence.                         *)
LEMMA ConnDistinct == NoConn \notin PROXY_DATA
  BY DEF NoConn, PROXY_DATA, PROXY_STATE

(* createProxyConnection stores a PROXY_DATA.                              *)
LEMMA NewConnType ==
    ASSUME NEW t \in Handles, NEW u \in Handles
    PROVE  NewConn(t, u) \in PROXY_DATA
  <1>1. <<>> \in Seq(Nat)
    OBVIOUS
  <1> QED
    BY <1>1 DEF NewConn, PROXY_DATA, PROXY_STATE

(* What is done to a sequence of fates leaves one.                         *)
LEMMA FateUpdates ==
    ASSUME NEW s \in Seq(Fates)
    PROVE  /\ \A f \in Fates : Append(s, f) \in Seq(Fates)
           /\ \A f \in Fates : \A n : [s EXCEPT ![n] = f] \in Seq(Fates)
           /\ [n \in DOMAIN s |-> IF s[n] = "queued" THEN "lost" ELSE s[n]] \in Seq(Fates)
  <1>1. \A f \in Fates : Append(s, f) \in Seq(Fates)
    OBVIOUS
  <1>2. ASSUME NEW f \in Fates, NEW n
        PROVE  [s EXCEPT ![n] = f] \in Seq(Fates)
    <2>1. PICK k \in Nat : s \in [1 .. k -> Fates]
      OBVIOUS
    <2>2. [s EXCEPT ![n] = f] \in [1 .. k -> Fates]
      BY <2>1
    <2> QED
      BY <2>2
  <1>3. [n \in DOMAIN s |-> IF s[n] = "queued" THEN "lost" ELSE s[n]] \in Seq(Fates)
    <2>1. PICK k \in Nat : s \in [1 .. k -> Fates]
      OBVIOUS
    <2>2. [n \in DOMAIN s |-> IF s[n] = "queued" THEN "lost" ELSE s[n]] \in [1 .. k -> Fates]
      BY <2>1 DEF Fates
    <2> QED
      BY <2>2
  <1> QED
    BY <1>1, <1>2, <1>3

-----------------------------------------------------------------------------
(* Initially the invariant holds.                                          *)
LEMMA InitIInv == Init => IInv
  <1> SUFFICES ASSUME Init PROVE IInv
    OBVIOUS
  <1>1. OverlappedTypeOK
    BY IoStates DEF Init, OverlappedInit, OverlappedTypeOK
  <1>2. TypeOK
    BY <1>1, OverlappedAssumption DEF Init, TypeOK, NoCur, Results, Fates
  <1>3. OvOwnership
    BY IoStates, OverlappedAssumption DEF Init, OverlappedInit, OvOwnership, NoCur
  <1>4. WorkerInv
    BY OverlappedAssumption DEF Init, WorkerInv, NoCur
  <1> QED
    BY <1>2, <1>3, <1>4 DEF IInv

(* The types of the parts that most actions touch.                         *)
LEMMA Parts ==
    ASSUME TypeOK
    PROVE  /\ \A o \in Ovs : /\ io[o] \in IoState
                             /\ io[o].sock \in Handles \cup {INVALID_SOCKET}
                             /\ io[o].res \in Results
                             /\ ov[o] # FreeOv => ov[o] \in OV_DATA /\ ov[o].id \in Ids
           /\ \A id \in Ids : Has(id) => m_socketMap[id] \in PROXY_DATA
           /\ \A id \in Ids : m_socketMap[id].tcpSocket \in Handles \cup {INVALID_SOCKET}
           /\ \A id \in Ids : m_socketMap[id].udpSocket \in Handles \cup {INVALID_SOCKET}
  BY DEF TypeOK, OverlappedTypeOK, IoState, OV_DATA, Has, PROXY_DATA, NoConn

(* deleteOV_DATA by the handler of a completion preserves the invariant.   *)
LEMMA DeleteKeeps ==
    ASSUME NEW L, NEW D, InvBut(L, D), NEW o \in Ovs, NEW type, Dequeued(o, type), deleteOV_DATA(o)
    PROVE  InvBut(L, D)'
  <1> USE DEF InvBut
  <1>1. TypeOK'
    BY IoStates DEF TypeOK, OverlappedTypeOK, deleteOV_DATA
  <1>2. Owned(L, D)'
    BY IoStates, OverlappedAssumption DEF TypeOK, OverlappedTypeOK, Owned, WorkerInv, Dequeued, deleteOV_DATA
  <1>3. WorkerInv'
    BY DEF WorkerInv, Dequeued, deleteOV_DATA, Has
  <1> QED
    BY <1>1, <1>2, <1>3

(* So do the calls of the filter's thread.                                 *)
LEMMA CreateKeeps ==
    ASSUME NEW L, NEW D, InvBut(L, D), NEW id \in Ids, NEW ok \in BOOLEAN, createProxyConnection(id, ok)
    PROVE  InvBut(L, D)'
  <1> USE DEF InvBut
  <1>1. CASE UNCHANGED vars
    BY <1>1 DEF vars, TypeOK, OverlappedTypeOK, Owned, WorkerInv, Has
  <1>2. CASE ~UNCHANGED vars
    <2>1. PICK t \in Handles, u \in Handles, o \in Ovs :
            /\ newOV_DATA(o, {})
            /\ open' = open \cup {t, u}
            /\ m_socketMap' = [m_socketMap EXCEPT ![id] = NewConn(t, u)]
            /\ io' = [io EXCEPT ![o] = Pending(t)]
            /\ ov' = [ov EXCEPT ![o] = [id |-> id, type |-> "OVT_CONNECT"]]
            /\ created' = created \cup {id}
            /\ UNCHANGED <<m_cs, pc, cur, fate, wire, replies>>
      BY <1>2 DEF createProxyConnection, NewHandles
    <2>2. /\ [id |-> id, type |-> "OVT_CONNECT"] \in OV_DATA
          /\ [id |-> id, type |-> "OVT_CONNECT"] # FreeOv
      BY DEF OV_DATA, OV_TYPE, FreeOv
    <2>3. TypeOK'
      BY <2>1, <2>2, IoStates, NewConnType DEF TypeOK, OverlappedTypeOK, Results
    <2>4. ov[o] = FreeOv
      BY <2>1 DEF newOV_DATA, m_ovDataSet
    <2>5. Owned(L, D)'
      BY <2>1, <2>2, <2>4, IoStates DEF TypeOK, OverlappedTypeOK, Owned, Results
    <2>6. WorkerInv'
      BY <2>1 DEF WorkerInv, createProxyConnection
    <2> QED
      BY <2>3, <2>5, <2>6
  <1> QED
    BY <1>1, <1>2

(* ~PROXY_DATA leaves every variable it touches with its type.             *)
LEMMA DestroyTypes ==
    ASSUME TypeOK, NEW id \in Ids, Destroy(id)
    PROVE  /\ open' \subseteq Handles
           /\ m_socketMap' \in [Ids -> PROXY_DATA \cup {NoConn}]
           /\ fate' \in [Ids -> Seq(Fates)]
  BY FateUpdates DEF TypeOK, OverlappedTypeOK, Destroy

(* deleteProxyConnection preserves the invariant.                          *)
LEMMA DeleteConnectionKeeps ==
    ASSUME NEW L, NEW D, InvBut(L, D), NEW id \in Ids, deleteProxyConnection(id)
    PROVE  InvBut(L, D)'
  <1> USE DEF InvBut
  <1>1. CASE UNCHANGED vars
    BY <1>1 DEF vars, TypeOK, OverlappedTypeOK, Owned, WorkerInv, Has
  <1>2. CASE ~UNCHANGED vars
    <2>1. /\ m_cs = "free"
          /\ Destroy(id)
          /\ io' = Aborted(Sockets(id))
          /\ UNCHANGED <<ov, m_cs, pc, cur, wire, replies, created>>
      BY <1>2 DEF deleteProxyConnection
    <2>2. TypeOK'
      BY <2>1, DestroyTypes, AbortedFacts DEF TypeOK, OverlappedTypeOK
    <2>3. Owned(L, D)'
      <3>1. \A o \in Ovs : io'[o].st = "idle" <=> io[o].st = "idle"
        BY <2>1, AbortedFacts DEF TypeOK
      <3> QED
        BY <2>1, <3>1 DEF Owned
    <2>4. WorkerInv'
      BY <2>1 DEF WorkerInv
    <2> QED
      BY <2>2, <2>3, <2>4
  <1> QED
    BY <1>1, <1>2

(* Starting to send, or failing to, preserves ownership; m_cs is held.     *)
LEMMA SendKeeps ==
    ASSUME NEW L, NEW D, TypeOK, Owned(L, D), NEW id \in Ids, Has(id),
           SendStarts(id) \/ SendFails(id), UNCHANGED cur
    PROVE  /\ io' \in [Ovs -> IoState]
           /\ ov' \in [Ovs -> OV_DATA \cup {FreeOv}]
           /\ Owned(L, D)'
           /\ \A o \in Ovs : ov[o] # FreeOv => ov'[o] = ov[o]
  <1> DEFINE u == m_socketMap[id].udpSocket
  <1>0. u \in Handles \cup {INVALID_SOCKET}
    BY Parts
  <1>1. ASSUME NEW o \in Ovs, newOV_DATA(o, {}),
               NEW s \in IoState, NEW d \in OV_DATA \cup {FreeOv},
               s.st = "idle" <=> d = FreeOv,
               io' = [io EXCEPT ![o] = s], ov' = [ov EXCEPT ![o] = d]
        PROVE  /\ io' \in [Ovs -> IoState]
               /\ ov' \in [Ovs -> OV_DATA \cup {FreeOv}]
               /\ Owned(L, D)'
               /\ \A p \in Ovs : ov[p] # FreeOv => ov'[p] = ov[p]
    BY <1>1 DEF newOV_DATA, m_ovDataSet, TypeOK, OverlappedTypeOK, Owned
  <1>3. /\ Queued(u, "ok") \in IoState
        /\ Queued(u, "ok").st # "idle"
        /\ [id |-> id, type |-> "OVT_UDP_SEND"] \in OV_DATA
        /\ [id |-> id, type |-> "OVT_UDP_SEND"] # FreeOv
    BY <1>0, IoStates DEF Results, OV_DATA, OV_TYPE, FreeOv
  <1>4. CASE SendFails(id)
    <2>1. PICK o \in Ovs, out \in SendToOutcomes(id) :
            /\ newOV_DATA(o, {})
            /\ io' = [io EXCEPT ![o] = Started(out, u)]
            /\ ov' = [ov EXCEPT ![o] = Labelled(out, id, "OVT_UDP_SEND", "OVT_UDP_RECEIVE")]
      BY <1>4 DEF SendFails
    <2>2. out \in {"pending", "posted", "dropped"}
      BY SendToOutcomesType
    <2> DEFINE s == Started(out, u)
               d == Labelled(out, id, "OVT_UDP_SEND", "OVT_UDP_RECEIVE")
    <2>3. /\ s \in IoState /\ d \in OV_DATA \cup {FreeOv}
          /\ s.st = "idle" <=> d = FreeOv
      BY <1>0, <2>2, StartedFacts, LabelledFacts DEF OV_TYPE
    <2>4. io' = [io EXCEPT ![o] = s] /\ ov' = [ov EXCEPT ![o] = d]
      BY <2>1
    <2> HIDE DEF s, d
    <2> QED
      BY <1>1, <2>1, <2>3, <2>4
  <1>5. CASE SendStarts(id) /\ m_socketMap[id].udpRecvStarted
    BY <1>1, <1>3, <1>5 DEF SendStarts
  <1>6. CASE SendStarts(id) /\ ~m_socketMap[id].udpRecvStarted
    <2>1. PICK o \in Ovs, p \in Ovs, out \in Outcomes(u) :
            /\ newOV_DATA(o, {})
            /\ newOV_DATA(p, {o})
            /\ io' = [io EXCEPT ![o] = Queued(u, "ok"), ![p] = Started(out, u)]
            /\ ov' = [ov EXCEPT
                        ![o] = [id |-> id, type |-> "OVT_UDP_SEND"],
                        ![p] = Labelled(out, id, "OVT_UDP_RECEIVE", "OVT_UDP_RECEIVE")]
      BY <1>6 DEF SendStarts
    <2>2. out \in {"pending", "posted", "dropped"}
      BY OutcomesType
    <2> DEFINE s == Queued(u, "ok")
               d == [id |-> id, type |-> "OVT_UDP_SEND"]
               r == Started(out, u)
               e == Labelled(out, id, "OVT_UDP_RECEIVE", "OVT_UDP_RECEIVE")
    <2>3. /\ s \in IoState /\ d \in OV_DATA \cup {FreeOv}
          /\ s.st = "idle" <=> d = FreeOv
      BY <1>3
    <2>4. /\ r \in IoState /\ e \in OV_DATA \cup {FreeOv}
          /\ r.st = "idle" <=> e = FreeOv
      BY <1>0, <2>2, StartedFacts, LabelledFacts DEF OV_TYPE
    <2>5. io' = [io EXCEPT ![o] = s, ![p] = r] /\ ov' = [ov EXCEPT ![o] = d, ![p] = e]
      BY <2>1
    <2> HIDE DEF s, d, r, e
    <2>6. o # p /\ ov[o] = FreeOv /\ ov[p] = FreeOv
      BY <2>1 DEF newOV_DATA, m_ovDataSet
    <2>7. io' \in [Ovs -> IoState] /\ ov' \in [Ovs -> OV_DATA \cup {FreeOv}]
      BY <2>3, <2>4, <2>5 DEF TypeOK, OverlappedTypeOK
    <2>8. /\ io'[o] = s /\ ov'[o] = d /\ io'[p] = r /\ ov'[p] = e
          /\ \A x \in Ovs \ {o, p} : io'[x] = io[x] /\ ov'[x] = ov[x]
      BY <2>5, <2>6 DEF TypeOK, OverlappedTypeOK
    <2>9. Owned(L, D)'
      BY <2>3, <2>4, <2>6, <2>8 DEF Owned
    <2> QED
      BY <2>6, <2>7, <2>8, <2>9
  <1> QED
    BY <1>4, <1>5, <1>6

(* udpSend, called by the filter thread, preserves the invariant.          *)
LEMMA UdpSendKeeps ==
    ASSUME NEW L, NEW D, InvBut(L, D), NEW id \in Ids, NEW ok \in BOOLEAN, udpSend(id, ok)
    PROVE  InvBut(L, D)'
  <1> USE DEF InvBut
  <1>1. /\ fate' \in [Ids -> Seq(Fates)]
        /\ UNCHANGED <<open, m_cs, pc, cur, wire, replies, created>>
        /\ m_cs = "free"
    <2>1. PICK f \in Fates : fate' = [fate EXCEPT ![id] = Append(@, f)]
      BY DEF udpSend, Fates
    <2>2. fate' \in [Ids -> Seq(Fates)]
      BY <2>1, FateUpdates DEF TypeOK
    <2> QED
      BY <2>2 DEF udpSend
  <1>2. WorkerInv'
    BY <1>1 DEF WorkerInv
  <1>3. CASE UNCHANGED <<io, ov>>
    <2>1. m_socketMap' \in [Ids -> PROXY_DATA \cup {NoConn}]
      <3>1. CASE UNCHANGED m_socketMap
        BY <3>1 DEF TypeOK
      <3>2. CASE /\ Has(id)
                 /\ m_socketMap' = [m_socketMap EXCEPT
                      ![id].udpSendPackets = Append(@, Len(fate[id]) + 1)]
        <4>1. m_socketMap[id] \in PROXY_DATA /\ fate[id] \in Seq(Fates)
          BY <3>2, Parts DEF TypeOK
        <4>2. Append(m_socketMap[id].udpSendPackets, Len(fate[id]) + 1) \in Seq(Nat)
          BY <4>1 DEF PROXY_DATA
        <4> QED
          BY <3>2, <4>1, <4>2, ConnUpdates DEF TypeOK
      <3>3. CASE Has(id) /\ m_socketMap' = [m_socketMap EXCEPT ![id].udpRecvStarted = TRUE]
        BY <3>3, Parts, ConnUpdates DEF TypeOK
      <3> QED
        BY <3>1, <3>2, <3>3 DEF udpSend
    <2> QED
      BY <1>1, <1>2, <1>3, <2>1 DEF TypeOK, OverlappedTypeOK, Owned
  <1>4. CASE Has(id) /\ (SendStarts(id) \/ SendFails(id))
             /\ (\/ UNCHANGED m_socketMap
                 \/ m_socketMap' = [m_socketMap EXCEPT ![id].udpRecvStarted = TRUE])
    <2>0. m_socketMap[id] \in PROXY_DATA
      BY <1>4, Parts
    <2>1. m_socketMap' \in [Ids -> PROXY_DATA \cup {NoConn}]
      BY <1>4, <2>0, ConnUpdates DEF TypeOK
    <2> QED
      BY <1>1, <1>2, <1>4, <2>1, SendKeeps DEF TypeOK, OverlappedTypeOK
  <1> QED
    BY <1>3, <1>4 DEF udpSend

(* The kernel's completions.                                               *)
LEMMA KernelKeeps ==
    ASSUME NEW L, NEW D, InvBut(L, D), NEW o \in Ovs, Kernel(o)
    PROVE  InvBut(L, D)'
  <1> USE DEF InvBut
  <1>1. /\ UNCHANGED Env
        /\ replies' \in [Ids -> Seq(TcpReplies)]
        /\ \E r \in Results : Complete(o, r)
    <2>1. CASE connected(o)
      BY <2>1 DEF connected, TypeOK, Results
    <2>2. CASE hungUp(o)
      BY <2>2 DEF hungUp, TypeOK, Results
    <2>3. CASE arrived(o)
      BY <2>3 DEF arrived, TypeOK, Results, UdpReplies
    <2>4. ASSUME NEW id \in Ids, answered(id, o)
          PROVE  /\ UNCHANGED Env
                 /\ replies' \in [Ids -> Seq(TcpReplies)]
                 /\ \E r \in Results : Complete(o, r)
      <3>0. wire[id][Len(replies[id]) + 1] \in {"greeting", "auth", "associate"}
        BY <2>4 DEF answered, TypeOK
      <3>1. PICK r \in TcpReplies : /\ \E s \in TakenAs(ov[o].type, r) : Complete(o, s)
                                    /\ replies' = [replies EXCEPT ![id] = Append(@, r)]
                                    /\ UNCHANGED Env
        BY <2>4, <3>0 DEF answered, Proper, TcpReplies, MethodReplies, AuthReplies, AssocReplies
      <3>2. PICK s \in Results : Complete(o, s)
        BY <3>1 DEF TakenAs, Results
      <3>3. replies' \in [Ids -> Seq(TcpReplies)]
        BY <3>1 DEF TypeOK
      <3> QED
        BY <3>1, <3>2, <3>3
    <2> QED
      BY <2>1, <2>2, <2>3, <2>4 DEF Kernel
  <1>2. PICK r \in Results : Complete(o, r)
    BY <1>1
  <1>3. TypeOK'
    BY <1>1, <1>2, Parts, IoStates DEF Complete, Env, TypeOK, OverlappedTypeOK
  <1>4. Owned(L, D)'
    BY <1>1, <1>2, Parts, IoStates DEF Complete, Env, TypeOK, OverlappedTypeOK, Owned
  <1>5. WorkerInv'
    BY <1>1 DEF Env, WorkerInv, Has
  <1> QED
    BY <1>3, <1>4, <1>5

(* The worker's handlers, one lemma for each that does more than delete.   *)

(* The handler keeps the OV_DATA in hand for the rest of its work.         *)
LEMMA ContinueKeeps ==
    ASSUME NEW L, InvBut(L, {}), NEW o \in Ovs, NEW type, Dequeued(o, type), NEW at \in Rests, Continue(at, o),
           io' \in [Ovs -> IoState], ov' \in [Ovs -> OV_DATA \cup {FreeOv}],
           io'[o].st = "idle", ov'[o] = ov[o],
           \A p \in Ovs \ {o} :
             \/ io'[p].st = io[p].st /\ ov'[p] = ov[p]
             \/ io[p].st = "idle" /\ (io'[p].st = "idle" <=> ov'[p] = FreeOv)
    PROVE  /\ Owned(L, {})'
           /\ cur' \in [ov : Ovs \cup {0}, sock : Handles \cup {INVALID_SOCKET}, res : Results]
           /\ pc' \in Rests
           /\ cur'.ov = o
  <1>1. /\ pc = "wait" /\ cur.ov = 0 /\ 0 \notin Ovs
        /\ ov[o] # FreeOv
    BY OverlappedAssumption DEF InvBut, WorkerInv, Dequeued, Owned
  <1>2. /\ cur' \in [ov : Ovs \cup {0}, sock : Handles \cup {INVALID_SOCKET}, res : Results]
        /\ pc' \in Rests
        /\ cur'.ov = o
    BY Parts DEF InvBut, Continue
  <1>3. Owned(L, {})'
    BY <1>1, <1>2 DEF InvBut, Owned
  <1> QED
    BY <1>2, <1>3

(* proxyState moves from one PROXY_STATE to another.                       *)
LEMMA StateUpdate ==
    ASSUME NEW m \in [Ids -> PROXY_DATA \cup {NoConn}], NEW id \in Ids, m[id] \in PROXY_DATA,
           NEW s \in PROXY_STATE
    PROVE  [m EXCEPT ![id].proxyState = s] \in [Ids -> PROXY_DATA \cup {NoConn}]
  BY ConnUpdates

(* The history of requests grows by a request.                             *)
LEMMA WireUpdate ==
    ASSUME NEW w \in [Ids -> Seq({"greeting", "auth", "associate"})], NEW id \in Ids,
           NEW r \in {"greeting", "auth", "associate"}
    PROVE  [w EXCEPT ![id] = Append(@, r)] \in [Ids -> Seq({"greeting", "auth", "associate"})]
  <1>1. Append(w[id], r) \in Seq({"greeting", "auth", "associate"})
    OBVIOUS
  <1> QED
    BY <1>1

(* onConnectComplete with an error preserves the invariant.                *)
LEMMA ConnectFailedKeeps ==
    ASSUME NEW L, InvBut(L, {}), NEW o \in Ovs, onConnectFailed(o)
    PROVE  InvBut(L, {})'
  <1> DEFINE id == ov[o].id
  <1>1. CASE deleteOV_DATA(o)
    BY <1>1, DeleteKeeps DEF onConnectFailed
  <1>2. CASE ~deleteOV_DATA(o)
    <2>1. /\ Dequeued(o, "OVT_CONNECT")
          /\ Destroy(id)
          /\ io' = [Aborted(Sockets(id)) EXCEPT ![o] = Idle]
          /\ ov' = [ov EXCEPT ![o] = FreeOv]
          /\ UNCHANGED <<m_cs, pc, cur, wire, replies, created>>
      BY <1>2 DEF onConnectFailed
    <2>2. id \in Ids /\ pc = "wait" /\ m_cs = "free" /\ cur.ov = 0 /\ 0 \notin Ovs
      BY <2>1, Parts, OverlappedAssumption DEF InvBut, Dequeued, Owned, WorkerInv
    <2>3. TypeOK'
      BY <2>1, <2>2, DestroyTypes, AbortedFacts, IoStates DEF InvBut, TypeOK, OverlappedTypeOK
    <2>4. Owned(L, {})'
      <3>1. \A p \in Ovs \ {o} : io'[p].st = "idle" <=> io[p].st = "idle"
        BY <2>1, AbortedFacts DEF InvBut, TypeOK
      <3>2. io'[o].st = "idle"
        BY <2>1, AbortedFacts, IoStates DEF InvBut, TypeOK
      <3> QED
        BY <2>1, <2>2, <3>1, <3>2 DEF InvBut, TypeOK, Owned
    <2>5. WorkerInv'
      BY <2>1, <2>2 DEF InvBut, WorkerInv
    <2> QED
      BY <2>3, <2>4, <2>5 DEF InvBut
  <1> QED
    BY <1>1, <1>2

(* onConnectComplete without one preserves the invariant.                  *)
LEMMA ConnectKeeps ==
    ASSUME NEW L, InvBut(L, {}), NEW o \in Ovs, onConnectComplete(o)
    PROVE  InvBut(L, {})'
  <1> DEFINE id == ov[o].id
             t  == m_socketMap[id].tcpSocket
  <1>1. CASE deleteOV_DATA(o)
    BY <1>1, DeleteKeeps DEF onConnectComplete
  <1>2. CASE ~deleteOV_DATA(o)
    <2>1. PICK p \in Ovs, q \in Ovs, out \in Outcomes(t), rout \in Outcomes(t) :
            /\ newOV_DATA(p, {})
            /\ newOV_DATA(q, {p})
            /\ io' = [io EXCEPT ![p] = SendStarted(out, t), ![q] = Started(rout, t), ![o] = Idle]
            /\ ov' = [ov EXCEPT
                        ![p] = Labelled(out, id, "OVT_TCP_SEND", "OVT_TCP_RECEIVE"),
                        ![q] = Labelled(rout, id, "OVT_TCP_RECEIVE", "OVT_TCP_RECEIVE"),
                        ![o] = FreeOv]
            /\ \/ /\ m_socketMap' = [m_socketMap EXCEPT ![id].proxyState = "PS_AUTH"]
                  /\ wire' = [wire EXCEPT ![id] = Append(@, "greeting")]
               \/ UNCHANGED <<m_socketMap, wire>>
            /\ UNCHANGED <<open, m_cs, pc, cur, fate, replies, created>>
      BY <1>2, ZenonT(60) DEF onConnectComplete
    <2>2. Dequeued(o, "OVT_CONNECT") /\ Has(id)
      BY <1>2 DEF onConnectComplete
    <2>3. /\ id \in Ids /\ pc = "wait" /\ m_cs = "free" /\ cur.ov = 0 /\ 0 \notin Ovs
          /\ ov[o] # FreeOv
      BY <2>2, Parts, OverlappedAssumption DEF InvBut, Dequeued, Owned, WorkerInv
    <2>4. /\ out \in {"pending", "posted", "dropped"}
          /\ rout \in {"pending", "posted", "dropped"}
          /\ t \in Handles \cup {INVALID_SOCKET}
          /\ m_socketMap[id] \in PROXY_DATA
      BY <2>2, <2>3, OutcomesType, Parts DEF InvBut
    <2>5. p # o /\ q # o /\ p # q /\ ov[p] = FreeOv /\ ov[q] = FreeOv
      BY <2>1, <2>3 DEF newOV_DATA, m_ovDataSet
    <2>6. io' \in [Ovs -> IoState] /\ ov' \in [Ovs -> OV_DATA \cup {FreeOv}]
      <3>1. io \in [Ovs -> IoState] /\ ov \in [Ovs -> OV_DATA \cup {FreeOv}]
        BY DEF InvBut, TypeOK, OverlappedTypeOK
      <3>2. /\ SendStarted(out, t) \in IoState /\ Started(rout, t) \in IoState /\ Idle \in IoState
            /\ Labelled(out, id, "OVT_TCP_SEND", "OVT_TCP_RECEIVE") \in OV_DATA \cup {FreeOv}
            /\ Labelled(rout, id, "OVT_TCP_RECEIVE", "OVT_TCP_RECEIVE") \in OV_DATA \cup {FreeOv}
        BY <2>3, <2>4, StartedFacts, LabelledFacts, IoStates DEF OV_TYPE
      <3> QED
        BY <2>1, <3>1, <3>2
    <2>7. m_socketMap' \in [Ids -> PROXY_DATA \cup {NoConn}]
      <3>1. m_socketMap \in [Ids -> PROXY_DATA \cup {NoConn}] /\ "PS_AUTH" \in PROXY_STATE
        BY DEF InvBut, TypeOK, PROXY_STATE
      <3>2. [m_socketMap EXCEPT ![id].proxyState = "PS_AUTH"] \in [Ids -> PROXY_DATA \cup {NoConn}]
        BY <2>3, <2>4, <3>1, StateUpdate
      <3> QED
        BY <2>1, <3>1, <3>2
    <2>8. wire' \in [Ids -> Seq({"greeting", "auth", "associate"})]
      <3>1. wire \in [Ids -> Seq({"greeting", "auth", "associate"})]
        BY DEF InvBut, TypeOK
      <3>2. [wire EXCEPT ![id] = Append(@, "greeting")] \in [Ids -> Seq({"greeting", "auth", "associate"})]
        BY <2>3, <3>1, WireUpdate
      <3> QED
        BY <2>1, <3>1, <3>2
    <2>9. TypeOK'
      BY <2>1, <2>6, <2>7, <2>8 DEF InvBut, TypeOK, OverlappedTypeOK
    <2>10. Owned(L, {})'
      <3>1. /\ io'[o].st = "idle" /\ ov'[o] = FreeOv
            /\ io'[p].st = "idle" <=> ov'[p] = FreeOv
            /\ io'[q].st = "idle" <=> ov'[q] = FreeOv
        <4>1. io \in [Ovs -> IoState] /\ ov \in [Ovs -> OV_DATA \cup {FreeOv}]
          BY DEF InvBut, TypeOK, OverlappedTypeOK
        <4>2. /\ SendStarted(out, t).st = "idle" <=> out = "dropped"
              /\ Started(rout, t).st = "idle" <=> rout = "dropped"
              /\ Labelled(out, id, "OVT_TCP_SEND", "OVT_TCP_RECEIVE") = FreeOv <=> out = "dropped"
              /\ Labelled(rout, id, "OVT_TCP_RECEIVE", "OVT_TCP_RECEIVE") = FreeOv <=> rout = "dropped"
          BY <2>3, <2>4, StartedFacts, LabelledFacts DEF OV_TYPE
        <4>3. /\ io'[o] = Idle /\ ov'[o] = FreeOv
              /\ io'[p] = SendStarted(out, t) /\ io'[q] = Started(rout, t)
              /\ ov'[p] = Labelled(out, id, "OVT_TCP_SEND", "OVT_TCP_RECEIVE")
              /\ ov'[q] = Labelled(rout, id, "OVT_TCP_RECEIVE", "OVT_TCP_RECEIVE")
          BY <2>1, <2>5, <4>1
        <4> QED
          BY <4>2, <4>3, IoStates
      <3>2. \A r \in Ovs \ {o, p, q} : io'[r] = io[r] /\ ov'[r] = ov[r]
        BY <2>1 DEF InvBut, TypeOK, OverlappedTypeOK
      <3>3. cur'.ov = 0 /\ 0 \notin Ovs /\ cur.ov = 0
        BY <2>1, <2>3
      <3> QED
        BY <3>1, <3>2, <3>3 DEF InvBut, Owned
    <2>11. WorkerInv'
      BY <2>1, <2>3 DEF InvBut, WorkerInv
    <2> QED
      BY <2>9, <2>10, <2>11 DEF InvBut
  <1> QED
    BY <1>1, <1>2

(* Sending the next request of the dialogue preserves the invariant.       *)
LEMMA RequestKeeps ==
    ASSUME NEW L, InvBut(L, {}), NEW o \in Ovs, onTcpReceiveRequest(o)
    PROVE  InvBut(L, {})'
  <1> DEFINE id  == ov[o].id
             t   == m_socketMap[id].tcpSocket
             req == NextRequest(m_socketMap[id], io[o].res)
  <1>1. PICK p \in Ovs, out \in Outcomes(t) :
          /\ newOV_DATA(p, {})
          /\ io' = [io EXCEPT ![p] = SendStarted(out, t), ![o] = Idle]
          /\ ov' = [ov EXCEPT ![p] = Labelled(out, id, "OVT_TCP_SEND", "OVT_TCP_RECEIVE")]
          /\ \/ /\ m_socketMap' = [m_socketMap EXCEPT ![id].proxyState = StateAfter(req)]
                /\ wire' = [wire EXCEPT ![id] = Append(@, req)]
             \/ UNCHANGED <<m_socketMap, wire>>
    BY DEF onTcpReceiveRequest
  <1>2. /\ Dequeued(o, "OVT_TCP_RECEIVE") /\ req # "none"
        /\ Continue("rearmTcp", o)
        /\ UNCHANGED <<open, m_cs, fate, replies, created>>
    BY DEF onTcpReceiveRequest
  <1>3. id \in Ids /\ pc = "wait" /\ m_cs = "free" /\ ov[o] # FreeOv
    BY <1>2, Parts DEF InvBut, Dequeued, Owned
  <1>4. /\ req \in {"auth", "associate"}
        /\ Has(id)
    BY <1>2 DEF NextRequest, Has, NoConn
  <1>5. /\ out \in {"pending", "posted", "dropped"}
        /\ t \in Handles \cup {INVALID_SOCKET}
        /\ m_socketMap[id] \in PROXY_DATA
        /\ p # o /\ ov[p] = FreeOv /\ io[p].st = "idle"
    BY <1>1, <1>3, <1>4, OutcomesType, Parts DEF InvBut, newOV_DATA, m_ovDataSet, Owned
  <1>6. io' \in [Ovs -> IoState] /\ ov' \in [Ovs -> OV_DATA \cup {FreeOv}]
    <2>1. io \in [Ovs -> IoState] /\ ov \in [Ovs -> OV_DATA \cup {FreeOv}]
      BY DEF InvBut, TypeOK, OverlappedTypeOK
    <2>2. /\ SendStarted(out, t) \in IoState /\ Idle \in IoState
          /\ Labelled(out, id, "OVT_TCP_SEND", "OVT_TCP_RECEIVE") \in OV_DATA \cup {FreeOv}
      BY <1>3, <1>5, StartedFacts, LabelledFacts, IoStates DEF OV_TYPE
    <2> QED
      BY <1>1, <2>1, <2>2
  <1>7. /\ io'[o].st = "idle" /\ ov'[o] = ov[o]
        /\ \A r \in Ovs \ {o} :
             \/ io'[r].st = io[r].st /\ ov'[r] = ov[r]
             \/ io[r].st = "idle" /\ (io'[r].st = "idle" <=> ov'[r] = FreeOv)
    <2>1. io \in [Ovs -> IoState] /\ ov \in [Ovs -> OV_DATA \cup {FreeOv}]
      BY DEF InvBut, TypeOK, OverlappedTypeOK
    <2>2. /\ SendStarted(out, t).st = "idle" <=> out = "dropped"
          /\ Labelled(out, id, "OVT_TCP_SEND", "OVT_TCP_RECEIVE") = FreeOv <=> out = "dropped"
      BY <1>3, <1>5, StartedFacts, LabelledFacts DEF OV_TYPE
    <2>3. /\ io'[o] = Idle /\ ov'[o] = ov[o]
          /\ io'[p] = SendStarted(out, t)
          /\ ov'[p] = Labelled(out, id, "OVT_TCP_SEND", "OVT_TCP_RECEIVE")
          /\ \A r \in Ovs \ {o, p} : io'[r] = io[r] /\ ov'[r] = ov[r]
      BY <1>1, <1>5, <2>1
    <2> QED
      BY <1>5, <2>2, <2>3, IoStates
  <1>8. /\ Owned(L, {})'
        /\ cur' \in [ov : Ovs \cup {0}, sock : Handles \cup {INVALID_SOCKET}, res : Results]
        /\ pc' = "rearmTcp" /\ cur'.ov = o
    BY <1>2, <1>6, <1>7, ContinueKeeps DEF Rests, Continue
  <1>9. m_socketMap' \in [Ids -> PROXY_DATA \cup {NoConn}]
    <2>1. StateAfter(req) \in PROXY_STATE
      BY DEF StateAfter, PROXY_STATE
    <2>2. m_socketMap \in [Ids -> PROXY_DATA \cup {NoConn}]
      BY DEF InvBut, TypeOK
    <2>3. [m_socketMap EXCEPT ![id].proxyState = StateAfter(req)] \in [Ids -> PROXY_DATA \cup {NoConn}]
      BY <1>3, <1>5, <2>1, <2>2, StateUpdate
    <2> QED
      BY <1>1, <2>2, <2>3
  <1>10. wire' \in [Ids -> Seq({"greeting", "auth", "associate"})]
    <2>1. wire \in [Ids -> Seq({"greeting", "auth", "associate"})]
      BY DEF InvBut, TypeOK
    <2>2. [wire EXCEPT ![id] = Append(@, req)] \in [Ids -> Seq({"greeting", "auth", "associate"})]
      BY <1>3, <1>4, <2>1, WireUpdate
    <2> QED
      BY <1>1, <2>1, <2>2
  <1>11. TypeOK'
    BY <1>2, <1>6, <1>8, <1>9, <1>10 DEF InvBut, TypeOK, OverlappedTypeOK, Rests
  <1>12. WorkerInv'
    BY <1>2, <1>3, <1>8, OverlappedAssumption DEF WorkerInv
  <1> QED
    BY <1>8, <1>11, <1>12 DEF InvBut

(* The facts common to the handlers that only put the OV_DATA aside.       *)
LEMMA AsideKeeps ==
    ASSUME NEW L, InvBut(L, {}), NEW o \in Ovs, NEW type, Dequeued(o, type), NEW at \in Rests, Continue(at, o),
           io' = [io EXCEPT ![o] = Idle], UNCHANGED ov
    PROVE  /\ io' \in [Ovs -> IoState]
           /\ Owned(L, {})'
           /\ cur' \in [ov : Ovs \cup {0}, sock : Handles \cup {INVALID_SOCKET}, res : Results]
           /\ pc' = at /\ cur'.ov = o
           /\ ov[o].id \in Ids /\ pc = "wait" /\ m_cs = "free"
  <1>1. io \in [Ovs -> IoState] /\ ov \in [Ovs -> OV_DATA \cup {FreeOv}]
    BY DEF InvBut, TypeOK, OverlappedTypeOK
  <1>2. /\ io' \in [Ovs -> IoState]
        /\ io'[o].st = "idle"
        /\ \A p \in Ovs \ {o} : io'[p].st = io[p].st
    BY <1>1, IoStates
  <1>3. ov[o].id \in Ids /\ pc = "wait" /\ m_cs = "free"
    BY Parts DEF InvBut, Dequeued, Owned
  <1>4. /\ Owned(L, {})'
        /\ cur' \in [ov : Ovs \cup {0}, sock : Handles \cup {INVALID_SOCKET}, res : Results]
        /\ pc' \in Rests
        /\ cur'.ov = o
    BY <1>1, <1>2, ContinueKeeps
  <1> QED
    BY <1>2, <1>3, <1>4 DEF Continue

(* Entering the loop over the queue, in m_cs, preserves the invariant.     *)
LEMMA AssociatedKeeps ==
    ASSUME NEW L, InvBut(L, {}), NEW o \in Ovs, onTcpReceiveAssociated(o)
    PROVE  InvBut(L, {})'
  <1> DEFINE id == ov[o].id
             c  == m_socketMap[id]
  <1>1. /\ Dequeued(o, "OVT_TCP_RECEIVE")
        /\ Accepts(c, io[o].res)
        /\ m_socketMap' = [m_socketMap EXCEPT ![id].proxyState = "PS_CONNECTED",
                                              ![id].remoteAddress = io[o].res]
        /\ io' = [io EXCEPT ![o] = Idle]
        /\ m_cs' = "worker"
        /\ Continue("drain", o)
        /\ UNCHANGED <<open, ov, fate, wire, replies, created>>
    BY DEF onTcpReceiveAssociated
  <1>2. /\ io' \in [Ovs -> IoState]
        /\ Owned(L, {})'
        /\ cur' \in [ov : Ovs \cup {0}, sock : Handles \cup {INVALID_SOCKET}, res : Results]
        /\ pc' = "drain" /\ cur'.ov = o
        /\ id \in Ids
    BY <1>1, AsideKeeps DEF Rests
  <1>3. c \in PROXY_DATA /\ io[o].res \in {"v4", "v6", "cut"}
    BY <1>1, <1>2, Parts DEF InvBut, Accepts, Has, NoConn
  <1>4. m_socketMap \in [Ids -> PROXY_DATA \cup {NoConn}]
    BY DEF InvBut, TypeOK
  <1>5. /\ m_socketMap' \in [Ids -> PROXY_DATA \cup {NoConn}]
        /\ m_socketMap'[id] \in PROXY_DATA
    BY <1>1, <1>2, <1>3, <1>4, ConnUpdates
  <1>6. TypeOK'
    BY <1>1, <1>2, <1>5 DEF InvBut, TypeOK, OverlappedTypeOK, Rests
  <1>7. WorkerInv'
    BY <1>1, <1>2, <1>5, ConnDistinct, OverlappedAssumption DEF WorkerInv, Has
  <1> QED
    BY <1>2, <1>6, <1>7 DEF InvBut

(* So do the handlers that go on to re-arm or to the callback.             *)
LEMMA ToRearmKeeps ==
    ASSUME NEW L, InvBut(L, {}), NEW o \in Ovs, onTcpReceiveIgnored(o) \/ onUdpReceiveComplete(o)
    PROVE  InvBut(L, {})'
  <1>1. PICK type \in OV_TYPE, at \in Rests \ {"drain"} :
          /\ Dequeued(o, type)
          /\ io' = [io EXCEPT ![o] = Idle]
          /\ Continue(at, o)
          /\ UNCHANGED <<open, ov, m_socketMap, m_cs, fate, wire, replies, created>>
    BY DEF onTcpReceiveIgnored, onUdpReceiveComplete, OV_TYPE, Rests
  <1>2. /\ io' \in [Ovs -> IoState]
        /\ Owned(L, {})'
        /\ cur' \in [ov : Ovs \cup {0}, sock : Handles \cup {INVALID_SOCKET}, res : Results]
        /\ pc' = at /\ cur'.ov = o /\ m_cs = "free"
    BY <1>1, AsideKeeps
  <1>3. TypeOK'
    BY <1>1, <1>2 DEF InvBut, TypeOK, OverlappedTypeOK
  <1>4. WorkerInv'
    BY <1>1, <1>2, OverlappedAssumption DEF WorkerInv, Rests
  <1> QED
    BY <1>2, <1>3, <1>4 DEF InvBut

(* So does one turn of the loop over the queue.                            *)
LEMMA DrainKeeps ==
    ASSUME NEW L, InvBut(L, {}), drain
    PROVE  InvBut(L, {})'
  <1> DEFINE id == ov[cur.ov].id
             c  == m_socketMap[id]
  <1>1. /\ pc = "drain" /\ c.udpSendPackets # <<>>
        /\ SendStarts(id) \/ SendFails(id)
        /\ \/ m_socketMap' = [m_socketMap EXCEPT ![id].udpSendPackets = Tail(@),
                                                 ![id].udpRecvStarted = TRUE]
           \/ m_socketMap' = [m_socketMap EXCEPT ![id].udpSendPackets = Tail(@)]
        /\ \E f \in Fates : fate' = [fate EXCEPT ![id][Head(c.udpSendPackets)] = f]
        /\ UNCHANGED <<open, m_cs, pc, cur, wire, replies, created>>
    BY DEF drain, Fates
  <1>2. /\ cur.ov \in Ovs /\ ov[cur.ov] # FreeOv
        /\ id \in Ids /\ Has(id) /\ c \in PROXY_DATA
    BY <1>1, Parts DEF InvBut, WorkerInv, Owned
  <1>3. /\ io' \in [Ovs -> IoState]
        /\ ov' \in [Ovs -> OV_DATA \cup {FreeOv}]
        /\ Owned(L, {})'
        /\ ov'[cur.ov] = ov[cur.ov]
    BY <1>1, <1>2, SendKeeps DEF InvBut
  <1>4. m_socketMap' \in [Ids -> PROXY_DATA \cup {NoConn}] /\ m_socketMap'[id] \in PROXY_DATA
    <2>1. m_socketMap \in [Ids -> PROXY_DATA \cup {NoConn}]
      BY DEF InvBut, TypeOK
    <2>2. Tail(c.udpSendPackets) \in Seq(Nat)
      <3>1. c.udpSendPackets \in Seq(Nat)
        <4> HIDE DEF c
        <4> QED
          BY <1>2 DEF PROXY_DATA
      <3>2. \A q \in Seq(Nat) : q # <<>> => Tail(q) \in Seq(Nat)
        OBVIOUS
      <3> QED
        BY <1>1, <3>1, <3>2, Zenon
    <2>3. /\ [c EXCEPT !.udpSendPackets = Tail(@)] \in PROXY_DATA
          /\ [c EXCEPT !.udpSendPackets = Tail(@), !.udpRecvStarted = TRUE] \in PROXY_DATA
      BY <1>2, <2>2, ConnUpdates
    <2>4. CASE m_socketMap' = [m_socketMap EXCEPT ![id].udpSendPackets = Tail(@)]
      BY <1>2, <2>1, <2>3, <2>4
    <2>5. CASE m_socketMap' = [m_socketMap EXCEPT ![id].udpSendPackets = Tail(@),
                                                  ![id].udpRecvStarted = TRUE]
      BY <1>2, <2>1, <2>3, <2>5
    <2> QED
      BY <1>1, <2>4, <2>5
  <1>5. fate' \in [Ids -> Seq(Fates)]
    <2>1. fate \in [Ids -> Seq(Fates)]
      BY DEF InvBut, TypeOK
    <2>2. PICK f \in Fates : fate' = [fate EXCEPT ![id][Head(c.udpSendPackets)] = f]
      BY <1>1
    <2>3. [fate[id] EXCEPT ![Head(c.udpSendPackets)] = f] \in Seq(Fates)
      BY <1>2, <2>1, FateUpdates
    <2> QED
      BY <1>2, <2>1, <2>2, <2>3
  <1>6. TypeOK'
    BY <1>1, <1>3, <1>4, <1>5 DEF InvBut, TypeOK, OverlappedTypeOK
  <1>7. WorkerInv'
    BY <1>1, <1>2, <1>3, <1>4, ConnDistinct DEF InvBut, WorkerInv, Has
  <1> QED
    BY <1>3, <1>6, <1>7 DEF InvBut

(* So does starting the next receive with the OV_DATA in hand.             *)
LEMMA RearmKeeps ==
    ASSUME NEW L, InvBut(L, {}), NEW at \in {"rearmTcp", "rearmUdp"}, rearm(at)
    PROVE  InvBut(L, {})'
  <1>1. PICK out \in RearmOutcomes :
          /\ io' = [io EXCEPT ![cur.ov] = Started(out, cur.sock)]
          /\ ov' = [ov EXCEPT ![cur.ov] = IF out = "dropped" THEN FreeOv ELSE @]
    BY DEF rearm
  <1>2. /\ pc = at /\ pc' = "wait" /\ cur' = NoCur
        /\ UNCHANGED <<open, m_socketMap, m_cs, fate, wire, replies, created>>
    BY DEF rearm
  <1>3. /\ cur.ov \in Ovs /\ ov[cur.ov] # FreeOv
        /\ io \in [Ovs -> IoState] /\ ov \in [Ovs -> OV_DATA \cup {FreeOv}]
        /\ cur.sock \in Handles \cup {INVALID_SOCKET}
        /\ out \in {"pending", "posted", "dropped"}
    BY <1>2, RearmOutcomesType DEF InvBut, WorkerInv, Owned, TypeOK, OverlappedTypeOK
  <1>4. io' \in [Ovs -> IoState] /\ ov' \in [Ovs -> OV_DATA \cup {FreeOv}]
    BY <1>1, <1>3, StartedFacts
  <1>5. TypeOK'
    BY <1>2, <1>4, OverlappedAssumption DEF InvBut, TypeOK, OverlappedTypeOK, NoCur, Results
  <1>6. Owned(L, {})'
    <2>1. io'[cur.ov].st = "idle" <=> ov'[cur.ov] = FreeOv
      BY <1>1, <1>3, StartedFacts
    <2>2. \A o \in Ovs \ {cur.ov} : io'[o] = io[o] /\ ov'[o] = ov[o]
      BY <1>1, <1>3
    <2>3. cur'.ov \notin Ovs
      BY <1>2, OverlappedAssumption DEF NoCur
    <2> QED
      BY <2>1, <2>2, <2>3 DEF InvBut, Owned
  <1>7. WorkerInv'
    BY <1>2 DEF InvBut, WorkerInv, NoCur
  <1> QED
    BY <1>5, <1>6, <1>7 DEF InvBut

(* So do leaving the loop and returning from the callback.                 *)
LEMMA DrainEndOrCallbackKeeps ==
    ASSUME NEW L, InvBut(L, {}), drainEnd \/ callback
    PROVE  InvBut(L, {})'
  <1>1. /\ UNCHANGED <<open, io, ov, m_socketMap, cur, fate, wire, replies, created>>
        /\ \/ pc = "drain" /\ pc' = "rearmTcp" /\ m_cs' = "free"
           \/ pc = "callback" /\ pc' = "rearmUdp" /\ UNCHANGED m_cs
    BY DEF drainEnd, callback
  <1>2. TypeOK'
    BY <1>1 DEF InvBut, TypeOK, OverlappedTypeOK, Rests
  <1>3. Owned(L, {})'
    BY <1>1 DEF InvBut, Owned
  <1>4. WorkerInv'
    BY <1>1 DEF InvBut, WorkerInv, Has
  <1> QED
    BY <1>2, <1>3, <1>4 DEF InvBut

-----------------------------------------------------------------------------
(* Every handler preserves the invariant.                                  *)
LEMMA HandleKeeps ==
    ASSUME NEW L, InvBut(L, {}), NEW o \in Ovs, Handle(o)
    PROVE  InvBut(L, {})'
  <1>1. CASE onTcpSendComplete(o) \/ onUdpSendComplete(o) \/ onTcpReceiveEnd(o) \/ onUdpReceiveEnd(o)
    BY <1>1, DeleteKeeps DEF onTcpSendComplete, onUdpSendComplete, onTcpReceiveEnd, onUdpReceiveEnd
  <1>2. CASE onConnectFailed(o) \/ onConnectComplete(o)
    BY <1>2, ConnectFailedKeeps, ConnectKeeps
  <1>3. CASE onTcpReceiveRequest(o) \/ onTcpReceiveAssociated(o)
    BY <1>3, RequestKeeps, AssociatedKeeps
  <1>4. CASE onTcpReceiveIgnored(o) \/ onUdpReceiveComplete(o)
    BY <1>4, ToRearmKeeps
  <1> QED
    BY <1>1, <1>2, <1>3, <1>4 DEF Handle

(* So does what follows the first part of a handler.                       *)
LEMMA ResumeKeeps ==
    ASSUME NEW L, InvBut(L, {}), Resume
    PROVE  InvBut(L, {})'
  BY DrainKeeps, DrainEndOrCallbackKeeps, RearmKeeps DEF Resume

(* With nothing leaked or deleted it is the invariant of UDPProxy.         *)
LEMMA InvButNone == /\ IInv <=> InvBut({}, {})
                    /\ IInv' <=> InvBut({}, {})'
  BY DEF IInv, InvBut, OvOwnership, Owned

(* Every step preserves the invariant.                                     *)
LEMMA NextIInv == IInv /\ [Next]_vars => IInv'
  <1> SUFFICES ASSUME InvBut({}, {}), [Next]_vars PROVE InvBut({}, {})'
    BY InvButNone
  <1>1. CASE UNCHANGED vars
    BY <1>1 DEF vars, InvBut, TypeOK, OverlappedTypeOK, Owned, WorkerInv, Has
  <1>2. ASSUME NEW id \in Ids, Client(id) PROVE InvBut({}, {})'
    BY <1>2, CreateKeeps, UdpSendKeeps, DeleteConnectionKeeps DEF Client
  <1>3. ASSUME NEW o \in Ovs, Handle(o) \/ Kernel(o) PROVE InvBut({}, {})'
    BY <1>3, HandleKeeps, KernelKeeps
  <1>4. CASE Resume
    BY <1>4, ResumeKeeps
  <1>5. CASE workerTimeout
    BY <1>1, <1>5 DEF workerTimeout
  <1> QED
    BY <1>1, <1>2, <1>3, <1>4, <1>5 DEF Next

(* The invariant holds throughout every behaviour.                         *)
LEMMA Invariance == Spec => []IInv
  BY InitIInv, NextIInv, PTL DEF Spec

(* Type correctness of UDPProxy.                                           *)
THEOREM TypeCorrect == Spec => []TypeOK
  <1>1. IInv => TypeOK
    BY DEF IInv
  <1> QED
    BY <1>1, Invariance, PTL

(* Every OV_DATA has exactly one owner at all times, whatever fails: no    *)
(* use after free, no double completion and no leak, for any number of     *)
(* endpoints and outstanding operations.                                   *)
THEOREM OwnershipSafe == Spec => []OvOwnership
  <1>1. IInv => OvOwnership
    BY DEF IInv
  <1> QED
    BY <1>1, Invariance, PTL
-----------------------------------------------------------------------------
(* Sockets.  That m_socketMap never has a connection overwritten by a new  *)
(* one, which would leak its sockets, is due to the client: an id is       *)
(* created once.                                                           *)
SocketsInv == SocketsOwned /\ Conns \subseteq created

(* A connection is there exactly when it has a socket.                     *)
LEMMA HasSocket ==
    ASSUME TypeOK, NEW id \in Ids
    PROVE  /\ Has(id) <=> m_socketMap[id].tcpSocket \in Handles
           /\ Has(id) => m_socketMap[id].udpSocket \in Handles
  BY OverlappedAssumption, ConnDistinct DEF TypeOK, Has, NoConn, PROXY_DATA

(* What every step does to the sockets that creates no connection.         *)
SocketsRemain == SocketsOwned' /\ Conns' \subseteq Conns

(* Every connection keeps its sockets.                                     *)
SameSockets ==
    /\ UNCHANGED open
    /\ \A id \in Ids : /\ m_socketMap'[id].tcpSocket = m_socketMap[id].tcpSocket
                       /\ m_socketMap'[id].udpSocket = m_socketMap[id].udpSocket

(* Where that is so, they stay owned.                                      *)
LEMMA SameSocketsKeep ==
    ASSUME TypeOK, TypeOK', SocketsOwned, SameSockets
    PROVE  SocketsRemain
  <1>1. \A id \in Ids : Has(id)' <=> m_socketMap'[id].tcpSocket \in Handles
    BY OverlappedAssumption, ConnDistinct DEF TypeOK, Has, NoConn, PROXY_DATA
  <1>2. \A id \in Ids : Has(id)' <=> Has(id)
    BY <1>1, HasSocket DEF SameSockets
  <1>3. Conns' = Conns
    BY <1>2 DEF Conns
  <1>4. \A id \in Conns : Sockets(id)' = Sockets(id)
    BY DEF SameSockets, Sockets, Conns
  <1>5. {Sockets(id) : id \in Conns}' = {Sockets(id) : id \in Conns}
    BY <1>3, <1>4
  <1> QED
    BY <1>3, <1>4, <1>5 DEF SocketsRemain, SocketsOwned, SameSockets, Conns

(* It is when another field of a connection is updated.                    *)
LEMMA FieldsKeepSockets ==
    ASSUME TypeOK, UNCHANGED open, NEW id \in Ids, NEW c,
           c.tcpSocket = m_socketMap[id].tcpSocket, c.udpSocket = m_socketMap[id].udpSocket,
           m_socketMap' = [m_socketMap EXCEPT ![id] = c]
    PROVE  SameSockets
  BY DEF TypeOK, SameSockets

(* The updates the code makes are of that kind.                            *)
LEMMA OtherFields ==
    ASSUME TypeOK, NEW id \in Ids
    PROVE  LET c == m_socketMap[id]
               Same(d) == d.tcpSocket = c.tcpSocket /\ d.udpSocket = c.udpSocket
           IN  /\ \A s : Same([c EXCEPT !.proxyState = s])
               /\ \A s, r : Same([c EXCEPT !.proxyState = s, !.remoteAddress = r])
               /\ \A q : Same([c EXCEPT !.udpSendPackets = q])
               /\ \A r : Same([c EXCEPT !.udpRecvStarted = r])
               /\ \A q, r : Same([c EXCEPT !.udpSendPackets = q, !.udpRecvStarted = r])
  <1>1. m_socketMap[id] \in PROXY_DATA \/ m_socketMap[id] = NoConn
    BY DEF TypeOK
  <1> QED
    BY <1>1 DEF PROXY_DATA, NoConn

(* A new connection has two sockets of its own.                            *)
LEMMA NewSocketsOwned ==
    ASSUME TypeOK, SocketsOwned, NEW id \in Ids, ~Has(id),
           NEW t \in Handles \ open, NEW u \in Handles \ open, t # u,
           open' = open \cup {t, u},
           m_socketMap' = [m_socketMap EXCEPT ![id] = NewConn(t, u)]
    PROVE  SocketsOwned' /\ Conns' = Conns \cup {id}
  <1>1. Has(id)' /\ Sockets(id)' = {t, u}
        /\ m_socketMap'[id].tcpSocket = t /\ m_socketMap'[id].udpSocket = u
    BY NewConnType, ConnDistinct DEF TypeOK, Has, Sockets, NewConn
  <1>2. \A jd \in Ids \ {id} : m_socketMap'[jd] = m_socketMap[jd]
    BY DEF TypeOK
  <1>3. \A jd \in Ids \ {id} : (Has(jd)' <=> Has(jd)) /\ Sockets(jd)' = Sockets(jd)
    BY <1>2 DEF Has, Sockets
  <1>4. Conns' = Conns \cup {id}
    BY <1>1, <1>3 DEF Conns
  <1>5. \A jd \in Conns : jd # id /\ Sockets(jd) \subseteq open
    BY DEF Conns, SocketsOwned
  <1>6. open' = UNION {Sockets(jd)' : jd \in Conns'}
    BY <1>1, <1>3, <1>4, <1>5 DEF SocketsOwned, Conns
  <1>7. \A jd \in Conns' : m_socketMap'[jd].tcpSocket # m_socketMap'[jd].udpSocket
    BY <1>1, <1>2, <1>4, <1>5 DEF SocketsOwned, Conns
  <1>8. \A jd, kd \in Conns' : jd # kd => Sockets(jd)' \cap Sockets(kd)' = {}
    BY <1>1, <1>3, <1>4, <1>5 DEF SocketsOwned, Conns
  <1> QED
    BY <1>4, <1>6, <1>7, <1>8 DEF SocketsOwned

(* createProxyConnection makes one, for an id that has none yet.           *)
LEMMA CreateKeepsSockets ==
    ASSUME TypeOK, SocketsInv, NEW id \in Ids, id \notin created,
           NEW ok \in BOOLEAN, createProxyConnection(id, ok)
    PROVE  SocketsInv'
  <1>1. CASE UNCHANGED vars
    BY <1>1 DEF vars, SocketsInv, SocketsOwned, Conns, Has, Sockets
  <1>2. CASE ~UNCHANGED vars
    <2>1. PICK t \in Handles \ open, u \in Handles \ open :
            /\ t # u
            /\ open' = open \cup {t, u}
            /\ m_socketMap' = [m_socketMap EXCEPT ![id] = NewConn(t, u)]
            /\ created' = created \cup {id}
      BY <1>2 DEF createProxyConnection, NewHandles
    <2>2. ~Has(id)
      BY DEF SocketsInv, Conns
    <2> QED
      BY <2>1, <2>2, NewSocketsOwned DEF SocketsInv
  <1> QED
    BY <1>1, <1>2

(* Closing the sockets of a connection, if it is there, and taking it out  *)
(* of the map concerns no other.                                           *)
LEMMA ClosingKeepsSockets ==
    ASSUME TypeOK, SocketsOwned, NEW id \in Ids,
           open' = open \ Sockets(id), m_socketMap' = [m_socketMap EXCEPT ![id] = NoConn]
    PROVE  SocketsOwned' /\ Conns' = Conns \ {id}
  <1>1. ~Has(id)'
    BY DEF TypeOK, Has
  <1>2. \A jd \in Ids \ {id} : m_socketMap'[jd] = m_socketMap[jd]
    BY DEF TypeOK
  <1>3. \A jd \in Ids \ {id} : (Has(jd)' <=> Has(jd)) /\ Sockets(jd)' = Sockets(jd)
    BY <1>2 DEF Has, Sockets
  <1>4. Conns' = Conns \ {id}
    BY <1>1, <1>3 DEF Conns
  <1>5. open' = UNION {Sockets(jd)' : jd \in Conns'}
    <2>1. CASE Has(id)
      BY <1>3, <1>4, <2>1 DEF SocketsOwned, Conns
    <2>2. CASE ~Has(id)
      <3>1. Conns' = Conns /\ Sockets(id) = {INVALID_SOCKET}
        BY <1>4, <2>2 DEF Conns, Has, NoConn, Sockets
      <3>2. open' = open
        BY <3>1, OverlappedAssumption DEF TypeOK, OverlappedTypeOK
      <3> QED
        BY <1>3, <1>4, <3>1, <3>2 DEF SocketsOwned, Conns
    <2> QED
      BY <2>1, <2>2
  <1>6. \A jd \in Conns' : m_socketMap'[jd].tcpSocket # m_socketMap'[jd].udpSocket
    BY <1>2, <1>4 DEF SocketsOwned, Conns
  <1>7. \A jd, kd \in Conns' : jd # kd => Sockets(jd)' \cap Sockets(kd)' = {}
    BY <1>3, <1>4 DEF SocketsOwned, Conns
  <1> QED
    BY <1>4, <1>5, <1>6, <1>7 DEF SocketsOwned

(* udpSend leaves the sockets as they are.                                 *)
LEMMA UdpSendKeepsSockets ==
    ASSUME TypeOK, TypeOK', SocketsOwned, NEW id \in Ids, NEW ok \in BOOLEAN, udpSend(id, ok)
    PROVE  SocketsRemain
  <1> DEFINE c == m_socketMap[id]
             n == Len(fate[id]) + 1
  <1>1. UNCHANGED open
    BY DEF udpSend
  <1>2. CASE m_socketMap' = [m_socketMap EXCEPT ![id].udpSendPackets = Append(@, n)]
    <2>1. m_socketMap' = [m_socketMap EXCEPT
                            ![id] = [c EXCEPT !.udpSendPackets = Append(c.udpSendPackets, n)]]
      BY <1>2
    <2>2. SameSockets
      BY <1>1, <2>1, FieldsKeepSockets, OtherFields
    <2> QED
      BY <2>2, SameSocketsKeep
  <1>3. CASE m_socketMap' = [m_socketMap EXCEPT ![id].udpRecvStarted = TRUE]
    <2>1. m_socketMap' = [m_socketMap EXCEPT ![id] = [c EXCEPT !.udpRecvStarted = TRUE]]
      BY <1>3
    <2>2. SameSockets
      BY <1>1, <2>1, FieldsKeepSockets, OtherFields
    <2> QED
      BY <2>2, SameSocketsKeep
  <1>4. CASE UNCHANGED m_socketMap
    BY <1>1, <1>4, SameSocketsKeep DEF SameSockets
  <1> QED
    BY <1>2, <1>3, <1>4 DEF udpSend

(* deleteProxyConnection closes those of one connection.                   *)
LEMMA DeleteKeepsSockets ==
    ASSUME TypeOK, SocketsOwned, NEW id \in Ids, deleteProxyConnection(id)
    PROVE  SocketsOwned' /\ Conns' = Conns \ {id}
  <1>1. CASE Has(id)
    BY <1>1, ClosingKeepsSockets DEF deleteProxyConnection, Destroy
  <1>2. CASE ~Has(id)
    BY <1>2 DEF deleteProxyConnection, vars, SocketsOwned, Conns, Has, Sockets
  <1> QED
    BY <1>1, <1>2

(* A handler of the worker closes at most those of one connection.         *)
LEMMA HandleKeepsSockets ==
    ASSUME NEW L, InvBut(L, {}), TypeOK', SocketsOwned, NEW o \in Ovs, Handle(o)
    PROVE  SocketsRemain
  <1> DEFINE id == ov[o].id
  <1>0. TypeOK
    BY DEF InvBut
  <1>1. CASE UNCHANGED <<open, m_socketMap>>
    BY <1>0, <1>1, SameSocketsKeep DEF SameSockets
  <1>2. CASE onConnectFailed(o) /\ Has(id)
    <2>1. id \in Ids
      BY <1>0, <1>2, Parts DEF onConnectFailed, Dequeued, InvBut, Owned
    <2> QED
      BY <1>0, <1>2, <2>1, ClosingKeepsSockets DEF onConnectFailed, Destroy, SocketsRemain
  <1>3. ASSUME NEW s, m_socketMap' = [m_socketMap EXCEPT ![id].proxyState = s],
               Dequeued(o, "OVT_CONNECT") \/ Dequeued(o, "OVT_TCP_RECEIVE"),
               UNCHANGED open
        PROVE  SocketsRemain
    <2>1. id \in Ids
      BY <1>0, <1>3, Parts DEF Dequeued, InvBut, Owned
    <2>2. SameSockets
      BY <1>0, <1>3, <2>1, FieldsKeepSockets, OtherFields
    <2> QED
      BY <1>0, <2>2, SameSocketsKeep
  <1>4. CASE onConnectComplete(o)
    BY <1>1, <1>3, <1>4 DEF onConnectComplete, deleteOV_DATA
  <1>5. CASE onTcpReceiveRequest(o)
    BY <1>1, <1>3, <1>5 DEF onTcpReceiveRequest
  <1>6. CASE onTcpReceiveAssociated(o)
    <2>1. id \in Ids
      BY <1>0, <1>6, Parts DEF onTcpReceiveAssociated, Dequeued, InvBut, Owned
    <2>2. /\ m_socketMap' = [m_socketMap EXCEPT
                ![id] = [m_socketMap[id] EXCEPT !.proxyState = "PS_CONNECTED",
                                                !.remoteAddress = io[o].res]]
          /\ UNCHANGED open
      BY <1>0, <1>6, <2>1 DEF onTcpReceiveAssociated, TypeOK
    <2> DEFINE d == [m_socketMap[id] EXCEPT !.proxyState = "PS_CONNECTED",
                                            !.remoteAddress = io[o].res]
    <2>3. d.tcpSocket = m_socketMap[id].tcpSocket /\ d.udpSocket = m_socketMap[id].udpSocket
      BY <1>0, <2>1, OtherFields
    <2> HIDE DEF d
    <2>4. SameSockets
      BY <1>0, <2>1, <2>2, <2>3, FieldsKeepSockets DEF d
    <2> QED
      BY <1>0, <2>4, SameSocketsKeep
  <1> QED
    BY <1>1, <1>2, <1>4, <1>5, <1>6
    DEF Handle, onConnectFailed, onTcpSendComplete, onUdpSendComplete, onTcpReceiveEnd,
        onTcpReceiveIgnored, onUdpReceiveEnd, onUdpReceiveComplete, deleteOV_DATA

(* What follows in the handler closes none.                                *)
LEMMA ResumeKeepsSockets ==
    ASSUME NEW L, InvBut(L, {}), TypeOK', SocketsOwned, Resume
    PROVE  SocketsRemain
  <1>0. TypeOK
    BY DEF InvBut
  <1>1. CASE drain
    <2> DEFINE id == ov[cur.ov].id
    <2>1. id \in Ids
      BY <1>0, <1>1, Parts DEF drain, InvBut, WorkerInv, Owned
    <2> DEFINE c == m_socketMap[id]
               d == [c EXCEPT !.udpSendPackets = Tail(c.udpSendPackets), !.udpRecvStarted = TRUE]
               e == [c EXCEPT !.udpSendPackets = Tail(c.udpSendPackets)]
    <2>2. /\ d.tcpSocket = c.tcpSocket /\ d.udpSocket = c.udpSocket
          /\ e.tcpSocket = c.tcpSocket /\ e.udpSocket = c.udpSocket
      BY <1>0, <2>1, OtherFields
    <2>3. /\ \/ m_socketMap' = [m_socketMap EXCEPT ![id] = d]
             \/ m_socketMap' = [m_socketMap EXCEPT ![id] = e]
          /\ UNCHANGED open
      <3>1. /\ \/ m_socketMap' = [m_socketMap EXCEPT ![id].udpSendPackets = Tail(@),
                                                     ![id].udpRecvStarted = TRUE]
               \/ m_socketMap' = [m_socketMap EXCEPT ![id].udpSendPackets = Tail(@)]
            /\ UNCHANGED open
        BY <1>1 DEF drain
      <3>2. m_socketMap \in [Ids -> PROXY_DATA \cup {NoConn}]
        BY <1>0 DEF TypeOK
      <3>3. CASE m_socketMap' = [m_socketMap EXCEPT ![id].udpSendPackets = Tail(@),
                                                    ![id].udpRecvStarted = TRUE]
        BY <2>1, <3>1, <3>2, <3>3
      <3>4. CASE m_socketMap' = [m_socketMap EXCEPT ![id].udpSendPackets = Tail(@)]
        BY <2>1, <3>1, <3>2, <3>4
      <3> QED
        BY <3>1, <3>3, <3>4
    <2> HIDE DEF d, e
    <2>4. SameSockets
      BY <1>0, <2>1, <2>2, <2>3, FieldsKeepSockets
    <2> QED
      BY <1>0, <2>4, SameSocketsKeep
  <1>2. CASE ~drain
    <2>1. UNCHANGED <<open, m_socketMap>>
      BY <1>2 DEF Resume, drainEnd, callback, rearm
    <2> QED
      BY <1>0, <2>1, SameSocketsKeep DEF SameSockets
  <1> QED
    BY <1>1, <1>2

(* Nor does the kernel.                                                    *)
LEMMA KernelKeepsSockets ==
    ASSUME TypeOK, TypeOK', SocketsOwned, NEW o \in Ovs, Kernel(o)
    PROVE  SocketsRemain
  <1>1. UNCHANGED <<open, m_socketMap>>
    BY DEF Kernel, connected, answered, hungUp, arrived, Env
  <1> QED
    BY <1>1, SameSocketsKeep DEF SameSockets

(* Every step preserves the invariant.                                     *)
LEMMA NextSockets == IInv /\ IInv' /\ SocketsInv /\ [Next]_vars => SocketsInv'
  <1> SUFFICES ASSUME IInv, IInv', SocketsInv, [Next]_vars PROVE SocketsInv'
    OBVIOUS
  <1>0. TypeOK /\ TypeOK' /\ SocketsOwned /\ InvBut({}, {})
    BY InvButNone DEF IInv, SocketsInv
  <1>1. ASSUME SocketsRemain, UNCHANGED created PROVE SocketsInv'
    BY <1>1 DEF SocketsRemain, SocketsInv
  <1>2. CASE UNCHANGED vars
    BY <1>2 DEF vars, SocketsInv, SocketsOwned, Conns, Has, Sockets
  <1>3. ASSUME NEW id \in Ids, Client(id) PROVE SocketsInv'
    <2>1. ASSUME NEW ok \in BOOLEAN, id \notin created, createProxyConnection(id, ok)
          PROVE  SocketsInv'
      BY <1>0, <2>1, CreateKeepsSockets
    <2>2. CASE deleteProxyConnection(id)
      <3>1. UNCHANGED created
        BY <2>2 DEF deleteProxyConnection, vars
      <3> QED
        BY <1>0, <1>1, <2>2, <3>1, DeleteKeepsSockets DEF SocketsRemain
    <2>3. ASSUME NEW ok \in BOOLEAN, udpSend(id, ok) PROVE SocketsInv'
      <3>1. UNCHANGED created
        BY <2>3 DEF udpSend
      <3> QED
        BY <1>0, <1>1, <2>3, <3>1, UdpSendKeepsSockets
    <2> QED
      BY <1>3, <2>1, <2>2, <2>3 DEF Client
  <1>4. ASSUME NEW o \in Ovs, Handle(o) PROVE SocketsInv'
    <2>1. UNCHANGED created
      BY <1>4 DEF Handle, onConnectFailed, onConnectComplete, onTcpSendComplete,
           onUdpSendComplete, onTcpReceiveEnd, onTcpReceiveRequest, onTcpReceiveAssociated,
           onTcpReceiveIgnored, onUdpReceiveEnd, onUdpReceiveComplete, deleteOV_DATA
    <2> QED
      BY <1>0, <1>1, <1>4, <2>1, HandleKeepsSockets
  <1>5. ASSUME NEW o \in Ovs, Kernel(o) PROVE SocketsInv'
    <2>1. UNCHANGED created
      BY <1>5 DEF Kernel, connected, answered, hungUp, arrived, Env
    <2> QED
      BY <1>0, <1>1, <1>5, <2>1, KernelKeepsSockets
  <1>6. CASE Resume
    <2>1. UNCHANGED created
      BY <1>6 DEF Resume, drain, drainEnd, callback, rearm
    <2> QED
      BY <1>0, <1>1, <1>6, <2>1, ResumeKeepsSockets
  <1>7. CASE workerTimeout
    BY <1>2, <1>7 DEF workerTimeout
  <1> QED
    BY <1>2, <1>3, <1>4, <1>5, <1>6, <1>7 DEF Next

(* The open sockets are those of the connections, each has one owner, and  *)
(* none is leaked or closed for another, whatever fails and even if SOCKET *)
(* values are reused at once, for any number of endpoints.                 *)
THEOREM SocketsSafe == Spec => []SocketsOwned
  <1>1. Init => SocketsInv
    BY DEF Init, OverlappedInit, SocketsInv, SocketsOwned, Conns, Has
  <1>2. SocketsInv => SocketsOwned
    BY DEF SocketsInv
  <1> QED
    BY <1>1, <1>2, Invariance, NextSockets, PTL DEF Spec

=============================================================================
