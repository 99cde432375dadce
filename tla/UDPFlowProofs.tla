--------------------------- MODULE UDPFlowProofs ---------------------------
(***************************************************************************)
(* UDPProxy implements UdpFlow, for every instance: what becomes of an     *)
(* endpoint's datagrams, however the filter thread and the worker meet at  *)
(* the queue.                                                              *)
(***************************************************************************)
EXTENDS UDPProxyProofs

(* A queue and the fates of the datagrams sent: the two parts of           *)
(* QueueKeepsAll, and NoOvertaking, for one endpoint.                      *)
Holds(q, s) ==
    /\ {q[i] : i \in DOMAIN q} = {n \in DOMAIN s : s[n] = "queued"}
    /\ \A i, j \in DOMAIN q : i < j => q[i] < q[j]

InTurn(s) ==
    \A m, n \in DOMAIN s : m < n /\ s[m] = "queued" => s[n] \in {"queued", "lost"}

Lost(s) == [n \in DOMAIN s |-> IF s[n] = "queued" THEN "lost" ELSE s[n]]

-----------------------------------------------------------------------------
(* A datagram is queued behind the others.                                 *)
LEMMA QueuedBehind ==
    ASSUME NEW q \in Seq(Nat), NEW s \in Seq(Fates), Holds(q, s), InTurn(s)
    PROVE  /\ Holds(Append(q, Len(s) + 1), Append(s, "queued"))
           /\ InTurn(Append(s, "queued"))
  <1> DEFINE p == Append(q, Len(s) + 1)
             r == Append(s, "queued")
  <1>1. /\ DOMAIN q = 1 .. Len(q) /\ Len(q) \in Nat
        /\ DOMAIN s = 1 .. Len(s) /\ Len(s) \in Nat
    OBVIOUS
  <1>2. /\ DOMAIN p = 1 .. Len(q) + 1
        /\ p[Len(q) + 1] = Len(s) + 1
        /\ \A i \in 1 .. Len(q) : p[i] = q[i]
    OBVIOUS
  <1>3. /\ DOMAIN r = 1 .. Len(s) + 1
        /\ r[Len(s) + 1] = "queued"
        /\ \A i \in 1 .. Len(s) : r[i] = s[i]
    BY DEF Fates
  <1> HIDE DEF p, r
  <1>4. \A i \in 1 .. Len(q) : q[i] \in 1 .. Len(s) /\ s[q[i]] = "queued"
    BY <1>1 DEF Holds
  <1>5. ASSUME NEW n \in DOMAIN r, r[n] = "queued" PROVE \E i \in DOMAIN p : p[i] = n
    <2>1. CASE n = Len(s) + 1
      BY <1>1, <1>2, <2>1
    <2>2. CASE n # Len(s) + 1
      <3>1. n \in DOMAIN s /\ s[n] = "queued"
        BY <1>1, <1>3, <1>5, <2>2
      <3>2. PICK i \in DOMAIN q : q[i] = n
        BY <3>1 DEF Holds
      <3> QED
        BY <1>1, <1>2, <3>2
    <2> QED
      BY <2>1, <2>2
  <1>6. ASSUME NEW i \in DOMAIN p PROVE p[i] \in DOMAIN r /\ r[p[i]] = "queued"
    BY <1>1, <1>2, <1>3, <1>4
  <1>7. {p[i] : i \in DOMAIN p} = {n \in DOMAIN r : r[n] = "queued"}
    BY <1>5, <1>6
  <1>8. ASSUME NEW i \in DOMAIN p, NEW j \in DOMAIN p, i < j PROVE p[i] < p[j]
    <2>1. i \in 1 .. Len(q) /\ p[i] = q[i] /\ q[i] \in 1 .. Len(s)
      BY <1>1, <1>2, <1>4, <1>8
    <2>2. CASE j \in 1 .. Len(q)
      BY <1>1, <1>2, <1>8, <2>1, <2>2 DEF Holds
    <2>3. CASE j = Len(q) + 1
      BY <1>1, <1>2, <2>1, <2>3
    <2> QED
      BY <1>1, <1>2, <2>2, <2>3, SMTT(60)
  <1>9. InTurn(r)
    BY <1>1, <1>3 DEF InTurn
  <1> QED
    BY <1>7, <1>8, <1>9 DEF Holds, p, r

(* A datagram that is not queued changes nothing for those that are; if it *)
(* is not lost either, it must have none before it.                        *)
LEMMA NotQueued ==
    ASSUME NEW q \in Seq(Nat), NEW s \in Seq(Fates), Holds(q, s), InTurn(s),
           NEW f \in Fates \ {"queued"}, f = "lost" \/ q = <<>>
    PROVE  Holds(q, Append(s, f)) /\ InTurn(Append(s, f))
  <1> DEFINE r == Append(s, f)
  <1>1. DOMAIN s = 1 .. Len(s) /\ Len(s) \in Nat
    OBVIOUS
  <1>2. /\ DOMAIN r = 1 .. Len(s) + 1
        /\ r[Len(s) + 1] = f
        /\ \A i \in 1 .. Len(s) : r[i] = s[i]
    OBVIOUS
  <1> HIDE DEF r
  <1>3. {n \in DOMAIN r : r[n] = "queued"} = {n \in DOMAIN s : s[n] = "queued"}
    BY <1>1, <1>2
  <1>4. q = <<>> => \A m \in DOMAIN s : s[m] # "queued"
    BY DEF Holds
  <1>5. InTurn(r)
    BY <1>1, <1>2, <1>4 DEF InTurn
  <1> QED
    BY <1>3, <1>5 DEF Holds, r

(* The head of the queue is the earliest datagram in it; taking it leaves  *)
(* the queue of the others.                                                *)
LEMMA HeadLeaves ==
    ASSUME NEW q \in Seq(Nat), NEW s \in Seq(Fates), Holds(q, s), InTurn(s),
           q # <<>>, NEW f \in Fates \ {"queued"}
    PROVE  /\ Head(q) \in DOMAIN s /\ s[Head(q)] = "queued"
           /\ \A m \in DOMAIN s : s[m] = "queued" => Head(q) <= m
           /\ Holds(Tail(q), [s EXCEPT ![Head(q)] = f])
           /\ InTurn([s EXCEPT ![Head(q)] = f])
  <1> DEFINE h == Head(q)
             p == Tail(q)
             r == [s EXCEPT ![h] = f]
  <1>1. /\ DOMAIN q = 1 .. Len(q) /\ Len(q) \in Nat \ {0}
        /\ DOMAIN s \subseteq Nat /\ \A i \in DOMAIN q : q[i] \in Nat
        /\ h = q[1]
    OBVIOUS
  <1>2. /\ DOMAIN p = 1 .. Len(q) - 1
        /\ \A i \in DOMAIN p : p[i] = q[i + 1]
    OBVIOUS
  <1>3. /\ DOMAIN r = DOMAIN s
        /\ \A n \in DOMAIN s : r[n] = IF n = h THEN f ELSE s[n]
    OBVIOUS
  <1>4. h \in DOMAIN s /\ s[h] = "queued"
    BY <1>1 DEF Holds
  <1>5. \A i \in DOMAIN q : q[i] = h \/ (i # 1 /\ h < q[i])
    BY <1>1 DEF Holds
  <1>6. \A m \in DOMAIN s : s[m] = "queued" => \E i \in DOMAIN q : q[i] = m
    BY DEF Holds
  <1>7. \A m \in DOMAIN s : s[m] = "queued" => h <= m
    BY <1>1, <1>5, <1>6
  <1> HIDE DEF h, p, r
  <1>8. ASSUME NEW i \in DOMAIN p PROVE p[i] \in DOMAIN r /\ r[p[i]] = "queued"
    <2>1. i + 1 \in DOMAIN q /\ 1 \in DOMAIN q /\ 1 < i + 1
      BY <1>1, <1>2
    <2>2. q[i + 1] \in DOMAIN s /\ s[q[i + 1]] = "queued" /\ q[1] < q[i + 1]
      BY <2>1 DEF Holds
    <2> QED
      BY <1>1, <1>2, <1>3, <2>1, <2>2
  <1>9. ASSUME NEW n \in DOMAIN r, r[n] = "queued" PROVE \E i \in DOMAIN p : p[i] = n
    <2>1. n \in DOMAIN s /\ n # h /\ s[n] = "queued"
      BY <1>3, <1>9
    <2>2. PICK i \in DOMAIN q : q[i] = n
      BY <1>6, <2>1
    <2>3. i # 1 /\ i - 1 \in DOMAIN p /\ i = (i - 1) + 1
      BY <1>1, <1>2, <2>1, <2>2
    <2> QED
      BY <1>2, <2>2, <2>3
  <1>10. {p[i] : i \in DOMAIN p} = {n \in DOMAIN r : r[n] = "queued"}
    BY <1>8, <1>9
  <1>11. ASSUME NEW i \in DOMAIN p, NEW j \in DOMAIN p, i < j PROVE p[i] < p[j]
    <2>1. i + 1 \in DOMAIN q /\ j + 1 \in DOMAIN q /\ i + 1 < j + 1
      BY <1>1, <1>2, <1>11, SMTT(60)
    <2> QED
      BY <1>2, <2>1 DEF Holds
  <1>12. InTurn(r)
    <2> SUFFICES ASSUME NEW m \in DOMAIN r, NEW n \in DOMAIN r, m < n, r[m] = "queued"
                 PROVE  r[n] \in {"queued", "lost"}
      BY DEF InTurn
    <2>1. s[m] = "queued" /\ h <= m
      BY <1>3, <1>7
    <2>2. n # h
      BY <1>1, <1>3, <1>4, <2>1
    <2> QED
      BY <1>3, <2>1, <2>2 DEF InTurn
  <1> QED
    BY <1>4, <1>7, <1>10, <1>11, <1>12 DEF Holds, h, p, r

(* Dropping all that is queued leaves an empty queue.                      *)
LEMMA AllLost ==
    ASSUME NEW s \in Seq(Fates), InTurn(s)
    PROVE  Holds(<<>>, Lost(s)) /\ InTurn(Lost(s))
  BY DEF Holds, InTurn, Lost

-----------------------------------------------------------------------------
Queue(id) == m_socketMap[id].udpSendPackets
Up(id)    == m_socketMap[id].proxyState = "PS_CONNECTED"
Draining(id) == pc = "drain" /\ ov[cur.ov].id = id

(* The inductive invariant.  The queue of an association that is up is not *)
(* empty only while the worker is in its loop, and the loop is only run    *)
(* for an association that is up.                                          *)
FlowInv(id) ==
    /\ Holds(Queue(id), fate[id])
    /\ InTurn(fate[id])
    /\ Up(id) /\ Queue(id) # <<>> => Draining(id)
    /\ Draining(id) => Up(id)

QueueInv == \A id \in Ids : FlowInv(id)

(* The invariant is what the three properties say.                         *)
LEMMA QueueInvImplies ==
    ASSUME WorkerInv, QueueInv
    PROVE  QueueKeepsAll /\ NoOvertaking /\ NothingStranded
  <1>1. QueueKeepsAll
    BY DEF QueueInv, FlowInv, QueueKeepsAll, Holds, Queue
  <1>2. NoOvertaking
    BY DEF QueueInv, FlowInv, NoOvertaking, InTurn
  <1>3. NothingStranded
    BY DEF QueueInv, FlowInv, NothingStranded, WorkerInv, Queue, Up, Draining, Conns
  <1> QED
    BY <1>1, <1>2, <1>3

-----------------------------------------------------------------------------
(* What the steps of UDPProxy do to the flow of datagrams: nothing, or one *)
(* of the following to one endpoint.                                       *)

OthersSame(id) == \A jd \in Ids \ {id} : m_socketMap'[jd] = m_socketMap[jd]

SameFlow ==
    /\ UNCHANGED <<fate, created>>
    /\ \A id \in Ids : /\ Has(id)' <=> Has(id)
                       /\ Queue(id)' = Queue(id)
                       /\ Up(id)' <=> Up(id)

SameDrain ==
    /\ pc' = "drain" <=> pc = "drain"
    /\ pc = "drain" => ov'[cur'.ov].id = ov[cur.ov].id

NoDrain == pc # "drain" /\ pc' # "drain"

Creates(id) ==
    /\ NoDrain
    /\ id \notin created /\ created' = created \cup {id}
    /\ UNCHANGED fate
    /\ OthersSame(id)
    /\ Has(id)' /\ ~Up(id)' /\ Queue(id)' = <<>>

Destroys(id) ==
    /\ NoDrain
    /\ Has(id) /\ ~Has(id)' /\ ~Up(id)' /\ Queue(id)' = <<>>
    /\ UNCHANGED created
    /\ OthersSame(id)
    /\ fate' = [fate EXCEPT ![id] = Lost(@)]

Sends(id, f) ==
    /\ NoDrain
    /\ UNCHANGED created
    /\ OthersSame(id)
    /\ (Has(id)' <=> Has(id)) /\ (Up(id)' <=> Up(id))
    /\ fate' = [fate EXCEPT ![id] = Append(@, f)]
    /\ \/ /\ f = "queued" /\ Has(id) /\ ~Up(id)
          /\ Queue(id)' = Append(Queue(id), Len(fate[id]) + 1)
       \/ f = "lost" /\ Has(id) /\ ~Up(id) /\ Queue(id)' = Queue(id)
       \/ f = "refused" /\ ~Has(id) /\ Queue(id)' = Queue(id)
       \/ f \in {"relayed", "refused"} /\ Has(id) /\ Up(id) /\ Queue(id)' = Queue(id)

Establishes(id) ==
    /\ pc # "drain" /\ pc' = "drain" /\ ov'[cur'.ov].id = id
    /\ UNCHANGED <<fate, created>>
    /\ OthersSame(id)
    /\ Has(id) /\ Has(id)' /\ ~Up(id) /\ Up(id)'
    /\ Queue(id)' = Queue(id)

Drains(id, f) ==
    /\ pc = "drain" /\ ov[cur.ov].id = id /\ SameDrain
    /\ UNCHANGED created
    /\ OthersSame(id)
    /\ Has(id) /\ Has(id)' /\ (Up(id)' <=> Up(id))
    /\ Queue(id) # <<>> /\ Queue(id)' = Tail(Queue(id))
    /\ fate' = [fate EXCEPT ![id][Head(Queue(id))] = f]

EndsDrain ==
    /\ pc = "drain" /\ pc' # "drain"
    /\ Queue(ov[cur.ov].id) = <<>>
    /\ SameFlow

FlowStep ==
    \/ SameFlow /\ SameDrain
    \/ EndsDrain
    \/ \E id \in Ids :
         \/ Creates(id)
         \/ Destroys(id)
         \/ \E f \in Fates : Sends(id, f)
         \/ Establishes(id)
         \/ \E f \in {"relayed", "lost"} : Drains(id, f)

(* A connection is there exactly when it has a state, and has a queue in   *)
(* any case.                                                               *)
LEMMA ConnFacts ==
    ASSUME NEW c \in PROXY_DATA \cup {NoConn}
    PROVE  /\ c # NoConn <=> c.proxyState # "absent"
           /\ c = NoConn => c.udpSendPackets = <<>>
           /\ c.udpSendPackets \in Seq(Nat)
  <1>1. CASE c \in PROXY_DATA
    <2>1. c # NoConn
      BY <1>1, ConnDistinct
    <2>2. c.proxyState \in PROXY_STATE /\ c.udpSendPackets \in Seq(Nat)
      BY <1>1 DEF PROXY_DATA
    <2> QED
      BY <2>1, <2>2 DEF PROXY_STATE
  <1>2. CASE c = NoConn
    <2>1. c.proxyState = "absent" /\ c.udpSendPackets = <<>>
      BY <1>2 DEF NoConn
    <2> QED
      BY <1>2, <2>1
  <1> QED
    BY <1>1, <1>2

(* So it is in every state,                                                *)
LEMMA HasState ==
    ASSUME TypeOK, NEW id \in Ids
    PROVE  /\ Has(id) <=> m_socketMap[id].proxyState # "absent"
           /\ ~Has(id) => Queue(id) = <<>> /\ ~Up(id)
           /\ Queue(id) \in Seq(Nat)
           /\ fate[id] \in Seq(Fates)
  <1>1. m_socketMap[id] \in PROXY_DATA \cup {NoConn} /\ fate[id] \in Seq(Fates)
    BY DEF TypeOK
  <1> QED
    BY <1>1, ConnFacts DEF Has, Queue, Up

(* and after every step.                                                   *)
LEMMA HasStateNext ==
    ASSUME TypeOK', NEW id \in Ids
    PROVE  /\ Has(id)' <=> m_socketMap'[id].proxyState # "absent"
           /\ ~Has(id)' => Queue(id)' = <<>> /\ ~Up(id)'
           /\ Queue(id)' \in Seq(Nat)
  <1>1. m_socketMap'[id] \in PROXY_DATA \cup {NoConn}
    BY DEF TypeOK
  <1> QED
    BY <1>1, ConnFacts DEF Has, Queue, Up

(* An update of a connection shows in the fields updated, and there only.  *)
LEMMA FieldUpdates ==
    ASSUME TypeOK, NEW id \in Ids
    PROVE  LET c == m_socketMap[id]
               Fields(d, x, y) == d.proxyState = x /\ d.udpSendPackets = y
           IN  /\ \A s : Fields([c EXCEPT !.proxyState = s], s, c.udpSendPackets)
               /\ \A s, r : Fields([c EXCEPT !.proxyState = s, !.remoteAddress = r],
                                   s, c.udpSendPackets)
               /\ \A q : Fields([c EXCEPT !.udpSendPackets = q], c.proxyState, q)
               /\ \A b : Fields([c EXCEPT !.udpRecvStarted = b], c.proxyState, c.udpSendPackets)
               /\ \A q, b : Fields([c EXCEPT !.udpSendPackets = q, !.udpRecvStarted = b],
                                   c.proxyState, q)
  <1>1. m_socketMap[id] \in PROXY_DATA \/ m_socketMap[id] = NoConn
    BY DEF TypeOK
  <1> QED
    BY <1>1 DEF PROXY_DATA, NoConn

(* A step that touches no connection leaves the flow as it is.             *)
LEMMA UntouchedFlow ==
    ASSUME UNCHANGED <<m_socketMap, fate, created>>
    PROVE  SameFlow
  BY DEF SameFlow, Has, Queue, Up

(* So does one that moves the state of a connection that is not up to      *)
(* another one that is not.                                                *)
LEMMA DialogueFlow ==
    ASSUME TypeOK, TypeOK', NEW id \in Ids, ~Up(id), Has(id), NEW s \in PROXY_STATE,
           s # "PS_CONNECTED", UNCHANGED <<fate, created>>,
           m_socketMap' = [m_socketMap EXCEPT ![id].proxyState = s]
    PROVE  SameFlow
  <1>1. m_socketMap'[id] = [m_socketMap[id] EXCEPT !.proxyState = s]
    BY DEF TypeOK
  <1>2. \A jd \in Ids \ {id} : m_socketMap'[jd] = m_socketMap[jd]
    BY DEF TypeOK
  <1>3. m_socketMap'[id].proxyState = s /\ Queue(id)' = Queue(id)
    <2>1. m_socketMap[id] \in PROXY_DATA
      BY Parts
    <2> QED
      BY <1>1, <2>1 DEF Queue, PROXY_DATA
  <1>4. Has(id)' /\ ~Up(id)'
    BY <1>3, HasStateNext DEF Up, PROXY_STATE
  <1> QED
    BY <1>2, <1>3, <1>4 DEF SameFlow, Has, Queue, Up

-----------------------------------------------------------------------------
(* createProxyConnection                                                   *)
LEMMA CreateFlow ==
    ASSUME IInv, NEW id \in Ids, id \notin created,
           NEW ok \in BOOLEAN, createProxyConnection(id, ok)
    PROVE  FlowStep
  <1>1. CASE UNCHANGED vars
    BY <1>1, UntouchedFlow DEF vars, FlowStep, SameDrain
  <1>2. CASE ~UNCHANGED vars
    <2>1. PICK t, u \in Handles : m_socketMap' = [m_socketMap EXCEPT ![id] = NewConn(t, u)]
      BY <1>2 DEF createProxyConnection, NewHandles
    <2>2. /\ m_cs = "free" /\ created' = created \cup {id}
          /\ UNCHANGED <<m_cs, pc, cur, fate, wire, replies>>
      BY <1>2 DEF createProxyConnection
    <2>3. NoDrain
      BY <2>2 DEF NoDrain, IInv, WorkerInv
    <2>4. m_socketMap'[id] = NewConn(t, u) /\ OthersSame(id)
      BY <2>1 DEF IInv, TypeOK, OthersSame
    <2>5. Has(id)' /\ ~Up(id)' /\ Queue(id)' = <<>>
      BY <2>4 DEF Has, Up, Queue, NewConn, NoConn
    <2> QED
      BY <2>2, <2>3, <2>4, <2>5 DEF FlowStep, Creates
  <1> QED
    BY <1>1, <1>2

(* ~PROXY_DATA                                                             *)
LEMMA DestroyFlow ==
    ASSUME IInv, NEW id \in Ids, Has(id), Destroy(id), m_cs = "free", UNCHANGED <<pc, created>>
    PROVE  FlowStep
  <1>1. NoDrain
    BY DEF NoDrain, IInv, WorkerInv
  <1>2. m_socketMap'[id] = NoConn /\ OthersSame(id)
    BY DEF Destroy, IInv, TypeOK, OthersSame
  <1>3. ~Has(id)' /\ ~Up(id)' /\ Queue(id)' = <<>>
    BY <1>2 DEF Has, Up, Queue, NoConn
  <1>4. fate' = [fate EXCEPT ![id] = Lost(@)]
    BY DEF Destroy, Lost
  <1>5. Destroys(id)
    BY <1>1, <1>2, <1>3, <1>4 DEF Destroys
  <1> QED
    BY <1>5 DEF FlowStep

(* udpSend                                                                 *)
LEMMA SendFlow ==
    ASSUME IInv, TypeOK', NEW id \in Ids, NEW ok \in BOOLEAN, udpSend(id, ok)
    PROVE  FlowStep
  <1> DEFINE n == Len(fate[id]) + 1
             c == m_socketMap[id]
  <1>1. /\ m_cs = "free" /\ UNCHANGED <<pc, created>>
        /\ NoDrain
    BY DEF udpSend, NoDrain, IInv, WorkerInv
  <1>2. TypeOK
    BY DEF IInv
  <1>3. CASE /\ UNCHANGED m_socketMap
             /\ \E f \in Fates :
                  /\ fate' = [fate EXCEPT ![id] = Append(@, f)]
                  /\ \/ f = "refused" /\ ~Has(id)
                     \/ f = "lost" /\ Has(id) /\ ~Up(id)
                     \/ f = "refused" /\ Has(id) /\ Up(id)
    <2>1. /\ OthersSame(id) /\ Queue(id)' = Queue(id)
          /\ (Has(id)' <=> Has(id)) /\ (Up(id)' <=> Up(id))
      BY <1>3 DEF OthersSame, Queue, Has, Up
    <2>2. \E f \in Fates : Sends(id, f)
      BY <1>1, <1>3, <2>1 DEF Sends
    <2> QED
      BY <2>2 DEF FlowStep
  <1>4. CASE /\ Has(id) /\ ~Up(id)
             /\ m_socketMap' = [m_socketMap EXCEPT ![id].udpSendPackets = Append(@, n)]
             /\ fate' = [fate EXCEPT ![id] = Append(@, "queued")]
    <2>1. /\ m_socketMap'[id] = [c EXCEPT !.udpSendPackets = Append(c.udpSendPackets, n)]
          /\ OthersSame(id)
      BY <1>2, <1>4 DEF TypeOK, OthersSame
    <2>2. m_socketMap'[id].proxyState = c.proxyState /\ Queue(id)' = Append(Queue(id), n)
      BY <1>2, <2>1, FieldUpdates DEF Queue
    <2>3. (Has(id)' <=> Has(id)) /\ (Up(id)' <=> Up(id))
      BY <1>2, <2>2, HasState, HasStateNext DEF Up
    <2>4. Sends(id, "queued")
      BY <1>1, <1>4, <2>1, <2>2, <2>3 DEF Sends
    <2> QED
      BY <2>4 DEF FlowStep, Fates
  <1>5. CASE /\ Has(id) /\ Up(id)
             /\ m_socketMap' = [m_socketMap EXCEPT ![id].udpRecvStarted = TRUE]
             /\ fate' = [fate EXCEPT ![id] = Append(@, "relayed")]
    <2>1. /\ m_socketMap'[id] = [c EXCEPT !.udpRecvStarted = TRUE]
          /\ OthersSame(id)
      BY <1>2, <1>5 DEF TypeOK, OthersSame
    <2>2. m_socketMap'[id].proxyState = c.proxyState /\ Queue(id)' = Queue(id)
      BY <1>2, <2>1, FieldUpdates DEF Queue
    <2>3. (Has(id)' <=> Has(id)) /\ (Up(id)' <=> Up(id))
      BY <1>2, <2>2, HasState, HasStateNext DEF Up
    <2>4. Sends(id, "relayed")
      BY <1>1, <1>5, <2>1, <2>2, <2>3 DEF Sends
    <2> QED
      BY <2>4 DEF FlowStep, Fates
  <1> QED
    BY <1>3, <1>4, <1>5 DEF udpSend, Up, Fates

-----------------------------------------------------------------------------
(* onConnectComplete sets the state back to PS_AUTH without looking at it. *)
(* That it never does so to an association that is up is because each      *)
(* connection has one OVT_CONNECT, and while that is there the dialogue    *)
(* has not begun.                                                          *)
Connects(o) == ov[o].type = "OVT_CONNECT"

ConnectInv ==
    /\ \A o \in Ovs : ov[o] # FreeOv => ov[o].id \in created
    /\ \A o, p \in Ovs : Connects(o) /\ Connects(p) /\ ov[o].id = ov[p].id => o = p
    /\ \A o \in Ovs : Connects(o) /\ Has(ov[o].id)
                        => m_socketMap[ov[o].id].proxyState = "PS_NONE"

LabelsKept ==
    \A o \in Ovs : \/ ov'[o] = ov[o]
                   \/ ov'[o] = FreeOv
                   \/ ov'[o].type # "OVT_CONNECT" /\ ov'[o].id \in created

StatesKept ==
    \A id \in Ids : \/ m_socketMap'[id].proxyState = m_socketMap[id].proxyState
                    \/ ~Has(id)'
                    \/ \A p \in Ovs : ~(ov'[p].type = "OVT_CONNECT" /\ ov'[p].id = id)

(* Steps that start no connect, and touch the state of no connection that  *)
(* has one, preserve the invariant.                                        *)
LEMMA KeptConnects ==
    ASSUME TypeOK, TypeOK', ConnectInv, UNCHANGED created, LabelsKept, StatesKept
    PROVE  ConnectInv'
  <1>0. FreeOv.type = "free"
    BY DEF FreeOv
  <1>1. \A o \in Ovs : ov'[o] # FreeOv => ov'[o].id \in created'
    BY DEF ConnectInv, LabelsKept
  <1>2. \A o \in Ovs : Connects(o)' => ov'[o] = ov[o] /\ Connects(o)
    BY <1>0 DEF LabelsKept, Connects
  <1>3. \A o, p \in Ovs : Connects(o)' /\ Connects(p)' /\ ov'[o].id = ov'[p].id => o = p
    BY <1>2 DEF ConnectInv
  <1>4. ASSUME NEW o \in Ovs, Connects(o)', m_socketMap'[ov'[o].id] # NoConn
        PROVE  m_socketMap'[ov'[o].id].proxyState = "PS_NONE"
    <2> DEFINE id == ov[o].id
    <2>1. ov'[o] = ov[o] /\ Connects(o)
      BY <1>2, <1>4
    <2>2. ov[o] # FreeOv /\ id \in Ids
      BY <1>0, <2>1, Parts DEF Connects
    <2> HIDE DEF id
    <2>3. m_socketMap'[id] # NoConn /\ ov'[o].type = "OVT_CONNECT" /\ ov'[o].id = id
      BY <1>4, <2>1 DEF Connects, id
    <2>4. m_socketMap'[id].proxyState = m_socketMap[id].proxyState
      BY <2>2, <2>3 DEF StatesKept, Has
    <2>5. Has(id)
      BY <2>2, <2>3, <2>4, HasState, HasStateNext DEF Has
    <2> QED
      BY <2>1, <2>4, <2>5 DEF ConnectInv, id
  <1> QED
    BY <1>1, <1>3, <1>4 DEF ConnectInv, Has

(* A labelled OV_DATA is none or has one of its two labels.                *)
LEMMA LabelledAs ==
    ASSUME NEW id, NEW type, NEW onFail, NEW out \in {"pending", "posted", "dropped"}
    PROVE  \/ Labelled(out, id, type, onFail) = FreeOv
           \/ /\ Labelled(out, id, type, onFail).type \in {type, onFail}
              /\ Labelled(out, id, type, onFail).id = id
  BY DEF Labelled

(* Sending a datagram starts no connect.                                   *)
LEMMA SendLabels ==
    ASSUME TypeOK, NEW id \in Ids, id \in created, SendStarts(id) \/ SendFails(id)
    PROVE  LabelsKept
  <1> DEFINE u == m_socketMap[id].udpSocket
  <1>1. CASE SendFails(id)
    <2>1. PICK o \in Ovs, out \in SendToOutcomes(id) :
            ov' = [ov EXCEPT ![o] = Labelled(out, id, "OVT_UDP_SEND", "OVT_UDP_RECEIVE")]
      BY <1>1 DEF SendFails
    <2>2. out \in {"pending", "posted", "dropped"}
      BY SendToOutcomesType
    <2> DEFINE d == Labelled(out, id, "OVT_UDP_SEND", "OVT_UDP_RECEIVE")
    <2>3. d = FreeOv \/ (d.type # "OVT_CONNECT" /\ d.id = id)
      BY <2>2, LabelledAs
    <2>4. ov' = [ov EXCEPT ![o] = d]
      BY <2>1
    <2> HIDE DEF d
    <2> QED
      BY <2>3, <2>4 DEF LabelsKept, TypeOK
  <1>2. CASE SendStarts(id) /\ m_socketMap[id].udpRecvStarted
    <2>1. PICK o \in Ovs : ov' = [ov EXCEPT ![o] = [id |-> id, type |-> "OVT_UDP_SEND"]]
      BY <1>2 DEF SendStarts
    <2> QED
      BY <2>1 DEF LabelsKept, TypeOK
  <1>3. CASE SendStarts(id) /\ ~m_socketMap[id].udpRecvStarted
    <2>1. PICK o \in Ovs, p \in Ovs, out \in Outcomes(u) :
            ov' = [ov EXCEPT ![o] = [id |-> id, type |-> "OVT_UDP_SEND"],
                             ![p] = Labelled(out, id, "OVT_UDP_RECEIVE", "OVT_UDP_RECEIVE")]
      BY <1>3 DEF SendStarts
    <2>2. out \in {"pending", "posted", "dropped"}
      BY OutcomesType
    <2> DEFINE d == Labelled(out, id, "OVT_UDP_RECEIVE", "OVT_UDP_RECEIVE")
               e == [id |-> id, type |-> "OVT_UDP_SEND"]
    <2>3. d = FreeOv \/ (d.type # "OVT_CONNECT" /\ d.id = id)
      BY <2>2, LabelledAs
    <2>4. e.type # "OVT_CONNECT" /\ e.id = id
      OBVIOUS
    <2>5. ov' = [ov EXCEPT ![o] = e, ![p] = d]
      BY <2>1
    <2> HIDE DEF d, e
    <2> QED
      BY <2>3, <2>4, <2>5 DEF LabelsKept, TypeOK
  <1> QED
    BY <1>1, <1>2, <1>3

(* What the handlers that move the dialogue on do to a connection.         *)
LEMMA ConnectMoves ==
    ASSUME IInv, SocketsInv, NEW o \in Ovs, onConnectComplete(o), NEW id, id = ov[o].id, Has(id)
    PROVE  /\ id \in Ids /\ Connects(o)
           /\ LabelsKept /\ ov'[o] = FreeOv
           /\ \/ UNCHANGED m_socketMap
              \/ m_socketMap' = [m_socketMap EXCEPT ![id].proxyState = "PS_AUTH"]
           /\ UNCHANGED <<pc, cur, fate, created>> /\ pc = "wait"
  <1> DEFINE t == m_socketMap[ov[o].id].tcpSocket
  <1>1. Dequeued(o, "OVT_CONNECT")
    BY DEF onConnectComplete
  <1>2. PICK p \in Ovs, q \in Ovs, out \in Outcomes(t), rout \in Outcomes(t) :
          /\ newOV_DATA(p, {})
          /\ newOV_DATA(q, {p})
          /\ io' = [io EXCEPT ![p] = SendStarted(out, t), ![q] = Started(rout, t), ![o] = Idle]
          /\ ov' = [ov EXCEPT
                      ![p] = Labelled(out, ov[o].id, "OVT_TCP_SEND", "OVT_TCP_RECEIVE"),
                      ![q] = Labelled(rout, ov[o].id, "OVT_TCP_RECEIVE", "OVT_TCP_RECEIVE"),
                      ![o] = FreeOv]
          /\ \/ /\ m_socketMap' = [m_socketMap EXCEPT ![ov[o].id].proxyState = "PS_AUTH"]
                /\ wire' = [wire EXCEPT ![ov[o].id] = Append(@, "greeting")]
             \/ UNCHANGED <<m_socketMap, wire>>
          /\ UNCHANGED <<open, m_cs, pc, cur, fate, replies, created>>
    <2>1. Has(ov[o].id)
      OBVIOUS
    <2> QED
      BY <2>1, ZenonT(60) DEF onConnectComplete
  <1>3. id \in Ids /\ Connects(o) /\ pc = "wait" /\ id \in created
    BY <1>1, Parts DEF IInv, Dequeued, OvOwnership, Connects, SocketsInv, Conns
  <1> DEFINE d == Labelled(out, id, "OVT_TCP_SEND", "OVT_TCP_RECEIVE")
             e == Labelled(rout, id, "OVT_TCP_RECEIVE", "OVT_TCP_RECEIVE")
  <1>4. /\ d = FreeOv \/ (d.type # "OVT_CONNECT" /\ d.id = id)
        /\ e = FreeOv \/ (e.type # "OVT_CONNECT" /\ e.id = id)
    BY OutcomesType, LabelledAs
  <1>5. ov' = [ov EXCEPT ![p] = d, ![q] = e, ![o] = FreeOv]
    BY <1>2
  <1> HIDE DEF d, e
  <1>6. ov'[o] = FreeOv /\ LabelsKept
    BY <1>3, <1>4, <1>5 DEF LabelsKept, IInv, TypeOK
  <1> QED
    BY <1>2, <1>3, <1>6

(* An answer that makes the client send the next request.                  *)
LEMMA RequestMoves ==
    ASSUME IInv, SocketsInv, NEW o \in Ovs, onTcpReceiveRequest(o), NEW id, id = ov[o].id
    PROVE  /\ id \in Ids /\ Has(id)
           /\ m_socketMap[id].proxyState \in {"PS_AUTH", "PS_AUTH_NEGOTIATION"}
           /\ LabelsKept
           /\ \/ UNCHANGED m_socketMap
              \/ \E s \in {"PS_AUTH_NEGOTIATION", "PS_UDP_ASSOC"} :
                   m_socketMap' = [m_socketMap EXCEPT ![id].proxyState = s]
           /\ UNCHANGED <<fate, created>> /\ NoDrain
  <1> DEFINE t   == m_socketMap[id].tcpSocket
             req == NextRequest(m_socketMap[id], io[o].res)
  <1>1. PICK p \in Ovs, out \in Outcomes(t) :
          /\ ov' = [ov EXCEPT ![p] = Labelled(out, id, "OVT_TCP_SEND", "OVT_TCP_RECEIVE")]
          /\ \/ UNCHANGED m_socketMap
             \/ m_socketMap' = [m_socketMap EXCEPT ![id].proxyState = StateAfter(req)]
    BY DEF onTcpReceiveRequest
  <1>2. /\ Dequeued(o, "OVT_TCP_RECEIVE") /\ req # "none"
        /\ pc' = "rearmTcp" /\ UNCHANGED <<fate, created>>
    BY DEF onTcpReceiveRequest, Continue
  <1>3. /\ Has(id)
        /\ m_socketMap[id].proxyState \in {"PS_AUTH", "PS_AUTH_NEGOTIATION"}
    BY <1>2 DEF NextRequest, Has, NoConn
  <1>4. id \in Ids /\ pc = "wait" /\ id \in created
    BY <1>2, <1>3, Parts DEF IInv, Dequeued, OvOwnership, SocketsInv, Conns
  <1>5. StateAfter(req) \in {"PS_AUTH_NEGOTIATION", "PS_UDP_ASSOC"}
    BY DEF StateAfter
  <1> DEFINE d == Labelled(out, id, "OVT_TCP_SEND", "OVT_TCP_RECEIVE")
  <1>6. d = FreeOv \/ (d.type # "OVT_CONNECT" /\ d.id = id)
    BY OutcomesType, LabelledAs
  <1>7. ov' = [ov EXCEPT ![p] = d]
    BY <1>1
  <1> HIDE DEF d
  <1>8. LabelsKept
    BY <1>4, <1>6, <1>7 DEF LabelsKept, IInv, TypeOK
  <1>9. NoDrain
    BY <1>2, <1>4 DEF NoDrain
  <1> QED
    BY <1>1, <1>2, <1>3, <1>4, <1>5, <1>8, <1>9

(* The answer that brings the association up.                              *)
LEMMA AssociatedMoves ==
    ASSUME IInv, NEW o \in Ovs, onTcpReceiveAssociated(o), NEW id, id = ov[o].id
    PROVE  /\ id \in Ids /\ Has(id)
           /\ m_socketMap[id].proxyState = "PS_UDP_ASSOC"
           /\ m_socketMap'[id].proxyState = "PS_CONNECTED"
           /\ Queue(id)' = Queue(id)
           /\ OthersSame(id)
           /\ UNCHANGED <<ov, fate, created>>
           /\ pc = "wait" /\ pc' = "drain" /\ cur'.ov = o
  <1> DEFINE c == m_socketMap[id]
  <1>1. /\ Dequeued(o, "OVT_TCP_RECEIVE")
        /\ c.proxyState = "PS_UDP_ASSOC"
        /\ m_socketMap' = [m_socketMap EXCEPT ![id].proxyState = "PS_CONNECTED",
                                              ![id].remoteAddress = io[o].res]
        /\ Continue("drain", o)
        /\ UNCHANGED <<ov, fate, created>>
    BY DEF onTcpReceiveAssociated, Accepts
  <1>2. id \in Ids /\ pc = "wait" /\ TypeOK
    BY <1>1, Parts DEF IInv, Dequeued, OvOwnership
  <1>3. Has(id)
    BY <1>1, <1>2, HasState
  <1>4. /\ m_socketMap'[id] = [c EXCEPT !.proxyState = "PS_CONNECTED", !.remoteAddress = io[o].res]
        /\ OthersSame(id)
    BY <1>1, <1>2 DEF TypeOK, OthersSame
  <1>5. m_socketMap'[id].proxyState = "PS_CONNECTED" /\ Queue(id)' = Queue(id)
    <2>1. c \in PROXY_DATA
      BY <1>2, <1>3, Parts
    <2> QED
      BY <1>4, <2>1 DEF Queue, PROXY_DATA
  <1>6. pc' = "drain" /\ cur'.ov = o
    BY <1>1 DEF Continue
  <1> QED
    BY <1>1, <1>2, <1>3, <1>4, <1>5, <1>6

(* One turn of the loop over the queue.                                    *)
LEMMA DrainMoves ==
    ASSUME IInv, TypeOK', SocketsInv, drain, NEW id, id = ov[cur.ov].id
    PROVE  /\ id \in Ids /\ LabelsKept
           /\ \E f \in {"relayed", "lost"} : Drains(id, f)
           /\ m_socketMap'[id].proxyState = m_socketMap[id].proxyState
  <1> DEFINE c == m_socketMap[id]
             q == Tail(c.udpSendPackets)
  <1>1. /\ pc = "drain" /\ c.udpSendPackets # <<>>
        /\ SendStarts(id) \/ SendFails(id)
        /\ \/ m_socketMap' = [m_socketMap EXCEPT ![id].udpSendPackets = Tail(@),
                                                 ![id].udpRecvStarted = TRUE]
           \/ m_socketMap' = [m_socketMap EXCEPT ![id].udpSendPackets = Tail(@)]
        /\ \E f \in {"relayed", "lost"} :
             fate' = [fate EXCEPT ![id][Head(c.udpSendPackets)] = f]
        /\ UNCHANGED <<pc, cur, created>>
    BY DEF drain
  <1>2. /\ cur.ov \in Ovs /\ ov[cur.ov] # FreeOv
        /\ id \in Ids /\ Has(id) /\ TypeOK /\ id \in created
    BY <1>1, Parts DEF IInv, WorkerInv, OvOwnership, SocketsInv, Conns
  <1>3. LabelsKept /\ ov'[cur.ov] = ov[cur.ov]
    <2>1. Owned({}, {})
      BY InvButNone DEF InvBut
    <2> QED
      BY <1>1, <1>2, <2>1, SendKeeps, SendLabels
  <1>4. /\ \/ m_socketMap'[id] = [c EXCEPT !.udpSendPackets = q, !.udpRecvStarted = TRUE]
           \/ m_socketMap'[id] = [c EXCEPT !.udpSendPackets = q]
        /\ OthersSame(id)
    <2>1. m_socketMap \in [Ids -> PROXY_DATA \cup {NoConn}] /\ id \in Ids
      BY <1>2 DEF TypeOK
    <2>2. CASE m_socketMap' = [m_socketMap EXCEPT ![id].udpSendPackets = Tail(@),
                                                  ![id].udpRecvStarted = TRUE]
      BY <2>1, <2>2 DEF OthersSame
    <2>3. CASE m_socketMap' = [m_socketMap EXCEPT ![id].udpSendPackets = Tail(@)]
      BY <2>1, <2>3 DEF OthersSame
    <2> QED
      BY <1>1, <2>2, <2>3
  <1>5. m_socketMap'[id].proxyState = c.proxyState /\ Queue(id)' = Tail(Queue(id))
    <2>1. c \in PROXY_DATA
      BY <1>2, Parts
    <2> HIDE DEF c, q
    <2>2. m_socketMap'[id].proxyState = c.proxyState /\ m_socketMap'[id].udpSendPackets = q
      BY <1>4, <2>1 DEF PROXY_DATA
    <2> QED
      BY <2>2 DEF Queue, c, q
  <1>6. Has(id)' /\ (Up(id)' <=> Up(id))
    BY <1>2, <1>5, HasState, HasStateNext DEF Up
  <1>7. SameDrain
    BY <1>1, <1>3 DEF SameDrain
  <1>8. \E f \in {"relayed", "lost"} : Drains(id, f)
    BY <1>1, <1>2, <1>4, <1>5, <1>6, <1>7 DEF Drains, Queue
  <1> QED
    BY <1>2, <1>3, <1>5, <1>8

-----------------------------------------------------------------------------
(* Every step preserves ConnectInv.                                        *)
LEMMA NextConnects ==
    ASSUME IInv, IInv', SocketsInv, ConnectInv, [Next]_vars
    PROVE  ConnectInv'
  <1>0. TypeOK /\ TypeOK'
    BY DEF IInv
  <1>1. ASSUME UNCHANGED created, UNCHANGED m_socketMap, LabelsKept PROVE ConnectInv'
    <2>1. StatesKept
      BY <1>1 DEF StatesKept
    <2> QED
      BY <1>0, <1>1, <2>1, KeptConnects
  <1>2. CASE UNCHANGED <<created, m_socketMap, ov>>
    BY <1>1, <1>2 DEF LabelsKept
  <1>3. ASSUME NEW o \in Ovs, deleteOV_DATA(o) PROVE ConnectInv'
    BY <1>0, <1>1, <1>3 DEF deleteOV_DATA, LabelsKept, TypeOK
  <1>4. ASSUME NEW id \in Ids, Destroy(id), UNCHANGED created,
               UNCHANGED ov \/ \E o \in Ovs : ov' = [ov EXCEPT ![o] = FreeOv]
        PROVE  ConnectInv'
    <2>1. LabelsKept
      BY <1>0, <1>4 DEF LabelsKept, TypeOK
    <2>2. StatesKept
      BY <1>0, <1>4 DEF StatesKept, Destroy, TypeOK, Has
    <2> QED
      BY <1>0, <1>4, <2>1, <2>2, KeptConnects
  <1>5. ASSUME NEW id \in Ids, id \notin created, NEW ok \in BOOLEAN, createProxyConnection(id, ok)
        PROVE  ConnectInv'
    <2>1. CASE UNCHANGED vars
      BY <1>2, <2>1 DEF vars
    <2>2. CASE ~UNCHANGED vars
      <3>1. PICK t \in Handles, u \in Handles, o \in Ovs :
              /\ newOV_DATA(o, {})
              /\ open' = open \cup {t, u}
              /\ m_socketMap' = [m_socketMap EXCEPT ![id] = NewConn(t, u)]
              /\ io' = [io EXCEPT ![o] = Pending(t)]
              /\ ov' = [ov EXCEPT ![o] = [id |-> id, type |-> "OVT_CONNECT"]]
              /\ created' = created \cup {id}
              /\ UNCHANGED <<m_cs, pc, cur, fate, wire, replies>>
        BY <1>5, <2>2 DEF createProxyConnection, NewHandles
      <3>2. /\ m_socketMap'[id].proxyState = "PS_NONE"
            /\ \A jd \in Ids \ {id} : m_socketMap'[jd] = m_socketMap[jd]
        BY <1>0, <3>1 DEF TypeOK, NewConn
      <3>3. /\ ov'[o].type = "OVT_CONNECT" /\ ov'[o].id = id
            /\ \A p \in Ovs \ {o} : ov'[p] = ov[p]
        BY <1>0, <3>1 DEF TypeOK
      <3>4. \A p \in Ovs : Connects(p) => ov[p].id \in Ids /\ ov[p].id # id /\ ov[p].id \in created
        BY <1>0, <1>5, Parts DEF ConnectInv, Connects, FreeOv
      <3>5. \A p \in Ovs : ov'[p] # FreeOv => ov'[p].id \in created'
        BY <3>1, <3>3 DEF ConnectInv
      <3>6. ASSUME NEW p \in Ovs, NEW r \in Ovs, Connects(p)', Connects(r)', ov'[p].id = ov'[r].id
            PROVE  p = r
        BY <3>3, <3>4, <3>6 DEF ConnectInv, Connects
      <3>7. ASSUME NEW p \in Ovs, Connects(p)', m_socketMap'[ov'[p].id] # NoConn
            PROVE  m_socketMap'[ov'[p].id].proxyState = "PS_NONE"
        BY <3>2, <3>3, <3>4, <3>7 DEF ConnectInv, Connects, Has
      <3> QED
        BY <3>5, <3>6, <3>7 DEF ConnectInv, Has
    <2> QED
      BY <2>1, <2>2
  <1>6. ASSUME NEW id \in Ids, NEW ok \in BOOLEAN, udpSend(id, ok) PROVE ConnectInv'
    <2>1. UNCHANGED created
      BY <1>6 DEF udpSend
    <2>2. LabelsKept
      <3>1. CASE UNCHANGED ov
        BY <3>1 DEF LabelsKept
      <3>2. CASE Has(id) /\ (SendStarts(id) \/ SendFails(id))
        BY <1>0, <3>2, SendLabels DEF SocketsInv, Conns
      <3> QED
        BY <1>6, <3>1, <3>2 DEF udpSend
    <2>3. StatesKept
      <3>1. CASE UNCHANGED m_socketMap
        BY <3>1 DEF StatesKept
      <3>2. CASE m_socketMap' = [m_socketMap EXCEPT
                                   ![id].udpSendPackets = Append(@, Len(fate[id]) + 1)]
        <4>1. /\ m_socketMap'[id] = [m_socketMap[id] EXCEPT
                    !.udpSendPackets = Append(m_socketMap[id].udpSendPackets, Len(fate[id]) + 1)]
              /\ \A jd \in Ids \ {id} : m_socketMap'[jd] = m_socketMap[jd]
          BY <1>0, <3>2 DEF TypeOK
        <4>2. m_socketMap'[id].proxyState = m_socketMap[id].proxyState
          BY <1>0, <4>1, FieldUpdates
        <4> QED
          BY <4>1, <4>2 DEF StatesKept
      <3>3. CASE m_socketMap' = [m_socketMap EXCEPT ![id].udpRecvStarted = TRUE]
        <4>1. /\ m_socketMap'[id] = [m_socketMap[id] EXCEPT !.udpRecvStarted = TRUE]
              /\ \A jd \in Ids \ {id} : m_socketMap'[jd] = m_socketMap[jd]
          BY <1>0, <3>3 DEF TypeOK
        <4>2. m_socketMap'[id].proxyState = m_socketMap[id].proxyState
          BY <1>0, <4>1, FieldUpdates
        <4> QED
          BY <4>1, <4>2 DEF StatesKept
      <3> QED
        BY <1>6, <3>1, <3>2, <3>3 DEF udpSend
    <2> QED
      BY <1>0, <2>1, <2>2, <2>3, KeptConnects
  <1>7. ASSUME NEW o \in Ovs, onConnectComplete(o) PROVE ConnectInv'
    <2>1. CASE ~Has(ov[o].id)
      BY <1>3, <1>7, <2>1 DEF onConnectComplete
    <2>2. CASE Has(ov[o].id)
      <3>1. PICK id : id = ov[o].id
        OBVIOUS
      <3>2. /\ id \in Ids /\ Connects(o)
            /\ LabelsKept /\ ov'[o] = FreeOv
            /\ \/ UNCHANGED m_socketMap
               \/ m_socketMap' = [m_socketMap EXCEPT ![id].proxyState = "PS_AUTH"]
            /\ UNCHANGED created
        BY <1>7, <2>2, <3>1, ConnectMoves
      <3>3. \A p \in Ovs : ~(ov'[p].type = "OVT_CONNECT" /\ ov'[p].id = id)
        BY <3>1, <3>2 DEF LabelsKept, ConnectInv, Connects, FreeOv
      <3>4. \A jd \in Ids \ {id} : m_socketMap'[jd] = m_socketMap[jd]
        BY <1>0, <3>2 DEF TypeOK
      <3>5. StatesKept
        BY <3>3, <3>4 DEF StatesKept
      <3> QED
        BY <1>0, <3>2, <3>5, KeptConnects
    <2> QED
      BY <2>1, <2>2
  <1>8. ASSUME NEW o \in Ovs, onTcpReceiveRequest(o) PROVE ConnectInv'
    <2>1. PICK id : id = ov[o].id
      OBVIOUS
    <2>2. /\ id \in Ids /\ Has(id)
          /\ m_socketMap[id].proxyState \in {"PS_AUTH", "PS_AUTH_NEGOTIATION"}
          /\ LabelsKept
          /\ \/ UNCHANGED m_socketMap
             \/ \E s \in {"PS_AUTH_NEGOTIATION", "PS_UDP_ASSOC"} :
                  m_socketMap' = [m_socketMap EXCEPT ![id].proxyState = s]
          /\ UNCHANGED created
      BY <1>8, <2>1, RequestMoves
    <2>3. \A p \in Ovs : ~(ov'[p].type = "OVT_CONNECT" /\ ov'[p].id = id)
      BY <2>2 DEF LabelsKept, ConnectInv, Connects, FreeOv
    <2>4. \A jd \in Ids \ {id} : m_socketMap'[jd] = m_socketMap[jd]
      BY <1>0, <2>2 DEF TypeOK
    <2>5. StatesKept
      BY <2>3, <2>4 DEF StatesKept
    <2> QED
      BY <1>0, <2>2, <2>5, KeptConnects
  <1>9. ASSUME NEW o \in Ovs, onTcpReceiveAssociated(o) PROVE ConnectInv'
    <2>1. PICK id : id = ov[o].id
      OBVIOUS
    <2>2. /\ id \in Ids /\ Has(id)
          /\ m_socketMap[id].proxyState = "PS_UDP_ASSOC"
          /\ OthersSame(id)
          /\ UNCHANGED <<ov, created>>
      BY <1>9, <2>1, AssociatedMoves
    <2>3. \A p \in Ovs : ~(ov'[p].type = "OVT_CONNECT" /\ ov'[p].id = id)
      BY <2>2 DEF ConnectInv, Connects
    <2>4. StatesKept /\ LabelsKept
      BY <2>2, <2>3 DEF StatesKept, LabelsKept, OthersSame
    <2> QED
      BY <1>0, <2>2, <2>4, KeptConnects
  <1>10. CASE drain
    <2>1. PICK id : id = ov[cur.ov].id
      OBVIOUS
    <2>2. /\ LabelsKept
          /\ \E f \in {"relayed", "lost"} : Drains(id, f)
          /\ m_socketMap'[id].proxyState = m_socketMap[id].proxyState
      BY <1>0, <1>10, <2>1, DrainMoves
    <2>3. OthersSame(id) /\ UNCHANGED created
      BY <2>2 DEF Drains
    <2>4. StatesKept
      BY <2>2, <2>3 DEF StatesKept, OthersSame
    <2> QED
      BY <1>0, <2>2, <2>3, <2>4, KeptConnects
  <1>11. ASSUME NEW at, rearm(at) PROVE ConnectInv'
    BY <1>0, <1>1, <1>11 DEF rearm, LabelsKept, TypeOK
  <1>12. ASSUME NEW id \in Ids, Client(id) PROVE ConnectInv'
    BY <1>2, <1>4, <1>5, <1>6, <1>12 DEF Client, deleteProxyConnection, vars
  <1>13. ASSUME NEW o \in Ovs, Handle(o) PROVE ConnectInv'
    <2>1. CASE onConnectFailed(o)
      <3>1. ov[o].id \in Ids
        BY <1>0, <2>1, Parts DEF onConnectFailed, Dequeued, IInv, OvOwnership
      <3> QED
        BY <1>3, <1>4, <2>1, <3>1 DEF onConnectFailed
    <2>2. CASE onTcpSendComplete(o) \/ onUdpSendComplete(o) \/ onTcpReceiveEnd(o) \/ onUdpReceiveEnd(o)
      BY <1>3, <2>2 DEF onTcpSendComplete, onUdpSendComplete, onTcpReceiveEnd, onUdpReceiveEnd
    <2>3. CASE onTcpReceiveIgnored(o) \/ onUdpReceiveComplete(o)
      BY <1>2, <2>3 DEF onTcpReceiveIgnored, onUdpReceiveComplete
    <2> QED
      BY <1>7, <1>8, <1>9, <1>13, <2>1, <2>2, <2>3 DEF Handle
  <1>14. ASSUME NEW o \in Ovs, Kernel(o) PROVE ConnectInv'
    BY <1>2, <1>14 DEF Kernel, connected, answered, hungUp, arrived, Env
  <1>15. CASE drainEnd \/ callback \/ workerTimeout \/ UNCHANGED vars
    BY <1>2, <1>15 DEF drainEnd, callback, workerTimeout, vars
  <1> QED
    BY <1>10, <1>11, <1>12, <1>13, <1>14, <1>15 DEF Next, Resume

-----------------------------------------------------------------------------
(* Every step is one of the kinds of FlowStep.                             *)
LEMMA StepKinds ==
    ASSUME IInv, IInv', SocketsInv, ConnectInv, [Next]_vars
    PROVE  FlowStep
  <1>0. TypeOK /\ TypeOK'
    BY DEF IInv
  <1>1. ASSUME UNCHANGED <<m_socketMap, fate, created>>, SameDrain PROVE FlowStep
    BY <1>1, UntouchedFlow DEF FlowStep
  <1>2. CASE UNCHANGED <<m_socketMap, fate, created, pc, cur, ov>>
    BY <1>1, <1>2 DEF SameDrain
  <1>3. ASSUME UNCHANGED <<m_socketMap, fate, created>>, NoDrain PROVE FlowStep
    BY <1>1, <1>3 DEF SameDrain, NoDrain
  <1>4. ASSUME NEW o \in Ovs, NEW type, Dequeued(o, type), deleteOV_DATA(o) PROVE FlowStep
    BY <1>3, <1>4 DEF Dequeued, deleteOV_DATA, NoDrain
  <1>5. ASSUME NEW id \in Ids, Client(id) PROVE FlowStep
    <2>1. ASSUME deleteProxyConnection(id) PROVE FlowStep
      BY <1>2, <2>1, DestroyFlow DEF deleteProxyConnection, vars
    <2> QED
      BY <1>0, <1>5, <2>1, CreateFlow, SendFlow DEF Client
  <1>6. ASSUME NEW o \in Ovs, Handle(o) PROVE FlowStep
    <2>1. CASE onConnectFailed(o)
      <3>1. ov[o].id \in Ids /\ Dequeued(o, "OVT_CONNECT") /\ m_cs = "free"
        BY <1>0, <2>1, Parts DEF onConnectFailed, Dequeued, IInv, OvOwnership
      <3>2. CASE ~Has(ov[o].id)
        BY <1>4, <2>1, <3>1, <3>2 DEF onConnectFailed
      <3>3. CASE Has(ov[o].id)
        <4>1. Destroy(ov[o].id) /\ UNCHANGED <<pc, created>>
          BY <2>1, <3>3 DEF onConnectFailed
        <4>2. PICK id \in Ids : id = ov[o].id
          BY <3>1
        <4>3. Has(id) /\ Destroy(id)
          BY <3>3, <4>1, <4>2 DEF Destroy
        <4> QED
          BY <3>1, <4>1, <4>3, DestroyFlow
      <3> QED
        BY <3>2, <3>3
    <2>2. CASE onConnectComplete(o)
      <3>1. CASE ~Has(ov[o].id)
        BY <1>4, <2>2, <3>1 DEF onConnectComplete
      <3>2. CASE Has(ov[o].id)
        <4>1. PICK id : id = ov[o].id
          OBVIOUS
        <4>2. /\ id \in Ids /\ Connects(o) /\ Has(id)
              /\ \/ UNCHANGED m_socketMap
                 \/ m_socketMap' = [m_socketMap EXCEPT ![id].proxyState = "PS_AUTH"]
              /\ UNCHANGED <<pc, cur, fate, created>> /\ pc = "wait"
          BY <2>2, <3>2, <4>1, ConnectMoves
        <4>3. ~Up(id) /\ NoDrain
          BY <4>1, <4>2 DEF ConnectInv, Up, NoDrain
        <4>4. SameFlow
          BY <1>0, <4>2, <4>3, UntouchedFlow, DialogueFlow DEF PROXY_STATE
        <4> QED
          BY <4>3, <4>4 DEF FlowStep, NoDrain, SameDrain
      <3> QED
        BY <3>1, <3>2
    <2>3. CASE onTcpSendComplete(o) \/ onUdpSendComplete(o) \/ onTcpReceiveEnd(o) \/ onUdpReceiveEnd(o)
      BY <1>4, <2>3 DEF onTcpSendComplete, onUdpSendComplete, onTcpReceiveEnd, onUdpReceiveEnd
    <2>4. CASE onTcpReceiveRequest(o)
      <3>1. PICK id : id = ov[o].id
        OBVIOUS
      <3>2. /\ id \in Ids /\ Has(id)
            /\ m_socketMap[id].proxyState \in {"PS_AUTH", "PS_AUTH_NEGOTIATION"}
            /\ \/ UNCHANGED m_socketMap
               \/ \E s \in {"PS_AUTH_NEGOTIATION", "PS_UDP_ASSOC"} :
                    m_socketMap' = [m_socketMap EXCEPT ![id].proxyState = s]
            /\ UNCHANGED <<fate, created>> /\ NoDrain
        BY <2>4, <3>1, RequestMoves
      <3>3. ~Up(id)
        BY <3>2 DEF Up
      <3>4. SameFlow
        BY <1>0, <3>2, <3>3, UntouchedFlow, DialogueFlow DEF PROXY_STATE
      <3> QED
        BY <3>2, <3>4 DEF FlowStep, NoDrain, SameDrain
    <2>5. CASE onTcpReceiveAssociated(o)
      <3>1. PICK id : id = ov[o].id
        OBVIOUS
      <3>2. /\ id \in Ids /\ Has(id)
            /\ m_socketMap[id].proxyState = "PS_UDP_ASSOC"
            /\ m_socketMap'[id].proxyState = "PS_CONNECTED"
            /\ Queue(id)' = Queue(id)
            /\ OthersSame(id)
            /\ UNCHANGED <<ov, fate, created>>
            /\ pc = "wait" /\ pc' = "drain" /\ cur'.ov = o
        BY <2>5, <3>1, AssociatedMoves
      <3>3. Has(id)' /\ ~Up(id) /\ Up(id)'
        BY <1>0, <3>2, HasStateNext DEF Up
      <3>4. Establishes(id)
        BY <3>1, <3>2, <3>3 DEF Establishes
      <3> QED
        BY <3>2, <3>4 DEF FlowStep
    <2>6. CASE onTcpReceiveIgnored(o) \/ onUdpReceiveComplete(o)
      BY <1>3, <2>6 DEF onTcpReceiveIgnored, onUdpReceiveComplete, Dequeued, Continue, NoDrain
    <2> QED
      BY <1>6, <2>1, <2>2, <2>3, <2>4, <2>5, <2>6 DEF Handle
  <1>7. ASSUME NEW o \in Ovs, Kernel(o) PROVE FlowStep
    BY <1>2, <1>7 DEF Kernel, connected, answered, hungUp, arrived, Env
  <1>8. CASE drain
    <2>1. PICK id : id = ov[cur.ov].id
      OBVIOUS
    <2>2. id \in Ids /\ \E f \in {"relayed", "lost"} : Drains(id, f)
      BY <1>0, <1>8, <2>1, DrainMoves
    <2> QED
      BY <2>2 DEF FlowStep
  <1>9. CASE drainEnd
    <2>1. pc = "drain" /\ pc' = "rearmTcp" /\ UNCHANGED <<m_socketMap, fate, created>>
      BY <1>9 DEF drainEnd
    <2>2. Queue(ov[cur.ov].id) = <<>>
      BY <1>9 DEF drainEnd, Queue
    <2> QED
      BY <2>1, <2>2, UntouchedFlow DEF FlowStep, EndsDrain
  <1>10. CASE callback \/ rearm("rearmTcp") \/ rearm("rearmUdp")
    BY <1>3, <1>10 DEF callback, rearm, NoDrain
  <1>11. CASE workerTimeout \/ UNCHANGED vars
    BY <1>2, <1>11 DEF workerTimeout, vars
  <1> QED
    BY <1>5, <1>6, <1>7, <1>8, <1>9, <1>10, <1>11 DEF Next, Resume

-----------------------------------------------------------------------------
(* Every kind of step preserves QueueInv.                                  *)
LEMMA StepsKeepQueue ==
    ASSUME TypeOK, SocketsInv, QueueInv, FlowStep
    PROVE  QueueInv'
  <1>0. fate \in [Ids -> Seq(Fates)]
    BY DEF TypeOK
  <1>1. ASSUME NEW id \in Ids, Queue(id)' = Queue(id), Up(id)' <=> Up(id),
               fate'[id] = fate[id], Draining(id)' <=> Draining(id)
        PROVE  FlowInv(id)'
    BY <1>1 DEF QueueInv, FlowInv
  <1>2. ASSUME NEW id \in Ids, OthersSame(id), NEW jd \in Ids \ {id},
               fate'[jd] = fate[jd], Draining(jd)' <=> Draining(jd)
        PROVE  FlowInv(jd)'
    <2>1. Queue(jd)' = Queue(jd) /\ (Up(jd)' <=> Up(jd))
      BY <1>2 DEF OthersSame, Queue, Up
    <2> QED
      BY <1>1, <1>2, <2>1
  <1>3. NoDrain => \A id \in Ids : ~Draining(id) /\ ~Draining(id)'
    BY DEF NoDrain, Draining
  <1>4. CASE SameFlow /\ SameDrain
    <2>1. \A id \in Ids : Draining(id)' <=> Draining(id)
      BY <1>4 DEF SameDrain, Draining
    <2> QED
      BY <1>1, <1>4, <2>1 DEF SameFlow, QueueInv
  <1>5. CASE EndsDrain
    <2> SUFFICES ASSUME NEW id \in Ids PROVE FlowInv(id)'
      BY DEF QueueInv
    <2>1. ~Draining(id)'
      BY <1>5 DEF EndsDrain, Draining
    <2>2. Up(id) => Queue(id) = <<>>
      BY <1>5 DEF EndsDrain, QueueInv, FlowInv, Draining
    <2>3. Queue(id)' = Queue(id) /\ (Up(id)' <=> Up(id)) /\ fate'[id] = fate[id]
      BY <1>5 DEF EndsDrain, SameFlow
    <2> QED
      BY <2>1, <2>2, <2>3 DEF QueueInv, FlowInv
  <1>6. ASSUME NEW id \in Ids, OthersSame(id), NoDrain,
               \A jd \in Ids \ {id} : fate'[jd] = fate[jd],
               Holds(Queue(id)', fate'[id]), InTurn(fate'[id]),
               Up(id)' => Queue(id)' = <<>>
        PROVE  QueueInv'
    <2>1. FlowInv(id)'
      BY <1>3, <1>6 DEF FlowInv
    <2>2. \A jd \in Ids \ {id} : FlowInv(jd)'
      BY <1>2, <1>3, <1>6
    <2> QED
      BY <2>1, <2>2 DEF QueueInv
  <1>7. ASSUME NEW id \in Ids
        PROVE  /\ Queue(id) \in Seq(Nat) /\ fate[id] \in Seq(Fates)
               /\ Holds(Queue(id), fate[id]) /\ InTurn(fate[id])
               /\ ~Has(id) => Queue(id) = <<>>
               /\ NoDrain /\ Up(id) => Queue(id) = <<>>
    BY <1>3, HasState DEF QueueInv, FlowInv
  <1>8. ASSUME NEW id \in Ids, Creates(id) PROVE QueueInv'
    <2>1. ~Has(id)
      BY <1>8 DEF Creates, SocketsInv, Conns
    <2>2. Queue(id) = <<>>
      BY <1>7, <2>1
    <2>3. Holds(Queue(id)', fate'[id]) /\ InTurn(fate'[id])
      BY <1>7, <1>8, <2>2 DEF Creates
    <2> QED
      BY <1>6, <1>8, <2>3 DEF Creates
  <1>9. ASSUME NEW id \in Ids, Destroys(id) PROVE QueueInv'
    <2>1. /\ fate'[id] = Lost(fate[id])
          /\ \A jd \in Ids \ {id} : fate'[jd] = fate[jd]
      BY <1>0, <1>9 DEF Destroys
    <2>2. Holds(<<>>, Lost(fate[id])) /\ InTurn(Lost(fate[id]))
      BY <1>7, AllLost
    <2> QED
      BY <1>6, <1>9, <2>1, <2>2 DEF Destroys
  <1>10. ASSUME NEW id \in Ids, NEW f \in Fates, Sends(id, f) PROVE QueueInv'
    <2>1. /\ fate'[id] = Append(fate[id], f)
          /\ \A jd \in Ids \ {id} : fate'[jd] = fate[jd]
      BY <1>0, <1>10 DEF Sends
    <2>2. CASE f = "queued" /\ ~Up(id) /\ Queue(id)' = Append(Queue(id), Len(fate[id]) + 1)
      <3>1. Holds(Queue(id)', fate'[id]) /\ InTurn(fate'[id])
        BY <1>7, <2>1, <2>2, QueuedBehind
      <3> QED
        BY <1>6, <1>10, <2>1, <2>2, <3>1 DEF Sends
    <2>3. CASE f # "queued" /\ (f = "lost" \/ Queue(id) = <<>>) /\ Queue(id)' = Queue(id)
      <3>1. Holds(Queue(id)', fate'[id]) /\ InTurn(fate'[id])
        BY <1>7, <2>1, <2>3, NotQueued
      <3>2. NoDrain /\ OthersSame(id) /\ (Up(id)' <=> Up(id))
        BY <1>10 DEF Sends
      <3>3. Up(id)' => Queue(id)' = <<>>
        BY <1>7, <2>3, <3>2
      <3> QED
        BY <1>6, <2>1, <3>1, <3>2, <3>3
    <2>4. NoDrain
      BY <1>10 DEF Sends
    <2> QED
      BY <1>7, <1>10, <2>2, <2>3, <2>4 DEF Sends
  <1>11. ASSUME NEW id \in Ids, Establishes(id) PROVE QueueInv'
    <2>1. fate'[id] = fate[id] /\ OthersSame(id)
      BY <1>11 DEF Establishes
    <2>2. Draining(id)' /\ Up(id)'
      BY <1>11 DEF Establishes, Draining
    <2>3. FlowInv(id)'
      BY <1>7, <1>11, <2>1, <2>2 DEF Establishes, FlowInv
    <2>4. \A jd \in Ids \ {id} : ~Draining(jd) /\ ~Draining(jd)'
      BY <1>11 DEF Establishes, Draining
    <2>5. \A jd \in Ids \ {id} : FlowInv(jd)'
      BY <1>2, <1>11, <2>1, <2>4 DEF Establishes
    <2> QED
      BY <2>3, <2>5 DEF QueueInv
  <1>12. ASSUME NEW id \in Ids, NEW f \in {"relayed", "lost"}, Drains(id, f) PROVE QueueInv'
    <2>1. /\ Queue(id) # <<>> /\ Queue(id)' = Tail(Queue(id))
          /\ fate'[id] = [fate[id] EXCEPT ![Head(Queue(id))] = f]
          /\ \A jd \in Ids \ {id} : fate'[jd] = fate[jd]
      BY <1>0, <1>12 DEF Drains
    <2>2. Holds(Queue(id)', fate'[id]) /\ InTurn(fate'[id])
      BY <1>7, <2>1, HeadLeaves DEF Fates
    <2>3. \A jd \in Ids : Draining(jd)' <=> Draining(jd)
      BY <1>12 DEF Drains, SameDrain, Draining
    <2>4. Draining(id) /\ Up(id) /\ Draining(id)' /\ Up(id)'
      BY <1>12, <2>3 DEF Drains, Draining, QueueInv, FlowInv
    <2>5. FlowInv(id)'
      BY <2>2, <2>4 DEF FlowInv
    <2>6. \A jd \in Ids \ {id} : FlowInv(jd)'
      BY <1>2, <1>12, <2>1, <2>3 DEF Drains
    <2> QED
      BY <2>5, <2>6 DEF QueueInv
  <1> QED
    BY <1>4, <1>5, <1>8, <1>9, <1>10, <1>11, <1>12 DEF FlowStep

-----------------------------------------------------------------------------
(* What a kind of step does to the phase of an endpoint.                   *)
LEMMA PhaseKept ==
    ASSUME NEW id \in Ids, Has(id)' <=> Has(id), Up(id)' <=> Up(id), created' = created
    PROVE  Phase(id)' = Phase(id)
  BY DEF Phase, Up

(* The other endpoints keep theirs.                                        *)
LEMMA OthersKeepPhase ==
    ASSUME NEW id \in Ids, OthersSame(id), NEW jd \in Ids \ {id},
           jd \in created' <=> jd \in created
    PROVE  Phase(jd)' = Phase(jd)
  BY DEF OthersSame, Phase, Has

(* Every kind of step is a step of UdpFlow, or none.                       *)
LEMMA StepsImplement ==
    ASSUME TypeOK, SocketsInv, SocketsInv', QueueInv, FlowStep
    PROVE  [Flow!FlowNext]_(Flow!flowVars)
  <1> DEFINE ph == [id \in Ids |-> Phase(id)]
  <1>0. fate \in [Ids -> Seq(Fates)]
    BY DEF TypeOK
  <1>1. CASE SameFlow
    <2>1. \A id \in Ids : Phase(id)' = Phase(id)
      BY <1>1, PhaseKept DEF SameFlow
    <2>2. ph' = ph /\ fate' = fate
      BY <1>1, <2>1 DEF SameFlow
    <2> QED
      BY <2>2 DEF Flow!flowVars
  <1>2. ASSUME NEW id \in Ids, NEW x, OthersSame(id), Phase(id)' = x,
               \A jd \in Ids \ {id} : jd \in created' <=> jd \in created
        PROVE  ph' = [ph EXCEPT ![id] = x]
    <2>1. \A jd \in Ids \ {id} : Phase(jd)' = Phase(jd)
      BY <1>2, OthersKeepPhase
    <2> QED
      BY <1>2, <2>1
  <1>3. ASSUME NEW id \in Ids, OthersSame(id), Has(id)' <=> Has(id), Up(id)' <=> Up(id),
               created' = created
        PROVE  ph' = ph
    <2>1. Phase(id)' = Phase(id)
      BY <1>3, PhaseKept
    <2>2. \A jd \in Ids \ {id} : Phase(jd)' = Phase(jd)
      BY <1>3, OthersKeepPhase
    <2> QED
      BY <2>1, <2>2
  <1>4. ASSUME NEW id \in Ids, Queue(id) = <<>> PROVE Flow!InQueue(id) = {}
    BY <1>4 DEF Flow!InQueue, QueueInv, FlowInv, Holds
  <1>5. ASSUME NEW id \in Ids, NoDrain, Up(id) PROVE Queue(id) = <<>>
    BY <1>5 DEF NoDrain, Draining, QueueInv, FlowInv
  <1>6. ASSUME NEW id \in Ids, Creates(id) PROVE Flow!Open(id)
    <2>1. ~Has(id) /\ Phase(id) = "none" /\ Phase(id)' = "waiting"
      BY <1>6 DEF Creates, SocketsInv, Conns, Phase, Up
    <2>2. ph' = [ph EXCEPT ![id] = "waiting"]
      BY <1>2, <1>6, <2>1 DEF Creates
    <2> QED
      BY <1>6, <2>1, <2>2 DEF Creates, Flow!Open
  <1>7. ASSUME NEW id \in Ids, Destroys(id) PROVE Flow!Close(id)
    <2>1. id \in created'
      BY <1>7 DEF Destroys, SocketsInv, Conns
    <2>2. Phase(id) \in {"waiting", "up"} /\ Phase(id)' = "gone"
      BY <1>7, <2>1 DEF Destroys, Phase, Up
    <2>3. Phase(id) = "up" => Up(id)
      BY DEF Phase, Up
    <2>4. Phase(id) = "up" => Flow!InQueue(id) = {}
      BY <1>4, <1>5, <1>7, <2>3 DEF Destroys
    <2>5. ph' = [ph EXCEPT ![id] = "gone"]
      BY <1>2, <1>7, <2>2 DEF Destroys
    <2> QED
      BY <1>7, <2>2, <2>4, <2>5 DEF Destroys, Lost, Flow!Close
  <1>8. ASSUME NEW id \in Ids, NEW f \in Fates, Sends(id, f) PROVE Flow!Offer(id, f)
    <2>1. ph' = ph
      BY <1>3, <1>8 DEF Sends
    <2>2. CASE Has(id) /\ ~Up(id)
      <3>1. Phase(id) = "waiting" /\ f \in {"queued", "lost"}
        BY <1>8, <2>2 DEF Sends, Phase, Up
      <3> QED
        BY <1>8, <2>1, <3>1 DEF Sends, Flow!Offer
    <2>3. CASE Has(id) /\ Up(id)
      <3>1. Phase(id) = "up" /\ f \in {"relayed", "refused"}
        BY <1>8, <2>3 DEF Sends, Phase, Up
      <3>2. Flow!InQueue(id) = {}
        BY <1>4, <1>5, <1>8, <2>3 DEF Sends
      <3> QED
        BY <1>8, <2>1, <3>1, <3>2 DEF Sends, Flow!Offer
    <2>4. CASE ~Has(id)
      <3>1. Phase(id) \in {"none", "gone"} /\ f = "refused"
        BY <1>8, <2>4 DEF Sends, Phase
      <3> QED
        BY <1>8, <2>1, <3>1 DEF Sends, Flow!Offer
    <2> QED
      BY <2>2, <2>3, <2>4
  <1>9. ASSUME NEW id \in Ids, Establishes(id) PROVE Flow!Establish(id)
    <2>1. Phase(id) = "waiting" /\ Phase(id)' = "up"
      BY <1>9 DEF Establishes, Phase, Up
    <2>2. ph' = [ph EXCEPT ![id] = "up"]
      BY <1>2, <1>9, <2>1 DEF Establishes
    <2> QED
      BY <1>9, <2>1, <2>2 DEF Establishes, Flow!Establish
  <1>10. ASSUME NEW id \in Ids, NEW f \in {"relayed", "lost"}, Drains(id, f)
         PROVE  Flow!Flush(id)
    <2>1. ph' = ph
      BY <1>3, <1>10 DEF Drains
    <2>2. Phase(id) = "up"
      BY <1>10 DEF Drains, Draining, QueueInv, FlowInv, Phase, Up
    <2>3. /\ Queue(id) \in Seq(Nat) /\ fate[id] \in Seq(Fates)
          /\ Holds(Queue(id), fate[id]) /\ InTurn(fate[id]) /\ Queue(id) # <<>>
      BY <1>10, HasState DEF QueueInv, FlowInv, Drains
    <2>4. PICK n : n = Head(Queue(id))
      OBVIOUS
    <2>5. /\ n \in DOMAIN fate[id] /\ fate[id][n] = "queued"
          /\ \A m \in DOMAIN fate[id] : fate[id][m] = "queued" => n <= m
      BY <2>3, <2>4, HeadLeaves DEF Fates
    <2>6. Flow!Earliest(id, n)
      BY <2>5 DEF Flow!Earliest, Flow!InQueue
    <2>7. fate' = [fate EXCEPT ![id][n] = f]
      BY <1>10, <2>4 DEF Drains
    <2> QED
      BY <2>1, <2>2, <2>5, <2>6, <2>7 DEF Flow!Flush
  <1>11. Flow!Fates = Fates
    BY DEF Fates, Flow!Fates
  <1> HIDE DEF ph
  <1> QED
    BY <1>1, <1>6, <1>7, <1>8, <1>9, <1>10, <1>11 DEF FlowStep, EndsDrain, Flow!FlowNext

-----------------------------------------------------------------------------
(* The invariants together.                                                *)
FlowIInv == IInv /\ SocketsInv /\ ConnectInv /\ QueueInv

(* They hold at the start,                                                 *)
LEMMA InitFlow == Init => FlowIInv
  <1> SUFFICES ASSUME Init PROVE FlowIInv
    OBVIOUS
  <1>1. SocketsInv
    BY DEF Init, OverlappedInit, SocketsInv, SocketsOwned, Conns, Has
  <1>2. ConnectInv
    BY DEF Init, ConnectInv, Connects, FreeOv, Has
  <1>3. \A id \in Ids : Queue(id) = <<>> /\ ~Up(id) /\ fate[id] = <<>> /\ ~Draining(id)
    BY DEF Init, Queue, Up, Draining, NoConn
  <1>4. Holds(<<>>, <<>>) /\ InTurn(<<>>)
    BY DEF Holds, InTurn
  <1>5. QueueInv
    BY <1>3, <1>4 DEF QueueInv, FlowInv
  <1> QED
    BY <1>1, <1>2, <1>5, InitIInv DEF FlowIInv

(* and every step preserves them and is one of UdpFlow's.                  *)
LEMMA NextFlow ==
    FlowIInv /\ [Next]_vars => FlowIInv' /\ [Flow!FlowNext]_(Flow!flowVars)
  <1> SUFFICES ASSUME FlowIInv, [Next]_vars
               PROVE  FlowIInv' /\ [Flow!FlowNext]_(Flow!flowVars)
    OBVIOUS
  <1>1. IInv /\ SocketsInv /\ ConnectInv /\ QueueInv
    BY DEF FlowIInv
  <1>2. IInv'
    BY <1>1, NextIInv
  <1>3. SocketsInv' /\ ConnectInv' /\ FlowStep
    BY <1>1, <1>2, NextSockets, NextConnects, StepKinds
  <1>4. QueueInv' /\ [Flow!FlowNext]_(Flow!flowVars)
    BY <1>1, <1>3, StepsKeepQueue, StepsImplement DEF IInv
  <1> QED
    BY <1>2, <1>3, <1>4 DEF FlowIInv

(* So they hold throughout every behaviour.                                *)
LEMMA FlowInvariance == Spec => []FlowIInv
  BY InitFlow, NextFlow, PTL DEF Spec

(* What they say of the queue.                                             *)
LEMMA FlowImplies == FlowIInv => QueueKeepsAll /\ NoOvertaking /\ NothingStranded
  BY QueueInvImplies DEF FlowIInv, IInv

(* Between udpSend on the filter's thread, the worker's loop and the       *)
(* deletion of connections, the queue neither loses nor repeats a          *)
(* datagram, for any number of endpoints and datagrams.                    *)
THEOREM QueueSafe == Spec => []QueueKeepsAll
  BY FlowInvariance, FlowImplies, PTL

(* No datagram overtakes an earlier one of its endpoint.                   *)
THEOREM OrderSafe == Spec => []NoOvertaking
  BY FlowInvariance, FlowImplies, PTL

(* No association that is up has datagrams left in its queue once the      *)
(* worker has released m_cs.                                               *)
THEOREM NotStrandedSafe == Spec => []NothingStranded
  BY FlowInvariance, FlowImplies, PTL

(* UDPProxy implements UdpFlow: every behaviour of sockets, completions    *)
(* and threads is, of each endpoint's datagrams, one that UdpFlow allows.  *)
THEOREM FlowImplemented == Spec => FlowContract
  <1>1. Init => Flow!FlowInit
    <2> SUFFICES ASSUME Init PROVE Flow!FlowInit
      OBVIOUS
    <2>1. \A id \in Ids : Phase(id) = "none"
      BY DEF Init, Phase, Has
    <2> QED
      BY <2>1 DEF Init, Flow!FlowInit
  <1> QED
    BY <1>1, FlowInvariance, NextFlow, PTL DEF Spec, FlowContract, Flow!FlowSpec
=============================================================================
