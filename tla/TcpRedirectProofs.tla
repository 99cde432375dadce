------------------------- MODULE TcpRedirectProofs -------------------------
(***************************************************************************)
(* Proofs about TcpRedirect, for every number of connections and of chunks *)
(* in each direction, over any number of lives of the plugin.              *)
(***************************************************************************)
EXTENDS TcpRedirect, SequenceTheorems, TLAPS

OneTo(n) == [i \in 1 .. n |-> i]

tcpTypeOK ==
    /\ conn \in [TcpIds -> {"none", "up", "closed"}]
    /\ filtered \in [TcpIds -> BOOLEAN]
    /\ m_connInfoMap \in [TcpIds -> ORIGINAL_CONN_INFO \cup {NoInfo}]
    /\ family \in [TcpIds -> Families]
    /\ appSent \in [TcpIds -> Nat]
    /\ toServer \in [TcpIds -> Seq(Nat)]
    /\ replied \in [TcpIds -> BOOLEAN]
    /\ split \in [TcpIds -> BOOLEAN]
    /\ destSent \in [TcpIds -> Nat]
    /\ toApp \in [TcpIds -> Seq(Nat)]

(* A connection that has not been made has no streams yet, whatever entry  *)
(* an earlier life of the plugin left under its id.                        *)
Blank(id) ==
    /\ toServer[id] = <<>> /\ toApp[id] = <<>>
    /\ appSent[id] = 0 /\ destSent[id] = 0
    /\ ~replied[id] /\ ~split[id]

(* The entry of a connection is its own, and stays until the server has    *)
(* answered; until then the driver indicates all that is sent, and the     *)
(* entry holds it.                                                         *)
EntryInv(id) ==
    /\ Known(id) => m_connInfoMap[id].remoteAddress = family[id]
    /\ family[id] = "v6" => Known(id) /\ filtered[id]
    /\ family[id] = "v4" /\ Known(id) =>
         /\ filtered[id] /\ ~replied[id]
         /\ m_connInfoMap[id].pendedSends = OneTo(appSent[id])
    /\ family[id] = "v4" /\ ~Known(id) =>
         replied[id] /\ Carries(toServer[id], 1, appSent[id])

(* What the server was sent.                                               *)
ServerInv(id) ==
    /\ family[id] = "v6" => toServer[id] = <<>> /\ ~replied[id]
    /\ family[id] = "v4" =>
         /\ toServer[id] # <<>> => toServer[id][1] = REQUEST
         /\ replied[id] => toServer[id] # <<>>
         /\ ~replied[id] => DataAt(toServer[id]) = {}

(* What the application was given: the destination's data, after a piece   *)
(* of the reply, or but for what came in the reply's buffer.               *)
AppInv(id) ==
    family[id] = "v4" =>
      /\ ~replied[id] => toApp[id] = <<>> /\ destSent[id] = 0 /\ ~split[id]
      /\ ~split[id] => toApp[id] = OneTo(destSent[id])
      /\ split[id] => \E k \in {1, 2} : Carries(toApp[id], k, destSent[id]) /\ destSent[id] >= k - 1

ConnInv(id) ==
    /\ conn[id] = "none" => Blank(id)
    /\ conn[id] = "up" => EntryInv(id) /\ AppInv(id)
    /\ conn[id] # "none" => ServerInv(id)

(* The inductive invariant.                                                *)
tcpInv == tcpTypeOK /\ \A id \in TcpIds : ConnInv(id)
-----------------------------------------------------------------------------
(* Streams.                                                                *)

(* A request adds no data to a stream.                                     *)
LEMMA AppendRequest ==
    ASSUME NEW s \in Seq(Nat)
    PROVE  /\ Append(s, REQUEST) \in Seq(Nat) /\ Append(s, REQUEST) # <<>>
           /\ s # <<>> => Append(s, REQUEST)[1] = s[1]
           /\ s = <<>> => Append(s, REQUEST)[1] = REQUEST
           /\ DataAt(s) = {} => DataAt(Append(s, REQUEST)) = {}
  <1> DEFINE r == Append(s, REQUEST)
  <1>1. /\ r \in Seq(Nat) /\ Len(r) = Len(s) + 1 /\ r[Len(s) + 1] = REQUEST
        /\ \A i \in 1 .. Len(s) : r[i] = s[i]
    BY AppendProperties DEF REQUEST
  <1>2. DOMAIN r = 1 .. Len(s) + 1 /\ DOMAIN s = 1 .. Len(s) /\ Len(s) \in Nat
    BY <1>1
  <1> HIDE DEF r
  <1>3. r # <<>> /\ (s # <<>> => r[1] = s[1]) /\ (s = <<>> => r[1] = REQUEST)
    BY <1>1, <1>2, EmptySeq
  <1>4. DataAt(s) = {} => DataAt(r) = {}
    BY <1>1, <1>2 DEF DataAt
  <1> QED
    BY <1>1, <1>3, <1>4 DEF r

(* The next chunk continues a stream.                                      *)
LEMMA AppendChunk ==
    ASSUME NEW s \in Seq(Nat), NEW a \in Nat, NEW b \in Nat, Carries(s, a, b), a <= b + 1
    PROVE  /\ Append(s, b + 1) \in Seq(Nat) /\ Carries(Append(s, b + 1), a, b + 1)
           /\ s # <<>> => Append(s, b + 1)[1] = s[1]
           /\ Append(s, b + 1) # <<>>
  <1> DEFINE r == Append(s, b + 1)
             n == Len(s) + 1
  <1>1. /\ r \in Seq(Nat) /\ Len(r) = n /\ r[n] = b + 1
        /\ \A i \in 1 .. Len(s) : r[i] = s[i]
    BY AppendProperties
  <1>2. DOMAIN r = 1 .. n /\ DOMAIN s = 1 .. Len(s) /\ Len(s) \in Nat
    BY <1>1
  <1>3. DataAt(r) = DataAt(s) \cup {n}
    BY <1>1, <1>2 DEF DataAt, REQUEST
  <1> HIDE DEF r
  <1>4. \A i \in DataAt(s) : i \in 1 .. Len(s) /\ r[i] = s[i] /\ s[i] \in a .. b
    BY <1>1, <1>2 DEF DataAt, Carries
  <1>5. {r[i] : i \in DataAt(r)} = a .. b + 1
    <2>1. {r[i] : i \in DataAt(r)} = {s[i] : i \in DataAt(s)} \cup {b + 1}
      BY <1>1, <1>3, <1>4, SMTT(60)
    <2>2. {s[i] : i \in DataAt(s)} = a .. b
      BY DEF Carries
    <2>3. (a .. b) \cup {b + 1} = a .. b + 1
      OBVIOUS
    <2> QED
      BY <2>1, <2>2, <2>3
  <1>6. \A i, j \in DataAt(r) : i < j => r[i] < r[j]
    <2> SUFFICES ASSUME NEW i \in DataAt(r), NEW j \in DataAt(r), i < j
                 PROVE  r[i] < r[j]
      OBVIOUS
    <2>1. i \in DataAt(s) \/ i = n
      BY <1>3
    <2>2. j \in DataAt(s) \/ j = n
      BY <1>3
    <2>3. CASE i \in DataAt(s) /\ j \in DataAt(s)
      BY <1>4, <2>3 DEF Carries
    <2>4. CASE i \in DataAt(s) /\ j = n
      <3>1. r[j] = b + 1
        BY <1>1, <2>4
      <3>2. r[i] = s[i] /\ s[i] \in a .. b
        BY <1>4, <2>4
      <3>3. r[i] \in Int /\ r[i] <= b
        BY <3>2
      <3> QED
        BY <3>1, <3>3
    <2>5. i # n
      BY <1>2, <1>4, <2>2
    <2> QED
      BY <2>1, <2>2, <2>3, <2>4, <2>5
  <1>7. r # <<>> /\ (s # <<>> => r[1] = s[1])
    BY <1>1, <1>2, EmptySeq
  <1> QED
    BY <1>1, <1>5, <1>6, <1>7 DEF Carries, r

(* Chunks that were kept, all of them, follow requests.                    *)
LEMMA FlushChunks ==
    ASSUME NEW s \in Seq(Nat), NEW n \in Nat, DataAt(s) = {}
    PROVE  /\ OneTo(n) \in Seq(Nat) /\ s \o OneTo(n) \in Seq(Nat)
           /\ Carries(s \o OneTo(n), 1, n)
           /\ s # <<>> => s \o OneTo(n) # <<>> /\ (s \o OneTo(n))[1] = s[1]
  <1> DEFINE o == OneTo(n)
             r == s \o o
             l == Len(s)
  <1>1. o \in Seq(Nat) /\ Len(o) = n /\ \A i \in 1 .. n : o[i] = i
    BY DEF OneTo
  <1> HIDE DEF o
  <1>2. /\ r \in Seq(Nat) /\ Len(r) = l + n /\ l \in Nat
        /\ \A i \in 1 .. l : r[i] = s[i]
        /\ \A i \in 1 .. n : r[l + i] = i
    <2>1. r \in Seq(Nat) /\ Len(r) = l + n /\ l \in Nat
      BY <1>1
    <2>2. \A i \in 1 .. l + n : r[i] = IF i <= l THEN s[i] ELSE o[i - l]
      BY <1>1, <2>1
    <2>3. \A i \in 1 .. n : l + i \in 1 .. l + n /\ (l + i) - l = i /\ ~(l + i <= l)
      BY <2>1
    <2>4. \A i \in 1 .. n : r[l + i] = o[i]
      BY <2>2, <2>3
    <2>5. \A i \in 1 .. l : r[i] = s[i]
      BY <2>1, <2>2
    <2> QED
      BY <1>1, <2>1, <2>4, <2>5
  <1>3. DOMAIN r = 1 .. l + n /\ DOMAIN s = 1 .. l
    BY <1>2
  <1> HIDE DEF r
  <1>4. \A i \in 1 .. l : r[i] = REQUEST
    BY <1>2, <1>3 DEF DataAt
  <1>5. \A i \in l + 1 .. l + n : r[i] = i - l
    <2>1. \A i \in l + 1 .. l + n : i - l \in 1 .. n /\ i = l + (i - l)
      BY <1>2
    <2> QED
      BY <1>2, <2>1
  <1>6. DataAt(r) = l + 1 .. l + n
    BY <1>2, <1>3, <1>4, <1>5 DEF DataAt, REQUEST
  <1>7. {r[i] : i \in DataAt(r)} = 1 .. n
    <2>1. \A k \in 1 .. n : l + k \in DataAt(r) /\ r[l + k] = k
      BY <1>2, <1>6
    <2>2. \A i \in DataAt(r) : r[i] \in 1 .. n
      BY <1>2, <1>5, <1>6
    <2> QED
      BY <2>1, <2>2
  <1>8. \A i, j \in DataAt(r) : i < j => r[i] < r[j]
    BY <1>2, <1>5, <1>6
  <1>9. s # <<>> => r # <<>> /\ r[1] = s[1]
    BY <1>2, <1>3, EmptySeq
  <1> QED
    BY <1>1, <1>2, <1>7, <1>8, <1>9 DEF Carries, r, o

(* The chunks 1, ..., n and the next one.                                  *)
LEMMA OneMore ==
    ASSUME NEW n \in Nat
    PROVE  Append(OneTo(n), n + 1) = OneTo(n + 1) /\ OneTo(0) = <<>>
  <1>1. /\ OneTo(n) \in Seq(Nat) /\ Len(OneTo(n)) = n /\ \A i \in 1 .. n : OneTo(n)[i] = i
        /\ OneTo(n + 1) \in Seq(Nat) /\ Len(OneTo(n + 1)) = n + 1
        /\ \A i \in 1 .. n + 1 : OneTo(n + 1)[i] = i
    BY DEF OneTo
  <1> DEFINE r == Append(OneTo(n), n + 1)
  <1>2. r \in Seq(Nat) /\ Len(r) = n + 1 /\ r[n + 1] = n + 1 /\ \A i \in 1 .. n : r[i] = i
    BY <1>1, AppendProperties
  <1> HIDE DEF r
  <1>3. r = OneTo(n + 1)
    BY <1>1, <1>2, SeqEqual
  <1>4. OneTo(0) = <<>>
    <2>1. OneTo(0) \in Seq(Nat) /\ Len(OneTo(0)) = 0
      BY DEF OneTo
    <2> QED
      BY <2>1, EmptySeq
  <1> QED
    BY <1>3, <1>4 DEF r

(* A stream without data carries none.                                     *)
LEMMA NoData ==
    /\ \A a \in Nat, b \in Nat : b < a => Carries(<<>>, a, b) /\ Carries(<<REPLY>>, a, b)
    /\ <<REPLY>> \in Seq(Nat)
  BY DEF Carries, DataAt, REPLY, REQUEST

(* Appending one item.                                                     *)
LEMMA ConcatOne ==
    ASSUME NEW s \in Seq(Nat), NEW x \in Nat
    PROVE  s \o <<x>> = Append(s, x)
  BY AppendIsConcat
-----------------------------------------------------------------------------
(* A step is about one connection; the others are left alone.              *)
Untouched(id) ==
    /\ conn'[id] = conn[id] /\ filtered'[id] = filtered[id]
    /\ m_connInfoMap'[id] = m_connInfoMap[id] /\ family'[id] = family[id]
    /\ appSent'[id] = appSent[id] /\ toServer'[id] = toServer[id]
    /\ replied'[id] = replied[id] /\ split'[id] = split[id]
    /\ destSent'[id] = destSent[id] /\ toApp'[id] = toApp[id]

Moves(id) == tcpTypeOK' /\ (\A jd \in TcpIds \ {id} : Untouched(jd)) /\ ConnInv(id)'

(* The invariant of a connection that is left alone is kept.               *)
LEMMA UntouchedKeeps ==
    ASSUME NEW id \in TcpIds, ConnInv(id), Untouched(id)
    PROVE  ConnInv(id)'
  BY DEF Untouched, ConnInv, Blank, EntryInv, ServerInv, AppInv, Known

(* Entries: NoInfo is none, and keeps nothing.                             *)
LEMMA Entries ==
    /\ NoInfo.pendedSends = <<>> /\ NoInfo \notin ORIGINAL_CONN_INFO
    /\ \A e \in ORIGINAL_CONN_INFO : e.remoteAddress \in Families /\ e.pendedSends \in Seq(Nat)
    /\ \A e \in ORIGINAL_CONN_INFO, q \in Seq(Nat) :
         LET d == [e EXCEPT !.pendedSends = q]
         IN  /\ d \in ORIGINAL_CONN_INFO
             /\ d.remoteAddress = e.remoteAddress /\ d.pendedSends = q
  BY DEF NoInfo, ORIGINAL_CONN_INFO, Families

(* tcpConnectRequest.                                                      *)
LEMMA ConnectMovesOne ==
    ASSUME tcpInv, NEW id \in TcpIds, NEW f \in Families, tcpConnectRequest(id, f)
    PROVE  Moves(id)
  <1> DEFINE e == [remoteAddress |-> f, pendedSends |-> <<>>]
  <1>1. e \in ORIGINAL_CONN_INFO /\ e.remoteAddress = f /\ e.pendedSends = <<>>
    BY DEF ORIGINAL_CONN_INFO
  <1>2. /\ conn[id] = "none" /\ conn' = [conn EXCEPT ![id] = "up"]
        /\ family' = [family EXCEPT ![id] = f]
        /\ m_connInfoMap' = [m_connInfoMap EXCEPT ![id] = e]
        /\ filtered' = [filtered EXCEPT ![id] = f # "proxy"]
        /\ UNCHANGED <<appSent, toServer, replied, split, destSent, toApp>>
    BY DEF tcpConnectRequest
  <1> HIDE DEF e
  <1>3. tcpTypeOK' /\ \A jd \in TcpIds \ {id} : Untouched(jd)
    BY <1>1, <1>2 DEF tcpInv, tcpTypeOK, Untouched
  <1>4. /\ conn'[id] = "up" /\ family'[id] = f /\ m_connInfoMap'[id] = e
        /\ filtered'[id] = (f # "proxy")
        /\ Blank(id)
    BY <1>2 DEF tcpInv, tcpTypeOK, ConnInv
  <1>5. Known(id)'
    BY <1>1, <1>4, Entries DEF Known
  <1>6. EntryInv(id)'
    BY <1>1, <1>2, <1>4, <1>5, OneMore DEF EntryInv, Blank
  <1>7. ServerInv(id)' /\ AppInv(id)'
    <2>1. DataAt(<<>>) = {} /\ OneTo(0) = <<>>
      BY OneMore DEF DataAt
    <2> QED
      BY <1>2, <1>4, <2>1 DEF ServerInv, AppInv, Blank
  <1> QED
    BY <1>3, <1>4, <1>6, <1>7 DEF Moves, ConnInv

(* tcpClosed.                                                              *)
LEMMA ClosedMovesOne ==
    ASSUME tcpInv, NEW id \in TcpIds, tcpClosed(id)
    PROVE  Moves(id)
  <1>1. tcpTypeOK' /\ \A jd \in TcpIds \ {id} : Untouched(jd)
    BY DEF tcpInv, tcpTypeOK, Untouched, tcpClosed
  <1>2. ServerInv(id) /\ conn'[id] = "closed"
    BY DEF tcpInv, tcpTypeOK, ConnInv, tcpClosed
  <1>3. ServerInv(id)'
    BY <1>2 DEF ServerInv, tcpClosed
  <1> QED
    BY <1>1, <1>2, <1>3 DEF Moves, ConnInv

(* tcpSend, and what the driver sends without asking.                      *)
LEMMA SendMovesOne ==
    ASSUME tcpInv, NEW id \in TcpIds, tcpSend(id)
    PROVE  Moves(id)
  <1> DEFINE s == toServer[id]
             e == m_connInfoMap[id]
             n == appSent[id]
  <1>0. /\ s \in Seq(Nat) /\ n \in Nat /\ e \in ORIGINAL_CONN_INFO \cup {NoInfo}
        /\ conn[id] = "up" /\ EntryInv(id) /\ ServerInv(id) /\ AppInv(id)
    BY DEF tcpInv, tcpTypeOK, ConnInv, tcpSend
  <1>1. /\ appSent' = [appSent EXCEPT ![id] = n + 1]
        /\ UNCHANGED <<conn, filtered, family, replied, split, destSent, toApp>>
    BY DEF tcpSend
  <1>2. appSent'[id] = n + 1 /\ conn'[id] = "up" /\ AppInv(id)'
    BY <1>0, <1>1 DEF tcpInv, tcpTypeOK, AppInv
  <1>3. CASE /\ filtered[id] /\ Known(id) /\ e.remoteAddress = "v6"
             /\ UNCHANGED <<toServer, m_connInfoMap>>
    <2>1. tcpTypeOK' /\ \A jd \in TcpIds \ {id} : Untouched(jd)
      BY <1>0, <1>1, <1>3 DEF tcpInv, tcpTypeOK, Untouched
    <2>2. family[id] = "v6"
      BY <1>0, <1>3 DEF EntryInv
    <2>3. EntryInv(id)' /\ ServerInv(id)'
      BY <1>0, <1>1, <1>3, <2>2 DEF EntryInv, ServerInv, Known
    <2> QED
      BY <1>2, <2>1, <2>3 DEF Moves, ConnInv
  <1>4. CASE /\ filtered[id] /\ Known(id) /\ e.remoteAddress # "v6"
             /\ toServer' = [toServer EXCEPT ![id] = Append(s, REQUEST)]
             /\ m_connInfoMap' = [m_connInfoMap EXCEPT ![id].pendedSends = Append(@, n + 1)]
    <2> DEFINE q == Append(e.pendedSends, n + 1)
               d == [e EXCEPT !.pendedSends = q]
    <2>1. e \in ORIGINAL_CONN_INFO
      BY <1>0, <1>4 DEF Known
    <2>2. q \in Seq(Nat)
      BY <1>0, <2>1, Entries, AppendProperties
    <2>3. d \in ORIGINAL_CONN_INFO /\ d.remoteAddress = e.remoteAddress /\ d.pendedSends = q
      BY <2>1, <2>2, Entries
    <2>4. m_connInfoMap' = [m_connInfoMap EXCEPT ![id] = d]
      BY <1>4 DEF tcpInv, tcpTypeOK
    <2> DEFINE r == Append(s, REQUEST)
    <2>5. r \in Seq(Nat) /\ toServer' = [toServer EXCEPT ![id] = r]
      BY <1>0, <1>4, AppendRequest
    <2> HIDE DEF d, r
    <2>6. tcpTypeOK' /\ \A jd \in TcpIds \ {id} : Untouched(jd)
      BY <1>0, <1>1, <2>3, <2>4, <2>5 DEF tcpInv, tcpTypeOK, Untouched
    <2> USE DEF r
    <2>7. m_connInfoMap'[id] = d /\ toServer'[id] = Append(s, REQUEST) /\ Known(id)'
      BY <1>4, <2>3, <2>4, Entries DEF tcpInv, tcpTypeOK, Known
    <2>8. family[id] = "v4" => q = OneTo(n + 1)
      BY <1>0, <1>4, OneMore DEF EntryInv
    <2>9. EntryInv(id)'
      BY <1>0, <1>1, <1>2, <1>4, <2>3, <2>7, <2>8 DEF EntryInv
    <2>10. ServerInv(id)'
      <3>1. family[id] # "v6"
        BY <1>0, <1>4 DEF EntryInv
      <3> QED
        BY <1>0, <1>1, <2>7, <3>1, AppendRequest DEF ServerInv
    <2> QED
      BY <1>2, <2>6, <2>9, <2>10 DEF Moves, ConnInv
  <1>5. CASE /\ ~(filtered[id] /\ Known(id))
             /\ toServer' = [toServer EXCEPT ![id] = Append(s, n + 1)]
             /\ UNCHANGED m_connInfoMap
    <2>1. Append(s, n + 1) \in Seq(Nat)
      BY <1>0, AppendProperties
    <2>2. tcpTypeOK' /\ \A jd \in TcpIds \ {id} : Untouched(jd)
      BY <1>0, <1>1, <1>5, <2>1 DEF tcpInv, tcpTypeOK, Untouched
    <2>3. toServer'[id] = Append(s, n + 1) /\ (Known(id)' <=> Known(id))
      BY <1>5 DEF tcpInv, tcpTypeOK, Known
    <2>4. CASE family[id] = "v4"
      <3>1. ~Known(id) /\ replied[id] /\ Carries(s, 1, n) /\ s # <<>>
        BY <1>0, <1>5, <2>4 DEF EntryInv, ServerInv
      <3>2. /\ Carries(Append(s, n + 1), 1, n + 1) /\ Append(s, n + 1) # <<>>
            /\ Append(s, n + 1)[1] = s[1]
        BY <1>0, <3>1, AppendChunk
      <3>3. EntryInv(id)' /\ ServerInv(id)'
        BY <1>0, <1>1, <1>2, <2>3, <2>4, <3>1, <3>2 DEF EntryInv, ServerInv
      <3> QED
        BY <1>2, <2>2, <3>3 DEF Moves, ConnInv
    <2>5. CASE family[id] # "v4"
      <3>1. family[id] = "proxy"
        BY <1>0, <1>5, <2>5 DEF EntryInv, tcpInv, tcpTypeOK, Families
      <3>2. EntryInv(id)' /\ ServerInv(id)'
        BY <1>0, <1>1, <1>5, <2>3, <3>1 DEF EntryInv, ServerInv
      <3> QED
        BY <1>2, <2>2, <3>2 DEF Moves, ConnInv
    <2> QED
      BY <2>4, <2>5
  <1> QED
    BY <1>3, <1>4, <1>5 DEF tcpSend
(* A buffer of the server reaches the application, or tcpReceive first.    *)
LEMMA IndicatedMoves ==
    ASSUME tcpInv, NEW id \in TcpIds, NEW data \in Seq(Nat), Indicated(id, data)
    PROVE  /\ filtered' \in [TcpIds -> BOOLEAN]
           /\ m_connInfoMap' \in [TcpIds -> ORIGINAL_CONN_INFO \cup {NoInfo}]
           /\ toServer' \in [TcpIds -> Seq(Nat)] /\ toApp' \in [TcpIds -> Seq(Nat)]
           /\ \A jd \in TcpIds \ {id} :
                /\ filtered'[jd] = filtered[jd] /\ m_connInfoMap'[jd] = m_connInfoMap[jd]
                /\ toServer'[jd] = toServer[jd] /\ toApp'[jd] = toApp[jd]
           /\ \/ /\ filtered[id] /\ Known(id) /\ ~Known(id)'
                 /\ toServer'[id] = toServer[id] \o m_connInfoMap[id].pendedSends
                 /\ toApp'[id] = toApp[id]
              \/ /\ ~(filtered[id] /\ Known(id)) /\ m_connInfoMap'[id] = m_connInfoMap[id]
                 /\ toServer'[id] = toServer[id] /\ toApp'[id] = toApp[id] \o data
  <1> DEFINE e == m_connInfoMap[id]
             s == toServer[id] \o e.pendedSends
             a == toApp[id] \o data
  <1>0. tcpTypeOK
    BY DEF tcpInv
  <1>1. CASE filtered[id] /\ Known(id)
    <2>1. e.pendedSends \in Seq(Nat)
      BY <1>0, <1>1, Entries DEF tcpTypeOK, Known
    <2>2. s \in Seq(Nat)
      BY <1>0, <2>1, ConcatProperties DEF tcpTypeOK
    <2>3. /\ toServer' = [toServer EXCEPT ![id] = s]
          /\ m_connInfoMap' = [m_connInfoMap EXCEPT ![id] = NoInfo]
          /\ UNCHANGED <<filtered, toApp>>
      BY <1>1 DEF Indicated, tcpReceive
    <2> HIDE DEF s
    <2>4. /\ filtered' \in [TcpIds -> BOOLEAN]
          /\ m_connInfoMap' \in [TcpIds -> ORIGINAL_CONN_INFO \cup {NoInfo}]
          /\ toServer' \in [TcpIds -> Seq(Nat)] /\ toApp' \in [TcpIds -> Seq(Nat)]
          /\ \A jd \in TcpIds \ {id} :
               /\ filtered'[jd] = filtered[jd] /\ m_connInfoMap'[jd] = m_connInfoMap[jd]
               /\ toServer'[jd] = toServer[jd] /\ toApp'[jd] = toApp[jd]
          /\ toServer'[id] = s /\ toApp'[id] = toApp[id] /\ m_connInfoMap'[id] = NoInfo
      BY <1>0, <2>2, <2>3 DEF tcpTypeOK
    <2> QED
      BY <1>1, <2>4 DEF Known, s
  <1>2. CASE ~(filtered[id] /\ Known(id))
    <2>1. a \in Seq(Nat)
      BY <1>0, ConcatProperties DEF tcpTypeOK
    <2>2. /\ toApp' = [toApp EXCEPT ![id] = a]
          /\ UNCHANGED <<toServer, m_connInfoMap>>
          /\ filtered' = [filtered EXCEPT ![id] = FALSE] \/ UNCHANGED filtered
      BY <1>2 DEF Indicated, tcpReceive
    <2> HIDE DEF a
    <2>3. /\ filtered' \in [TcpIds -> BOOLEAN]
          /\ m_connInfoMap' \in [TcpIds -> ORIGINAL_CONN_INFO \cup {NoInfo}]
          /\ toServer' \in [TcpIds -> Seq(Nat)] /\ toApp' \in [TcpIds -> Seq(Nat)]
          /\ \A jd \in TcpIds \ {id} :
               /\ filtered'[jd] = filtered[jd] /\ m_connInfoMap'[jd] = m_connInfoMap[jd]
               /\ toServer'[jd] = toServer[jd] /\ toApp'[jd] = toApp[jd]
          /\ toServer'[id] = toServer[id] /\ toApp'[id] = a
          /\ m_connInfoMap'[id] = m_connInfoMap[id]
      BY <1>0, <2>1, <2>2 DEF tcpTypeOK
    <2> QED
      BY <1>2, <2>3 DEF a
  <1> QED
    BY <1>1, <1>2

(* The first buffer, which is taken for the reply.                         *)
LEMMA ReplyMovesOne ==
    ASSUME tcpInv, NEW id \in TcpIds, serverReplies(id)
    PROVE  Moves(id)
  <1> DEFINE s == toServer[id]
             m == destSent[id]
             n == appSent[id]
  <1>0. /\ tcpTypeOK /\ s \in Seq(Nat) /\ m \in Nat /\ n \in Nat
        /\ conn[id] = "up" /\ EntryInv(id) /\ ServerInv(id) /\ AppInv(id)
    BY DEF tcpInv, tcpTypeOK, ConnInv, serverReplies
  <1>1. /\ ~replied[id] /\ s # <<>> /\ s[1] = REQUEST
        /\ replied' = [replied EXCEPT ![id] = TRUE]
        /\ UNCHANGED <<conn, family, appSent>>
    BY DEF serverReplies
  <1>2. PICK data \in Seq(Nat), k \in {1, 2} :
          /\ Indicated(id, data)
          /\ \/ k = 1 /\ UNCHANGED <<destSent, split>>
             \/ /\ k = 2 /\ destSent' = [destSent EXCEPT ![id] = m + 1]
                /\ split' = [split EXCEPT ![id] = TRUE]
    <2>1. <<REPLY>> \in Seq(Nat) /\ <<REPLY, m + 1>> \in Seq(Nat)
      BY <1>0 DEF REPLY
    <2> QED
      BY <2>1 DEF serverReplies
  <1>3. tcpTypeOK' /\ \A jd \in TcpIds \ {id} : Untouched(jd)
    <2>1. /\ filtered' \in [TcpIds -> BOOLEAN]
          /\ m_connInfoMap' \in [TcpIds -> ORIGINAL_CONN_INFO \cup {NoInfo}]
          /\ toServer' \in [TcpIds -> Seq(Nat)] /\ toApp' \in [TcpIds -> Seq(Nat)]
          /\ \A jd \in TcpIds \ {id} :
               /\ filtered'[jd] = filtered[jd] /\ m_connInfoMap'[jd] = m_connInfoMap[jd]
               /\ toServer'[jd] = toServer[jd] /\ toApp'[jd] = toApp[jd]
      BY <1>2, IndicatedMoves
    <2>2. /\ replied' \in [TcpIds -> BOOLEAN] /\ split' \in [TcpIds -> BOOLEAN]
          /\ destSent' \in [TcpIds -> Nat]
          /\ \A jd \in TcpIds \ {id} : /\ replied'[jd] = replied[jd] /\ split'[jd] = split[jd]
                                        /\ destSent'[jd] = destSent[jd]
      <3>1. CASE k = 1
        BY <1>0, <1>1, <1>2, <3>1 DEF tcpTypeOK
      <3>2. CASE k = 2
        <4>1. /\ destSent' = [destSent EXCEPT ![id] = m + 1] /\ m + 1 \in Nat
              /\ split' = [split EXCEPT ![id] = TRUE]
          BY <1>0, <1>2, <3>2
        <4> QED
          BY <1>0, <1>1, <4>1 DEF tcpTypeOK
      <3> QED
        BY <3>1, <3>2
    <2> QED
      BY <1>0, <1>1, <2>1, <2>2 DEF tcpTypeOK, Untouched
  <1>4. replied'[id] /\ conn'[id] = "up" /\ family'[id] = family[id] /\ appSent'[id] = n
    BY <1>0, <1>1 DEF tcpTypeOK
  <1>5. CASE family[id] = "v4"
    <2>1. Known(id) /\ filtered[id] /\ m_connInfoMap[id].pendedSends = OneTo(n)
      BY <1>0, <1>1, <1>5 DEF EntryInv
    <2>2. ~Known(id)' /\ toServer'[id] = s \o OneTo(n) /\ toApp'[id] = toApp[id]
      BY <1>2, <2>1, IndicatedMoves
    <2>3. DataAt(s) = {} /\ toApp[id] = <<>> /\ m = 0 /\ ~split[id]
      BY <1>0, <1>1, <1>5 DEF ServerInv, AppInv
    <2>4. EntryInv(id)' /\ ServerInv(id)'
      <3> DEFINE r == s \o OneTo(n)
      <3>1. Carries(r, 1, n) /\ r # <<>> /\ r[1] = REQUEST
        BY <1>0, <1>1, <2>3, FlushChunks
      <3> HIDE DEF r
      <3>2. toServer'[id] = r
        BY <2>2 DEF r
      <3> QED
        BY <1>4, <1>5, <2>2, <3>1, <3>2 DEF EntryInv, ServerInv
    <2>5. CASE k = 1
      <3>1. destSent'[id] = 0 /\ ~split'[id]
        BY <1>2, <2>3, <2>5
      <3> QED
        BY <1>3, <1>4, <2>2, <2>3, <2>4, <3>1, OneMore DEF Moves, ConnInv, AppInv
    <2>6. CASE k = 2
      <3>1. destSent'[id] = 1 /\ split'[id]
        BY <1>0, <1>2, <2>3, <2>6 DEF tcpTypeOK
      <3>2. Carries(<<>>, 2, 1)
        BY NoData
      <3> QED
        BY <1>3, <1>4, <2>2, <2>3, <2>4, <3>1, <3>2 DEF Moves, ConnInv, AppInv
    <2> QED
      BY <2>5, <2>6
  <1>6. CASE family[id] = "proxy"
    <2>1. ~Known(id)' \/ m_connInfoMap'[id] = m_connInfoMap[id]
      BY <1>2, IndicatedMoves
    <2>2. EntryInv(id)' /\ ServerInv(id)' /\ AppInv(id)'
      BY <1>0, <1>4, <1>6, <2>1 DEF EntryInv, ServerInv, AppInv, Known
    <2> QED
      BY <1>3, <1>4, <2>2 DEF Moves, ConnInv
  <1>7. family[id] # "v6"
    BY <1>0, <1>1 DEF ServerInv
  <1> QED
    BY <1>0, <1>5, <1>6, <1>7 DEF tcpTypeOK, Families

(* A later buffer: the rest of the reply, or data of the destination.      *)
LaterBuffer(id, data) ==
    /\ conn[id] = "up" /\ replied[id]
    /\ Indicated(id, data)
    /\ UNCHANGED <<conn, family, appSent, replied>>

(* It is passed on.                                                        *)
LEMMA LaterMoves ==
    ASSUME tcpInv, NEW id \in TcpIds, NEW data \in Seq(Nat), LaterBuffer(id, data),
           destSent' \in [TcpIds -> Nat], split' \in [TcpIds -> BOOLEAN],
           \A jd \in TcpIds \ {id} : destSent'[jd] = destSent[jd] /\ split'[jd] = split[jd],
           family[id] = "v4" /\ toApp'[id] = toApp[id] \o data =>
             IF split'[id]
             THEN \E k \in {1, 2} : Carries(toApp'[id], k, destSent'[id]) /\ destSent'[id] >= k - 1
             ELSE toApp'[id] = OneTo(destSent'[id])
    PROVE  Moves(id)
  <1>0. /\ tcpTypeOK /\ conn[id] = "up" /\ replied[id]
        /\ EntryInv(id) /\ ServerInv(id) /\ AppInv(id)
        /\ UNCHANGED <<conn, family, appSent, replied>>
    BY DEF tcpInv, ConnInv, LaterBuffer
  <1>1. tcpTypeOK' /\ \A jd \in TcpIds \ {id} : Untouched(jd)
    BY <1>0, IndicatedMoves, ZenonT(60) DEF tcpTypeOK, Untouched, LaterBuffer
  <1>2. CASE family[id] = "v4"
    <2>1. ~Known(id)
      BY <1>0, <1>2 DEF EntryInv
    <2>2. /\ m_connInfoMap'[id] = m_connInfoMap[id] /\ toServer'[id] = toServer[id]
          /\ toApp'[id] = toApp[id] \o data
      BY <2>1, IndicatedMoves DEF LaterBuffer
    <2>3. EntryInv(id)' /\ ServerInv(id)'
      BY <1>0, <1>2, <2>1, <2>2 DEF EntryInv, ServerInv, Known
    <2>4. AppInv(id)'
      BY <1>0, <1>2, <2>2 DEF AppInv
    <2> QED
      BY <1>0, <1>1, <2>3, <2>4 DEF Moves, ConnInv
  <1>3. CASE family[id] = "proxy"
    <2>1. ~Known(id)' \/ m_connInfoMap'[id] = m_connInfoMap[id]
      BY IndicatedMoves DEF LaterBuffer
    <2>2. EntryInv(id)' /\ ServerInv(id)' /\ AppInv(id)'
      BY <1>0, <1>3, <2>1 DEF EntryInv, ServerInv, AppInv, Known
    <2> QED
      BY <1>0, <1>1, <2>2 DEF Moves, ConnInv
  <1>4. family[id] # "v6"
    BY <1>0 DEF ServerInv
  <1> QED
    BY <1>0, <1>2, <1>3, <1>4 DEF tcpTypeOK, Families

(* The second buffer of a reply that came in two.                          *)
LEMMA RestMovesOne ==
    ASSUME tcpInv, NEW id \in TcpIds, serverRest(id)
    PROVE  Moves(id)
  <1>0. tcpTypeOK
    BY DEF tcpInv
  <1>1. /\ LaterBuffer(id, <<REPLY>>) /\ destSent[id] = 0 /\ toApp[id] = <<>>
        /\ split' = [split EXCEPT ![id] = TRUE] /\ UNCHANGED destSent
    BY DEF serverRest, LaterBuffer
  <1>2. <<REPLY>> \in Seq(Nat) /\ <<>> \o <<REPLY>> = <<REPLY>> /\ Carries(<<REPLY>>, 1, 0)
    BY NoData
  <1>3. /\ split' \in [TcpIds -> BOOLEAN] /\ destSent' \in [TcpIds -> Nat] /\ split'[id]
        /\ \A jd \in TcpIds \ {id} : destSent'[jd] = destSent[jd] /\ split'[jd] = split[jd]
    BY <1>0, <1>1 DEF tcpTypeOK
  <1>4. ASSUME toApp'[id] = toApp[id] \o <<REPLY>>
        PROVE  \E k \in {1, 2} : Carries(toApp'[id], k, destSent'[id]) /\ destSent'[id] >= k - 1
    <2>1. toApp'[id] = <<REPLY>> /\ destSent'[id] = 0
      BY <1>1, <1>2, <1>4
    <2> QED
      BY <1>2, <2>1
  <1> QED
    BY <1>1, <1>2, <1>3, <1>4, LaterMoves

(* Data of the destination.                                                *)
LEMMA DestinationMovesOne ==
    ASSUME tcpInv, NEW id \in TcpIds, destinationSends(id)
    PROVE  Moves(id)
  <1> DEFINE m == destSent[id]
             a == toApp[id]
  <1>0. tcpTypeOK /\ m \in Nat /\ a \in Seq(Nat) /\ conn[id] = "up" /\ AppInv(id)
    BY DEF tcpInv, tcpTypeOK, ConnInv, destinationSends
  <1>1. /\ LaterBuffer(id, <<m + 1>>)
        /\ destSent' = [destSent EXCEPT ![id] = m + 1] /\ UNCHANGED split
    BY DEF destinationSends, LaterBuffer
  <1>2. /\ split' \in [TcpIds -> BOOLEAN] /\ destSent' \in [TcpIds -> Nat]
        /\ destSent'[id] = m + 1 /\ split'[id] = split[id]
        /\ \A jd \in TcpIds \ {id} : destSent'[jd] = destSent[jd] /\ split'[jd] = split[jd]
        /\ <<m + 1>> \in Seq(Nat)
    BY <1>0, <1>1 DEF tcpTypeOK
  <1>3. a \o <<m + 1>> = Append(a, m + 1)
    BY <1>0, ConcatOne
  <1>4. ASSUME family[id] = "v4", ~split[id] PROVE Append(a, m + 1) = OneTo(m + 1)
    BY <1>0, <1>4, OneMore DEF AppInv
  <1>5. ASSUME family[id] = "v4", split[id]
        PROVE  \E k \in {1, 2} : Carries(Append(a, m + 1), k, m + 1) /\ m + 1 >= k - 1
    <2>1. PICK k \in {1, 2} : Carries(a, k, m) /\ m >= k - 1
      BY <1>0, <1>5 DEF AppInv
    <2> QED
      BY <1>0, <2>1, AppendChunk
  <1> QED
    BY <1>1, <1>2, <1>3, <1>4, <1>5, LaterMoves, ZenonT(60)
-----------------------------------------------------------------------------
(* A connection that has not been made satisfies the invariant.            *)
LEMMA AllFresh ==
    ASSUME conn = Fresh("none"), filtered = Fresh(FALSE), family = Fresh("v4"),
           appSent = Fresh(0), toServer = Fresh(<<>>), replied = Fresh(FALSE),
           split = Fresh(FALSE), destSent = Fresh(0), toApp = Fresh(<<>>),
           m_connInfoMap \in [TcpIds -> ORIGINAL_CONN_INFO \cup {NoInfo}]
    PROVE  tcpInv
  <1>1. tcpTypeOK
    BY DEF tcpTypeOK, Fresh, Families
  <1>2. \A id \in TcpIds : ConnInv(id)
    BY DEF ConnInv, Blank, Fresh
  <1> QED
    BY <1>1, <1>2 DEF tcpInv

(* The invariant holds initially,                                          *)
LEMMA InitTcp == tcpInit => tcpInv
  <1>1. tcpInit => m_connInfoMap \in [TcpIds -> ORIGINAL_CONN_INFO \cup {NoInfo}]
    BY DEF tcpInit, Fresh
  <1> QED
    BY <1>1, AllFresh DEF tcpInit

(* and every step preserves it.                                            *)
LEMMA NextTcp == tcpInv /\ [tcpNext]_tcpVars => tcpInv'
  <1> SUFFICES ASSUME tcpInv, [tcpNext]_tcpVars PROVE tcpInv'
    OBVIOUS
  <1>1. ASSUME NEW id \in TcpIds, Moves(id) PROVE tcpInv'
    BY <1>1, UntouchedKeeps DEF Moves, tcpInv
  <1>2. CASE UNCHANGED tcpVars
    <2>1. tcpTypeOK' /\ \A id \in TcpIds : Untouched(id)
      BY <1>2 DEF tcpVars, Untouched, tcpInv, tcpTypeOK
    <2> QED
      BY <2>1, UntouchedKeeps DEF tcpInv
  <1>3. CASE Restart
    <2>1. tcpTypeOK'
      BY <1>3 DEF Restart, tcpInv, tcpTypeOK, Fresh, Families
    <2>2. \A id \in TcpIds : ConnInv(id)'
      BY <1>3 DEF Restart, ConnInv, Blank, Fresh
    <2> QED
      BY <2>1, <2>2 DEF tcpInv
  <1> QED
    BY <1>1, <1>2, <1>3, ConnectMovesOne, SendMovesOne, ClosedMovesOne, ReplyMovesOne,
       RestMovesOne, DestinationMovesOne DEF tcpNext

(* So it is an invariant.                                                  *)
LEMMA TcpInvariance == tcpSpec => []tcpInv
  BY InitTcp, NextTcp, PTL DEF tcpSpec

(* However tcpSend, the reply and the end of the filtering interleave, the *)
(* server is sent the chunks of a redirected connection in order and once, *)
(* and m_connInfoMap holds the ones it was not sent; what an earlier life  *)
(* left in the map never mixes in.                                         *)
THEOREM PayloadSafe == tcpSpec => []PayloadInOrder
  <1>1. ASSUME tcpInv PROVE PayloadInOrder
    <2> SUFFICES ASSUME NEW id \in TcpIds, Redirected(id)
                 PROVE  \E k \in 0 .. appSent[id] :
                          /\ Carries(toServer[id], 1, k)
                          /\ m_connInfoMap[id].pendedSends = [i \in 1 .. appSent[id] - k |-> k + i]
      BY DEF PayloadInOrder
    <2> DEFINE n == appSent[id]
    <2>1. n \in Nat /\ family[id] = "v4" /\ EntryInv(id) /\ ServerInv(id) /\ toServer[id] \in Seq(Nat)
      BY <1>1 DEF tcpInv, tcpTypeOK, ConnInv, Redirected
    <2>2. CASE Known(id)
      <3>1. m_connInfoMap[id].pendedSends = OneTo(n) /\ DataAt(toServer[id]) = {}
        BY <2>1, <2>2 DEF EntryInv, ServerInv
      <3>2. Carries(toServer[id], 1, 0)
        BY <3>1 DEF Carries
      <3>3. OneTo(n) = [i \in 1 .. n - 0 |-> 0 + i]
        BY <2>1 DEF OneTo
      <3> QED
        BY <2>1, <3>1, <3>2, <3>3
    <2>3. CASE ~Known(id)
      <3>1. Carries(toServer[id], 1, n) /\ m_connInfoMap[id].pendedSends = <<>>
        BY <2>1, <2>3, Entries DEF EntryInv, Known
      <3>2. [i \in 1 .. n - n |-> n + i] = <<>>
        BY <2>1
      <3> QED
        BY <2>1, <3>1, <3>2
    <2> QED
      BY <2>2, <2>3
  <1> QED
    BY <1>1, TcpInvariance, PTL

(* The server is told the destination first, and is sent data only after   *)
(* it has answered; nothing is ever sent for an IPv6 destination.          *)
THEOREM RequestFirst == tcpSpec => []DataAfterReply
  <1>1. ASSUME tcpInv PROVE DataAfterReply
    <2> SUFFICES ASSUME NEW id \in TcpIds, family[id] # "proxy", toServer[id] # <<>>
                 PROVE  /\ family[id] = "v4" /\ toServer[id][1] = REQUEST
                        /\ ~replied[id] => DataAt(toServer[id]) = {}
      BY DEF DataAfterReply
    <2>1. ServerInv(id) /\ family[id] \in Families
      BY <1>1 DEF tcpInv, tcpTypeOK, ConnInv, Blank
    <2> QED
      BY <2>1 DEF ServerInv, Families
  <1> QED
    BY <1>1, TcpInvariance, PTL

(* The application is given the destination's data and nothing of a reply  *)
(* that comes in one buffer; of one that does not, at most the data in the *)
(* reply's own buffer is missing.                                          *)
THEOREM ReplySafe == tcpSpec => []ReplyIsHidden
  <1>1. tcpInv => ReplyIsHidden
    BY DEF tcpInv, ConnInv, AppInv, ReplyIsHidden, Redirected, OneTo
  <1> QED
    BY <1>1, TcpInvariance, PTL
=============================================================================
