----------------------------- MODULE Overlapped -----------------------------
(***************************************************************************)
(* The part of Windows the UDP proxy stands on: sockets, overlapped        *)
(* operations and the completion port behind IOCPService (netfilter/iocp.h *)
(* and the Winsock calls of netfilter/UDPProxy.cpp).  An overlapped        *)
(* operation is named by the address of its OVERLAPPED, the first member   *)
(* of an OV_DATA.  Completions are taken from the port in any order, which *)
(* includes the order of the real port.                                    *)
(***************************************************************************)
EXTENDS Integers, FiniteSets

CONSTANTS Ovs,             \* addresses an OV_DATA can be allocated at
          Handles,         \* values a SOCKET can take
          INVALID_SOCKET,
          Faults           \* what may go wrong, a subset of FaultKinds

(* "socket": WSASocket, registerSocket or ConnectEx fails at once;         *)
(* "connect": the TCP connection is refused;  "io": WSASend, WSASendTo,    *)
(* WSARecv or WSARecvFrom fails at once;  "post": so does the              *)
(* PostQueuedCompletionStatus of the error path;  "close": the proxy       *)
(* closes the control connection, or a UDP receive completes with no       *)
(* bytes;  "reply": the proxy refuses, or answers malformed or truncated.  *)
FaultKinds == {"socket", "connect", "io", "post", "close", "reply"}

ASSUME OverlappedAssumption ==
    /\ Ovs \subseteq Nat \ {0}
    /\ INVALID_SOCKET \notin Handles
    /\ Faults \subseteq FaultKinds

VARIABLES open,            \* the SOCKET values that are open
          io               \* what the kernel knows of each OVERLAPPED

(* The bytes a completed operation brings, as far as its handler can tell  *)
(* them apart: replies to the three SOCKS5 requests, and UDP datagrams.    *)
MethodReplies == {"noauth", "unpw", "nomethod"}
AuthReplies   == {"authok", "authbad"}
AssocReplies  == {"v4", "v6", "cut", "denied"}
TcpReplies    == MethodReplies \cup AuthReplies \cup AssocReplies \cup {"short"}
UdpReplies    == {"data", "runt", "short"}
Results       == TcpReplies \cup UdpReplies \cup {"none", "ok", "fail"}

IoState == [st : {"idle", "pending", "queued"},
            sock : Handles \cup {INVALID_SOCKET},
            res : Results]

Idle          == [st |-> "idle", sock |-> INVALID_SOCKET, res |-> "none"]
Pending(h)    == [st |-> "pending", sock |-> h, res |-> "none"]
Queued(h, r)  == [st |-> "queued", sock |-> h, res |-> r]

(* Starting an operation has one of three outcomes.  "pending": the kernel *)
(* owns the OVERLAPPED.  "posted": the call failed and the code posted a   *)
(* completion of no bytes for it.  "dropped": that failed as well.         *)
FailOutcomes == {"posted"} \cup (IF "post" \in Faults THEN {"dropped"} ELSE {})

Outcomes(h) ==
    (IF h \in open THEN {"pending"} ELSE {})
      \cup (IF h \notin open \/ "io" \in Faults THEN FailOutcomes ELSE {})

Started(out, h) ==
    CASE out = "pending" -> Pending(h)
      [] out = "posted"  -> Queued(h, "fail")
      [] OTHER           -> Idle

(* A send's completion may be taken from the port at any later time and    *)
(* its handlers look at nothing in it, so it is queued from the start.     *)
SendStarted(out, h) == IF out = "pending" THEN Queued(h, "ok") ELSE Started(out, h)

(* closesocket: what is pending on the handles completes with no bytes.    *)
Aborted(hs) ==
    [o \in Ovs |-> IF io[o].st = "pending" /\ io[o].sock \in hs
                   THEN Queued(io[o].sock, "fail")
                   ELSE io[o]]

(* The values WSASocket may return: one that was closed a moment ago is    *)
(* free again, even if an OV_DATA or the worker still remembers it.        *)
NewHandles == Handles \ open

(* The kernel finishes the operation of OVERLAPPED o with result r.        *)
Complete(o, r) ==
    /\ io[o].st = "pending"
    /\ io' = [io EXCEPT ![o] = Queued(io[o].sock, r)]

OverlappedInit == open = {} /\ io = [o \in Ovs |-> Idle]

OverlappedTypeOK == open \subseteq Handles /\ io \in [Ovs -> IoState]
=============================================================================
