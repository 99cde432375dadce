------------------------------ MODULE UdpFlow ------------------------------
(***************************************************************************)
(* What UDPProxy promises of the datagrams of one endpoint each, without   *)
(* sockets, completions, dialogue or locks: while the association is being *)
(* set up datagrams are taken into a queue; once it is up the queue leaves *)
(* in order, and a new datagram is decided on only after the queue.  A     *)
(* datagram is relayed, refused or lost at most once, and for good.        *)
(***************************************************************************)
EXTENDS Naturals, Sequences

CONSTANTS Ids              \* the endpoints

VARIABLES phase,           \* "none", "waiting", "up" or "gone"
          fate             \* what became of each datagram, in the order sent

flowVars == <<phase, fate>>

Fates == {"queued", "relayed", "refused", "lost"}

InQueue(id) == {n \in DOMAIN fate[id] : fate[id][n] = "queued"}
Earliest(id, n) == n \in InQueue(id) /\ \A m \in InQueue(id) : n <= m

FlowInit ==
    /\ phase = [id \in Ids |-> "none"]
    /\ fate = [id \in Ids |-> <<>>]

Open(id) ==
    /\ phase[id] = "none"
    /\ phase' = [phase EXCEPT ![id] = "waiting"]
    /\ UNCHANGED fate

(* The next datagram, and what may become of it at once.                   *)
Offer(id, f) ==
    /\ \/ phase[id] = "waiting" /\ f \in {"queued", "lost"}
       \/ phase[id] = "up" /\ InQueue(id) = {} /\ f \in {"relayed", "refused"}
       \/ phase[id] \in {"none", "gone"} /\ f = "refused"
    /\ fate' = [fate EXCEPT ![id] = Append(@, f)]
    /\ UNCHANGED phase

Establish(id) ==
    /\ phase[id] = "waiting"
    /\ phase' = [phase EXCEPT ![id] = "up"]
    /\ UNCHANGED fate

Flush(id) ==
    /\ phase[id] = "up"
    /\ \E n \in DOMAIN fate[id], f \in {"relayed", "lost"} :
         /\ Earliest(id, n)
         /\ fate' = [fate EXCEPT ![id][n] = f]
    /\ UNCHANGED phase

Close(id) ==
    /\ phase[id] \in {"waiting", "up"}
    /\ phase[id] = "up" => InQueue(id) = {}
    /\ phase' = [phase EXCEPT ![id] = "gone"]
    /\ fate' = [fate EXCEPT ![id] =
                  [n \in DOMAIN @ |-> IF @[n] = "queued" THEN "lost" ELSE @[n]]]

FlowNext ==
    \E id \in Ids :
        \/ Open(id)
        \/ \E f \in Fates : Offer(id, f)
        \/ Establish(id)
        \/ Flush(id)
        \/ Close(id)

FlowSpec == FlowInit /\ [][FlowNext]_flowVars
=============================================================================
