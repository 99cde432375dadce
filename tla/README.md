# A TLA+ model of QvPlugin-Netfilter

QvPlugin-Netfilter makes Qv2ray a transparent proxy on Windows. A packet filter
driver (the NetFilter SDK) indicates the TCP connections and UDP datagrams of all
processes; the plugin redirects them to Qv2ray's SOCKS inbound on 127.0.0.1. This
directory models the plugin's own logic, checks it with TLC on small instances and
proves its safety with TLAPS for every instance.

## The system

| component | state | operations | talks to |
|---|---|---|---|
| `NetFilterCore` (`SocksRedirector.cpp`) | the driver's rule list | `Start`, `Stop` | `EventHandler`, the driver |
| `EventHandler`, TCP half (`NFEventHandler.cpp`) | `m_connInfoMap`: original destination and kept data of a connection | `tcpConnectRequest`, `tcpSend`, `tcpReceive`, `tcpClosed` | called by the filter thread; speaks SOCKS4 inside the redirected stream |
| `EventHandler`, UDP half | `m_udpCtxMap`, `lock` | `udpCreated`, `udpSend`, `udpClosed` (filter thread), `onUdpReceiveComplete` (worker thread) | `UDPProxy` |
| `UDPProxy` (`UDPProxy.cpp`, `UdpProxy.h`) | `m_socketMap` (id to `PROXY_DATA`: two sockets, `proxyState`, `udpSendPackets`, `udpRecvStarted`), `m_ovDataSet`, `m_cs` | `createProxyConnection`, `deleteProxyConnection`, `udpSend` (filter thread); one completion handler per `OV_TYPE` (worker thread) | Winsock, the completion port, the SOCKS5 server |
| `IOCPService` (`iocp.h`) | the completion port, the worker thread | `init`, `free`, `registerSocket`, `postCompletion`, `workerThread` | `UDPProxy::onComplete` |
| `ThreadPool` (`threadpool.h`, `sync.h`) | thread handles, a stop event, a job event | `init`, `free`, `jobAvailable`, `threadProc` | a `ThreadJobSource`; in the repository no one uses it |
| `UTF-8.h` | none | `encodeUTF8`, `decodeUTF8` | no one uses it |
| plugin glue (`NetfilterPlugin`, `core/`, `ui/`) | the settings | `ProcessEvent`: Connected starts, Disconnecting stops | `NetFilterCore` |

Three threads matter. The *Qt thread* runs `Start` and `Stop`. The *filter thread* (one: `nf_setOptions` is never called, and its
documented default is one thread) calls the event handler. The *worker thread* takes
completions from the port and runs `UDPProxy`'s handlers, which call back into the
event handler. They share `m_socketMap` and `m_ovDataSet` under `m_cs`, and
`m_udpCtxMap` under `lock`.

What is hard here, and what each part has to get right:

* **Ownership of `OV_DATA`.** A heap object is lent to the kernel for each operation
  and comes back through the port. When an operation cannot be started the code
  relabels the object and posts a completion for it by hand, and deletes it if that
  fails as well. No object may be freed while lent, lent twice, or lost
  (`OvOwnership`, `Reclaimed`).
* **Work after the lock.** A handler releases `m_cs` and then re-arms its receive with
  the `SOCKET` value it was called with; the connection may be gone
  and the value given to another one (`StrayIsForgotten`, `SocketsOwned`, `OneReceiver`).
* **The queue.** Datagrams sent before the association is up are queued; the worker
  empties the queue while the filter thread goes on sending (`QueueKeepsAll`,
  `NoOvertaking`, `NothingStranded`, `NothingQueuedForever`, and all of it at once in
  `FlowContract`).
* **The SOCKS5 dialogue**, whose answers carry no tag of the request they belong to
  (`SocksDialogue`).
* **Two locks** taken in two threads, and callbacks (`CallsReturn`,
  `NoReceiveAfterClose`, `ClosedLeavesNothing`, `DirectAfterQueue`, `ProxyContract`).
* **The TCP redirection** buffers the application's data until a reply comes, which may
  be cut or run into the data behind it, and keeps its map when the plugin is stopped
  and started again (`PayloadInOrder`, `DataAfterReply`, `ReplyIsHidden`,
  `PendedIsPosted`, `RequestOnce`).
* **Stopping.** `Stop` frees the UDP proxy while the filter thread still calls it,
  deletes what the kernel is using, and waits for the worker (`WorkerHasMemory`,
  `StoppedIsClean`, `StopReturns`).
* **The rules** are installed while the driver already filters
  (`ExemptNeverRedirected`, `RedirectsTheRest`, `ProxyAll`).

* **The thread pool** signals jobs with an event that does not count, and stops its
  threads with another one (`NoLostWakeup`, `FreeWaits`, `StopDrains`, `FreeReturns`,
  `JobsServed`).
* **The UTF-8 decoder** has to find the next character behind any malformed bytes
  (`EncodesWellFormed`, `RoundTrip`, `DecodesByPattern`, `Resynchronises`).

`PROJECT.json` lists the hazards line by line, with the properties that cover each.

## The modules

    Overlapped       sockets, overlapped operations, completion port (external)
      UDPProxy       the UDP associate client; EXTENDS Overlapped
        UdpFlow           what it promises of an endpoint's datagrams; refined by UDPProxy
        UdpEventHandler   the UDP half of EventHandler; EXTENDS UDPProxy
          Lifecycle         Start and Stop beside it; EXTENDS UdpEventHandler
        UDPProxyProofs    types, ownership and sockets, proved
          UDPFlowProofs     the queue and the refinement of UdpFlow, proved
            UDPDialogueProofs   the receives and the SOCKS5 dialogue, proved
              EventHandlerProofs  the handler's safety and contract, and the
                                  safety of Start and Stop, proved
    TcpRedirect      the TCP half of EventHandler
      TcpRedirectProofs  its safety, proved
    FilterRules      the rules NetFilterCore::Start installs
      FilterRulesProofs  their effect, proved
    ThreadPool       the thread pool
      ThreadPoolProofs  its safety, proved
    Utf8             the two conversions
      Utf8Proofs        both conversions, proved
    MC*              instances of the above for TLC

### Overlapped

`io[o]` is what the kernel knows of the `OVERLAPPED` at address `o`: idle, pending, or
with a completion queued. `open` are the open `SOCKET` values. Starting an operation
has three outcomes: *pending*; *posted*, when the call failed and the code posted a
completion of no bytes; *dropped*, when that failed too. `closesocket` completes what
is pending on the socket with no bytes. Completions leave the port in any order. A
send's handler looks at nothing in the completion, so a send that was started is
queued at once. `Faults` says which failures may happen. A `SOCKET` value is free to be
given out again as soon as it is closed, whoever still remembers it.

### UDPProxy

One action per call of the filter thread and per completion handler. `m_cs` is a
recursive critical section; a handler's section that is one step of the code's
protection is one action, and the loop that empties the queue, which holds `m_cs`
through calls of `udpSend`, is a sequence of actions with `m_cs = "worker"`. What a
handler does after releasing `m_cs` (the re-arm, the callback) is a separate action
with `pc` saying where the worker is and `cur` what it holds, so that the filter
thread may run in between. `createProxyConnection` is one action although it takes
`m_cs` twice: no completion can name the new connection before its `ConnectEx`, which
is its last step.

| model | code |
|---|---|
| `ov[o]` (`FreeOv` if not allocated) | the `OV_DATA` at address `o`: `id` and `type` |
| `m_socketMap[id]` (`NoConn` if absent) | the `PROXY_DATA`; `remoteAddress` is abstracted to the kind of answer it came from |
| `udpSendPackets` | the queue; a datagram is its number in the order the endpoint sent it |
| `pc`, `cur` | the worker's position and the completion it handles |
| `fate`, `wire`, `replies`, `created` | history variables |

Bytes are abstracted to what a handler's conditions tell apart: method answers
(no authentication, user/password, refused), authentication answers, association
answers (IPv4, IPv6, truncated, denied), too short ones; datagrams with data, too
short, or a *runt* that passes the length check and is shorter than its header.

### UdpFlow

The abstract specification: an endpoint is in one of the phases none, waiting, up and
gone, and each datagram it sent has a fate. While waiting a datagram is queued (or lost, if it
is empty); once up, the queue leaves from its head, and a new datagram is relayed or
refused only when the queue is empty; before and after, it is refused. The end of an
association loses what is queued. There are no sockets, completions, locks or answers.
`Phase(id)` in `UDPProxy` is the refinement mapping: presence in `m_socketMap`,
`PS_CONNECTED`, and the history `created`; `fate` is the same in both.

### UdpEventHandler

Adds the filter thread (`fpc`, `fid`), `lock` and `m_udpCtxMap`. `udpSend` is split
where it releases a lock: look-up, creation (with `lock` held), `UDPProxy::udpSend`,
and the direct `nf_udpPostSend` after a refusal. `udpClosed` is split between the
deletion of the connection and of the context. `endpoint` is the driver's view: after
`udpCreated` come any number of `udpSend`, then one `udpClosed`.

### Lifecycle

Adds the Qt thread. `Connected` and `Disconnecting` alternate, which is the host's
part; `ProcessEvent` ignores what `Start` returns, so that `Stop` follows a failed
`Start` too. `Start` can fail in five ways (`StartFaultKinds`): the proxy's address is not
understood, `initExtensions` fails, there is no completion port, no worker thread, or
`nf_init` fails. The port and the thread are failures the code does not notice:
`CreateIoCompletionPort` returns NULL where the code looks for `INVALID_HANDLE_VALUE`, so
that a worker runs without a port, and its first `GetQueuedCompletionStatus` fails and is
followed by `onComplete` without an `OVERLAPPED` (`workerHasNoPort`, which ends the
process: `crashed`). `qpc` is where the Qt thread is: `init`, `nf_init`, then the steps of
`EventHandler::free` (stop event, join, `OV_DATA`, connections, contexts) and
`nf_free`. None of these takes `m_cs`, and `createProxyConnection` registers its
sockets without it, so here it is three actions (`createSockets`, `createRegister`,
`createConnect`) instead of the one of `UDPProxy`: `free` can come between any two.
When a socket cannot be registered, or the connection has gone meanwhile, the
connection is taken out again and the call fails (`createUndone`).
`polled` says whether the worker has looked at `m_stopEvent` since its last handler;
`threadless` remembers that a worker thread could not be started.

Assumed of the library, which is external: after `nf_free` no event is indicated, and
it returns when the filter thread has returned from the last one. Each loop of `free`
is one step: what a data race on a `std::set` or `std::map` does is undefined and is
not followed, nor is the kernel's writing to an `OV_DATA` that `free` has deleted while
its operation is pending. `startConnect` (in `createConnect`) and `UDPProxy::udpSend` are
one step each as well, so that `free` deleting an `OV_DATA` or `PROXY_DATA` which the filter
thread is using *inside* one of them is not shown; the properties are about what the worker
meets and what is left behind. Completions of operations whose `OV_DATA` was deleted are
followed: they are in the old port, and go with it. After the port is closed `postCompletion` fails in the code;
in the model it fails as the fault "post" says, and what it posts is dropped by the
next `init`.

### TcpRedirect

All callbacks come from one thread and are atomic. `toServer` and `toApp` record the
two streams; `filtered` says whether the driver still indicates the data. The server
may send its reply in a buffer of its own, in two, or in one with the destination's
first data; `split` remembers which. `Restart` is a Stop and a Start of the plugin:
the connections end without `tcpClosed`, their ids are used again, and
`m_connInfoMap`, which belongs to the one `EventHandler` there is and is cleared by
nothing, keeps its entries.

### FilterRules

`Start` as a sequence of `nf_addRule` steps, since flows are judged while it runs. The
driver, external, takes the first rule that matches, lets a flow pass that none
matches, and treats a zero field as a wildcard, which the code relies on throughout. A
process name is a *tail mask* (`nfdriver.h`): `TailMask` matches every path that ends in
it, `*` standing for anything. Names are sequences of pieces, cut where some mask begins
or has its `*`; case and the limit of `MAX_PATH` are left out. `UserRule` keeps the cut
of the settings' ints to unsigned shorts.
The rules are loaded once, with the plugin.

### ThreadPool

The owner's thread calls `init`, `free` and the destructor, any thread adds a job and
calls `jobAvailable`, and each pool thread runs `threadProc`, one action per wait and
per turn. A set `m_jobAvailableEvent` is consumed by one waiter. Both events set,
`WaitForMultipleObjects` returns the job event, which comes first in the array.
`initThread` may fail to start a thread. `due` are the jobs signalled when `free` was
called. The job source is external; its `execute` takes jobs until there are none,
since neither the event nor the interface tells how many there are.

### Utf8

One action per turn of the loops, on numbers. The decoder's index, its look-ahead,
the terminating NUL it may read and the truncation to 16 bits are kept. `WellFormed`,
`Payload` and `Scalar` are the reference definition, written from the standard's
layout and not from the code.

## The runs

| run | shows | bounds |
|---|---|---|
| `proxy_faults` | types, ownership, sockets, dialogue, queue, one receive at a time, under every fault; `UDPProxy` implements `UdpFlow` (`FlowContract`, a refinement) | 1 endpoint, 7 `OV_DATA`, 2 datagrams (the second of length 0) |
| `proxy_queue` | a queue is emptied if the proxy answers (liveness); the association goes on hearing | 1 endpoint, 8 `OV_DATA`, 3 datagrams, no faults |
| `handler_faults` | the handler's properties under every fault; the handler implements what `UDPProxy` expects of its client (`ProxyContract`, a refinement) | 1 endpoint, 7 `OV_DATA`, 2 datagrams |
| `handler_two` | closing one endpoint beside another; `SOCKET` values reused at once: what a late re-arm takes from the other endpoint goes to nobody | 2 endpoints, 6 `OV_DATA`, 4 sockets, 1 datagram each |
| `handler_live` | calls return, and all `OV_DATA` of a deleted connection are freed, under every fault (liveness) | 1 endpoint, 6 `OV_DATA`, 1 datagram |
| `lifecycle` | `Start` and `Stop` repeated, with the five failures of `Start`: no deleted memory in the hands of a worker that has a port, nothing left behind, `Stop` returns (liveness) | 1 endpoint, 9 `OV_DATA`, 2 sockets, 2 datagrams per life, no I/O faults |
| `tcp` | order of the data in both directions with replies cut or joined and over restarts; the reply is hidden, and releases the kept data (liveness) | 2 connections, 3 chunks each way |
| `tcp_request` | violated: more than one SOCKS4 request | 1 connection, 2 chunks |
| `thread_pool` | no signalled job is forgotten; `free` does the jobs signalled before it, waits for every thread and returns (liveness) | 2 threads, 3 jobs; `init` with -1 and 2, a system reporting 0 processors |
| `utf8` | the encoder against the reference, its inverse, the decoder on arbitrary bytes | texts of up to 3 of the 12 code units at the boundaries; all strings of up to 5 bytes of 8 kinds |
| `rules` | the rule list | 674 lists: 96 single rules (ports -1 to 65536, masks with and without `*`), all pairs of 24, the default rules and none; 112 flows |
| `rules_all` | violated: IPv6 is not proxied | the same |

*Why the bounds are enough.* Endpoints interact only through `m_cs`, the worker and
reused `SOCKET` values, so two show every pairwise effect; four sockets let two
connections exist, and with one closed force reuse. The liveness runs have one endpoint:
that a stray receive on a reused `SOCKET` value starves another association is outside
them. Of datagrams, two give a queue
that a third step can overtake; `proxy_queue` has three. `Ovs` is bounded because
`new` is not: a connection needs at most a TCP receive, a TCP send, a UDP receive and
one send per datagram at a time, plus completions not yet taken. When every address is
taken an allocating step waits for a completion to be handled, and `Room` keeps the
worker from starting on a queue it has no addresses for; these are bounds of the
model, not of the code. `MaxDgrams` and `MaxChunks` bound what is sent. In `lifecycle`
nothing bounds the number of lives: the state after a `Stop` is one of a few, so the
run covers all of them; nine `OV_DATA` leave room for those that a datagram sent during
`free` leaves until the next `Stop`. Two threads
and three jobs give a signal that falls on one already set, a thread going to wait
while another works, and a job signalled after `free` was called. Three code units
put every form of the encoder next to every other, and five bytes hold the longest
sequence the decoder looks at with one byte missing or broken, and the character
behind it.

`tcp`, `tcp_request`, `thread_pool` and `utf8` have no deadlock check: all connections
may end, the pool may be destroyed, and a conversion ends.

The symmetry sets permute endpoints and sockets, in runs without liveness only.

*Fairness.* The worker keeps taking completions (`workerThread` loops until stopped)
and finishes each handler: weak fairness of `Handle(o)` and `Resume`. Weak fairness of
each `Handle(o)` says that a queued completion is taken in the end, which a port that
is first-in first-out gives. A connection attempt ends, and the proxy answers a
request: `connected`, `answered`. In the handler, a call that was begun goes on when
its lock is free (`ehCall`). Nothing is assumed of the applications, of faults or of
incoming datagrams. `tcp` assumes that the SOCKS server answers. `thread_pool` assumes
that each thread goes on with what it has begun; that there are finitely many jobs is
what makes `FreeReturns` true, since a thread that has jobs does not look at the stop
event.
`lifecycle` assumes that each thread goes on with what it has begun and that an idle
worker times out. That `Stop` gets the handler's `lock` rests on each endpoint sending
finitely many datagrams meanwhile: a `std::mutex` need not be fair.

## What the checks found

* `tcpSend` posts a SOCKS4 request with *every* chunk sent before the reply
  (`tcp_request`): the comment says "Send the request first".
* `inet_pton(AF_INET, "::ffff:127.0.0.1", ...)` fails, so the rule allows all IPv6
  traffic ahead of "Proxy All" (`rules_all`).
* A port of a configured rule is an int that nothing checks before it becomes an
  unsigned short: 65536 becomes zero, which is "any". Which ports such a rule lets pass is
  not what it says; that it is still bound to the processes and the protocol it names, and
  disturbs no other rule, is checked and proved (`Rest`, `Fits`).
* A process name is a tail mask: the default rule for "v2ray.exe" lets every process pass
  whose path ends in it, "qv2ray.exe" among them. `Names` takes the rule at that meaning.
* `CreateIoCompletionPort` fails with NULL and `IOCPService::init` compares with
  `INVALID_HANDLE_VALUE`: `Start` succeeds, and the worker crashes at its first turn.
  `WorkerHasMemory` and `StopReturns` have to make an exception of it.
* The re-arm after `m_cs` uses a remembered `SOCKET` value: if the connection was closed
  and the value given to a new one, the receive is on the new connection's socket and
  takes a datagram or an answer from it, which is lost. `StrayIsForgotten` says that it
  goes no further: it is posted to no application and read in no dialogue.
* After a worker thread could not be started `IOCPService::free` returns early, the port
  stays open and every later `Start` fails: `StoppedIsClean` has to exclude those lives.
* Between `UDPProxy::free` and `nf_free` the filter thread still runs. A new endpoint's
  datagrams are dropped, because registering with the closed port fails, and those of an
  endpoint that was there before are refused and go to their destination directly.
* Holding only under a condition: `ReplyIsHidden` gives the
  application exactly the destination's data only if the reply has a buffer of its own
  (otherwise it may see a piece of the reply, or miss the data in the reply's buffer,
  and no more than that); `NothingQueuedForever` needs a proxy that answers, because a
  refused or broken dialogue is never given up; `JobsServed` needs a thread, and
  `ThreadPool::init` returns true also if it could start none.
* The decoder takes overlong forms and encoded surrogates for characters, and turns
  every character outside the basic plane into a replacement character
  (`DecodesByPattern` says exactly which).

## What is proved

`UDPProxyProofs` proves, for all values of the constants that satisfy the two
assumptions (`OverlappedAssumption`: addresses are positive naturals, `INVALID_SOCKET`
is no socket, the faults are known kinds; `UDPProxyAssumption`: `NoId` is no endpoint,
the bounds are naturals):

* `TypeCorrect`: `Spec => []TypeOK`;
* `OwnershipSafe`: `Spec => []OvOwnership`;
* `SocketsSafe`: `Spec => []SocketsOwned`.

`OvOwnership` alone is not inductive: that the worker's re-arm lends out an `OV_DATA`
nobody else has needs to know that the worker holds one exactly when it is not
waiting, and that its loop over the queue, which allocates more, runs inside `m_cs`
for an `OV_DATA` of an existing connection. `WorkerInv` says so, and `IInv` is the
conjunction of the three. The proof has a lemma for each action (`CreateKeeps`,
`RequestKeeps`, `DrainKeeps`, ...) over lemmas on the operators: an operation that was
started is known to the kernel exactly when its `OV_DATA` was kept (`StartedFacts`,
`LabelledFacts`), closing sockets takes nothing from the kernel's care
(`AbortedFacts`), and the updates of a connection leave a connection.

`SocketsOwned` becomes inductive with `Conns \subseteq created` (`SocketsInv`): a new
connection never replaces one, whose sockets would leak. That rests on the client, who
creates an id once, and `ProxyContract` checks that the event handler is such a client.
Creation and destruction have a lemma each; all other steps leave every connection its
sockets (`SameSocketsKeep`, `FieldsKeepSockets`). Nothing is assumed of the reuse of
`SOCKET` values: a receive that is re-armed on a value of another association takes that
association's data, and still breaks no ownership.

`UDPFlowProofs` proves, from the same assumptions:

* `QueueSafe`: `Spec => []QueueKeepsAll`;
* `OrderSafe`: `Spec => []NoOvertaking`;
* `NotStrandedSafe`: `Spec => []NothingStranded`;
* `FlowImplemented`: `Spec => FlowContract`, the refinement of `UdpFlow`.

The first three are inductive only together, and with two facts more. `QueueInv` says
of each endpoint that its queue is the increasing list of the datagrams whose fate is
"queued", that nothing later has been decided, and that a queue of an association that
is up is not empty only while the worker is in its loop *for that endpoint*; only then
is a direct `udpSend`, which needs `m_cs`, sure to find it empty. `ConnectInv` says that
an `OVT_CONNECT` is there at most once for an endpoint, and that while it is there the
dialogue has not begun. It is needed because `onConnectComplete` sets the state to
`PS_AUTH` without looking at it, which would turn an association that is up with an
empty queue back into one that queues. The proof first reduces every action to one of
a few kinds of step (`StepKinds`: the endpoint is created, destroyed, sends, comes up,
drains, or nothing of its flow changes), and shows for the kinds, over four lemmas on
sequences (`QueuedBehind`, `NotQueued`, `HeadLeaves`, `AllLost`), that they keep
`QueueInv` (`StepsKeepQueue`) and are steps of `UdpFlow` (`StepsImplement`).

`UDPDialogueProofs` proves, from the same assumptions:

* `OneReceiverSafe`: `Spec => []OneReceiver`;
* `DialogueSafe`: `Spec => []SocksDialogue`.

A receive is under way from the call that starts it to the handler that ends or renews
it, through the completion port and through the gap in which the worker holds it outside
`m_cs`. `ReceiveInv` follows it all the way. At most one that has not failed exists per
connection and kind, since the one on the control connection begins when the connect
ends, and `udpRecvStarted` guards the one on the UDP socket (`OnePerKind`). It is on the
socket the connection has (`OnOwnSocket`). Without faults one that was begun is never
given up (`StillHears`), and an operation has a result only once its completion is queued
(`NoResultYet`).

That there is one receive is what makes the dialogue sound: the code has no other means
to tell which request an answer belongs to. `AnswerInv` says that at most the last
request is unanswered, and that an answer in the port or with the worker is the last one,
to the last request. Every action is reduced to one of six kinds of step (`DialogueStep`:
silent, a new endpoint, the greeting, a request, the association, an answer that is
heard), each of which keeps `DialogueInv`.

`EventHandlerProofs` proves of the handler composed with `UDPProxy`:

* `HandlerTypeCorrect`, `ClosedSafe`, `NoLateReceive`, `DirectSafe`: the invariants
  `ehTypeOK`, `ClosedLeavesNothing`, `NoReceiveAfterClose` and `DirectAfterQueue`;
* `ContractKept`: `ehSpec => ProxyContract`, that is `ehSpec => Spec`;
* `StraySafe`: `ehSpec => []StrayIsForgotten`;
* `HandlerFlow`: `ehSpec` implies `FlowContract`, `QueueKeepsAll` and `NoOvertaking`, by
  `ContractKept` and the theorems of `UDPFlowProofs`. All theorems about `Spec` carry
  over in the same way.

`CallInv` is what a call of the filter thread relies on between two of its steps: the
endpoint is up, there is room for the datagram it is sending, the context it is about to
create is absent (it holds `lock`), the connection it has deleted is gone. `ContextInv`
is the reason that an id is created once: it keeps its context until it is closed.
The steps of the worker, the kernel and the proxy are taken together (`Beside`): they
create no connection, and shorten queues only (`Quiet`).

`StraySafe` is about the gap between `m_cs` and the re-arm, with `SOCKET` values that are
reused at once. A stray receive is never one of a connection that exists, since those are
on their own sockets (`OnOwnSocket`), and sockets have one owner. What remains is that its
context is gone too, for otherwise `ehOnUdpReceiveComplete` would post what it took.
`StrayInv` says that a receive whose connection is gone and whose context is there belongs
to the endpoint the filter thread is closing, and is on no open socket. It stays so because
only the filter thread opens sockets (`OpenSpares`), which first deletes the context; and a
connection that went by a failed connect has no receive (`OnePerKind`, `ConnectInv`).

The same module proves of `Lifecycle`, with `LifecycleAssumption` (the failures of
`Start` are known kinds) and no other hypothesis:

* `MemorySafe`: `lcSpec => []WorkerHasMemory`, of every worker that has a port;
* `StopSafe`: `lcSpec => []StoppedIsClean`.

`free` breaks the invariants of `UDPProxy`: it deletes objects the kernel still has, and
forgets what is in the port. So ownership is stated with two allowances,
`Owned(leaked, deleted)`, for `OV_DATA` that have lost their owner and for ones that are
deleted although something refers to them, and every lemma of `UDPProxyProofs` about an
action is proved for all values of the two (`InvBut`); `UDPProxy` itself has them empty.
`lcInv` then says that the second is empty whenever there is a worker (`MemoryInv`): the
worker is joined before anything is deleted. What makes the next life start clean is
that each operation pending is pending on an open socket (`PendingOpen`). After a `Stop`
there is no connection, so no open socket, so nothing pending, and the new port holds
nothing: whatever was deleted or leaked before, nothing refers to it. `CleanInv` is why
there is no connection: once `free` has deleted them, one that the filter thread still
creates gets no further than `registerSocket`, which finds no port, and `nf_free` waits
for that call. After a worker thread could not be started none of this is left, and
`lcInv` only says that there never is a worker again.

`TcpRedirectProofs` proves `PayloadSafe`, `RequestFirst` and `ReplySafe`, the invariants
`PayloadInOrder`, `DataAfterReply` and `ReplyIsHidden`, for any number of connections and
chunks (`TcpRedirectAssumption`: the bound is a natural) and over any number of restarts.
`EntryInv` says that the entry a live connection finds in `m_connInfoMap` is its own and
not one of an earlier life, that it is there until the server has answered, and that it
then holds all that was sent so far; `ServerInv` and `AppInv` describe the two streams by
the positions of the data in them (`DataAt`, `Carries`).

`FilterRulesProofs` proves `ExemptSafe` and `RestSafe`, that is `ExemptNeverRedirected`
and `RedirectsTheRest`, for every list of configured rules, whatever their numbers and
masks, and all flows (`FilterRulesAssumption`: configurations are lists of rules as the
settings' type has them, flows are TCP or UDP and have a port). The first rule that matches
decides, so the invariant is about the order of the list: it holds the rules of `Start`
only (`TableInv`), the rules that `Start` has passed (`ListedInv`), and no redirection
stands before an exemption (`OrderInv`), which holds because the configured rules go to the
head and the two redirections are added last. `UserMatches` shows that a configured rule
whose numbers are ports, converted, matches the flows it says; `UserNames` that any
configured rule matches flows it names only; `NoMask` that the empty mask matches all.

`ThreadPoolProofs` proves `PoolTypeCorrect`, `WakeupSafe`, `JoinSafe` and `DrainSafe` of
`ThreadPool` for any number of threads, jobs and processors (`ThreadPoolAssumption`).
The invariant `PoolInv` adds that each job taken is held by one thread, that the handles
kept are those of all threads, that a thread stops only while `free` waits, and that
while `free` waits some thread is left as long as a job is due. The last is what
`StopDrains` needs: the thread that stops last found the job event clear.

`Utf8Proofs` proves all four properties of the conversions, for texts and byte strings of
any length (`Utf8Assumption`: units have 16 bits, bytes 8):

* `EncoderCorrect`, by arithmetic over all 16-bit code units;
* `DecoderResynchronises`: `Resynchronises`;
* `DecoderCorrect`: `DecodesByPattern`;
* `RoundTripCorrect`: `RoundTrip`.

Each turn of a loop is a step, so no induction over the data is needed. `Leads` counts
the leading ones of a byte, and `TurnReads` shows of the four actions of the decoder that
a turn reads a piece inside the bytes as the reference reads it (`Read`). `PatternInv`
adds up the turns; a piece that was read is not read again, since the next one starts
where it ended. For `RoundTrip` the invariant `RoundInv` says that the bytes can be cut
at positions between which the encoded units stand (`Cut`), and that the decoder is at one
of the cuts with the units before it read. By `DecodesByPattern`'s uniqueness of the
piece, a turn that starts at a cut ends at the next one (`ReadWritten`).

Only model-checked, since liveness is beyond the prover: `Reclaimed`,
`NothingQueuedForever`, `CallsReturn`, `StopReturns`, `PendedIsPosted`, `FreeReturns` and
`JobsServed`. Every invariant and every refinement that a passing run checks is proved.

## What is not modelled

Logging, the user interface, the settings' JSON and the SDK's headers and binaries are
left out: no state of interest, or third party. `linkedlist.h` is used by no source
file, and unlike `threadpool.h` and `UTF-8.h` it is a set of macros that says nothing of
the calls it expects. Of `UTF-8.h` the branches for a 32-bit `wchar_t` are left out,
since on Windows it has 16 bits. Undefined behaviour of containers under a data race in
`free`, the kernel's writes to an `OV_DATA` deleted by `free`, and the filter thread's use
of one that `free` deletes in the middle of `startConnect` or `udpSend` are not followed;
nor are failures of `CreateEvent`.
