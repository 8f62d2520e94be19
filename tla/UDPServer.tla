------------------------------ MODULE UDPServer ------------------------------
(***************************************************************************)
(* One UDP socket: its receiver, its workers, the query handler with its   *)
(* timeout, the resolver goroutine each query spawns, the buffer pool they *)
(* share, and the runner's shutdown (internal/server/udp_server.go,        *)
(* query_handler.go, runner.go, internal/pool/pool.go).                    *)
(*                                                                         *)
(* A packet is a model value standing for its sender and its transaction;  *)
(* payload gives its bytes, which decide what the handler makes of it:     *)
(* this is a parameter here, and QueryHandler takes it from Messages.  A   *)
(* buffer holds the bytes of the last packet read into it; a worker puts   *)
(* its buffer back when handlePacket returns, while the resolver goroutine *)
(* it spawned may still read it.  The resolver is abstracted to that read, *)
(* to the validation of the upstream's response and to its outcome (see    *)
(* ForwardingResolver); a response is the packet whose question it answers *)
(* (its bytes: Messages).                                                  *)
(*                                                                         *)
(* Names that the TCP server's module has too are prefixed, so that one    *)
(* module can be about both servers.                                       *)
(***************************************************************************)
EXTENDS Naturals, Sequences

CONSTANTS
    Packets,    \* packets clients send
    Payloads,   \* what they may contain: a set of functions from Packets to bytes
    Parses(_),  \* ParseRequestBounded takes these bytes
    FormErrs(_),  \* handleParseError can answer these bytes, which do not parse
    ServFails(_), \* buildErrorResult can answer the request in these bytes
    Workers,    \* the socket's workers
    Buffers,    \* buffers of the pool (a fresh one is one not used before)
    QueueSize,  \* capacity of the packet channel
    None,       \* no buffer, no packet
    Garbage,    \* bytes read while the receiver was writing them
    Error       \* an error response: FORMERR or SERVFAIL

ASSUME QueueAssumption == QueueSize \in Nat \ {0}
ASSUME PacketsAssumption == {None, Garbage, Error} \cap Packets = {} /\ None \notin Buffers
ASSUME ResponsesAssumption == None # Error /\ Garbage # None /\ Garbage # Error

VARIABLES
    payload,    \* payload[p]: the bytes of p
    stage,      \* stage[p]: "sent", "dropped", "queued", "taken", "answered", "silent"
    bufOf,      \* bufOf[p]: the buffer p was read into
    content,    \* content[b]: whose bytes buffer b holds
    free,       \* the buffers in the pool
    rbuf,       \* the buffer the receiver reads into
    receiver,   \* "get", "read", "exited"
    queue,      \* the packet channel
    worker,     \* worker[w]: "idle", "wait", "write", "exited"
    current,    \* current[w]: the packet worker w handles
    resp,       \* resp[w]: the response bytes (None: no response)
    job,        \* job[p]: p's resolver goroutine: "none", "running", "forwarded", "done"
    asked,      \* asked[p]: whose bytes that goroutine sent upstream
    reply,      \* reply[p]: what it put into resCh
    socket,     \* the socket is open
    cancelled,  \* ctx is cancelled
    udpRunner   \* RunWithContext: "running", "stopping", "returned"

receiving  == <<free, rbuf, receiver, queue>>
responding == <<worker, current, resp>>
resolving  == <<job, asked, reply>>
running    == <<socket, cancelled, udpRunner>>
udpVars == <<payload, stage, bufOf, content, receiving, responding, resolving, running>>

UDPInit ==
    /\ payload \in Payloads
    /\ stage = [p \in Packets |-> "sent"]
    /\ bufOf = [p \in Packets |-> None]
    /\ content = [b \in Buffers |-> None]
    /\ free = Buffers
    /\ rbuf = None
    /\ receiver = "get"
    /\ queue = <<>>
    /\ worker = [w \in Workers |-> "idle"]
    /\ current = [w \in Workers |-> None]
    /\ resp = [w \in Workers |-> None]
    /\ job = [p \in Packets |-> "none"]
    /\ asked = [p \in Packets |-> None]
    /\ reply = [p \in Packets |-> None]
    /\ socket = TRUE
    /\ cancelled = FALSE
    /\ udpRunner = "running"

-----------------------------------------------------------------------------
(* recvLoop                                                                *)

\* bufferPool.Get()
RecvGet ==
    /\ receiver = "get"
    /\ \E b \in free : rbuf' = b /\ free' = free \ {b}
    /\ receiver' = "read"
    /\ UNCHANGED <<payload, stage, bufOf, content, queue, responding, resolving, running>>

\* A variant: the buffer of a dropped datagram is not put back.
RecvPacketLeaks(p) ==
    /\ receiver = "read" /\ socket /\ stage[p] = "sent"
    /\ content' = [content EXCEPT ![rbuf] = p]
    /\ \/ /\ Len(queue) < QueueSize
          /\ queue' = Append(queue, p)
          /\ bufOf' = [bufOf EXCEPT ![p] = rbuf]
          /\ stage' = [stage EXCEPT ![p] = "queued"]
       \/ stage' = [stage EXCEPT ![p] = "dropped"] /\ UNCHANGED <<queue, bufOf>>
    /\ rbuf' = None
    /\ receiver' = "get"
    /\ UNCHANGED <<payload, free, responding, resolving, running>>

\* ReadFromUDP returns p; then the rate limiter, which may drop it, and the
\* non-blocking dispatch, which drops it when the channel is full.
RecvPacket(p) ==
    /\ receiver = "read" /\ socket /\ stage[p] = "sent"
    /\ content' = [content EXCEPT ![rbuf] = p]
    /\ \/ /\ Len(queue) < QueueSize
          /\ queue' = Append(queue, p)
          /\ bufOf' = [bufOf EXCEPT ![p] = rbuf]
          /\ stage' = [stage EXCEPT ![p] = "queued"]
          /\ UNCHANGED free
       \/ /\ stage' = [stage EXCEPT ![p] = "dropped"]
          /\ free' = free \cup {rbuf}
          /\ UNCHANGED <<queue, bufOf>>
    /\ rbuf' = None
    /\ receiver' = "get"
    /\ UNCHANGED <<payload, responding, resolving, running>>

\* ReadFromUDP fails: the buffer goes back and the receiver exits.
RecvExit ==
    /\ receiver = "read"
    /\ free' = free \cup {rbuf}
    /\ rbuf' = None
    /\ receiver' = "exited"
    /\ UNCHANGED <<payload, stage, bufOf, content, queue, responding, resolving, running>>

RecvClosed == ~socket /\ RecvExit

\* Any other read error ends the loop too.
RecvError == socket /\ RecvExit

-----------------------------------------------------------------------------
(* workerLoop, handlePacket, Handle, resolveWithTimeout                    *)

\* A variant: the worker only watches for the channel's close, which never comes.
WorkerExitOnClose(w) == FALSE /\ UNCHANGED udpVars

WorkerExit(w) ==
    /\ worker[w] = "idle"
    /\ cancelled
    /\ worker' = [worker EXCEPT ![w] = "exited"]
    /\ UNCHANGED <<payload, stage, bufOf, content, receiving, current, resp, resolving, running>>

Take(w) ==
    /\ worker[w] = "idle"
    /\ queue # <<>>
    /\ queue' = Tail(queue)
    /\ current' = [current EXCEPT ![w] = Head(queue)]
    /\ stage' = [stage EXCEPT ![Head(queue)] = "taken"]

\* handleParseError: a FORMERR, or nothing.
TakeMalformed(w) ==
    /\ Take(w)
    /\ ~Parses(payload[Head(queue)])
    /\ worker' = [worker EXCEPT ![w] = "write"]
    /\ resp' = [resp EXCEPT ![w] = IF FormErrs(payload[Head(queue)]) THEN Error ELSE None]
    /\ UNCHANGED <<payload, bufOf, content, free, rbuf, receiver, resolving, running>>

\* The request parses: spawn the resolver goroutine and wait.
TakeQuery(w) ==
    /\ Take(w)
    /\ Parses(payload[Head(queue)])
    /\ worker' = [worker EXCEPT ![w] = "wait"]
    /\ job' = [job EXCEPT ![Head(queue)] = "running"]
    /\ UNCHANGED <<payload, bufOf, content, free, rbuf, receiver, resp, asked, reply, running>>

Respond(w, r) ==
    /\ worker' = [worker EXCEPT ![w] = "write"]
    /\ resp' = [resp EXCEPT ![w] = r]
    /\ UNCHANGED <<payload, stage, bufOf, content, receiving, current, resolving, running>>

\* buildErrorResult: SERVFAIL, or nothing.
RespondError(w) == Respond(w, IF ServFails(payload[current[w]]) THEN Error ELSE None)

WaitShutdown(w) == worker[w] = "wait" /\ cancelled /\ RespondError(w)

\* A variant: no timer, the handler waits for the resolver.
WaitTimeoutNever(w) == worker[w] = "wait" /\ cancelled /\ RespondError(w)

WaitTimeout(w) == worker[w] = "wait" /\ RespondError(w)

WaitResult(w) ==
    /\ worker[w] = "wait"
    /\ job[current[w]] = "done"
    /\ IF reply[current[w]] = Error THEN RespondError(w) ELSE Respond(w, reply[current[w]])

\* WriteToUDP, its error ignored; the deferred Put runs, the loop goes on.
Write(w) ==
    /\ worker[w] = "write"
    /\ stage' = [stage EXCEPT ![current[w]] =
                    IF resp[w] # None /\ socket THEN "answered" ELSE "silent"]
    /\ free' = free \cup {bufOf[current[w]]}
    /\ current' = [current EXCEPT ![w] = None]
    /\ resp' = [resp EXCEPT ![w] = None]
    /\ worker' = [worker EXCEPT ![w] = "idle"]
    /\ UNCHANGED <<payload, bufOf, content, rbuf, receiver, queue, resolving, running>>

-----------------------------------------------------------------------------
(* The resolver goroutine                                                  *)

\* prepareQueryBytes copies reqBytes: the buffer may hold another datagram by
\* now, or be the one ReadFromUDP is writing to.
JobForward(p) ==
    /\ job[p] = "running"
    /\ job' = [job EXCEPT ![p] = "forwarded"]
    /\ \E x \in {content[bufOf[p]]} \cup (IF bufOf[p] = rbuf THEN {Garbage} ELSE {}) :
          asked' = [asked EXCEPT ![p] = x]
    /\ UNCHANGED <<payload, stage, bufOf, content, receiving, responding, reply, running>>

Reply(p, r) ==
    /\ job' = [job EXCEPT ![p] = "done"]
    /\ reply' = [reply EXCEPT ![p] = r]
    /\ UNCHANGED <<payload, stage, bufOf, content, receiving, responding, asked, running>>

\* A variant: what the upstream answers is passed on unseen.
validateAny(p, x) == x

\* validateResponse: the question answered must be the one parsed from p.
validate(p, x) == IF x = p THEN x ELSE Error

\* The upstream answers the bytes it was sent, or the exchange fails.
JobAnswered(p) ==
    /\ job[p] = "forwarded"
    /\ \E r \in {validate(p, asked[p]), Error} : Reply(p, r)

\* Answered without an upstream: custom DNS, filter, cache, a shared call, error.
JobLocal(p) ==
    /\ job[p] = "running"
    /\ \E r \in {p, Error} : Reply(p, r)

-----------------------------------------------------------------------------
(* RunWithContext, UDPServer.Run and Stop                                  *)

\* A signal, or the API server failed.
Shutdown ==
    /\ ~cancelled
    /\ cancelled' = TRUE
    /\ UNCHANGED <<payload, stage, bufOf, content, receiving, responding, resolving, socket, udpRunner>>

\* UDPServer.Run, on its own goroutine, wakes up and calls Stop.
UDPRunStops ==
    /\ cancelled /\ socket
    /\ socket' = FALSE
    /\ UNCHANGED <<payload, stage, bufOf, content, receiving, responding, resolving, cancelled, udpRunner>>

\* RunWithContext calls Stop.
UDPRunnerStops ==
    /\ cancelled /\ udpRunner = "running"
    /\ udpRunner' = "stopping"
    /\ socket' = FALSE
    /\ UNCHANGED <<payload, stage, bufOf, content, receiving, responding, resolving, cancelled>>

AllExited == receiver = "exited" /\ \A w \in Workers : worker[w] = "exited"

StopDone ==
    /\ udpRunner = "stopping" /\ AllExited
    /\ udpRunner' = "returned"
    /\ UNCHANGED <<payload, stage, bufOf, content, receiving, responding, resolving, socket, cancelled>>

StopTimeout ==
    /\ udpRunner = "stopping" /\ ~AllExited
    /\ udpRunner' = "returned"
    /\ UNCHANGED <<payload, stage, bufOf, content, receiving, responding, resolving, socket, cancelled>>

\* errCh delivers an error (the TCP server's): RunWithContext returns without Stop.
UDPRunnerFails ==
    /\ udpRunner = "running"
    /\ udpRunner' = "returned"
    /\ cancelled' = TRUE
    /\ UNCHANGED <<payload, stage, bufOf, content, receiving, responding, resolving, socket>>

-----------------------------------------------------------------------------

Receiver == RecvGet \/ (\E p \in Packets : RecvPacket(p)) \/ RecvClosed \/ RecvError

Worker(w) ==
    \/ WorkerExit(w) \/ TakeMalformed(w) \/ TakeQuery(w)
    \/ WaitShutdown(w) \/ WaitTimeout(w) \/ WaitResult(w)
    \/ Write(w)

Resolver(p) == JobForward(p) \/ JobAnswered(p) \/ JobLocal(p)

UDPRunner == UDPRunStops \/ UDPRunnerStops \/ StopDone \/ StopTimeout \/ UDPRunnerFails

\* RunWithContext has returned: the process is about to exit.
UDPIdle == udpRunner = "returned" /\ UNCHANGED udpVars

UDPNext ==
    \/ Receiver
    \/ \E w \in Workers : Worker(w)
    \/ \E p \in Packets : Resolver(p)
    \/ UDPRunner \/ Shutdown
    \/ UDPIdle

UDPSpec == UDPInit /\ [][UDPNext]_udpVars

\* Goroutines are scheduled and timers fire.  The resolver is not assumed to
\* come back, nor the network to deliver anything; a blocked read ends only
\* when the socket is closed.
UDPFairSpec ==
    /\ UDPSpec
    /\ WF_udpVars(RecvGet) /\ WF_udpVars(RecvClosed)
    /\ \A w \in Workers : WF_udpVars(Worker(w))
    /\ WF_udpVars(UDPRunStops) /\ WF_udpVars(UDPRunnerStops) /\ WF_udpVars(StopDone \/ StopTimeout)

-----------------------------------------------------------------------------
(* Properties.                                                             *)

\* The types of the server's state.
UDPTypeOK ==
    /\ stage \in [Packets -> {"sent", "dropped", "queued", "taken", "answered", "silent"}]
    /\ bufOf \in [Packets -> Buffers \cup {None}]
    /\ content \in [Buffers -> Packets \cup {None}]
    /\ free \subseteq Buffers
    /\ rbuf \in Buffers \cup {None}
    /\ receiver \in {"get", "read", "exited"}
    /\ queue \in Seq(Packets) /\ Len(queue) <= QueueSize
    /\ worker \in [Workers -> {"idle", "wait", "write", "exited"}]
    /\ current \in [Workers -> Packets \cup {None}]
    /\ resp \in [Workers -> Packets \cup {None, Garbage, Error}]
    /\ job \in [Packets -> {"none", "running", "forwarded", "done"}]
    /\ asked \in [Packets -> Packets \cup {None, Garbage}]
    /\ reply \in [Packets -> Packets \cup {None, Garbage, Error}]
    /\ socket \in BOOLEAN /\ cancelled \in BOOLEAN
    /\ udpRunner \in {"running", "stopping", "returned"}

\* Packets whose buffer the server still holds for them.
Held == {p \in Packets : stage[p] \in {"queued", "taken"}}

\* A buffer is in the pool, with the receiver, or with exactly one packet being
\* queued or handled: none is put back twice or early, and none is lost, on any
\* path (read error, rate limit, full queue, timeout, shutdown).
\* The state is well typed throughout.
BufferSingleOwner ==
    /\ UDPTypeOK
    /\ \A p, q \in Held : bufOf[p] = bufOf[q] => p = q
    /\ {bufOf[p] : p \in Held} \cap (free \cup {rbuf}) = {}
    /\ rbuf \notin free
    /\ Buffers = free \cup {bufOf[p] : p \in Held} \cup ({rbuf} \ {None})

\* What a resolver goroutine returns (and has cached and shared with other
\* queries) answers the question of its own packet or is an error, although its
\* handler may be gone and its buffer in use for another packet; so does every
\* response a worker sends.
AnswersOwnPacket ==
    /\ \A p \in Packets : reply[p] \in {p, Error, None}
    /\ \A w \in Workers : worker[w] = "write" => resp[w] \in {current[w], Error, None}

\* A packet that entered the queue is dealt with, whatever the resolver does,
\* unless the server is shut down.
EveryPacketHandled ==
    \A p \in Packets : stage[p] = "queued" ~> (stage[p] \in {"answered", "silent"} \/ cancelled)

\* Once shutdown begins, the receiver and all workers exit and the runner
\* returns, whatever resolvers and clients do.
UDPShutdownCompletes == cancelled ~> (udpRunner = "returned" /\ AllExited)
=============================================================================
