------------------------------ MODULE TCPServer ------------------------------
(***************************************************************************)
(* The TCP server of internal/server/tcp_server.go: the listeners Run      *)
(* opens, their accept loops, a handler goroutine per connection, the      *)
(* limit of connections per address, and shutdown, where Run and           *)
(* RunWithContext (runner.go) both call Stop.                              *)
(*                                                                         *)
(* A message has no content: a connection reads, handles and writes one at *)
(* a time.  wg is the server's WaitGroup.                                  *)
(***************************************************************************)
EXTENDS Naturals, FiniteSets

CONSTANTS
    Conns,        \* connections clients open
    IP,           \* IP[c]: the address connection c comes from
    Listeners,    \* one per core
    MaxPerIP,     \* maxTCPConnectionsPerIP
    MaxQueries,   \* maxQueriesPerConnection
    NoConn        \* no connection

ASSUME LimitsAssumption == MaxPerIP \in Nat \ {0} /\ MaxQueries \in Nat \ {0}
ASSUME ConnsAssumption ==
    /\ DOMAIN IP = Conns /\ NoConn \notin Conns
    /\ IsFiniteSet(Conns) /\ IsFiniteSet(Listeners)

VARIABLES
    listener,     \* listener[l]: "unopened", "open", "closed"
    acceptor,     \* acceptor[l]: its accept loop: "none", "running", "exited"
    accepted,     \* accepted[l]: the connection the loop has accepted and not passed on
    conn,         \* conn[c]: where its handler is, or what became of c without one
    served,       \* served[c]: loop iterations completed
    connPerIP,    \* the map of counts
    wg,           \* the WaitGroup's counter
    ctxDone,      \* ctx is cancelled
    run,          \* Run: "opening", "waiting", "stopping", "drained", "timeout", "failed"
    runner        \* RunWithContext: "waiting", "stopping", "returned"

listening == <<listener, acceptor, accepted>>
handling  == <<conn, served, connPerIP>>
stopping  == <<ctxDone, run, runner>>
vars == <<listening, handling, wg, stopping>>

IPs      == {IP[c] : c \in Conns}
Handling == {"check", "read", "handle", "write", "closing"}
cur(ip)  == IF ip \in DOMAIN connPerIP THEN connPerIP[ip] ELSE 0

Init ==
    /\ listener = [l \in Listeners |-> "unopened"]
    /\ acceptor = [l \in Listeners |-> "none"]
    /\ accepted = [l \in Listeners |-> NoConn]
    /\ conn = [c \in Conns |-> "offered"]
    /\ served = [c \in Conns |-> 0]
    /\ connPerIP = [ip \in {} |-> 0]
    /\ wg = 0
    /\ ctxDone = FALSE
    /\ run = "opening"
    /\ runner = "waiting"

-----------------------------------------------------------------------------
(* acceptLoop                                                              *)

Accept(l, c) ==
    /\ acceptor[l] = "running" /\ accepted[l] = NoConn
    /\ listener[l] = "open" /\ conn[c] = "offered"
    /\ accepted' = [accepted EXCEPT ![l] = c]
    /\ conn' = [conn EXCEPT ![c] = "accepted"]
    /\ UNCHANGED <<listener, acceptor, served, connPerIP, wg, stopping>>

\* Accept fails: the listener is closed, or any other error ends the loop too.
AcceptExit(l) ==
    /\ acceptor[l] = "running" /\ accepted[l] = NoConn
    /\ acceptor' = [acceptor EXCEPT ![l] = "exited"]
    /\ wg' = wg - 1
    /\ UNCHANGED <<listener, accepted, handling, stopping>>

AcceptClosed(l) == listener[l] = "closed" /\ AcceptExit(l)
AcceptError(l)  == listener[l] = "open" /\ AcceptExit(l)

withinLimit(ip) == cur(ip) < MaxPerIP

Refuse(l) ==
    /\ accepted[l] # NoConn
    /\ ~withinLimit(IP[accepted[l]])
    /\ conn' = [conn EXCEPT ![accepted[l]] = "refused"]
    /\ accepted' = [accepted EXCEPT ![l] = NoConn]
    /\ UNCHANGED <<listener, acceptor, served, connPerIP, wg, stopping>>

Count(ip, n) == [i \in DOMAIN connPerIP \cup {ip} |-> IF i = ip THEN n ELSE connPerIP[i]]

\* A variant: the handler is a plain goroutine.
AdmitUnwaited(l) ==
    LET c == accepted[l] IN
    /\ c # NoConn
    /\ withinLimit(IP[c])
    /\ connPerIP' = Count(IP[c], cur(IP[c]) + 1)
    /\ conn' = [conn EXCEPT ![c] = "check"]
    /\ accepted' = [accepted EXCEPT ![l] = NoConn]
    /\ UNCHANGED <<listener, acceptor, served, wg, stopping>>

\* tryAcquireConn counts the connection and wg.Go starts its handler.
Admit(l) ==
    LET c == accepted[l] IN
    /\ c # NoConn
    /\ withinLimit(IP[c])
    /\ connPerIP' = Count(IP[c], cur(IP[c]) + 1)
    /\ conn' = [conn EXCEPT ![c] = "check"]
    /\ accepted' = [accepted EXCEPT ![l] = NoConn]
    /\ wg' = wg + 1
    /\ UNCHANGED <<listener, acceptor, served, stopping>>

-----------------------------------------------------------------------------
(* handleConnection                                                        *)

Goto(c, at) ==
    /\ conn' = [conn EXCEPT ![c] = at]
    /\ UNCHANGED <<listening, connPerIP, wg, stopping>>

Iterate(c) ==
    /\ conn[c] = "check"
    /\ Goto(c, IF served[c] = MaxQueries \/ ctxDone THEN "closing" ELSE "read")
    /\ UNCHANGED served

NextIteration(c) ==
    /\ Goto(c, "check")
    /\ served' = [served EXCEPT ![c] = @ + 1]

ReadMessage(c) ==
    /\ conn[c] = "read"
    /\ Goto(c, "handle")
    /\ UNCHANGED served

\* A variant: an empty message is not an iteration.
ReadEmptyUncounted(c) ==
    /\ conn[c] = "read"
    /\ Goto(c, "check")
    /\ UNCHANGED served

\* A length of zero.
ReadEmpty(c) == conn[c] = "read" /\ NextIteration(c)

\* The client closes, sends nothing until the deadline, or stops half-way.
ReadFails(c) ==
    /\ conn[c] = "read"
    /\ Goto(c, "closing")
    /\ UNCHANGED served

\* Handle returns a response; it does so within its timeout.
Handled(c) ==
    /\ conn[c] = "handle"
    /\ Goto(c, "write")
    /\ UNCHANGED served

\* No response could be built.
HandledSilently(c) == conn[c] = "handle" /\ NextIteration(c)

WriteMessage(c) == conn[c] = "write" /\ NextIteration(c)

WriteFails(c) ==
    /\ conn[c] = "write"
    /\ Goto(c, "closing")
    /\ UNCHANGED served

\* A variant: the count of a last connection is left in the map.
releaseConnKeepsLast(c) ==
    /\ conn[c] = "closing"
    /\ conn' = [conn EXCEPT ![c] = "released"]
    /\ connPerIP' = IF cur(IP[c]) <= 1 THEN connPerIP ELSE Count(IP[c], cur(IP[c]) - 1)
    /\ UNCHANGED <<listening, served, wg, stopping>>

\* The deferred calls: conn.Close and releaseConn; then the goroutine ends.
releaseConn(c) ==
    /\ conn[c] = "closing"
    /\ conn' = [conn EXCEPT ![c] = "released"]
    /\ connPerIP' = IF cur(IP[c]) <= 1
                    THEN [i \in DOMAIN connPerIP \ {IP[c]} |-> connPerIP[i]]
                    ELSE Count(IP[c], cur(IP[c]) - 1)
    /\ UNCHANGED <<listening, served, wg, stopping>>

HandlerDone(c) ==
    /\ conn[c] = "released"
    /\ conn' = [conn EXCEPT ![c] = "done"]
    /\ wg' = wg - 1
    /\ UNCHANGED <<listening, served, connPerIP, stopping>>

-----------------------------------------------------------------------------
(* Run, Stop and RunWithContext                                            *)

OpenListener(l) ==
    /\ run = "opening" /\ listener[l] = "unopened"
    /\ listener' = [listener EXCEPT ![l] = "open"]
    /\ acceptor' = [acceptor EXCEPT ![l] = "running"]
    /\ wg' = wg + 1
    /\ UNCHANGED <<accepted, handling, stopping>>

CloseListeners ==
    listener' = [l \in Listeners |-> IF listener[l] = "open" THEN "closed" ELSE listener[l]]

\* Run returns the error; what was accepted goes on until ctx is cancelled.
OpenFails ==
    /\ run = "opening" /\ \E l \in Listeners : listener[l] = "unopened"
    /\ CloseListeners
    /\ run' = "failed"
    /\ UNCHANGED <<acceptor, accepted, handling, wg, ctxDone, runner>>

RunWaits ==
    /\ run = "opening" /\ \A l \in Listeners : listener[l] # "unopened"
    /\ run' = "waiting"
    /\ UNCHANGED <<listening, handling, wg, ctxDone, runner>>

\* A variant: Run waits for the goroutines and leaves the listeners open.
RunStopsOpen ==
    /\ run = "waiting" /\ ctxDone
    /\ run' = "stopping"
    /\ UNCHANGED <<listening, handling, wg, ctxDone, runner>>

\* Run's own call of Stop.
RunStops ==
    /\ run = "waiting" /\ ctxDone
    /\ CloseListeners
    /\ run' = "stopping"
    /\ UNCHANGED <<acceptor, accepted, handling, wg, ctxDone, runner>>

RunDrained ==
    /\ run = "stopping" /\ wg = 0
    /\ run' = "drained"
    /\ UNCHANGED <<listening, handling, wg, ctxDone, runner>>

RunTimeout ==
    /\ run = "stopping" /\ wg # 0
    /\ run' = "timeout"
    /\ UNCHANGED <<listening, handling, wg, ctxDone, runner>>

\* A signal.
Cancel ==
    /\ ~ctxDone
    /\ ctxDone' = TRUE
    /\ UNCHANGED <<listening, handling, wg, run, runner>>

\* RunWithContext calls Stop: it closes the listeners opened so far.
RunnerStops ==
    /\ runner = "waiting" /\ (ctxDone \/ run = "drained")
    /\ CloseListeners
    /\ runner' = "stopping"
    /\ UNCHANGED <<acceptor, accepted, handling, wg, ctxDone, run>>

\* Stop returns: the goroutines are done, or its timeout is over.
RunnerReturns ==
    /\ runner = "stopping"
    /\ runner' = "returned"
    /\ UNCHANGED <<listening, handling, wg, ctxDone, run>>

\* Run's error arrives: cancelRun, and no Stop.
RunnerFails ==
    /\ runner = "waiting" /\ run \in {"failed", "timeout"}
    /\ ctxDone' = TRUE
    /\ runner' = "returned"
    /\ UNCHANGED <<listening, handling, wg, run>>

-----------------------------------------------------------------------------

acceptLoop(l) == AcceptClosed(l) \/ Refuse(l) \/ Admit(l)

handleConnection(c) ==
    \/ Iterate(c) \/ ReadMessage(c) \/ ReadEmpty(c) \/ ReadFails(c)
    \/ Handled(c) \/ HandledSilently(c) \/ WriteMessage(c) \/ WriteFails(c)
    \/ releaseConn(c) \/ HandlerDone(c)

Run ==
    \/ \E l \in Listeners : OpenListener(l)
    \/ OpenFails \/ RunWaits \/ RunStops \/ RunDrained \/ RunTimeout

Runner == RunnerStops \/ RunnerReturns \/ RunnerFails

\* RunWithContext has returned: the process is about to exit.
Idle == runner = "returned" /\ UNCHANGED vars

Next ==
    \/ \E l \in Listeners : acceptLoop(l) \/ AcceptError(l) \/ \E c \in Conns : Accept(l, c)
    \/ \E c \in Conns : handleConnection(c)
    \/ Run \/ Runner \/ Cancel \/ Idle

Spec == Init /\ [][Next]_vars

\* Goroutines are scheduled; reads and writes have deadlines and Handle a timeout.
FairSpec ==
    /\ Spec
    /\ \A l \in Listeners : WF_vars(acceptLoop(l))
    /\ \A c \in Conns : WF_vars(handleConnection(c))
    /\ WF_vars(Run) /\ WF_vars(Runner)

-----------------------------------------------------------------------------
(* Properties.                                                             *)

\* The types of the server's state; an address that is counted has a count
\* between one and the limit.
TypeOK ==
    /\ listener \in [Listeners -> {"unopened", "open", "closed"}]
    /\ acceptor \in [Listeners -> {"none", "running", "exited"}]
    /\ accepted \in [Listeners -> Conns \cup {NoConn}]
    /\ conn \in [Conns -> Handling \cup {"offered", "accepted", "refused", "released", "done"}]
    /\ served \in [Conns -> 0..MaxQueries]
    /\ DOMAIN connPerIP \subseteq IPs /\ \A ip \in DOMAIN connPerIP : connPerIP[ip] \in 1..MaxPerIP
    /\ wg \in Nat
    /\ run \in {"opening", "waiting", "stopping", "drained", "timeout", "failed"}
    /\ runner \in {"waiting", "stopping", "returned"} /\ ctxDone \in BOOLEAN

Live(ip) == {c \in Conns : IP[c] = ip /\ conn[c] \in Handling}

\* "Per-IP connection limiting": however many listeners accept at once, no
\* address has more handlers than the limit.
\* The map counts the handlers of each address on every path out of a handler,
\* and forgets an address with its last one, so that nobody stays refused.
\* The state is well typed throughout.
LimitPerIP ==
    /\ TypeOK
    /\ \A ip \in IPs : cur(ip) = Cardinality(Live(ip)) /\ cur(ip) <= MaxPerIP

\* When Run's Stop has found the WaitGroup at zero, no accept loop and no handler
\* is left, and none starts afterwards.
DrainedMeansIdle ==
    run = "drained" =>
        /\ \A l \in Listeners : acceptor[l] = "exited"
        /\ \A c \in Conns : conn[c] \in {"offered", "refused", "done"}

\* Every connection a listener accepted is refused or ends, whatever its client
\* sends.
EveryConnectionEnds == <>[](\A c \in Conns : conn[c] \in {"offered", "refused", "done"})

\* After cancellation all accept loops and handlers exit, also when Run is still
\* opening listeners or one could not be opened.
ShutdownCompletes ==
    ctxDone ~> /\ \A l \in Listeners : acceptor[l] # "running"
               /\ \A c \in Conns : conn[c] \in {"offered", "refused", "done"}
=============================================================================
