--------------------------- MODULE Servers_proofs ---------------------------
(***************************************************************************)
(* The two servers.  TCP: the limit of connections per address holds and a *)
(* drained server is idle, for any connections, addresses, listeners and   *)
(* limits.  UDP: every buffer has one owner and every answer goes to its   *)
(* own question, for any packets, workers and buffers, whatever the        *)
(* packets contain.                                                        *)
(***************************************************************************)
EXTENDS TCPServer, UDPServer, FiniteSetTheorems, TLAPS

Loops    == {l \in Listeners : acceptor[l] = "running"}
Handlers == {c \in Conns : conn[c] \in Handling \cup {"released"}}

\* A handler that is past its check has an iteration left.
Iterating == \A c \in Conns : conn[c] \in {"read", "handle", "write"} => served[c] < MaxQueries

\* The map counts the handlers, the WaitGroup the goroutines.
Counted == \A ip \in IPs : cur(ip) = Cardinality(Live(ip))
Waited  == wg = Cardinality(Loops) + Cardinality(Handlers)

\* An accepted connection is in the hands of one running accept loop.
InHands ==
    /\ \A l \in Listeners : accepted[l] # NoConn =>
        acceptor[l] = "running" /\ conn[accepted[l]] = "accepted"
    /\ \A l, m \in Listeners : accepted[l] = accepted[m] /\ accepted[l] # NoConn => l = m
    /\ \A c \in Conns : conn[c] = "accepted" => \E l \in Listeners : accepted[l] = c

\* An accept loop is started with its listener, and all of them before Run waits.
Opened ==
    /\ \A l \in Listeners : listener[l] = "unopened" <=> acceptor[l] = "none"
    /\ run \notin {"opening", "failed"} => \A l \in Listeners : listener[l] # "unopened"

IInv == TypeOK /\ Iterating /\ Counted /\ Waited /\ InHands /\ Opened /\ DrainedMeansIdle

-----------------------------------------------------------------------------

\* The sets that are counted are finite.
LEMMA Finite ==
  /\ IsFiniteSet(Loops) /\ IsFiniteSet(Handlers)
  /\ Cardinality(Loops) \in Nat /\ Cardinality(Handlers) \in Nat
  /\ \A ip : IsFiniteSet(Live(ip)) /\ Cardinality(Live(ip)) \in Nat
  <1>1. IsFiniteSet(Loops) /\ IsFiniteSet(Handlers) /\ \A ip : IsFiniteSet(Live(ip))
    <2>1. Loops \in SUBSET Listeners /\ Handlers \in SUBSET Conns
      BY Zenon DEF Loops, Handlers
    <2>2. \A ip : Live(ip) \in SUBSET Conns
      BY Zenon DEF Live
    <2> QED
      BY Zenon, <2>1, <2>2, ConnsAssumption, FS_Subset
  <1> QED
    BY Zenon, <1>1, FS_CardinalityType

\* The invariant holds before the server starts.
LEMMA InvInit == Init => IInv
  <1> SUFFICES ASSUME Init PROVE IInv
    BY Zenon
  <1>1. Loops = {} /\ Handlers = {} /\ \A ip : Live(ip) = {}
    BY Zenon DEF Init, Loops, Handlers, Live, Handling
  <1>2. DOMAIN connPerIP = {}
    BY Zenon DEF Init
  <1>3. Counted
    BY Zenon, <1>1, <1>2, FS_EmptySet DEF Counted, cur
  <1>4. Waited
    BY <1>1, FS_EmptySet DEF Init, Waited
  <1>5. TypeOK
    <2>1. served \in [Conns -> 0..MaxQueries] /\ wg \in Nat
      BY LimitsAssumption DEF Init
    <2>2. \A ip \in DOMAIN connPerIP : connPerIP[ip] \in 1..MaxPerIP
      BY Zenon, <1>2
    <2> QED
      BY Zenon, <1>2, <2>1, <2>2 DEF Init, TypeOK
  <1> QED
    BY Zenon, <1>3, <1>4, <1>5 DEF Init, IInv, Iterating, InHands, Opened, DrainedMeansIdle

\* What is counted depends on conn and acceptor alone.
LEMMA SameCounts ==
  ASSUME Counted, Waited, UNCHANGED <<connPerIP, wg>>,
         Loops' = Loops, Handlers' = Handlers, \A ip \in IPs : Live(ip)' = Live(ip)
  PROVE  Counted' /\ Waited'
  BY Zenon DEF Counted, Waited, cur, IPs

\* A step that moves no goroutine disturbs none of the counts.
LEMMA SameGoroutines ==
  ASSUME Counted, Waited, Iterating, InHands,
         UNCHANGED <<acceptor, accepted, conn, served, connPerIP, wg>>
  PROVE  Counted' /\ Waited' /\ Iterating' /\ InHands'
  <1>1. Loops' = Loops /\ Handlers' = Handlers /\ \A ip \in IPs : Live(ip)' = Live(ip)
    BY Zenon DEF Loops, Handlers, Live
  <1>2. Counted' /\ Waited'
    BY Zenon, <1>1, SameCounts
  <1>3. Iterating' /\ InHands'
    BY Zenon DEF Iterating, InHands
  <1> QED
    BY Zenon, <1>2, <1>3

-----------------------------------------------------------------------------
(* acceptLoop                                                              *)

\* A connection that is accepted is not yet counted.
LEMMA AcceptInv ==
  ASSUME IInv, NEW l \in Listeners, NEW c \in Conns, Accept(l, c)
  PROVE  IInv'
  <1> USE DEF IInv, Accept, stopping
  <1>1. TypeOK' /\ Iterating'
    BY Zenon DEF TypeOK, Iterating, IPs
  <1>2. Counted' /\ Waited'
    <2>1. Loops' = Loops /\ Handlers' = Handlers /\ \A ip \in IPs : Live(ip)' = Live(ip)
      BY Zenon DEF TypeOK, Loops, Handlers, Live, Handling
    <2> QED
      BY Zenon, <2>1, SameCounts
  <1>3. InHands'
    BY ConnsAssumption DEF InHands, TypeOK
  <1>4. Opened' /\ DrainedMeansIdle'
    BY Zenon DEF Opened, DrainedMeansIdle, TypeOK
  <1> QED
    BY Zenon, <1>1, <1>2, <1>3, <1>4

\* An accept loop that exits leaves no connection behind.
LEMMA AcceptExitInv ==
  ASSUME IInv, NEW l \in Listeners, AcceptExit(l)
  PROVE  IInv'
  <1> USE DEF IInv, AcceptExit, handling, stopping
  <1>1. l \in Loops /\ Loops' = Loops \ {l} /\ Handlers' = Handlers
    BY Zenon DEF TypeOK, Loops, Handlers
  <1>2. Waited' /\ wg' \in Nat
    <2>1. Cardinality(Loops') = Cardinality(Loops) - 1
      BY Zenon, <1>1, Finite, FS_RemoveElement
    <2>2. Cardinality(Loops) # 0
      BY Zenon, <1>1, Finite, FS_EmptySet
    <2> QED
      BY <1>1, <2>1, <2>2, Finite DEF Waited
  <1>3. TypeOK' /\ Iterating'
    BY Zenon, <1>2 DEF TypeOK, Iterating, IPs
  <1>4. Counted'
    BY Zenon DEF Counted, cur, Live, IPs
  <1>5. InHands' /\ Opened' /\ DrainedMeansIdle'
    BY DEF InHands, Opened, DrainedMeansIdle, TypeOK
  <1> QED
    BY Zenon, <1>2, <1>3, <1>4, <1>5

\* A connection that is refused was never counted.
LEMMA RefuseInv ==
  ASSUME IInv, NEW l \in Listeners, Refuse(l)
  PROVE  IInv'
  <1> USE DEF IInv, Refuse, stopping
  <1>1. accepted[l] \in Conns /\ conn[accepted[l]] = "accepted"
    BY DEF TypeOK, InHands
  <1>2. TypeOK' /\ Iterating'
    BY Zenon, <1>1 DEF TypeOK, Iterating, IPs
  <1>3. Counted' /\ Waited'
    <2>1. Loops' = Loops /\ Handlers' = Handlers /\ \A ip \in IPs : Live(ip)' = Live(ip)
      BY Zenon, <1>1 DEF TypeOK, Loops, Handlers, Live, Handling
    <2> QED
      BY Zenon, <2>1, SameCounts
  <1>4. InHands'
    BY <1>1, ConnsAssumption DEF InHands, TypeOK
  <1>5. Opened' /\ DrainedMeansIdle'
    BY Zenon, <1>1 DEF Opened, DrainedMeansIdle, TypeOK
  <1> QED
    BY Zenon, <1>2, <1>3, <1>4, <1>5

\* A connection within the limit is counted once, by the map and the WaitGroup.
LEMMA AdmitInv ==
  ASSUME IInv, NEW l \in Listeners, Admit(l)
  PROVE  IInv'
  <1> DEFINE c == accepted[l]
  <1> USE DEF IInv, Admit, stopping
  <1>1. c \in Conns /\ conn[c] = "accepted" /\ IP[c] \in IPs
    BY DEF TypeOK, InHands, IPs
  <1>2. Loops' = Loops /\ c \notin Handlers /\ Handlers' = Handlers \cup {c}
    BY <1>1 DEF TypeOK, Loops, Handlers, Handling
  <1>3. Waited' /\ wg' \in Nat
    <2>1. Cardinality(Handlers') = Cardinality(Handlers) + 1
      BY Zenon, <1>2, Finite, FS_AddElement
    <2> QED
      BY <1>2, <2>1, Finite DEF Waited
  <1>4. ASSUME NEW ip \in IPs PROVE cur(ip)' = Cardinality(Live(ip))'
    <2>1. CASE ip = IP[c]
      <3>1. c \notin Live(ip) /\ Live(ip)' = Live(ip) \cup {c}
        BY <1>1, <2>1 DEF TypeOK, Live, Handling
      <3>2. cur(ip)' = cur(ip) + 1
        BY Zenon, <2>1 DEF cur, Count
      <3>3. cur(ip) = Cardinality(Live(ip)) /\ IsFiniteSet(Live(ip))
        BY Zenon, Finite DEF Counted
      <3>4. Cardinality(Live(ip) \cup {c}) = Cardinality(Live(ip)) + 1
        BY Zenon, <3>1, <3>3, FS_AddElement
      <3> QED
        BY Zenon, <3>1, <3>2, <3>3, <3>4
    <2>2. CASE ip # IP[c]
      <3>1. Live(ip)' = Live(ip)
        BY Zenon, <1>1, <2>2 DEF TypeOK, Live
      <3>2. cur(ip)' = cur(ip)
        BY Zenon, <2>2 DEF cur, Count
      <3> QED
        BY Zenon, <3>1, <3>2 DEF Counted
    <2> QED
      BY Zenon, <2>1, <2>2
  <1>5. Counted'
    BY Zenon, <1>4 DEF Counted, IPs
  <1>6. DOMAIN connPerIP' \subseteq IPs /\ \A ip \in DOMAIN connPerIP' : connPerIP'[ip] \in 1..MaxPerIP
    BY <1>1, LimitsAssumption DEF TypeOK, Count, cur, withinLimit
  <1>7. TypeOK' /\ Iterating'
    BY Zenon, <1>1, <1>3, <1>6 DEF TypeOK, Iterating, Handling, IPs
  <1>8. InHands'
    BY <1>1, ConnsAssumption DEF InHands, TypeOK
  <1>9. Opened' /\ DrainedMeansIdle'
    BY Zenon, <1>1 DEF Opened, DrainedMeansIdle, TypeOK
  <1> QED
    BY Zenon, <1>3, <1>5, <1>7, <1>8, <1>9

-----------------------------------------------------------------------------
(* handleConnection                                                        *)

\* A handler that goes on or decides to close.
Proceed(c) ==
    \/ Iterate(c) \/ ReadMessage(c) \/ ReadEmpty(c) \/ ReadFails(c)
    \/ Handled(c) \/ HandledSilently(c) \/ WriteMessage(c) \/ WriteFails(c)

\* A handler stays one until its deferred calls, and stays within its iterations.
LEMMA ProceedInv ==
  ASSUME IInv, NEW c \in Conns, Proceed(c)
  PROVE  IInv'
  <1> USE DEF IInv
  <1>1. /\ conn[c] \in Handling \ {"closing"}
        /\ \E at \in Handling : Goto(c, at)
        /\ served' \in [Conns -> 0..MaxQueries]
        /\ Iterating'
    <2> USE LimitsAssumption DEF TypeOK, Iterating, Goto, Handling, NextIteration
    <2>1. CASE Iterate(c)
      <3>1. conn[c] = "check" /\ UNCHANGED served
        BY Zenon, <2>1 DEF Iterate
      <3>2. CASE served[c] = MaxQueries \/ ctxDone
        <4>1. Goto(c, "closing")
          BY Zenon, <2>1, <3>2 DEF Iterate
        <4> QED
          BY Zenon, <3>1, <4>1
      <3>3. CASE ~(served[c] = MaxQueries \/ ctxDone)
        <4>1. Goto(c, "read")
          BY Zenon, <2>1, <3>3 DEF Iterate
        <4>2. served[c] < MaxQueries
          BY <3>3
        <4> QED
          BY Zenon, <3>1, <4>1, <4>2
      <3> QED
        BY Zenon, <3>2, <3>3
    <2>2. CASE ReadMessage(c) \/ ReadFails(c) \/ Handled(c) \/ WriteFails(c)
      BY Zenon, <2>2 DEF ReadMessage, ReadFails, Handled, WriteFails
    <2>3. CASE ReadEmpty(c) \/ HandledSilently(c) \/ WriteMessage(c)
      <3>1. conn[c] \in {"read", "handle", "write"} /\ NextIteration(c)
        BY Zenon, <2>3 DEF ReadEmpty, HandledSilently, WriteMessage
      <3>2. served[c] \in 0..MaxQueries /\ served[c] < MaxQueries
        BY Zenon, <3>1
      <3> QED
        BY <3>1, <3>2
    <2> QED
      BY Zenon, <2>1, <2>2, <2>3 DEF Proceed
  <1>2. PICK at \in Handling : Goto(c, at)
    BY Zenon, <1>1
  <1> USE DEF Goto, listening, stopping
  <1>3. TypeOK'
    BY Zenon, <1>1, <1>2 DEF TypeOK, IPs
  <1>4. Counted' /\ Waited'
    <2>1. Loops' = Loops /\ Handlers' = Handlers /\ \A ip \in IPs : Live(ip)' = Live(ip)
      BY Zenon, <1>1, <1>2 DEF TypeOK, Loops, Handlers, Live
    <2> QED
      BY Zenon, <1>2, <2>1, SameCounts
  <1>5. InHands' /\ Opened' /\ DrainedMeansIdle'
    BY <1>1, <1>2, ConnsAssumption DEF InHands, Opened, DrainedMeansIdle, TypeOK, Handling
  <1> QED
    BY Zenon, <1>1, <1>3, <1>4, <1>5

\* A handler gives its place up once, and the address goes with its last one.
LEMMA ReleaseInv ==
  ASSUME IInv, NEW c \in Conns, releaseConn(c)
  PROVE  IInv'
  <1> USE DEF IInv, releaseConn, listening, stopping
  <1>1. IP[c] \in IPs
    BY Zenon DEF IPs
  <1>2. ASSUME NEW ip \in IPs PROVE cur(ip) \in 0..MaxPerIP
    BY <1>2, LimitsAssumption DEF TypeOK, cur
  <1>3. ASSUME NEW ip \in IPs PROVE cur(ip)' = Cardinality(Live(ip))'
    <2>1. CASE ip = IP[c]
      <3>1. c \in Live(ip) /\ Live(ip)' = Live(ip) \ {c}
        BY Zenon, <2>1 DEF TypeOK, Live, Handling
      <3>2. Cardinality(Live(ip)') = Cardinality(Live(ip)) - 1
        BY ZenonT(30), <3>1, Finite, FS_RemoveElement
      <3>3. Cardinality(Live(ip)) # 0
        BY Zenon, <3>1, Finite, FS_EmptySet
      <3>4. cur(ip) >= 1
        BY <3>3, Finite DEF Counted
      <3>5. cur(ip)' = cur(ip) - 1
        <4>1. CASE cur(ip) <= 1
          <5>1. ip \notin DOMAIN connPerIP'
            BY Zenon, <2>1, <4>1
          <5> QED
            BY <1>2, <3>4, <4>1, <5>1 DEF cur
        <4>2. CASE ~(cur(ip) <= 1)
          BY Zenon, <2>1, <4>2 DEF cur, Count
        <4> QED
          BY Zenon, <4>1, <4>2
      <3> QED
        BY Zenon, <3>2, <3>5 DEF Counted
    <2>2. CASE ip # IP[c]
      <3>1. Live(ip)' = Live(ip)
        BY Zenon, <2>2 DEF TypeOK, Live
      <3>2. cur(ip)' = cur(ip)
        BY Zenon, <2>2 DEF cur, Count
      <3> QED
        BY Zenon, <3>1, <3>2 DEF Counted
    <2> QED
      BY Zenon, <2>1, <2>2
  <1>4. Counted'
    BY Zenon, <1>3 DEF Counted, IPs
  <1>5. DOMAIN connPerIP' \subseteq IPs /\ \A ip \in DOMAIN connPerIP' : connPerIP'[ip] \in 1..MaxPerIP
    BY <1>1, <1>2, LimitsAssumption DEF TypeOK, Count
  <1>6. TypeOK' /\ Iterating'
    BY Zenon, <1>5 DEF TypeOK, Iterating, IPs
  <1>7. Waited'
    <2>1. Loops' = Loops /\ Handlers' = Handlers
      BY Zenon DEF TypeOK, Loops, Handlers, Handling
    <2> QED
      BY Zenon, <2>1 DEF Waited
  <1>8. InHands' /\ Opened' /\ DrainedMeansIdle'
    BY ConnsAssumption DEF InHands, Opened, DrainedMeansIdle, TypeOK
  <1> QED
    BY Zenon, <1>4, <1>6, <1>7, <1>8

\* The WaitGroup counts a handler until its goroutine ends.
LEMMA DoneInv ==
  ASSUME IInv, NEW c \in Conns, HandlerDone(c)
  PROVE  IInv'
  <1> USE DEF IInv, HandlerDone, listening, stopping
  <1>1. c \in Handlers /\ Handlers' = Handlers \ {c} /\ Loops' = Loops
    BY Zenon DEF TypeOK, Loops, Handlers, Handling
  <1>2. Waited' /\ wg' \in Nat
    <2>1. Cardinality(Handlers') = Cardinality(Handlers) - 1
      BY Zenon, <1>1, Finite, FS_RemoveElement
    <2>2. Cardinality(Handlers) # 0
      BY Zenon, <1>1, Finite, FS_EmptySet
    <2> QED
      BY <1>1, <2>1, <2>2, Finite DEF Waited
  <1>3. TypeOK' /\ Iterating'
    BY Zenon, <1>2 DEF TypeOK, Iterating, IPs
  <1>4. Counted'
    <2>1. \A ip \in IPs : Live(ip)' = Live(ip)
      BY Zenon DEF TypeOK, Live, Handling
    <2> QED
      BY Zenon, <2>1 DEF Counted, cur, IPs
  <1>5. InHands' /\ Opened' /\ DrainedMeansIdle'
    BY ConnsAssumption DEF InHands, Opened, DrainedMeansIdle, TypeOK
  <1> QED
    BY Zenon, <1>2, <1>3, <1>4, <1>5

-----------------------------------------------------------------------------
(* Run, Stop and RunWithContext                                            *)

\* A listener that is opened gets its accept loop, while Run has not stopped.
LEMMA OpenInv ==
  ASSUME IInv, NEW l \in Listeners, OpenListener(l)
  PROVE  IInv'
  <1> USE DEF IInv, OpenListener, handling, stopping
  <1>1. l \notin Loops /\ Loops' = Loops \cup {l} /\ Handlers' = Handlers
    BY Zenon DEF TypeOK, Opened, Loops, Handlers
  <1>2. Waited' /\ wg' \in Nat
    <2>1. Cardinality(Loops') = Cardinality(Loops) + 1
      BY Zenon, <1>1, Finite, FS_AddElement
    <2> QED
      BY <1>1, <2>1, Finite DEF Waited
  <1>3. TypeOK' /\ Iterating'
    BY Zenon, <1>2 DEF TypeOK, Iterating, IPs
  <1>4. Counted'
    BY Zenon DEF Counted, cur, Live, IPs
  <1>5. InHands' /\ Opened' /\ DrainedMeansIdle'
    BY DEF InHands, Opened, DrainedMeansIdle, TypeOK
  <1> QED
    BY Zenon, <1>2, <1>3, <1>4, <1>5

\* Steps of Run and RunWithContext that start and end no goroutine.
Control ==
    \/ OpenFails \/ RunWaits \/ RunStops \/ RunDrained \/ RunTimeout
    \/ Runner \/ Cancel

\* A counter of zero means that no goroutine is left.
LEMMA ZeroMeansIdle ==
  ASSUME IInv, wg = 0, \A l \in Listeners : listener[l] # "unopened"
  PROVE  /\ \A l \in Listeners : acceptor[l] = "exited"
         /\ \A c \in Conns : conn[c] \in {"offered", "refused", "done"}
  <1> USE DEF IInv
  <1>1. Cardinality(Loops) = 0 /\ Cardinality(Handlers) = 0
    BY Finite DEF Waited
  <1>2. Loops = {} /\ Handlers = {}
    BY Zenon, <1>1, Finite, FS_EmptySet
  <1>3. \A l \in Listeners : acceptor[l] = "exited"
    BY <1>2 DEF Loops, TypeOK, Opened
  <1>4. \A c \in Conns : conn[c] # "accepted"
    BY <1>3, ConnsAssumption DEF InHands
  <1> QED
    BY Zenon, <1>2, <1>3, <1>4 DEF Handlers, TypeOK

\* Control steps touch no count, and Run is drained only at zero.
LEMMA ControlInv ==
  ASSUME IInv, Control
  PROVE  IInv'
  <1> USE DEF IInv, Runner, listening, handling
  <1>1. UNCHANGED <<acceptor, accepted, conn, served, connPerIP, wg>>
    BY Zenon DEF Control, OpenFails, RunWaits, RunStops, RunDrained, RunTimeout, RunnerStops,
           RunnerReturns, RunnerFails, Cancel
  <1>2. UNCHANGED listener \/ CloseListeners
    BY Zenon DEF Control, OpenFails, RunWaits, RunStops, RunDrained, RunTimeout, RunnerStops,
           RunnerReturns, RunnerFails, Cancel
  <1>3. TypeOK'
    <2>1. listener' \in [Listeners -> {"unopened", "open", "closed"}]
      BY <1>2 DEF CloseListeners, TypeOK
    <2>2. /\ run' \in {"opening", "waiting", "stopping", "drained", "timeout", "failed"}
          /\ runner' \in {"waiting", "stopping", "returned"} /\ ctxDone' \in BOOLEAN
      BY Zenon DEF Control, OpenFails, RunWaits, RunStops, RunDrained, RunTimeout, RunnerStops,
             RunnerReturns, RunnerFails, Cancel, TypeOK
    <2> QED
      BY Zenon, <1>1, <2>1, <2>2 DEF TypeOK, IPs
  <1>4. Counted' /\ Waited' /\ Iterating' /\ InHands'
    BY Zenon, <1>1, SameGoroutines
  <1>5. \A l \in Listeners : listener'[l] = "unopened" <=> listener[l] = "unopened"
    BY Zenon, <1>2 DEF CloseListeners, TypeOK
  <1>6. Opened'
    <2>1. run' \notin {"opening", "failed"} => \A l \in Listeners : listener[l] # "unopened"
      BY Zenon DEF Control, OpenFails, RunWaits, RunStops, RunDrained, RunTimeout, RunnerStops,
             RunnerReturns, RunnerFails, Cancel, Opened
    <2> QED
      BY Zenon, <1>1, <1>5, <2>1 DEF Opened
  <1>7. DrainedMeansIdle'
    <2>1. run' = "drained" => run = "drained" \/ (run = "stopping" /\ wg = 0)
      BY Zenon DEF Control, OpenFails, RunWaits, RunStops, RunDrained, RunTimeout, RunnerStops,
             RunnerReturns, RunnerFails, Cancel
    <2> QED
      BY Zenon, <1>1, <2>1, ZeroMeansIdle DEF DrainedMeansIdle, Opened
  <1> QED
    BY Zenon, <1>3, <1>4, <1>6, <1>7

-----------------------------------------------------------------------------

\* Every step of the server keeps the invariant.
LEMMA InvNext == IInv /\ [Next]_vars => IInv'
  <1> SUFFICES ASSUME IInv, [Next]_vars PROVE IInv'
    BY Zenon
  <1>1. ASSUME NEW l \in Listeners, acceptLoop(l) \/ AcceptError(l) PROVE IInv'
    BY Zenon, <1>1, AcceptExitInv, RefuseInv, AdmitInv DEF acceptLoop, AcceptClosed, AcceptError
  <1>2. ASSUME NEW l \in Listeners, NEW c \in Conns, Accept(l, c) PROVE IInv'
    BY Zenon, <1>2, AcceptInv
  <1>3. ASSUME NEW c \in Conns, handleConnection(c) PROVE IInv'
    BY Zenon, <1>3, ProceedInv, ReleaseInv, DoneInv DEF handleConnection, Proceed
  <1>4. CASE Run \/ Runner \/ Cancel
    BY Zenon, <1>4, OpenInv, ControlInv DEF Run, Control
  <1>5. CASE UNCHANGED vars
    <2>1. Counted' /\ Waited' /\ Iterating' /\ InHands'
      BY Zenon, <1>5, SameGoroutines DEF IInv, vars, listening, handling
    <2>2. TypeOK'
      BY Zenon, <1>5 DEF IInv, TypeOK, IPs, vars, listening, handling, stopping
    <2>3. Opened' /\ DrainedMeansIdle'
      BY Zenon, <1>5 DEF IInv, Opened, DrainedMeansIdle, vars, listening, handling, stopping
    <2> QED
      BY Zenon, <2>1, <2>2, <2>3 DEF IInv
  <1> QED
    BY Zenon, <1>1, <1>2, <1>3, <1>4, <1>5 DEF Next, Idle

\* The counts, hands and openings are right at every moment.
THEOREM Invariance == Spec => []IInv
  BY InvInit, InvNext, PTL DEF Spec

\* No address ever has more handlers than the limit, and the map counts them.
THEOREM Limited == Spec => []LimitPerIP
  <1>1. IInv => LimitPerIP
    <2> SUFFICES ASSUME IInv, NEW ip \in IPs PROVE cur(ip) <= MaxPerIP
      BY Zenon DEF IInv, LimitPerIP, Counted
    <2> QED
      BY LimitsAssumption DEF IInv, TypeOK, cur
  <1> QED
    BY <1>1, Invariance, PTL

\* When Run's Stop has found the WaitGroup at zero, nothing runs any more.
THEOREM Drained == Spec => []DrainedMeansIdle
  <1>1. IInv => DrainedMeansIdle
    BY Zenon DEF IInv
  <1> QED
    BY <1>1, Invariance, PTL

-----------------------------------------------------------------------------
(* The UDP server                                                          *)

\* The channel holds every queued packet once.
Queued ==
    /\ \A i \in 1..Len(queue) : stage[queue[i]] = "queued"
    /\ \A i, j \in 1..Len(queue) : queue[i] = queue[j] => i = j

\* A worker has a packet while it handles one, and no other worker has it.
Working ==
    /\ \A w \in Workers : current[w] # None <=> worker[w] \in {"wait", "write"}
    /\ \A w \in Workers : current[w] # None => stage[current[w]] = "taken"
    /\ \A v, w \in Workers : current[v] = current[w] /\ current[v] # None => v = w

Reading == receiver = "read" <=> rbuf # None

\* Who was queued has a buffer to name, and only then a resolver goroutine.
Buffered ==
    \A p \in Packets : /\ stage[p] \notin {"sent", "dropped"} => bufOf[p] \in Buffers
                       /\ job[p] # "none" => stage[p] \notin {"sent", "dropped"}

\* Every buffer is in one place.
Owned ==
    /\ \A p, q \in Held : bufOf[p] = bufOf[q] => p = q
    /\ \A p \in Held : bufOf[p] \notin free /\ bufOf[p] # rbuf
    /\ rbuf \notin free
    /\ \A b \in Buffers : b \in free \/ b = rbuf \/ \E p \in Held : bufOf[p] = b

ServerInv ==
    /\ UDPTypeOK /\ Queued /\ Working /\ Reading /\ Buffered /\ Owned /\ AnswersOwnPacket

\* The channel has room for a packet, and None is neither a buffer nor a packet.
LEMMA Assumed == QueueSize \in Nat \ {0} /\ None \notin Buffers /\ None \notin Packets
  BY QueueAssumption, PacketsAssumption

\* What the channel has are packets.
LEMMA ChannelOf == queue \in Seq(Packets) => \A i \in 1..Len(queue) : queue[i] \in Packets
  OBVIOUS

\* The invariant has what BufferSingleOwner says.
LEMMA OwnedOnce == ServerInv => BufferSingleOwner
  BY Assumed DEF ServerInv, Owned, BufferSingleOwner, UDPTypeOK, Buffered, Held

\* All buffers are in the pool when the server starts.
LEMMA ServerInit == UDPInit => ServerInv
  <1> SUFFICES ASSUME UDPInit PROVE ServerInv
    BY Zenon
  <1>1. UDPTypeOK
    <2>1. queue \in Seq(Packets) /\ Len(queue) <= QueueSize
      BY Assumed DEF UDPInit
    <2> QED
      BY Zenon, <2>1 DEF UDPInit, UDPTypeOK
  <1>2. Queued /\ Working /\ Reading
    BY DEF UDPInit, Queued, Working, Reading
  <1>3. Buffered /\ Owned /\ AnswersOwnPacket
    BY Zenon, Assumed DEF UDPInit, Buffered, Owned, Held, AnswersOwnPacket
  <1> QED
    BY Zenon, <1>1, <1>2, <1>3 DEF ServerInv

\* Who leaves the channel and the workers alone does not disturb them.
LEMMA SameWork ==
  Queued /\ Working /\ UNCHANGED <<stage, queue, worker, current>> => Queued' /\ Working'
  BY DEF Queued, Working

\* Nor the receiver.
LEMMA SameHands ==
  /\ Queued /\ Working /\ Reading
  /\ UNCHANGED <<stage, queue, worker, current>> /\ UNCHANGED <<receiver, rbuf>>
  => Queued' /\ Working' /\ Reading'
  BY Zenon, SameWork DEF Reading

\* The receiver takes a buffer from the pool.
LEMMA GetStep == ServerInv /\ RecvGet => ServerInv'
  <1> SUFFICES ASSUME ServerInv, RecvGet PROVE ServerInv'
    BY Zenon
  <1> USE DEF ServerInv, RecvGet, responding, resolving, running
  <1>1. UDPTypeOK'
    BY Zenon DEF UDPTypeOK
  <1>2. Queued' /\ Working'
    BY DEF Queued, Working
  <1>3. Reading'
    BY Zenon, Assumed DEF Reading, UDPTypeOK
  <1>4. Buffered' /\ AnswersOwnPacket'
    BY Zenon DEF Buffered, AnswersOwnPacket
  <1>5. Owned'
    <2>1. PICK b \in free : rbuf' = b /\ free' = free \ {b}
      BY Zenon
    <2>2. Held' = Held /\ rbuf = None
      BY Zenon DEF Held, Reading
    <2> QED
      BY <2>1, <2>2, Assumed DEF Owned, UDPTypeOK
  <1> QED
    BY Zenon, <1>1, <1>2, <1>3, <1>4, <1>5

\* A datagram takes its buffer into the channel, or gives it back.
LEMMA PacketStep == ASSUME NEW p \in Packets PROVE ServerInv /\ RecvPacket(p) => ServerInv'
  <1> SUFFICES ASSUME ServerInv, RecvPacket(p) PROVE ServerInv'
    BY Zenon
  <1> USE DEF ServerInv, RecvPacket, responding, resolving, running
  <1>0. rbuf \in Buffers /\ stage[p] = "sent"
    BY Zenon DEF UDPTypeOK, Reading
  <1>00. rbuf' = None /\ receiver' = "get"
    BY Zenon
  <1>1. CASE /\ Len(queue) < QueueSize
             /\ queue' = Append(queue, p)
             /\ bufOf' = [bufOf EXCEPT ![p] = rbuf]
             /\ stage' = [stage EXCEPT ![p] = "queued"]
             /\ UNCHANGED free
    <2>0. /\ Len(queue') = Len(queue) + 1 /\ Len(queue) \in Nat /\ queue' \in Seq(Packets)
          /\ \A i \in 1..Len(queue) : queue'[i] = queue[i] /\ queue[i] \in Packets
          /\ queue'[Len(queue) + 1] = p
      BY <1>1 DEF UDPTypeOK
    <2>1. UDPTypeOK'
      <3>1. Len(queue') <= QueueSize
        BY <1>1, <2>0, Assumed
      <3>2. stage' \in [Packets -> {"sent", "dropped", "queued", "taken", "answered", "silent"}]
        BY Zenon, <1>1 DEF UDPTypeOK
      <3>3. /\ bufOf' \in [Packets -> Buffers \cup {None}]
            /\ content' \in [Buffers -> Packets \cup {None}]
        BY Zenon, <1>0, <1>1 DEF UDPTypeOK
      <3> QED
        BY Zenon, <1>00, <1>1, <2>0, <3>1, <3>2, <3>3 DEF UDPTypeOK
    <2>2. \A i \in 1..Len(queue) : queue[i] # p
      BY Zenon, <1>0 DEF Queued
    <2>3. Queued'
      BY <1>1, <2>0, <2>2 DEF Queued, UDPTypeOK
    <2>4. Working'
      BY <1>0, <1>1 DEF Working, UDPTypeOK
    <2>5. Reading'
      BY Zenon, <1>00 DEF Reading
    <2>6. Buffered' /\ AnswersOwnPacket'
      BY Zenon, <1>0, <1>1 DEF Buffered, AnswersOwnPacket, UDPTypeOK
    <2>7. Held' = Held \cup {p} /\ p \notin Held
      BY Zenon, <1>0, <1>1 DEF Held, UDPTypeOK
    <2>8. \A q \in Held : bufOf'[q] = bufOf[q] /\ bufOf[q] \in Buffers
      BY Zenon, <1>1, <2>7 DEF Held, UDPTypeOK, Buffered
    <2>80. bufOf'[p] = rbuf
      BY Zenon, <1>1 DEF UDPTypeOK
    <2>9. Owned'
      <3>1. ASSUME NEW q \in Held', NEW r \in Held', bufOf'[q] = bufOf'[r] PROVE q = r
        BY Zenon, <2>7, <2>8, <2>80, <3>1 DEF Owned
      <3>2. \A q \in Held' : bufOf'[q] \in Buffers /\ bufOf'[q] \notin free
        BY Zenon, <1>0, <2>7, <2>8, <2>80 DEF Owned
      <3>3. None \notin free
        BY Zenon, Assumed DEF UDPTypeOK
      <3>4. ASSUME NEW b \in Buffers PROVE b \in free \/ \E q \in Held' : bufOf'[q] = b
        BY Zenon, <2>7, <2>8, <2>80 DEF Owned
      <3>5. free' = free /\ rbuf' = None
        BY Zenon, <1>00, <1>1
      <3>6. \A q \in Held' : bufOf'[q] \notin free' /\ bufOf'[q] # rbuf'
        BY Zenon, <3>2, <3>5, Assumed
      <3>7. \A b \in Buffers : b \in free' \/ b = rbuf' \/ \E q \in Held' : bufOf'[q] = b
        BY Zenon, <3>4, <3>5
      <3> HIDE DEF ServerInv, RecvPacket
      <3> QED
        BY Zenon, <3>1, <3>3, <3>5, <3>6, <3>7 DEF Owned
    <2> QED
      BY Zenon, <2>1, <2>3, <2>4, <2>5, <2>6, <2>9
  <1>2. CASE /\ stage' = [stage EXCEPT ![p] = "dropped"]
             /\ free' = free \cup {rbuf}
             /\ UNCHANGED <<queue, bufOf>>
    <2>1. UDPTypeOK'
      BY Zenon, <1>0, <1>2, Assumed DEF UDPTypeOK
    <2>2. \A i \in 1..Len(queue) : queue[i] # p /\ queue[i] \in Packets
      BY <1>0 DEF Queued, UDPTypeOK
    <2>3. Queued'
      BY <1>2, <2>2 DEF Queued, UDPTypeOK
    <2>4. Working'
      BY <1>0, <1>2 DEF Working, UDPTypeOK
    <2>5. Reading'
      BY Zenon, <1>00 DEF Reading
    <2>6. Buffered' /\ AnswersOwnPacket'
      BY Zenon, <1>0, <1>2 DEF Buffered, AnswersOwnPacket, UDPTypeOK
    <2>7. Held' = Held
      BY Zenon, <1>0, <1>2 DEF Held, UDPTypeOK
    <2>8. \A q \in Held : bufOf[q] \in Buffers
      BY Zenon DEF Held, Buffered
    <2>9. Owned'
      BY <1>0, <1>00, <1>2, <2>7, <2>8, Assumed DEF Owned, UDPTypeOK
    <2> QED
      BY Zenon, <2>1, <2>3, <2>4, <2>5, <2>6, <2>9
  <1> QED
    BY Zenon, <1>1, <1>2

\* A receiver that ends gives its buffer back.
LEMMA ExitStep == ServerInv /\ RecvExit => ServerInv'
  <1> SUFFICES ASSUME ServerInv, RecvExit PROVE ServerInv'
    BY Zenon
  <1> USE DEF ServerInv, RecvExit, responding, resolving, running
  <1>0. rbuf \in Buffers
    BY Zenon DEF UDPTypeOK, Reading
  <1>1. UDPTypeOK'
    BY Zenon, <1>0 DEF UDPTypeOK
  <1>2. Queued' /\ Working'
    BY Zenon, SameWork
  <1>3. Reading'
    BY Zenon DEF Reading
  <1>4. Buffered' /\ AnswersOwnPacket'
    BY Zenon DEF Buffered, AnswersOwnPacket
  <1>5. Held' = Held /\ \A p \in Held : bufOf[p] \in Buffers
    BY Zenon DEF Held, Buffered
  <1>6. Owned'
    BY <1>0, <1>5, Assumed DEF Owned, UDPTypeOK
  <1> QED
    BY Zenon, <1>1, <1>2, <1>3, <1>4, <1>6

\* A worker that ends has no packet.
LEMMA WorkerExitStep ==
  ASSUME NEW w \in Workers
  PROVE  ServerInv /\ WorkerExit(w) => ServerInv'
  <1> SUFFICES ASSUME ServerInv, WorkerExit(w) PROVE ServerInv'
    BY Zenon
  <1> USE DEF ServerInv, WorkerExit, receiving, resolving, running
  <1>1. UDPTypeOK'
    BY Zenon DEF UDPTypeOK
  <1>2. Queued' /\ Working'
    BY DEF Queued, Working, UDPTypeOK
  <1>3. Reading' /\ Buffered'
    BY Zenon DEF Reading, Buffered
  <1>4. AnswersOwnPacket'
    BY Zenon DEF AnswersOwnPacket, UDPTypeOK
  <1>5. Owned'
    BY Zenon DEF Owned, Held
  <1> QED
    BY Zenon, <1>1, <1>2, <1>3, <1>4, <1>5

\* A worker takes the first packet of the channel.
LEMMA TakeStep ==
  ASSUME NEW w \in Workers, ServerInv, Take(w), NEW at \in {"wait", "write"},
         worker' = [worker EXCEPT ![w] = at],
         UNCHANGED <<bufOf, content, free, rbuf, receiver, asked, reply, running>>
  PROVE  /\ Head(queue) \in Packets /\ stage[Head(queue)] = "queued"
         /\ queue' \in Seq(Packets) /\ Len(queue') <= QueueSize
         /\ Queued' /\ Working' /\ Owned' /\ current'[w] = Head(queue)
  <1> DEFINE p == Head(queue)
  <1> USE DEF ServerInv, Take
  <1>1. /\ queue \in Seq(Packets) /\ queue # <<>> /\ Len(queue) \in Nat /\ 1 \in 1..Len(queue)
        /\ p = queue[1] /\ p \in Packets
        /\ Len(queue') = Len(queue) - 1 /\ queue' \in Seq(Packets)
        /\ \A i \in 1..Len(queue') : queue'[i] = queue[i + 1] /\ i + 1 \in 1..Len(queue)
    BY DEF UDPTypeOK
  <1>2. stage[p] = "queued" /\ p # None /\ current[w] = None
    BY <1>1, Assumed DEF Queued, Working
  <1> HIDE DEF p
  <1>3. /\ current' = [current EXCEPT ![w] = p] /\ stage' = [stage EXCEPT ![p] = "taken"]
    BY Zenon DEF p
  <1>4. Len(queue') <= QueueSize
    BY <1>1, Assumed DEF UDPTypeOK
  <1>5. \A i \in 1..Len(queue') : queue'[i] # p /\ queue'[i] \in Packets
    <2> TAKE i \in 1..Len(queue')
    <2>1. queue'[i] = queue[i + 1] /\ i + 1 \in 1..Len(queue) /\ i + 1 # 1
      BY <1>1
    <2> QED
      BY <1>1, <2>1 DEF Queued
  <1>6. Queued'
    <2>1. \A i \in 1..Len(queue') : stage'[queue'[i]] = "queued"
      BY <1>1, <1>3, <1>5 DEF Queued, UDPTypeOK
    <2>2. ASSUME NEW i \in 1..Len(queue'), NEW j \in 1..Len(queue'), queue'[i] = queue'[j]
          PROVE  i = j
      <3>1. i + 1 = j + 1
        BY <1>1, <2>2 DEF Queued
      <3> QED
        BY <1>1, <3>1
    <2> QED
      BY Zenon, <2>1, <2>2 DEF Queued
  <1>7. \A v \in Workers : current[v] # None => current[v] # p /\ current[v] \in Packets
    BY <1>2 DEF Working, UDPTypeOK
  <1>8. Working'
    BY <1>2, <1>3, <1>7 DEF Working, UDPTypeOK
  <1>9. Held' = Held
    BY Zenon, <1>1, <1>2, <1>3 DEF Held, UDPTypeOK
  <1>10. Owned'
    BY Zenon, <1>9 DEF Owned
  <1>11. current'[w] = p
    BY Zenon, <1>3 DEF UDPTypeOK
  <1> QED
    BY Zenon, <1>1, <1>2, <1>4, <1>6, <1>8, <1>10, <1>11 DEF p

\* A packet that does not parse has its response at once.
LEMMA MalformedStep ==
  ASSUME NEW w \in Workers
  PROVE  ServerInv /\ TakeMalformed(w) => ServerInv'
  <1> SUFFICES ASSUME ServerInv, TakeMalformed(w) PROVE ServerInv'
    BY Zenon
  <1>1. /\ Head(queue) \in Packets /\ stage[Head(queue)] = "queued"
        /\ queue' \in Seq(Packets) /\ Len(queue') <= QueueSize
        /\ Queued' /\ Working' /\ Owned' /\ current'[w] = Head(queue)
    BY Zenon, TakeStep DEF TakeMalformed, resolving
  <1>2. PICK r \in {Error, None} : resp' = [resp EXCEPT ![w] = r]
    BY Zenon DEF TakeMalformed
  <1> USE DEF ServerInv, TakeMalformed, Take, resolving, running
  <1>3. UDPTypeOK'
    BY Zenon, <1>1, <1>2 DEF UDPTypeOK
  <1>4. Reading' /\ Buffered'
    BY Zenon, <1>1 DEF Reading, Buffered, UDPTypeOK
  <1>5. AnswersOwnPacket'
    BY <1>2 DEF AnswersOwnPacket, UDPTypeOK
  <1> QED
    BY Zenon, <1>1, <1>3, <1>4, <1>5

\* A query has a resolver goroutine, and its worker waits.
LEMMA QueryStep == ASSUME NEW w \in Workers PROVE ServerInv /\ TakeQuery(w) => ServerInv'
  <1> SUFFICES ASSUME ServerInv, TakeQuery(w) PROVE ServerInv'
    BY Zenon
  <1>1. /\ Head(queue) \in Packets /\ stage[Head(queue)] = "queued"
        /\ queue' \in Seq(Packets) /\ Len(queue') <= QueueSize
        /\ Queued' /\ Working' /\ Owned' /\ current'[w] = Head(queue)
    BY Zenon, TakeStep DEF TakeQuery
  <1> USE DEF ServerInv, TakeQuery, Take, running
  <1>3. UDPTypeOK'
    BY Zenon, <1>1 DEF UDPTypeOK
  <1>4. Reading' /\ Buffered'
    BY Zenon, <1>1 DEF Reading, Buffered, UDPTypeOK
  <1>5. AnswersOwnPacket'
    BY Zenon DEF AnswersOwnPacket, UDPTypeOK
  <1> QED
    BY Zenon, <1>1, <1>3, <1>4, <1>5

\* A handler that waits ends with an answer of its own packet, an error or nothing.
LEMMA RespondStep ==
  ASSUME NEW w \in Workers, ServerInv, worker[w] = "wait",
         NEW r \in {current[w], Error, None}, Respond(w, r)
  PROVE  ServerInv'
  <1> USE DEF ServerInv, Respond, receiving, resolving, running
  <1>0. current[w] \in Packets
    BY DEF Working, UDPTypeOK
  <1>1. UDPTypeOK'
    BY Zenon, <1>0 DEF UDPTypeOK
  <1>2. Queued' /\ Working'
    <2>1. worker' = [worker EXCEPT ![w] = "write"] /\ UNCHANGED <<current, stage, queue>>
      BY Zenon
    <2>2. Queued'
      BY Zenon, <2>1 DEF Queued
    <2>3. \A v \in Workers : worker'[v] \in {"wait", "write"} <=> worker[v] \in {"wait", "write"}
      BY Zenon, <2>1 DEF UDPTypeOK
    <2>4. Working
      BY Zenon
    <2> HIDE DEF ServerInv, Respond
    <2>5. Working'
      BY Zenon, <2>1, <2>3, <2>4 DEF Working
    <2> QED
      BY Zenon, <2>2, <2>5
  <1>3. Reading' /\ Buffered'
    BY Zenon DEF Reading, Buffered
  <1>4. AnswersOwnPacket'
    BY Zenon DEF AnswersOwnPacket, UDPTypeOK
  <1>5. Owned'
    BY Zenon DEF Owned, Held
  <1> QED
    BY Zenon, <1>1, <1>2, <1>3, <1>4, <1>5

\* Timeout, shutdown and result each end the wait.
LEMMA WaitStep ==
  ASSUME NEW w \in Workers, ServerInv,
         WaitShutdown(w) \/ WaitTimeout(w) \/ WaitResult(w)
  PROVE  ServerInv'
  <1>0. worker[w] = "wait" /\ current[w] \in Packets
    BY Zenon DEF WaitShutdown, WaitTimeout, WaitResult, ServerInv, Working, UDPTypeOK
  <1>1. CASE RespondError(w)
    BY Zenon, <1>0, <1>1, RespondStep DEF RespondError
  <1>2. CASE Respond(w, reply[current[w]])
    <2>1. reply[current[w]] \in {current[w], Error, None}
      BY Zenon, <1>0 DEF ServerInv, AnswersOwnPacket
    <2> QED
      BY Zenon, <1>0, <1>2, <2>1, RespondStep
  <1> QED
    BY Zenon, <1>1, <1>2 DEF WaitShutdown, WaitTimeout, WaitResult

\* The deferred Put gives back the buffer of the packet handled, which nobody else has.
LEMMA WriteStep == ASSUME NEW w \in Workers PROVE ServerInv /\ Write(w) => ServerInv'
  <1> SUFFICES ASSUME ServerInv, Write(w) PROVE ServerInv'
    BY Zenon
  <1> DEFINE p == current[w]
  <1> USE DEF ServerInv
  <1>1. p \in Packets /\ stage[p] = "taken" /\ bufOf[p] \in Buffers /\ p \in Held
    BY DEF Working, UDPTypeOK, Buffered, Held, Write
  <1>2. PICK s \in {"answered", "silent"} : stage' = [stage EXCEPT ![p] = s]
    BY Zenon DEF Write
  <1>3. /\ free' = free \cup {bufOf[p]} /\ current' = [current EXCEPT ![w] = None]
        /\ resp' = [resp EXCEPT ![w] = None] /\ worker' = [worker EXCEPT ![w] = "idle"]
        /\ UNCHANGED <<payload, bufOf, content, rbuf, receiver, queue, job, asked, reply>>
        /\ UNCHANGED <<socket, cancelled, udpRunner>>
    BY Zenon DEF Write, resolving, running
  <1>4. UDPTypeOK'
    BY <1>1, <1>2, <1>3 DEF UDPTypeOK
  <1>5. \A i \in 1..Len(queue) : queue[i] # p /\ queue[i] \in Packets
    BY Zenon, <1>1, ChannelOf DEF Queued, UDPTypeOK
  <1>6. Queued'
    BY Zenon, <1>2, <1>3, <1>5 DEF Queued, UDPTypeOK
  <1>7. \A v \in Workers : v # w /\ current[v] # None => current[v] # p /\ current[v] \in Packets
    BY <1>1, Assumed DEF Working, UDPTypeOK
  <1>8. Working'
    BY <1>1, <1>2, <1>3, <1>7 DEF Working, UDPTypeOK
  <1>9. Reading' /\ Buffered'
    BY Zenon, <1>1, <1>2, <1>3 DEF Reading, Buffered, UDPTypeOK
  <1>10. AnswersOwnPacket'
    BY Zenon, <1>3 DEF AnswersOwnPacket, UDPTypeOK
  <1>11. Held' = Held \ {p}
    BY Zenon, <1>1, <1>2 DEF Held, UDPTypeOK
  <1>12. Owned'
    <2>1. /\ \A q, r \in Held : bufOf[q] = bufOf[r] => q = r
          /\ \A q \in Held : bufOf[q] \notin free /\ bufOf[q] # rbuf
          /\ rbuf \notin free
          /\ \A b \in Buffers : b \in free \/ b = rbuf \/ \E q \in Held : bufOf[q] = b
      BY Zenon DEF Owned
    <2>2. \A q \in Held' : q \in Held /\ q # p
      BY Zenon, <1>11
    <2>3. \A q \in Held' : bufOf[q] \notin free' /\ bufOf[q] # rbuf
      BY Zenon, <1>1, <1>3, <2>1, <2>2
    <2>4. rbuf \notin free'
      BY Zenon, <1>1, <1>3, <2>1
    <2>5. \A b \in Buffers : b \in free' \/ b = rbuf \/ \E q \in Held' : bufOf[q] = b
      BY Zenon, <1>3, <1>11, <2>1
    <2>6. UNCHANGED <<bufOf, rbuf>>
      BY Zenon, <1>3
    <2> HIDE DEF ServerInv
    <2> QED
      BY Zenon, <2>1, <2>2, <2>3, <2>4, <2>5, <2>6 DEF Owned
  <1> QED
    BY Zenon, <1>4, <1>6, <1>8, <1>9, <1>10, <1>12

\* What the resolver goroutine reads from the buffer, it may not answer with.
LEMMA JobStep == ASSUME NEW p \in Packets PROVE ServerInv /\ Resolver(p) => ServerInv'
  <1> SUFFICES ASSUME ServerInv, Resolver(p) PROVE ServerInv'
    BY Zenon
  <1> USE DEF ServerInv
  <1>1. job[p] # "none" /\ bufOf[p] \in Buffers /\ stage[p] \notin {"sent", "dropped"}
    BY Zenon DEF Resolver, JobForward, JobAnswered, JobLocal, Buffered
  <1>2. CASE JobForward(p)
    <2>1. PICK x \in Packets \cup {None, Garbage} : asked' = [asked EXCEPT ![p] = x]
      BY Zenon, <1>1, <1>2 DEF JobForward, UDPTypeOK
    <2> USE <1>2 DEF JobForward, receiving, responding, running
    <2>2. UDPTypeOK'
      BY Zenon, <2>1 DEF UDPTypeOK
    <2>3. Queued' /\ Working' /\ Reading'
      BY Zenon, SameHands
    <2>4. Buffered'
      BY Zenon, <1>1 DEF Buffered, UDPTypeOK
    <2>5. Owned' /\ AnswersOwnPacket'
      BY Zenon DEF Owned, Held, AnswersOwnPacket
    <2> QED
      BY Zenon, <2>2, <2>3, <2>4, <2>5
  <1>3. ASSUME NEW r \in {p, Error}, Reply(p, r) PROVE ServerInv'
    <2> USE <1>3 DEF Reply, receiving, responding, running
    <2>2. UDPTypeOK'
      BY Zenon DEF UDPTypeOK
    <2>3. Queued' /\ Working' /\ Reading'
      BY Zenon, SameHands
    <2>4. Buffered'
      BY Zenon, <1>1 DEF Buffered, UDPTypeOK
    <2>5. Owned'
      BY Zenon DEF Owned, Held
    <2>6. AnswersOwnPacket'
      BY Zenon DEF AnswersOwnPacket, UDPTypeOK
    <2> QED
      BY Zenon, <2>2, <2>3, <2>4, <2>5, <2>6
  <1>4. CASE JobAnswered(p)
    BY Zenon, <1>3, <1>4 DEF JobAnswered, validate
  <1>5. CASE JobLocal(p)
    BY Zenon, <1>3, <1>5 DEF JobLocal
  <1> QED
    BY Zenon, <1>2, <1>4, <1>5 DEF Resolver

\* The runner and the signal change neither packets nor buffers.
LEMMA RunnerStep ==
  ServerInv /\ (UDPRunner \/ Shutdown \/ UDPIdle \/ UNCHANGED udpVars) => ServerInv'
  <1> SUFFICES ASSUME ServerInv, UDPRunner \/ Shutdown \/ UDPIdle \/ UNCHANGED udpVars
               PROVE  ServerInv'
    BY Zenon
  <1>1. /\ UNCHANGED <<payload, stage, bufOf, content, receiving, responding, resolving>>
        /\ socket' \in BOOLEAN /\ cancelled' \in BOOLEAN
        /\ udpRunner' \in {"running", "stopping", "returned"}
    BY Zenon DEF UDPRunner, UDPRunStops, UDPRunnerStops, StopDone, StopTimeout,
           UDPRunnerFails, Shutdown, UDPIdle,
           udpVars, running, ServerInv, UDPTypeOK
  <1> USE <1>1 DEF ServerInv, receiving, responding, resolving
  <1>2. UDPTypeOK'
    BY Zenon DEF UDPTypeOK
  <1>3. Queued' /\ Working' /\ Reading' /\ Buffered'
    BY Zenon, SameHands DEF Buffered
  <1>4. Owned' /\ AnswersOwnPacket'
    BY Zenon DEF Owned, Held, AnswersOwnPacket
  <1> QED
    BY Zenon, <1>2, <1>3, <1>4

\* Every step keeps the invariant.
LEMMA ServerNext == ServerInv /\ [UDPNext]_udpVars => ServerInv'
  <1> SUFFICES ASSUME ServerInv, [UDPNext]_udpVars PROVE ServerInv'
    BY Zenon
  <1>1. CASE Receiver
    BY Zenon, <1>1, GetStep, PacketStep, ExitStep DEF Receiver, RecvClosed, RecvError
  <1>2. ASSUME NEW w \in Workers, Worker(w) PROVE ServerInv'
    BY Zenon, <1>2, WorkerExitStep, MalformedStep, QueryStep, WaitStep, WriteStep DEF Worker
  <1>3. ASSUME NEW p \in Packets, Resolver(p) PROVE ServerInv'
    BY Zenon, <1>3, JobStep
  <1>4. CASE UDPRunner \/ Shutdown \/ UDPIdle \/ UNCHANGED udpVars
    BY Zenon, <1>4, RunnerStep
  <1> QED
    BY Zenon, <1>1, <1>2, <1>3, <1>4 DEF UDPNext

\* The invariant holds throughout.
LEMMA ServerInvariance == UDPSpec => []ServerInv
  BY ServerInit, ServerNext, PTL DEF UDPSpec

\* No buffer of the UDP server is put back twice or early, and none is lost, on any
\* path through recvLoop and handlePacket, for any packets, workers, buffers and
\* queue, whatever the bytes of a packet are.
THEOREM OneOwner == UDPSpec => []BufferSingleOwner
  BY ServerInvariance, OwnedOnce, PTL

\* A resolver goroutine whose handler has given up, and whose buffer may hold another
\* packet, still returns an answer to its own question or an error
\* (resolveWithTimeout, prepareQueryBytes, validateResponse).
THEOREM OwnAnswer == UDPSpec => []AnswersOwnPacket
  <1>1. ServerInv => AnswersOwnPacket
    BY Zenon DEF ServerInv
  <1> QED
    BY <1>1, ServerInvariance, PTL
=============================================================================
