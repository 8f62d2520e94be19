------------------------------ MODULE ConnPool ------------------------------
(***************************************************************************)
(* The pool of UDP connections to one upstream and the calls of queryOne   *)
(* that use it (internal/resolvers/forwarding_resolver.go).  The pools of  *)
(* different upstreams share nothing but poolMu.                           *)
(*                                                                         *)
(* ensurePool publishes the channel before it fills it, so workers take    *)
(* from and return to a pool that another worker is still filling; Close   *)
(* closes and drains the channel without waiting for the workers.  A       *)
(* connection is a number, in the order of the dials.  The runner cancels  *)
(* the context before it calls Close.                                      *)
(***************************************************************************)
EXTENDS Naturals, Sequences, FiniteSets

CONSTANTS
    Workers,      \* calls of queryOne
    PoolSize,     \* f.poolSize
    MaxRetries    \* f.maxRetries

ASSUME PoolAssumption == PoolSize \in Nat \ {0} /\ MaxRetries \in Nat \ {0}

VARIABLES
    pc,         \* where worker w is in queryOne
    mine,       \* the channel worker w got from ensurePool (0: none yet)
    conn,       \* the connection worker w holds (0: none)
    pooled,     \* fromPool: conn[w] came out of the channel
    filled,     \* connections worker w has pre-dialed so far
    tries,      \* attempts worker w has begun
    registered, \* f.udpPools[up]: the registered channel (0: absent)
    chans,      \* the buffers of all the channels made so far
    closed,     \* channels that have been closed
    open,       \* connections that are dialed and not closed
    dials,      \* number of connections dialed
    cancelled,  \* the context is cancelled
    closing,    \* Close: "no", "draining" (it holds poolMu), "done"
    crashed     \* a goroutine panicked: the process is gone

own  == <<pc, mine, conn, pooled, filled, tries>>
pool == <<registered, chans, closed>>
env  == <<cancelled, closing, crashed>>
vars == <<own, pool, open, dials, env>>

Finished == {"ok", "failed"}
PCs == {"ensure", "dial", "send", "retry", "acquire", "use", "release", "close"} \cup Finished

Init ==
    /\ pc = [w \in Workers |-> "ensure"]
    /\ mine = [w \in Workers |-> 0]
    /\ conn = [w \in Workers |-> 0]
    /\ pooled = [w \in Workers |-> FALSE]
    /\ filled = [w \in Workers |-> 0]
    /\ tries = [w \in Workers |-> 0]
    /\ registered = 0
    /\ chans = <<>>
    /\ closed = {}
    /\ open = {}
    /\ dials = 0
    /\ cancelled = FALSE
    /\ closing = "no"
    /\ crashed = FALSE

At(w, s)   == ~crashed /\ pc[w] = s
Goto(w, s) == pc' = [pc EXCEPT ![w] = s]
Full(c)    == Len(chans[c]) = PoolSize
Push(c, x) == chans' = [chans EXCEPT ![c] = Append(@, x)]

-----------------------------------------------------------------------------
(* ensurePool                                                              *)

\* Under poolMu: take the registered channel, or register a new one.
EnsurePool(w) ==
    /\ At(w, "ensure")
    /\ closing # "draining"
    /\ IF registered # 0
       THEN /\ mine' = [mine EXCEPT ![w] = registered]
            /\ Goto(w, "retry")
            /\ UNCHANGED pool
       ELSE /\ chans' = Append(chans, <<>>)
            /\ registered' = Len(chans')
            /\ mine' = [mine EXCEPT ![w] = registered']
            /\ Goto(w, "dial")
            /\ UNCHANGED closed
    /\ UNCHANGED <<conn, pooled, filled, tries, open, dials, env>>

\* ResolveUDPAddr failed: queryOne returns, the empty channel stays registered.
ResolveFails(w) ==
    /\ At(w, "dial") /\ filled[w] = 0
    /\ Goto(w, "failed")
    /\ UNCHANGED <<mine, conn, pooled, filled, tries, pool, open, dials, env>>

\* The next pre-dial fails: a partial pool is acceptable.
PredialFails(w) ==
    /\ At(w, "dial")
    /\ Goto(w, "retry")
    /\ UNCHANGED <<mine, conn, pooled, filled, tries, pool, open, dials, env>>

Predial(w) ==
    /\ At(w, "dial")
    /\ dials' = dials + 1
    /\ open' = open \cup {dials'}
    /\ conn' = [conn EXCEPT ![w] = dials']
    /\ Goto(w, "send")
    /\ UNCHANGED <<mine, pooled, filled, tries, pool, env>>

\* ch <- c: waits while the channel is full, panics when it is closed.
PredialSend(w) ==
    /\ At(w, "send")
    /\ IF mine[w] \in closed
       THEN crashed' = TRUE /\ UNCHANGED <<own, chans>>
       ELSE /\ ~Full(mine[w])
            /\ Push(mine[w], conn[w])
            /\ conn' = [conn EXCEPT ![w] = 0]
            /\ filled' = [filled EXCEPT ![w] = @ + 1]
            /\ Goto(w, IF filled'[w] = PoolSize THEN "retry" ELSE "dial")
            /\ UNCHANGED <<mine, pooled, tries, crashed>>
    /\ UNCHANGED <<registered, closed, open, dials, cancelled, closing>>

-----------------------------------------------------------------------------
(* queryOne's retry loop and acquireConnection                             *)

Retry(w) ==
    /\ At(w, "retry")
    /\ IF tries[w] = MaxRetries \/ cancelled
       THEN Goto(w, "failed") /\ UNCHANGED tries
       ELSE Goto(w, "acquire") /\ tries' = [tries EXCEPT ![w] = @ + 1]
    /\ UNCHANGED <<mine, conn, pooled, filled, pool, open, dials, env>>

\* case c := <-pool, with a connection in the buffer.
AcquirePooled(w) ==
    /\ At(w, "acquire")
    /\ chans[mine[w]] # <<>>
    /\ conn' = [conn EXCEPT ![w] = Head(chans[mine[w]])]
    /\ chans' = [chans EXCEPT ![mine[w]] = Tail(@)]
    /\ pooled' = [pooled EXCEPT ![w] = TRUE]
    /\ Goto(w, "use")
    /\ UNCHANGED <<mine, filled, tries, registered, closed, open, dials, env>>

\* case c := <-pool on a drained closed channel: c is nil, SetDeadline panics.
AcquireNil(w) ==
    /\ At(w, "acquire")
    /\ chans[mine[w]] = <<>> /\ mine[w] \in closed
    /\ crashed' = TRUE
    /\ UNCHANGED <<own, pool, open, dials, cancelled, closing>>

\* case <-ctx.Done()
AcquireCancelled(w) ==
    /\ At(w, "acquire")
    /\ cancelled
    /\ Goto(w, "failed")
    /\ UNCHANGED <<mine, conn, pooled, filled, tries, pool, open, dials, env>>

\* A variant: transient connections are marked as pooled ones.
AcquireUnmarked(w) ==
    /\ At(w, "acquire")
    /\ chans[mine[w]] = <<>> /\ mine[w] \notin closed /\ ~cancelled
    /\ dials' = dials + 1
    /\ open' = open \cup {dials'}
    /\ conn' = [conn EXCEPT ![w] = dials']
    /\ pooled' = [pooled EXCEPT ![w] = TRUE]
    /\ Goto(w, "use")
    /\ UNCHANGED <<mine, filled, tries, pool, env>>

\* default: a transient connection, or a dial error (a net.Error: retried).
AcquireTransient(w) ==
    /\ At(w, "acquire")
    /\ chans[mine[w]] = <<>> /\ mine[w] \notin closed /\ ~cancelled
    /\ \/ /\ dials' = dials + 1
          /\ open' = open \cup {dials'}
          /\ conn' = [conn EXCEPT ![w] = dials']
          /\ pooled' = [pooled EXCEPT ![w] = FALSE]
          /\ Goto(w, "use")
       \/ Goto(w, "retry") /\ UNCHANGED <<dials, open, conn, pooled>>
    /\ UNCHANGED <<mine, filled, tries, pool, env>>

-----------------------------------------------------------------------------
(* queryOneAttempt and releaseConnection                                   *)

\* The exchange ends: with a response or a failed TCP retry (connOK, the
\* connection is kept), or with a write or read error (it is closed).
Exchange(w) ==
    /\ At(w, "use")
    /\ \/ Goto(w, "release")
       \/ Goto(w, "close")
    /\ UNCHANGED <<mine, conn, pooled, filled, tries, pool, open, dials, env>>

CloseConn(w) ==
    /\ open' = open \ {conn[w]}
    /\ conn' = [conn EXCEPT ![w] = 0]

\* !connOK: the error is a net.Error, so queryOne tries again.
ReleaseBroken(w) ==
    /\ At(w, "close")
    /\ CloseConn(w)
    /\ Goto(w, "retry")
    /\ UNCHANGED <<mine, pooled, filled, tries, pool, dials, env>>

\* What queryOne does after a release: it returns the response, retries a
\* TCP timeout, or returns another TCP error.
AfterRelease(w) == \E s \in {"ok", "retry", "failed"} : Goto(w, s)

\* A variant: a transient connection is dropped without being closed.
ReleaseForgotten(w) ==
    /\ At(w, "release") /\ ~pooled[w]
    /\ conn' = [conn EXCEPT ![w] = 0]
    /\ AfterRelease(w)
    /\ UNCHANGED <<mine, pooled, filled, tries, pool, open, dials, env>>

\* Transient connections are always closed.
ReleaseTransient(w) ==
    /\ At(w, "release") /\ ~pooled[w]
    /\ CloseConn(w)
    /\ AfterRelease(w)
    /\ UNCHANGED <<mine, pooled, filled, tries, pool, dials, env>>

\* select { case pool <- c: default: c.Close() }: panics when the channel is closed.
ReleasePooled(w) ==
    /\ At(w, "release") /\ pooled[w]
    /\ IF mine[w] \in closed
       THEN crashed' = TRUE /\ UNCHANGED <<own, chans, open>>
       ELSE /\ IF Full(mine[w])
               THEN CloseConn(w) /\ UNCHANGED chans
               ELSE /\ Push(mine[w], conn[w])
                    /\ conn' = [conn EXCEPT ![w] = 0]
                    /\ UNCHANGED open
            /\ AfterRelease(w)
            /\ UNCHANGED <<mine, pooled, filled, tries, crashed>>
    /\ UNCHANGED <<registered, closed, dials, cancelled, closing>>

-----------------------------------------------------------------------------
(* Close, and the cancellation that precedes it.                           *)

Cancel ==
    /\ ~crashed /\ ~cancelled
    /\ cancelled' = TRUE
    /\ UNCHANGED <<own, pool, open, dials, closing, crashed>>

\* Lock poolMu, close the registered channel.
CloseBegin ==
    /\ ~crashed /\ cancelled /\ closing = "no"
    /\ closing' = "draining"
    /\ closed' = closed \cup ({registered} \ {0})
    /\ UNCHANGED <<own, registered, chans, open, dials, cancelled, crashed>>

\* for c := range ch { c.Close() }: workers may still receive meanwhile.
CloseDrain ==
    /\ ~crashed /\ closing = "draining"
    /\ registered # 0 /\ chans[registered] # <<>>
    /\ open' = open \ {Head(chans[registered])}
    /\ chans' = [chans EXCEPT ![registered] = Tail(@)]
    /\ UNCHANGED <<own, registered, closed, dials, env>>

\* f.udpPools is replaced by an empty map and poolMu is released.
CloseEnd ==
    /\ ~crashed /\ closing = "draining"
    /\ registered # 0 => chans[registered] = <<>>
    /\ registered' = 0
    /\ closing' = "done"
    /\ UNCHANGED <<own, chans, closed, open, dials, cancelled, crashed>>

-----------------------------------------------------------------------------

QueryOne(w) ==
    \/ EnsurePool(w) \/ ResolveFails(w) \/ PredialFails(w) \/ Predial(w) \/ PredialSend(w)
    \/ Retry(w)
    \/ AcquirePooled(w) \/ AcquireNil(w) \/ AcquireCancelled(w) \/ AcquireTransient(w)
    \/ Exchange(w) \/ ReleaseBroken(w) \/ ReleaseTransient(w) \/ ReleasePooled(w)

Close == CloseBegin \/ CloseDrain \/ CloseEnd

AllFinished == \A w \in Workers : pc[w] \in Finished

\* Nothing is left to do, or the process is gone.
Idle == (crashed \/ AllFinished) /\ UNCHANGED vars

Next ==
    \/ \E w \in Workers : QueryOne(w)
    \/ Cancel
    \/ Close
    \/ Idle

Spec == Init /\ [][Next]_vars

\* Every goroutine runs, every exchange ends at its deadline, and a Close that
\* has begun goes on.
FairSpec ==
    /\ Spec
    /\ \A w \in Workers : WF_vars(QueryOne(w))
    /\ WF_vars(CloseDrain \/ CloseEnd)

-----------------------------------------------------------------------------
(* Properties.                                                             *)

\* The types of the pool, the channels and the workers' locals.
TypeOK ==
    /\ pc \in [Workers -> PCs]
    /\ mine \in [Workers -> 0..Len(chans)]
    /\ conn \in [Workers -> 0..dials]
    /\ pooled \in [Workers -> BOOLEAN]
    /\ filled \in [Workers -> 0..PoolSize]
    /\ tries \in [Workers -> 0..MaxRetries]
    /\ registered \in 0..Len(chans)
    /\ \A c \in 1..Len(chans) : chans[c] \in Seq(1..dials) /\ Len(chans[c]) <= PoolSize
    /\ closed \subseteq 1..Len(chans)
    /\ open \subseteq 1..dials
    /\ dials \in Nat
    /\ cancelled \in BOOLEAN
    /\ closing \in {"no", "draining", "done"}
    /\ crashed \in BOOLEAN

\* The places a connection can be: a slot of a channel or a worker's hands.
Slots  == UNION {{<<c, i>> : i \in 1..Len(chans[c])} : c \in 1..Len(chans)}
Pooled == {chans[s[1]][s[2]] : s \in Slots}
Held   == {conn[w] : w \in Workers} \ {0}

\* No two queries ever use the same socket, and none uses a socket that waits in
\* a pool: a connection has one owner, so a response reaches the query that
\* sent the question.  And every socket that is open is in a channel or in use:
\* none is leaked, and no channel or worker keeps a socket that has been closed.
\* The state is well typed throughout.
ConnSingleOwner ==
    /\ TypeOK
    /\ \A v, w \in Workers : conn[v] = conn[w] /\ conn[v] # 0 => v = w
    /\ \A s, t \in Slots : chans[s[1]][s[2]] = chans[t[1]][t[2]] => s = t
    /\ Pooled \cap Held = {}
    /\ open = Pooled \cup Held

\* Every call of queryOne returns, whatever the upstream and the dials do: the
\* blocking send of the pre-dial loop finds room in the end, although other
\* workers return connections to the channel while it is being filled.
EveryCallEnds == \A w \in Workers : <>(crashed \/ pc[w] \in Finished)

\* "Graceful shutdown - Drains in-flight requests before stopping": no in-flight
\* request meets a closed channel.
NoCrash == ~crashed
=============================================================================
