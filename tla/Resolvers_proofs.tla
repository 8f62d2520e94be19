-------------------------- MODULE Resolvers_proofs --------------------------
(***************************************************************************)
(* Two parts of the resolvers.  The pool of the forwarding resolver: every *)
(* open connection has one owner, for any number of calls, any pool size   *)
(* and any number of retries, Close and its panics included.  Custom DNS:  *)
(* what a client of the API was told stays true, for any number of         *)
(* clients, names, addresses and faults.                                   *)
(***************************************************************************)
EXTENDS ConnPool, CustomDNS, SequenceTheorems, TLAPS

Holding == {"send", "use", "release", "close"}

\* How far a call has come, and what its locals then hold.
Progress ==
    \A w \in Workers :
        /\ conn[w] # 0 <=> pc[w] \in Holding
        /\ IF pc[w] = "ensure" THEN filled[w] = 0 ELSE mine[w] # 0
        /\ pc[w] \in {"dial", "send"} => filled[w] < PoolSize

\* Connection x waits in slot i of channel c.
Waits(x, c, i) == c \in 1..Len(chans) /\ i \in 1..Len(chans[c]) /\ chans[c][i] = x

\* Single ownership, slot by slot.
Owned ==
    /\ \A v, w \in Workers : conn[v] = conn[w] /\ conn[v] # 0 => v = w
    /\ \A x, c, d, i, j : Waits(x, c, i) /\ Waits(x, d, j) => c = d /\ i = j
    /\ \A w \in Workers : \A c, i : ~Waits(conn[w], c, i)
    /\ \A x : x \in open <=> \/ \E c, i : Waits(x, c, i)
                             \/ x # 0 /\ \E w \in Workers : conn[w] = x

Types == TypeOK /\ chans \in Seq(Seq(Nat))

IInv == Types /\ Progress /\ Owned

-----------------------------------------------------------------------------
(* What the operations on channels do to the slots                         *)

\* A channel gets a connection at its end.
LEMMA PushSlots ==
  ASSUME Types, NEW c \in 1..Len(chans), NEW x \in Nat, Push(c, x)
  PROVE  /\ chans' \in Seq(Seq(Nat)) /\ Len(chans') = Len(chans)
         /\ \A d \in 1..Len(chans) : d # c => chans'[d] = chans[d]
         /\ Len(chans'[c]) = Len(chans[c]) + 1
         /\ \A y, d, i : Waits(y, d, i)' <=> Waits(y, d, i) \/ <<y, d, i>> = <<x, c, Len(chans[c]) + 1>>
  <1>1. chans[c] \in Seq(Nat) /\ Len(chans[c]) \in Nat
    BY Zenon, ElementOfSeq, LenProperties DEF Types
  <1>2. /\ Append(chans[c], x) \in Seq(Nat)
        /\ Len(Append(chans[c], x)) = Len(chans[c]) + 1
        /\ \A i \in 1..Len(chans[c]) : Append(chans[c], x)[i] = chans[c][i]
        /\ Append(chans[c], x)[Len(chans[c]) + 1] = x
    BY <1>1, AppendProperties
  <1>3. /\ chans' \in Seq(Seq(Nat)) /\ Len(chans') = Len(chans)
        /\ chans'[c] = Append(chans[c], x)
        /\ \A d \in 1..Len(chans) : d # c => chans'[d] = chans[d]
    BY <1>2, ExceptSeq DEF Types, Push
  <1>4. ASSUME NEW y, NEW d, NEW i
        PROVE  Waits(y, d, i)' <=> Waits(y, d, i) \/ <<y, d, i>> = <<x, c, Len(chans[c]) + 1>>
    <2>1. CASE d = c
      <3>1. Waits(y, d, i)' <=> i \in 1..(Len(chans[c]) + 1) /\ Append(chans[c], x)[i] = y
        BY Zenon, <1>2, <1>3, <2>1 DEF Waits
      <3>2. Waits(y, d, i) <=> i \in 1..Len(chans[c]) /\ chans[c][i] = y
        BY Zenon, <2>1 DEF Waits
      <3>3. i \in 1..(Len(chans[c]) + 1) <=> i \in 1..Len(chans[c]) \/ i = Len(chans[c]) + 1
        BY <1>1
      <3>4. Len(chans[c]) + 1 \notin 1..Len(chans[c])
        BY <1>1
      <3> QED
        BY Zenon, <1>2, <2>1, <3>1, <3>2, <3>3, <3>4
    <2>2. CASE d # c
      BY Zenon, <1>3, <2>2 DEF Waits
    <2> QED
      BY Zenon, <2>1, <2>2
  <1> QED
    BY Zenon, <1>2, <1>3, <1>4

\* A channel loses its first connection.
LEMMA PopSlots ==
  ASSUME Types, NEW c \in 1..Len(chans), chans[c] # <<>>,
         chans' = [chans EXCEPT ![c] = Tail(@)]
  PROVE  /\ chans' \in Seq(Seq(Nat)) /\ Len(chans') = Len(chans)
         /\ \A d \in 1..Len(chans) : d # c => chans'[d] = chans[d]
         /\ Len(chans'[c]) = Len(chans[c]) - 1
         /\ Waits(Head(chans[c]), c, 1)
         /\ \A y, d, i : Waits(y, d, i)' <=>
                IF d = c THEN i \in Nat \ {0} /\ Waits(y, c, i + 1) ELSE Waits(y, d, i)
  <1>1. chans[c] \in Seq(Nat) /\ Len(chans[c]) \in Nat \ {0}
    BY Zenon, ElementOfSeq, LenProperties, EmptySeq DEF Types
  <1>2. /\ Tail(chans[c]) \in Seq(Nat)
        /\ Len(Tail(chans[c])) = Len(chans[c]) - 1
        /\ \A i \in 1..Len(Tail(chans[c])) : Tail(chans[c])[i] = chans[c][i + 1]
        /\ Head(chans[c]) = chans[c][1]
    BY <1>1, HeadTailProperties
  <1>3. /\ chans' \in Seq(Seq(Nat)) /\ Len(chans') = Len(chans)
        /\ chans'[c] = Tail(chans[c])
        /\ \A d \in 1..Len(chans) : d # c => chans'[d] = chans[d]
    BY <1>2, ExceptSeq DEF Types
  <1>4. Waits(Head(chans[c]), c, 1)
    BY <1>1, <1>2 DEF Waits
  <1>5. ASSUME NEW y, NEW d, NEW i
        PROVE  Waits(y, d, i)' <=>
                 IF d = c THEN i \in Nat \ {0} /\ Waits(y, c, i + 1) ELSE Waits(y, d, i)
    <2>1. CASE d = c
      <3>1. Waits(y, d, i)' <=> i \in 1..(Len(chans[c]) - 1) /\ Tail(chans[c])[i] = y
        BY Zenon, <1>2, <1>3, <2>1 DEF Waits
      <3>2. Waits(y, c, i + 1) <=> i + 1 \in 1..Len(chans[c]) /\ chans[c][i + 1] = y
        BY Zenon DEF Waits
      <3>3. i \in 1..(Len(chans[c]) - 1) <=> i \in Nat \ {0} /\ i + 1 \in 1..Len(chans[c])
        BY SMTT(30), <1>1
      <3> QED
        BY Zenon, <1>2, <2>1, <3>1, <3>2, <3>3
    <2>2. CASE d # c
      BY Zenon, <1>3, <2>2 DEF Waits
    <2> QED
      BY Zenon, <2>1, <2>2
  <1> QED
    BY Zenon, <1>2, <1>3, <1>4, <1>5

\* A new channel is empty.
LEMMA NewSlots ==
  ASSUME Types, chans' = Append(chans, <<>>)
  PROVE  /\ chans' \in Seq(Seq(Nat)) /\ Len(chans') = Len(chans) + 1
         /\ \A d \in 1..Len(chans) : chans'[d] = chans[d]
         /\ chans'[Len(chans) + 1] = <<>>
         /\ \A y, d, i : Waits(y, d, i)' <=> Waits(y, d, i)
  <1>1. <<>> \in Seq(Nat) /\ Len(<<>>) = 0 /\ Len(chans) \in Nat
    BY Zenon, EmptySeq, LenProperties DEF Types
  <1>2. /\ chans' \in Seq(Seq(Nat)) /\ Len(chans') = Len(chans) + 1
        /\ \A d \in 1..Len(chans) : chans'[d] = chans[d]
        /\ chans'[Len(chans) + 1] = <<>>
    BY <1>1, AppendProperties DEF Types
  <1>3. ASSUME NEW y, NEW d, NEW i PROVE Waits(y, d, i)' <=> Waits(y, d, i)
    BY <1>1, <1>2 DEF Waits
  <1> QED
    BY Zenon, <1>2, <1>3

-----------------------------------------------------------------------------
(* How connections change hands                                            *)

\* What waits in a channel was dialed.
LEMMA WaitsType ==
  ASSUME Types, NEW x, NEW c, NEW i, Waits(x, c, i)
  PROVE  x \in 1..dials /\ x # 0
  <1>1. c \in 1..Len(chans) /\ i \in 1..Len(chans[c]) /\ chans[c][i] = x
    BY Zenon DEF Waits
  <1>2. chans[c] \in Seq(1..dials)
    BY Zenon, <1>1 DEF Types, TypeOK
  <1>3. x \in 1..dials
    BY Zenon, <1>1, <1>2, ElementOfSeq
  <1> QED
    BY <1>3 DEF Types, TypeOK

\* A call puts the connection it holds into a channel.
LEMMA OwnedPush ==
  ASSUME Types, Owned, NEW w \in Workers, conn[w] # 0, NEW c \in 1..Len(chans),
         Push(c, conn[w]), conn' = [conn EXCEPT ![w] = 0], open' = open
  PROVE  Owned'
  <1> DEFINE x == conn[w]
             n == Len(chans[c]) + 1
  <1>1. x \in Nat /\ conn \in [Workers -> Nat]
    BY DEF Types, TypeOK
  <1>2. \A y, d, i : Waits(y, d, i)' <=> Waits(y, d, i) \/ <<y, d, i>> = <<x, c, n>>
    BY Zenon, <1>1, PushSlots
  <1>3. \A d, i : ~Waits(0, d, i)
    BY Zenon, WaitsType
  <1> HIDE DEF n
  <1>4. \A y, d, e, i, j : Waits(y, d, i)' /\ Waits(y, e, j)' => d = e /\ i = j
    <2>1. \A d, i : ~Waits(x, d, i)
      BY Zenon DEF Owned
    <2>2. \A y, d, i : Waits(y, d, i)' <=> Waits(y, d, i) \/ (y = x /\ d = c /\ i = n)
      BY Zenon, <1>2
    <2> QED
      BY <2>1, <2>2 DEF Owned
  <1>5. \A v \in Workers : \A d, i : ~Waits(conn[v], d, i)'
    BY Zenon, <1>1, <1>2, <1>3 DEF Owned
  <1>6. \A y : y \in open' <=> \/ \E d, i : Waits(y, d, i)'
                               \/ y # 0 /\ \E v \in Workers : conn'[v] = y
    BY Zenon, <1>1, <1>2 DEF Owned
  <1> QED
    BY ZenonT(30), <1>1, <1>4, <1>5, <1>6 DEF Owned

\* What a pop leaves waiting.
LEMMA PopLeaves ==
  ASSUME Types, Owned, NEW c \in 1..Len(chans), chans[c] # <<>>,
         chans' = [chans EXCEPT ![c] = Tail(@)]
  PROVE  /\ \A y : (\E d, i : Waits(y, d, i)') <=> (\E d, i : Waits(y, d, i)) /\ y # Head(chans[c])
         /\ \A y, d, e, i, j : Waits(y, d, i)' /\ Waits(y, e, j)' => d = e /\ i = j
  <1>1. /\ Waits(Head(chans[c]), c, 1)
        /\ \A y, d, i : Waits(y, d, i)' <=>
             IF d = c THEN i \in Nat \ {0} /\ Waits(y, c, i + 1) ELSE Waits(y, d, i)
    BY Zenon, PopSlots
  <1>2. ASSUME NEW y, NEW d, NEW i, Waits(y, d, i)'
        PROVE  (\E e, j : Waits(y, e, j)) /\ y # Head(chans[c])
    <2>1. CASE d = c
      <3>1. i \in Nat \ {0} /\ Waits(y, c, i + 1)
        BY Zenon, <1>1, <1>2, <2>1
      <3>2. i + 1 # 1
        BY <3>1
      <3> QED
        BY <1>1, <3>1, <3>2 DEF Owned
    <2>2. CASE d # c
      BY <1>1, <1>2, <2>2 DEF Owned
    <2> QED
      BY Zenon, <2>1, <2>2
  <1>3. ASSUME NEW y, NEW d, NEW i, Waits(y, d, i), y # Head(chans[c])
        PROVE  \E e, j : Waits(y, e, j)'
    <2>1. CASE d = c
      <3>1. chans[c] \in Seq(Nat) /\ chans[c] # <<>> /\ Head(chans[c]) = chans[c][1]
        BY ElementOfSeq DEF Types
      <3>2. i \in 1..Len(chans[c]) /\ i # 1 /\ Len(chans[c]) \in Nat
        BY Zenon, <1>3, <2>1, <3>1, LenProperties DEF Waits
      <3>3. i - 1 \in Nat \ {0} /\ (i - 1) + 1 = i
        BY <3>2
      <3>4. Waits(y, c, i - 1)'
        BY Zenon, <1>1, <1>3, <2>1, <3>3
      <3> QED
        BY Zenon, <3>4
    <2>2. CASE d # c
      BY Zenon, <1>1, <1>3, <2>2
    <2> QED
      BY Zenon, <2>1, <2>2
  <1>4. ASSUME NEW y, NEW d, NEW e, NEW i, NEW j, Waits(y, d, i)', Waits(y, e, j)'
        PROVE  d = e /\ i = j
    <2>1. CASE d = c /\ e = c
      <3>1. i \in Nat /\ j \in Nat /\ Waits(y, c, i + 1) /\ Waits(y, c, j + 1)
        BY Zenon, <1>1, <1>4, <2>1
      <3>2. i + 1 = j + 1
        BY Zenon, <3>1 DEF Owned
      <3> QED
        BY <2>1, <3>1, <3>2
    <2>2. CASE d # c \/ e # c
      BY <1>1, <1>4, <2>2 DEF Owned
    <2> QED
      BY Zenon, <2>1, <2>2
  <1> QED
    BY Zenon, <1>2, <1>3, <1>4

\* A call takes the first connection of a channel.
LEMMA OwnedPop ==
  ASSUME Types, Owned, NEW w \in Workers, conn[w] = 0, NEW c \in 1..Len(chans),
         chans[c] # <<>>, chans' = [chans EXCEPT ![c] = Tail(@)],
         conn' = [conn EXCEPT ![w] = Head(chans[c])], open' = open
  PROVE  Owned'
  <1> DEFINE x == Head(chans[c])
  <1>1. Waits(x, c, 1) /\ x # 0
    <2>1. Waits(x, c, 1)
      BY Zenon, PopSlots
    <2> QED
      BY Zenon, <2>1, WaitsType
  <1>2. conn \in [Workers -> Nat]
    BY DEF Types, TypeOK
  <1>3. /\ \A y : (\E d, i : Waits(y, d, i)') <=> (\E d, i : Waits(y, d, i)) /\ y # x
        /\ \A y, d, e, i, j : Waits(y, d, i)' /\ Waits(y, e, j)' => d = e /\ i = j
    BY Zenon, PopLeaves
  <1>4. \A v \in Workers : conn'[v] = IF v = w THEN x ELSE conn[v]
    BY Zenon, <1>2
  <1> HIDE DEF x
  <1>5. \A v \in Workers : \A d, i : ~Waits(conn[v], d, i)'
    BY Zenon, <1>3, <1>4 DEF Owned
  <1>6. \A u, v \in Workers : conn'[u] = conn'[v] /\ conn'[u] # 0 => u = v
    <2>1. \A v \in Workers : conn[v] # x
      BY SMTT(30), <1>1 DEF Owned
    <2> QED
      BY <1>4, <2>1 DEF Owned
  <1>7. ASSUME NEW y
        PROVE  y \in open' <=> \/ \E d, i : Waits(y, d, i)'
                               \/ y # 0 /\ \E v \in Workers : conn'[v] = y
    <2>1. CASE y = x
      BY Zenon, <1>1, <1>4, <2>1 DEF Owned
    <2>2. CASE y # x
      <3>1. y # 0 => ((\E v \in Workers : conn'[v] = y) <=> \E v \in Workers : conn[v] = y)
        BY Zenon, <1>4, <2>2
      <3>2. (\E d, i : Waits(y, d, i)') <=> \E d, i : Waits(y, d, i)
        BY Zenon, <1>3, <2>2
      <3> QED
        BY Zenon, <3>1, <3>2 DEF Owned
    <2> QED
      BY Zenon, <2>1, <2>2
  <1> QED
    BY Zenon, <1>3, <1>5, <1>6, <1>7 DEF Owned

\* Close closes the first connection of a channel.
LEMMA OwnedDrain ==
  ASSUME Types, Owned, NEW c \in 1..Len(chans), chans[c] # <<>>,
         chans' = [chans EXCEPT ![c] = Tail(@)],
         open' = open \ {Head(chans[c])}, UNCHANGED conn
  PROVE  Owned'
  <1> DEFINE x == Head(chans[c])
  <1>1. Waits(x, c, 1)
    BY Zenon, PopSlots
  <1>2. /\ \A y : (\E d, i : Waits(y, d, i)') <=> (\E d, i : Waits(y, d, i)) /\ y # x
        /\ \A y, d, e, i, j : Waits(y, d, i)' /\ Waits(y, e, j)' => d = e /\ i = j
    BY Zenon, PopLeaves
  <1>3. \A y : y \in open' <=> y \in open /\ y # x
    BY Zenon
  <1> HIDE DEF x
  <1>4. \A v \in Workers : \A d, i : ~Waits(conn[v], d, i)'
    BY Zenon, <1>2 DEF Owned
  <1>5. \A y : y \in open' <=> \/ \E d, i : Waits(y, d, i)'
                               \/ y # 0 /\ \E v \in Workers : conn'[v] = y
    <2>1. \A v \in Workers : conn[v] # x
      BY <1>1 DEF Owned
    <2>2. SUFFICES ASSUME NEW y
                   PROVE  y \in open' <=> \/ \E d, i : Waits(y, d, i)'
                                          \/ y # 0 /\ \E v \in Workers : conn[v] = y
      BY Zenon
    <2>3. (\E d, i : Waits(y, d, i)') <=> (\E d, i : Waits(y, d, i)) /\ y # x
      BY Zenon, <1>2
    <2>4. y \in open <=> \/ \E d, i : Waits(y, d, i)
                         \/ y # 0 /\ \E v \in Workers : conn[v] = y
      BY Zenon DEF Owned
    <2> QED
      BY Zenon, <1>3, <2>1, <2>3, <2>4
  <1> QED
    BY Zenon, <1>2, <1>4, <1>5 DEF Owned

\* A call closes the connection it holds.
LEMMA OwnedClose ==
  ASSUME Types, Owned, NEW w \in Workers, conn[w] # 0, CloseConn(w), UNCHANGED chans
  PROVE  Owned'
  <1>1. conn \in [Workers -> Nat] /\ \A v \in Workers : conn'[v] = IF v = w THEN 0 ELSE conn[v]
    BY DEF Types, TypeOK, CloseConn
  <1>2. \A y, d, i : Waits(y, d, i)' <=> Waits(y, d, i)
    BY Zenon DEF Waits
  <1>3. \A d, i : ~Waits(0, d, i)
    BY Zenon, WaitsType
  <1>4. \A y : y \in open' <=> y \in open /\ y # conn[w]
    BY Zenon DEF CloseConn
  <1> QED
    BY <1>1, <1>2, <1>3, <1>4 DEF Owned

\* A call dials a connection nobody has.
LEMMA OwnedDial ==
  ASSUME Types, Owned, NEW w \in Workers, conn[w] = 0, dials' = dials + 1,
         open' = open \cup {dials'}, conn' = [conn EXCEPT ![w] = dials'], UNCHANGED chans
  PROVE  Owned'
  <1> DEFINE x == dials + 1
  <1>1. conn \in [Workers -> 0..dials] /\ dials \in Nat
    BY Zenon DEF Types, TypeOK
  <1>2. \A v \in Workers : conn'[v] = IF v = w THEN x ELSE conn[v]
    BY Zenon, <1>1
  <1>3. x # 0 /\ (\A v \in Workers : conn[v] # x)
    BY <1>1
  <1>4. \A d, i : ~Waits(x, d, i)
    BY <1>1, WaitsType
  <1>5. \A y, d, i : Waits(y, d, i)' <=> Waits(y, d, i)
    BY Zenon DEF Waits
  <1>6. \A y : y \in open' <=> y \in open \/ y = x
    BY Zenon
  <1> HIDE DEF x
  <1>7. ASSUME NEW y
        PROVE  y \in open' <=> \/ \E d, i : Waits(y, d, i)'
                               \/ y # 0 /\ \E v \in Workers : conn'[v] = y
    BY <1>2, <1>3, <1>5, <1>6 DEF Owned
  <1>8. \A u, v \in Workers : conn'[u] = conn'[v] /\ conn'[u] # 0 => u = v
    BY <1>2, <1>3 DEF Owned
  <1>9. \A v \in Workers : \A d, i : ~Waits(conn[v], d, i)'
    BY <1>2, <1>4, <1>5 DEF Owned
  <1> QED
    BY SMTT(30), <1>5, <1>7, <1>8, <1>9 DEF Owned

\* Nothing changes hands.
LEMMA OwnedSame ==
  ASSUME Owned, UNCHANGED <<conn, open>>, \A y, d, i : Waits(y, d, i)' <=> Waits(y, d, i)
  PROVE  Owned'
  BY Zenon DEF Owned

-----------------------------------------------------------------------------
(* The steps of queryOne and Close                                         *)

\* The types of the channels alone.
Channels ==
    /\ chans \in Seq(Seq(Nat))
    /\ \A c \in 1..Len(chans) : chans[c] \in Seq(1..dials) /\ Len(chans[c]) <= PoolSize

\* Pushing a dialed connection to a channel that is not full keeps its type.
LEMMA PushTypes ==
  ASSUME Types, NEW c \in 1..Len(chans), NEW x \in 1..dials, Push(c, x), ~Full(c), UNCHANGED dials
  PROVE  Channels' /\ Len(chans') = Len(chans)
  <1>1. x \in Nat
    BY DEF Types, TypeOK
  <1>2. /\ chans' \in Seq(Seq(Nat)) /\ Len(chans') = Len(chans)
        /\ \A d \in 1..Len(chans) : d # c => chans'[d] = chans[d]
        /\ Len(chans'[c]) = Len(chans[c]) + 1
    BY Zenon, <1>1, PushSlots
  <1>3. chans[c] \in Seq(1..dials) /\ Len(chans[c]) <= PoolSize /\ Len(chans[c]) \in Nat
    BY Zenon, LenProperties DEF Types, TypeOK
  <1>4. chans'[c] = Append(chans[c], x)
    BY Zenon, LenProperties DEF Types, Push
  <1>5. chans'[c] \in Seq(1..dials)
    BY <1>3, <1>4, AppendProperties
  <1>6. Len(chans'[c]) <= PoolSize
    BY <1>2, <1>3, PoolAssumption DEF Full
  <1> QED
    BY Zenon, <1>2, <1>5, <1>6 DEF Channels, Types, TypeOK

\* So does taking the first connection.
LEMMA PopTypes ==
  ASSUME Types, NEW c \in 1..Len(chans), chans[c] # <<>>,
         chans' = [chans EXCEPT ![c] = Tail(@)], UNCHANGED dials
  PROVE  Channels' /\ Len(chans') = Len(chans)
  <1>1. /\ chans' \in Seq(Seq(Nat)) /\ Len(chans') = Len(chans)
        /\ \A d \in 1..Len(chans) : d # c => chans'[d] = chans[d]
        /\ Len(chans'[c]) = Len(chans[c]) - 1
    BY Zenon, PopSlots
  <1>2. chans[c] \in Seq(1..dials) /\ Len(chans[c]) <= PoolSize /\ Len(chans[c]) \in Nat
    BY Zenon, LenProperties DEF Types, TypeOK
  <1>3. chans'[c] = Tail(chans[c])
    BY Zenon, LenProperties DEF Types
  <1>4. chans'[c] \in Seq(1..dials)
    BY Zenon, <1>2, <1>3, HeadTailProperties
  <1>5. Len(chans'[c]) <= PoolSize
    BY <1>1, <1>2, PoolAssumption
  <1> QED
    BY Zenon, <1>1, <1>4, <1>5 DEF Channels, Types, TypeOK

\* A dial makes room for one more number.
LEMMA DialTypes ==
  ASSUME Types, dials' = dials + 1, UNCHANGED chans
  PROVE  Channels'
  <1>1. 1..dials \subseteq 1..dials'
    BY DEF Types, TypeOK
  <1>2. Seq(1..dials) \subseteq Seq(1..dials')
    BY Zenon, <1>1, SeqMonotonic
  <1> QED
    BY Zenon, <1>2 DEF Channels, Types, TypeOK

\* The invariant holds before the first call.
LEMMA InvInit == Init => IInv
  <1> SUFFICES ASSUME Init PROVE IInv
    BY Zenon
  <1>1. Len(chans) = 0 /\ chans \in Seq(Seq(Nat))
    BY Zenon, EmptySeq DEF Init
  <1>2. Types
    <2>1. 0 \in 0..Len(chans) /\ 0 \in 0..dials /\ 0 \in 0..PoolSize /\ 0 \in 0..MaxRetries
      BY <1>1, PoolAssumption DEF Init
    <2>2. \A c \in 1..Len(chans) : chans[c] \in Seq(1..dials) /\ Len(chans[c]) <= PoolSize
      BY <1>1
    <2>3. closed \subseteq 1..Len(chans) /\ open \subseteq 1..dials /\ dials \in Nat
      BY Zenon DEF Init
    <2>4. pc \in [Workers -> PCs]
      BY Zenon DEF Init, PCs
    <2> QED
      BY Zenon, <1>1, <2>1, <2>2, <2>3, <2>4 DEF Init, Types, TypeOK
  <1>3. Progress
    BY Zenon DEF Init, Progress, Holding
  <1>4. \A x, c, i : ~Waits(x, c, i)
    BY <1>1 DEF Waits
  <1>5. Owned
    BY Zenon, <1>4 DEF Init, Owned
  <1> QED
    BY Zenon, <1>2, <1>3, <1>5 DEF IInv

\* Steps that touch no connection and no channel.
LEMMA LocalInv ==
  ASSUME IInv, UNCHANGED <<conn, open, chans, dials>>, TypeOK', Progress'
  PROVE  IInv'
  <1>1. Owned'
    <2>1. \A y, d, i : Waits(y, d, i)' <=> Waits(y, d, i)
      BY Zenon DEF Waits
    <2> QED
      BY Zenon, <2>1, OwnedSame DEF IInv
  <1> QED
    BY Zenon, <1>1 DEF IInv, Types

\* ensurePool hands out the registered channel or registers an empty one.
LEMMA EnsureInv ==
  ASSUME IInv, NEW w \in Workers, EnsurePool(w)
  PROVE  IInv'
  <1> USE DEF IInv, Types, TypeOK, EnsurePool, At, Goto, env
  <1>1. CASE registered # 0
    <2>1. UNCHANGED <<conn, open, chans, dials>>
      BY Zenon, <1>1 DEF pool
    <2>2. TypeOK'
      BY Zenon, <1>1 DEF pool, PCs
    <2>3. Progress'
      BY SMTT(30), <1>1 DEF Progress, Holding
    <2> QED
      BY Zenon, <2>1, <2>2, <2>3, LocalInv
  <1>2. CASE registered = 0
    <2>1. chans' = Append(chans, <<>>)
      BY Zenon, <1>2
    <2>2. /\ chans' \in Seq(Seq(Nat)) /\ Len(chans') = Len(chans) + 1 /\ Len(chans) \in Nat
          /\ \A d \in 1..Len(chans) : chans'[d] = chans[d]
          /\ chans'[Len(chans) + 1] = <<>>
          /\ \A y, d, i : Waits(y, d, i)' <=> Waits(y, d, i)
      BY Zenon, <2>1, NewSlots, LenProperties
    <2>3. Owned'
      BY Zenon, <2>2, OwnedSame
    <2>4. \A c \in 1..Len(chans') : chans'[c] \in Seq(1..dials) /\ Len(chans'[c]) <= PoolSize
      <3>1. <<>> \in Seq(1..dials) /\ Len(<<>>) = 0
        BY Zenon, EmptySeq
      <3>2. \A c \in 1..(Len(chans) + 1) : c \in 1..Len(chans) \/ c = Len(chans) + 1
        BY <2>2
      <3>3. 0 <= PoolSize
        BY PoolAssumption
      <3> QED
        BY Zenon, <2>2, <3>1, <3>2, <3>3
    <2>5. registered' = Len(chans) + 1 /\ mine' = [mine EXCEPT ![w] = Len(chans) + 1]
      BY Zenon, <1>2, <2>2
    <2>6. TypeOK'
      <3>1. mine' \in [Workers -> 0..Len(chans')] /\ registered' \in 0..Len(chans')
        BY <2>2, <2>5
      <3>2. closed' \subseteq 1..Len(chans')
        <4>1. UNCHANGED closed /\ closed \subseteq 1..Len(chans)
          BY Zenon, <1>2
        <4>2. 1..Len(chans) \subseteq 1..Len(chans')
          BY <2>2
        <4> QED
          BY Zenon, <4>1, <4>2
      <3>3. pc' \in [Workers -> PCs]
        BY ZenonT(30), <1>2 DEF PCs
      <3> QED
        BY Zenon, <2>4, <3>1, <3>2, <3>3
    <2>7. Progress'
      <3>1. Len(chans) + 1 # 0 /\ 0 < PoolSize
        BY <2>2, PoolAssumption
      <3>2. pc' = [pc EXCEPT ![w] = "dial"] /\ UNCHANGED <<conn, filled>>
        BY Zenon, <1>2
      <3>3. conn[w] = 0 /\ filled[w] = 0
        BY Zenon DEF Progress, Holding
      <3> QED
        BY Zenon, <2>5, <3>1, <3>2, <3>3 DEF Progress, Holding
    <2> QED
      BY Zenon, <2>2, <2>3, <2>6, <2>7
  <1> QED
    BY Zenon, <1>1, <1>2

\* Steps of a call that move no connection.
Pass(w) ==
    \/ ResolveFails(w) \/ PredialFails(w) \/ Retry(w) \/ AcquireNil(w)
    \/ AcquireCancelled(w) \/ Exchange(w)

\* A call keeps what it holds, or holds nothing, on these.
LEMMA PassInv ==
  ASSUME IInv, NEW w \in Workers, Pass(w)
  PROVE  IInv'
  <1> USE DEF IInv, Types, At, Goto, pool, env, own
  <1>1. UNCHANGED <<conn, open, chans, dials>>
    BY Zenon DEF Pass, ResolveFails, PredialFails, Retry, AcquireNil, AcquireCancelled, Exchange
  <1>2. TypeOK'
    <2> USE DEF TypeOK, PCs, Finished
    <2>1. CASE Retry(w)
      <3>1. tries' \in [Workers -> 0..MaxRetries]
        <4>1. tries[w] \in 0..MaxRetries /\ (tries[w] # MaxRetries => tries[w] + 1 \in 0..MaxRetries)
          BY PoolAssumption
        <4> QED
          BY Zenon, <2>1, <4>1 DEF Retry
      <3>2. pc' \in [Workers -> PCs]
        BY Zenon, <2>1 DEF Retry
      <3> QED
        BY Zenon, <2>1, <3>1, <3>2 DEF Retry
    <2>2. CASE AcquireNil(w)
      BY Zenon, <2>2 DEF AcquireNil
    <2>3. CASE ResolveFails(w) \/ PredialFails(w) \/ AcquireCancelled(w) \/ Exchange(w)
      BY Zenon, <2>3 DEF ResolveFails, PredialFails, AcquireCancelled, Exchange
    <2> QED
      BY Zenon, <2>1, <2>2, <2>3 DEF Pass
  <1>3. Progress'
    <2>1. ASSUME NEW s, Goto(w, s), s \in Holding <=> pc[w] \in Holding, pc[w] # "ensure",
                 s \notin {"ensure", "dial", "send"}, UNCHANGED <<conn, mine, filled>>
          PROVE  Progress'
      BY Zenon, <2>1 DEF Progress, TypeOK
    <2>2. CASE ResolveFails(w) \/ PredialFails(w) \/ AcquireCancelled(w)
      BY Zenon, <2>1, <2>2 DEF ResolveFails, PredialFails, AcquireCancelled, Holding
    <2>3. CASE Retry(w)
      BY Zenon, <2>1, <2>3 DEF Retry, Holding
    <2>4. CASE Exchange(w)
      BY Zenon, <2>1, <2>4 DEF Exchange, Holding
    <2>5. CASE AcquireNil(w)
      BY Zenon, <2>5 DEF AcquireNil, Progress
    <2> QED
      BY Zenon, <2>2, <2>3, <2>4, <2>5 DEF Pass
  <1> QED
    BY Zenon, <1>1, <1>2, <1>3, LocalInv

\* A call dials: the pre-dial, or a transient connection.
LEMMA DialInv ==
  ASSUME IInv, NEW w \in Workers, Predial(w) \/ AcquireTransient(w)
  PROVE  IInv'
  <1> USE DEF IInv, At, Goto, pool, env
  <1>1. CASE dials' = dials + 1
    <2>1. /\ pc[w] \in {"dial", "acquire"}
          /\ pc' = [pc EXCEPT ![w] = IF pc[w] = "dial" THEN "send" ELSE "use"]
          /\ open' = open \cup {dials'} /\ conn' = [conn EXCEPT ![w] = dials']
          /\ pooled' \in [Workers -> BOOLEAN]
          /\ UNCHANGED <<mine, filled, tries, registered, chans, closed, cancelled, closing, crashed>>
      <3>1. CASE Predial(w)
        BY Zenon, <3>1 DEF Predial, Types, TypeOK
      <3>2. CASE AcquireTransient(w)
        <4>1. dials' # dials
          BY <1>1 DEF Types, TypeOK
        <4> QED
          BY Zenon, <3>2, <4>1 DEF AcquireTransient, Types, TypeOK
      <3> QED
        BY Zenon, <3>1, <3>2
    <2>2. conn[w] = 0
      BY Zenon, <2>1 DEF Progress, Holding
    <2>3. Owned'
      BY Zenon, <1>1, <2>1, <2>2, OwnedDial
    <2>4. Channels'
      BY Zenon, <1>1, <2>1, DialTypes
    <2>5. Types'
      <3>1. conn' \in [Workers -> 0..dials'] /\ open' \subseteq 1..dials' /\ dials' \in Nat
        BY SMTT(30), <1>1, <2>1 DEF Types, TypeOK
      <3>2. pc' \in [Workers -> PCs]
        BY Zenon, <2>1 DEF Types, TypeOK, PCs
      <3> QED
        BY Zenon, <2>1, <2>4, <3>1, <3>2 DEF Types, TypeOK, Channels
    <2>6. Progress'
      <3>1. dials' # 0
        BY <1>1 DEF Types, TypeOK
      <3> QED
        BY Zenon, <2>1, <3>1 DEF Progress, Holding, Types, TypeOK
    <2> QED
      BY Zenon, <2>3, <2>5, <2>6
  <1>2. CASE dials' # dials + 1
    <2>1. /\ pc[w] = "acquire" /\ pc' = [pc EXCEPT ![w] = "retry"]
          /\ UNCHANGED <<mine, conn, pooled, filled, tries, pool, open, dials, env>>
      BY Zenon, <1>2 DEF Predial, AcquireTransient
    <2>2. TypeOK'
      BY Zenon, <2>1 DEF Types, TypeOK, PCs
    <2>3. Progress'
      BY ZenonT(60), <2>1 DEF Progress, Holding, Types, TypeOK
    <2> QED
      BY Zenon, <2>1, <2>2, <2>3, LocalInv
  <1> QED
    BY Zenon, <1>1, <1>2

\* A call that got past ensurePool has a channel.
LEMMA MineType ==
  ASSUME IInv, NEW w \in Workers, pc[w] # "ensure"
  PROVE  mine[w] \in 1..Len(chans)
  <1>1. Len(chans) \in Nat
    BY Zenon, LenProperties DEF IInv, Types
  <1> QED
    BY <1>1 DEF IInv, Types, TypeOK, Progress

\* A call sends a pre-dialed connection to its channel, or panics.
LEMMA SendInv ==
  ASSUME IInv, NEW w \in Workers, PredialSend(w)
  PROVE  IInv'
  <1> USE DEF IInv, PredialSend, At, Goto
  <1>1. CASE mine[w] \in closed
    <2>1. UNCHANGED <<own, chans, registered, closed, open, dials, cancelled, closing>> /\ crashed' = TRUE
      BY Zenon, <1>1
    <2>2. TypeOK' /\ Progress'
      BY Zenon, <2>1 DEF Types, TypeOK, Progress, own
    <2> QED
      BY Zenon, <2>1, <2>2, LocalInv DEF own
  <1>2. CASE mine[w] \notin closed
    <2>1. mine[w] \in 1..Len(chans) /\ conn[w] # 0 /\ conn[w] \in 1..dials
      BY SMTT(30), MineType DEF Progress, Holding, Types, TypeOK
    <2>2. Owned'
      BY Zenon, <1>2, <2>1, OwnedPush
    <2>3. Channels' /\ Len(chans') = Len(chans)
      BY Zenon, <1>2, <2>1, PushTypes
    <2>4. /\ filled[w] \in Nat /\ filled[w] < PoolSize
          /\ filled' = [filled EXCEPT ![w] = filled[w] + 1]
          /\ pc' = [pc EXCEPT ![w] = IF filled[w] + 1 = PoolSize THEN "retry" ELSE "dial"]
      BY <1>2 DEF Progress, Types, TypeOK
    <2>5. Types'
      <3>1. conn' \in [Workers -> 0..dials] /\ filled' \in [Workers -> 0..PoolSize]
        <4>1. 0 \in 0..dials /\ filled[w] + 1 \in 0..PoolSize
          BY SMTT(30), <2>4, PoolAssumption DEF Types, TypeOK
        <4> QED
          BY ZenonT(30), <1>2, <2>4, <4>1 DEF Types, TypeOK
      <3>2. pc' \in [Workers -> PCs]
        BY Zenon, <2>4 DEF Types, TypeOK, PCs
      <3> QED
        BY Zenon, <1>2, <2>3, <3>1, <3>2 DEF Types, TypeOK, Channels
    <2>6. Progress'
      <3>1. filled[w] + 1 # PoolSize => filled[w] + 1 < PoolSize
        BY <2>4, PoolAssumption
      <3> QED
        BY SMTT(30), <1>2, <2>4, <3>1 DEF Progress, Holding, Types, TypeOK
    <2> QED
      BY Zenon, <2>2, <2>5, <2>6
  <1> QED
    BY Zenon, <1>1, <1>2

\* A call takes a connection from its channel.
LEMMA AcquireInv ==
  ASSUME IInv, NEW w \in Workers, AcquirePooled(w)
  PROVE  IInv'
  <1> USE DEF IInv, AcquirePooled, At, Goto, env
  <1>1. mine[w] \in 1..Len(chans) /\ conn[w] = 0
    BY Zenon, MineType DEF Progress, Holding
  <1>2. Owned'
    BY Zenon, <1>1, OwnedPop
  <1>3. Channels' /\ Len(chans') = Len(chans)
    BY Zenon, <1>1, PopTypes
  <1>4. Head(chans[mine[w]]) \in 1..dials /\ Head(chans[mine[w]]) # 0
    BY Zenon, <1>1, PopSlots, WaitsType
  <1>5. Types'
    <2>1. Head(chans[mine[w]]) \in 0..dials
      BY <1>4
    <2>2. conn' \in [Workers -> 0..dials] /\ pooled' \in [Workers -> BOOLEAN]
      BY Zenon, <2>1 DEF Types, TypeOK
    <2>3. pc' \in [Workers -> PCs]
      BY Zenon DEF Types, TypeOK, PCs
    <2> QED
      BY Zenon, <1>3, <2>2, <2>3 DEF Types, TypeOK, Channels
  <1>6. Progress'
    BY Zenon, <1>4 DEF Progress, Holding, Types, TypeOK
  <1> QED
    BY Zenon, <1>2, <1>5, <1>6

\* A call closes its connection, and is then done with it.
LEMMA CloseConnInv ==
  ASSUME IInv, NEW w \in Workers, pc[w] \in {"close", "release"}, CloseConn(w),
         NEW s \in {"ok", "retry", "failed"}, Goto(w, s),
         UNCHANGED <<mine, pooled, filled, tries, pool, dials, env>>
  PROVE  IInv'
  <1> USE DEF IInv, Goto, pool, env
  <1>1. conn[w] # 0
    BY Zenon DEF Progress, Holding
  <1>2. Owned'
    BY Zenon, <1>1, OwnedClose
  <1>3. Types'
    <2>1. 0 \in 0..dials
      BY DEF Types, TypeOK
    <2>2. conn' \in [Workers -> 0..dials] /\ open' \subseteq 1..dials
      BY Zenon, <2>1 DEF Types, TypeOK, CloseConn
    <2>3. pc' \in [Workers -> PCs]
      BY Zenon DEF Types, TypeOK, PCs, Finished
    <2> QED
      BY Zenon, <2>2, <2>3 DEF Types, TypeOK
  <1>4. Progress'
    BY Zenon DEF Progress, Holding, Types, TypeOK, CloseConn
  <1> QED
    BY Zenon, <1>2, <1>3, <1>4

\* releaseConnection closes, returns to the pool, or panics.
LEMMA ReleaseInv ==
  ASSUME IInv, NEW w \in Workers, ReleaseBroken(w) \/ ReleaseTransient(w) \/ ReleasePooled(w)
  PROVE  IInv'
  <1>1. CASE ReleaseBroken(w)
    BY Zenon, <1>1, CloseConnInv DEF ReleaseBroken, At
  <1>2. CASE ReleaseTransient(w)
    BY Zenon, <1>2, CloseConnInv DEF ReleaseTransient, AfterRelease, At
  <1>3. CASE ReleasePooled(w)
    <2> USE <1>3 DEF IInv, ReleasePooled, At
    <2>1. CASE mine[w] \in closed
      <3>1. UNCHANGED <<own, chans, registered, closed, open, dials, cancelled, closing>> /\ crashed' = TRUE
        BY Zenon, <2>1
      <3>2. TypeOK' /\ Progress'
        BY Zenon, <3>1 DEF Types, TypeOK, Progress, own
      <3> QED
        BY Zenon, <3>1, <3>2, LocalInv DEF own
    <2>2. CASE mine[w] \notin closed /\ Full(mine[w])
      BY Zenon, <2>2, CloseConnInv DEF AfterRelease, pool, env
    <2>3. CASE mine[w] \notin closed /\ ~Full(mine[w])
      <3>1. mine[w] \in 1..Len(chans) /\ conn[w] # 0 /\ conn[w] \in 1..dials
        <4>1. mine[w] # 0 /\ conn[w] # 0
          BY Zenon DEF Progress, Holding
        <4>2. conn[w] \in 0..dials /\ dials \in Nat
          BY Zenon DEF Types, TypeOK
        <4>3. conn[w] \in 1..dials
          BY <4>1, <4>2
        <4> QED
          BY Zenon, <4>1, <4>3, MineType
      <3>2. Owned'
        BY Zenon, <2>3, <3>1, OwnedPush
      <3>3. Channels' /\ Len(chans') = Len(chans)
        BY Zenon, <2>3, <3>1, PushTypes
      <3>4. PICK s \in {"ok", "retry", "failed"} : Goto(w, s)
        BY Zenon, <2>3 DEF AfterRelease
      <3>5. Types'
        <4>1. 0 \in 0..dials
          BY DEF Types, TypeOK
        <4>2. conn' \in [Workers -> 0..dials]
          BY Zenon, <2>3, <4>1 DEF Types, TypeOK
        <4>3. pc' \in [Workers -> PCs]
          BY Zenon, <3>4 DEF Types, TypeOK, Goto, PCs, Finished
        <4> QED
          BY Zenon, <2>3, <3>3, <4>2, <4>3 DEF Types, TypeOK, Channels
      <3>6. Progress'
        BY Zenon, <2>3, <3>4 DEF Progress, Holding, Goto, Types, TypeOK
      <3> QED
        BY Zenon, <3>2, <3>5, <3>6
    <2> QED
      BY Zenon, <2>1, <2>2, <2>3
  <1> QED
    BY Zenon, <1>1, <1>2, <1>3

\* Close closes what waits in the registered channel.
LEMMA CloseInv ==
  ASSUME IInv, Cancel \/ Close
  PROVE  IInv'
  <1> USE DEF IInv, own, env
  <1>1. CASE CloseDrain
    <2> USE <1>1 DEF CloseDrain
    <2>1. registered \in 1..Len(chans)
      BY LenProperties DEF Types, TypeOK
    <2>2. Owned'
      BY Zenon, <2>1, OwnedDrain
    <2>3. Channels' /\ Len(chans') = Len(chans)
      BY Zenon, <2>1, PopTypes
    <2>4. Types' /\ Progress'
      BY Zenon, <2>3 DEF Types, TypeOK, Channels, Progress
    <2> QED
      BY Zenon, <2>2, <2>4
  <1>2. CASE Cancel \/ CloseBegin \/ CloseEnd
    <2>1. UNCHANGED <<own, open, chans, dials>>
      BY Zenon, <1>2 DEF Cancel, CloseBegin, CloseEnd, pool
    <2>2. Len(chans) \in Nat
      BY Zenon, LenProperties DEF Types
    <2>3. /\ registered' \in 0..Len(chans) /\ closed' \subseteq 1..Len(chans)
          /\ cancelled' \in BOOLEAN /\ crashed' \in BOOLEAN
          /\ closing' \in {"no", "draining", "done"}
      <3>1. CASE Cancel
        BY Zenon, <3>1 DEF Cancel, pool, Types, TypeOK
      <3>2. CASE CloseBegin
        <4>1. {registered} \ {0} \subseteq 1..Len(chans)
          BY <2>2 DEF Types, TypeOK
        <4> QED
          BY Zenon, <3>2, <4>1 DEF CloseBegin, Types, TypeOK
      <3>3. CASE CloseEnd
        <4>1. 0 \in 0..Len(chans)
          BY <2>2
        <4> QED
          BY Zenon, <3>3, <4>1 DEF CloseEnd, Types, TypeOK
      <3> QED
        BY Zenon, <1>2, <3>1, <3>2, <3>3
    <2>4. TypeOK' /\ Progress'
      BY Zenon, <2>1, <2>3 DEF Types, TypeOK, Progress
    <2> QED
      BY Zenon, <2>1, <2>4, LocalInv
  <1> QED
    BY Zenon, <1>1, <1>2 DEF Close

-----------------------------------------------------------------------------

\* Every step of a call, of Cancel and of Close keeps the invariant.
LEMMA InvNext == IInv /\ [Next]_vars => IInv'
  <1> SUFFICES ASSUME IInv, [Next]_vars PROVE IInv'
    BY Zenon
  <1>1. ASSUME NEW w \in Workers, QueryOne(w) PROVE IInv'
    BY Zenon, <1>1, EnsureInv, PassInv, DialInv, SendInv, AcquireInv, ReleaseInv DEF QueryOne, Pass
  <1>2. CASE Cancel \/ Close
    BY Zenon, <1>2, CloseInv
  <1>3. CASE UNCHANGED vars
    <2>1. TypeOK' /\ Progress'
      BY Zenon, <1>3 DEF IInv, Types, TypeOK, Progress, vars, own, pool, env
    <2> QED
      BY Zenon, <1>3, <2>1, LocalInv DEF vars, own, pool
  <1> QED
    BY Zenon, <1>1, <1>2, <1>3 DEF Next, Idle

\* Slot by slot, ownership is what ConnSingleOwner says of the sets.
LEMMA OwnedMeans == IInv => ConnSingleOwner
  <1> SUFFICES ASSUME IInv PROVE ConnSingleOwner
    BY Zenon
  <1>1. \A s : s \in Slots <=> \E c \in 1..Len(chans) : \E i \in 1..Len(chans[c]) : s = <<c, i>>
    BY DEF Slots
  <1>2. \A s \in Slots : s = <<s[1], s[2]>> /\ Waits(chans[s[1]][s[2]], s[1], s[2])
    BY <1>1 DEF Waits
  <1>3. \A x : x \in Pooled <=> \E c, i : Waits(x, c, i)
    <2>1. ASSUME NEW x, NEW c, NEW i, Waits(x, c, i) PROVE x \in Pooled
      <3>1. <<c, i>> \in Slots /\ chans[<<c, i>>[1]][<<c, i>>[2]] = x
        BY Zenon, <1>1, <2>1 DEF Waits
      <3> QED
        BY Zenon, <3>1 DEF Pooled
    <2>2. ASSUME NEW x \in Pooled PROVE \E c, i : Waits(x, c, i)
      BY <1>2 DEF Pooled
    <2> QED
      BY Zenon, <2>1, <2>2
  <1>4. \A x : x \in Held <=> x # 0 /\ \E w \in Workers : conn[w] = x
    BY Zenon DEF Held
  <1>5. \A s, t \in Slots : chans[s[1]][s[2]] = chans[t[1]][t[2]] => s = t
    <2> SUFFICES ASSUME NEW s \in Slots, NEW t \in Slots, chans[s[1]][s[2]] = chans[t[1]][t[2]]
                 PROVE  s = t
      BY Zenon
    <2>1. s[1] = t[1] /\ s[2] = t[2]
      BY <1>2 DEF IInv, Owned
    <2> QED
      BY Zenon, <1>2, <2>1
  <1>6. Pooled \cap Held = {}
    BY <1>3, <1>4 DEF IInv, Owned
  <1>7. open = Pooled \cup Held
    BY Zenon, <1>3, <1>4 DEF IInv, Owned
  <1> QED
    BY Zenon, <1>5, <1>6, <1>7 DEF IInv, Types, Owned, ConnSingleOwner

\* No connection has two owners and none is lost, whatever calls and Close do.
THEOREM SingleOwner == Spec => []ConnSingleOwner
  <1>1. Spec => []IInv
    BY InvInit, InvNext, PTL DEF Spec
  <1> QED
    BY <1>1, OwnedMeans, PTL

-----------------------------------------------------------------------------
(* Custom DNS                                                              *)

Data  == IPv4 \cup IPv6 \cup Names
EditSteps == {"idle", "clear", "insert", "replace", "hosts", "cnames", "apply"}
Calls == [at : EditSteps, e : Entries \cup {None}, todo : SUBSET Data, mends : BOOLEAN]

EditTypes ==
    /\ memory \in Records /\ table \in Records /\ resolver \in Records /\ acked \in Records
    /\ loaded \in [Clients -> Records]
    /\ call \in [Clients -> Calls]
    /\ \A c \in Clients :
          /\ call[c].e = None <=> CallAt(c, "idle")
          /\ CallAt(c, "insert") => call[c].todo # {}
          /\ call[c].at \in {"clear", "insert"} => call[c].e.kind = "host"
    /\ up \in BOOLEAN
    /\ torn \in SUBSET Entries /\ unserved \in SUBSET Entries
    /\ faults \in 0..MaxFaults

\* The handler's edit will leave its entry in order: the entry was in order when
\* it began, or it removes what is there, and no other edit of the entry runs.
Sound(c)   == call[c].e # None /\ (call[c].e \notin torn \/ call[c].mends)
Writing(c) == call[c].at \in {"clear", "insert", "replace"}

\* The reload of handler d is past the statement that reads entry e.
HasRead(d, e) == CallAt(d, "apply") \/ (CallAt(d, "cnames") /\ e.kind = "host")

Alone == \A c, d \in Clients : Sound(c) /\ call[d].e = call[c].e => c = d

\* What is written and what is left to write make up what memory has.
Written(c, e) ==
    /\ call[c].at \in {"clear", "replace"} => call[c].todo = memory[e]
    /\ call[c].at \in {"clear", "replace"} /\ e \notin torn => table[e] = acked[e]
    /\ CallAt(c, "insert") => table[e] \cup call[c].todo = memory[e]
    /\ ~Writing(c) => table[e] = memory[e]
    /\ HasRead(c, e) => loaded[c][e] = memory[e]

InHand == \A c \in Clients : Sound(c) => Written(c, call[c].e)

Kept == \A e \in Settled : table[e] = acked[e] /\ memory[e] = acked[e]

\* A reload has read the old value of an entry that is being written, the new
\* one of an entry whose edit is only left to reload.
ReadBack ==
    \A d \in Clients, e \in Entries \ unserved : HasRead(d, e) =>
        /\ e \in Settled => loaded[d][e] = acked[e]
        /\ \A c \in Clients : call[c].e = e /\ Sound(c) =>
              /\ ~Writing(c) => loaded[d][e] = memory[e]
              /\ Writing(c) /\ e \notin torn => loaded[d][e] = acked[e]

Served == up => \A e \in Entries \ (torn \cup unserved) : resolver[e] \in {acked[e], memory[e]}

CustomInv == EditTypes /\ Alone /\ InHand /\ Kept /\ ReadBack /\ Served
-----------------------------------------------------------------------------

\* What entries, values and the empty table are.
LEMMA ConstantFacts ==
    /\ None \notin Entries
    /\ \A n \in HostNames : host(n) \in Entries /\ host(n).kind = "host"
    /\ \A n \in Aliases : cname(n) \in Entries
    /\ \A v \in Values["host"] : v \in SUBSET Data /\ v # {}
    /\ \A v \in Values["cname"] : v \in SUBSET Data
    /\ Nothing \in Records
    /\ \A e \in Entries : e.kind \in {"host", "cname"}
  <1>1. None \notin Entries  BY Zenon, NoneAssumption
  <1>2. \A n \in HostNames : host(n) \in Entries /\ host(n).kind = "host"
    BY Zenon DEF host, Entries
  <1>3. \A n \in Aliases : cname(n) \in Entries
    BY Zenon DEF cname, Entries
  <1>4. \A v \in Values["host"] : v \in SUBSET Data /\ v # {}
    BY Zenon, ValuesAssumption DEF Data
  <1>5. \A v \in Values["cname"] : v \in SUBSET Data
    BY ValuesAssumption DEF Data
  <1>6. Nothing \in Records  BY Zenon DEF Nothing, Records
  <1>7. \A e \in Entries : e.kind \in {"host", "cname"}  BY Zenon DEF Entries
  <1> QED  BY Zenon, <1>1, <1>2, <1>3, <1>4, <1>5, <1>6, <1>7

\* The process starts with empty tables and no call.
LEMMA CustomInit == ASSUME DNSInit PROVE CustomInv
  <1>1. EditTypes
    <2>1. NoCall \in Calls
      BY Zenon DEF NoCall, Calls, EditSteps
    <2>2. faults \in 0..MaxFaults
      BY FaultsAssumption DEF DNSInit
    <2> QED  BY Zenon, <2>1, <2>2, ConstantFacts DEF DNSInit, EditTypes, NoCall, CallAt
  <1>2. \A c \in Clients : call[c].e = None /\ call[c].at = "idle"
    BY Zenon DEF DNSInit, NoCall
  <1>3. Alone /\ InHand
    BY Zenon, <1>2 DEF Alone, InHand, Sound
  <1>4. Kept
    BY Zenon DEF DNSInit, Kept, Settled, Nothing
  <1>5. ReadBack
    BY Zenon, <1>2 DEF ReadBack, HasRead, CallAt
  <1>6. Served
    BY Zenon DEF DNSInit, Served
  <1> QED  BY Zenon, <1>1, <1>3, <1>4, <1>5, <1>6 DEF CustomInv

\* An edit stays written as it is while its record and its entry are left alone.
LEMMA StillWritten ==
    ASSUME NEW d, NEW e, call[d].e = e, Written(d, call[d].e),
           call'[d].e = e, call'[d].at = call[d].at, call'[d].todo = call[d].todo,
           table'[e] = table[e], memory'[e] = memory[e], acked'[e] = acked[e],
           loaded'[d] = loaded[d], e \in torn' <=> e \in torn
    PROVE  Written(d, call[d].e)'
  <1>1. Written(d, e)
    BY Zenon
  <1>2. /\ Writing(d)' <=> Writing(d)
        /\ HasRead(d, e)' <=> HasRead(d, e)
        /\ CallAt(d, "insert")' <=> CallAt(d, "insert")
    BY Zenon DEF Writing, HasRead, CallAt
  <1>3. /\ call'[d].at \in {"clear", "replace"} => call'[d].todo = memory'[e]
        /\ call'[d].at \in {"clear", "replace"} /\ e \notin torn' => table'[e] = acked'[e]
        /\ CallAt(d, "insert")' => table'[e] \cup call'[d].todo = memory'[e]
        /\ ~Writing(d)' => table'[e] = memory'[e]
        /\ HasRead(d, e)' => loaded'[d][e] = memory'[e]
    BY Zenon, <1>1, <1>2 DEF Written
  <1> QED  BY Zenon, <1>1, <1>3 DEF Written, Writing, HasRead, CallAt

\* A handler's change of h.cfg under h.mu: an edit of an entry that is in order
\* starts from it, an edit of one that another handler edits tears it.
LEMMA EditStep ==
    ASSUME CustomInv, NEW c \in Clients, NEW e \in Entries, NEW value \in SUBSET Data,
           NEW first \in {"insert", "clear", "replace"},
           first = "insert" => memory[e] = {} /\ value # {},
           first # "replace" => e.kind = "host",
           Edit(c, e, value, first)
    PROVE  CustomInv'
  <1> USE DEF CustomInv
  <1>0. e # None
    BY Zenon, ConstantFacts
  <1>1. /\ call'[c].at = first /\ call'[c].e = e /\ call'[c].todo = value
        /\ call'[c].mends = (Editing(e) = {} /\ first # "insert")
        /\ call'[c] \in Calls
    BY Zenon DEF Edit, Calls, EditSteps
  <1>2. ASSUME NEW d \in Clients, d # c
        PROVE  /\ call'[d].at = call[d].at /\ call'[d].e = call[d].e
               /\ call'[d].todo = call[d].todo
               /\ call'[d].mends = (call[d].mends /\ call[d].e # e)
               /\ call'[d] \in Calls
    <2>1. call[d] \in Calls
      BY Zenon DEF EditTypes
    <2>2. call'[d] = [call[d] EXCEPT !.mends = call[d].mends /\ call[d].e # e]
      BY Zenon, <1>2 DEF Edit
    <2> QED  BY Zenon, <2>1, <2>2 DEF Calls
  <1>3. /\ memory' = [memory EXCEPT ![e] = value]
        /\ UNCHANGED <<table, resolver, up, loaded, unserved, faults>>
        /\ call[c].at = "idle" /\ call[c].e = None
    BY Zenon DEF Edit, CallAt, EditTypes
  <1>4. call' \in [Clients -> Calls]
    <2>1. call' = [d \in Clients |-> call'[d]]  BY Zenon DEF Edit
    <2> QED  BY Zenon, <2>1, <1>1, <1>2
  <1>5. IF Editing(e) = {} THEN torn' = torn /\ acked' = acked
                           ELSE torn' = torn \cup {e} /\ acked' = [acked EXCEPT ![e] = {}]
    BY Zenon DEF Edit, Tear
  <1>6. EditTypes'
    <2>1. memory' \in Records /\ acked' \in Records
      BY Zenon, <1>3, <1>5 DEF EditTypes, Records, Data
    <2>2. \A d \in Clients :
            /\ call'[d].e = None <=> call'[d].at = "idle"
            /\ call'[d].at = "insert" => call'[d].todo # {}
            /\ call'[d].at \in {"clear", "insert"} => call'[d].e.kind = "host"
      <3> SUFFICES ASSUME NEW d \in Clients
                   PROVE  /\ call'[d].e = None <=> call'[d].at = "idle"
                          /\ call'[d].at = "insert" => call'[d].todo # {}
                          /\ call'[d].at \in {"clear", "insert"} => call'[d].e.kind = "host"
        BY Zenon
      <3>1. CASE d = c
        <4>1. first # "idle" /\ (first \in {"clear", "insert"} => first # "replace")
          BY SMT
        <4> QED  BY Zenon, <3>1, <4>1, <1>0, <1>1
      <3>2. CASE d # c
        BY Zenon, <3>2, <1>2 DEF EditTypes, CallAt
      <3> QED  BY Zenon, <3>1, <3>2
    <2> QED  BY Zenon, <2>1, <2>2, <1>3, <1>4, <1>5 DEF EditTypes, CallAt
  <1>7. \A x \in Entries : x # e => memory'[x] = memory[x] /\ acked'[x] = acked[x]
    BY Zenon, <1>3, <1>5 DEF EditTypes, Records
  <1>8. ASSUME NEW d \in Clients, Sound(d)', d # c
        PROVE  Sound(d) /\ call[d].e # e
    <2>1. call[d].e # None /\ (call[d].e \notin torn' \/ call'[d].mends)
      BY Zenon, <1>2, <1>8 DEF Sound
    <2>2. call'[d].mends => call[d].mends /\ call[d].e # e
      BY Zenon, <1>2, <1>8
    <2>3. CASE Editing(e) = {}
      BY Zenon, <2>1, <2>2, <2>3, <1>5 DEF Sound, Editing
    <2>4. CASE Editing(e) # {}
      BY Zenon, <2>1, <2>2, <2>4, <1>5 DEF Sound
    <2> QED  BY Zenon, <2>3, <2>4
  <1>9. Sound(c)' => Editing(e) = {}
    BY Zenon, <1>1, <1>5 DEF Sound
  <1>10. Alone'
    <2> SUFFICES ASSUME NEW b \in Clients, NEW d \in Clients, Sound(b)', call'[d].e = call'[b].e
                 PROVE  b = d
      BY Zenon DEF Alone
    <2>1. CASE b = c
      <3>1. call'[d].e = e /\ Editing(e) = {}
        BY Zenon, <2>1, <1>1, <1>9
      <3>2. CASE d # c
        <4>1. d \in Editing(e)
          BY Zenon, <3>1, <3>2, <1>2 DEF Editing
        <4> QED  BY Zenon, <4>1, <3>1
      <3> QED  BY Zenon, <2>1, <3>2
    <2>2. CASE b # c
      <3>1. Sound(b) /\ call[b].e # e /\ call'[b].e = call[b].e
        BY Zenon, <2>2, <1>2, <1>8
      <3>2. CASE d = c
        BY Zenon, <3>1, <3>2, <1>1
      <3>3. CASE d # c
        <4>1. call[d].e = call[b].e
          BY Zenon, <3>1, <3>3, <1>2
        <4> QED  BY Zenon, <3>1, <4>1 DEF Alone
      <3> QED  BY Zenon, <3>2, <3>3
    <2> QED  BY Zenon, <2>1, <2>2
  <1>11. InHand'
    <2> SUFFICES ASSUME NEW d \in Clients, Sound(d)' PROVE Written(d, call[d].e)'
      BY Zenon DEF InHand
    <2>1. CASE d # c
      <3>1. Written(d, call[d].e) /\ call[d].e # e /\ call[d].e \in Entries
        BY Zenon, <2>1, <1>8 DEF InHand, EditTypes, Calls, Sound
      <3>2. call[d].e \in torn' <=> call[d].e \in torn
        BY Zenon, <3>1, <1>5
      <3>3. /\ call'[d].e = call[d].e /\ call'[d].at = call[d].at /\ call'[d].todo = call[d].todo
            /\ table' = table /\ loaded' = loaded
            /\ memory'[call[d].e] = memory[call[d].e] /\ acked'[call[d].e] = acked[call[d].e]
        BY Zenon, <2>1, <1>2, <1>3, <1>7, <3>1
      <3> QED  BY Zenon, <3>1, <3>2, <3>3, StillWritten
    <2>2. CASE d = c
      <3>1. Editing(e) = {} /\ torn' = torn /\ acked' = acked
        BY Zenon, <2>2, <1>9, <1>5
      <3>2. e \notin torn => table[e] = acked[e] /\ memory[e] = acked[e]
        BY Zenon, <3>1 DEF Kept, Settled
      <3>3. memory'[e] = value
        BY Zenon, <1>3 DEF EditTypes, Records
      <3>4. first = "insert" => e \notin torn
        BY Zenon, <3>1, <2>2, <1>1 DEF Sound
      <3> QED
        BY Zenon, <2>2, <1>1, <1>3, <3>1, <3>2, <3>3, <3>4 DEF Written, CallAt, Writing, HasRead
    <2> QED  BY Zenon, <2>1, <2>2
  <1>12. \A x \in Settled' : x # e /\ x \in Settled
    <2> SUFFICES ASSUME NEW x \in Settled' PROVE x # e /\ x \in Settled
      BY Zenon
    <2>1. x \in Entries \ torn' /\ \A d \in Clients : call'[d].e # x
      BY Zenon DEF Settled, Editing
    <2>2. x # e
      BY Zenon, <1>1, <2>1
    <2>3. x \notin torn
      BY Zenon, <1>5, <2>1
    <2>4. \A d \in Clients : call[d].e # x
      <3>1. call[c].e # x
        BY Zenon, <1>3, <2>1, ConstantFacts
      <3> QED
        BY Zenon, <1>2, <2>1, <3>1
    <2> QED
      BY Zenon, <2>1, <2>2, <2>3, <2>4 DEF Settled, Editing
  <1>13. Kept'
    BY Zenon, <1>12, <1>7, <1>3 DEF Kept, Settled
  <1>14. ReadBack'
    <2> SUFFICES ASSUME NEW d \in Clients, NEW x \in Entries \ unserved', HasRead(d, x)'
                 PROVE  /\ x \in Settled' => loaded'[d][x] = acked'[x]
                        /\ \A b \in Clients : call'[b].e = x /\ Sound(b)' =>
                             /\ ~Writing(b)' => loaded'[d][x] = memory'[x]
                             /\ Writing(b)' /\ x \notin torn' => loaded'[d][x] = acked'[x]
      BY Zenon DEF ReadBack
    <2>8. x \in Entries \ unserved /\ loaded' = loaded
      BY Zenon, <1>3
    <2> SUFFICES /\ x \in Settled' => loaded[d][x] = acked'[x]
                 /\ \A b \in Clients : call'[b].e = x /\ Sound(b)' =>
                      /\ ~Writing(b)' => loaded[d][x] = memory'[x]
                      /\ Writing(b)' /\ x \notin torn' => loaded[d][x] = acked'[x]
      BY Zenon, <2>8
    <2>0. HasRead(d, x)
      BY Zenon, <1>1, <1>2 DEF HasRead, CallAt
    <2>1. x \in Settled' => loaded[d][x] = acked'[x]
      BY Zenon, <2>0, <2>8, <1>12, <1>7 DEF ReadBack, Settled
    <2>2. ASSUME NEW b \in Clients, call'[b].e = x, Sound(b)', b # c
          PROVE  /\ ~Writing(b)' => loaded[d][x] = memory'[x]
                 /\ Writing(b)' /\ x \notin torn' => loaded[d][x] = acked'[x]
      <3>1. call[b].e = x /\ x # e /\ Sound(b)
        BY Zenon, <2>2, <1>2, <1>8
      <3>2. Writing(b)' <=> Writing(b)
        BY Zenon, <2>2, <1>2 DEF Writing
      <3>3. x \notin torn' => x \notin torn
        BY Zenon, <1>5
      <3>4. /\ ~Writing(b) => loaded[d][x] = memory[x]
            /\ Writing(b) /\ x \notin torn => loaded[d][x] = acked[x]
        BY Zenon, <2>0, <2>8, <3>1 DEF ReadBack
      <3> QED
        BY Zenon, <3>1, <3>2, <3>3, <3>4, <1>7
    <2>3. ASSUME call'[c].e = x, Sound(c)'
          PROVE  /\ ~Writing(c)' => loaded[d][x] = memory'[x]
                 /\ Writing(c)' /\ x \notin torn' => loaded[d][x] = acked'[x]
      <3>1. Editing(e) = {} /\ torn' = torn /\ acked' = acked /\ x = e
        BY Zenon, <2>3, <1>9, <1>5, <1>1
      <3>2. Writing(c)'
        BY Zenon, <1>1 DEF Writing
      <3>3. x \notin torn => x \in Settled
        BY Zenon, <3>1 DEF Settled
      <3> QED  BY Zenon, <2>0, <2>8, <3>1, <3>2, <3>3 DEF ReadBack
    <2> QED  BY Zenon, <2>1, <2>2, <2>3
  <1>15. Served'
    <2> SUFFICES ASSUME up, NEW x \in Entries \ (torn' \cup unserved)
                 PROVE  resolver[x] \in {acked'[x], memory'[x]}
      BY Zenon, <1>3 DEF Served
    <2>1. x \notin torn /\ resolver[x] \in {acked[x], memory[x]}
      BY Zenon, <1>5 DEF Served
    <2>2. CASE x # e
      BY Zenon, <2>1, <2>2, <1>7
    <2>3. CASE x = e
      <3>1. Editing(e) = {} /\ acked' = acked
        BY Zenon, <2>3, <1>5
      <3>2. x \in Settled
        BY Zenon, <3>1, <2>1, <2>3 DEF Settled
      <3> QED  BY Zenon, <3>1, <3>2, <2>1 DEF Kept
    <2> QED  BY Zenon, <2>2, <2>3
  <1> QED  BY Zenon, <1>6, <1>10, <1>11, <1>13, <1>14, <1>15
\* A write to the table, whichever it is: row is what it leaves of the entry,
\* todo what is left to write, and next where the handler goes on.
LEMMA WriteStep ==
    ASSUME CustomInv, NEW c \in Clients, Writing(c),
           NEW row \in SUBSET Data, NEW todo \in SUBSET Data, NEW next \in {"insert", "hosts"},
           Write(c, [table EXCEPT ![call[c].e] = row]),
           call' = [call EXCEPT ![c] = [at |-> next, e |-> call[c].e, todo |-> todo,
                                        mends |-> call[c].mends]],
           next = "insert" => todo # {} /\ call[c].at \in {"clear", "insert"},
           Sound(c) => IF next = "insert" THEN row \cup todo = memory[call[c].e]
                                          ELSE row = memory[call[c].e]
    PROVE  CustomInv'
  <1> DEFINE e == call[c].e
  <1> USE DEF CustomInv
  <1>1. e \in Entries /\ e # None /\ call[c].at # "idle"
    BY Zenon, ConstantFacts DEF EditTypes, Calls, Writing, CallAt
  <1>2. /\ call'[c].at = next /\ call'[c].e = e /\ call'[c].todo = todo
        /\ call'[c].mends = call[c].mends
        /\ call' \in [Clients -> Calls]
    <2>1. [at |-> next, e |-> e, todo |-> todo, mends |-> call[c].mends] \in Calls
      BY Zenon DEF EditTypes, Calls, EditSteps
    <2> QED  BY Zenon, <2>1 DEF EditTypes
  <1>3. \A d \in Clients \ {c} : call'[d] = call[d]
    BY Zenon DEF EditTypes
  <1>4. \A d \in Clients : call'[d].e = call[d].e /\ call'[d].mends = call[d].mends
    BY Zenon, <1>2, <1>3
  <1>5. /\ UNCHANGED <<memory, resolver, up, loaded, acked, torn, faults>>
        /\ table' = [table EXCEPT ![e] = row]
        /\ unserved' = IF Reloading = {} THEN unserved ELSE unserved \cup {e}
    BY Zenon DEF Write
  <1>6. table'[e] = row /\ \A x \in Entries \ {e} : table'[x] = table[x]
    BY Zenon, <1>1, <1>5 DEF EditTypes, Records
  <1>7. \A d \in Clients : Sound(d)' <=> Sound(d)
    <2>1. torn' = torn  BY Zenon, <1>5
    <2> QED  BY <2>1, <1>4 DEF Sound
  <1>8. Settled' = Settled /\ e \notin Settled
    <2>1. torn' = torn /\ \A x : Editing(x)' = Editing(x)
      BY Zenon, <1>4, <1>5 DEF Editing
    <2>2. c \in Editing(e)
      BY Zenon DEF Editing
    <2> QED  BY Zenon, <2>1, <2>2 DEF Settled
  <1>9. EditTypes'
    <2>1. table' \in Records
      BY Zenon, <1>1, <1>5 DEF EditTypes, Records, Data
    <2>2. unserved' \in SUBSET Entries
      BY Zenon, <1>1, <1>5 DEF EditTypes
    <2>3. \A d \in Clients :
            /\ call'[d].e = None <=> call'[d].at = "idle"
            /\ call'[d].at = "insert" => call'[d].todo # {}
            /\ call'[d].at \in {"clear", "insert"} => call'[d].e.kind = "host"
      BY Zenon, <1>1, <1>2, <1>3 DEF EditTypes, CallAt
    <2> QED  BY Zenon, <2>1, <2>2, <2>3, <1>2, <1>5 DEF EditTypes, CallAt
  <1>10. Alone'
    BY <1>4, <1>7 DEF Alone
  <1>11. InHand'
    <2> SUFFICES ASSUME NEW d \in Clients, Sound(d)' PROVE Written(d, call[d].e)'
      BY Zenon DEF InHand
    <2>0. Sound(d)
      BY Zenon, <1>7
    <2>1. CASE d # c
      <3>1. Written(d, call[d].e) /\ call[d].e # e
        BY Zenon, <2>0, <2>1 DEF Alone, InHand
      <3>2. call[d].e \in Entries
        BY Zenon, <2>0 DEF Sound, EditTypes, Calls
      <3>3. call'[d] = call[d] /\ table'[call[d].e] = table[call[d].e]
        BY Zenon, <2>1, <3>1, <3>2, <1>3, <1>6
      <3>4. memory' = memory /\ loaded' = loaded /\ acked' = acked /\ torn' = torn
        BY Zenon, <1>5
      <3> QED  BY Zenon, <3>1, <3>3, <3>4, StillWritten
    <2>2. CASE d = c
      BY Zenon, <2>0, <2>2, <1>2, <1>5, <1>6 DEF Written, CallAt, Writing, HasRead
    <2> QED  BY Zenon, <2>1, <2>2
  <1>12. Kept'
    BY Zenon, <1>8, <1>6, <1>5 DEF Kept, Settled
  <1>13. ReadBack'
    <2> SUFFICES ASSUME NEW d \in Clients, NEW x \in Entries \ unserved', HasRead(d, x)'
                 PROVE  /\ x \in Settled' => loaded'[d][x] = acked'[x]
                        /\ \A b \in Clients : call'[b].e = x /\ Sound(b)' =>
                             /\ ~Writing(b)' => loaded'[d][x] = memory'[x]
                             /\ Writing(b)' /\ x \notin torn' => loaded'[d][x] = acked'[x]
      BY Zenon DEF ReadBack
    <2>0. loaded' = loaded /\ memory' = memory /\ acked' = acked /\ torn' = torn
      BY Zenon, <1>5
    <2> SUFFICES /\ x \in Settled' => loaded[d][x] = acked[x]
                 /\ \A b \in Clients : call'[b].e = x /\ Sound(b)' =>
                      /\ ~Writing(b)' => loaded[d][x] = memory[x]
                      /\ Writing(b)' /\ x \notin torn => loaded[d][x] = acked[x]
      BY Zenon, <2>0
    <2>1. d # c /\ HasRead(d, x)
      BY Zenon, <1>2, <1>3 DEF HasRead, CallAt
    <2>2. d \in Reloading
      BY Zenon, <2>1 DEF HasRead, CallAt, Reloading
    <2>3. x \in Entries \ unserved /\ x # e
      BY Zenon, <2>2, <1>5
    <2>4. \A b \in Clients : call'[b].e = x => b # c /\ call[b] = call'[b]
      BY Zenon, <2>3, <1>2, <1>3
    <2>5. x \in Settled' => loaded[d][x] = acked[x]
      BY Zenon, <2>1, <2>3, <1>8 DEF ReadBack
    <2>6. ASSUME NEW b \in Clients, call'[b].e = x, Sound(b)'
          PROVE  /\ ~Writing(b)' => loaded[d][x] = memory[x]
                 /\ Writing(b)' /\ x \notin torn => loaded[d][x] = acked[x]
      <3>1. Sound(b) /\ call'[b] = call[b]
        <4>1. call'[b] = call[b]  BY Zenon, <2>4, <2>6
        <4>2. Sound(b)  BY Zenon, <2>6, <1>7
        <4> QED  BY Zenon, <4>1, <4>2
      <3>2. /\ ~Writing(b) => loaded[d][x] = memory[x]
            /\ Writing(b) /\ x \notin torn => loaded[d][x] = acked[x]
        <4>1. call[b].e = x /\ Sound(b) /\ HasRead(d, x) /\ x \in Entries \ unserved
          BY Zenon, <2>1, <2>3, <2>6, <3>1
        <4> QED  BY Zenon, <4>1 DEF ReadBack
      <3> QED  BY Zenon, <3>1, <3>2 DEF Writing
    <2> QED  BY Zenon, <2>5, <2>6
  <1>14. Served'
    BY Zenon, <1>5 DEF Served
  <1> QED  BY Zenon, <1>9, <1>10, <1>11, <1>12, <1>13, <1>14

\* A step of a handler that writes the table only.
LEMMA TableStep ==
    ASSUME CustomInv, NEW c \in Clients,
           \/ ClearHost(c)
           \/ \E ip \in call[c].todo : InsertHost(c, ip)
           \/ ReplaceCNAME(c) \/ RemoveCNAME(c)
    PROVE  CustomInv'
  <1> DEFINE e == call[c].e
             todo == call[c].todo
  <1>1. /\ call \in [Clients -> Calls] /\ todo \in SUBSET Data /\ {} \in SUBSET Data
        /\ table \in Records
    BY Zenon DEF CustomInv, EditTypes, Calls
  <1>2. Sound(c) => Written(c, e)
    BY Zenon DEF CustomInv, InHand
  <1>3. ASSUME NEW step \in EditSteps
        PROVE  [call EXCEPT ![c].at = step]
               = [call EXCEPT ![c] = [at |-> step, e |-> e, todo |-> todo, mends |-> call[c].mends]]
    <2>1. [call[c] EXCEPT !.at = step]
          = [at |-> step, e |-> e, todo |-> todo, mends |-> call[c].mends]
      BY <1>1 DEF Calls
    <2> QED  BY Zenon, <2>1
  <1>4. CASE ClearHost(c)
    <2>1. Writing(c) /\ CallAt(c, "clear")
      BY Zenon, <1>4 DEF ClearHost, CallAt, Writing
    <2> DEFINE next == IF todo = {} THEN "hosts" ELSE "insert"
    <2>2. next \in {"insert", "hosts"} /\ next \in EditSteps /\ (next = "insert" <=> todo # {})
      BY Zenon DEF EditSteps
    <2>3. Write(c, [table EXCEPT ![e] = {}]) /\ call' = [call EXCEPT ![c].at = next]
      BY Zenon, <1>4 DEF ClearHost, CallGoto
    <2>4. call' = [call EXCEPT ![c] = [at |-> next, e |-> e, todo |-> todo,
                                       mends |-> call[c].mends]]
      BY Zenon, <1>3, <2>2, <2>3
    <2>5. Sound(c) => IF next = "insert" THEN {} \cup todo = memory[e] ELSE {} = memory[e]
      BY Zenon, <1>2, <2>1, <2>2 DEF Written, CallAt
    <2> HIDE DEF next
    <2> QED  BY Zenon, <1>1, <2>1, <2>2, <2>3, <2>4, <2>5, WriteStep DEF CallAt
  <1>5. ASSUME NEW ip \in todo, InsertHost(c, ip)
        PROVE  CustomInv'
    <2>1. Writing(c) /\ CallAt(c, "insert")
      BY Zenon, <1>5 DEF InsertHost, CallAt, Writing
    <2> DEFINE next == IF todo = {ip} THEN "hosts" ELSE "insert"
               row  == table[e] \cup {ip}
    <2>2. next \in {"insert", "hosts"} /\ (next = "insert" <=> todo \ {ip} # {})
      BY Zenon, <1>5
    <2>3. e \in Entries
      BY Zenon, <2>1, ConstantFacts DEF CustomInv, EditTypes, Calls, CallAt
    <2>4. row \in SUBSET Data /\ todo \ {ip} \in SUBSET Data
      BY Zenon, <1>1, <2>3 DEF Records, Data
    <2>5. Write(c, [table EXCEPT ![e] = row])
      BY Zenon, <1>1, <1>5, <2>3 DEF InsertHost, Records
    <2>6. call' = [call EXCEPT ![c] = [at |-> next, e |-> e, todo |-> todo \ {ip},
                                       mends |-> call[c].mends]]
      <3>1. [call[c] EXCEPT !.todo = todo \ {ip}, !.at = next]
            = [at |-> next, e |-> e, todo |-> todo \ {ip}, mends |-> call[c].mends]
        <4> DEFINE q == [call[c] EXCEPT !.todo = todo \ {ip}]
        <4>1. q \in Calls /\ q.e = e /\ q.mends = call[c].mends /\ q.todo = todo \ {ip}
          BY Zenon, <1>1, <2>4 DEF Calls
        <4>2. [call[c] EXCEPT !.todo = todo \ {ip}, !.at = next] = [q EXCEPT !.at = next]
          BY Zenon
        <4> HIDE DEF q, next
        <4>3. [q EXCEPT !.at = next]
              = [at |-> next, e |-> e, todo |-> todo \ {ip}, mends |-> call[c].mends]
          BY <4>1 DEF Calls
        <4> QED  BY Zenon, <4>2, <4>3
      <3>2. call' = [call EXCEPT ![c] = [call[c] EXCEPT !.todo = todo \ {ip}, !.at = next]]
        BY Zenon, <1>1, <1>5 DEF InsertHost
      <3> QED  BY Zenon, <3>1, <3>2
    <2>7. Sound(c) => IF next = "insert" THEN row \cup (todo \ {ip}) = memory[e]
                                         ELSE row = memory[e]
      BY Zenon, <1>2, <2>1 DEF Written, CallAt
    <2> HIDE DEF next, row
    <2> QED  BY Zenon, <2>1, <2>2, <2>4, <2>5, <2>6, <2>7, WriteStep DEF CallAt
  <1>6. CASE ReplaceCNAME(c) \/ RemoveCNAME(c)
    <2>1. Writing(c) /\ CallAt(c, "replace")
      BY Zenon, <1>6 DEF ReplaceCNAME, RemoveCNAME, CallAt, Writing
    <2>2. Write(c, [table EXCEPT ![e] = todo]) /\ call' = [call EXCEPT ![c].at = "hosts"]
      BY Zenon, <1>6 DEF ReplaceCNAME, RemoveCNAME, CallGoto
    <2>3. call' = [call EXCEPT ![c] = [at |-> "hosts", e |-> e, todo |-> todo,
                                       mends |-> call[c].mends]]
      BY Zenon, <1>3, <2>2 DEF EditSteps
    <2>4. Sound(c) => todo = memory[e]
      BY Zenon, <1>2, <2>1 DEF Written, CallAt
    <2> QED  BY Zenon, <1>1, <2>1, <2>2, <2>3, <2>4, WriteStep DEF CallAt
  <1> QED  BY Zenon, <1>4, <1>5, <1>6

\* A write fails: the entry is torn, and the others are as they were.
LEMMA WriteFailsStep ==
    ASSUME CustomInv, NEW c \in Clients, WriteFails(c)
    PROVE  CustomInv'
  <1> DEFINE e == call[c].e
  <1> USE DEF CustomInv
  <1>1. e \in Entries /\ e # None
    BY Zenon, ConstantFacts DEF WriteFails, EditTypes, Calls, CallAt
  <1>2. /\ call'[c] = NoCall /\ (\A d \in Clients \ {c} : call'[d] = call[d])
        /\ call' \in [Clients -> Calls]
    BY Zenon DEF WriteFails, EditTypes, NoCall, Calls, EditSteps
  <1>3. /\ UNCHANGED <<memory, resolver, up, loaded, unserved>>
        /\ torn' = torn \cup {e} /\ acked' = [acked EXCEPT ![e] = {}]
        /\ table' \in Records
        /\ \A x \in Entries \ {e} : table'[x] = table[x] /\ acked'[x] = acked[x]
    BY Zenon, <1>1 DEF WriteFails, Tear, EditTypes, Records
  <1>4. call'[c].e = None /\ call'[c].at = "idle" /\ ~call'[c].mends
    <2>1. NoCall.e = None /\ NoCall.at = "idle" /\ ~NoCall.mends
      BY Zenon DEF NoCall
    <2> QED  BY Zenon, <1>2, <2>1
  <1>5. EditTypes'
    <2>1. acked' \in Records /\ torn' \in SUBSET Entries
      BY Zenon, <1>1, <1>3 DEF EditTypes, Records
    <2>2. faults' \in 0..MaxFaults
      <3>1. faults \in 0..MaxFaults /\ faults < MaxFaults /\ faults' = faults + 1
        BY Zenon DEF WriteFails, Fault, EditTypes
      <3> QED  BY <3>1, FaultsAssumption
    <2>3. \A d \in Clients :
            /\ call'[d].e = None <=> call'[d].at = "idle"
            /\ call'[d].at = "insert" => call'[d].todo # {}
            /\ call'[d].at \in {"clear", "insert"} => call'[d].e.kind = "host"
      BY Zenon, <1>2, <1>4 DEF EditTypes, CallAt
    <2> QED  BY Zenon, <2>1, <2>2, <2>3, <1>2, <1>3 DEF EditTypes, CallAt
  <1>6. ASSUME NEW d \in Clients, Sound(d)'
        PROVE  d # c /\ Sound(d) /\ call'[d] = call[d] /\ call[d].e \in Entries \ {e}
    <2>1. d # c /\ call'[d] = call[d]
      BY Zenon, <1>6, <1>2, <1>4 DEF Sound
    <2>2. Sound(d) /\ call[d].e \in Entries
      BY Zenon, <1>6, <2>1, <1>3 DEF Sound, EditTypes, Calls
    <2>3. call[d].e # e
      BY Zenon, <2>1, <2>2 DEF Alone
    <2> QED  BY Zenon, <2>1, <2>2, <2>3
  <1>7. Alone'
    <2> SUFFICES ASSUME NEW b \in Clients, NEW d \in Clients, Sound(b)', call'[d].e = call'[b].e
                 PROVE  b = d
      BY Zenon DEF Alone
    <2>1. b # c /\ Sound(b) /\ call'[b].e = call[b].e /\ call[b].e # None
      BY Zenon, <1>6 DEF Sound
    <2>2. d # c
      BY Zenon, <2>1, <1>4
    <2>3. call[d].e = call[b].e
      BY Zenon, <2>1, <2>2, <1>2
    <2> QED  BY Zenon, <2>1, <2>3 DEF Alone
  <1>8. InHand'
    <2> SUFFICES ASSUME NEW d \in Clients, Sound(d)' PROVE Written(d, call[d].e)'
      BY Zenon DEF InHand
    <2>1. Written(d, call[d].e)
      BY Zenon, <1>6 DEF InHand
    <2>2. /\ call'[d] = call[d] /\ memory' = memory /\ loaded' = loaded
          /\ table'[call[d].e] = table[call[d].e] /\ acked'[call[d].e] = acked[call[d].e]
          /\ call[d].e \in torn' <=> call[d].e \in torn
      BY Zenon, <1>6, <1>3
    <2> QED  BY Zenon, <2>1, <2>2, StillWritten
  <1>9. \A x \in Settled' : x \in Settled /\ x # e
    BY Zenon, <1>2, <1>3 DEF Settled, Editing
  <1>10. Kept'
    BY Zenon, <1>9, <1>3 DEF Kept, Settled
  <1>11. ReadBack'
    <2> SUFFICES ASSUME NEW d \in Clients, NEW x \in Entries \ unserved', HasRead(d, x)'
                 PROVE  /\ x \in Settled' => loaded'[d][x] = acked'[x]
                        /\ \A b \in Clients : call'[b].e = x /\ Sound(b)' =>
                             /\ ~Writing(b)' => loaded'[d][x] = memory'[x]
                             /\ Writing(b)' /\ x \notin torn' => loaded'[d][x] = acked'[x]
      BY Zenon DEF ReadBack
    <2>0. x \in Entries \ unserved /\ loaded' = loaded /\ memory' = memory
      BY Zenon, <1>3
    <2> SUFFICES /\ x \in Settled' => loaded[d][x] = acked'[x]
                 /\ \A b \in Clients : call'[b].e = x /\ Sound(b)' =>
                      /\ ~Writing(b)' => loaded[d][x] = memory[x]
                      /\ Writing(b)' /\ x \notin torn' => loaded[d][x] = acked'[x]
      BY Zenon, <2>0
    <2>1. HasRead(d, x)
      BY Zenon, <1>2, <1>4 DEF HasRead, CallAt
    <2>2. x \in Settled' => loaded[d][x] = acked'[x]
      BY Zenon, <2>0, <2>1, <1>9, <1>3 DEF ReadBack
    <2>3. ASSUME NEW b \in Clients, call'[b].e = x, Sound(b)'
          PROVE  /\ ~Writing(b)' => loaded[d][x] = memory[x]
                 /\ Writing(b)' /\ x \notin torn' => loaded[d][x] = acked'[x]
      <3>1. Sound(b) /\ call'[b] = call[b] /\ x # e
        BY Zenon, <2>3, <1>6
      <3>2. acked'[x] = acked[x] /\ (x \notin torn' => x \notin torn)
        BY Zenon, <3>1, <1>3
      <3> QED  BY Zenon, <2>0, <2>1, <2>3, <3>1, <3>2 DEF ReadBack, Writing
    <2> QED  BY Zenon, <2>2, <2>3
  <1>12. Served'
    BY Zenon, <1>3 DEF Served
  <1> QED  BY Zenon, <1>5, <1>7, <1>8, <1>10, <1>11, <1>12

\* A reload reads the hosts, or then the aliases: it sees what was acknowledged
\* of an entry nobody writes, and never half of an alias.
LEMMA ExportStep ==
    ASSUME CustomInv, NEW c \in Clients, ExportHosts(c) \/ ExportCNAMEs(c)
    PROVE  CustomInv'
  <1> DEFINE e == call[c].e
  <1> USE DEF CustomInv
  <1>1. /\ call[c].at \in {"hosts", "cnames"} /\ ~Writing(c) /\ e \in Entries
        /\ call'[c].at \in {"cnames", "apply"}
        /\ \A d \in Clients \ {c} : call'[d] = call[d]
    BY SMTT(20), ConstantFacts
    DEF ExportHosts, ExportCNAMEs, CallGoto, CallAt, Writing, EditTypes, Calls
  <1>2. /\ call' \in [Clients -> Calls]
        /\ \A d \in Clients : /\ call'[d].e = call[d].e /\ call'[d].mends = call[d].mends
                              /\ call'[d].todo = call[d].todo
    <2>1. PICK step \in {"cnames", "apply"} : call' = [call EXCEPT ![c].at = step]
      BY Zenon DEF ExportHosts, ExportCNAMEs, CallGoto
    <2>2. call' = [call EXCEPT ![c] = [call[c] EXCEPT !.at = step]]
      BY Zenon, <2>1
    <2>3. call[c] \in Calls /\ call \in [Clients -> Calls]
      BY Zenon DEF EditTypes
    <2>4. /\ [call[c] EXCEPT !.at = step] \in Calls
          /\ [call[c] EXCEPT !.at = step].e = call[c].e
          /\ [call[c] EXCEPT !.at = step].mends = call[c].mends
          /\ [call[c] EXCEPT !.at = step].todo = call[c].todo
      BY Zenon, <2>3 DEF Calls, EditSteps
    <2> QED
      BY Zenon, <2>2, <2>3, <2>4
  <1>3. UNCHANGED <<memory, table, resolver, up, acked, torn, faults>>
    BY Zenon DEF ExportHosts, ExportCNAMEs, ghosts
  <1>4. \A d \in Clients : Writing(d)' <=> Writing(d)
    BY Zenon, <1>1 DEF Writing
  <1>5. /\ unserved \subseteq unserved' /\ unserved' \in SUBSET Entries
        /\ \A d \in Clients, x \in Entries \ unserved' :
              CallAt(d, "insert") /\ call[d].e = x => ~(HasRead(c, x)' /\ ~HasRead(c, x))
    <2>1. CASE ExportHosts(c)
      <3>1. unserved' = unserved \cup {call[d].e : d \in {y \in Clients \ {c} : CallAt(y, "insert")}}
        BY Zenon, <2>1 DEF ExportHosts, HalfWritten
      <3>2. \A d \in Clients : CallAt(d, "insert") => d # c /\ call[d].e \in Entries
        BY Zenon, <1>1 DEF EditTypes, Calls, CallAt
      <3> QED  BY Zenon, <3>1, <3>2 DEF EditTypes
    <2>2. CASE ExportCNAMEs(c)
      <3>1. unserved' = unserved /\ CallAt(c, "cnames")
        BY Zenon, <2>2 DEF ExportCNAMEs, ghosts
      <3>2. \A d \in Clients : CallAt(d, "insert") => call[d].e.kind = "host"
        BY Zenon DEF EditTypes, CallAt
      <3> QED  BY Zenon, <3>1, <3>2 DEF HasRead, EditTypes
    <2> QED  BY Zenon, <2>1, <2>2
  <1>6. /\ loaded' \in [Clients -> Records]
        /\ \A d \in Clients \ {c} : loaded'[d] = loaded[d]
    <2>1. GetAllHosts(Nothing) \in Records /\ GetAllCNAMEs(loaded[c]) \in Records
      <3>1. /\ Nothing \in Records /\ loaded[c] \in Records /\ table \in Records
        BY Zenon, ConstantFacts DEF EditTypes
      <3> QED  BY Zenon, <3>1 DEF GetAllHosts, GetAllCNAMEs, Records
    <2> QED  BY Zenon, <2>1 DEF ExportHosts, ExportCNAMEs, EditTypes
  <1>7. ASSUME NEW x \in Entries, HasRead(c, x)'
        PROVE  loaded'[c][x] = IF HasRead(c, x) THEN loaded[c][x] ELSE table[x]
    <2>1. CASE ExportHosts(c)
      <3>1. loaded'[c] = GetAllHosts(Nothing) /\ call'[c].at = "cnames" /\ call[c].at = "hosts"
        BY Zenon, <2>1 DEF ExportHosts, CallGoto, CallAt, EditTypes, Calls
      <3> QED  BY Zenon, <3>1, <1>7 DEF HasRead, CallAt, GetAllHosts
    <2>2. CASE ExportCNAMEs(c)
      <3>1. loaded'[c] = GetAllCNAMEs(loaded[c]) /\ call[c].at = "cnames"
        BY Zenon, <2>2 DEF ExportCNAMEs, CallAt, EditTypes
      <3>2. x.kind \in {"host", "cname"}
        BY Zenon, ConstantFacts
      <3> QED  BY Zenon, <3>1, <3>2 DEF HasRead, CallAt, GetAllCNAMEs
    <2> QED  BY Zenon, <2>1, <2>2
  <1>8. \A d \in Clients : Sound(d)' <=> Sound(d)
    <2>1. torn' = torn  BY Zenon, <1>3
    <2> QED  BY Zenon, <2>1, <1>2 DEF Sound
  <1>9. Settled' = Settled
    <2>1. torn' = torn /\ \A x : Editing(x)' = Editing(x)
      BY Zenon, <1>2, <1>3 DEF Editing
    <2> QED  BY Zenon, <2>1 DEF Settled
  <1>10. EditTypes'
    <2>1. \A d \in Clients :
            /\ call'[d].e = None <=> call'[d].at = "idle"
            /\ call'[d].at = "insert" => call'[d].todo # {}
            /\ call'[d].at \in {"clear", "insert"} => call'[d].e.kind = "host"
      <3>1. /\ call'[c].at \notin {"idle", "insert", "clear"}
            /\ call'[c].e # None
        BY Zenon, <1>1, <1>2, ConstantFacts
      <3>2. \A d \in Clients \ {c} :
              /\ call'[d].e = None <=> call'[d].at = "idle"
              /\ call'[d].at = "insert" => call'[d].todo # {}
              /\ call'[d].at \in {"clear", "insert"} => call'[d].e.kind = "host"
        <4>1. \A d \in Clients :
                /\ call[d].e = None <=> call[d].at = "idle"
                /\ call[d].at = "insert" => call[d].todo # {}
                /\ call[d].at \in {"clear", "insert"} => call[d].e.kind = "host"
          BY Zenon DEF EditTypes, CallAt
        <4>2. \A d \in Clients \ {c} : call'[d] = call[d]
          BY Zenon, <1>1
        <4> QED  BY Zenon, <4>1, <4>2
      <3> QED  BY Zenon, <3>1, <3>2
    <2> QED  BY Zenon, <2>1, <1>2, <1>3, <1>5, <1>6 DEF EditTypes, CallAt
  <1>11. Alone'
    BY <1>2, <1>8 DEF Alone
  <1>12. InHand'
    <2> SUFFICES ASSUME NEW d \in Clients, Sound(d)' PROVE Written(d, call[d].e)'
      BY Zenon DEF InHand
    <2>0. Written(d, call[d].e)
      BY Zenon, <1>8 DEF InHand
    <2>1. CASE d # c
      BY Zenon, <2>0, <2>1, <1>1, <1>3, <1>6 DEF Written, CallAt, Writing, HasRead
    <2>2. CASE d = c
      <3>1. table[e] = memory[e] /\ (HasRead(c, e) => loaded[c][e] = memory[e])
        BY Zenon, <2>0, <2>2, <1>1 DEF Written
      <3>2. \A x \in Entries : x = e /\ HasRead(c, x)' => loaded'[c][x] = memory[x]
        BY Zenon, <3>1, <1>7
      <3>3. ~Writing(c)' /\ call'[c].e = e
        BY Zenon, <1>1, <1>2, <1>4
      <3> QED  BY Zenon, <2>2, <3>1, <3>2, <3>3, <1>1, <1>3 DEF Written, CallAt, HasRead
    <2> QED  BY Zenon, <2>1, <2>2
  <1>13. Kept'
    BY Zenon, <1>3, <1>9 DEF Kept
  <1>14. ReadBack'
    <2> SUFFICES ASSUME NEW d \in Clients, NEW x \in Entries \ unserved', HasRead(d, x)'
                 PROVE  /\ x \in Settled' => loaded'[d][x] = acked'[x]
                        /\ \A b \in Clients : call'[b].e = x /\ Sound(b)' =>
                             /\ ~Writing(b)' => loaded'[d][x] = memory'[x]
                             /\ Writing(b)' /\ x \notin torn' => loaded'[d][x] = acked'[x]
      BY Zenon DEF ReadBack
    <2>8. /\ memory' = memory /\ acked' = acked /\ torn' = torn /\ Settled' = Settled
          /\ \A b \in Clients : call'[b].e = call[b].e /\ (Sound(b)' <=> Sound(b))
                                /\ (Writing(b)' <=> Writing(b))
      BY Zenon, <1>2, <1>3, <1>4, <1>8, <1>9
    <2> SUFFICES /\ x \in Settled => loaded'[d][x] = acked[x]
                 /\ \A b \in Clients : call[b].e = x /\ Sound(b) =>
                      /\ ~Writing(b) => loaded'[d][x] = memory[x]
                      /\ Writing(b) /\ x \notin torn => loaded'[d][x] = acked[x]
      BY Zenon, <2>8
    <2>0. x \in Entries \ unserved
      BY Zenon, <1>5
    <2>1. CASE HasRead(d, x)
      <3>1. loaded'[d][x] = loaded[d][x]
        BY Zenon, <2>1, <1>6, <1>7
      <3> QED  BY Zenon, <2>0, <2>1, <3>1 DEF ReadBack
    <2>2. CASE ~HasRead(d, x)
      <3>1. d = c
        BY Zenon, <2>2, <1>1 DEF HasRead, CallAt
      <3>2. loaded'[d][x] = table[x]
        BY Zenon, <3>1, <2>2, <1>7
      <3>3. x \in Settled => table[x] = acked[x]
        BY Zenon DEF Kept
      <3>4. ASSUME NEW b \in Clients, call[b].e = x, Sound(b)
            PROVE  /\ ~Writing(b) => table[x] = memory[x]
                   /\ Writing(b) /\ x \notin torn => table[x] = acked[x]
        <4>1. Written(b, x)
          BY Zenon, <3>4 DEF InHand
        <4>2. ~CallAt(b, "insert")
          BY Zenon, <3>1, <3>4, <2>2, <1>5
        <4> QED  BY Zenon, <4>1, <4>2 DEF Written, Writing, CallAt
      <3> QED  BY Zenon, <3>2, <3>3, <3>4
    <2> QED  BY Zenon, <2>1, <2>2
  <1>15. Served'
    BY Zenon, <1>3, <1>5 DEF Served
  <1> QED  BY Zenon, <1>10, <1>11, <1>12, <1>13, <1>14, <1>15

\* A handler answers with success, its reload done or failed: an entry that is
\* in order from then on is in the table and in memory as it was asked for.
LEMMA AnswerStep ==
    ASSUME CustomInv, NEW c \in Clients, ReloadCustomDNS(c) \/ ReloadFails(c)
    PROVE  CustomInv'
  <1> DEFINE e == call[c].e
  <1> USE DEF CustomInv
  <1>1. e \in Entries /\ e # None /\ ~Writing(c)
    BY Zenon, ConstantFacts DEF ReloadCustomDNS, ReloadFails, CallAt, Writing, EditTypes, Calls
  <1>2. /\ UNCHANGED <<memory, table, up>>
        /\ torn' = IF call[c].mends THEN torn \ {e} ELSE torn
        /\ acked' = [acked EXCEPT ![e] = IF e \in torn' THEN {} ELSE memory[e]]
        /\ call' = [call EXCEPT ![c] = NoCall]
        /\ loaded' = [loaded EXCEPT ![c] = Nothing]
    BY Zenon DEF ReloadCustomDNS, ReloadFails, Answer
  <1>3. /\ call'[c] = NoCall /\ (\A d \in Clients \ {c} : call'[d] = call[d])
        /\ call' \in [Clients -> Calls]
    <2>1. NoCall \in Calls  BY Zenon DEF NoCall, Calls, EditSteps
    <2> QED  BY Zenon, <2>1, <1>2 DEF EditTypes
  <1>4. call'[c].e = None /\ call'[c].at = "idle"
    <2>1. NoCall.e = None /\ NoCall.at = "idle"
      BY Zenon DEF NoCall
    <2> QED  BY Zenon, <1>3, <2>1
  <1>5. /\ \A x \in Entries \ {e} : acked'[x] = acked[x] /\ (x \in torn' <=> x \in torn)
        /\ e \notin torn' => acked'[e] = memory[e] /\ Sound(c)
        /\ acked' \in Records
        /\ \A d \in Clients \ {c} : loaded'[d] = loaded[d]
        /\ loaded' \in [Clients -> Records]
    <2>1. \A x \in Entries \ {e} : acked'[x] = acked[x] /\ (x \in torn' <=> x \in torn)
      BY Zenon, <1>2 DEF EditTypes, Records
    <2>2. e \notin torn' => acked'[e] = memory[e] /\ Sound(c)
      BY Zenon, <1>1, <1>2 DEF EditTypes, Records, Sound
    <2>3. acked' \in Records
      BY Zenon, <1>1, <1>2 DEF EditTypes, Records
    <2>4. (\A d \in Clients \ {c} : loaded'[d] = loaded[d]) /\ loaded' \in [Clients -> Records]
      BY Zenon, <1>2, ConstantFacts DEF EditTypes
    <2> QED  BY Zenon, <2>1, <2>2, <2>3, <2>4
  <1>6. Sound(c) => /\ table[e] = memory[e]
                    /\ CallAt(c, "apply") => loaded[c][e] = memory[e]
    BY Zenon, <1>1 DEF InHand, Written, HasRead
  <1>7. /\ unserved' \in SUBSET Entries
        /\ unserved \ {e} \subseteq unserved'
        /\ e \in unserved /\ e \notin unserved' => Reloading = {c}
    BY Zenon, <1>1 DEF ReloadCustomDNS, ReloadFails, EditTypes
  <1>8. EditTypes'
    <2>1. \A d \in Clients :
            /\ call'[d].e = None <=> call'[d].at = "idle"
            /\ call'[d].at = "insert" => call'[d].todo # {}
            /\ call'[d].at \in {"clear", "insert"} => call'[d].e.kind = "host"
      BY Zenon, <1>3, <1>4 DEF EditTypes, CallAt
    <2>2. faults' \in 0..MaxFaults
      <3>1. CASE ReloadCustomDNS(c)
        BY Zenon, <3>1 DEF ReloadCustomDNS, EditTypes
      <3>2. CASE ReloadFails(c)
        <4>1. faults \in 0..MaxFaults /\ faults < MaxFaults /\ faults' = faults + 1
          BY Zenon, <3>2 DEF ReloadFails, Fault, EditTypes
        <4> QED  BY <4>1, FaultsAssumption
      <3> QED  BY Zenon, <3>1, <3>2
    <2>3. resolver' \in Records
      BY Zenon DEF ReloadCustomDNS, ReloadFails, Reload, EditTypes
    <2>4. torn' \in SUBSET Entries
      BY Zenon, <1>2 DEF EditTypes
    <2> QED  BY Zenon, <2>1, <2>2, <2>3, <2>4, <1>2, <1>3, <1>5, <1>7 DEF EditTypes, CallAt
  <1>9. ASSUME NEW d \in Clients, Sound(d)'
         PROVE  d # c /\ Sound(d) /\ call'[d] = call[d] /\ call[d].e \in Entries \ {e}
    <2>1. d # c /\ call'[d] = call[d]
      BY Zenon, <1>9, <1>3, <1>4 DEF Sound
    <2>2. call[d].e \in Entries
      BY Zenon, <1>9, <2>1 DEF Sound, EditTypes, Calls
    <2>3. call[d].e = e => Sound(c) \/ Sound(d)
      <3> SUFFICES ASSUME call[d].e = e, ~call[c].mends PROVE Sound(d)
        BY Zenon, <1>1 DEF Sound
      <3>1. torn' = torn
        BY Zenon, <1>2
      <3> QED  BY Zenon, <1>9, <2>1, <3>1 DEF Sound
    <2>4. call[d].e # e
      BY Zenon, <2>1, <2>3 DEF Alone
    <2>5. Sound(d)
      BY Zenon, <1>9, <2>1, <2>2, <2>4, <1>5 DEF Sound
    <2> QED  BY Zenon, <2>1, <2>2, <2>4, <2>5
  <1>10. Alone'
    <2> SUFFICES ASSUME NEW b \in Clients, NEW d \in Clients, Sound(b)', call'[d].e = call'[b].e
                 PROVE  b = d
      BY Zenon DEF Alone
    <2>1. b # c /\ Sound(b) /\ call'[b].e = call[b].e /\ call[b].e # None
      BY Zenon, <1>9 DEF Sound
    <2>2. d # c
      BY Zenon, <2>1, <1>4
    <2>3. call[d].e = call[b].e
      BY Zenon, <2>1, <2>2, <1>3
    <2> QED  BY Zenon, <2>1, <2>3 DEF Alone
  <1>11. InHand'
    <2> SUFFICES ASSUME NEW d \in Clients, Sound(d)' PROVE Written(d, call[d].e)'
      BY Zenon DEF InHand
    <2>1. Written(d, call[d].e)
      BY Zenon, <1>9 DEF InHand
    <2>2. d # c /\ call'[d] = call[d] /\ call[d].e \in Entries \ {e}
      BY Zenon, <1>9
    <2>3. loaded'[d] = loaded[d] /\ memory' = memory /\ table' = table
      BY Zenon, <2>2, <1>2, <1>5
    <2>4. acked'[call[d].e] = acked[call[d].e] /\ (call[d].e \in torn' <=> call[d].e \in torn)
      BY Zenon, <2>2, <1>5
    <2> QED  BY Zenon, <2>1, <2>2, <2>3, <2>4 DEF Written, CallAt, Writing, HasRead
  <1>12. \A x \in Settled' : x # e => x \in Settled
    <2> SUFFICES ASSUME NEW x \in Settled', x # e PROVE x \in Settled
      BY Zenon
    <2>1. x \in Entries /\ x \notin torn
      BY Zenon, <1>5 DEF Settled
    <2>2. \A d \in Clients : call'[d].e # x
      BY Zenon DEF Settled, Editing
    <2>3. \A d \in Clients : call[d].e # x
      BY Zenon, <2>2, <1>3
    <2> QED  BY Zenon, <2>1, <2>3 DEF Settled, Editing
  <1>13. Kept'
    <2> SUFFICES ASSUME NEW x \in Settled' PROVE table[x] = acked'[x] /\ memory[x] = acked'[x]
      BY Zenon, <1>2 DEF Kept
    <2>1. x \in Entries /\ x \notin torn'
      BY Zenon DEF Settled
    <2>2. CASE x = e
      BY Zenon, <2>1, <2>2, <1>5, <1>6
    <2>3. CASE x # e
      BY Zenon, <2>1, <2>3, <1>12, <1>5 DEF Kept
    <2> QED  BY Zenon, <2>2, <2>3
  <1>14. ReadBack'
    <2> SUFFICES ASSUME NEW d \in Clients, NEW x \in Entries \ unserved', HasRead(d, x)'
                 PROVE  /\ x \in Settled' => loaded'[d][x] = acked'[x]
                        /\ \A b \in Clients : call'[b].e = x /\ Sound(b)' =>
                             /\ ~Writing(b)' => loaded'[d][x] = memory[x]
                             /\ Writing(b)' /\ x \notin torn' => loaded'[d][x] = acked'[x]
      <3>1. memory' = memory
        BY Zenon, <1>2
      <3> QED  BY Zenon, <3>1 DEF ReadBack
    <2>1. d # c /\ HasRead(d, x) /\ loaded'[d] = loaded[d]
      BY Zenon, <1>3, <1>4, <1>5 DEF HasRead, CallAt
    <2>2. d \in Reloading
      BY Zenon, <2>1 DEF HasRead, CallAt, Reloading
    <2>3. x \notin unserved
      BY Zenon, <1>7, <2>1, <2>2
    <2>4. x \in Settled' => loaded'[d][x] = acked'[x]
      <3>1. CASE x # e
        <4>1. acked'[x] = acked[x] /\ x \in Entries \ unserved
          BY Zenon, <1>5, <2>3, <3>1
        <4>2. x \in Settled => loaded[d][x] = acked[x]
          BY Zenon, <2>1, <4>1 DEF ReadBack
        <4> QED  BY Zenon, <1>12, <2>1, <3>1, <4>1, <4>2
      <3>2. CASE x = e
        <4> SUFFICES ASSUME x \in Settled' PROVE loaded'[d][x] = acked'[x]
          BY Zenon
        <4>1. e \notin torn' /\ x \in Entries \ unserved
          BY Zenon, <3>2, <2>3 DEF Settled
        <4>2. acked'[e] = memory[e] /\ Sound(c) /\ ~Writing(c)
          BY Zenon, <4>1, <1>1, <1>5 DEF Writing
        <4>3. loaded[d][x] = memory[x]
          BY Zenon, <2>1, <3>2, <4>1, <4>2 DEF ReadBack
        <4> QED  BY Zenon, <2>1, <3>2, <4>2, <4>3
      <3> QED  BY Zenon, <3>1, <3>2
    <2>5. ASSUME NEW b \in Clients, call'[b].e = x, Sound(b)'
          PROVE  /\ ~Writing(b)' => loaded'[d][x] = memory[x]
                 /\ Writing(b)' /\ x \notin torn' => loaded'[d][x] = acked'[x]
      <3>1. Sound(b) /\ call'[b] = call[b] /\ x # e
        BY Zenon, <2>5, <1>9
      <3>2. x \notin torn' => x \notin torn
        BY Zenon, <3>1, <1>5
      <3>3. acked'[x] = acked[x] /\ x \in Entries \ unserved /\ call[b].e = x
        BY Zenon, <2>3, <2>5, <3>1, <1>5
      <3>4. /\ ~Writing(b) => loaded[d][x] = memory[x]
            /\ Writing(b) /\ x \notin torn => loaded[d][x] = acked[x]
        BY Zenon, <2>1, <3>1, <3>3 DEF ReadBack
      <3> QED  BY Zenon, <2>1, <3>1, <3>2, <3>3, <3>4 DEF Writing
    <2> QED  BY Zenon, <2>4, <2>5
  <1>15. Served'
    <2> SUFFICES ASSUME up, NEW x \in Entries \ (torn' \cup unserved')
                 PROVE  resolver'[x] \in {acked'[x], memory[x]}
      BY Zenon, <1>2 DEF Served
    <2>1. CASE ReloadFails(c)
      <3>1. x # e /\ x \notin torn \cup unserved /\ resolver' = resolver
        BY Zenon, <2>1, <1>5 DEF ReloadFails
      <3> QED  BY Zenon, <3>1, <1>5 DEF Served
    <2>2. CASE ReloadCustomDNS(c)
      <3>1. resolver' = loaded[c] /\ CallAt(c, "apply")
        BY Zenon, <2>2 DEF ReloadCustomDNS, Reload
      <3>2. CASE x = e
        BY Zenon, <3>1, <3>2, <1>5, <1>6
      <3>3. CASE x # e
        <4>1. x \notin torn /\ x \notin unserved /\ HasRead(c, x)
          BY Zenon, <3>1, <3>3, <1>5, <1>7 DEF HasRead
        <4>2. CASE x \in Settled
          BY Zenon, <3>1, <3>3, <4>1, <4>2, <1>5 DEF ReadBack
        <4>3. CASE x \notin Settled
          <5>1. PICK b \in Clients : call[b].e = x
            BY Zenon, <4>1, <4>3 DEF Settled, Editing
          <5>2. Sound(b)
            BY Zenon, <5>1, <4>1, ConstantFacts DEF Sound
          <5> QED  BY Zenon, <3>1, <3>3, <4>1, <5>1, <5>2, <1>5 DEF ReadBack
        <4> QED  BY Zenon, <4>2, <4>3
      <3> QED  BY Zenon, <3>2, <3>3
    <2> QED  BY Zenon, <2>1, <2>2
  <1> QED  BY Zenon, <1>8, <1>10, <1>11, <1>13, <1>14, <1>15

\* The process restarts, or its runner loads the records: both start from what
\* the table has.
LEMMA StartStep ==
    ASSUME CustomInv, initCustomDNS \/ Restart
    PROVE  CustomInv'
  <1> USE DEF CustomInv
  <1>1. CASE initCustomDNS
    <2>1. /\ memory' = memory /\ table' = table /\ call' = call /\ loaded' = loaded
          /\ acked' = acked /\ torn' = torn /\ unserved' = unserved /\ faults' = faults
          /\ up' = TRUE /\ resolver' = memory
      BY Zenon, <1>1 DEF initCustomDNS, ghosts, Reload
    <2>2. EditTypes'
      BY Zenon, <2>1 DEF EditTypes, CallAt
    <2>3. Alone' /\ InHand' /\ Kept' /\ ReadBack'
      <3>1. Alone'
        BY Zenon, <2>1 DEF Alone, Sound
      <3>2. InHand'
        BY Zenon, <2>1 DEF InHand, Sound, Written, Writing, HasRead, CallAt
      <3>3. Settled' = Settled
        BY Zenon, <2>1 DEF Settled, Editing
      <3>4. Kept'
        BY Zenon, <2>1, <3>3 DEF Kept
      <3>5. \A d \in Clients : /\ Sound(d)' <=> Sound(d)
                               /\ Writing(d)' <=> Writing(d)
                               /\ \A x \in Entries : HasRead(d, x)' <=> HasRead(d, x)
        BY Zenon, <2>1 DEF Sound, Writing, HasRead, CallAt
      <3>6. ReadBack'
        <4> SUFFICES ASSUME NEW d \in Clients, NEW x \in Entries \ unserved', HasRead(d, x)'
                     PROVE  /\ x \in Settled' => loaded'[d][x] = acked'[x]
                            /\ \A b \in Clients : call'[b].e = x /\ Sound(b)' =>
                                 /\ ~Writing(b)' => loaded'[d][x] = memory'[x]
                                 /\ Writing(b)' /\ x \notin torn' => loaded'[d][x] = acked'[x]
          BY Zenon DEF ReadBack
        <4> QED  BY Zenon, <2>1, <3>3, <3>5 DEF ReadBack
      <3> QED  BY Zenon, <3>1, <3>2, <3>4, <3>6
    <2>4. Served'
      BY Zenon, <2>1 DEF Served
    <2> QED  BY Zenon, <2>2, <2>3, <2>4
  <1>2. CASE Restart
    <2> DEFINE lost == torn \cup {call[c].e : c \in {d \in Clients : ~CallAt(d, "idle")}}
    <2>1. /\ memory' = table /\ table' = table /\ resolver' = Nothing /\ up' = FALSE
          /\ call' = [c \in Clients |-> NoCall] /\ loaded' = [c \in Clients |-> Nothing]
          /\ acked' = [x \in Entries |-> IF x \in lost THEN table[x] ELSE acked[x]]
          /\ torn' = {} /\ unserved' = {} /\ Fault
      BY Zenon, <1>2 DEF Restart
    <2>2. \A c \in Clients : call'[c].e = None /\ call'[c].at = "idle"
      BY Zenon, <2>1 DEF NoCall
    <2>3. EditTypes'
      <3>1. NoCall \in Calls
        BY Zenon DEF NoCall, Calls, EditSteps
      <3>2. acked' \in Records
        BY Zenon, <2>1 DEF EditTypes, Records
      <3>3. faults' \in 0..MaxFaults
        <4>1. faults \in 0..MaxFaults /\ faults < MaxFaults /\ faults' = faults + 1
          BY Zenon, <2>1 DEF Fault, EditTypes
        <4> QED  BY <4>1, FaultsAssumption
      <3> QED  BY Zenon, <2>1, <2>2, <3>1, <3>2, <3>3, ConstantFacts DEF EditTypes, CallAt
    <2>4. Alone' /\ InHand'
      BY Zenon, <2>2 DEF Alone, InHand, Sound
    <2>5. Kept'
      <3> SUFFICES ASSUME NEW x \in Entries PROVE table[x] = acked'[x]
        BY Zenon, <2>1 DEF Kept, Settled
      <3>1. CASE x \in lost
        BY Zenon, <2>1, <3>1
      <3>2. CASE x \notin lost
        <4>1. x \in Settled
          BY Zenon, <3>2, ConstantFacts DEF Settled, Editing, EditTypes
        <4> QED  BY Zenon, <2>1, <3>2, <4>1 DEF Kept
      <3> QED  BY Zenon, <3>1, <3>2
    <2>6. ReadBack'
      BY Zenon, <2>2 DEF ReadBack, HasRead, CallAt
    <2>7. Served'
      BY Zenon, <2>1 DEF Served
    <2> QED  BY Zenon, <2>3, <2>4, <2>5, <2>6, <2>7
  <1> QED  BY Zenon, <1>1, <1>2

\* Every step keeps the invariant.
LEMMA CustomNext == ASSUME CustomInv, [DNSNext]_dnsVars PROVE CustomInv'
  <1>1. ASSUME NEW c \in Clients, Request(c) PROVE CustomInv'
    <2>0. {} \in SUBSET Data
      BY Zenon
    <2>1. ASSUME NEW n \in HostNames, NEW ips \in Values["host"], AddHost(c, n, ips)
          PROVE  CustomInv'
      BY Zenon, <2>1, ConstantFacts, EditStep DEF AddHost, exists
    <2>2. ASSUME NEW n \in HostNames, NEW ips \in Values["host"], UpdateHost(c, n, ips)
          PROVE  CustomInv'
      BY Zenon, <2>2, ConstantFacts, EditStep DEF UpdateHost
    <2>3. ASSUME NEW n \in HostNames, DeleteHost(c, n)
          PROVE  CustomInv'
      BY Zenon, <2>0, <2>3, ConstantFacts, EditStep DEF DeleteHost
    <2>4. ASSUME NEW n \in Aliases, NEW t \in Values["cname"],
                 AddCNAME(c, n, t) \/ UpdateCNAME(c, n, t)
          PROVE  CustomInv'
      BY Zenon, <2>4, ConstantFacts, EditStep DEF AddCNAME, UpdateCNAME
    <2>5. ASSUME NEW n \in Aliases, DeleteCNAME(c, n)
          PROVE  CustomInv'
      BY Zenon, <2>0, <2>5, ConstantFacts, EditStep DEF DeleteCNAME
    <2> QED  BY Zenon, <1>1, <2>1, <2>2, <2>3, <2>4, <2>5 DEF Request
  <1>2. ASSUME NEW c \in Clients, Handle(c) PROVE CustomInv'
    BY Zenon, <1>2, TableStep, WriteFailsStep, ExportStep, AnswerStep DEF Handle
  <1>3. CASE initCustomDNS \/ Restart
    BY Zenon, <1>3, StartStep
  <1>4. CASE UNCHANGED dnsVars
    <2>1. /\ memory' = memory /\ table' = table /\ resolver' = resolver /\ up' = up
          /\ call' = call /\ loaded' = loaded /\ acked' = acked /\ torn' = torn
          /\ unserved' = unserved /\ faults' = faults
      BY Zenon, <1>4 DEF dnsVars, ghosts
    <2>2. EditTypes'
      BY Zenon, <2>1 DEF CustomInv, EditTypes, CallAt
    <2>3. \A d \in Clients : (Sound(d)' <=> Sound(d)) /\ (Writing(d)' <=> Writing(d))
      BY Zenon, <2>1 DEF Sound, Writing
    <2>4. Settled' = Settled
      BY Zenon, <2>1 DEF Settled, Editing
    <2>5. Alone' /\ Kept' /\ Served'
      BY Zenon, <2>1, <2>3, <2>4 DEF CustomInv, Alone, Kept, Served
    <2>6. ReadBack'
      <3> SUFFICES ASSUME NEW d \in Clients, NEW x \in Entries \ unserved', HasRead(d, x)'
                   PROVE  /\ x \in Settled' => loaded'[d][x] = acked'[x]
                          /\ \A b \in Clients : call'[b].e = x /\ Sound(b)' =>
                               /\ ~Writing(b)' => loaded'[d][x] = memory'[x]
                               /\ Writing(b)' /\ x \notin torn' => loaded'[d][x] = acked'[x]
        BY Zenon DEF ReadBack
      <3>1. HasRead(d, x)
        BY Zenon, <2>1 DEF HasRead, CallAt
      <3> QED  BY Zenon, <2>1, <2>3, <2>4, <3>1 DEF CustomInv, ReadBack
    <2>7. InHand'
      BY Zenon, <2>1, <2>3 DEF CustomInv, InHand, Written, Writing, HasRead, CallAt
    <2> QED  BY Zenon, <2>2, <2>5, <2>6, <2>7 DEF CustomInv
  <1> QED  BY Zenon, <1>1, <1>2, <1>3, <1>4 DEF DNSNext

\* The invariant holds throughout.
LEMMA CustomInvariance == DNSSpec => []CustomInv
  <1>1. DNSInit => CustomInv
    BY Zenon, CustomInit
  <1>2. CustomInv /\ [DNSNext]_dnsVars => CustomInv'
    BY Zenon, CustomNext
  <1> QED
    BY <1>1, <1>2, PTL DEF DNSSpec

-----------------------------------------------------------------------------

\* Whatever the clients edit at the same time, whichever writes fail, and wherever
\* the process restarts: memory and table agree with the last edit answered with
\* success, for every entry that no failed or overlapping edit has torn.
THEOREM Survives == DNSSpec => []AcknowledgedSurvives
  <1>1. CustomInv => AcknowledgedSurvives
    <2> SUFFICES ASSUME CustomInv PROVE AcknowledgedSurvives  BY Zenon
    <2>1. DNSTypeOK
      <3>1. EditTypes  BY Zenon DEF CustomInv
      <3>2. {memory, table, resolver, acked} \cup {loaded[c] : c \in Clients} \subseteq Records
        BY Zenon, <3>1 DEF EditTypes
      <3>3. \A c \in Clients : call[c].at \in EditSteps /\ call[c].e \in Entries \cup {None}
        BY Zenon, <3>1 DEF EditTypes, Calls
      <3> QED  BY Zenon, <3>1, <3>2, <3>3 DEF EditTypes, DNSTypeOK, EditSteps
    <2> QED  BY Zenon, <2>1 DEF CustomInv, Kept, AcknowledgedSurvives
  <1>2. DNSSpec => []CustomInv
    BY Zenon, CustomInvariance
  <1> QED  BY <1>1, <1>2, PTL

\* Once the runner is up, queries are answered from what was acknowledged, or from
\* the old or new value of the entry being edited; but for entries whose reload
\* failed, although the edit was answered with success, and those written while
\* another reload was under way.
THEOREM ServedAsAcknowledged == DNSSpec => []AcknowledgedServed
  <1>1. CustomInv => AcknowledgedServed
    <2> SUFFICES ASSUME CustomInv, up PROVE AcknowledgedServed  BY Zenon
       DEF AcknowledgedServed
    <2>1. \A e \in Entries \ (torn \cup unserved) : resolver[e] \in {acked[e], memory[e]}
      BY Zenon DEF CustomInv, Served
    <2>2. Settled \ unserved = Entries => resolver = acked
      <3> SUFFICES ASSUME Settled \ unserved = Entries PROVE resolver = acked  BY Zenon
      <3>1. resolver \in Records /\ acked \in Records
        BY Zenon DEF CustomInv, EditTypes
      <3>2. \A e \in Entries : e \in Settled /\ e \notin torn \cup unserved
        BY Zenon DEF Settled
      <3>3. \A e \in Entries : resolver[e] = acked[e]
        BY Zenon, <2>1, <3>2 DEF CustomInv, Kept
      <3> QED  BY <3>1, <3>3 DEF Records
    <2> QED  BY Zenon, <2>1, <2>2 DEF AcknowledgedServed
  <1>2. DNSSpec => []CustomInv
    BY Zenon, CustomInvariance
  <1> QED  BY <1>1, <1>2, PTL
=============================================================================
