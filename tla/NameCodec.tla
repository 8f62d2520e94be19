------------------------------ MODULE NameCodec ------------------------------
(***************************************************************************)
(* Domain names on the wire (internal/dns/codec.go), byte by byte.         *)
(*                                                                         *)
(* A message is a sequence of bytes and an offset counts from zero, as in  *)
(* the code.  A name is the sequence of its characters, dots included.  A  *)
(* function that may fail returns a record with the field ok.              *)
(***************************************************************************)
EXTENDS Naturals, Sequences, FiniteSets

LOCAL INSTANCE SequencesExt

CONSTANTS
    MaxLabel,             \* 63
    MaxName,              \* 255, of an encoded name
    maxCompressionDepth   \* 20

ASSUME CodecAssumption ==
    MaxLabel \in 1..63 /\ MaxName \in 1..255 /\ maxCompressionDepth \in Nat

Dot == 46
byte(m, off)    == m[off + 1]
slice(m, a, b)  == SubSeq(m, a + 1, b)          \* msg[a:b]
ascii(s)        == \A i \in DOMAIN s : s[i] <= 127
lower(b)        == IF b \in 65..90 THEN b + 32 ELSE b

Failed          == [ok |-> FALSE, name |-> <<>>, off |-> 0]
Named(n, off)   == [ok |-> TRUE, name |-> n, off |-> off]
Bytes(s)        == [ok |-> TRUE, bytes |-> s]
NoBytes         == [ok |-> FALSE, bytes |-> <<>>]

\* F(v), for which TLC evaluates v once.
given(v, F(_)) == CHOOSE r \in {F(x) : x \in {v}} : TRUE

\* joinLabels
joinLabels(labels) ==
    FoldLeft(LAMBDA s, l : IF s = <<>> THEN l ELSE s \o <<Dot>> \o l, <<>>, labels)

\* strings.TrimSuffix(name, "."), lower case.
NormalizeName(s) ==
    LET n == IF s # <<>> /\ Last(s) = Dot THEN Front(s) ELSE s
    IN [i \in DOMAIN n |-> lower(n[i])]

-----------------------------------------------------------------------------
(* EncodeName                                                              *)

\* All trailing dots go.
trimDot(s) == SubSeq(s, 1, CHOOSE n \in 0..Len(s) :
                  /\ n > 0 => s[n] # Dot
                  /\ \A i \in (n + 1)..Len(s) : s[i] = Dot)

\* The pieces between the dots, empty ones included.
labelsOf(s) ==
    LET cuts == SetToSortSeq({0, Len(s) + 1} \cup {i \in DOMAIN s : s[i] = Dot}, <)
    IN [k \in 1..(Len(cuts) - 1) |-> SubSeq(s, cuts[k] + 1, cuts[k + 1] - 1)]

EncodeName(s) ==
    LET labels == labelsOf(trimDot(s))
        out == FlattenSeq([i \in DOMAIN labels |-> <<Len(labels[i])>> \o labels[i]]) \o <<0>>
    IN IF s = <<>> THEN NoBytes
       ELSE IF trimDot(s) = <<>> THEN Bytes(<<0>>)
       ELSE IF \E i \in DOMAIN labels : Len(labels[i]) \notin 1..MaxLabel \/ ~ascii(labels[i])
       THEN NoBytes
       ELSE IF Len(out) > MaxName THEN NoBytes ELSE Bytes(out)

-----------------------------------------------------------------------------
(* DecodeName                                                              *)

isCompressionPointer(b) == b \div 64 = 3
hasReservedBits(b)      == b \div 64 # 0

\* The 14-bit offset of the pointer whose first byte is at off.
pointer(m, off) == 256 * (byte(m, off) % 64) + byte(m, off + 1)

readLabel(m, off, length) ==
    LET label == slice(m, off, off + length)
    IN IF off + length > Len(m) \/ ~ascii(label) THEN Failed ELSE Named(label, off + length)

RECURSIVE decodeName(_, _, _, _), decodeLabels(_, _, _, _, _)

\* The caller goes on after the pointer, wherever the name it leads to ends.
followCompressionPointer(m, off, depth, visited) ==
    IF off + 1 >= Len(m) \/ pointer(m, off) >= Len(m) \/ pointer(m, off) \in visited THEN Failed
    ELSE decodeName(m, pointer(m, off), depth + 1, visited \cup {pointer(m, off)})

\* A variant: the caller goes on where the name pointed to ends.
decodeLabelsFar(m, off, labels, depth, visited) ==
    IF off >= Len(m) THEN Failed
    ELSE LET b == byte(m, off) IN
         CASE b = 0 -> Named(joinLabels(labels), off + 1)
           [] isCompressionPointer(b) ->
                LET rest == followCompressionPointer(m, off, depth, visited)
                IN IF ~rest.ok THEN Failed
                   ELSE Named(joinLabels(IF rest.name = <<>> THEN labels
                                         ELSE Append(labels, rest.name)), rest.off)
           [] hasReservedBits(b) /\ ~isCompressionPointer(b) -> Failed
           [] OTHER ->
                LET label == readLabel(m, off + 1, b)
                IN IF ~label.ok THEN Failed
                   ELSE decodeLabels(m, label.off, Append(labels, label.name), depth, visited)

\* The loop of decodeName: labels read so far, the next length byte at off.
decodeLabels(m, off, labels, depth, visited) ==
    IF off >= Len(m) THEN Failed
    ELSE LET b == byte(m, off) IN
         CASE b = 0 -> Named(joinLabels(labels), off + 1)
           [] isCompressionPointer(b) ->
                LET rest == followCompressionPointer(m, off, depth, visited)
                IN IF ~rest.ok THEN Failed
                   ELSE Named(joinLabels(IF rest.name = <<>> THEN labels
                                         ELSE Append(labels, rest.name)), off + 2)
           [] hasReservedBits(b) /\ ~isCompressionPointer(b) -> Failed
           [] OTHER ->
                LET label == readLabel(m, off + 1, b)
                IN IF ~label.ok THEN Failed
                   ELSE decodeLabels(m, label.off, Append(labels, label.name), depth, visited)

decodeName(m, off, depth, visited) ==
    IF depth > maxCompressionDepth \/ off >= Len(m) THEN Failed
    ELSE decodeLabels(m, off, <<>>, depth, visited)

DecodeName(m, off) == given(off, LAMBDA o : decodeName(m, o, 0, {}))

-----------------------------------------------------------------------------
(* What a name at an offset is (RFC 1035), without recursion, visited      *)
(* sets or depths: a walk from one length byte or pointer to the next.     *)

\* The next stop after off; Len(m) when there is none.
hop(m, off) ==
    LET b == byte(m, off) IN
    IF isCompressionPointer(b)
    THEN IF off + 1 < Len(m) /\ pointer(m, off) < Len(m) THEN pointer(m, off) ELSE Len(m)
    ELSE IF hasReservedBits(b) \/ off + 1 + b > Len(m) \/ ~ascii(slice(m, off + 1, off + 1 + b))
    THEN Len(m) ELSE off + 1 + b

\* A walk that is to end at a zero byte does so within Len(m) hops.
walk(m, off) ==
    LET at[k \in 0..Len(m)] ==
            IF k = 0 THEN off
            ELSE LET o == at[k - 1]
                 IN IF o >= Len(m) \/ byte(m, o) = 0 THEN o ELSE hop(m, o)
    IN [k \in 1..(Len(m) + 1) |-> at[k - 1]]

\* The name the walk from off spells: where it stops, its pointers, its labels.
spelled(m, off) ==
    LET w        == walk(m, off)
        end      == Last(w)
        stops    == IF end >= Len(m) \/ byte(m, end) # 0 THEN <<>>
                    ELSE SubSeq(w, 1, CHOOSE k \in DOMAIN w : w[k] = end /\ \A j \in 1..(k-1) : w[j] # end)
        isPtr(o) == isCompressionPointer(byte(m, o))
        labels   == SelectSeq(stops, LAMBDA o : byte(m, o) # 0 /\ ~isPtr(o))
        turns    == SelectSeq(stops, LAMBDA o : byte(m, o) = 0 \/ isPtr(o))
    IN [ok     |-> stops # <<>> /\ Len(turns) <= maxCompressionDepth + 1,
        labels |-> [i \in DOMAIN labels |-> slice(m, labels[i] + 1, labels[i] + 1 + byte(m, labels[i]))],
        off    |-> IF stops = <<>> THEN 0
                   ELSE Head(turns) + (IF isPtr(Head(turns)) THEN 2 ELSE 1)]

\* Labels with their lengths and the root at the end, uncompressed.
encoded(labels) ==
    FlattenSeq([i \in DOMAIN labels |-> <<Len(labels[i])>> \o labels[i]]) \o <<0>>
dotless(labels) == \A i \in DOMAIN labels : \A j \in DOMAIN labels[i] : labels[i][j] # Dot

\* DecodeName reads the name that is there, and goes on behind it.
DecodesName(m, off) ==
    LET d == DecodeName(m, off)
        s == spelled(m, off)
    IN d = IF s.ok THEN Named(joinLabels(s.labels), s.off) ELSE Failed

\* EncodeName gives back the bytes of a name that was decoded, unless it is the
\* root, too long, or has a dot inside a label.
EncodesBack(m, off) ==
    LET s == spelled(m, off)
    IN s.ok /\ dotless(s.labels) =>
          EncodeName(joinLabels(s.labels)) =
              IF s.labels = <<>> \/ Len(encoded(s.labels)) > MaxName THEN NoBytes
              ELSE Bytes(encoded(s.labels))
=============================================================================
