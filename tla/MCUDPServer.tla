----------------------------- MODULE MCUDPServer -----------------------------
(* Instances of UDPServer and Messages for TLC.                            *)
EXTENDS QueryHandler

CONSTANTS p1, p2

query(id, flags, ar)  == marshalHeader(id, flags, <<1, 0, 0, ar>>)
typeAndClass          == put16(1) \o put16(1)
opt(size, ttl, rdata) == <<0>> \o put16(TypeOPT) \o put16(size) \o ttl \o put16(Len(rdata)) \o rdata
record(rdata)         == <<192, 12>> \o put16(1) \o put16(1) \o <<0, 0, 1, 44>> \o put16(Len(rdata)) \o rdata

plain    == query(7, RDFlag, 0) \o <<1, 97, 0>> \o typeAndClass
mixed    == query(7, 0, 1) \o <<1, 65, 1, 98, 0>> \o typeAndClass \o opt(40, <<0, 0, 128, 0>>, <<0, 10, 0, 1, 9>>)
root     == query(7, RDFlag, 0) \o <<0>> \o typeAndClass
answer   == query(7, QRFlag, 0) \o <<1, 97, 0>> \o typeAndClass
loop     == query(7, 0, 0) \o <<192, 12>> \o typeAndClass
runt     == <<0, 7, 1>>
long     == query(7, 0, 1) \o <<20>> \o [i \in 1..20 |-> 97] \o <<0>> \o typeAndClass \o opt(20, <<0, 0, 0, 0>>, <<>>)
edge     == query(7, 0, 0) \o <<7>> \o [i \in 1..7 |-> 97] \o <<0>> \o typeAndClass
pointing == query(7, 0, 1) \o <<1, 97, 0>> \o typeAndClass \o record(<<1, 2, 3, 4>>)

Templates == {plain, mixed, root, answer, loop, runt, long, edge, pointing}

\* Two queries, one of which cannot be refused in writing, or a query and a packet
\* that is none, or two that are none.
MCPayloads == {[p \in Packets |-> pair[IF p = p1 THEN 1 ELSE 2]] :
                  pair \in {<<plain, root>>, <<plain, answer>>, <<runt, answer>>}}

\* The templates, all they begin with, and all that differ from one in one byte.
near(m) == {SubSeq(m, 1, n) : n \in 0..Len(m)}
           \cup {[m EXCEPT ![i] = b] : i \in DOMAIN m, b \in {0, 1, 2, 4, 12, 41, 46, 64, 128, 192}}
Inputs == UNION {near(m) : m \in Templates}

\* The records of answers from the empty one to one past every limit.
MCRecords == {[i \in 1..n |-> record([k \in 1..l |-> k])] : n \in 0..3, l \in {4, 16}}

\* All short messages over length bytes, letters and pointers.
ShortMessages == UNION {[1..n -> {0, 1, 2, 3, 65, 192}] : n \in 0..5}
                 \cup {<<192, 2, 192, 4, 192, 6, 192, 8, 0>>, <<1, 46, 0>>, <<2, 46, 97, 192, 0>>}

MisreadNames == {m \in ShortMessages : \E off \in 0..Len(m) :
    ~ /\ DecodesName(m, off) /\ EncodesBack(m, off)
      /\ DecodeName(m, off).ok => skipQNAME(m, off) = DecodeName(m, off).off}
WrongErrors  == {m \in Inputs : ~ErrorMatches(m)}
WrongQueries == {m \in Inputs : \E size \in {0, 40} : ~QueryMatches(m, size)}
WrongReplies == {m \in Inputs : \E rrs \in MCRecords : ~ReplyFits(m, rrs)}

\* The server's packets are templates, which are among the inputs.
Covered == payload \in MCPayloads

\* A name is decoded as the walk over length bytes and pointers spells it, with
\* the same end and for the same messages (loops, depths and reserved bits
\* included), skipQNAME finds the same end, and EncodeName gives its bytes back
\* (decodeName, followCompressionPointer, skipQNAME, EncodeName).
NamesDecode == Covered /\ MisreadNames = {}

\* A request whose header parses gets an error response, which carries the
\* transaction and the question it answers; nothing is claimed for a question whose
\* name cannot be written back (handleParseError, buildErrorResult).
ErrorRepliesMatch == Covered /\ WrongErrors = {}

\* A query goes upstream as the client asked it, with at most one OPT record more
\* (prepareQueryBytes, AddEDNSToRequestBytes).
QueriesKeepMeaning == Covered /\ WrongQueries = {}

\* A datagram fits the client's limit, and a response that fits is sent whole.  One
\* cut after its header keeps that header, with TC; nothing is claimed for the header
\* of one cut after its question (handlePacket, truncateUDPResponse, ClientMaxUDPSize).
RepliesFit == Covered /\ WrongReplies = {}
=============================================================================
