------------------------------ MODULE Messages ------------------------------
(***************************************************************************)
(* DNS messages byte by byte (internal/dns: header.go, question.go,        *)
(* record.go, packet.go, edns.go, parsing.go), the error responses of the  *)
(* query handler and the truncation of UDP responses (internal/server:     *)
(* query_handler.go, truncate.go).                                         *)
(*                                                                         *)
(* The size limits are constants, so that small messages reach them.       *)
(***************************************************************************)
EXTENDS NameCodec

LOCAL INSTANCE SequencesExt

CONSTANTS
    MaxIncomingDNSMessageSize,  \* 4096
    MaxRRPerSection,            \* 100
    MaxTotalRR,                 \* 200
    DefaultUDPPayloadSize,      \* 512, EDNSMinUDPPayloadSize too
    EDNSMaxUDPPayloadSize       \* 4096

HeaderSize == 12
MaxQuestions == 4

\* An error response to any encodable question fits into the smallest limit.
ASSUME SizesAssumption ==
    /\ {MaxIncomingDNSMessageSize, MaxRRPerSection, MaxTotalRR} \subseteq Nat
    /\ DefaultUDPPayloadSize \in (HeaderSize + MaxName + 4)..EDNSMaxUDPPayloadSize
    /\ EDNSMaxUDPPayloadSize \in 1..65535


TypeOPT  == 41
QRFlag   == 32768
TCFlag   == 512
RDFlag   == 256
FormErr  == 1
ServFail == 2
has(flags, f) == (flags \div f) % 2 = 1

u16(m, off) == 256 * byte(m, off) + byte(m, off + 1)
put16(n)    == LET c == IF n > 65535 THEN 65535 ELSE n IN <<c \div 256, c % 256>>

-----------------------------------------------------------------------------
(* Parsing.  A parser returns ok, the offset after what it read, and what  *)
(* it read as item.                                                        *)

NotParsed          == [ok |-> FALSE]
Parsed(item, off)  == [ok |-> TRUE, item |-> item, off |-> off]

ParseHeader(m) ==
    IF Len(m) < HeaderSize THEN NotParsed
    ELSE Parsed([ID |-> u16(m, 0), Flags |-> u16(m, 2), QDCount |-> u16(m, 4),
                 ANCount |-> u16(m, 6), NSCount |-> u16(m, 8), ARCount |-> u16(m, 10)], HeaderSize)

ParseQuestion(m, off) ==
    given(DecodeName(m, off), LAMBDA n :
        IF ~n.ok \/ n.off + 4 > Len(m) THEN NotParsed
        ELSE Parsed([Name |-> NormalizeName(n.name), Type |-> u16(m, n.off),
                     Class |-> u16(m, n.off + 2)], n.off + 4))

\* The RDATA of rdlen bytes at start: an address, a name that must fill it, or
\* opaque bytes.
ParseIPRData(m, start, rdlen) ==
    IF rdlen \in {4, 16} /\ start + rdlen <= Len(m)
    THEN Parsed(slice(m, start, start + rdlen), start + rdlen) ELSE NotParsed

ParseNameRData(m, start, rdlen) ==
    LET n == DecodeName(m, start)
    IN IF n.ok /\ n.off - start = rdlen THEN Parsed(n.name, n.off) ELSE NotParsed

ParseOpaqueRData(m, start, rdlen) == Parsed(slice(m, start, start + rdlen), start + rdlen)

isIP(type)   == type \in {1, 28}
isName(type) == type \in {2, 5, 12}

parseRData(type, m, start, rdlen) ==
    CASE isIP(type)   -> ParseIPRData(m, start, rdlen)
      [] isName(type) -> ParseNameRData(m, start, rdlen)
      [] OTHER        -> ParseOpaqueRData(m, start, rdlen)

\* The TTL stays as its four bytes.
ParseRecord(m, off) ==
    given(DecodeName(m, off), LAMBDA n :
        LET start == n.off + 10
        IN IF ~n.ok \/ start > Len(m) \/ start + u16(m, n.off + 8) > Len(m) THEN NotParsed
           ELSE given(parseRData(u16(m, n.off), m, start, u16(m, n.off + 8)), LAMBDA r :
               IF ~r.ok THEN NotParsed
               ELSE Parsed([Name |-> n.name, Type |-> u16(m, n.off), Class |-> u16(m, n.off + 2),
                            TTL |-> slice(m, n.off + 4, n.off + 8), Data |-> r.item], r.off)))

RECURSIVE items(_, _, _, _, _)

\* n questions or records from off on, behind those read so far; the first
\* error is final.
items(kind, m, n, off, read) ==
    IF n = 0 THEN Parsed(read, off)
    ELSE given(IF kind = "question" THEN ParseQuestion(m, off) ELSE ParseRecord(m, off), LAMBDA x :
             IF x.ok THEN items(kind, m, n - 1, x.off, Append(read, x.item)) ELSE NotParsed)

\* A section begins where the one before it ended.
section(kind, m, n, before) ==
    IF before.ok THEN items(kind, m, n, before.off, <<>>) ELSE NotParsed

ParsePacket(m) ==
    LET h == ParseHeader(m) IN
    IF ~h.ok THEN NotParsed
    ELSE given(section("question", m, h.item.QDCount, h), LAMBDA qs :
         given(section("record", m, h.item.ANCount, qs), LAMBDA an :
         given(section("record", m, h.item.NSCount, an), LAMBDA ns :
         given(section("record", m, h.item.ARCount, ns), LAMBDA ar :
            IF ~ar.ok THEN NotParsed
            ELSE Parsed([Header |-> h.item, Questions |-> qs.item, Answers |-> an.item,
                         Authorities |-> ns.item, Additionals |-> ar.item], ar.off)))))

\* The QR bit, the opcode and the counts, once the whole message has parsed.
isResponse(flags)    == has(flags, QRFlag)

extractOpcode(flags) == (flags \div 2048) % 16

validateSectionCounts(h) ==
    /\ h.QDCount <= MaxQuestions /\ h.QDCount = 1
    /\ \A n \in {h.ANCount, h.NSCount, h.ARCount} : n <= MaxRRPerSection
    /\ h.ANCount + h.NSCount + h.ARCount <= MaxTotalRR

ParseRequestBounded(m) ==
    given(ParsePacket(m), LAMBDA p :
        IF /\ Len(m) <= MaxIncomingDNSMessageSize
           /\ p.ok
           /\ ~isResponse(p.item.Header.Flags) /\ extractOpcode(p.item.Header.Flags) = 0
           /\ validateSectionCounts(p.item.Header)
        THEN p ELSE NotParsed)

-----------------------------------------------------------------------------
(* Serialising.                                                            *)

\* The pieces, or the first error.
joined(pieces) ==
    given(pieces, LAMBDA all :
        IF \A i \in DOMAIN all : all[i].ok
        THEN Bytes(FlattenSeq([i \in DOMAIN all |-> all[i].bytes])) ELSE NoBytes)

marshalHeader(id, flags, counts) ==
    put16(id) \o put16(flags) \o FlattenSeq([i \in DOMAIN counts |-> put16(counts[i])])

marshalQuestion(q) ==
    joined(<<EncodeName(q.Name), Bytes(put16(q.Type) \o put16(q.Class))>>)

\* An address of 16 bytes that holds an IPv4 one becomes an A record.
to4(ip) ==
    IF Len(ip) = 16 /\ SubSeq(ip, 1, 12) = [i \in 1..12 |-> IF i > 10 THEN 255 ELSE 0]
    THEN SubSeq(ip, 13, 16) ELSE ip

ipType(ip) == IF Len(to4(ip)) = 4 THEN 1 ELSE 28

MarshalRData(r) == IF isIP(r.Type) THEN Bytes(to4(r.Data))
                   ELSE IF isName(r.Type) THEN EncodeName(r.Data) ELSE Bytes(r.Data)

marshalRecordWithRData(r, type, rdata) ==
    joined(<<IF type = TypeOPT THEN Bytes(<<0>>) ELSE EncodeName(r.Name),
             Bytes(put16(type) \o put16(r.Class) \o r.TTL \o put16(Len(rdata.bytes))), rdata>>)

MarshalRecord(r) ==
    marshalRecordWithRData(r, IF isIP(r.Type) THEN ipType(r.Data) ELSE r.Type, MarshalRData(r))

\* The counts are those of the sections, whatever the header says.
Marshal(p) ==
    LET rrs == p.Answers \o p.Authorities \o p.Additionals
        qs  == p.Questions
    IN joined(<<Bytes(marshalHeader(p.Header.ID, p.Header.Flags,
                          <<Len(qs), Len(p.Answers), Len(p.Authorities), Len(p.Additionals)>>))>>
              \o [i \in DOMAIN qs |-> marshalQuestion(qs[i])]
              \o [i \in DOMAIN rrs |-> MarshalRecord(rrs[i])])

-----------------------------------------------------------------------------
(* Error responses.                                                        *)

\* A variant: the client's flags come back whole.
responseFlagsAll(reqFlags, rcode) == QRFlag + (reqFlags % QRFlag)

buildResponseFlags(reqFlags, rcode) ==
    QRFlag + (IF has(reqFlags, RDFlag) THEN RDFlag ELSE 0) + (rcode % 16)

BuildErrorResponse(id, reqFlags, questions, rcode) ==
    [Header |-> [ID |-> id, Flags |-> buildResponseFlags(reqFlags, rcode)], Questions |-> questions,
     Answers |-> <<>>, Authorities |-> <<>>, Additionals |-> <<>>]

\* handleParseError: nothing when the header does not parse or the question
\* cannot be encoded again; no question when it does not parse.
tryBuildErrorFromRaw(m, rcode) ==
    LET h == ParseHeader(m) IN
    IF ~h.ok THEN NoBytes
    ELSE LET q == IF h.item.QDCount > 0 THEN ParseQuestion(m, h.off) ELSE NotParsed
         IN Marshal(BuildErrorResponse(h.item.ID, h.item.Flags,
                                       IF q.ok THEN <<q.item>> ELSE <<>>, rcode))

\* buildErrorResult with mustMarshal
buildErrorResult(p, rcode) ==
    Marshal(BuildErrorResponse(p.Header.ID, p.Header.Flags, p.Questions, rcode))

-----------------------------------------------------------------------------
(* EDNS.                                                                   *)

isAllowedEDNSOption(code) == code \in {10, 12}

RECURSIVE parseOptions(_, _)

\* ParseEDNSOptions from offset i on; a cut option ends the list.
parseOptions(rdata, i) ==
    IF Len(rdata) - i < 4 THEN <<>>
    ELSE LET code == u16(rdata, i)
             end  == i + 4 + u16(rdata, i + 2)
         IN IF end > Len(rdata) THEN <<>>
            ELSE (IF isAllowedEDNSOption(code) /\ u16(rdata, i + 2) <= EDNSMaxUDPPayloadSize
                  THEN <<[Code |-> code, Data |-> slice(rdata, i + 4, end)]>> ELSE <<>>)
                 \o parseOptions(rdata, end)

marshalOption(o) == put16(o.Code) \o put16(Len(o.Data)) \o o.Data

packOPTTTL(extRCode, version, dnssecOk) ==
    <<extRCode, version, IF dnssecOk THEN 128 ELSE 0, 0>>

\* OPTRecord.Marshal: the root name, the size in place of the class.
marshalOPT(o) ==
    LET rdata == FlattenSeq([i \in DOMAIN o.Options |-> marshalOption(o.Options[i])])
    IN <<0>> \o put16(TypeOPT) \o put16(o.UDPPayloadSize)
             \o packOPTTTL(o.ExtendedRCode, o.Version, o.DNSSECOk) \o put16(Len(rdata)) \o rdata

CreateOPT(size) ==
    [UDPPayloadSize |-> IF size < DefaultUDPPayloadSize THEN DefaultUDPPayloadSize
                        ELSE IF size > 65535 THEN 65535 ELSE size,
     ExtendedRCode |-> 0, Version |-> 0, DNSSECOk |-> FALSE, Options |-> <<>>]

\* The first OPT record, as a sequence of at most one.
ExtractOPT(additionals) ==
    LET opts == SelectSeq(additionals, LAMBDA r : r.Type = TypeOPT)
    IN IF opts = <<>> THEN <<>>
       ELSE LET r == Head(opts)
            IN <<[UDPPayloadSize |-> r.Class, ExtendedRCode |-> r.TTL[1], Version |-> r.TTL[2],
                  DNSSECOk |-> r.TTL[3] >= 128, Options |-> parseOptions(r.Data, 0)]>>

ClientMaxUDPSize(p) ==
    LET opt == ExtractOPT(p.Additionals)
    IN IF opt = <<>> \/ opt[1].UDPPayloadSize < DefaultUDPPayloadSize
       THEN DefaultUDPPayloadSize ELSE opt[1].UDPPayloadSize

\* A variant: the record is not counted.
AddEDNSUncounted(p, m, size) ==
    IF ExtractOPT(p.Additionals) # <<>> \/ Len(m) < HeaderSize THEN m
    ELSE m \o marshalOPT(CreateOPT(size))

\* ARCOUNT goes up by one, the record goes to the end of the bytes.
AddEDNSToRequestBytes(p, m, size) ==
    LET ar == u16(m, 10)
    IN IF ExtractOPT(p.Additionals) # <<>> \/ Len(m) < HeaderSize THEN m
       ELSE slice(m, 0, 10) \o put16(ar + 1) \o slice(m, 12, Len(m)) \o marshalOPT(CreateOPT(size))

\* prepareQueryBytes of the forwarding resolver: transaction ID zero; an OPT
\* record with the DO bit stays, any other request passes AddEDNSToRequestBytes.
prepareQueryBytes(p, m, ednsEnabled, ednsUDPSize) ==
    LET out == <<0, 0>> \o slice(m, 2, Len(m))
        opt == ExtractOPT(p.Additionals)
    IN IF Len(m) < 2 THEN m
       ELSE IF ~ednsEnabled \/ (opt # <<>> /\ opt[1].DNSSECOk) THEN out
       ELSE AddEDNSToRequestBytes(p, out, ednsUDPSize)

PatchTransactionID(m, txid) == IF Len(m) < 2 THEN m ELSE put16(txid) \o slice(m, 2, Len(m))

-----------------------------------------------------------------------------
(* Truncation.                                                             *)

RECURSIVE skipQNAME(_, _), questionsEnd(_, _, _)

\* Labels are skipped up to the zero byte or the first pointer.
skipQNAME(m, pos) ==
    IF pos >= Len(m) THEN pos
    ELSE LET b == byte(m, pos) IN
         CASE b = 0    -> pos + 1
           [] b >= 192 -> IF pos + 2 > Len(m) THEN Len(m) ELSE pos + 2
           [] OTHER    -> IF pos + 1 + b > Len(m) THEN Len(m) ELSE skipQNAME(m, pos + 1 + b)

questionsEnd(m, n, pos) ==
    LET after == skipQNAME(m, pos)
    IN IF n = 0 THEN pos
       ELSE IF after + 4 > Len(m) THEN Len(m)
       ELSE questionsEnd(m, n - 1, after + 4)

findQuestionSectionEnd(m, qdcount) == questionsEnd(m, qdcount, HeaderSize)

buildTruncatedHeader(m, qdcount) ==
    LET flags == u16(m, 2)
    IN marshalHeader(u16(m, 0), IF has(flags, TCFlag) THEN flags ELSE flags + TCFlag,
                     <<qdcount, 0, 0, 0>>)

\* A variant: the question section may end one byte past the limit.
truncateLate(m, maxSize) ==
    LET limit  == IF maxSize <= 0 THEN DefaultUDPPayloadSize ELSE maxSize
        header == buildTruncatedHeader(m, u16(m, 4))
        end    == findQuestionSectionEnd(m, u16(m, 4))
    IN IF Len(m) <= limit \/ Len(m) < HeaderSize THEN m
       ELSE IF u16(m, 4) = 0 \/ end <= HeaderSize \/ end > limit + 1 THEN header
       ELSE [i \in 1..HeaderSize |-> 0] \o slice(m, HeaderSize, end)

\* The header alone, or the question section behind HeaderSize bytes of
\* make([]byte, len(header), questionEnd): zeros, the header is not copied.
truncateUDPResponse(m, maxSize) ==
    LET limit  == IF maxSize <= 0 THEN DefaultUDPPayloadSize ELSE maxSize
        header == buildTruncatedHeader(m, u16(m, 4))
        end    == findQuestionSectionEnd(m, u16(m, 4))
    IN IF Len(m) <= limit \/ Len(m) < HeaderSize THEN m
       ELSE IF u16(m, 4) = 0 \/ end <= HeaderSize \/ end > limit THEN header
       ELSE [i \in 1..HeaderSize |-> 0] \o slice(m, HeaderSize, end)

\* What handlePacket writes for a request that parsed.
datagram(p, m) ==
    LET size == ClientMaxUDPSize(p)
    IN truncateUDPResponse(m, IF size > EDNSMaxUDPPayloadSize THEN EDNSMaxUDPPayloadSize ELSE size)

-----------------------------------------------------------------------------
(* What is expected of the messages built for a request m.                 *)

\* What the handler sends for m when it has no answer.
errorReply(m) ==
    LET p == ParseRequestBounded(m)
    IN IF p.ok THEN buildErrorResult(p.item, ServFail) ELSE tryBuildErrorFromRaw(m, FormErr)

\* It is the response of an error to this transaction and this question, and there
\* is one if and only if the header parses.  Nothing is claimed for a question
\* whose name EncodeName refuses or changes: the root, a name too long to be
\* written, and one with a dot inside a label.
ErrorMatches(m) ==
    LET h == ParseHeader(m) IN
    \A q \in {IF h.ok /\ h.item.QDCount > 0 THEN ParseQuestion(m, HeaderSize) ELSE NotParsed},
       s \in {spelled(m, HeaderSize)}, e \in {errorReply(m)} :
    \A a \in {ParsePacket(e.bytes)} :
       (q.ok => dotless(s.labels) /\ s.labels # <<>> /\ Len(encoded(s.labels)) <= MaxName) =>
         /\ e.ok <=> h.ok
         /\ e.ok => /\ a.ok /\ a.off = Len(e.bytes)
                    /\ a.item.Header.ID = h.item.ID
                    /\ has(a.item.Header.Flags, QRFlag)
                    /\ has(a.item.Header.Flags, RDFlag) <=> has(h.item.Flags, RDFlag)
                    /\ a.item.Header.Flags % 16 \in {FormErr, ServFail}
                    /\ a.item.Questions = IF q.ok THEN <<q.item>> ELSE <<>>

\* No name of m points into the header, whose ID and ARCOUNT are rewritten.
noHeaderPointers(m) ==
    \A i \in 0..(Len(m) - 2) : isCompressionPointer(byte(m, i)) => pointer(m, i) >= HeaderSize

\* The query sent upstream is the request with the transaction ID zero and an
\* OPT record: the client's, or one behind the request's own records.
QueryMatches(m, ednsUDPSize) ==
    \A p \in {ParseRequestBounded(m)} : p.ok /\ p.off = Len(m) /\ noHeaderPointers(m) =>
    \A u \in {prepareQueryBytes(p.item, m, TRUE, ednsUDPSize)} : \A a \in {ParsePacket(u)} :
      LET k == Len(p.item.Additionals) IN
         /\ a.ok /\ a.off = Len(u)
         /\ a.item.Header.ID = 0 /\ a.item.Header.Flags = p.item.Header.Flags
         /\ a.item.Questions = p.item.Questions
         /\ a.item.Answers = p.item.Answers /\ a.item.Authorities = p.item.Authorities
         /\ SubSeq(a.item.Additionals, 1, k) = p.item.Additionals
         /\ ExtractOPT(a.item.Additionals) =
               IF ExtractOPT(p.item.Additionals) # <<>> THEN ExtractOPT(p.item.Additionals)
               ELSE <<CreateOPT(ednsUDPSize)>>

\* A response of the upstream: the question as asked, and the records rrs.
response(m, rrs) ==
    marshalHeader(0, QRFlag, <<1, Len(rrs), 0, 0>>)
        \o slice(m, HeaderSize, ParseQuestion(m, HeaderSize).off) \o FlattenSeq(rrs)

\* The datagram written for an answer fits the size the client asked for, within
\* the server's bounds.  A response that fits is sent whole; of one whose question
\* does not fit either, the header remains, with its ID and flags and TC set.  Of a
\* response that is cut after its question, the size is all that is claimed.
ReplyFits(m, rrs) ==
    \A p \in {ParseRequestBounded(m)} : p.ok /\ noHeaderPointers(m) =>
    \A a \in {PatchTransactionID(response(m, rrs), p.item.Header.ID)} : \A d \in {datagram(p.item, a)} :
    LET opts == SelectSeq(p.item.Additionals, LAMBDA r : r.Type = TypeOPT)
        most == IF opts = <<>> \/ opts[1].Class < DefaultUDPPayloadSize THEN DefaultUDPPayloadSize
                ELSE IF opts[1].Class > EDNSMaxUDPPayloadSize THEN EDNSMaxUDPPayloadSize
                ELSE opts[1].Class
    IN   /\ Len(d) <= most
         /\ Len(a) <= most => d = a
         /\ ParseQuestion(m, HeaderSize).off > most =>
               d = put16(p.item.Header.ID) \o put16(u16(a, 2) + TCFlag) \o <<0, 1, 0, 0, 0, 0, 0, 0>>
=============================================================================
