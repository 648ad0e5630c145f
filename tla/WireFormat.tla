----------------------------- MODULE WireFormat -----------------------------
(***************************************************************************)
(* What the data plane reads from bytes it did not write: the frames of    *)
(* internal/transport, the headers of an IP packet, and the first bytes of *)
(* a flow (internal/nodecore/dpi).  Bytes are abstracted to lengths,       *)
(* offsets and the fields decisions depend on; what a parser makes of its  *)
(* input is a record with need, the number of leading bytes it touched.    *)
(***************************************************************************)
EXTENDS Integers, FiniteSets

CONSTANTS PacketLens, HeaderWords,   \* lengths of packets; values of IHL and data offset
          PayloadLens, FieldLens,    \* lengths of a ClientHello and of the fields in it
          FrameLens,                 \* lengths of payloads put into frames
          RouteLens                  \* hops of a probe

ASSUME WireAssumption ==
  PacketLens \union PayloadLens \union FieldLens \union FrameLens \union RouteLens \subseteq Nat
    /\ HeaderWords \subseteq 0..15

VARIABLES input,   \* what the last parser was given
          out      \* what it made of it

wireVars == <<input, out>>

Larger(a, b) == IF a < b THEN b ELSE a
None == [need |-> 0, ok |-> FALSE, from |-> 0]
Rejects(need) == [None EXCEPT !.need = need]
Holds(need, from) == [need |-> need, ok |-> TRUE, from |-> from]

-----------------------------------------------------------------------------
(* IP packets, from the TUN device or a peer.                              *)

Packets == [len : PacketLens, version : {4, 6}, ihl : HeaderWords, proto : {1, 6, 17, 253}, doff : HeaderWords]

\* The ports, when the packet holds them.
parsePacketToContext(p) ==
  IF p.len < 1 THEN None
  ELSE IF p.version # 4 \/ p.len < 20 THEN Rejects(1)
  ELSE IF p.ihl * 4 < 20 THEN Rejects(20)
  ELSE IF p.proto \in {6, 17} /\ p.len >= p.ihl * 4 + 4 THEN Holds(p.ihl * 4 + 4, p.ihl * 4)
  ELSE Rejects(20)

extractUDPPayload(p) ==
  IF p.len < 20 THEN None
  ELSE IF p.version # 4 THEN Rejects(1)
  ELSE IF p.proto # 17 \/ p.len < p.ihl * 4 + 8 THEN Rejects(10)
  ELSE Holds(Larger(10, p.ihl * 4 + 8), p.ihl * 4 + 8)

extractTCPUnchecked(p) ==   \* mutant: the TCP header is taken to be there
  IF p.len < 20 \/ p.version # 4 \/ p.len < p.ihl * 4 \/ p.proto # 6 THEN None
  ELSE LET start == p.ihl * 4 + p.doff * 4
       IN  IF start >= p.len THEN Rejects(p.ihl * 4 + 13) ELSE Holds(p.ihl * 4 + 13, start)

extractTCPPayload(p) ==
  IF p.len < 20 THEN None
  ELSE IF p.version # 4 \/ p.len < p.ihl * 4 THEN Rejects(1)
  ELSE IF p.proto # 6 \/ p.len < p.ihl * 4 + 20 THEN Rejects(10)
  ELSE LET start == p.ihl * 4 + p.doff * 4
           need  == Larger(10, p.ihl * 4 + 13)
       IN  IF start >= p.len THEN Rejects(need) ELSE Holds(need, start)

\* The answer to a hijacked query: the addresses, the ports and the first two words of
\* the DNS header are read, and the checksum goes over the header.
buildDNS_SERVFAIL(p) ==
  IF p.len < 1 THEN None
  ELSE IF p.version # 4 \/ p.ihl * 4 < 20 \/ p.len < p.ihl * 4 + 20 THEN Rejects(1)
  ELSE IF p.proto # 17 THEN Rejects(10)
  ELSE Holds(p.ihl * 4 + 12, p.ihl * 4 + 8)

extractDstIP(p) ==
  IF p.len < 20 THEN None ELSE IF p.version # 4 THEN Rejects(1) ELSE Holds(20, 16)

\* The split tunnel's wrapper asks the same of a packet in its own way.
extractConnKey(p) ==
  IF p.len < 20 THEN None
  ELSE IF p.ihl * 4 < 20 THEN Rejects(1)
  ELSE IF p.proto \in {6, 17} /\ p.len >= p.ihl * 4 + 4 THEN Holds(p.ihl * 4 + 4, 0)
  ELSE Rejects(20)

isDNSPort(p) ==
  IF p.len < 24 THEN None
  ELSE IF p.proto \notin {6, 17} \/ p.len < p.ihl * 4 + 4 THEN Rejects(10)
  ELSE Holds(Larger(10, p.ihl * 4 + 4), 0)

\* Over UDP behind the header; over TCP behind two bytes of length.
extractDNSPayload(p) ==
  LET start == p.ihl * 4 + p.doff * 4
  IN  IF ~isDNSPort(p).ok THEN isDNSPort(p)
      ELSE IF p.proto = 17 /\ p.len >= p.ihl * 4 + 20 THEN Holds(p.ihl * 4 + 20, p.ihl * 4 + 8)
      ELSE IF p.proto = 6 /\ p.len >= p.ihl * 4 + 20 /\ p.len >= start + 14
           THEN Holds(Larger(p.ihl * 4 + 13, start + 2), start + 2)
      ELSE IF p.proto = 6 /\ p.len >= p.ihl * 4 + 20 THEN Rejects(p.ihl * 4 + 13)
      ELSE isDNSPort(p)

\* An echo request is told by the first eight bytes behind the header.
HandleICMP(p) ==
  IF p.len < 28 THEN None
  ELSE IF p.len < p.ihl * 4 + 8 THEN Rejects(20)
  ELSE Holds(Larger(20, p.ihl * 4 + 8), p.ihl * 4)

\* A packet for the exit travels inside another: 20 bytes of IP, 8 of the tunnel's own.
proxyOuterProto == 253
proxyEncapHdrLen == 8

encapProxy(n) == [len |-> 20 + proxyEncapHdrLen + n, version |-> 4, ihl |-> 5, proto |-> proxyOuterProto, doff |-> 0]

isProxyEncapForMe(p) ==
  IF p.len < 20 + proxyEncapHdrLen THEN None
  ELSE IF p.version # 4 \/ p.proto # proxyOuterProto \/ p.len < p.ihl * 4 + proxyEncapHdrLen THEN Rejects(10)
  ELSE Holds(Larger(20, p.ihl * 4 + 2), p.ihl * 4 + proxyEncapHdrLen)

\* A packet that holds no whole IP header inside is passed on as it is.
Unwrapped(p) ==
  LET outer == isProxyEncapForMe(p)
  IN  IF outer.ok /\ p.len < outer.from + 20 THEN Rejects(outer.need) ELSE outer

ParsePacket ==
  \E p \in Packets :
    /\ input' = [kind |-> "packet", packet |-> p]
    /\ out' = [ports |-> parsePacketToContext(p), udp |-> extractUDPPayload(p),
               tcp |-> extractTCPPayload(p), servfail |-> buildDNS_SERVFAIL(p),
               dst |-> extractDstIP(p), key |-> extractConnKey(p), dns |-> extractDNSPayload(p),
               echo |-> HandleICMP(p), inner |-> Unwrapped(p)]

\* Only what has an IP header is looked at, and so wrapped.
Wrap ==
  \E n \in PacketLens :
    /\ n >= 20
    /\ input' = [kind |-> "wrapped", packet |-> encapProxy(n), payload |-> n]
    /\ out' = [inner |-> Unwrapped(encapProxy(n))]

-----------------------------------------------------------------------------
(* Frames: 4 bytes of length, flags, TTL, an address of 4 or 16 bytes, two *)
(* bytes of relay, the payload.                                            *)

MaxFrameLen == 65535
fixedHdrSize == 4
FrameKinds == {"data", "keepalive", "dns", "probe"}

vipSize(six) == IF six THEN 16 ELSE 4

\* An invalid address is written as 0.0.0.0 and a mapped one as the IPv4 address it holds.
vipBytes(addr) == addr = "v6"

\* The frame a writer puts on the stream. Only WriteStreamFrame looks at the length.
Written(kind, addr, payload) ==
  LET six   == kind # "keepalive" /\ vipBytes(addr)
      total == fixedHdrSize + vipSize(six) + payload
  IN  [kind |-> kind, six |-> six, len |-> total, sent |-> kind = "data" => total <= MaxFrameLen]

ReadForSix(f) ==   \* mutant: every frame has to hold the longer header
  IF f.len > MaxFrameLen \/ f.len < fixedHdrSize + vipSize(TRUE) THEN Rejects(0)
  ELSE Holds(f.len, fixedHdrSize + vipSize(f.six))

\* parseFrame, given the bytes of one frame.
parseFrame(f) ==
  LET header == fixedHdrSize + vipSize(f.six)
  IN  IF f.len < header THEN Rejects(2) ELSE Holds(header, header)

\* readStreamFrameRaw: the length prefix is checked before the frame is read.
ReadStreamFrame(f) ==
  IF f.len > MaxFrameLen \/ f.len < fixedHdrSize + vipSize(FALSE) THEN Rejects(0)
  ELSE parseFrame(f)

\* A datagram has no prefix.
DecodeDatagram(f) == IF f.len < fixedHdrSize + vipSize(FALSE) THEN None ELSE parseFrame(f)

WriteFrame ==
  \E kind \in FrameKinds, addr \in {"v4", "v6", "mapped", "invalid"}, n \in FrameLens :
    LET f == Written(kind, addr, IF kind = "keepalive" THEN 8 ELSE n)
    IN  /\ f.sent
        /\ input' = [kind |-> "frame", frame |-> f, payload |-> IF kind = "keepalive" THEN 8 ELSE n]
        /\ out' = [read |-> ReadStreamFrame(f)]

\* A frame of any length with either flag, from the stream or as a datagram.
FrameReceived ==
  \E n \in PacketLens, six \in BOOLEAN :
    LET f == [len |-> n, six |-> six]
    IN  /\ input' = [kind |-> "bytes", frame |-> f]
        /\ out' = [read |-> ReadStreamFrame(f), datagram |-> DecodeDatagram(f)]

-----------------------------------------------------------------------------
(* Probes: 24 bytes, a route of 4 bytes a hop whose count is one byte, and *)
(* an entry of 10 bytes in a route synchronisation.                        *)

probeFixedSize == 24
routeSyncEntrySize == 10

Encoded(hops, sync) ==
  [len |-> probeFixedSize + 4 * hops + IF sync THEN routeSyncEntrySize ELSE 0,
   count |-> hops % 256, sync |-> sync]

DecodeUnchecked(b) ==   \* mutant: the route is not compared with what was received
  IF b.len < probeFixedSize THEN None ELSE Holds(probeFixedSize + 4 * b.count, b.count)

DecodeProbePayload(b) ==
  LET routeEnd == probeFixedSize + 4 * b.count
  IN  IF b.len < probeFixedSize THEN None
      ELSE IF routeEnd > b.len THEN Rejects(probeFixedSize)
      ELSE IF b.sync /\ routeEnd + routeSyncEntrySize <= b.len THEN Holds(routeEnd + routeSyncEntrySize, b.count)
      ELSE Holds(routeEnd, b.count)

ProbeSent ==
  \E hops \in RouteLens, sync \in BOOLEAN, cut \in BOOLEAN :
    LET whole == Encoded(hops, sync)
        b == IF cut THEN [whole EXCEPT !.len = @ - 1] ELSE whole
    IN  /\ input' = [kind |-> "probe", bytes |-> b, hops |-> hops, cut |-> cut]
        /\ out' = [probe |-> DecodeProbePayload(b)]

bandwidthFixedSize == 21
bandwidthReplySize == 28

\* A packet of a measurement is filled up by its sender; the answer to it is not.
DecodeBandwidthFrame(n) == IF n < bandwidthFixedSize THEN None ELSE Holds(bandwidthFixedSize, bandwidthFixedSize)
DecodeBandwidthReply(n) == IF n < bandwidthReplySize THEN None ELSE Holds(bandwidthReplySize, bandwidthReplySize)

MeasureReceived ==
  \E n \in PacketLens :
    /\ input' = [kind |-> "measure", len |-> n]
    /\ out' = [frame |-> DecodeBandwidthFrame(n), reply |-> DecodeBandwidthReply(n)]

-----------------------------------------------------------------------------
(* The first bytes of a TCP flow: a ClientHello is walked field by field,  *)
(* each length being read from the payload itself.                         *)

Hello(at, off, end, need) ==
  out' = [at |-> at, off |-> off, end |-> end, hello |-> [need |-> need, ok |-> at = "name", from |-> off]]

\* Not a ClientHello that can be parsed: with 11 bytes or more that is final.
GiveUp == Hello(IF input.len >= 11 THEN "unknown" ELSE "more", out.off, out.end, out.hello.need)

Walking(at) == input.kind = "hello" /\ out.at = at /\ UNCHANGED input

\* The record, handshake type, version and random.
ReadRecord ==
  \E n \in PayloadLens, type \in {"hello", "other"} :
    /\ input' = [kind |-> "hello", len |-> n]
    /\ IF n < 9 \/ type # "hello" \/ n < 44
       THEN LET need == IF n < 5 THEN 0 ELSE IF n < 9 THEN 1 ELSE 6
            IN  Hello(IF n >= 11 THEN "unknown" ELSE "more", 0, 0, need)
       ELSE Hello("session", 43, 0, 6)

\* A field of a length that takes width bytes.
Field(at, width, next) ==
  /\ Walking(at)
  /\ IF input.len < out.off + width THEN GiveUp
     ELSE \E n \in FieldLens :
            LET off == out.off + width + n
            IN  IF input.len < off
                THEN Hello(IF input.len >= 11 THEN "unknown" ELSE "more", out.off, out.end, out.off + width)
                ELSE IF next = "extension" THEN Hello(next, out.off + width, off, out.off + width)
                ELSE Hello(next, off, out.end, out.off + width)

ReadSession     == Field("session", 1, "ciphers")
ReadCiphers     == Field("ciphers", 2, "compression")
ReadCompression == Field("compression", 1, "extensions")
ReadExtensions  == Field("extensions", 2, "extension")

SniFitsAlways(extLen) == TRUE   \* mutant: the length of the extension is not compared
SniFits(extLen) == extLen >= 5

\* One extension; the server's name ends the walk.
ReadExtension ==
  /\ Walking("extension")
  /\ IF out.off + 4 > out.end THEN GiveUp
     ELSE \E n \in FieldLens, sni \in BOOLEAN :
            LET body == out.off + 4
            IN  IF body + n > out.end \/ (sni /\ ~SniFits(n)) THEN Hello("unknown", out.off, out.end, body)
                ELSE IF ~sni THEN Hello("extension", body + n, out.end, body)
                ELSE \E name \in FieldLens :
                       IF body + 5 + name > out.end THEN Hello("unknown", out.off, out.end, body + 5)
                       ELSE Hello("name", body + 5, out.end, body + 5 + name)

\* SniffDNS reads the first ten of twelve bytes.
SniffDNS ==
  \E n \in PayloadLens, query \in BOOLEAN :
    /\ input' = [kind |-> "dns", len |-> n]
    /\ out' = [dns |-> IF n < 12 THEN None ELSE IF query THEN Holds(10, 0) ELSE Rejects(10)]

HelloNext == ReadSession \/ ReadCiphers \/ ReadCompression \/ ReadExtensions \/ ReadExtension

-----------------------------------------------------------------------------

WireInit == input = [kind |-> "none"] /\ out = [at |-> "none"]

\* One input is read after the other.
WireNext ==
  \/ HelloNext
  \/ /\ input.kind = "none"
     /\ ParsePacket \/ Wrap \/ WriteFrame \/ FrameReceived \/ ProbeSent \/ MeasureReceived \/ ReadRecord \/ SniffDNS

WireSpec == WireInit /\ [][WireNext]_wireVars

-----------------------------------------------------------------------------
(* Properties.                                                             *)

InputLen ==
  CASE input.kind \in {"packet", "wrapped"} -> input.packet.len
    [] input.kind \in {"frame", "bytes"} -> input.frame.len
    [] input.kind = "probe" -> input.bytes.len
    [] OTHER -> input.len

\* No parser indexes a byte its input does not have, whatever lengths the input claims
\* (an index out of range would end the node's process): the checks of dataplane.go,
\* frame.go and dpi/*.go suffice.
ReadsInside ==
  input.kind # "none" =>
    \A part \in DOMAIN out \ {"at", "off", "end"} : out[part].need <= InputLen

\* What a node writes its peer reads as it was, as long as the frame fits its length (only
\* the writer of packets looks) and one byte counts a route: the address is as long, the
\* payload begins where it should, a route has its hops; and a packet with proper headers
\* gives up the payload behind them.
WrittenIsRead ==
  CASE input.kind = "frame" ->
         input.frame.len <= MaxFrameLen \/ input.frame.kind = "data" =>
            out.read.ok /\ input.frame.len - out.read.from = input.payload
    [] input.kind = "wrapped" -> out.inner.ok /\ input.packet.len - out.inner.from = input.payload
    [] input.kind = "probe" -> input.cut \/ input.hops > 255 \/ (out.probe.ok /\ out.probe.from = input.hops)
    [] input.kind = "packet" ->
         LET p == input.packet
         IN  p.version = 4 /\ p.ihl >= 5 /\ p.doff >= 5 =>
               /\ p.proto = 6 /\ p.len > 4 * (p.ihl + p.doff) => out.tcp.ok /\ out.tcp.from = 4 * (p.ihl + p.doff)
               /\ p.proto = 17 /\ p.len >= 4 * p.ihl + 8 => out.udp.ok /\ out.udp.from = 4 * p.ihl + 8
    [] OTHER -> TRUE
=============================================================================
