------------------------------ MODULE Packetize ------------------------------
(***************************************************************************)
(* How writePackets (conn.go) turns the packets it is given into           *)
(* datagrams, at the level of lengths: fragmentHandshake splits a          *)
(* marshalled handshake body with splitBytes, processHandshakePacket and   *)
(* processPacket put each fragment or content into a record (plain, or     *)
(* tls12_cid-wrapped, then possibly AES-GCM sealed), and compactRawPackets *)
(* coalesces the records into datagrams for the MTU.  Sequence numbers and *)
(* the lock are the subject of ConnWrite; here a record is its length and, *)
(* for a handshake fragment, its (message_sequence, offset, length, total).*)
(***************************************************************************)
EXTENDS Integers, Sequences, SequencesExt, Functions

CONSTANTS
  MTU,         \* c.maximumTransmissionUnit
  BodyLens,    \* lengths of the handshake bodies h.Message.Marshal() returns
  OtherLens,   \* lengths of other record contents (application data, alerts)
  CIDLen,      \* len(c.state.remoteConnectionID)
  Padding,     \* what c.paddingLengthGenerator returns
  MaxPackets,  \* packets in one writePackets call
  MaxWrites    \* writePackets calls

ASSUME MTU \in Nat \ {0} /\ CIDLen \in Nat /\ Padding \in Nat

VARIABLES
  pkts,    \* the []*packet the next writePackets call is given
  msgs,    \* history: body length of each handshake message, by message_sequence
  raws,    \* history: every raw record processPacket/processHandshakePacket built
  wire,    \* datagrams written by nextConn.WriteToContext, in order
  writes   \* writePackets calls made

vars == <<pkts, msgs, raws, wire, writes>>

RecordHeaderSize    == 13  \* recordlayer.FixedHeaderSize
HandshakeHeaderSize == 12  \* handshake.HeaderLength
ExplicitNonceLen    == 8   \* nonce[4:] of gcmNonceLength = 12
GCMTagLen           == 16  \* gcmTagLength

\* What a caller puts in a packet: a handshake message (body length) or
\* another record (content length), with p.shouldWrapCID and
\* p.shouldEncrypt.  A CID record is only written encrypted (epoch > 0).
Kinds ==
  {p \in [kind: {"handshake"}, len: BodyLens, cid: BOOLEAN, enc: BOOLEAN]
          \cup [kind: {"other"}, len: OtherLens, cid: BOOLEAN, enc: BOOLEAN] :
     p.cid => p.enc}

\* A raw record: its length on the wire, and for a handshake fragment the
\* handshake header fields that fragmentHandshake writes (msg is -1 for
\* other records).
Raw == [size: Nat, msg: Int, off: Nat, flen: Nat, total: Nat]

-----------------------------------------------------------------------------
(* Pure operators.                                                          *)

\* splitBytes(bytes, splitLen): consecutive chunks of splitLen bytes, the
\* last one shorter; nothing for an empty input.
SplitBytes(n, splitLen) ==
  LET k == (n + splitLen - 1) \div splitLen
  IN [i \in 1..k |-> IF i < k THEN splitLen ELSE n - (k - 1) * splitLen]

\* The sum of the lengths of the first i - 1 chunks.
OffsetBefore(chunks, i) == FoldLeft(+, 0, SubSeq(chunks, 1, i - 1))

\* Mutant: the fragment offset never advanced (offset += dropped).
FragmentHandshakeNoOffset(n) ==
  LET split == SplitBytes(n, MTU)
      chunks == IF split = <<>> THEN <<0>> ELSE split
  IN [i \in DOMAIN chunks |-> [off |-> 0, flen |-> chunks[i]]]

\* fragmentHandshake: the body split at the MTU (an empty body still gives
\* one empty fragment); each fragment's offset is the bytes before it.
FragmentHandshake(n) ==
  LET split == SplitBytes(n, MTU)
      chunks == IF split = <<>> THEN <<0>> ELSE split
  IN [i \in DOMAIN chunks |-> [off |-> OffsetBefore(chunks, i),
                               flen |-> chunks[i]]]

\* The length of a record carrying content bytes: the record header, or
\* the CID header (13 + CID) followed by the inner plaintext (content, real
\* type byte, zeros); GCM.Encrypt adds the explicit nonce and the tag.
RecordLen(p, content, zeros) ==
  LET plain == IF p.cid
               THEN RecordHeaderSize + CIDLen + content + 1 + zeros
               ELSE RecordHeaderSize + content
  IN IF p.enc THEN plain + ExplicitNonceLen + GCMTagLen ELSE plain

\* processHandshakePacket: one record per fragment, each holding the
\* handshake header and the fragment; the CID inner plaintext is padded.
ProcessHandshakePacket(p) ==
  LET frags == FragmentHandshake(p.len)
  IN [i \in DOMAIN frags |->
        [size |-> RecordLen(p, HandshakeHeaderSize + frags[i].flen, Padding),
         msg |-> p.msg, off |-> frags[i].off, flen |-> frags[i].flen,
         total |-> p.len]]

\* processPacket: one record; its CID inner plaintext has no padding.
ProcessPacket(p) ==
  <<[size |-> RecordLen(p, p.len, 0), msg |-> -1, off |-> 0, flen |-> 0,
     total |-> 0]>>

\* The records of a packet list, in order (writePackets' loop).
RawPackets(ps) ==
  FlattenSeq([i \in DOMAIN ps |->
                IF ps[i].kind = "handshake" THEN ProcessHandshakePacket(ps[i])
                                            ELSE ProcessPacket(ps[i])])

DatagramLen(d) == FoldLeft(LAMBDA acc, r : acc + r.size, 0, d)

\* Mutant: the datagram is closed when it alone has reached the MTU,
\* without counting the record to be added.
FlushBeforeOverMTU(cur, r) == cur # <<>> /\ DatagramLen(cur) >= MTU

\* compactRawPackets' test: the datagram being filled is closed when adding
\* the next record would bring it to the MTU or beyond.
FlushBefore(cur, r) == cur # <<>> /\ DatagramLen(cur) + r.size >= MTU

RECURSIVE Compact(_, _, _)
\* The loop of compactRawPackets over rs, with the datagrams closed so far
\* and the one being filled; the last one is appended after the loop.
Compact(rs, done, cur) ==
  IF rs = <<>> THEN Append(done, cur)
  ELSE IF FlushBefore(cur, Head(rs))
       THEN Compact(Tail(rs), Append(done, cur), <<Head(rs)>>)
       ELSE Compact(Tail(rs), done, Append(cur, Head(rs)))

\* Mutant: the datagram being filled is not appended after the loop.
CompactRawPacketsNoTail(rs) ==
  IF Len(rs) = 1 THEN <<rs>> ELSE Front(Compact(rs, <<>>, <<>>))

\* compactRawPackets: a single record is returned as it is.
CompactRawPackets(rs) ==
  IF Len(rs) = 1 THEN <<rs>> ELSE Compact(rs, <<>>, <<>>)

-----------------------------------------------------------------------------
(* Callers (the FSM's flights, Write, notify) hand a packet list to         *)
(* writePackets, which writes it under c.lock in one go.                    *)

\* A packet joins the list of the next call; a handshake message takes the
\* next message_sequence.
AddPacket(k) ==
  /\ writes < MaxWrites
  /\ Len(pkts) < MaxPackets
  /\ LET isHs == k.kind = "handshake"
         p == [kind |-> k.kind, len |-> k.len, cid |-> k.cid, enc |-> k.enc,
               msg |-> IF isHs THEN Len(msgs) ELSE -1]
     IN /\ pkts' = Append(pkts, p)
        /\ msgs' = IF isHs THEN Append(msgs, k.len) ELSE msgs
  /\ UNCHANGED <<raws, wire, writes>>

\* writePackets: every packet becomes its records, the records are
\* compacted, and each datagram is written.
WritePackets ==
  /\ pkts # <<>>
  /\ LET rs == RawPackets(pkts)
     IN /\ raws' = raws \o rs
        /\ wire' = wire \o CompactRawPackets(rs)
  /\ pkts' = <<>>
  /\ writes' = writes + 1
  /\ UNCHANGED msgs

\* Every call has been made.
Done ==
  /\ writes = MaxWrites
  /\ UNCHANGED vars

Init ==
  /\ pkts = <<>>
  /\ msgs = <<>>
  /\ raws = <<>>
  /\ wire = <<>>
  /\ writes = 0

Next ==
  \/ \E k \in Kinds : AddPacket(k)
  \/ WritePackets
  \/ Done

Spec == Init /\ [][Next]_vars

-----------------------------------------------------------------------------

\* The fragments of handshake message m on the wire, in order.
FragmentsOf(m) == SelectSeq(FlattenSeq(wire), LAMBDA r : r.msg = m)

\* The body bytes a fragment carries.
Covered(f) == f.off .. (f.off + f.flen - 1)

\* Every handshake message written can be put back together from its
\* fragments (spec 5: identical message_sequence and total length,
\* individual offset and length): the fragments carry the body length and
\* cover its bytes exactly once (fragmentHandshake with splitBytes).
FragmentsReassemble ==
  \A m \in DOMAIN msgs :
    LET fs == FragmentsOf(m - 1)
    IN fs # <<>> =>
         /\ \A i \in DOMAIN fs : fs[i].total = msgs[m]
         /\ UNION {Covered(fs[i]) : i \in DOMAIN fs} = 0..(msgs[m] - 1)
         /\ FoldLeft(LAMBDA a, f : a + f.flen, 0, fs) = msgs[m]

\* The datagrams carry exactly the records built, in the order built, and
\* no record is cut across datagrams (spec 5, compactRawPackets).
RecordsInOrder == FlattenSeq(wire) = raws

\* A datagram that coalesces several records stays within the MTU (spec 5,
\* compactRawPackets).
CoalescedWithinMTU ==
  \A i \in DOMAIN wire : Len(wire[i]) > 1 => DatagramLen(wire[i]) <= MTU

=============================================================================
