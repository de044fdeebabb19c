---------------------------- MODULE HandshakeCodec ----------------------------
(***************************************************************************)
(* The byte codecs of two handshake bodies: MessageServerHello.Marshal and *)
(* Unmarshal (src/unnamed/part_000) and MessageFinished.Marshal and        *)
(* Unmarshal.  Bytes are scaled down to ByteMod values and the 32-byte     *)
(* Random to RandomLength bytes; the length byte of the session ID and the *)
(* big-endian uint16 of the cipher suite keep their widths relative to a   *)
(* byte.  The extension block is kept as its uint16 length prefix and an   *)
(* opaque body.  A body is either marshalled from a message the handshake  *)
(* builds, or is any byte string a peer puts in a handshake record.        *)
(***************************************************************************)
EXTENDS Integers, Sequences, SequencesExt

CONSTANTS
  ByteMod,          \* values of a byte (256)
  RandomLength,     \* bytes of a Random (RandomLength = 32)
  MaxSessionIDLen,  \* spec: session_id is 0..32 bytes
  MaxExtLen,        \* bytes of extension data in the messages built
  MaxVerifyLen,     \* bytes of verify_data in the messages built
  MaxInputLen       \* length of the byte strings a peer sends

ASSUME ByteMod \in Nat /\ ByteMod >= 2 /\ MaxSessionIDLen < ByteMod

VARIABLES
  sent,     \* the message marshalled last, or None when bytes came from a peer
  data,     \* the body bytes
  decoded   \* what Unmarshal of those bytes returned

vars == <<sent, data, decoded>>

Bytes == 0..ByteMod-1
None == [type |-> "none"]
Err == [ok |-> FALSE]
Ok(m) == [ok |-> TRUE, msg |-> m]

\* protocol.CompressionMethods(): only the null method (ID 0).
CompressionMethodIDs == {0}

\* messageServerHelloVariableWidthStart = 2 + RandomLength
VariableWidthStart == 2 + RandomLength

-----------------------------------------------------------------------------
(* Pure operators.  Offsets are the code's 0-based ones: data[o] is d[o+1].*)

\* binary.BigEndian.PutUint16
PutUint16(x) == <<(x \div ByteMod) % ByteMod, x % ByteMod>>

\* Mutant: the two bytes read in the wrong order.
Uint16LittleEndian(d, o) == d[o + 2] * ByteMod + d[o + 1]

\* binary.BigEndian.Uint16(data[o:])
Uint16(d, o) == d[o + 1] * ByteMod + d[o + 2]

\* extension.Marshal: the uint16 length of the block, then the block.
ExtMarshal(e) == PutUint16(Len(e)) \o e

\* Mutant: the declared length of the block not checked.
ExtUnmarshalNoLenCheck(buf) ==
  IF buf = <<>> THEN Ok(<<>>)
  ELSE IF Len(buf) < 2 THEN Err
  ELSE Ok(SubSeq(buf, 3, Len(buf)))

\* extension.Unmarshal: nothing is no extensions; otherwise the declared
\* length must be what follows it.
ExtUnmarshal(buf) ==
  IF buf = <<>> THEN Ok(<<>>)
  ELSE IF Len(buf) < 2 \/ Uint16(buf, 0) # Len(buf) - 2 THEN Err
  ELSE Ok(SubSeq(buf, 3, Len(buf)))

\* MessageServerHello.Marshal; Random.MarshalFixed is its bytes.
MarshalServerHello(m) ==
  <<m.version[1], m.version[2]>> \o m.random
    \o <<Len(m.sessionID) % ByteMod>> \o m.sessionID
    \o PutUint16(m.cipherSuiteID)
    \o <<m.compressionMethod>>
    \o ExtMarshal(m.extensions)

\* Mutant: any compression method byte accepted.
KnownCompressionAny(b) == TRUE

\* The lookup in protocol.CompressionMethods().
KnownCompression(b) == b \in CompressionMethodIDs

\* MessageServerHello.Unmarshal: each early return is a length check
\* against the offset reached; a missing extension block is no extensions.
UnmarshalServerHello(d) ==
  LET o1 == VariableWidthStart + 1
      n == d[o1]
      o2 == o1 + n
      o3 == o2 + 2
      o4 == o3 + 1
      Msg(exts) == [type |-> "server_hello", version |-> <<d[1], d[2]>>,
                    random |-> SubSeq(d, 3, VariableWidthStart),
                    sessionID |-> SubSeq(d, o1 + 1, o2),
                    cipherSuiteID |-> Uint16(d, o2),
                    compressionMethod |-> d[o3 + 1], extensions |-> exts]
  IN IF Len(d) < VariableWidthStart THEN Err
     ELSE IF Len(d) <= o1 THEN Err
     ELSE IF Len(d) <= o1 + n THEN Err
     ELSE IF Len(d) < o2 + 2 THEN Err
     ELSE IF Len(d) <= o3 THEN Err
     ELSE IF ~KnownCompression(d[o3 + 1]) THEN Err
     ELSE IF Len(d) <= o4 THEN Ok(Msg(<<>>))
     ELSE LET e == ExtUnmarshal(SubSeq(d, o4 + 1, Len(d)))
          IN IF e.ok THEN Ok(Msg(e.msg)) ELSE Err

\* MessageFinished.Marshal and Unmarshal copy verify_data.
MarshalFinished(m) == m.verifyData
UnmarshalFinished(d) == Ok([type |-> "finished", verifyData |-> d])

Marshal(m) ==
  IF m.type = "server_hello" THEN MarshalServerHello(m) ELSE MarshalFinished(m)

\* The handshake header's type selects the body's Unmarshal.
Unmarshal(t, d) ==
  IF t = "server_hello" THEN UnmarshalServerHello(d) ELSE UnmarshalFinished(d)

-----------------------------------------------------------------------------

\* The messages the handshake builds: every field set, a session ID within
\* the spec's bound, the null compression method.
ServerHellos ==
  [type: {"server_hello"}, version: Bytes \X Bytes,
   random: [1..RandomLength -> Bytes],
   sessionID: BoundedSeq(Bytes, MaxSessionIDLen),
   cipherSuiteID: 0..(ByteMod * ByteMod - 1),
   compressionMethod: CompressionMethodIDs,
   extensions: BoundedSeq(Bytes, MaxExtLen)]
Finisheds == [type: {"finished"}, verifyData: BoundedSeq(Bytes, MaxVerifyLen)]
Msgs == ServerHellos \cup Finisheds

\* Nothing has been parsed yet.  Each handshake body is parsed on its own,
\* so one parse per behaviour covers every input.
Idle == sent = None /\ data = <<>>

\* A message is marshalled for a flight and its bytes parsed back.
Send(m) ==
  /\ Idle
  /\ sent' = m
  /\ data' = Marshal(m)
  /\ decoded' = Unmarshal(m.type, Marshal(m))

\* A peer's handshake record of type t carries any bytes d.
Receive(t, d) ==
  /\ Idle
  /\ sent' = None
  /\ data' = d
  /\ decoded' = Unmarshal(t, d)

\* The body has been parsed.
Done ==
  /\ ~Idle
  /\ UNCHANGED vars

Init ==
  /\ sent = None
  /\ data = <<>>
  /\ decoded = Err

Next ==
  \/ Idle /\ \E m \in Msgs : Send(m)
  \/ Idle /\ \E t \in {"server_hello", "finished"},
                 d \in BoundedSeq(Bytes, MaxInputLen) : Receive(t, d)
  \/ Done

Spec == Init /\ [][Next]_vars

-----------------------------------------------------------------------------

TypeOK ==
  /\ sent \in Msgs \cup {None}
  /\ data \in Seq(Bytes)
  /\ decoded \in {Err} \cup
       [ok: {TRUE},
        msg: [type: {"server_hello"}, version: Bytes \X Bytes,
              random: [1..RandomLength -> Bytes], sessionID: Seq(Bytes),
              cipherSuiteID: 0..(ByteMod * ByteMod - 1),
              compressionMethod: CompressionMethodIDs,
              extensions: Seq(Bytes)]
             \cup [type: {"finished"}, verifyData: Seq(Bytes)]]

\* Unmarshal inverts Marshal: every message the handshake builds is parsed
\* back from its bytes field for field (spec S1: parse and re-marshal
\* identically; MessageServerHello Marshal/Unmarshal, MessageFinished).
RoundTrip == sent # None => decoded = Ok(sent)

\* Unmarshal accepts exactly the encodings: whatever bytes it parses into a
\* message are the bytes Marshal produces for it, save an absent extension
\* block that Marshal writes as an empty one (no trailing or skipped byte is
\* accepted).
UnmarshalConsistent ==
  decoded.ok => Marshal(decoded.msg) \in {data, data \o <<0, 0>>}

=============================================================================
