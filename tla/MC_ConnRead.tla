---------------------------- MODULE MC_ConnRead ----------------------------
(***************************************************************************)
(* Instances of ConnRead for TLC: the peer's side of a full handshake with *)
(* a connection ID negotiated, seen from a server and from a client.       *)
(* Sequence numbers are those the peer's conn.go assigns: one counter per  *)
(* epoch, and 0 on every CID-wrapped handshake record (processHandshake-   *)
(* Packet copies p.record.Header.SequenceNumber).                          *)
(***************************************************************************)
EXTENDS ConnRead

CONSTANTS a1, a2

MCAddrs == {a1, a2}

\* A record of the peer; Forge makes one whose AEAD tag fails.
Rec(t, e, s, m) ==
  [type |-> t, epoch |-> e, seq |-> s, cid |-> e > 0 /\ LocalCID, auth |-> TRUE, msg |-> m]
Forge(r) == [r EXCEPT !.auth = FALSE]
Dgram(a, rs) == [addr |-> a, recs |-> rs]
Gate(e, d, x) == [epoch |-> e, done |-> d, retx |-> x]
Entry(a, rs, g) == [dgram |-> Dgram(a, rs), gate |-> g]

Start == Gate(0, FALSE, 0)

-----------------------------------------------------------------------------
(* Server role: the client's flight 5 (ClientKeyExchange = message 2,      *)
(* ChangeCipherSpec, Finished = message 3) in three datagrams, its          *)
(* retransmission in one, then application data (ids 1, 2) after the      *)
(* handshake, the second from a new address, and close_notify.            *)

ServerScript == <<
  Entry(a1, <<Rec("handshake", 0, 2, 2)>>, Start),
  Entry(a1, <<Rec("ccs", 0, 3, 0)>>, Start),
  Entry(a1, <<Rec("handshake", 1, 0, 3)>>, Start),
  Entry(a1, <<Rec("handshake", 0, 4, 2), Rec("ccs", 0, 5, 0),
              Rec("handshake", 1, 0, 3)>>, Start),
  Entry(a1, <<Rec("appdata", 1, 2, 1)>>, Gate(1, TRUE, 0)),
  Entry(a2, <<Rec("appdata", 1, 3, 2)>>, Gate(1, TRUE, 0)),
  Entry(a2, <<Rec("close_notify", 1, 4, 0)>>, Gate(1, TRUE, 0)) >>

\* The server's retransmitted flight 5 reaches it eventually.
ServerFair == {4}

-----------------------------------------------------------------------------
(* Client role: the server's flight 4 (ServerHello = 1, ServerHelloDone =  *)
(* 2) and its retransmission, flight 6 (ChangeCipherSpec, Finished = 3)    *)
(* once our flight 5 is out, application data from a new address, and the *)
(* retransmission of flight 6 that our flight-5 timer provokes.            *)

ClientHead == <<
  Entry(a1, <<Rec("handshake", 0, 1, 1)>>, Start),
  Entry(a1, <<Rec("handshake", 0, 2, 2)>>, Start),
  Entry(a1, <<Rec("handshake", 0, 3, 1), Rec("handshake", 0, 4, 2)>>,
        Gate(0, FALSE, 1)),
  Entry(a1, <<Rec("ccs", 0, 5, 0), Rec("handshake", 1, 0, 3)>>,
        Gate(1, FALSE, 0)),
  Entry(a2, <<Rec("appdata", 1, 1, 1)>>, Gate(1, FALSE, 0)) >>

ClientTail == <<
  Entry(a1, <<Rec("ccs", 0, 6, 0), Rec("handshake", 1, 0, 3)>>,
        Gate(1, FALSE, 1)) >>

ClientScript == ClientHead \o ClientTail

\* The server sends a second record before its retransmission of flight 6.
ClientScriptTwoRecords ==
  ClientHead \o << Entry(a1, <<Rec("appdata", 1, 2, 2)>>, Gate(1, FALSE, 0)) >>
             \o ClientTail

\* The retransmissions of flights 4 and 6 reach the client eventually.
ClientFair == {3, 6}
ClientFairTwoRecords == {3, 7}

-----------------------------------------------------------------------------
(* Off-path datagrams: a record of epoch 1 with a bad tag, one of epoch 2, *)
(* and plaintext epoch-0 records: garbage, application data, close_notify, *)
(* a fatal and a warning alert.                                           *)

ForgedBadTag   == Dgram(a2, <<Forge(Rec("appdata", 1, 1, 7))>>)
ForgedEpochTwo == Dgram(a2, <<Forge(Rec("appdata", 2, 0, 7))>>)
ForgedGarbage  == Dgram(a2, <<Rec("garbage", 0, 6, 0)>>)
ForgedAppData  == Dgram(a2, <<Rec("appdata", 0, 7, 7)>>)
ForgedClose    == Dgram(a2, <<Rec("close_notify", 0, 7, 0)>>)
ForgedFatal    == Dgram(a2, <<Rec("alert_fatal", 0, 7, 0)>>)
ForgedWarning  == Dgram(a2, <<Rec("alert_warning", 0, 7, 0)>>)

\* Plaintext ChangeCipherSpec records of every epoch above 0, not
\* CID-wrapped, with no valid tag (GCM.Decrypt does not open them).
ForgedCCS(e) == Dgram(a2, <<[Forge(Rec("ccs", e, 6, 0)) EXCEPT !.cid = FALSE]>>)
AllForgedCCS == {ForgedCCS(e) : e \in 1..EpochMod-1}

HarmlessForged == {ForgedBadTag, ForgedEpochTwo}
AllForged == HarmlessForged \cup {ForgedGarbage, ForgedAppData, ForgedClose,
                                  ForgedFatal, ForgedWarning}
OnlyAppData == {ForgedAppData}
OnlyGarbage == {ForgedGarbage}
ForgedWithCCS == AllForged \cup AllForgedCCS

=============================================================================
