--------------------------- MODULE AppDataChannel ---------------------------
(***************************************************************************)
(* What the receive side of a DTLS connection promises its reader, apart  *)
(* from ordering (spec 1, 4.4, 7): every application datum that reaches    *)
(* Read was sent by the peer, and none reaches it twice.  The network may  *)
(* lose, duplicate and reorder datagrams, and others may send to the       *)
(* socket, but none of that shows here.                                    *)
(***************************************************************************)
EXTENDS Sequences, SequencesExt

CONSTANT Ids          \* application data the peer may send

VARIABLES
  sent,               \* data the peer has sent
  got                 \* data handed towards Read, in order

vars == <<sent, got>>

Init ==
  /\ sent = {}
  /\ got = <<>>

\* The peer sends more data.
Send ==
  /\ sent \subseteq sent'
  /\ sent' \subseteq Ids
  /\ UNCHANGED got

\* A datum the peer sent, and that was not handed over before, is handed
\* over.
Recv(m) ==
  /\ m \in sent
  /\ ~Contains(got, m)
  /\ got' = Append(got, m)
  /\ UNCHANGED sent

Next ==
  \/ Send
  \/ \E m \in Ids : Recv(m)

Spec == Init /\ [][Next]_vars

=============================================================================
