------------------------------ MODULE ConnWrite ------------------------------
(***************************************************************************)
(* The send side of one DTLS connection (conn.go): writePackets under      *)
(* c.lock, with processPacket and processHandshakePacket assigning the     *)
(* per-epoch sequence numbers, fragmenting and wrapping records in CID     *)
(* records; and the callers that race for the lock: the handshake FSM      *)
(* sending and resending its flights, the reader's notify, user Writes and *)
(* Close.  A record on the wire is [type, epoch, seq, enc].  close() is    *)
(* called by each user Close and by the reader (close(false)); the         *)
(* closeLock decides which of them closes nextConn.                        *)
(***************************************************************************)
EXTENDS Integers, Sequences, FiniteSets

CONSTANTS
  Writers,        \* goroutines of the user calling Write
  UserClosers,    \* calls of Close by the user
  MaxWrites,      \* Write calls per writer
  RemoteCID,      \* len(c.state.remoteConnectionID) > 0
  NumFragments,   \* records fragmentHandshake makes of one message
  MaxSeqNum,      \* recordlayer.MaxSequenceNumber (scaled down)
  MaxFlightSends  \* sends of flight 5 (first one and retransmissions)

ASSUME NumFragments \in Nat \ {0}
ASSUME MaxFlightSends \in Nat \ {0}

NoOne == "none"
Callers == Writers \cup UserClosers \cup {"fsm", "reader"}
CloseRets == {"none", "ErrConnClosed", "nil", "socket"}
Types == {"handshake", "ccs", "appdata", "alert", "close_notify"}
\* A packet handed to writePackets: content type, header epoch, and the
\* shouldWrapCID and shouldEncrypt flags.
Packets == [type: Types, epoch: 0..1, wrap: BOOLEAN, enc: BOOLEAN]
WireRecords == [type: Types, epoch: 0..1, seq: 0..MaxSeqNum, enc: BOOLEAN]

VARIABLES
  localEpoch,   \* c.state.localEpoch
  completed,    \* c.handshakeCompletedSuccessfully
  closed,       \* c.closed
  seqNum,       \* c.state.localSequenceNumber, per epoch
  lock,         \* holder of c.lock, or NoOne
  pend,         \* the records a caller holding c.lock is about to send
  pc,           \* program counter of each caller
  ret,          \* where a caller goes on once its writePackets returns
  wEpoch,       \* the epoch each writer read for its record (line 391)
  writes,       \* Write calls each writer has made
  fsmSends,     \* how often flight 5 has been sent
  byUser,       \* c.connectionClosedByUser
  closeRet,     \* what each user Close returns: ErrConnClosed, nil, or
                \* nextConn.Close()'s result ("socket")
  sockCloses,   \* calls of nextConn.Close()
  wire          \* history: records written to nextConn, in order

closeVars == <<byUser, closeRet, sockCloses>>
vars == <<localEpoch, completed, closed, seqNum, lock, pend, pc, ret, wEpoch,
          writes, fsmSends, closeVars, wire>>

-----------------------------------------------------------------------------
(* processPacket and processHandshakePacket for one packet list, as        *)
(* writePackets runs them under the lock.  Each record takes the next      *)
(* sequence number of its epoch (atomic.AddUint64(...) - 1); when that     *)
(* number exceeds the limit the call fails: the counter has moved, nothing *)
(* of the list is sent.  A handshake message becomes NumFragments records; *)
(* when wrapped in a CID record its header keeps the packet's own sequence *)
(* number, which the FSM leaves at 0, instead of the assigned one.         *)

\* Mutant: the overflow test left out.
OverflowsNever(s) == FALSE

Overflows(s) == s > MaxSeqNum

\* The sequence number written in the header of a record.
HeaderSeq(p, s) == IF p.type = "handshake" /\ p.wrap THEN 0 ELSE s

RECURSIVE Process(_, _)
Process(pkts, ctr) ==
  IF pkts = <<>> THEN [recs |-> <<>>, ctr |-> ctr, err |-> FALSE]
  ELSE
    LET p == Head(pkts)
        n == IF p.type = "handshake" THEN NumFragments ELSE 1
        bad == {i \in 1..n : Overflows(ctr[p.epoch] + i - 1)}
        k == IF bad = {} THEN n ELSE CHOOSE i \in bad : \A j \in bad : i <= j
        ctr2 == [ctr EXCEPT ![p.epoch] = @ + k]
        recs == [i \in 1..n |-> [type |-> p.type, epoch |-> p.epoch,
                                 seq |-> HeaderSeq(p, ctr[p.epoch] + i - 1),
                                 enc |-> p.enc]]
        rest == Process(Tail(pkts), ctr2)
    IN IF bad # {} THEN [recs |-> <<>>, ctr |-> ctr2, err |-> TRUE]
       ELSE IF rest.err THEN rest
       ELSE [rest EXCEPT !.recs = recs \o @]

-----------------------------------------------------------------------------
(* writePackets: take c.lock, process the packets, write the datagrams and  *)
(* release the lock (deferred).  Taking the lock and writing are two steps: *)
(* the first decides the sequence numbers, the second the wire order.       *)

\* Mutant: writePackets without c.lock.
UnlockedAlways == TRUE

Unlocked == lock = NoOne

\* Caller c takes the lock for pkts; on overflow the call returns at once
\* with the lock released and c goes on at onErr, otherwise at after once
\* the datagrams are written.
Acquire(c, pkts, after, onErr) ==
  /\ Unlocked
  /\ LET res == Process(pkts, seqNum) IN
       /\ seqNum' = res.ctr
       /\ IF res.err
          THEN /\ pc' = [pc EXCEPT ![c] = onErr]
               /\ UNCHANGED <<lock, pend, closeVars>>
          ELSE /\ lock' = c
               /\ pend' = [pend EXCEPT ![c] = res.recs]
               /\ pc' = [pc EXCEPT ![c] = "flush"]
       /\ ret' = [ret EXCEPT ![c] = after]

\* The datagrams go out, unless nextConn is closed; the lock is released.
Flush(c) ==
  /\ pc[c] = "flush"
  /\ wire' = IF sockCloses > 0 THEN wire ELSE wire \o pend[c]
  /\ pend' = [pend EXCEPT ![c] = <<>>]
  /\ lock' = NoOne
  /\ pc' = [pc EXCEPT ![c] = ret[c]]
  /\ UNCHANGED <<localEpoch, completed, closed, seqNum, ret, wEpoch, writes,
                 fsmSends, closeVars>>

-----------------------------------------------------------------------------
(* The handshake FSM of a client (spec 4.8), reduced to its sends: flight 1 *)
(* at epoch 0; flight 5 = ClientKeyExchange, ChangeCipherSpec at epoch 0    *)
(* and Finished at epoch 1, wrapped and encrypted, sent again on each       *)
(* retransmission; completion when the server's Finished arrives.           *)

Flight1 == << [type |-> "handshake", epoch |-> 0, wrap |-> FALSE, enc |-> FALSE] >>
Flight5 == << [type |-> "handshake", epoch |-> 0, wrap |-> FALSE, enc |-> FALSE],
              [type |-> "ccs", epoch |-> 0, wrap |-> FALSE, enc |-> FALSE],
              [type |-> "handshake", epoch |-> 1, wrap |-> RemoteCID, enc |-> TRUE] >>

FsmSendFlight1 ==
  /\ pc["fsm"] = "flight1"
  /\ Acquire("fsm", Flight1, "wait4", "errored")
  /\ UNCHANGED <<localEpoch, completed, closed, wEpoch, writes, fsmSends, wire, closeVars>>

\* prepare for flight 5 raises the local epoch before the flight is sent.
FsmPrepare5 ==
  /\ pc["fsm"] = "wait4"
  /\ localEpoch' = 1
  /\ pc' = [pc EXCEPT !["fsm"] = "flight5"]
  /\ UNCHANGED <<ret, completed, closed, seqNum, lock, pend, wEpoch, writes,
                 fsmSends, wire, closeVars>>

\* A failed send ends the FSM with the error (handshake fails).
\* Flight 5 is sent, first by prepare and then on each timer expiry.
FsmSendFlight5 ==
  /\ pc["fsm"] = "flight5"
  /\ fsmSends < MaxFlightSends
  /\ fsmSends' = fsmSends + 1
  /\ Acquire("fsm", Flight5, "wait6", "errored")
  /\ UNCHANGED <<localEpoch, completed, closed, wEpoch, writes, wire, closeVars>>

FsmRetransmit ==
  /\ pc["fsm"] = "wait6"
  /\ fsmSends < MaxFlightSends
  /\ pc' = [pc EXCEPT !["fsm"] = "flight5"]
  /\ UNCHANGED <<ret, localEpoch, completed, closed, seqNum, lock, pend, wEpoch,
                 writes, fsmSends, wire, closeVars>>

\* The server's Finished arrives: onFlightState sets the completion flag.
FsmFinish ==
  /\ pc["fsm"] = "wait6"
  /\ completed' = TRUE
  /\ pc' = [pc EXCEPT !["fsm"] = "finished"]
  /\ UNCHANGED <<ret, localEpoch, closed, seqNum, lock, pend, wEpoch, writes,
                 fsmSends, wire, closeVars>>

-----------------------------------------------------------------------------
(* The reader answers a record with an alert (notify): local epoch, CID    *)
(* wrapping as negotiated, encrypted once the handshake has completed.     *)

ReaderNotify ==
  /\ pc["reader"] = "idle"
  /\ ~closed
  /\ Acquire("reader",
             << [type |-> "alert", epoch |-> localEpoch, wrap |-> RemoteCID,
                 enc |-> completed] >>, "answered", "answered")
  /\ UNCHANGED <<localEpoch, completed, closed, wEpoch, writes, fsmSends, wire, closeVars>>

-----------------------------------------------------------------------------
(* Write: refuse on a closed connection or before completion, read the      *)
(* local epoch for the record, then writePackets.                           *)

WriteBegin(w) ==
  /\ pc[w] = "idle"
  /\ writes[w] < MaxWrites
  /\ ~closed
  /\ completed
  /\ wEpoch' = [wEpoch EXCEPT ![w] = localEpoch]
  /\ writes' = [writes EXCEPT ![w] = @ + 1]
  /\ pc' = [pc EXCEPT ![w] = "write"]
  /\ UNCHANGED <<ret, localEpoch, completed, closed, seqNum, lock, pend, fsmSends,
                 wire, closeVars>>

WriteLocked(w) ==
  /\ pc[w] = "write"
  /\ Acquire(w, << [type |-> "appdata", epoch |-> wEpoch[w], wrap |-> RemoteCID,
                    enc |-> TRUE] >>, "idle", "idle")
  /\ UNCHANGED <<localEpoch, completed, closed, wEpoch, writes, fsmSends, wire, closeVars>>

-----------------------------------------------------------------------------
(* close(byUser): cancel both loops; a user close of a completed handshake *)
(* sends close_notify; then, under c.closeLock, connectionClosedByUser is  *)
(* read (and set by a user), isConnectionClosed is read and c.closed is    *)
(* closed.  A user close returns ErrConnClosed after an earlier user       *)
(* close, nil when the connection was closed already, and otherwise what   *)
(* nextConn.Close() returns; the reader discards the result.               *)

CloseNotify(c) ==
  /\ pc[c] = "idle"
  /\ completed
  /\ Acquire(c, << [type |-> "close_notify", epoch |-> localEpoch,
                    wrap |-> RemoteCID, enc |-> completed] >>, "closing", "closing")
  /\ UNCHANGED <<localEpoch, completed, closed, wEpoch, writes, fsmSends,
                 closeVars, wire>>

CloseSkipNotify(c) ==
  /\ pc[c] = "idle"
  /\ ~completed
  /\ pc' = [pc EXCEPT ![c] = "closing"]
  /\ UNCHANGED <<ret, localEpoch, completed, closed, seqNum, lock, pend, wEpoch,
                 writes, fsmSends, closeVars, wire>>

\* The read loop ends on close_notify, a fatal alert or a cancelled read and
\* calls close(false), after its answer to the alert, if any.
ReaderClose ==
  /\ pc["reader"] \in {"idle", "answered"}
  /\ pc' = [pc EXCEPT !["reader"] = "closing"]
  /\ UNCHANGED <<ret, localEpoch, completed, closed, seqNum, lock, pend, wEpoch,
                 writes, fsmSends, closeVars, wire>>

\* Mutant: connectionClosedByUser set by every close, not only the user's.
CloseLockedAnyCloser(c, user) ==
  /\ pc[c] = "closing"
  /\ closed' = TRUE
  /\ byUser' = TRUE
  /\ pc' = [pc EXCEPT ![c] = IF byUser \/ closed THEN "done" ELSE "sockclose"]
  /\ closeRet' = IF user
                 THEN [closeRet EXCEPT ![c] = IF byUser THEN "ErrConnClosed"
                                              ELSE IF closed THEN "nil"
                                              ELSE "socket"]
                 ELSE closeRet
  /\ UNCHANGED <<ret, localEpoch, completed, seqNum, lock, pend, wEpoch, writes,
                 fsmSends, sockCloses, wire>>

\* Mutant: isConnectionClosed not tested, nextConn closed by every close.
CloseLockedNoIsClosed(c, user) ==
  /\ pc[c] = "closing"
  /\ closed' = TRUE
  /\ byUser' = (byUser \/ user)
  /\ pc' = [pc EXCEPT ![c] = IF byUser THEN "done" ELSE "sockclose"]
  /\ closeRet' = IF user
                 THEN [closeRet EXCEPT ![c] = IF byUser THEN "ErrConnClosed"
                                              ELSE "socket"]
                 ELSE closeRet
  /\ UNCHANGED <<ret, localEpoch, completed, seqNum, lock, pend, wEpoch, writes,
                 fsmSends, sockCloses, wire>>

\* The c.closeLock section of close(); user tells close(true) from close(false).
CloseLocked(c, user) ==
  /\ pc[c] = "closing"
  /\ closed' = TRUE
  /\ byUser' = (byUser \/ user)
  /\ pc' = [pc EXCEPT ![c] = IF byUser \/ closed THEN "done" ELSE "sockclose"]
  /\ closeRet' = IF user
                 THEN [closeRet EXCEPT ![c] = IF byUser THEN "ErrConnClosed"
                                              ELSE IF closed THEN "nil"
                                              ELSE "socket"]
                 ELSE closeRet
  /\ UNCHANGED <<ret, localEpoch, completed, seqNum, lock, pend, wEpoch, writes,
                 fsmSends, sockCloses, wire>>

\* nextConn.Close(), outside the lock.
SocketClose(c) ==
  /\ pc[c] = "sockclose"
  /\ sockCloses' = sockCloses + 1
  /\ pc' = [pc EXCEPT ![c] = "done"]
  /\ UNCHANGED <<ret, localEpoch, completed, closed, seqNum, lock, pend, wEpoch,
                 writes, fsmSends, byUser, closeRet, wire>>

-----------------------------------------------------------------------------

Init ==
  /\ localEpoch = 0
  /\ completed = FALSE
  /\ closed = FALSE
  /\ seqNum = [e \in 0..1 |-> 0]
  /\ lock = NoOne
  /\ pend = [c \in Callers |-> <<>>]
  /\ pc = [c \in Callers |-> IF c = "fsm" THEN "flight1" ELSE "idle"]
  /\ ret = [c \in Callers |-> "idle"]
  /\ wEpoch = [w \in Writers |-> 0]
  /\ writes = [w \in Writers |-> 0]
  /\ fsmSends = 0
  /\ byUser = FALSE
  /\ closeRet = [c \in UserClosers |-> "none"]
  /\ sockCloses = 0
  /\ wire = <<>>

\* Every caller has returned; the connection stays as it is.
Quiescent ==
  /\ lock = NoOne
  /\ \A c \in UserClosers : pc[c] = "done"
  /\ pc["reader"] \in {"idle", "answered", "done"}
  /\ \A w \in Writers : pc[w] = "idle"
  /\ UNCHANGED vars

Next ==
  \/ FsmSendFlight1 \/ FsmPrepare5 \/ FsmSendFlight5 \/ FsmRetransmit
  \/ FsmFinish
  \/ ReaderNotify
  \/ \E w \in Writers : WriteBegin(w) \/ WriteLocked(w)
  \/ \E c \in UserClosers : CloseNotify(c) \/ CloseSkipNotify(c)
                              \/ CloseLocked(c, TRUE)
  \/ ReaderClose \/ CloseLocked("reader", FALSE)
  \/ \E c \in UserClosers \cup {"reader"} : SocketClose(c)
  \/ \E c \in Callers : Flush(c)
  \/ Quiescent

Spec == Init /\ [][Next]_vars

-----------------------------------------------------------------------------

TypeOK ==
  /\ localEpoch \in 0..1
  /\ {completed, closed} \subseteq BOOLEAN
  /\ seqNum \in [0..1 -> Nat]
  /\ lock \in Callers \cup {NoOne}
  /\ pend \in [Callers -> Seq(WireRecords)]
  /\ wEpoch \in [Writers -> 0..1]
  /\ writes \in [Writers -> 0..MaxWrites]
  /\ fsmSends \in 0..MaxFlightSends
  /\ byUser \in BOOLEAN
  /\ closeRet \in [UserClosers -> CloseRets]
  /\ sockCloses \in Nat
  /\ wire \in Seq(WireRecords)

\* Records of one epoch leave in strictly increasing sequence number order
\* (spec 5), whoever of the FSM, the reader, writers and Close sends them:
\* no number repeats, and the lock keeps assignment and writing in order.
SeqStrictlyIncreasing ==
  \A i, j \in DOMAIN wire :
    i < j /\ wire[i].epoch = wire[j].epoch => wire[i].seq < wire[j].seq

\* Once close_notify has been written, no application data follows it
\* (RFC 5246 7.2.1): Write's isConnectionClosed test must not let a record
\* out after Close has sent close_notify.
NoDataAfterCloseNotify ==
  \A i, j \in DOMAIN wire :
    i < j /\ wire[i].type = "close_notify" => wire[j].type # "appdata"


\* nextConn is closed exactly once, by whichever close() marks the
\* connection closed first, a user's Close or the reader's close(false):
\* once c.closed is closed, one call of nextConn.Close() has been made or
\* is under way, and no other close makes a second (c.closeLock makes the
\* isConnectionClosed test and c.closed.Close() one step).
SocketClosedOnce ==
  sockCloses + Cardinality({c \in UserClosers \cup {"reader"} :
                              pc[c] = "sockclose"})
    = IF closed THEN 1 ELSE 0

\* Only a user Close after another user's Close returns ErrConnClosed; the
\* first one returns nil or the socket's error, also when the reader has
\* closed the connection before (close: "Don't return ErrConnClosed at the
\* first time of the call from user").
FirstUserCloseNoError ==
  \A c \in UserClosers :
    closeRet[c] = "ErrConnClosed" =>
      \E d \in UserClosers \ {c} : closeRet[d] \in {"nil", "socket"}

=============================================================================
