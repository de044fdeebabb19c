------------------------------ MODULE ConnRead ------------------------------
(***************************************************************************)
(* The receive side of one DTLS connection (conn.go): the reader goroutine *)
(* (readAndBuffer, handleIncomingPacket), the queue of early next-epoch    *)
(* records (enqueueEncryptedPackets, handleQueuedPackets), the decrypted   *)
(* channel and Read.  The handshake FSM, which runs in its own goroutine   *)
(* and is not part of src/, is reduced to what the spec says it does with  *)
(* the connection: it parses on every handshake signal, installs the keys  *)
(* and replays the queue, raises the local epoch when it sends the flight  *)
(* carrying its Finished, and marks the handshake complete.                *)
(*                                                                         *)
(* The peer is a script of datagrams it sends in order; a datagram becomes *)
(* sendable once what the peer needs from us has happened (its gate).  The *)
(* network may lose, duplicate and reorder: the reader may read any sent   *)
(* datagram at any time, any number of times.  An off-path sender may      *)
(* inject the datagrams of Forged.                                         *)
(***************************************************************************)
EXTENDS Integers, Sequences, FiniteSets, Functions

CONSTANTS
  IsClient,       \* c.state.isClient
  Addrs,          \* transport addresses the peer may send from
  InitAddr,       \* c.rAddr given to createConn
  MaxSeq,         \* recordlayer.MaxSequenceNumber (scaled down)
  ReplayWindow,   \* c.replayProtectionWindow
  QueueCap,       \* maxAppDataPacketQueueSize (scaled down)
  LocalCID,       \* len(c.state.localConnectionID) > 0
  Script,         \* the peer's datagrams, in the order it sends them
  Forged,         \* datagrams an off-path sender can inject
  FirstMsg,       \* first message_sequence the fragment buffer expects
  InstallMsgs,    \* peer messages after which the FSM installs the keys
  FinishedMsg,    \* message_sequence of the peer's Finished
  MaxRetransmit,  \* bound on retransmission timer expiries per flight
  FairDgrams,     \* script datagrams the network eventually delivers
  UserCloses,     \* the application calls Close on the returned connection
  CtxErrs,        \* what ctx.Err() of the context given to Client/Server
                  \* can become: "deadline" (it expires), "canceled"
  EpochMod        \* 2^16: epochs are uint16 (scaled down)

Epochs == 0..EpochMod-1
Types  == {"handshake", "ccs", "appdata", "close_notify", "alert_fatal",
           "alert_warning", "garbage"}
\* A record: content type, epoch, sequence number, whether it is a tls12_cid
\* record, whether its AEAD tag verifies, and its handshake message_sequence
\* or application data id.
Records == [type: Types, epoch: Epochs, seq: 0..MaxSeq, cid: BOOLEAN,
            auth: BOOLEAN, msg: Nat]
Datagrams == [addr: Addrs, recs: Seq(Records)]
\* What must have happened on our side before the peer sends a datagram.
Gates == [epoch: 0..1, done: BOOLEAN, retx: 0..MaxRetransmit]

ASSUME InitAddr \in Addrs
ASSUME \A i \in DOMAIN Script : Script[i].gate \in Gates
ASSUME FairDgrams \subseteq DOMAIN Script
ASSUME UserCloses \in BOOLEAN
ASSUME CtxErrs \subseteq {"deadline", "canceled"}
ASSUME EpochMod \in Nat /\ EpochMod >= 3

VARIABLES
  remoteEpoch,   \* c.state.remoteEpoch
  localEpoch,    \* c.state.localEpoch
  keys,          \* c.state.cipherSuite != nil && IsInitialized()
  replay,        \* c.state.replayDetector, per epoch
  fbNext,        \* fragmentBuffer.currentMessageSequenceNumber
  fbStore,       \* messages held by the fragment buffer: [msg, epoch]
  cache,         \* handshakeCache entries pushed by the reader, in order
  queue,         \* c.encryptedPackets: [rec, addr]
  decrypted,     \* c.decrypted (capacity 1): data ids or "ERR"
  rAddr,         \* c.rAddr
  completed,     \* c.handshakeCompletedSuccessfully
  closed,        \* c.closed
  hsErr,         \* the error case handshake()'s select took: "none", "first"
                 \* (firstErr), "deadline" or "canceled" (ctx.Err())
  firstErr,      \* the firstErr channel (capacity 1) holds an error
  hsRet,         \* what handshake() returned: "none" yet, "nil" or "err"
  rd,            \* reader goroutine: pc, records left of the datagram, hasHandshake
  fsm,           \* FSM goroutine: pc and the queued records it replays
  retx,          \* retransmission timer expiries in the current flight
  sentIdx,       \* how many script datagrams the peer has sent
  out,           \* history: the alerts notify has written, [epoch, enc, desc]
  delivered,     \* history: application data ids pushed into c.decrypted
  addrSeq        \* history: sequence number of the record that last moved rAddr

vars == <<remoteEpoch, localEpoch, keys, replay, fbNext, fbStore, cache, queue,
          decrypted, rAddr, completed, closed, hsErr, firstErr, hsRet, rd,
          fsm, retx, sentIdx, out, delivered, addrSeq>>

\* handshake() has taken an error case of its select (both loops cancelled).
failed == hsErr # "none"
\* handshake() returned nil.
hsOk == hsRet = "nil"

Pkt == [rec: Records, addr: Addrs]
RdPcs  == {"idle", "records", "notify", "signal", "report", "exit"}
\* No notify is half done.
NoNote == [epoch |-> 0, level |-> "none", kind |-> "none"]
FsmPcs == {"wait_kx", "replay", "prepare", "wait_fin", "finishing",
           "finished", "errored"}

-----------------------------------------------------------------------------
(* Replay detector (pion/transport replaydetector, spec 4.4): a window of   *)
(* ReplayWindow sequence numbers below the latest accepted one.  Check      *)
(* does not change the window; the caller commits after processing.        *)

ReplayInit == [latest |-> 0, seen |-> {}]

ReplayCheck(w, s) ==
  /\ s <= MaxSeq
  /\ \/ s > w.latest
     \/ /\ w.latest < ReplayWindow + s
        /\ s \notin w.seen

\* The value markPacketAsValid returns: the record is the newest so far.
\* Mutant: a caller that treats every accepted record as the newest.
ReplayIsLatestAlways(w, s) == TRUE

ReplayIsLatest(w, s) == \A x \in w.seen : s > x

ReplayCommit(w, s) ==
  [latest |-> IF s > w.latest THEN s ELSE w.latest, seen |-> w.seen \cup {s}]

-----------------------------------------------------------------------------
(* Fragment buffer and handshake cache (spec 4.5, 4.6): records carry whole *)
(* messages; push keeps messages not yet popped, pop hands them to the      *)
(* cache strictly in message_sequence order.                                *)

RECURSIVE PopRun(_, _)
\* The run of consecutive messages held from message_sequence n on.
PopRun(store, n) ==
  IF \E m \in store : m.msg = n
  THEN LET m == CHOOSE x \in store : x.msg = n
       IN <<m>> \o PopRun(store \ {m}, n + 1)
  ELSE <<>>

CachedMsgs == {cache[i].msg : i \in DOMAIN cache}

-----------------------------------------------------------------------------
(* The record being handled by a context: "rd" is the reader loop, which   *)
(* handles with enqueue = true; "fsm" is handleQueuedPackets, run by the   *)
(* FSM goroutine with enqueue = false.                                      *)

Buf(ctx) == IF ctx = "rd" THEN rd.buf ELSE fsm.buf
Cur(ctx) == Head(Buf(ctx))
Running(ctx) ==
  IF ctx = "rd" THEN rd.pc = "records" /\ rd.buf # <<>>
                ELSE fsm.pc = "replay" /\ fsm.buf # <<>>

\* Go on with the next record of the datagram (or of the queue).
Advance(ctx, hs) ==
  IF ctx = "rd"
  THEN /\ rd' = [rd EXCEPT !.buf = Tail(@), !.hs = @ \/ hs]
       /\ UNCHANGED fsm
  ELSE /\ fsm' = [fsm EXCEPT !.buf = Tail(@)]
       /\ UNCHANGED rd

\* Mutant: the capacity test of enqueueEncryptedPackets off by one.
EnqueueOverCap(ctx, p) ==
  queue' = IF ctx = "rd" /\ Len(queue) <= QueueCap THEN Append(queue, p)
                                                    ELSE queue

\* enqueueEncryptedPackets, only when handling with enqueue = true.
Enqueue(ctx, p) ==
  queue' = IF ctx = "rd" /\ Len(queue) < QueueCap THEN Append(queue, p)
                                                   ELSE queue

\* handleIncomingPacket answers close_notify at warning level and everything
\* else it answers at fatal level.
Level(desc) == IF desc = "close_notify" THEN "warning" ELSE "fatal"

\* notify: an alert record at the local epoch, encrypted only once the
\* handshake has completed; the history keeps its level.
Notify(desc) ==
  out' = out \cup {[epoch |-> localEpoch, enc |-> completed, level |-> Level(desc)]}

\* Mutant: a warning alert taken for a fatal one.
EndsReadLoopOnWarning(kind) == kind \in {"close", "fatal", "warning"}

\* alertError.IsFatalOrCloseNotify, as the read loop tests it.
EndsReadLoop(kind) == kind \in {"close", "fatal"}

\* handleIncomingPacket returned an error of kind "close" (close_notify),
\* "fatal" or "warning" (an alertError of that level) or "error" (any
\* other).  In the reader, readAndBuffer returns it (the rest of the
\* datagram is dropped, no handshake signal).  On close_notify or a fatal
\* alert the read loop offers it on firstErr, closes the connection and
\* exits.  A warning alert, and any other error once the handshake has
\* completed, is passed to Read through c.decrypted and the loop goes on; a
\* warning before completion is dropped.  Any other error before
\* completion is offered on firstErr and the loop exits (its deferred
\* cancel() then stops the FSM).  In handleQueuedPackets the FSM's parse
\* fails with it and Run returns it on firstErr.
RecordError(ctx, kind) ==
  /\ IF ctx = "rd"
     THEN LET exits == EndsReadLoop(kind) \/ (kind = "error" /\ ~completed)
              next == IF exits THEN "exit"
                      ELSE IF completed THEN "report" ELSE "idle"
          IN /\ rd' = [rd EXCEPT !.buf = <<>>, !.pc = next, !.note = NoNote]
             /\ closed' = (closed \/ EndsReadLoop(kind))
             /\ firstErr' = (firstErr \/ exits)
             /\ UNCHANGED fsm
     ELSE /\ fsm' = [pc |-> "errored", buf |-> <<>>]
          /\ rd' = [rd EXCEPT !.pc = "idle"]
          /\ firstErr' = TRUE
          /\ UNCHANGED closed
  /\ UNCHANGED hsErr

\* notify, then the caller's error handling.  notify loads the local epoch
\* (getLocalEpoch) and the completion flag (isHandshakeCompletedSuccessfully)
\* as two separate atomics.  In the reader the epoch is loaded here and the
\* rest is NotifyWrite, so the FSM goroutine may raise the epoch and complete
\* in between; the FSM's own replay, the only writer of both, does it all in
\* one step.
NotifyAndFail(ctx, desc, kind) ==
  IF ctx = "rd"
  THEN /\ rd' = [rd EXCEPT !.pc = "notify",
                   !.note = [epoch |-> localEpoch, level |-> Level(desc),
                             kind |-> kind]]
       /\ UNCHANGED <<out, closed, firstErr, fsm, hsErr>>
  ELSE /\ Notify(desc)
       /\ RecordError(ctx, kind)

-----------------------------------------------------------------------------
(* handleIncomingPacket: each disjunct below is one way out of it.          *)

Future(r)   == r.epoch > remoteEpoch
Protected(r) == r.epoch # 0
\* remoteEpoch+1 in uint16 arithmetic.
NextEpoch == (remoteEpoch + 1) % EpochMod

\* Mutant: the error of Decrypt ignored.
AuthenticNoTag(r) == TRUE

\* GCM.Decrypt: a ChangeCipherSpec record (not wrapped in tls12_cid) is
\* returned as it came, without opening it; anything else must verify.
Authentic(r) == r.auth \/ (r.type = "ccs" /\ ~r.cid)

\* Mutant: the connection ID requirement of epochs above 0 left out.
AcceptedNoCID(r) ==
  /\ ~Future(r)
  /\ ReplayCheck(replay[r.epoch], r.seq)
  /\ Protected(r) => keys /\ Authentic(r)

\* Mutant: the anti-replay check left out.
AcceptedNoReplay(r) ==
  /\ ~Future(r)
  /\ Protected(r) => keys /\ (LocalCID => r.cid) /\ Authentic(r)

\* Mutant: the connection ID requirement applied at every epoch, not only
\* above epoch 0.
AcceptedCIDAlways(r) ==
  /\ ~Future(r)
  /\ ReplayCheck(replay[r.epoch], r.seq)
  /\ LocalCID => r.cid
  /\ Protected(r) => keys /\ Authentic(r)

\* The record survives the epoch check, the replay check and, above epoch
\* 0, key availability, the connection ID requirement and decryption.
Accepted(r) ==
  /\ ~Future(r)
  /\ ReplayCheck(replay[r.epoch], r.seq)
  /\ Protected(r) => keys /\ (LocalCID => r.cid) /\ Authentic(r)

\* Kept for after the keys are installed (when enqueue is set): a protected
\* record, or a ChangeCipherSpec, that arrives before the keys.
Deferred(r) ==
  /\ ReplayCheck(replay[r.epoch], r.seq)
  /\ ~keys
  /\ Protected(r) \/ r.type = "ccs"

\* Silently discarded: a too-far epoch, a replay, a missing connection ID
\* or a failed decryption.
DropRecord(ctx) ==
  /\ Running(ctx)
  /\ LET r == Cur(ctx).rec IN
       \/ Future(r) /\ r.epoch > NextEpoch
       \/ ~Future(r) /\ ~Deferred(r) /\ ~Accepted(r)
  /\ Advance(ctx, FALSE)
  /\ UNCHANGED <<remoteEpoch, localEpoch, keys, replay, fbNext, fbStore, cache,
                 queue, decrypted, rAddr, completed, closed, hsErr, firstErr,
                 hsRet, retx, sentIdx, out, delivered, addrSeq>>

\* A next-epoch record, or a deferred one.
QueueRecord(ctx) ==
  /\ Running(ctx)
  /\ LET r == Cur(ctx).rec IN
       \/ Future(r) /\ r.epoch <= NextEpoch
       \/ ~Future(r) /\ Deferred(r)
  /\ Enqueue(ctx, Cur(ctx))
  /\ Advance(ctx, FALSE)
  /\ UNCHANGED <<remoteEpoch, localEpoch, keys, replay, fbNext, fbStore, cache,
                 decrypted, rAddr, completed, closed, hsErr, firstErr, hsRet,
                 retx, sentIdx, out, delivered, addrSeq>>

\* A handshake record goes to the fragment buffer; the window is committed
\* and every message now complete is pushed to the handshake cache.
RecvHandshake(ctx) ==
  /\ Running(ctx)
  /\ LET r == Cur(ctx).rec
         store == IF r.msg >= fbNext
                  THEN fbStore \cup {[msg |-> r.msg, epoch |-> r.epoch]}
                  ELSE fbStore
         run == PopRun(store, fbNext)
     IN /\ r.type = "handshake"
        /\ Accepted(r)
        /\ replay' = [replay EXCEPT ![r.epoch] = ReplayCommit(@, r.seq)]
        /\ cache' = cache \o run
        /\ fbNext' = fbNext + Len(run)
        /\ fbStore' = store \ {run[i] : i \in DOMAIN run}
  /\ Advance(ctx, TRUE)
  /\ UNCHANGED <<remoteEpoch, localEpoch, keys, queue, decrypted, rAddr,
                 completed, closed, hsErr, firstErr, hsRet, retx, sentIdx, out,
                 delivered, addrSeq>>

\* A ChangeCipherSpec whose epoch+1 equals remoteEpoch+1 (both uint16)
\* advances the remote epoch and is committed; any other one is ignored
\* without committing.
RecvChangeCipherSpec(ctx) ==
  /\ Running(ctx)
  /\ LET r == Cur(ctx).rec IN
       /\ r.type = "ccs"
       /\ Accepted(r)
       /\ keys
       /\ IF NextEpoch = (r.epoch + 1) % EpochMod
          THEN /\ remoteEpoch' = (r.epoch + 1) % EpochMod
               /\ replay' = [replay EXCEPT ![r.epoch] = ReplayCommit(@, r.seq)]
          ELSE UNCHANGED <<remoteEpoch, replay>>
  /\ Advance(ctx, FALSE)
  /\ UNCHANGED <<localEpoch, keys, fbNext, fbStore, cache, queue, decrypted,
                 rAddr, completed, closed, hsErr, firstErr, hsRet, retx,
                 sentIdx, out, delivered, addrSeq>>

\* Application data above epoch 0 is committed and sent on c.decrypted,
\* blocking until there is room unless the connection or the context is
\* done; a connection ID record that is the newest so far moves rAddr.
RecvAppData(ctx) ==
  /\ Running(ctx)
  /\ LET p == Cur(ctx)
         r == p.rec
         latest == ReplayIsLatest(replay[r.epoch], r.seq)
         moves == r.cid /\ latest /\ p.addr # rAddr
     IN /\ r.type = "appdata"
        /\ Accepted(r)
        /\ Protected(r)
        /\ replay' = [replay EXCEPT ![r.epoch] = ReplayCommit(@, r.seq)]
        /\ \/ /\ Len(decrypted) = 0
              /\ decrypted' = <<r.msg>>
              /\ delivered' = Append(delivered, r.msg)
           \/ /\ closed \/ failed
              /\ UNCHANGED <<decrypted, delivered>>
        /\ rAddr' = IF moves THEN p.addr ELSE rAddr
        /\ addrSeq' = IF moves THEN r.seq ELSE addrSeq
  /\ Advance(ctx, FALSE)
  /\ UNCHANGED <<remoteEpoch, localEpoch, keys, fbNext, fbStore, cache, queue,
                 completed, closed, hsErr, firstErr, hsRet, retx, sentIdx,
                 out>>

\* Application data at epoch 0: fatal unexpected_message and an error.
RecvAppDataEpochZero(ctx) ==
  /\ Running(ctx)
  /\ LET r == Cur(ctx).rec IN
       /\ r.type = "appdata"
       /\ Accepted(r)
       /\ ~Protected(r)
  /\ NotifyAndFail(ctx, "unexpected_message", "error")
  /\ UNCHANGED <<remoteEpoch, localEpoch, keys, replay, fbNext, fbStore, cache,
                 queue, decrypted, rAddr, completed, retx, sentIdx, delivered,
                 addrSeq, hsRet>>

\* close_notify: committed, answered with a close_notify, and returned as
\* an alert error that ends the read loop.
RecvCloseNotify(ctx) ==
  /\ Running(ctx)
  /\ LET r == Cur(ctx).rec IN
       /\ r.type = "close_notify"
       /\ Accepted(r)
       /\ replay' = [replay EXCEPT ![r.epoch] = ReplayCommit(@, r.seq)]
  /\ NotifyAndFail(ctx, "close_notify", "close")
  /\ UNCHANGED <<remoteEpoch, localEpoch, keys, fbNext, fbStore, cache, queue,
                 decrypted, rAddr, completed, retx, sentIdx, delivered,
                 addrSeq, hsRet>>

\* Any other alert: committed and returned as an alertError of its level;
\* only close_notify is answered.
RecvAlert(ctx) ==
  /\ Running(ctx)
  /\ LET r == Cur(ctx).rec IN
       /\ r.type \in {"alert_fatal", "alert_warning"}
       /\ Accepted(r)
       /\ replay' = [replay EXCEPT ![r.epoch] = ReplayCommit(@, r.seq)]
       /\ RecordError(ctx, IF r.type = "alert_fatal" THEN "fatal" ELSE "warning")
  /\ UNCHANGED <<remoteEpoch, localEpoch, keys, fbNext, fbStore, cache, queue,
                 decrypted, rAddr, completed, retx, sentIdx, out, delivered,
                 addrSeq, hsRet>>

\* A record whose content does not unmarshal: fatal decode_error.
RecvUndecodable(ctx) ==
  /\ Running(ctx)
  /\ LET r == Cur(ctx).rec IN
       /\ r.type = "garbage"
       /\ Accepted(r)
  /\ NotifyAndFail(ctx, "decode_error", "error")
  /\ UNCHANGED <<remoteEpoch, localEpoch, keys, replay, fbNext, fbStore, cache,
                 queue, decrypted, rAddr, completed, retx, sentIdx, delivered,
                 addrSeq, hsRet>>

HandleIncomingPacket(ctx) ==
  \/ DropRecord(ctx)
  \/ QueueRecord(ctx)
  \/ RecvHandshake(ctx)
  \/ RecvChangeCipherSpec(ctx)
  \/ RecvAppData(ctx)
  \/ RecvAppDataEpochZero(ctx)
  \/ RecvCloseNotify(ctx)
  \/ RecvAlert(ctx)
  \/ RecvUndecodable(ctx)


-----------------------------------------------------------------------------
(* The read loop (handshake(), second goroutine) and readAndBuffer.         *)

\* readAndBuffer reads one datagram and unpacks its records.
ReadDatagram(d) ==
  /\ rd.pc = "idle"
  /\ ~closed /\ ~failed
  /\ rd' = [pc |-> "records", hs |-> FALSE, note |-> NoNote,
            buf |-> [i \in DOMAIN d.recs |-> [rec |-> d.recs[i], addr |-> d.addr]]]
  /\ UNCHANGED <<remoteEpoch, localEpoch, keys, replay, fbNext, fbStore, cache,
                 queue, decrypted, rAddr, completed, closed, hsErr, firstErr,
                 hsRet, fsm, retx, sentIdx, out, delivered, addrSeq>>

\* A datagram the peer sent, possibly again, possibly out of order.
Deliver(i) == i \in 1..sentIdx /\ ReadDatagram(Script[i].dgram)

\* A datagram from an off-path sender.
Inject(d) == ReadDatagram(d)

\* The rest of the reader's notify: the completion flag is loaded, the alert
\* record written at the epoch loaded before, and readAndBuffer returns the
\* record's error to the read loop.
NotifyWrite ==
  /\ rd.pc = "notify"
  /\ out' = out \cup {[epoch |-> rd.note.epoch, enc |-> completed,
                       level |-> rd.note.level]}
  /\ RecordError("rd", rd.note.kind)
  /\ UNCHANGED <<remoteEpoch, localEpoch, keys, replay, fbNext, fbStore, cache,
                 queue, decrypted, rAddr, completed, hsRet, retx, sentIdx,
                 delivered, addrSeq>>

\* All records handled: if one was a handshake record, signal the FSM on
\* handshakeRecv and wait for it to finish parsing.
EndOfDatagram ==
  /\ rd.pc = "records" /\ rd.buf = <<>>
  /\ rd' = [rd EXCEPT !.pc = IF rd.hs THEN "signal" ELSE "idle"]
  /\ UNCHANGED <<remoteEpoch, localEpoch, keys, replay, fbNext, fbStore, cache,
                 queue, decrypted, rAddr, completed, closed, hsErr, firstErr,
                 hsRet, fsm, retx, sentIdx, out, delivered, addrSeq>>

\* After the handshake, an error of readAndBuffer is passed to Read through
\* c.decrypted and the loop goes on.
ReportError ==
  /\ rd.pc = "report"
  /\ \/ Len(decrypted) = 0 /\ decrypted' = <<"ERR">>
     \/ (closed \/ failed) /\ UNCHANGED decrypted
  /\ rd' = [rd EXCEPT !.pc = "idle"]
  /\ UNCHANGED <<remoteEpoch, localEpoch, keys, replay, fbNext, fbStore, cache,
                 queue, rAddr, completed, closed, hsErr, firstErr, hsRet, fsm,
                 retx, sentIdx, out, delivered, addrSeq>>

\* The signal is abandoned when the FSM goroutine has ended (c.fsm.Done()).
SignalAbandoned ==
  /\ rd.pc = "signal" /\ fsm.pc = "errored"
  /\ rd' = [rd EXCEPT !.pc = "idle"]
  /\ UNCHANGED <<remoteEpoch, localEpoch, keys, replay, fbNext, fbStore, cache,
                 queue, decrypted, rAddr, completed, closed, hsErr, firstErr,
                 hsRet, fsm, retx, sentIdx, out, delivered, addrSeq>>

\* Mutant: only handshake()'s cancelRead ends the read, not close().
ReaderCancelledOnFail ==
  /\ rd.pc = "idle" /\ failed
  /\ rd' = [rd EXCEPT !.pc = "exit"]
  /\ closed' = TRUE
  /\ UNCHANGED <<remoteEpoch, localEpoch, keys, replay, fbNext, fbStore, cache,
                 queue, decrypted, rAddr, completed, hsErr, firstErr, hsRet,
                 fsm, retx, sentIdx, out, delivered, addrSeq>>

\* ctxRead is cancelled (by handshake() after a failure, or by close()): the
\* pending read returns context.Canceled, the loop closes the connection
\* unless it is closed already, and exits.
ReaderCancelled ==
  /\ rd.pc = "idle" /\ (failed \/ closed)
  /\ rd' = [rd EXCEPT !.pc = "exit"]
  /\ closed' = TRUE
  /\ UNCHANGED <<remoteEpoch, localEpoch, keys, replay, fbNext, fbStore, cache,
                 queue, decrypted, rAddr, completed, hsErr, firstErr, hsRet,
                 fsm, retx, sentIdx, out, delivered, addrSeq>>

\* Close, on the connection Client/Server returned (the caller has no *Conn
\* before): close(true) cancels the handshaker and the handshake reader,
\* sends close_notify since the handshake completed, and marks the
\* connection closed; Close then waits on handshakeLoopsFinished.
Close ==
  /\ UserCloses /\ hsOk /\ ~closed
  /\ Notify("close_notify")
  /\ closed' = TRUE
  /\ UNCHANGED <<remoteEpoch, localEpoch, keys, replay, fbNext, fbStore, cache,
                 queue, decrypted, rAddr, completed, hsErr, firstErr, hsRet,
                 rd, fsm, retx, sentIdx, delivered, addrSeq>>

\* Read: once the handshake completed, take one item of c.decrypted.
Read ==
  /\ completed
  /\ decrypted # <<>>
  /\ decrypted' = Tail(decrypted)
  /\ UNCHANGED <<remoteEpoch, localEpoch, keys, replay, fbNext, fbStore, cache,
                 queue, rAddr, completed, closed, hsErr, firstErr, hsRet, rd,
                 fsm, retx, sentIdx, out, delivered, addrSeq>>

-----------------------------------------------------------------------------
(* The handshake FSM as the connection sees it (spec 4.7, 4.8).  It parses *)
(* only when the reader signals, while the reader waits for it.            *)

Release == rd' = [rd EXCEPT !.pc = "idle"]

\* The key exchange messages are cached: install the cipher suite and
\* replay the queued records (handleQueuedPackets) before answering.
FsmInstallKeys ==
  /\ rd.pc = "signal" /\ fsm.pc = "wait_kx"
  /\ InstallMsgs \subseteq CachedMsgs
  /\ keys' = TRUE
  /\ fsm' = [pc |-> "replay", buf |-> queue]
  /\ queue' = <<>>
  /\ UNCHANGED <<remoteEpoch, localEpoch, replay, fbNext, fbStore, cache,
                 decrypted, rAddr, completed, closed, hsErr, firstErr, hsRet,
                 rd, retx, sentIdx, out, delivered, addrSeq>>

\* The queue is replayed: the parse returns and the reader is released.  A
\* client goes on to its flight 5; a server to flight 6 if the Finished is
\* already cached.
FsmReplayDone ==
  /\ fsm.pc = "replay" /\ fsm.buf = <<>>
  /\ fsm' = [fsm EXCEPT !.pc = IF IsClient \/ FinishedMsg \in CachedMsgs
                               THEN "prepare" ELSE "wait_fin"]
  /\ Release
  /\ UNCHANGED <<remoteEpoch, localEpoch, keys, replay, fbNext, fbStore, cache,
                 queue, decrypted, rAddr, completed, closed, hsErr, firstErr,
                 hsRet, retx, sentIdx, out, delivered, addrSeq>>

\* The peer's Finished is cached.
FsmRecvFinished ==
  /\ rd.pc = "signal" /\ fsm.pc = "wait_fin"
  /\ FinishedMsg \in CachedMsgs
  /\ fsm' = [fsm EXCEPT !.pc = IF IsClient THEN "finishing" ELSE "prepare"]
  /\ Release
  /\ UNCHANGED <<remoteEpoch, localEpoch, keys, replay, fbNext, fbStore, cache,
                 queue, decrypted, rAddr, completed, closed, hsErr, firstErr,
                 hsRet, retx, sentIdx, out, delivered, addrSeq>>

\* Nothing new for the current flight (or, once finished, a retransmission
\* by the peer that the FSM answers by resending its last flight).
FsmKeepWaiting ==
  /\ rd.pc = "signal"
  /\ \/ fsm.pc = "wait_kx" /\ ~(InstallMsgs \subseteq CachedMsgs)
     \/ fsm.pc = "wait_fin" /\ FinishedMsg \notin CachedMsgs
     \/ fsm.pc = "finished"
  /\ Release
  /\ UNCHANGED <<remoteEpoch, localEpoch, keys, replay, fbNext, fbStore, cache,
                 queue, decrypted, rAddr, completed, closed, hsErr, firstErr,
                 hsRet, fsm, retx, sentIdx, out, delivered, addrSeq>>

\* The flight carrying our ChangeCipherSpec and Finished is prepared and
\* sent: the local epoch becomes 1.  The server's flight 6 ends its
\* handshake.
FsmPrepare ==
  /\ fsm.pc = "prepare"
  /\ localEpoch' = 1
  /\ retx' = 0
  /\ fsm' = [fsm EXCEPT !.pc = IF IsClient THEN "wait_fin" ELSE "finished"]
  /\ completed' = (completed \/ ~IsClient)
  /\ UNCHANGED <<remoteEpoch, keys, replay, fbNext, fbStore, cache, queue,
                 decrypted, rAddr, closed, hsErr, firstErr, hsRet, rd, sentIdx,
                 out, delivered, addrSeq>>

\* onFlightState(handshakeFinished): the client's handshake completes.
FsmFinish ==
  /\ fsm.pc = "finishing"
  /\ completed' = TRUE
  /\ fsm' = [fsm EXCEPT !.pc = "finished"]
  /\ UNCHANGED <<remoteEpoch, localEpoch, keys, replay, fbNext, fbStore, cache,
                 queue, decrypted, rAddr, closed, hsErr, firstErr, hsRet, rd,
                 retx, sentIdx, out, delivered, addrSeq>>

\* The retransmission timer expires while waiting: the last flight is
\* resent (which is what lets the peer resend its own).
FsmRetransmit ==
  /\ fsm.pc \in {"wait_kx", "wait_fin"}
  /\ retx < MaxRetransmit
  /\ retx' = retx + 1
  /\ UNCHANGED <<remoteEpoch, localEpoch, keys, replay, fbNext, fbStore, cache,
                 queue, decrypted, rAddr, completed, closed, hsErr, firstErr,
                 hsRet, rd, fsm, sentIdx, out, delivered, addrSeq>>

\* The FSM's context (ctxHs) is cancelled: by handshake() when it returns an
\* error, by the read loop's deferred cancel() when it exits, by close().
HsCancelled == failed \/ closed \/ rd.pc = "exit"

\* A cancelled FSM stops at its next select on ctx.Done() (wait, finish);
\* Run returns context.Canceled, which is not offered on firstErr.
FsmStop ==
  /\ HsCancelled
  /\ fsm.pc \in {"wait_kx", "wait_fin", "finished"}
  /\ fsm' = [fsm EXCEPT !.pc = "errored"]
  /\ UNCHANGED <<remoteEpoch, localEpoch, keys, replay, fbNext, fbStore, cache,
                 queue, decrypted, rAddr, completed, closed, hsErr, firstErr,
                 hsRet, rd, retx, sentIdx, out, delivered, addrSeq>>

-----------------------------------------------------------------------------
(* handshake()'s final select, in the goroutine of Client/Server: any of   *)
(* its cases that is ready may be taken.                                    *)

\* The select has not been left yet.
Selecting == hsErr = "none" /\ hsRet = "none"

\* case err := <-firstErr, or case <-ctx.Done() with err = ctx.Err():
\* cancelRead() and cancel() stop both loops.
HandshakeFail(e) ==
  /\ Selecting
  /\ \/ e = "first" /\ firstErr
     \/ e \in CtxErrs
  /\ hsErr' = e
  /\ UNCHANGED <<remoteEpoch, localEpoch, keys, replay, fbNext, fbStore, cache,
                 queue, decrypted, rAddr, completed, closed, firstErr, hsRet,
                 rd, fsm, retx, sentIdx, out, delivered, addrSeq>>

\* case <-done: onFlightState has marked the handshake complete; nil.
HandshakeDone ==
  /\ Selecting
  /\ completed
  /\ hsRet' = "nil"
  /\ UNCHANGED <<remoteEpoch, localEpoch, keys, replay, fbNext, fbStore, cache,
                 queue, decrypted, rAddr, completed, closed, hsErr, firstErr,
                 rd, fsm, retx, sentIdx, out, delivered, addrSeq>>

\* translateHandshakeCtxError: context.Canceled once the handshake has
\* completed is no error; anything else is a HandshakeError.
TranslateHandshakeCtxError(e) ==
  IF e = "canceled" /\ completed THEN "nil" ELSE "err"

\* handshakeLoopsFinished.Wait(): once both loops have returned, the
\* error taken by the select is translated and returned.
HandshakeReturn ==
  /\ failed /\ hsRet = "none"
  /\ rd.pc = "exit" /\ fsm.pc = "errored"
  /\ hsRet' = TranslateHandshakeCtxError(hsErr)
  /\ UNCHANGED <<remoteEpoch, localEpoch, keys, replay, fbNext, fbStore, cache,
                 queue, decrypted, rAddr, completed, closed, hsErr, firstErr,
                 rd, fsm, retx, sentIdx, out, delivered, addrSeq>>

-----------------------------------------------------------------------------
(* The peer sends its next datagram once its gate holds.                    *)

Sendable(g) ==
  /\ localEpoch >= g.epoch
  /\ g.done => completed
  /\ retx >= g.retx

PeerSend ==
  /\ sentIdx < Len(Script)
  /\ Sendable(Script[sentIdx + 1].gate)
  /\ sentIdx' = sentIdx + 1
  /\ UNCHANGED <<remoteEpoch, localEpoch, keys, replay, fbNext, fbStore, cache,
                 queue, decrypted, rAddr, completed, closed, hsErr, firstErr,
                 hsRet, rd, fsm, retx, out, delivered, addrSeq>>

-----------------------------------------------------------------------------

Init ==
  /\ remoteEpoch = 0
  /\ localEpoch = 0
  /\ keys = FALSE
  /\ replay = [e \in Epochs |-> ReplayInit]
  /\ fbNext = FirstMsg
  /\ fbStore = {}
  /\ cache = <<>>
  /\ queue = <<>>
  /\ decrypted = <<>>
  /\ rAddr = InitAddr
  /\ completed = FALSE
  /\ closed = FALSE
  /\ hsErr = "none"
  /\ firstErr = FALSE
  /\ hsRet = "none"
  /\ rd = [pc |-> "idle", buf |-> <<>>, hs |-> FALSE, note |-> NoNote]
  /\ fsm = [pc |-> "wait_kx", buf |-> <<>>]
  /\ retx = 0
  /\ sentIdx = 0
  /\ out = {}
  /\ delivered = <<>>
  /\ addrSeq = -1

ReaderStep ==
  \/ HandleIncomingPacket("rd")
  \/ NotifyWrite
  \/ EndOfDatagram
  \/ ReportError
  \/ SignalAbandoned
  \/ ReaderCancelled

FsmStep ==
  \/ HandleIncomingPacket("fsm")
  \/ FsmInstallKeys
  \/ FsmReplayDone
  \/ FsmRecvFinished
  \/ FsmKeepWaiting
  \/ FsmPrepare
  \/ FsmFinish
  \/ FsmStop

MainStep ==
  \/ \E e \in {"first"} \cup CtxErrs : HandshakeFail(e)
  \/ HandshakeDone
  \/ HandshakeReturn

Next ==
  \/ \E i \in 1..Len(Script) : Deliver(i)
  \/ \E d \in Forged : Inject(d)
  \/ ReaderStep
  \/ FsmStep
  \/ FsmRetransmit
  \/ MainStep
  \/ PeerSend
  \/ Read
  \/ Close

Spec == Init /\ [][Next]_vars

\* The goroutines run when they can (handshake()'s own select included, and
\* the connect context, when it has a deadline, expires), timers fire and
\* the peer's code sends;
\* the network delivers the datagrams of FairDgrams (the last retransmission
\* of a flight) if they are sent.  Nothing is assumed of the off-path sender,
\* of the user calling Read, or of the other datagrams.
Fairness ==
  /\ WF_vars(ReaderStep)
  /\ WF_vars(FsmStep)
  /\ WF_vars(MainStep)
  /\ WF_vars(FsmRetransmit)
  /\ WF_vars(PeerSend)
  /\ \A i \in FairDgrams : SF_vars(Deliver(i))

FairSpec == Spec /\ Fairness

-----------------------------------------------------------------------------

TypeOK ==
  /\ remoteEpoch \in Epochs
  /\ localEpoch \in 0..1
  /\ keys \in BOOLEAN
  /\ replay \in [Epochs -> [latest: 0..MaxSeq, seen: SUBSET (0..MaxSeq)]]
  /\ fbNext \in Nat
  /\ cache \in Seq([msg: Nat, epoch: Epochs])
  /\ queue \in Seq(Pkt) /\ Len(queue) <= QueueCap
  /\ Len(decrypted) <= 1
  /\ rAddr \in Addrs
  /\ {completed, closed, firstErr} \subseteq BOOLEAN
  /\ hsErr \in {"none", "first", "deadline", "canceled"}
  /\ hsRet \in {"none", "nil", "err"}
  /\ rd.pc \in RdPcs /\ rd.buf \in Seq(Pkt)
  /\ rd.note \in {NoNote} \cup
       [epoch: 0..1, level: {"warning", "fatal"},
        kind: {"close", "error"}]
  /\ fsm.pc \in FsmPcs /\ fsm.buf \in Seq(Pkt)
  /\ retx \in 0..MaxRetransmit
  /\ sentIdx \in 0..Len(Script)
  /\ addrSeq \in -1..MaxSeq
  /\ out \subseteq [epoch: 0..1, enc: BOOLEAN,
                   level: {"warning", "fatal"}]

\* Each application data record of the peer reaches c.decrypted at most
\* once, however often the network duplicates, delays and reorders it
\* (replay detector with deferred commit, handleIncomingPacket).  Data that
\* overtakes the peer's ChangeCipherSpec is queued, but the queue is replayed
\* at key install, before the peer sends data, so no run replays data.
AppDataDeliveredOnce == IsInjective(delivered)

\* The peer address is only ever moved by a connection ID record newer than
\* the one that moved it last: a delayed record from an old address never
\* takes the connection back there (RFC 9146 section 6, spec 9).
AddressMovesForward ==
  [][rAddr' # rAddr => addrSeq' > addrSeq]_<<rAddr, addrSeq>>

\* The remote epoch never goes back (spec 2: remote_epoch is monotonically
\* non-decreasing): ChangeCipherSpec records, which GCM.Decrypt lets through
\* unopened, must not be able to take handleIncomingPacket's uint16 epoch
\* arithmetic around.
RemoteEpochMonotonic == [][remoteEpoch' >= remoteEpoch]_remoteEpoch

\* An alert leaves encrypted only at an epoch above 0.  The peer opens only
\* records of epoch 1 and above, and takes an encrypted epoch-0 record for
\* plaintext it cannot parse.  notify picks the record's epoch from
\* getLocalEpoch and its protection from isHandshakeCompletedSuccessfully
\* (spec 4: alerts are encrypted once the handshake has completed); the two
\* must agree whatever the FSM does between the loads.
NoEncryptedEpochZeroAlert == \A a \in out : a.enc => a.epoch > 0

\* The read loop ended because a close_notify was received (answered with
\* close_notify, the only warning-level alert the connection sends).
PeerClosed == \E a \in out : a.level = "warning"

\* handshake() returns nil only for a connection that can still read:
\* when Client/Server report an established connection, the read loop is
\* still running unless the peer's close_notify ended it (spec 7:
\* handshake-phase errors are returned from connect/listen).  Both the
\* select between firstErr and done, and translateHandshakeCtxError's
\* "canceled after completion is no error", are at stake.
HandshakeSuccessLive ==
  [][hsRet = "none" /\ hsRet' = "nil" => rd'.pc # "exit" \/ PeerClosed']_vars

\* Once the handshake has completed, the read loop ends only on close_notify,
\* a fatal alert or a cancelled read (spec 7: warning alerts are logged and
\* reading continues; fatal alerts close the connection): a warning alert,
\* an undecodable record or epoch-0 application data, whoever sent it, is
\* handed to Read and the loop goes on.
ReadLoopSurvivesNonFatal ==
  [][/\ completed /\ rd.pc # "exit" /\ rd'.pc = "exit"
     => \/ failed \/ closed
        \/ rd.buf # <<>> /\ Cur("rd").rec.type \in {"close_notify", "alert_fatal"}
    ]_vars

\* Close returns: it waits on handshakeLoopsFinished, so once the connection
\* is closed (by Close, or by the read loop on close_notify) both handshake
\* goroutines end, wherever they were: the reader blocked reading, on
\* c.decrypted or on the handshake signal, the FSM waiting or finished.
LoopsEndOnClose == closed ~> (rd.pc = "exit" /\ fsm.pc = "errored")

\* The application data ids of the peer's sent datagrams, and of every
\* datagram anyone may send.
DataIn(ds) ==
  UNION {{d.recs[j].msg : j \in {k \in DOMAIN d.recs :
                                  d.recs[k].type = "appdata"}} : d \in ds}
AllData == DataIn({Script[i].dgram : i \in DOMAIN Script} \cup Forged)
\* The first script datagram carrying each id (past the end if none does).
FirstSent ==
  [m \in AllData |->
     LET Is == {i \in DOMAIN Script : m \in DataIn({Script[i].dgram})}
     IN IF Is = {} THEN Len(Script) + 1
        ELSE CHOOSE i \in Is : \A k \in Is : i <= k]
PeerData == {m \in AllData : FirstSent[m] <= sentIdx}

Chan == INSTANCE AppDataChannel WITH Ids <- AllData, sent <- PeerData,
                                     got <- delivered

\* The receive path implements the abstract channel: what handleIncomingPacket
\* pushes into c.decrypted was sent by the peer (not injected, not failing
\* its tag) and is pushed once, whatever the network and off-path senders
\* do (epoch and replay checks, CID check, GCM.Decrypt, deferred commit).
ChannelRefined == Chan!Spec

\* The handshake completes when the network eventually delivers the peer's
\* last retransmission (spec 4.8).
HandshakeCompletes == <>completed

=============================================================================
