# TLA+ models of the DTLS 1.2 connection (`src/conn.go`)

This directory holds TLA+ models of the connection core of this DTLS library,
the TLC configurations that check them, and this account of what they show.

## The system

`Conn` (`src/conn.go`) is one DTLS association over a packet socket. Three
actors share it:

* **The reader goroutine.** This is the second goroutine of `handshake()`. It
  loops on `readAndBuffer` for as long as the connection lives. For each
  datagram it runs `handleIncomingPacket` on every record, which does, in order:
  1. the epoch check;
  2. the replay check, with the commit (`markPacketAsValid`) deferred until
     the record has been processed;
  3. the cipher-installed check, the connection ID (CID) requirement and
     decryption;
  4. the fragment buffer and handshake cache;
  5. dispatch by content type.

  Next-epoch records, and protected records that arrive before the keys, go to
  `encryptedPackets` (at most 100). When any record of a datagram was a
  handshake record, the reader signals the FSM on `handshakeRecv` and waits
  until the FSM has parsed. Application data goes to `c.decrypted`, which has
  capacity 1 and blocks the reader until `Read` takes it. `Read` refuses to
  run before the handshake has completed.
* **The handshake FSM goroutine** (`fsm.Run`). Its code is not under `src/`.
  On each signal it parses the handshake cache. When it installs the keys it
  runs `handleQueuedPackets`, which replays the queue through
  `handleIncomingPacket` with `enqueue = false`. It raises the local epoch
  when it prepares the flight that carries its ChangeCipherSpec (CCS) and
  Finished. It calls `onFlightState(handshakeFinished)`, which sets
  `handshakeCompletedSuccessfully`.
* **The user.** The user calls `Client`/`Server` (and so `handshake`), then
  `Read`, `Write` and `Close`. The write path (`writePackets`, `processPacket`,
  `processHandshakePacket`, `notify`) assigns sequence numbers per epoch and
  may wrap records in CID records.

Errors leave the reader in one of two ways:

* Before completion, an error of `readAndBuffer` ends the reader loop and
  fails the handshake (`firstErr`).
* After completion, the error is passed to `Read` through `c.decrypted`.

In both cases, a fatal alert or a close_notify closes the connection.
`handshake()` itself ends in a select over three events: an error on
`firstErr`, the connect context expiring, or `done` (closed by
`onFlightState`).

Below the connection sit two pure layers:

* **Packetizing.** `writePackets` cuts each handshake message into fragments
  (`fragmentHandshake`, at the MTU). It turns each fragment or other content
  into a record, which is plain, or CID-wrapped and padded, and possibly
  sealed with AES-GCM. It then coalesces the records into datagrams
  (`compactRawPackets`).
* **Message codecs.** `MessageServerHello` and `MessageFinished` marshal
  into handshake bodies and unmarshal from them.

## Modules

| module | models | source |
|---|---|---|
| `ConnRead` | the reader loop, `handleIncomingPacket`, the early-record queue and its replay, `Read`, `notify`'s choice of epoch and protection, how the FSM drives the connection, the connect timeout | `conn.go` 96–156, 338–370, 685–768, 770–959, 965–992, 1003–1113 |
| `Connect` | `Dial`, `DialWithContext` (the socket it opens), `Client`/`Server` and their `WithContext` forms, `createConn`'s checks, `handshakeConn`; composed with `ConnRead` for the handshake | `conn.go` 96–103, 158–337 |
| `MC_Connect` | instances of `Connect` over `MC_ConnRead`'s scripts | — |
| `MC_ConnRead` | the peer's datagram scripts for a server and a client, and the off-path datagrams | — |
| `ConnWrite` | `writePackets` under `c.lock`: `processPacket` and `processHandshakePacket` (sequence numbers, overflow, CID header), `Write`, `notify`, `close`, and a client FSM's flight sends | `conn.go` 372–411, 429–635, 965–992, 1125–1154 |
| `MC_ConnWrite` | two writers and one or two calls of `Close` (each set symmetric), small sequence limit | — |
| `AppDataChannel` | the abstract promise of the receive path: a set of ids sent and a sequence delivered, each sent id at most once | — |
| `Packetize` | `fragmentHandshake`, record lengths of `processHandshakePacket`/`processPacket` (CID header, padding, GCM nonce and tag), `compactRawPackets`, `writePackets` | `conn.go` 429–683, `part_001` 56–83 |
| `MC_Packetize` | the body and content lengths | — |
| `HandshakeCodec` | `MessageServerHello.Marshal`/`Unmarshal`, `MessageFinished.Marshal`/`Unmarshal` | `part_000` 14–123, `message_finished.go` |
| `MC_HandshakeCodec` | instance for TLC | — |

### ConnRead

**State.** The variables are the fields of `Conn` and `State` that the receive
path touches:

* `remoteEpoch` and `localEpoch`;
* `keys`, meaning the cipher suite is initialised;
* `replay`, one window per epoch, as `latest` plus the set of accepted
  sequence numbers;
* `fbNext` and `fbStore` (the fragment buffer);
* `cache`, the handshake cache pushed by the reader;
* `queue` (`encryptedPackets`), `decrypted`, `rAddr`, `completed`, `closed`;
* `hsErr`, the error case the final select took (`"first"` for `firstErr`,
  or `"deadline"`/`"canceled"` for `ctx.Err()`), and `hsRet`, what
  `handshake()` returned (`"nil"` or `"err"`). `failed` and `hsOk` are
  defined from them;
* `firstErr`, meaning the `firstErr` channel holds an error;
* `rd` and `fsm`, the program counters of the two goroutines, together with
  the records each still has to handle.

Three history variables record what the properties need:

* `out`, the alerts written, each with its epoch, its protection and its
  level (the only warning-level alert sent is close_notify);
* `delivered`, the application data ids pushed to `c.decrypted`;
* `addrSeq`, the sequence number of the record that last moved `rAddr`.

**Data.**

* A record is abstracted to its type, epoch, sequence number, whether it is a
  CID record, whether its AEAD tag verifies, and a message number or data id.
* A handshake record carries a whole message, so no record is fragmented.
* Cryptography is out of scope: `auth` stands for "decrypts and the CID
  matches". `Authentic` adds what `GCM.Decrypt` does with a ChangeCipherSpec
  record that is not CID-wrapped: it returns it unopened, so it is accepted
  whatever its tag.
* Epochs are uint16, kept modulo `EpochMod`. `NextEpoch` is the code's
  `remoteEpoch+1` and wraps as it does.

**Actions.** Each outcome of `handleIncomingPacket` is its own action, and
each takes a context parameter: `"rd"` is the reader with `enqueue = true`, and
`"fsm"` is `handleQueuedPackets` with `enqueue = false`. The outcomes are:

* `DropRecord`: the silent early returns.
* `QueueRecord`.
* `RecvHandshake`: commit, then push/pop into the cache.
* `RecvChangeCipherSpec`: advance the remote epoch only when the CCS is of the
  current epoch.
* `RecvAppData`: commit, the blocking send (or the escape when closed or
  cancelled), and the address update when the record is the newest CID record.
* `RecvAlert`: a fatal or a warning alert from the peer, committed and
  returned as an `alertError` of its level, with no answer.
* `RecvAppDataEpochZero`, `RecvCloseNotify`, `RecvUndecodable`: these
  answer with an alert and end in `RecordError`, which models the read-loop
  error handling of `handshake()`. `NotifyAndFail` does both. `notify` loads
  the local epoch and the completion flag as two separate atomics. In the
  reader, therefore, the epoch is loaded in the receive step, and
  `NotifyWrite` is a later step: it loads the completion flag, writes the
  alert and runs `RecordError`. The reader's `pc` is `"notify"` in between,
  and the FSM goroutine may run then. In the FSM's replay of the queue both
  happen in one step: the FSM is the only writer of the two values.

The reader's other steps are:

* `ReadDatagram`, used by both `Deliver` (a script datagram the peer has sent)
  and `Inject` (a forged one);
* `EndOfDatagram`, which sends the handshake signal;
* `ReportError`;
* `SignalAbandoned`, which handles `fsm.Done()`;
* `ReaderCancelled`: `ctxRead` is cancelled, by `handshake()` after a
  failure or by `close()`. The read returns `context.Canceled`, and the loop
  closes the connection unless it is already closed, then exits.

`Close` is the application's `Close()` (lines 404–409). The caller gets its
`*Conn` only when `Client`/`Server` return nil, so `Close` is enabled only
after `handshake()` returned nil (`UserCloses` switches it on). It cancels
both loops, sends close_notify and marks the connection closed.

The FSM side comes from the spec, because the FSM is not under `src/`:

* `FsmInstallKeys` and `FsmReplayDone` (key install and queue replay);
* `FsmRecvFinished`;
* `FsmKeepWaiting`, which also covers the retransmission answer once finished;
* `FsmPrepare`, which sets the local epoch to 1;
* `FsmFinish` (`onFlightState`);
* `FsmRetransmit` (the timer).

* `FsmStop`: the FSM leaves its wait when its context is cancelled. The read
  loop's deferred `cancel()` and `handshake()`'s own cancels do this
  (`HsCancelled`).

`RecordError` follows the read loop's error handling (lines 1040–1097):

* On close_notify or a fatal alert (`EndsReadLoop`, the
  `IsFatalOrCloseNotify` test) the reader offers the error to `firstErr`,
  closes the connection and exits, before or after completion.
* A warning alert is passed to `Read` once the handshake has completed, and
  dropped before. The loop goes on either way.
* Any other error is passed to `Read` after completion. Before completion
  it is offered to `firstErr` and the reader exits without closing.

The final select of `handshake()` (lines 1099–1123) is three actions:

* `HandshakeFail(e)` takes `firstErr`, or `ctx.Done()` with `ctx.Err()` one of
  `CtxErrs` (the connect context's deadline expiring, or the caller
  cancelling it). It cancels both loops.
* `HandshakeReturn` is `handshakeLoopsFinished.Wait()` and the return. It
  waits for the reader to exit and the FSM to stop, then returns
  `TranslateHandshakeCtxError`. That turns `context.Canceled` into nil once
  the handshake has completed, and anything else into a `HandshakeError`.
* `HandshakeDone` takes `done` and returns nil.

Both are enabled at once when an error waits and the FSM has finished; Go's
select picks either.

**The peer.** The peer is a script of datagrams sent in order. Each datagram
has a gate: the local epoch, completion, or a retransmission that must have
happened before the peer's own code would send it. `PeerSend` sends the next
datagram. The network can lose, duplicate and reorder: `Deliver(i)` may read
any sent datagram, at any time, any number of times.

The sequence numbers in the scripts are the ones the peer's `conn.go` assigns:

* one counter per epoch;
* every CID-wrapped handshake record carries the stale sequence number 0
  (`processHandshakePacket`, line 597).

### ConnWrite

**State.** The variables are:

* `seqNum`, which is `localSequenceNumber`;
* `lock`, the holder of `c.lock`;
* `pend`, the records the holder is about to write;
* a program counter, plus the return point, for each caller: the FSM, the
  reader, each writer and each call of `Close` (the set `UserClosers`);
* `wEpoch`, the epoch a Write read (line 391), which it reads before taking
  the lock;
* `localEpoch`, `completed` and `closed` (`c.closed`);
* the close state: `byUser` (`connectionClosedByUser`), the value each
  `Close` returned (`closeRet`), and the number of `nextConn.Close()` calls
  (`sockCloses`);
* the history `wire` of records written to the socket.

**Actions.** `writePackets` is two steps.

* `Acquire` takes the lock and runs `Process`. `Process` is the recursive
  translation of the `processPacket`/`processHandshakePacket` loop:
  * a handshake message is split into `NumFragments` records;
  * every record takes `atomic.AddUint64 - 1` of its epoch's counter;
  * at the first number above the limit the whole call fails, with the
    counter already advanced and nothing sent;
  * a CID-wrapped handshake record's header takes the packet's own sequence
    number, as at line 597.
* `Flush` writes the records (unless nextConn is closed) and releases the
  lock.

The callers are:

* `FsmSendFlight1`, `FsmPrepare5` (local epoch 1), `FsmSendFlight5`,
  `FsmRetransmit` and `FsmFinish`;
* `ReaderNotify`, then `ReaderClose`, the reader's `close(false)` once the
  loop ends (lines 1084–1093);
* `WriteBegin`, which covers the closed and completed tests and the epoch
  read, and `WriteLocked`;
* `CloseNotify` or `CloseSkipNotify` for a user `Close` (close_notify only
  once the handshake completed).

`close()` then runs, for the reader and for every `Close`, as
`CloseLocked(c, user)`: the `c.closeLock` section, one step, which reads
`connectionClosedByUser` and `isConnectionClosed()`, sets the first if
`user`, closes `c.closed`, and fixes the return value (`ErrConnClosed` after
a user close, nil after any other close, the socket's error otherwise). Only
the first close goes on to `SocketClose` (`nextConn.Close()`). A write is
dropped once the socket is closed, not when `c.closed` is.

`Quiescent` is the stuttering step taken once every caller has returned.

### Packetize

**State.** The variables are:

* `pkts`, the list the next `writePackets` call is given;
* `wire`, the datagrams written;
* two histories: `msgs`, the body length of each handshake message, and
  `raws`, every record built.

**Data.** A record is its length on the wire plus, for a handshake fragment,
the header fields `fragmentHandshake` writes: message_sequence, offset,
fragment length and total length.

**Operators.** `SplitBytes` is pion's `splitBytes`. It is not under `src/`, so
it is modelled from the spec. The others translate the code:

* `FragmentHandshake`;
* `RecordLen`: 13-byte header; or a 13+CID header and an inner plaintext of
  content, type byte and padding; plus 24 bytes when sealed;
* `ProcessHandshakePacket` and `ProcessPacket`;
* `CompactRawPackets`, with `Compact` as the recursive loop and `FlushBefore`
  as the test at line 485.

**Actions.**

* `AddPacket` puts a packet of a kind in `Kinds` into the next call's list.
* `WritePackets` is the whole call: records, compaction, writes.
* `Done` stutters after the last call.

### HandshakeCodec

Bytes are scaled to `ByteMod` values and the Random to `RandomLength` bytes.
The session ID length byte and the uint16 cipher suite keep their width
relative to a byte (`% ByteMod`). `UnmarshalServerHello` has every early
return of the code, in its order, on the code's 0-based offsets. The
extension block is its uint16 length and an opaque body. The extension
package is not under `src/`; `ExtMarshal` and `ExtUnmarshal` model it from
the spec.

There are two actions:

* `Send` marshals a message the handshake builds and parses it back, as the
  unit tests do.
* `Receive` parses any byte string of up to `MaxInputLen` bytes, as a peer's
  record may carry.

Each behaviour parses once (`Idle`), because each body is parsed on its own.

### Connect

`Connect` extends `ConnRead` with the constructor that runs it. `cpc` is the
constructor's step, `cret` what it returned, and `sock` the UDP socket that
`DialWithContext` opened. The steps follow the code in order:

* `Listen` is `net.ListenUDP` (Dial only).
* `CheckConfig` covers the checks of `ClientWithContext` and
  `ServerWithContext`.
* `CreateConn` covers `createConn`'s checks. Its result is `ConnRead`'s
  `Init`.
* `HandshakeConfig` covers `handshakeConn`'s config parsing.
* `ServerCertificate` is the server's certificate filter.
* `ConstructorError` is any of these checks failing. It returns `nil, err`
  at once, and `ConfigErrs` names the checks that can fail.
* `ConnStep` is a step of `ConnRead` once `handshake()` has started.
* `HandshakeConnReturn` returns the Conn when `handshake()` returned nil,
  and the error otherwise.

Only the dial_leak run checks `Connect`, and it checks a safety invariant,
so `Connect` needs no fairness. TLC counts `ConnStep` as one action. The
`ConnRead` runs therefore check the connection's own steps against
`MC_ConnRead` directly, where each step is an action of its own.

The socket is closed only by the Conn's first `close()` (`nextConn.Close()`),
so `SocketOpen` is `sock = "open" /\ ~closed`.

### Refinement

`AppDataChannel` is the promise of the receive path: ids are sent, and each
sent id is delivered at most once. `ConnRead` maps it as follows:

* `Ids` becomes every application data id of the script and of the forged
  datagrams;
* `sent` becomes the ids in the datagrams the peer has sent so far
  (`PeerData`);
* `got` becomes `delivered`.

`ChannelRefined == Chan!Spec` is checked as a PROPERTY. It subsumes
`AppDataDeliveredOnce`, and it adds that nothing injected or failing its tag
is delivered.

### Properties

* `TypeOK`. This includes that the queue never exceeds its capacity.
* `AppDataDeliveredOnce`. Each application record of the peer reaches
  `c.decrypted` at most once, however the network duplicates it and whether
  the network duplicates, delays or reorders it. No run delivers
  application data from the queue: data that overtakes the peer's
  ChangeCipherSpec is queued (line 793), but the FSM replays the queue when
  it installs the keys, and the peer sends data only after that, so the
  queue half of this property, and of `ChannelRefined`, is not exercised.
* `AddressMovesForward` (an action property). `rAddr` changes only to follow
  a record with a higher sequence number than the one that moved it last
  (RFC 9146 §6).
* `SeqStrictlyIncreasing` (ConnWrite). Within an epoch, the records on the
  wire have strictly increasing sequence numbers, whoever sent them (spec §5).
* `NoDataAfterCloseNotify` (ConnWrite). No application data follows a
  close_notify on the wire.
* `SocketClosedOnce` (ConnWrite). `nextConn` is closed exactly once once
  `c.closed` is, however the reader's `close(false)` and the users' `Close`
  calls interleave.
* `FirstUserCloseNoError` (ConnWrite). A `Close` returns `ErrConnClosed`
  only if another `Close` came first, also when the reader closed the
  connection before (the comment at line 1136).
* `HandshakeCompletes` (liveness). The handshake completes when the peer's
  last retransmission is eventually delivered.
* `ChannelRefined` (refinement), above.
* `RemoteEpochMonotonic` (an action property). The remote epoch never goes
  back (spec §2).
* `HandshakeSuccessLive` (an action property). `handshake()` returns nil
  only while the read loop still runs, or after it ended on a close_notify
  (spec §7).
* `NoEncryptedEpochZeroAlert`. An alert leaves encrypted only at an epoch
  above 0, the only epochs the peer decrypts. It is at stake when the two
  loads of `notify` straddle the FSM's epoch change and completion.
* `DialReleasesSocket` (Connect). When Dial returns an error, the socket
  `DialWithContext` opened is closed.
* `ReadLoopSurvivesNonFatal` (an action property). After completion, only
  close_notify, a fatal alert or a cancelled read ends the read loop. Warning
  alerts, undecodable records and epoch-0 application data go to `Read`
  (spec §7).
* `LoopsEndOnClose` (liveness). Once the connection is closed, by `Close`
  or by the reader on close_notify, both handshake goroutines end. `Close`
  waits for exactly this (`handshakeLoopsFinished.Wait()`, line 407).
* `FragmentsReassemble` (Packetize). Each message's fragments carry its total
  length and cover its body exactly once.
* `RecordsInOrder` (Packetize). The datagrams carry exactly the records
  built, in order.
* `CoalescedWithinMTU` (Packetize). A datagram of several records fits the
  MTU.
* `RoundTrip` (HandshakeCodec). Unmarshal gives back every message Marshal
  encoded.
* `UnmarshalConsistent` (HandshakeCodec). Whatever Unmarshal accepts is the
  encoding of its result, except that an absent extension block reads as an
  empty one.

## Runs

Each violation run checks one property, and TLC finds it violated; the
finding below says what that shows.

| run | cfg | expect | shows |
|---|---|---|---|
| server | `ConnRead_server.cfg` | pass | A server receiving flight 5 split, reordered, duplicated and retransmitted, then application data from two addresses and close_notify, completes its handshake, delivers each record once and never moves the address back; once the connection is closed, by the application's Close or by the peer's close_notify, both handshake goroutines end, so Close returns. |
| client | `ConnRead_client.cfg` | pass | A client whose flights 4 and 6 may be lost, reordered or duplicated, and that receives two application records before the server's retransmitted flight 6, completes once retransmissions get through, never blocks for good on c.decrypted, and never delivers a record twice. |
| server_forged | `ConnRead_server_forged.cfg` | pass | A server with off-path forged datagrams (garbage, epoch-0 application data, close_notify, fatal and warning alerts, tag-failing records and plaintext ChangeCipherSpec with a CID connection): the receive path still refines the abstract at-most-once channel, the peer address only moves forward, the remote epoch never decreases, and after completion only close_notify, a fatal alert or a cancelled read ends the read loop. |
| notify_stale | `ConnRead_notify_stale.cfg` | violation | A server answering a forged undecodable record loads its local epoch (0) in `notify`; its FSM then sends flight 6 and completes before the reader loads the completion flag, so the fatal alert leaves encrypted under an epoch-0 header. |
| write | `ConnWrite.cfg` | pass | Without CID wrapping, the FSM's flights and retransmissions, the reader's alerts, two writers, two user Close calls and the reader's own close(false), all racing for c.lock and c.closeLock, emit each epoch's records in strictly increasing sequence order, close the socket exactly once, and give ErrConnClosed only to a second user Close. |
| write_cid | `ConnWrite_cid.cfg` | violation | With a peer connection ID, the fragments of the epoch-1 Finished, and every retransmission of it, carry the same sequence number 0. |
| write_close_race | `ConnWrite_close_race.cfg` | violation | A Write that passed its closed check before Close sent close_notify writes application data after the close_notify. |
| epoch_wrap | `ConnRead_epoch_wrap.cfg` | violation | Without connection IDs, forged plaintext ChangeCipherSpec records advance the uint16 remote epoch until it wraps back below its earlier value. |
| error_race | `ConnRead_error_race.cfg` | violation | handshake() can return nil for a connection whose read loop is gone: an error the read loop reported before completion can lose the final select to done, and a connect context cancelled after completion is translated to nil after the reader has closed the connection. |
| dial_leak | `Connect_dial_leak.cfg` | violation | With a valid config, Dial fails on one undecodable datagram before completion and returns an error while the UDP socket DialWithContext opened stays open. |
| packetize | `Packetize.cfg` | pass | writePackets fragments each handshake message so that its fragments cover the body exactly, writes every record once and in order, and coalesces several records only within the MTU. |
| codec | `HandshakeCodec.cfg` | pass | Every ServerHello and Finished the handshake builds is parsed back field for field, and any peer byte string that parses is exactly the encoding of what it parses to. |

### Findings

* **An alert encrypted under an epoch-0 header** (`conn.go:980`, `989`).
  `notify` takes the record's epoch from `getLocalEpoch()` and its
  protection from `isHandshakeCompletedSuccessfully()`. These are two
  separate atomic loads. TLC finds this order of steps:
  1. A server's reader answers a forged undecodable record and loads epoch 0.
  2. The FSM goroutine sends flight 6, which raises the local epoch to 1 and
     completes the handshake.
  3. The reader loads "completed" and writes the fatal decode_error
     encrypted, with epoch 0 in its header.

  The peer never decrypts epoch-0 records and cannot parse this one. The
  alert is lost.
* **CID handshake records repeat sequence number 0** (`conn.go:597`).
  `processHandshakePacket` writes `p.record.Header.SequenceNumber` into the
  CID header instead of the `seq` it assigned. As a result:
  * every fragment of the epoch-1 Finished carries 0;
  * every retransmission of it carries 0 too;
  * the peer's replay window drops everything after the first.
* **Application data after close_notify** (`conn.go:373`). `Write` tests
  `isConnectionClosed` before taking the lock. `close(true)` sends
  close_notify before it marks the connection closed. A concurrent Write
  therefore lands after the close_notify.
* **Forged ChangeCipherSpec records walk the remote epoch around**
  (`part_001:90`, `conn.go:926`). `GCM.Decrypt` returns a ChangeCipherSpec
  record unopened, and the epoch checks use uint16 arithmetic. Without CID,
  a forged CCS of the current epoch raises the remote epoch by one. Repeated,
  this wraps it back to 0 (spec §2: monotonically non-decreasing), after
  which the peer's records are queued as future ones. With CID, the CID check
  refuses the CCS, and server_forged shows the property holds.
* **handshake() can report success after its reader has died**
  (`conn.go:1100`). A decode error before completion goes to `firstErr`, the
  reader exits and cancels the FSM. An FSM that has already prepared its
  last flight still calls `onFlightState` and closes `done`. The select may
  pick `done`: `handshake()` returns nil with no read loop, and the first
  `Read` gets `io.EOF` (spec §7).
  The same run's state space holds a second path to a dead reader
  (`conn.go:1119`). The caller cancels the connect context just after
  completion, and the select takes `ctx.Done()` instead of `done`.
  `cancelRead` makes the reader see `context.Canceled` and close the
  connection. `translateHandshakeCtxError` then returns nil, so Client/Server
  hand back a closed connection as established. TLC reports the shorter
  trace, the `firstErr` one. A variant of the cfg with `CtxErrs =
  {"canceled"}` and only harmless forgeries reaches this path in 19 states.
* **Dial leaks its socket when it fails** (`conn.go:307`, `1078–1096`).
  `DialWithContext` opens a UDP socket and never closes it when
  `ClientWithContext` returns an error. With a valid config the run shows
  the handshake path in 12 states:
  1. Only a fatal alert, close_notify or cancellation makes the reader close
     the connection.
  2. After a decode error before completion, the reader exits without
     closing.
  3. `handshake()` fails through `firstErr` and does not close either.
  4. `handshakeConn` returns `nil, err`.

  The caller holds neither the Conn nor the socket. Every config error
  after `Listen` (`ConfigErrs`) leaks it the same way. The connect
  context's deadline does not leak it: `cancelRead` makes the reader close
  the connection.

### Noted while modelling, not kept as runs

These were found while translating the code, each by a property that TLC
showed violated. The project keeps one run per question it asks, and these
runs were retired; the text records what the code does.

* **One off-path datagram aborts the handshake** (`conn.go:898–899`). A
  plaintext record whose content fails to unmarshal makes the code return a
  fatal decode_error and an error. Before completion this ends the reader and
  the handshake. Spec §7 says parse errors on the wire are never surfaced.
  HandshakeCompletes fails as soon as such a datagram is allowed. The
  dial_leak counterexample starts with exactly this step.
* **Unprotected alerts at epoch 1** (`conn.go:980`, `989`). `notify` uses the
  local epoch but encrypts only after completion. A client that has sent
  flight 5 has local epoch 1 but is not yet complete. If it then receives a
  forged epoch-0 application record, it answers with a plaintext
  unexpected_message at epoch 1, which its peer cannot decrypt.
* **The sequence limit is off by one against the spec** (`conn.go:503`,
  `576`). The test is `seq > MaxSequenceNumber`, so 2^48−1 itself is
  emitted, but spec §3 requires every emitted sequence number to be below
  2^48−1.
* **A forged plaintext close_notify or fatal alert closes an established
  connection** (`conn.go:904`). After completion, an epoch-0 close_notify
  or fatal alert from any address passes every check and closes the
  connection. The spec does not say that
  records of an older epoch must be refused, so this is a gap in the spec.
* **A fatal alert is not answered with close_notify** (`conn.go:907`,
  `1087`). Spec §5 says a fatal alert from the peer triggers close_notify
  emission (best-effort) and socket close. `handleIncomingPacket` answers
  only close_notify. The reader then calls `close(false)`, which sends
  close_notify only when the close is by the user. A property requiring the
  answer is violated three steps in: one read of a forged fatal alert.
* **Records larger than the MTU** (`conn.go:645`). `fragmentHandshake` splits
  bodies at the MTU itself. It ignores the 13-byte record header, the
  12-byte handshake header, the CID header and padding, and the 24 GCM bytes.
  With MTU 64, a 20-byte body in a CID record is 69 bytes (spec §5:
  MTU-aware fragmentation, datagrams up to the MTU). `compactRawPackets`
  itself keeps coalesced datagrams within the MTU.
* **Session IDs longer than the spec allows are accepted**
  (`part_000:88`). `Unmarshal` takes the length byte as given, up to 255
  bytes; spec: 0..32.

### A suspected hang that does not happen

`c.decrypted` holds one record, and `Read` refuses before completion. The
worry was that two application records arriving before the client processes
the server's Finished would block the reader for good.

The client run checks this with two application records sent before the
server's retransmission of flight 6 (`ClientScriptTwoRecords`): the
handshake still completes and nothing deadlocks. Application data
is only accepted at remote epoch 1. The CCS that raises the epoch travels in
the same datagram as the Finished (`compactRawPackets`), and that datagram is
processed, and the FSM signalled, before the next datagram is read. Any
application data that arrives earlier is queued and not delivered.

## Bounds

All runs use the following values:

| constant | value | why |
|---|---|---|
| addresses | 2 | enough for one migration |
| `MaxSeq` | 7 | the scripts' sequence numbers fit |
| `ReplayWindow` | 3 | small enough that the "too old" branch is reachable |
| `QueueCap` | 2 | small enough that the cap is reached; the real value is 100 |
| `MaxRetransmit` | 1 | one timer expiry per flight |

ConnWrite uses:

| constant | value | why |
|---|---|---|
| writers | 2, one Write each | enough to race for the lock |
| `UserClosers` | 2 in the write run, 1 in the others | two calls of `Close` and the reader's `close(false)`: a second user call, and a first one after the reader |
| `NumFragments` | 2 | enough to show a repeat within one message |
| `MaxSeqNum` | 4 (6 in the race and CID runs) | 4 puts the overflow inside a flight-5 retransmission |
| `MaxFlightSends` | 2 | one retransmission |

ConnRead's runs also set `EpochMod = 4`. This is large enough for two real
epochs and small enough that three forged CCS records wrap the counter, as
65,535 would at 2^16.

Packetize uses MTU 64, `CIDLen` 2, `Padding` 1, two calls of at most two
packets, handshake bodies of 0, 20 and 80 bytes, and other contents of 2
bytes:

* 0 is the empty body, which still gets one fragment;
* 80 is split at the MTU;
* 20 fits a record alone, and two such records coalesce or not depending
  on CID and encryption.

HandshakeCodec uses `ByteMod` 3, `RandomLength` 1, and session IDs of at most
1 byte in the messages built. 1 stays below the width of the length byte, as
32 does below 256. The peer strings run over all 3-valued bytes of length 0
to 9, which reaches every early return of `Unmarshal`, an empty extension
block and a two-byte session ID.

The scripts send each flight once, with one retransmission. Every record
outcome happens in at least one run: each drop reason, queueing, queue
overflow, replay from the queue, CCS ignored, the address move, and each error
path before and after completion.

## Fairness

* Weak fairness (WF) on the reader steps, the FSM steps, the FSM's
  retransmission timer and the peer's sending. These are goroutines and
  timers that run whenever they are able to.
* Strong fairness (SF) on delivery of the retransmission datagrams
  (`FairDgrams`). The network is lossy, so a liveness claim assumes that a
  datagram re-sent indefinitely eventually arrives.
* Weak fairness on `MainStep`, the select at the end of `handshake()`. It
  runs once one of its cases is ready. When `CtxErrs` is not empty,
  the connect context can end on its own (a deadline) or be cancelled, so
  the failure case can become ready.
* No fairness on forged datagrams or on the user calling `Read`.

`CHECK_DEADLOCK FALSE` is set only where the connection really ends: after
close_notify, after a fatal alert, or after a failed handshake.

## Not modelled

* **AES-GCM and the PRF.** This is cryptography. Decryption is reduced to its
  outcome (`auth`, `Authentic`), and sealing to its 24 bytes (`RecordLen`).
* **The handshake FSM's flights and message contents.** The FSM is not under
  `src/`. It is modelled from the spec only where it acts on the connection.
* **`MakeLog`**, formatting and logging. These copy fields into a zcrypto log
  record and change no state.
* **Extension contents.** The extension package is not under `src/`; only the
  block's length framing is modelled.
* **Socket I/O and config parsing.** The constructors' checks are reduced to
  whether each fails (`ConfigErrs`). Session resumption (`initialState`) starts
  the FSM, which is not under `src/`, at a later flight; it is not modelled.
* **A composition of two connections.** The peer is a script of the datagrams
  its `conn.go` sends. A two-party model would need the FSM of both sides,
  which is not under `src/`.
