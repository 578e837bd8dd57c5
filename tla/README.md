# A TLA+ development for polymorph-tls

polymorph-tls puts TLS 1.3 behind WebAssembly component interfaces. Its own
logic is not cryptography (rustls and RustCrypto do that) but plumbing: tasks,
queues, futures, side maps and resources that have to stay consistent while a
peer, a transport, a consumer and an embedder act in any order, and the policy
of whom an endpoint trusts. This development models both, model-checks it with TLC on small instances
and proves the central safety properties with TLAPS for all parameters.

## 1. Inventory

| Part | Source | State it keeps | Operations | Modelled by |
|---|---|---|---|---|
| Endpoint pump | `rust/component/src/pump.rs` | rustls connection, transmit queue, stream ends, handshake oneshot, two verdict futures | `reader_task`, `writer_task`, `transmit_task`, `run` | `TlsPump` |
| Component resources | `rust/component/src/component.rs`, `Wired` in `pump.rs` | identities, wired stream ends, acceptor identity | identity constructors, `send`, `receive`, `connect`, `accept`, drop | `TlsWiring`, `Handshake` |
| Profile, TLS configurations, raw public keys | `rust/profile`, `rust/tls` | none | identities, verifiers, configurations | `Identity`, `Handshake` |
| Signers | `examples/test-signer`, `examples/webcrypto-signer` | none | `schemes`, `sign` | `Identity` |
| 0.2 send direction | `rust/tls-virt-wasmtime/src/p2.rs` 193-394 | `WriteInner`, two `Notify`s, writer task | `write`, `flush`, `check-write`, `ready`, shutdown, drop | `P2Write` |
| 0.2 receive direction | `p2.rs` 114-191, 396-405 | `ReadSlot` | `read`, `ready`, `close_read` | `P2Read` |
| 0.2 connect | `p2.rs` 71-99, 407-420, 478-590, 756-760 | `p2_tunnels`, connect tasks, result slot, watch | `start-connect`, `finish-connect`, `subscribe`, drop | `P2Connect` |
| 0.2 name lookup | `p2.rs` 101-110, 765-843 | `p2_resolves` | `resolve-addresses`, `resolve-next-address`, drop | `P2Resolve` |
| Handle table | `rust/tls-virt-common/src/lib.rs` | minted handle -> destination | `mint`, `lookup`, `pick_addr` | `HandleTable` |
| 0.3 host provider | `rust/tls-virt-wasmtime/src/main.rs` | `tunnels`, stream producer and consumer | `resolve-addresses`, `connect`, `send`, `receive`, drop | `P3Tunnel` |
| Virtualizer component | `rust/tls-virt-guest/src/lib.rs` | `TcpState` Host/Tunnel/Busy, splice and verdict tasks | `connect`, `send`, `receive`, drop | `TunnelGuest` |
| QUIC packet protection and endpoint keys | `rust/quic/src/{packet,keys,suites}.rs` | none | seal, open, header protection, tokens, reset signatures | `QuicCrypto` |
| QUIC configurations | `rust/quic/src/lib.rs` | rustls's session stores | four configuration builders | `Identity`, `Handshake` |
| QUIC loopback rig and native bench | `examples/quic-loopback`, `bench/quic-native-bench` | outbound queue, connections, events | `pump`, the programs, their waits | `QuicLoopback` |
| Timing lab | `timing-lab` | schedule, samples, reports | guards, `measure`, statistics, evaluation | `TimingLab` |
| Demos, TCP example, conformance, TLS benches | `examples`, `conformance`, `bench` | - | consumers of the interfaces, measurement | not modelled |

How the parts interact. A consumer builds an identity, a connector or an
acceptor and wires two streams into it (`TlsWiring`), calls connect or accept, and
the pump (`TlsPump`) then runs between the consumer's cleartext streams and the
transport's ciphertext streams; whom its handshake authenticates is decided by
the configurations, verifiers and signers that rustls calls back into
(`Identity`, `Handshake`). The virtualizer component (`TunnelGuest`) is one such
consumer: it splices the application's stream into a connector's cleartext
pipe. The wasmtime provider does the same job natively, for WASI 0.3 with stream
producers and consumers (`P3Tunnel`), for WASI 0.2 with pollables and tasks: a
lookup of a name with the opt-in suffix (`P2Resolve`) mints a handle
(`HandleTable`), connecting a socket to that handle (`P2Connect`) starts a task
that dials and handshakes, and the finished connection is split into a receive
slot (`P2Read`) and a send queue with its task (`P2Write`). QUIC endpoints use the
same identities; noq-proto calls the packet and endpoint keys (`QuicCrypto`), and
the loopback rig pumps noq-proto over UDP (`QuicLoopback`).

What is hard here:

* *Concurrency.* The pump's three tasks share one rustls connection and one
  queue on a cooperative executor. The 0.2 send direction is shared between the
  guest's thread and a tokio task, with `Notify` objects that store no permit
  (`notify_waiters`) or one (`notify_one`). A connect task runs beside guest calls and
  outlives its socket.
* *Ordering.* Handshake end, data, close_notify and a refused record can sit in
  one buffer. Verdict futures, stream closures and the end of the queue must
  come in an order no consumer can deadlock on.
* *Failure.* Transport ends with and without close_notify; sandbox, dial,
  server-name and handshake failures; futures dropped by `poll`.
* *Stale keys.* Side maps are keyed by table indices that are used again.
* *Limits.* rustls's receive and handshake buffers, the 0.2 write budget, a UDP
  socket that takes part of a batch.
* *Unreliable delivery.* QUIC datagrams are lost, repeated, reordered and altered;
  a TLS peer may replay certificates, signatures and a whole first flight with its
  early data.
* *Cancellation.* An async export is dropped at its await: the virtualizer's connect
  has then taken the host socket out of the state it left behind.

What makes each part correct is stated as its module's properties, described in
section 3. The hazards, with source lines, are in `PROJECT.json`.

## 2. Modules

`MC*` modules instantiate a specification for TLC and define constant values;
`MCP2Stream` puts the two directions of a 0.2 stream side by side. A definition whose comment begins with "Mutant" is a plausibly
wrong version of the definition after it, used to check that a property can
fail; the specifications do not use them.

**TlsPump** is one endpoint from the moment `run` has spawned its tasks. Stream
bytes are counted in units of one `read_tls` call and classified by what rustls
makes of them (handshake message, part of a record, end of a record,
close_notify, refused). `rpc`, `wpc` and `tx` are the await points of the three
tasks. The reader's synchronous loop over one buffer takes one step per
iteration; no other task moves while it is inside (`rpc = "pump"`), which is
what the cooperative executor guarantees. `ctq` and `sinks` are the mpsc queue
and its senders, `held`/`far` the inner and outer stream ends, `hsig` the
handshake oneshot, `hs`, `rx`, `rclosed`, `part`, `sbuf`, `alerted` what
`pump.rs` can observe of rustls. History variables record what was decrypted,
accepted, read and transmitted.

**Pipe** is the abstract specification of a receive direction: data in order,
nothing added, one end, told only when everything before it was handed over, and
told as clean only after close_notify. `TlsPump` and `P2Read` are shown to
implement it; `ReceivePipe` in each is the refinement mapping.

**Identity** holds the pure decisions: what a constructor makes of a key document
or a signer, what a configuration makes of an identity and a trust rule, which
scheme is chosen, what the verifiers accept. Encodings are injective
constructors (a certificate is its form, its key and its issuer), so a document
in the wrong form is a different value and not a different byte string.

**TlsWiring** extends it with the component's resources. The three stream and
future ends of a direction are one *wiring* with a fate (wired, run, dropped).
`take_complete` takes the send parts first, so an incomplete call can use them
up; `accept` takes the identity before anything else.

**Handshake** composes the two: endpoints that connect and accept handed to their
pumps, raw-public-key endpoints and QUIC endpoints meet each other or a
*stranger*, which presents any certificate or chain and replays any signature it
has seen, but signs only with its own keys. rustls's handshake is external and
reduced to the order of its callbacks: negotiate, `choose_scheme`, sign, verify,
answer, verify.

Sessions are part of it. No configuration of this code touches rustls's session
stores, and the QUIC ones also set `enable_early_data` and `max_early_data_size`
(`rust/quic/src/lib.rs:94`, `:122`). A server that finished hands out `TicketsSent` tickets;
a ticket carries what both ends stored of the full handshake it goes back to (`root`),
and a later hello may offer it, once if the client is of this code. The server then
resumes: no certificate, no signature, and over QUIC early data taken before the client
has answered. A stranger may copy a hello it has seen, to the same server or another,
before or after the original gets there; it cannot answer for it, since that takes the session's
secret. Tickets need a configuration that is kept (`Kept`): the tunnel host shares one
(`tls-virt-wasmtime/src/main.rs:150`), and users of `rust/tls` and `rust/quic` may, while
the component builds one for every connect and accept (`component.rs:113`, `:236`) and
so never resumes. Equal ends stand for one configuration and its store, the case in which
a session can meet its owner; rustls may refuse a ticket for its age or for being pushed out
of the store, which is `ServerFlight` with a ticket on offer.

Three reductions keep it small. Calls come before handshakes and
are then forgotten (`Forget`): no call reads a handshake's state, and a handshake
reads nothing of a call but the endpoint it was handed. A first handshake is one
of the endpoint handed over last, or of none (`Handed`): the endpoints handed
over before were last when they were handed over, and a later handshake may be with
the endpoints of the one before. `MaxSessions` bounds the sessions that may be held
when a handshake without a ticket begins.

**P2Write** interleaves the guest's locked sections with the writer task's.
`notify_one` after the unlock, `enable` before the check, the second look at the
queue and the settlement after I/O are separate steps; `waiter`/`wake`
and `gpc`/`gwoken` model tokio's two kinds of notification. `write_all` is not a flush:
`tls` is what the TLS half accepted, and `sent` how much of it has left for the transport,
which any write may do in part and only a flush or the shutdown must do in full.

**P2Read** has `Pollable::ready` in two steps with the read between them, and
`PollCancel` for the future `wasi:io/poll` drops when another pollable is ready
first.

**P2Connect** keeps, per table index, a generation, the side-map entry and the
delegated socket's own state; each connect task has its check, dial, handshake,
store and signal steps. **P2Resolve** keeps the side map of lookups and the
delegated stream, which may block between addresses. P2Connect
extends P2Resolve, so what a socket dials is what a lookup minted, and P2Resolve
extends **HandleTable**: handles are opaque members of `HandleSpace`, a mint picks
any unused one (a collision of 64 random bits is left out). Lookups come before
connects: the table only grows and an entry never changes, so a lookup that is
made later could as well have been made before.

**P3Tunnel** is the 0.3 provider with one socket. Overlapping connect calls each
make a connection; its two halves are in the side map, with a consumer or
producer, with the spawned shutdown task, or gone. `unsent` is what tokio-rustls
has accepted and not handed to the transport: only `poll_write` and the shutdown
move it. It extends HandleTable: lookups mint the handles that are dialed. A
second socket adds nothing, because the side map is only ever used at one index
per call and a borrowed socket cannot be dropped.

**TunnelGuest** is one `VTcp`. `state` is `TcpState`, `calls` the connect calls in
flight, each of which its caller may cancel at its await (`Cancelled`); each successful connect to a handle has a record with the ends the tunnel
still holds and its splice task. The connector at the far end of the pipe
is `TlsPump`'s writer reduced to what the pipe can see: it reads on, resolves
`send_done` ok at the pipe's end, or fails and drops its end.

**QuicCrypto** has a sender, a network and a receiver around the packet keys, and a
server that issues and judges tokens and reset signatures. A byte is the set of
its bits, so that `xor_in_place`, `Nonce::for_path` and the packet-number bytes are
computed bit by bit, over 64-bit numbers and 32-bit path ids; the bits that a packet's
number field does not carry come from the number the receiver expects (`Expected`). A
packet is of the level its header says, with the initial keys or the negotiated suite's, and
is sealed and opened by one call each, the plain one or the one for its path. A sealed box is
symbolic and opens only under its key, nonce, header and ciphertext.

**QuicLoopback** is `Driver::pump` with the four programs that use it. noq-proto is
external and reduced to a three-frame handshake, a stream with flow-control
credit, acknowledgements, retransmission, idle timeout and close. A program's
predicate is one action per phase; its wait is a step that is enabled by exactly
what the poll set contains. Of a bench, one transfer is modelled. The interop server's
driver accepts every incoming connection, so beside its client's there may be one of a
foreign client, `guest`, with events of its own handle; `server` serves whichever connects
first and takes the close of either for its goodbye, as the code does. A socket error
(`PumpFails`) ends the process, in the flush also after part of the queue was sent.

**TimingLab** is the lab's control: guards, warm-up, shuffle, samples, report,
evaluation, with the statistics of `stats.rs` in exact fractions. What the code
under test does is chosen for one surface at a time (`focusCode`), right or wrong in each
respect: its known answers and round trips, its answer to an input corrupted in the first and
in the last byte (refuse, accept, refuse and change the buffer), whether the second class
is slower, whether its handshake ends. Guards and trials look at exactly what the code
looks at: a rig tries the first tag byte only, a trial only whether the call failed. That
surface has every schedule and every noise; the others are sound, with one schedule and
the same noise in both classes, so that a run can succeed. Nothing is assumed of the noise:
the property itself says when noise can excuse a verdict.

External parts, modelled from how the code uses them: rustls's observable state,
the peer and transport, the consumer, wasmtime-wasi's resolver, `poll` and
socket creation, rustls's handshake and WebPKI verifier, noq-proto, the
network, the clock.

## 3. Runs

| Run | Properties | What it shows |
|---|---|---|
| `pump` | TypeOK, HandshakeHonest, SentInOrder, TerminalOrder, EndIsTold, ImplementsPipe | connect and accept always get an answer, and a true one, and no plaintext comes before it; cleartext accepted before, during and after the handshake goes out once and in order; every end is released before a verdict is offered, and no queued ciphertext is cut off when its stream closes; streams close from protocol events alone; the receive direction implements Pipe, also when rustls refuses input or data is cut off |
| `resources` | EachWiringOnce, TrustKept, EarlyDataOnce, CompatibleMeet | no stream end is used twice or forgotten by any sequence of calls; an endpoint that finishes a handshake has a signature, made in it or in the full handshake it resumes, by the key it trusts; no early data is taken twice, however hellos are copied; endpoints that go together do not refuse each other |
| `p2_stream` | Accounted, InOrder, ClosedAfterData, FlushHonest, WrittenIsSent, RequestsComplete, ReadImplementsPipe, ReadDelivered | bytes are in order and accounted for; when a flush is reported, all written before it has left, except what the second look dropped; what was written and flushed does leave; close_notify is last; no wake-up is missed; the read half's trip through `ready` loses nothing and ends are reported as they were |
| `p2_sockets` | ResolvedAsAsked, ReadyMeansFinished, ConnectedAsDialed, ResolutionYields, OutcomeStands, ConnectSettles | opted-in names yield exactly one handle that stands for the whole answer, other names are untouched, also at a used index; tunnels belong to the live socket, are what was dialed and approved, and are reported exactly when the pollable says so |
| `p3_tunnel` | TunnelAsResolved, VerdictsEarned, VerdictsOwed | the tunnel is what was resolved, allowed and dialed; a send verdict ok means everything and then close_notify left, a receive verdict ok that close_notify came and everything was delivered; a verdict that is owed always has somebody to send it |
| `tunnel_guest` | SocketAnswers, SendVerdictEarned, SendDirectionEnds | overlapping, refused and failing connects never leave the socket busy, and of the cancelled ones only one that was waiting for the host socket's own connect; the splice loses nothing it reports as sent; the send direction of every tunnel ends, also of one that was replaced or dropped unused |
| `quic_crypto` | IntactIsOpened, OpenedAsSealed, NonceUsedOnce, AcceptedWasIssued | header removal inverts application for initial, handshake and data headers and every number length, whichever call seals and opens; nothing altered, moved to another path or cut short is opened; no key meets a nonce twice over paths and tokens; a token opens only under its own nonce |
| `quic_loopback` | FlushedInOrder, LossIsTold, VerdictsAgree, Completes | a partly accepted batch keeps its order; a lost connection is told before it is forgotten; the server reports success only after its client closed with the whole echo, or a foreign client closed; every program ends, the client with success, unless the path dies, a socket fails or a foreign client comes |
| `timing_lab` | SuccessIsEarned, AccumulatorExact | a run succeeds only over code that its guards and trials find right and that leaks only where a leak is expected, unless the noise can hide or make up a leak of that size; the running statistics are the samples' |

Runs that are expected to end in a violation state what a document or comment
says and show that the code does something else:

| Run | Property | The code |
|---|---|---|
| `pump_close_order` | CloseNotifyLast | close_notify overtakes cleartext buffered for the handshake |
| `p2_write_lost` | NothingLost | bytes written between the writer task's two looks at the queue are taken by the second and dropped |
| `p2_read_cancelled` | TakenOnlyInReady | a dropped poll takes the read half with it; the stream stays open, always ready and empty |

The passing properties are stated around these: `Accounted`, `FlushHonest`, `WrittenIsSent`
and `RequestsComplete` except what the second look drops (`lost`), `ReadDelivered`
unless a poll was dropped (`cancelled`), `SentInOrder` for application data only,
`VerdictsOwed` unless the guest dropped its receive stream (`never`); and around two below:
`SocketAnswers` unless a connect was cancelled, `VerdictsAgree` unless a foreign client
closed.

Further disagreements met while modelling, with no run of their own:

* A healthy connection fails when one read buffer completes a large record and
  goes on: rustls refuses input while its plaintext buffer is full, and the reader
  reports a transport failure (`pump.rs:226`, against `wit/README.md:53`).
* After the cleartext stream is closed the ciphertext stream stays open while the
  reader lives, because the reader holds a queue sender (`pump.rs:328`), against
  `wit/tls.wit:51` and `wit/README.md:45`, which have closing the cleartext send
  close_notify and then close the ciphertext stream. `TerminalOrder` takes no side: it asks that
  what is queued is not cut off, not which direction has ended by then.
* A resumed connection shows no new proof of its peer's key: `peer_public_key`
  (`rust/tls/src/rpk.rs:111`) and the pin of a raw-key client (`rust/quic/src/lib.rs:144`) then
  rest on the full handshake before it, which is how `TrustKept` is stated.
* The 0.2 writer task does not flush what `write_all` accepted (`p2.rs:273`): the tail
  of the last write may wait in the TLS half until the guest flushes, writes again or shuts
  down, although the task is there for a guest that writes and never polls again (`p2.rs:233`).
* A virtualizer's connect to an ordinary address that is cancelled at its await
  (`tls-virt-guest/src/lib.rs:193`) takes the host socket with it and leaves `Busy` for
  good; `lib.rs:124` calls `Busy` a transitional state during `connect`.
* The interop server is to "accept one connection" (`examples/quic-loopback/src/main.rs:199`)
  and to end when the client has closed (`:259`); it takes any connection, and the goodbye loop
  the close of any (`:261`), so a second client's close makes it report success.
* The lab's rigs corrupt the first tag byte only (`timing-lab/src/main.rs:592`) while the
  batches also corrupt the last (`:1057`): an opener that changes the buffer only then is timed
  on something else, which the comment at `:560` means to rule out.
* The 0.3 consumer never polls a flush (`main.rs:737`): what tokio-rustls accepted
  while the transport blocked waits for the next write or the end of the stream,
  also when the guest has written all and waits for the peer's answer.
* A guest that drops its 0.3 receive stream early, as `sockets.wit:361` suggests,
  drops the verdict's sender with the producer (`main.rs:757`): the future never
  gets a value.
* On a 0.3 send error the comment at `main.rs:701` says that dropping the write
  half closes the transport; the read half keeps it open.
* Neither 0.3 delivery refuses to connect a socket twice (`main.rs:409`,
  `tls-virt-guest/src/lib.rs:266`, against `sockets.wit:228` "A single socket can
  not be used to connect more than once"); in the virtualizer an ordinary connect
  that ends after a tunnel was stored puts the host socket back over it
  (`lib.rs:194`).
* Cleartext beyond rustls's limit, written before the handshake ends, makes
  `write_all` fail (`pump.rs:305`) and the send future an error, although
  `wit/README.md:42` says such data is buffered.
* The writer does not know of the reader's failure: closing the cleartext stream
  after a failed handshake resolves the send future `ok` (`pump.rs:315`,
  against `wit/README.md:53`).
* When connect refuses its arguments and the connector is dropped, the unused
  future writers resolve to their default `ok` (`pump.rs:50`).
* A signer that reports a public key and no scheme makes a raw-key identity that
  cannot sign: `RpkIdentity::external` does not look at the schemes
  (`rust/profile/src/lib.rs:260`), while `identity::delegated` refuses such a signer.
* The second look of the 0.2 writer task empties the queue without notifying a
  guest that waits for budget (`p2.rs:265`).
* `start_connect` delegates an ordinary address before it looks at the side map
  (`p2.rs:494`), so the socket parked under a tunnel can be connected itself
  (against `rust/tls-virt-wasmtime/README.md:41`).
* The stall guard of the loopback programs (`examples/quic-loopback/src/main.rs:309`,
  "with a wall-clock stall guard") is only looked at before the wait, and a
  connection that is gone has no timer: an interop client whose connection was lost
  before the echo waits without a deadline. `Completes` therefore excepts a dead
  path.
* The interop programs ignore how much `stream.write` took (`main.rs:170`, `:255`): a
  payload above the flow-control window is sent in part and finished. The model
  assumes `Payload <= Window`.
* A crop in which both classes are constant has an infinite t and is skipped
  (`timing-lab/src/stats.rs:98`): the clearest possible leak reads as inconclusive.
  The run still fails, which `SuccessIsEarned` shows.

### Bounds

A property is about orders of few events, and the bounds let each of them
happen with room for one more.

* *pump* (696 thousand states): `CHUNK` 2 with records of up to 2 units lets the end
  of the handshake, part of a record, a close or a refused unit share a buffer;
  `PLIMIT` 1 makes rustls refuse input; `HsLen` 2 ends the handshake in the first
  buffer or a later one; `BUFLIMIT` 1 with 2 units sent overflows the handshake
  buffer. Both roles.
* *resources* (702 thousand): 4 wirings and 2 calls wire both directions, replace
  one and use one up; 2 resources and 1 identity, so that a second acceptor is built
  from an identity that was used; 3 handshakes, of which 2 may be full, so that a later
  one can replay signatures, resume, or repeat a hello that was resumed before. One ticket
  per handshake; `MaxSessions` 0, so that a full handshake begins only while no session is
  held. One RSA and one Ed25519 key of ours and one of the stranger's, two authorities of
  which one is trusted, three signers.
* *p2_stream* (176 thousand): a budget of 2 with 4 units written fills the queue,
  empties it and fills it again; 2 flushes let one be requested while another is
  in progress; 4 units read in parts of at most 2. The directions share no state, so
  a behaviour is one direction's (`MCP2Stream`).
* *p2_sockets* (132 thousand): one lookup index used twice, one socket index used
  twice, and two tasks, of which one may belong to a dropped socket. Indices do not
  interact: a task holds its slot and its watch, never an index. Two names, of which
  rustls refuses one; empty, single and two-address answers.
* *p3_tunnel* (2.3 million): two connect calls, so that a connection is replaced at
  every stage of the other's life; 2 units sent through a buffer of 1, so that a
  write is accepted in part, blocks, and leaves data behind for the shutdown.
* *tunnel_guest* (148 thousand): two connect calls, ordinary or to a handle, either
  cancelled; 2 units in reads of at most 2.
* *quic_crypto* (232 thousand): two packets, tokens or signatures and one
  alteration; initial, handshake and data headers with fields of one, two and four bytes,
  numbers whose bits reach to where the path's begin, two masks per suite that hit the
  length bits, an IV that overlaps path and number.
* *quic_loopback* (222 thousand): one fault (a lost datagram, a foreign one, a foreign
  client, a partial flush, a socket error or the death of the path), a payload of one chunk, a
  transfer of two chunks through a window of one.
* *timing_lab* (296 thousand): 4 samples per class under noise of 0 or 1 and a leak of
  8, which this noise can neither hide nor make up: success is reached, and it is reached only
  by code without a fault that its guards, trials or times can show.

`CHECK_DEADLOCK FALSE` is set where a program or a guest may simply stop. In
`TlsPump` an explicit `Finished` step marks the ends, and `MCP2Stream` always has
a step left.

### Fairness

* *TlsPump*: weak fairness of each task's steps (the executor polls woken
  tasks), of the consumer's reads and of the transport's reads. Nobody is
  obliged to send, to close or to look at a verdict future, which is the point
  of the closing properties.
* *P2Write*: the writer task (tokio polls it, the transport takes what is
  written) and the remainder of a guest call that has begun. The guest need not
  write, flush, poll or close.
* *P2Read*: a guest that polls and reads; the TLS read completes when it can.
* *P2Resolve, P2Connect*: the resolver answers or fails, and the guest keeps asking;
  each task runs (check, dial and handshake end one way or the other; the code sets
  no timeout of its own) and a guest whose pollable is ready calls finish-connect.
* *TunnelGuest*: the executor polls the splice tasks, the connector's writer reads
  on (which TlsPump shows: it waits for nothing but the pipe), and host calls
  return. Nobody is obliged to send, close, cancel or drop.
* *QuicLoopback*: each process runs, timers that are set come due, a full socket
  has room again. The network need not deliver: a lost frame is sent again by
  noq-proto's timer, at most `MaxFaults` are lost. A foreign client owes nothing.

## 4. Proofs

Eight modules prove theorems for every value of the constants that satisfies the
named assumptions. These ask for no more than types, positive chunk sizes and
limits, and what a host or signer guarantees: an answer of the resolver is a
sequence of addresses (`ResolveAssumption`, `ProviderAssumption`), handles are no
addresses (`TableAssumption`), a signer lists some schemes, possibly none, and reports
some key or none (`SignersAssumption`). QUIC numbers are 64-bit and path ids 32-bit (`QuicAssumption`). Of the lab's noise
nothing is assumed.

| Module | Theorem | What it states |
|---|---|---|
| `TlsPumpProofs` | `TypeCorrect` | TypeOK |
| | `HandshakeIsHonest`, `TerminalOrdering` | HandshakeHonest, TerminalOrder |
| | `ReceiveOrder`, `NoSilentTruncation` | what was decrypted is delivered in order; a clean verdict means close_notify and complete delivery |
| | `SendOrder` | SentInOrder |
| | `PumpIsPipe` | ImplementsPipe |
| `P2StreamProofs` | `WriteTypeCorrect` | TypeOK of P2Write |
| | `AlwaysInOrder`, `CloseAfterData`, `AccountedAlways` | InOrder, ClosedAfterData, Accounted |
| | `FlushIsHonest` | FlushHonest, an action property |
| | `ReadInvCorrect` | the slot's inductive invariant |
| | `ReadIsPipe` | P2Read's ImplementsPipe |
| | `MergeIsBoth` | any merge of the two directions satisfies the specification of each |
| | `MergeReadIsPipe`, `StreamReadIsPipe` | ReadImplementsPipe, of every merge and of the behaviours TLC explores |
| `HandshakeProofs` | `HandshakeInvCorrect` | the inductive invariant of wirings and handshakes |
| | `WiredOnce`, `TrustAlwaysKept`, `EarlyDataAlwaysOnce`, `CompatibleAlwaysMeet` | EachWiringOnce, TrustKept, EarlyDataOnce, CompatibleMeet |
| `P2ConnectProofs` | `ConnectInvCorrect` | the inductive invariant of lookups, sockets and tasks |
| | `LookupsResolveAsAsked`, `ReadyIsFinished`, `TunnelsAreAsDialed` | ResolvedAsAsked, ReadyMeansFinished, ConnectedAsDialed |
| | `OutcomesStand` | OutcomeStands, an action property |
| `P3TunnelProofs` | `TunnelInvCorrect` | the provider's inductive invariant |
| | `TunnelsAreAsResolved`, `VerdictsAreEarned`, `VerdictsStayOwed` | TunnelAsResolved, VerdictsEarned, VerdictsOwed |
| `TunnelGuestProofs` | `GuestInvCorrect` | the virtualizer's inductive invariant |
| | `SocketAlwaysAnswers`, `SendVerdictIsEarned` | SocketAnswers, SendVerdictEarned |
| `QuicCryptoProofs` | `QuicInvCorrect` | the inductive invariant of packets, tokens and signatures |
| | `NoFalseReject`, `OpensOnlySealed`, `NoncesNeverRepeat`, `AcceptsOnlyIssued` | IntactIsOpened, OpenedAsSealed, NonceUsedOnce, AcceptedWasIssued |
| `RigProofs` | `LoopInvCorrect` | the inductive invariant of the QUIC rig, all four programs |
| | `FlushedAlwaysInOrder`, `LossAlwaysTold`, `VerdictsAlwaysAgree` | FlushedInOrder, LossIsTold, VerdictsAgree |
| | `LabInvCorrect` | the timing lab's inductive invariant |
| | `SuccessAlwaysEarned` | SuccessIsEarned |

Each inductive invariant was checked with TLC on the bounds of section 3 before it was
proved. Its proof has one step (or lemma) per action; where an action touches one
lookup, task, tunnel or call, a lemma reduces the step to that one.

**TlsPump.** None of the pump's properties is inductive alone. The handshake
signal is told by two tasks, so `SignalInv` relates it to rustls's state at each
await point (in particular: when the reader stands at an await, a completed
handshake has been signalled, because `check` runs before the reader leaves the
buffer). `PlaintextInv` says that decrypted plaintext exists only after the
handshake and, at an await, has left rustls. `VerdictInv` ties the verdicts to
the reader's and writer's program counters and to `clean`/`rclosed`.
`ControlInv` is the conjunction of these with `ReleasedBeforeVerdict`; `DrainInv` adds that the
transmit queue is empty and without senders once its stream is closed.
`PumpIsPipe` uses `TypeOK`, `ControlInv` and `ReceivedInOrder`:
a consumer's read is Pipe's `Deliver` because what it reads continues what it has
(`UnitsMiddle`), and a verdict is told only when everything was consumed
(`VerdictComplete`); every other step maps to a step of Pipe or changes none of its
variables. `SendOrder` needs `BufferInv`: rustls holds early plaintext only until the
handshake ends, so what it encrypts after that follows what it has flushed. The order
is stated by position, not by filtering: the application records in transport,
write and queue are exactly units 1 to n in rising places (`CarryUnits`), and records
of other kinds may stand between them (`CarryOther`, `CarryMore`).

**P2Write and P2Read.** `WriteInv` relates the task's program counter to what it
holds (`chunk`, `tflush`, `tshut`), to the shutdown flag and to the connection;
`FlushHonest` follows for each step from it, and `Accounted` and `InOrder` are inductive
with it. `ReadInv` says that the half is out of the slot only while an open, empty
stream is polled, that what waits in the slot follows on what was read, and that an
end in the slot is the peer's and stands behind all data unless the guest closed the
direction. With it every step of the receive direction is a step of Pipe or none: a
dropped poll loses the half, but no data that was handed out. `MCP2Stream` lets
TLC explore one direction at a time; `MergeSpec` lets both run and interleave in any
way, and `MergeIsBoth` shows that each direction then still keeps to its own specification.

**TlsWiring and Handshake.** `HeldInv` and `ConnInv` say where a wiring can be (the
last one of its direction, or the one a connection was given), and `EachWiringOnce` is
inductive with them. `FlightInv` follows a handshake flight by flight: what is judged is
a signature of the endpoint it names, over this handshake and under a scheme of that
identity, or one a stranger made with a key of its own; an older signature is over
another handshake. From that the verifiers' conditions give `Authenticated` of a full
handshake. `StoreInv` carries it to the resumed ones: what a session stores was
authenticated in the handshake `root`, by each end of it that is of this code (`TicketOK`), and
`OfferInv` says that the ticket of the current hello is such a one. `EarlyDataOnce` follows from
the same store: a ticket whose early data was taken is not in it any more, and no later
handshake hands out the same.
The proof of `CompatibleMeet` showed it false as it was stated first: a raw-key
identity may have been built around a signer that reports a key and no scheme
(`RpkIdentity::external` does not ask, unlike `identity::delegated`), and such an endpoint
refuses every handshake. `Compatible` now asks for a scheme, and the `resources`
run has such a signer.

**P2Resolve and P2Connect.** For a lookup `StreamOK` says that what was drained and
what is left is the resolver's answer, until one handle has been given for it, also for
an index that was used before. `TaskOK` relates a task's program counter to its outcome,
slot and signal, and to the sandbox's approval; `TunnelOK` ties a tunnel to a task
of the socket's own generation, which is what a table index that is used again could
break. `PickAddrBest` is what `pick_addr` promises of a non-empty answer.

**P3Tunnel.** `SendOK` and `ReceiveOK` describe a half in each of the places it can be
(side map, consumer or producer, shutdown task, gone). That a half which is gone has left
its verdict, and that the consumer holds the verdict's sender exactly while it
has the half, gives `VerdictsOwed`.

**TunnelGuest.** `PipeOK` is the splice: whoever can still see the end of the pipe, or
saw it, has read all that was spliced, and the application's stream had ended. It
is what makes `send_done` ok an honest verdict. The host socket is in exactly one place, the
state or one ordinary connect, until a cancelled connect takes it along, which gives
`SocketAnswers`.

**QuicCrypto.** The lemmas are about the bytes: XOR with a mask undoes itself,
the mask of the first byte leaves the header form and so the choice of mask alone,
the length bits come back before the number bytes are unmasked (`HeaderRoundTrip`),
`NonceForPath` is injective in path and number and is the plain nonce on path 0. `WireInv` says that
the network never invents a box, `UsesInv` where every AEAD use came from.

**QuicLoopback.** `DriverInv` says which frames and events can be anywhere on a side:
a close frame, and with it an event "closed by the application" at the server, exists only
once the client is in its last phase. `FlushInv` adds that the client enters that phase
with the whole echo and that its close is then in what the driver collects. Together they
give `VerdictsAgree`: the server's success comes from the client's close or, by `GuestInv`,
from that of a foreign connection, never from a timeout or a dead path. `LossInv` says that a connection that is over has its loss still to
report, has reported it, or was closed by its own program; `GoneInv`, that a connection
leaves the table with nothing left to report, which is the order of `poll` and removal in
`pump`. `LossIsTold` follows from the two. One `pump` handles a whole queue of datagrams,
so `HandleAll` and `ToPeer` are recursive functions over the queue, and what holds after
each datagram is shown by a least counterexample (`CountsUp`, from `LeastNatural`)
instead of an induction scheme. The proof corrected the model twice. `Drives`
was a CASE with guards that overlap, harmless to TLC, which takes the first, but
meaning nothing in particular; and `VerdictsAgree` had an alternative for a client
connection that is gone, which turned out not to be needed and was removed.

**TimingLab.** `Balanced` counts the entries of each class: the shuffle's swap changes
no count (`SwapKeepsCount`), so the samples of a class are `Samples` in every order. `Guarded`
and `Sampled` say that what is timed has passed its setup and its trial's checks, which leaves
of wrong code only what time can tell (`OnlyTimeCanTell`), and that a sample is the operation's
time plus some noise. A verdict as expected over samples of a leak is then itself the
witness that the noise can hide it, and one over samples without a leak that noise can make it
up (`VerdictShows`, `Reported`). `SuccessIsEarned` follows at `evaluate`, which compares every
report. That a stuck handshake is refused is `handshake_timed`'s sixteen rounds, again by
`CountsUp`.

Only model-checked:

* liveness (EndIsTold, WrittenIsSent, RequestsComplete, ReadDelivered,
  ResolutionYields, ConnectSettles, SendDirectionEnds, Completes): TLAPS does not
  handle fairness here;
* `AccumulatorExact` of TimingLab: that the running mean and sum of squares equal the
  textbook ones is an induction over the samples, in fractions that are reduced
  by a recursive `Gcd`, with products of variables at every step. The theorems about
  the lab do not depend on it: they speak of the verdict whatever the statistic computes.

## 5. Not modelled

Ciphers, hashes, signatures and X.509 (rustls, RustCrypto, webpki) beyond what
they accept; DER and address encodings; `algorithm()` of the delegated key and the
AEADs' usage limits, which rustls and noq-proto read; option, UDP and listening
calls that only delegate; the drivers and command lines; tests, demos, the TCP
example and the TLS benches, which are straight-line users of the interfaces. The reader's
panic paths (a poisoned lock, a missing source of randomness) end the program.
`TunnelReady` of a task that panicked is left out for the same reason. `shutdown` on
a socket that is not a tunnel delegates.

## 6. Plan

The models are complete for the parts listed above, and every safety property that a
run checks is proved, except `AccumulatorExact`. What is left:

1. `AccumulatorExact`, in a prover with induction over sequences and rational
   arithmetic.
2. The liveness properties, when fairness can be proved about; the inductive
   invariants they would need are those of section 4.
3. When the code changes: the two hazards that no property covers yet, both in the
   0.3 provider's streams.
