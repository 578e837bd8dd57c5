------------------------------ MODULE TlsPump ------------------------------
(***************************************************************************)
(* One TLS endpoint of the component, from the moment `run` has spawned    *)
(* its three tasks: rust/component/src/pump.rs.                            *)
(*                                                                         *)
(*   reader    ciphertext_in  -> rustls -> cleartext_out, then recv_done   *)
(*   writer    cleartext_in   -> rustls -> transmit queue, then send_done  *)
(*   transmit  transmit queue -> ciphertext_out                            *)
(*                                                                         *)
(* The tasks share one rustls connection and run on one cooperative        *)
(* executor: a task is only interrupted where it awaits.  The reader's     *)
(* synchronous loop over one buffer takes one step per iteration here, and *)
(* while it is in that loop (rpc = "pump") no other task moves.            *)
(*                                                                         *)
(* Bytes are counted in units of one `read_tls` call.  A unit that arrives *)
(* is, by what rustls makes of it: a handshake message, an inner part of   *)
(* an application record, the last part of one, a close_notify, or         *)
(* something rustls refuses.  rustls itself is external to the repository  *)
(* and modelled by the calls pump.rs makes.                                *)
(***************************************************************************)
EXTENDS Naturals, Sequences

CONSTANTS
  CHUNK,      \* most units one stream read returns (pump.rs CHUNK)
  PLIMIT,     \* received plaintext above which rustls refuses read_tls
  BUFLIMIT,   \* plaintext rustls buffers while the handshake runs
  HsLen,      \* handshake units this side must process
  Clients,    \* which roles the endpoint may have: TRUE for a client
  MaxRecord,  \* units in the longest record of the peer
  MaxRecv,    \* bound: plaintext units the peer sends
  MaxSend     \* bound: plaintext units the consumer sends

ASSUME ConstantsAssumption ==
  /\ CHUNK \in Nat \ {0}
  /\ PLIMIT \in Nat \ {0}
  /\ BUFLIMIT \in Nat
  /\ HsLen \in Nat \ {0}
  /\ Clients \subseteq BOOLEAN
  /\ MaxRecord \in Nat \ {0}
  /\ MaxRecv \in Nat
  /\ MaxSend \in Nat

VARIABLES
  rpc,        \* reader: "read", "pump", "deliver", "verdict", "done"
  cursor,     \* units of the buffer the reader has not fed to rustls yet
  status,     \* StreamResult of the read that produced the buffer
  failed,     \* failure of the current buffer: "none", "tls", "io"
  clean,      \* the reader's clean_close
  out,        \* plaintext the reader's write_all has not handed over yet
  wpc,        \* writer: "read", "verdict", "done"
  tx,         \* item the transmit task's write_all has not handed over yet
  ctq,        \* the unbounded transmit queue
  sinks,      \* tasks that still own a sender of the transmit queue
  held,       \* stream ends the component still owns
  far,        \* streams whose other end is still alive outside
  hsig,       \* the handshake oneshot: "pending", "ok", "err"
  recv_done,  \* receive verdict: "pending" until it is offered
  send_done,  \* send verdict: "pending" until it is offered
  hs,         \* rustls: handshake units processed
  rx,         \* rustls: decrypted plaintext not yet read
  rclosed,    \* rustls: close_notify received
  part,       \* rustls: units of an incomplete record held by the deframer
  sbuf,       \* rustls: plaintext buffered until traffic keys exist
  alerted,    \* rustls: a fatal alert or close_notify has been sent
  received,   \* history: plaintext units decrypted
  consumed,   \* history: plaintext the consumer has read
  accepted,   \* history: plaintext units rustls accepted for sending
  carried     \* history: records the transport has read

readerVars == <<rpc, cursor, status, failed, clean, out>>
rustlsIn   == <<hs, rx, rclosed, part, received>>
rustlsOut  == <<sbuf, alerted, accepted>>
verdicts   == <<hsig, recv_done, send_done>>
ends       == <<held, far, sinks>>
txVars     == <<tx, ctq, carried>>
vars == <<readerVars, wpc, rustlsIn, rustlsOut, verdicts, ends, txVars, consumed>>

Streams == {"ciphertext_in", "cleartext_out", "cleartext_in", "ciphertext_out"}
Record  == [kind : {"hs", "app", "close", "alert"}, id : Nat]

HsRecord    == [kind |-> "hs", id |-> 0]
CloseRecord == [kind |-> "close", id |-> 0]
AlertRecord == [kind |-> "alert", id |-> 0]

\* The next n plaintext units after unit k, numbered in the order they were
\* handed to rustls.
Units(k, n) == [i \in 1..n |-> k + i]

\* rustls's application records for a run of plaintext units.
AppRecords(ids) == [i \in DOMAIN ids |-> [kind |-> "app", id |-> ids[i]]]

Handshaking == hs < HsLen

-----------------------------------------------------------------------------
(* Handshake: the oneshot to the pending connect or accept, taken once. *)

\* Mutant: reports success on the first call.
CheckEarly(sig) == IF sig = "pending" THEN "ok" ELSE sig

Check(sig) == IF ~Handshaking /\ sig = "pending" THEN "ok" ELSE sig

Fail(sig) == IF sig = "pending" THEN "err" ELSE sig

-----------------------------------------------------------------------------
(* The state in which `run` awaits the oneshot: streams wired, the first     *)
(* flight drained, which only a client has before any input, and the tasks   *)
(* spawned.                                                                  *)
Init ==
  /\ rpc = "read" /\ wpc = "read"
  /\ cursor = 0 /\ status = "ok" /\ failed = "none" /\ clean = FALSE
  /\ out = <<>> /\ tx = <<>>
  /\ \E client \in Clients : ctq = IF client THEN <<HsRecord>> ELSE <<>>
  /\ sinks = {"reader", "writer"}
  /\ held = Streams /\ far = Streams
  /\ hsig = "pending" /\ recv_done = "pending" /\ send_done = "pending"
  /\ hs = 0 /\ rx = <<>> /\ rclosed = FALSE /\ part = 0
  /\ sbuf = <<>> /\ alerted = FALSE
  /\ received = 0 /\ consumed = <<>> /\ accepted = 0 /\ carried = <<>>

-----------------------------------------------------------------------------
(* reader_task *)

\* ciphertext_in.read returns n units; the transport may drop its end in the
\* same event, and the status then says so.
ReaderRead(n, st) ==
  /\ rpc = "read"
  /\ "ciphertext_in" \in far
  /\ cursor' = n /\ status' = st /\ failed' = "none"
  /\ far' = IF st = "dropped" THEN far \ {"ciphertext_in"} ELSE far
  /\ rpc' = "pump"
  /\ UNCHANGED <<clean, out, wpc, rustlsIn, rustlsOut, verdicts, held, sinks,
                 txVars, consumed>>

\* Mutant: the loop does not stop at the end of the buffer.
InLoopForever == rpc = "pump" /\ failed = "none"

\* One iteration of the read_tls / process_new_packets loop.
InLoop == rpc = "pump" /\ cursor > 0 /\ failed = "none"

\* read_tls refuses input while too much plaintext is waiting to be read.
ReadTlsFull ==
  /\ InLoop
  /\ Len(rx) > PLIMIT
  /\ failed' = "io"
  /\ UNCHANGED <<rpc, cursor, status, clean, out, wpc, rustlsIn, rustlsOut,
                 verdicts, ends, txVars, consumed>>

\* read_tls returns Ok(0) after close_notify: the rest of the buffer is left.
ReadTlsEof ==
  /\ InLoop
  /\ Len(rx) <= PLIMIT
  /\ rclosed
  /\ cursor' = 0
  /\ UNCHANGED <<rpc, status, failed, clean, out, wpc, rustlsIn, rustlsOut,
                 verdicts, ends, txVars, consumed>>

ReadTls == InLoop /\ Len(rx) <= PLIMIT /\ ~rclosed

\* A handshake unit.  The last one makes rustls answer with its own flight,
\* start the traffic keys and flush the plaintext buffered meanwhile;
\* drain_tls_writes moves all of it to the transmit queue.
ProcessHandshake ==
  /\ ReadTls
  /\ Handshaking
  /\ hs' = hs + 1
  /\ cursor' = cursor - 1
  /\ IF hs' = HsLen
     THEN /\ ctq' = Append(ctq, HsRecord) \o AppRecords(sbuf)
          /\ sbuf' = <<>>
     ELSE UNCHANGED <<ctq, sbuf>>
  /\ UNCHANGED <<rpc, status, failed, clean, out, wpc, rx, rclosed, part,
                 received, alerted, accepted, verdicts, ends, tx, carried,
                 consumed>>

\* An inner unit of an application record stays in the deframer.
ProcessPart ==
  /\ ReadTls
  /\ ~Handshaking
  /\ part + 1 < MaxRecord
  /\ received + part + 2 <= MaxRecv
  /\ part' = part + 1
  /\ cursor' = cursor - 1
  /\ UNCHANGED <<rpc, status, failed, clean, out, wpc, hs, rx, rclosed,
                 received, rustlsOut, verdicts, ends, txVars, consumed>>

\* The last unit of an application record: the whole record is decrypted.
ProcessData ==
  /\ ReadTls
  /\ ~Handshaking
  /\ received + part + 1 <= MaxRecv
  /\ rx' = rx \o Units(received, part + 1)
  /\ received' = received + part + 1
  /\ part' = 0
  /\ cursor' = cursor - 1
  /\ UNCHANGED <<rpc, status, failed, clean, out, wpc, hs, rclosed,
                 rustlsOut, verdicts, ends, txVars, consumed>>

\* close_notify, honoured once application data may be received.
ProcessClose ==
  /\ ReadTls
  /\ ~Handshaking /\ part = 0
  /\ rclosed' = TRUE
  /\ clean' = TRUE
  /\ cursor' = cursor - 1
  /\ UNCHANGED <<rpc, status, failed, out, wpc, hs, rx, part, received,
                 rustlsOut, verdicts, ends, txVars, consumed>>

\* Anything process_new_packets refuses; rustls queues an alert unless what
\* it refuses is itself the peer's alert, and the reader drains it.
ProcessBad(alert) ==
  /\ ReadTls
  /\ failed' = "tls"
  /\ cursor' = cursor - 1
  /\ ctq' = IF alert THEN Append(ctq, AlertRecord) ELSE ctq
  /\ alerted' = (alerted \/ alert)
  /\ UNCHANGED <<rpc, status, clean, out, wpc, rustlsIn, sbuf, accepted,
                 verdicts, ends, tx, carried, consumed>>

\* Mutant: the verdict is offered while stream ends and sender are alive.
ReaderFinishHolding(v, sig) ==
  /\ rpc' = "verdict" /\ hsig' = sig /\ recv_done' = v
  /\ UNCHANGED <<held, sinks>>

\* The end of the reader: every stream end and its queue sender go first,
\* then the verdict is offered.
ReaderFinish(v, sig) ==
  /\ rpc' = "verdict"
  /\ hsig' = sig
  /\ recv_done' = v
  /\ held' = held \ {"ciphertext_in", "cleartext_out"}
  /\ sinks' = sinks \ {"reader"}

\* Mutant: the end of the transport counts as a clean close.
ConcludeTrusting(cl, sig) ==
  \/ failed # "none" /\ ReaderFinish(failed, Fail(sig))
  \/ /\ failed = "none" /\ (cl \/ status = "dropped")
     /\ ReaderFinish("ok", Fail(sig))
  \/ /\ failed = "none" /\ ~cl /\ status = "ok"
     /\ rpc' = "read" /\ hsig' = sig
     /\ UNCHANGED <<recv_done, held, sinks>>

\* Mutant: a close_notify is only looked at when the transport ends.
ConcludeAtEof(cl, sig) ==
  \/ failed # "none" /\ ReaderFinish(failed, Fail(sig))
  \/ /\ failed = "none" /\ status = "dropped"
     /\ ReaderFinish(IF cl THEN "ok" ELSE "truncated", Fail(sig))
  \/ /\ failed = "none" /\ status = "ok"
     /\ rpc' = "read" /\ hsig' = sig
     /\ UNCHANGED <<recv_done, held, sinks>>

\* What the reader does after a buffer, with its clean_close cl and the
\* handshake signal sig: fail, close cleanly, report truncation or go on.
Conclude(cl, sig) ==
  \/ /\ failed # "none"
     /\ ReaderFinish(failed, Fail(sig))
  \/ /\ failed = "none" /\ cl
     /\ ReaderFinish("ok", sig)
  \/ /\ failed = "none" /\ ~cl /\ status = "dropped"
     /\ ReaderFinish("truncated", Fail(sig))
  \/ /\ failed = "none" /\ ~cl /\ status = "ok"
     /\ rpc' = "read"
     /\ hsig' = sig
     /\ UNCHANGED <<recv_done, held, sinks>>

\* The loop is over: check the handshake and take the available plaintext.
\* With nothing to deliver the reader does not await and concludes at once.
ReaderTake ==
  /\ rpc = "pump"
  /\ cursor = 0 \/ failed # "none"
  /\ cursor' = 0
  /\ out' = rx
  /\ rx' = <<>>
  /\ clean' = (clean \/ rclosed)
  /\ IF rx = <<>>
     THEN Conclude(clean', Check(hsig))
     ELSE /\ rpc' = "deliver"
          /\ hsig' = Check(hsig)
          /\ UNCHANGED <<recv_done, held, sinks>>
  /\ UNCHANGED <<status, failed, wpc, hs, rclosed, part, received, rustlsOut,
                 send_done, far, txVars, consumed>>

\* cleartext_out.write_all returns: all was read, or the consumer dropped its
\* end and the rest is lost.
ReaderDelivered ==
  /\ rpc = "deliver"
  /\ out = <<>> \/ "cleartext_out" \notin far
  /\ out' = <<>>
  /\ Conclude(clean, hsig)
  /\ UNCHANGED <<cursor, status, failed, clean, wpc, rustlsIn, rustlsOut,
                 send_done, far, txVars, consumed>>

\* The read returns no bytes because the transport dropped its end.
ReaderEof ==
  /\ rpc = "read"
  /\ "ciphertext_in" \notin far
  /\ status' = "dropped"
  /\ failed' = "none"
  /\ IF clean
     THEN ReaderFinish("ok", hsig)
     ELSE ReaderFinish("truncated", Fail(hsig))
  /\ UNCHANGED <<cursor, clean, out, wpc, rustlsIn, rustlsOut, send_done, far,
                 txVars, consumed>>

\* recv_done.write returns: the consumer read the future or dropped it.
ReaderVerdictTaken ==
  /\ rpc = "verdict"
  /\ rpc' = "done"
  /\ UNCHANGED <<cursor, status, failed, clean, out, wpc, rustlsIn, rustlsOut,
                 verdicts, ends, txVars, consumed>>

-----------------------------------------------------------------------------
(* writer_task *)

WriterFinish(v) ==
  /\ wpc' = "verdict"
  /\ send_done' = v
  /\ held' = held \ {"cleartext_in"}
  /\ sinks' = sinks \ {"writer"}

\* send_close_notify does nothing once an alert has gone out; after it the
\* writer is done.
WriterClose(queue) ==
  /\ ctq' = IF alerted THEN queue ELSE Append(queue, CloseRecord)
  /\ alerted' = TRUE
  /\ WriterFinish("ok")

\* cleartext_in.read returns n units, which go to writer().write_all.  With
\* traffic keys they become records at once; before, rustls buffers what
\* fits and write_all fails on the rest.
WriterRead(n, st) ==
  /\ wpc = "read" /\ rpc # "pump"
  /\ "cleartext_in" \in far
  /\ accepted + n <= MaxSend
  /\ far' = IF st = "dropped" THEN far \ {"cleartext_in"} ELSE far
  /\ LET ids  == Units(accepted, n)
         room == BUFLIMIT - Len(sbuf)
         fits == ~Handshaking \/ n <= room
         queue == IF Handshaking THEN ctq ELSE ctq \o AppRecords(ids)
     IN  /\ accepted' = IF fits THEN accepted + n ELSE accepted + room
         /\ sbuf' = IF ~Handshaking THEN sbuf
                    ELSE IF fits THEN sbuf \o ids
                    ELSE sbuf \o Units(accepted, room)
         /\ hsig' = IF fits THEN Check(hsig) ELSE hsig
         /\ \/ /\ ~fits
               /\ WriterFinish("err")
               /\ UNCHANGED <<ctq, alerted>>
            \/ /\ fits /\ st = "dropped"
               /\ WriterClose(queue)
            \/ /\ fits /\ st = "ok"
               /\ ctq' = queue
               /\ UNCHANGED <<wpc, send_done, held, sinks, alerted>>
  /\ UNCHANGED <<readerVars, rustlsIn, recv_done, tx, carried, consumed>>

\* The read returns no bytes because the consumer closed its stream.
WriterEof ==
  /\ wpc = "read" /\ rpc # "pump"
  /\ "cleartext_in" \notin far
  /\ WriterClose(ctq)
  /\ UNCHANGED <<readerVars, rustlsIn, sbuf, accepted, hsig, recv_done, far,
                 tx, carried, consumed>>

\* send_done.write returns.
WriterVerdictTaken ==
  /\ wpc = "verdict"
  /\ wpc' = "done"
  /\ UNCHANGED <<readerVars, rustlsIn, rustlsOut, verdicts, ends, txVars,
                 consumed>>

-----------------------------------------------------------------------------
(* transmit_task *)

TransmitNext ==
  /\ rpc # "pump"
  /\ tx = <<>> /\ ctq # <<>>
  /\ tx' = <<Head(ctq)>>
  /\ ctq' = Tail(ctq)
  /\ UNCHANGED <<readerVars, wpc, rustlsIn, rustlsOut, verdicts, ends, carried,
                 consumed>>

\* Mutant: a single write instead of write_all.
TransmitLostAlways ==
  /\ rpc # "pump" /\ tx # <<>>
  /\ tx' = <<>>
  /\ UNCHANGED <<readerVars, wpc, rustlsIn, rustlsOut, verdicts, ends, ctq,
                 carried, consumed>>

\* write_all gives up on an item when the transport dropped its end; the
\* result is ignored and the task goes on draining the queue.
TransmitLost ==
  /\ rpc # "pump"
  /\ tx # <<>> /\ "ciphertext_out" \notin far
  /\ tx' = <<>>
  /\ UNCHANGED <<readerVars, wpc, rustlsIn, rustlsOut, verdicts, ends, ctq,
                 carried, consumed>>

\* Both senders are gone and the queue is empty: the writer end is dropped.
TransmitEnd ==
  /\ rpc # "pump"
  /\ tx = <<>> /\ ctq = <<>> /\ sinks = {}
  /\ "ciphertext_out" \in held
  /\ held' = held \ {"ciphertext_out"}
  /\ UNCHANGED <<readerVars, wpc, rustlsIn, rustlsOut, verdicts, far, sinks,
                 txVars, consumed>>

-----------------------------------------------------------------------------
(* The consumer and the transport, outside the component. *)

\* The consumer reads the first n units of a pending write_all.
ConsumerRead(n) ==
  /\ rpc = "deliver" /\ "cleartext_out" \in far
  /\ n <= Len(out)
  /\ consumed' = consumed \o SubSeq(out, 1, n)
  /\ out' = SubSeq(out, n + 1, Len(out))
  /\ UNCHANGED <<rpc, cursor, status, failed, clean, wpc, rustlsIn, rustlsOut,
                 verdicts, ends, txVars>>

\* The transport reads the pending record.
TransportRead ==
  /\ tx # <<>> /\ "ciphertext_out" \in far
  /\ carried' = carried \o tx
  /\ tx' = <<>>
  /\ UNCHANGED <<readerVars, wpc, rustlsIn, rustlsOut, verdicts, ends, ctq,
                 consumed>>

\* The other end of a stream is dropped: the consumer closes cleartext_in or
\* stops reading, the transport ends or stops reading.
DropFar(s) ==
  /\ s \in far
  /\ far' = far \ {s}
  /\ UNCHANGED <<readerVars, wpc, rustlsIn, rustlsOut, verdicts, held, sinks,
                 txVars, consumed>>

\* All three tasks have returned.
Finished ==
  /\ rpc = "done" /\ wpc = "done" /\ "ciphertext_out" \notin held
  /\ far = {}
  /\ UNCHANGED vars

-----------------------------------------------------------------------------
ReaderLoop ==
  \/ ReadTlsFull \/ ReadTlsEof
  \/ ProcessHandshake \/ ProcessPart \/ ProcessData \/ ProcessClose
  \/ \E alert \in BOOLEAN : ProcessBad(alert)

Reader == ReaderLoop \/ ReaderTake \/ ReaderDelivered \/ ReaderEof

Transmit == TransmitNext \/ TransmitLost \/ TransmitEnd

Next ==
  \/ \E n \in 1..CHUNK, st \in {"ok", "dropped"} : ReaderRead(n, st)
  \/ Reader \/ ReaderVerdictTaken
  \/ \E n \in 1..CHUNK, st \in {"ok", "dropped"} : WriterRead(n, st)
  \/ WriterEof \/ WriterVerdictTaken
  \/ Transmit
  \/ \E n \in 1..Len(out) : ConsumerRead(n)
  \/ TransportRead
  \/ \E s \in Streams : DropFar(s)
  \/ Finished

Spec == Init /\ [][Next]_vars

(* The executor polls every task that can move; the consumer reads the      *)
(* cleartext it is given and the transport the ciphertext.  Nobody is       *)
(* obliged to send more data, to close a stream or to look at a future.     *)
Fairness ==
  /\ WF_vars(Reader)
  /\ WF_vars(WriterEof)
  /\ WF_vars(Transmit)
  /\ WF_vars(\E n \in 1..Len(out) : ConsumerRead(n))
  /\ WF_vars(TransportRead)

FairSpec == Spec /\ Fairness

-----------------------------------------------------------------------------
(* Properties *)

Signals  == {"pending", "ok", "err"}
Verdicts == {"pending", "ok", "tls", "io", "truncated"}

\* Every variable keeps the type its Rust counterpart has.
TypeOK ==
  /\ rpc \in {"read", "pump", "deliver", "verdict", "done"}
  /\ cursor \in 0..CHUNK
  /\ status \in {"ok", "dropped"}
  /\ failed \in {"none", "tls", "io"}
  /\ clean \in BOOLEAN
  /\ out \in Seq(Nat)
  /\ wpc \in {"read", "verdict", "done"}
  /\ tx \in Seq(Record)
  /\ ctq \in Seq(Record)
  /\ sinks \subseteq {"reader", "writer"}
  /\ held \subseteq Streams
  /\ far \subseteq Streams
  /\ hsig \in Signals
  /\ recv_done \in Verdicts
  /\ send_done \in {"pending", "ok", "err"}
  /\ hs \in 0..HsLen
  /\ rx \in Seq(Nat)
  /\ rclosed \in BOOLEAN
  /\ part \in Nat
  /\ sbuf \in Seq(Nat) /\ Len(sbuf) <= BUFLIMIT
  /\ alerted \in BOOLEAN
  /\ received \in Nat
  /\ consumed \in Seq(Nat)
  /\ accepted \in Nat
  /\ carried \in Seq(Record)

HandshakeReported == rpc \in {"verdict", "done"} => hsig # "pending"

HandshakeTruthful ==
  /\ hsig = "ok" => ~Handshaking
  /\ hsig = "err" => Handshaking

NoDataBeforeHandshake == out # <<>> \/ consumed # <<>> => hsig = "ok"

\* connect and accept tell the truth, and tell it in time.  They resolve ok
\* exactly when the handshake completed, however its end, a refused record
\* and the end of the transport fall into the same buffer; no plaintext
\* reaches the consumer before; and since `run` holds its own clone of the
\* oneshot's sender, a reader that is over has signalled.
HandshakeHonest ==
  HandshakeReported /\ HandshakeTruthful /\ NoDataBeforeHandshake

\* What the consumer read, what is being handed over and what rustls still
\* holds is, in this order, exactly what was decrypted, as long as the
\* consumer keeps its end of cleartext_out.
ReceivedInOrder ==
  "cleartext_out" \in far => consumed \o out \o rx = Units(0, received)

\* A receive verdict `ok` is never a truncation: the peer's close_notify was
\* processed and all plaintext before it was handed over (or the consumer
\* dropped cleartext_out).
CleanVerdictComplete ==
  recv_done = "ok" =>
    /\ rclosed
    /\ "cleartext_out" \in far => consumed = Units(0, received)

AppAt(recs) == {i \in DOMAIN recs : recs[i].kind = "app"}

\* The application records of recs carry the units 1 to n, each once and in
\* order.
CarryUnits(recs, n) ==
  /\ \A i, j \in AppAt(recs) : i < j => recs[i].id < recs[j].id
  /\ {recs[i].id : i \in AppAt(recs)} = 1..n

\* Cleartext the endpoint accepted goes out once and in order, whether it
\* was buffered during the handshake by the writer and flushed by the
\* reader, or written directly: nothing is lost, doubled or overtaken as
\* long as the transport reads.
SentInOrder ==
  "ciphertext_out" \in far =>
    LET encrypted == accepted - Len(sbuf)
    IN  /\ CarryUnits(carried \o tx \o ctq, encrypted)
        /\ sbuf = Units(encrypted, Len(sbuf))

ReleasedBeforeVerdict ==
  /\ recv_done # "pending" =>
       {"ciphertext_in", "cleartext_out"} \cap held = {} /\ "reader" \notin sinks
  /\ send_done # "pending" => "cleartext_in" \notin held /\ "writer" \notin sinks

NothingCutOff ==
  "ciphertext_out" \notin held => ctq = <<>> /\ tx = <<>>

\* The terminal ordering pump.rs calls a contract: when a verdict is offered
\* the direction's stream ends and its transmit-queue sender are released,
\* and once ciphertext_out is closed nothing is queued for it any more, nor
\* is anything queued later: no alert, close_notify or data is cut off.
\* When it closes after the close of the cleartext is not part of it: tls.wit
\* closes it then, the code when the other direction has ended as well.
TerminalOrder == ReleasedBeforeVerdict /\ NothingCutOff

\* When the transport ends, or a close_notify has been processed although the
\* transport stays open, connect or accept resolves and the cleartext stream
\* closes; and when both directions have ended the ciphertext stream closes.
\* Nobody needs to read the futures for it.
EndIsTold ==
  /\ ("ciphertext_in" \notin far \/ rclosed)
       ~> hsig # "pending" /\ "cleartext_out" \notin held
  /\ ("ciphertext_in" \notin far /\ "cleartext_in" \notin far)
       ~> "ciphertext_out" \notin held

-----------------------------------------------------------------------------
(* The receive direction as a pipe from the peer to the consumer. *)

ReceivePipe == INSTANCE Pipe WITH
  sent  <- received,
  got   <- consumed,
  ended <- rclosed,
  told  <- IF recv_done = "pending" THEN "none"
           ELSE IF recv_done = "ok" THEN "clean" ELSE "cut",
  left  <- "cleartext_out" \notin far

\* Seen from the peer and the consumer alone, the reader task and rustls with
\* all their buffers are a pipe: what is decrypted is handed over in order,
\* and the verdict, ok or not, comes after all of it.
ImplementsPipe == ReceivePipe!Spec

-----------------------------------------------------------------------------
(* What wit/README.md and wit/tls.wit say of the streams and futures, where  *)
(* the code does something else.                                             *)

\* "Closing `cleartext` sends a TLS `close_notify`", after the data written
\* before the close: no application record follows the close_notify.
CloseNotifyLast ==
  LET sent == carried \o tx \o ctq
  IN  \A i, j \in DOMAIN sent :
        i < j /\ sent[i].kind = "close" => sent[j].kind # "app"
=============================================================================
