--------------------------- MODULE TlsPumpProofs ---------------------------
(***************************************************************************)
(* Theorems about TlsPump, for every chunk size, buffer limit, handshake   *)
(* length and amount of data.                                              *)
(***************************************************************************)
EXTENDS TlsPump, SequenceTheorems, TLAPS

-----------------------------------------------------------------------------
(* The reader's inductive invariant. *)

ReaderOver == rpc \in {"verdict", "done"}

\* The oneshot is settled as soon as the reader leaves its synchronous loop
\* with a complete handshake, and at the latest when it ends; a failure is
\* only ever reported by a reader that ends.
SignalInv ==
  /\ hsig = "ok" => ~Handshaking
  /\ hsig = "err" => Handshaking /\ ReaderOver
  /\ hsig = "pending" /\ rpc # "pump" => Handshaking /\ ~ReaderOver

\* Only a complete handshake yields a close_notify or plaintext, and
\* plaintext is in rustls only inside the loop, in `out` only while the
\* reader's write_all is pending.
PlaintextInv ==
  /\ clean => rclosed
  /\ rclosed => ~Handshaking
  /\ rx # <<>> => ~Handshaking /\ rpc = "pump"
  /\ out # <<>> => hsig = "ok" /\ rpc = "deliver"
  /\ consumed # <<>> => hsig = "ok"

\* A verdict is offered exactly when its task is over, and `ok` only after a
\* close_notify.
VerdictInv ==
  /\ (recv_done # "pending") <=> ReaderOver
  /\ (send_done # "pending") <=> wpc # "read"
  /\ recv_done = "ok" => rclosed

ControlInv == SignalInv /\ PlaintextInv /\ VerdictInv /\ ReleasedBeforeVerdict

-----------------------------------------------------------------------------
(* The operators the model is built from. *)

\* Units(k, n) is a sequence of n numbers.
LEMMA UnitsType ==
  ASSUME NEW k \in Nat, NEW n \in Nat
  PROVE  Units(k, n) \in Seq(Nat) /\ Len(Units(k, n)) = n
BY DEF Units

\* Consecutive runs of units concatenate.
LEMMA UnitsConcat ==
  ASSUME NEW k \in Nat, NEW n \in Nat
  PROVE  Units(0, k) \o Units(k, n) = Units(0, k + n)
<1>1. /\ Units(0, k) \in Seq(Nat) /\ Len(Units(0, k)) = k
      /\ Units(k, n) \in Seq(Nat) /\ Len(Units(k, n)) = n
      /\ Units(0, k + n) \in Seq(Nat) /\ Len(Units(0, k + n)) = k + n
  BY UnitsType
<1>2. /\ Units(0, k) \o Units(k, n) \in Seq(Nat)
      /\ Len(Units(0, k) \o Units(k, n)) = k + n
  BY <1>1
<1>3. ASSUME NEW i \in 1..(k + n)
      PROVE  (Units(0, k) \o Units(k, n))[i] = Units(0, k + n)[i]
  <2>1. Units(0, k + n)[i] = i
    BY DEF Units
  <2>2. CASE i <= k
    <3>1. (Units(0, k) \o Units(k, n))[i] = Units(0, k)[i]
      BY <1>1, <2>2
    <3>2. Units(0, k)[i] = i
      BY <2>2 DEF Units
    <3>3. QED BY <2>1, <3>1, <3>2
  <2>3. CASE i > k
    <3>1. \A a, b \in Seq(Nat) : \A j \in 1..(Len(a) + Len(b)) :
            (a \o b)[j] = IF j <= Len(a) THEN a[j] ELSE b[j - Len(a)]
      BY ConcatProperties
    <3>2. i \in 1..(Len(Units(0, k)) + Len(Units(k, n))) /\ ~(i <= Len(Units(0, k)))
      BY <1>1, <2>3
    <3>3. (Units(0, k) \o Units(k, n))[i] = Units(k, n)[i - Len(Units(0, k))]
      BY <1>1, <3>1, <3>2, Zenon
    <3>4. Units(k, n)[i - k] = i
      BY <2>3 DEF Units
    <3>5. QED BY <1>1, <2>1, <3>3, <3>4
  <2>4. i <= k \/ i > k
    OBVIOUS
  <2>5. QED BY <2>2, <2>3, <2>4
<1>4. QED BY <1>1, <1>2, <1>3, SeqEqual

\* Records for plaintext units are records.
LEMMA AppRecordsType ==
  ASSUME NEW ids \in Seq(Nat)
  PROVE  AppRecords(ids) \in Seq(Record)
<1>1. \A i \in 1..Len(ids) : [kind |-> "app", id |-> ids[i]] \in Record
  BY DEF Record
<1>2. QED BY <1>1 DEF AppRecords

\* The control records are records.
LEMMA RecordConstants ==
  HsRecord \in Record /\ CloseRecord \in Record /\ AlertRecord \in Record
BY DEF HsRecord, CloseRecord, AlertRecord, Record

-----------------------------------------------------------------------------
(* Types *)

\* Every variable of the endpoint keeps its type: in particular rustls's
\* buffer of early plaintext never exceeds its limit, so what a failing
\* write_all still accepts is a number.
THEOREM TypeCorrect == Spec => []TypeOK
<1> USE ConstantsAssumption DEF TypeOK, Signals, Verdicts
<1>1. Init => TypeOK
  <2> SUFFICES ASSUME Init PROVE TypeOK
    OBVIOUS
  <2>1. ctq \in Seq(Record)
    <3>1. <<HsRecord>> \in Seq(Record) /\ <<>> \in Seq(Record)
      BY RecordConstants
    <3>2. QED BY <3>1 DEF Init
  <2>2. clean \in BOOLEAN /\ rclosed \in BOOLEAN /\ alerted \in BOOLEAN
    BY DEF Init
  <2>3. QED BY <2>1, <2>2 DEF Init, Streams
<1>2. TypeOK /\ [Next]_vars => TypeOK'
  <2> SUFFICES ASSUME TypeOK, [Next]_vars PROVE TypeOK'
    OBVIOUS
  <2> USE DEF readerVars, rustlsIn, rustlsOut, verdicts, ends, txVars
  <2>1. ASSUME NEW n \in 1..CHUNK, NEW st \in {"ok", "dropped"}, ReaderRead(n, st)
        PROVE  TypeOK'
    BY <2>1 DEF ReaderRead
  <2>2. CASE ReadTlsFull
    BY <2>2 DEF ReadTlsFull
  <2>3. CASE ReadTlsEof
    BY <2>3 DEF ReadTlsEof
  <2>4. CASE ProcessHandshake
    <3>1. ctq' \in Seq(Record) /\ sbuf' \in Seq(Nat) /\ Len(sbuf') <= BUFLIMIT
      <4>1. Append(ctq, HsRecord) \in Seq(Record) /\ AppRecords(sbuf) \in Seq(Record)
        BY AppRecordsType, RecordConstants
      <4>2. Append(ctq, HsRecord) \o AppRecords(sbuf) \in Seq(Record)
        BY <4>1
      <4>3. <<>> \in Seq(Nat) /\ Len(<<>>) <= BUFLIMIT
        OBVIOUS
      <4>4. QED BY <2>4, <4>2, <4>3 DEF ProcessHandshake
    <3>2. hs' \in 0..HsLen /\ cursor' \in 0..CHUNK
      BY <2>4 DEF ProcessHandshake, ReadTls, InLoop, Handshaking
    <3>3. tx' \in Seq(Record) /\ carried' \in Seq(Record) /\ rx' \in Seq(Nat)
      BY <2>4 DEF ProcessHandshake
    <3>4. QED BY <2>4, <3>1, <3>2, <3>3 DEF ProcessHandshake
  <2>5. CASE ProcessPart
    BY <2>5 DEF ProcessPart, ReadTls, InLoop
  <2>6. CASE ProcessData
    <3>1. rx' \in Seq(Nat)
      BY <2>6, UnitsType DEF ProcessData
    <3>2. QED BY <2>6, <3>1 DEF ProcessData, ReadTls, InLoop
  <2>7. CASE ProcessClose
    BY <2>7 DEF ProcessClose, ReadTls, InLoop
  <2>8. ASSUME NEW alert \in BOOLEAN, ProcessBad(alert)
        PROVE  TypeOK'
    <3>1. ctq' \in Seq(Record)
      BY <2>8, RecordConstants DEF ProcessBad
    <3>2. QED BY <2>8, <3>1 DEF ProcessBad, ReadTls, InLoop
  <2>9. CASE ReaderTake
    <3>1. clean' \in BOOLEAN /\ rclosed' \in BOOLEAN /\ alerted' \in BOOLEAN
      BY <2>9 DEF ReaderTake
    <3>2. Check(hsig) \in Signals /\ Fail(Check(hsig)) \in Signals
      BY DEF Check, Fail
    <3>3. /\ rpc' \in {"read", "deliver", "verdict"}
          /\ hsig' \in {Check(hsig), Fail(Check(hsig))}
          /\ recv_done' \in {recv_done, failed, "ok", "truncated"}
          /\ failed = "none" => recv_done' \in {recv_done, "ok", "truncated"}
          /\ held' \subseteq Streams /\ sinks' \subseteq {"reader", "writer"}
      BY <2>9 DEF ReaderTake, Conclude, ReaderFinish
    <3>4. out' \in Seq(Nat) /\ rx' \in Seq(Nat)
      BY <2>9 DEF ReaderTake
    <3>5. QED BY <2>9, <3>1, <3>2, <3>3, <3>4 DEF ReaderTake
  <2>10. CASE ReaderDelivered
    <3>1. Fail(hsig) \in Signals
      BY DEF Fail
    <3>2. /\ rpc' \in {"read", "deliver", "verdict"}
          /\ hsig' \in {hsig, Fail(hsig)}
          /\ recv_done' \in {recv_done, failed, "ok", "truncated"}
          /\ failed = "none" => recv_done' \in {recv_done, "ok", "truncated"}
          /\ held' \subseteq Streams /\ sinks' \subseteq {"reader", "writer"}
      BY <2>10 DEF ReaderDelivered, Conclude, ReaderFinish
    <3>3. out' \in Seq(Nat)
      BY <2>10 DEF ReaderDelivered
    <3>4. QED BY <2>10, <3>1, <3>2, <3>3 DEF ReaderDelivered
  <2>11. CASE ReaderEof
    BY <2>11 DEF ReaderEof, ReaderFinish, Fail
  <2>12. CASE ReaderVerdictTaken
    BY <2>12 DEF ReaderVerdictTaken
  <2>13. ASSUME NEW n \in 1..CHUNK, NEW st \in {"ok", "dropped"}, WriterRead(n, st)
         PROVE  TypeOK'
    <3> DEFINE ids  == Units(accepted, n)
               room == BUFLIMIT - Len(sbuf)
               fits == ~Handshaking \/ n <= room
               queue == IF Handshaking THEN ctq ELSE ctq \o AppRecords(ids)
    <3>1. n \in Nat /\ room \in Nat /\ Len(sbuf) \in Nat
      OBVIOUS
    <3>2. ids \in Seq(Nat) /\ Len(ids) = n
      BY <3>1, UnitsType
    <3>3. Units(accepted, room) \in Seq(Nat) /\ Len(Units(accepted, room)) = room
      BY <3>1, UnitsType
    <3>4. AppRecords(ids) \in Seq(Record)
      BY <3>2, AppRecordsType
    <3>5. queue \in Seq(Record) /\ Append(queue, CloseRecord) \in Seq(Record)
      BY <3>4, RecordConstants
    <3>6. ctq' \in {ctq, queue, Append(queue, CloseRecord)}
      BY <2>13 DEF WriterRead, WriterClose
    <3>7. sbuf' \in Seq(Nat) /\ Len(sbuf') <= BUFLIMIT
      <4>1. CASE ~Handshaking
        BY <2>13, <4>1 DEF WriterRead
      <4>2. CASE Handshaking /\ n <= room
        <5>1. sbuf' = sbuf \o ids
          BY <2>13, <4>2 DEF WriterRead
        <5>2. QED BY <3>1, <3>2, <4>2, <5>1
      <4>3. CASE Handshaking /\ ~(n <= room)
        <5>1. sbuf' = sbuf \o Units(accepted, room)
          BY <2>13, <4>3 DEF WriterRead
        <5>2. QED BY <3>1, <3>3, <5>1
      <4>4. QED BY <4>1, <4>2, <4>3
    <3>8. accepted' \in Nat
      BY <2>13, <3>1 DEF WriterRead
    <3>9. hsig' \in Signals /\ alerted' \in BOOLEAN /\ far' \subseteq Streams
      BY <2>13 DEF WriterRead, WriterClose, Check
    <3>10. /\ wpc' \in {"read", "verdict", "done"}
           /\ send_done' \in {"pending", "ok", "err"}
           /\ held' \subseteq Streams /\ sinks' \subseteq {"reader", "writer"}
      BY <2>13 DEF WriterRead, WriterClose, WriterFinish
    <3>11. QED
      BY <2>13, <3>5, <3>6, <3>7, <3>8, <3>9, <3>10 DEF WriterRead
  <2>14. CASE WriterEof
    <3>1. ctq' \in Seq(Record)
      BY <2>14, RecordConstants DEF WriterEof, WriterClose
    <3>2. QED BY <2>14, <3>1 DEF WriterEof, WriterClose, WriterFinish
  <2>15. CASE WriterVerdictTaken
    BY <2>15 DEF WriterVerdictTaken
  <2>16. CASE TransmitNext
    BY <2>16 DEF TransmitNext
  <2>17. CASE TransmitLost
    BY <2>17 DEF TransmitLost
  <2>18. CASE TransmitEnd
    BY <2>18 DEF TransmitEnd
  <2>19. ASSUME NEW n \in 1..Len(out), ConsumerRead(n)
         PROVE  TypeOK'
    <3>1. consumed' \in Seq(Nat) /\ out' \in Seq(Nat)
      <4>1. SubSeq(out, 1, n) \in Seq(Nat) /\ SubSeq(out, n + 1, Len(out)) \in Seq(Nat)
        OBVIOUS
      <4>2. QED BY <2>19, <4>1 DEF ConsumerRead
    <3>2. QED BY <2>19, <3>1 DEF ConsumerRead
  <2>20. CASE TransportRead
    BY <2>20 DEF TransportRead
  <2>21. ASSUME NEW s \in Streams, DropFar(s)
         PROVE  TypeOK'
    BY <2>21 DEF DropFar
  <2>22. CASE Finished
    BY <2>22 DEF Finished, vars
  <2>23. CASE UNCHANGED vars
    BY <2>23 DEF vars
  <2>24. QED
    BY <2>1, <2>2, <2>3, <2>4, <2>5, <2>6, <2>7, <2>8, <2>9, <2>10, <2>11,
       <2>12, <2>13, <2>14, <2>15, <2>16, <2>17, <2>18, <2>19, <2>20, <2>21,
       <2>22, <2>23 DEF Next, Reader, ReaderLoop, Transmit
<1>3. QED BY <1>1, <1>2, PTL DEF Spec

-----------------------------------------------------------------------------
(* Control: the oneshot, the verdicts and the stream ends *)

\* The reader's and the writer's control is as ControlInv says: which states
\* of the oneshot, of rustls and of the stream ends go with which point of
\* the tasks.
THEOREM ControlCorrect == Spec => []ControlInv
<1>1. Init => ControlInv
  BY ConstantsAssumption
     DEF Init, ControlInv, SignalInv, PlaintextInv, VerdictInv,
         ReleasedBeforeVerdict, ReaderOver, Handshaking
<1>2. TypeOK /\ ControlInv /\ [Next]_vars => ControlInv'
  <2> SUFFICES ASSUME TypeOK, ControlInv, [Next]_vars PROVE ControlInv'
    OBVIOUS
  <2> USE ConstantsAssumption
          DEF ControlInv, SignalInv, PlaintextInv, VerdictInv,
              ReleasedBeforeVerdict, ReaderOver, Handshaking,
              TypeOK, Signals, Verdicts,
              readerVars, rustlsIn, rustlsOut, verdicts, ends, txVars
  <2>1. ASSUME NEW n \in 1..CHUNK, NEW st \in {"ok", "dropped"}, ReaderRead(n, st)
        PROVE  ControlInv'
    BY <2>1 DEF ReaderRead
  <2>2. CASE ReadTlsFull
    BY <2>2 DEF ReadTlsFull, InLoop
  <2>3. CASE ReadTlsEof
    BY <2>3 DEF ReadTlsEof, InLoop
  <2>4. CASE ProcessHandshake
    BY <2>4 DEF ProcessHandshake, ReadTls, InLoop
  <2>5. CASE ProcessPart
    BY <2>5 DEF ProcessPart, ReadTls, InLoop
  <2>6. CASE ProcessData
    BY <2>6 DEF ProcessData, ReadTls, InLoop
  <2>7. CASE ProcessClose
    BY <2>7 DEF ProcessClose, ReadTls, InLoop
  <2>8. ASSUME NEW alert \in BOOLEAN, ProcessBad(alert)
        PROVE  ControlInv'
    BY <2>8 DEF ProcessBad, ReadTls, InLoop
  <2>9. CASE ReaderTake
    BY <2>9 DEF ReaderTake, Conclude, ReaderFinish, Check, Fail
  <2>10. CASE ReaderDelivered
    BY <2>10 DEF ReaderDelivered, Conclude, ReaderFinish, Fail
  <2>11. CASE ReaderEof
    BY <2>11 DEF ReaderEof, ReaderFinish, Fail
  <2>12. CASE ReaderVerdictTaken
    BY <2>12 DEF ReaderVerdictTaken
  <2>13. ASSUME NEW n \in 1..CHUNK, NEW st \in {"ok", "dropped"}, WriterRead(n, st)
        PROVE  ControlInv'
    BY <2>13 DEF WriterRead, WriterClose, WriterFinish, Check
  <2>14. CASE WriterEof
    BY <2>14 DEF WriterEof, WriterClose, WriterFinish
  <2>15. CASE WriterVerdictTaken
    BY <2>15 DEF WriterVerdictTaken
  <2>16. CASE TransmitNext
    BY <2>16 DEF TransmitNext
  <2>17. CASE TransmitLost
    BY <2>17 DEF TransmitLost
  <2>18. CASE TransmitEnd
    BY <2>18 DEF TransmitEnd
  <2>19. ASSUME NEW n \in 1..Len(out), ConsumerRead(n)
        PROVE  ControlInv'
    BY <2>19 DEF ConsumerRead
  <2>20. CASE TransportRead
    BY <2>20 DEF TransportRead
  <2>21. ASSUME NEW s \in Streams, DropFar(s)
        PROVE  ControlInv'
    BY <2>21 DEF DropFar
  <2>22. CASE Finished
    BY <2>22 DEF Finished, vars
  <2>23. CASE UNCHANGED vars
    BY <2>23 DEF vars
  <2>24. QED
    BY <2>1, <2>2, <2>3, <2>4, <2>5, <2>6, <2>7, <2>8, <2>9, <2>10, <2>11, <2>12, <2>13, <2>14, <2>15, <2>16, <2>17, <2>18, <2>19, <2>20, <2>21, <2>22, <2>23
       DEF Next, Reader, ReaderLoop, Transmit
<1>3. QED BY <1>1, <1>2, TypeCorrect, PTL DEF Spec

\* connect and accept are always answered and answered truthfully, before any
\* plaintext is handed over.
THEOREM HandshakeIsHonest == Spec => []HandshakeHonest
<1>1. ControlInv => HandshakeReported
  BY DEF ControlInv, SignalInv, ReaderOver, HandshakeReported
<1>2. ControlInv => HandshakeTruthful
  BY DEF ControlInv, SignalInv, HandshakeTruthful
<1>3. ControlInv => NoDataBeforeHandshake
  BY DEF ControlInv, PlaintextInv, NoDataBeforeHandshake
<1>4. ControlInv => HandshakeHonest
  BY <1>1, <1>2, <1>3 DEF HandshakeHonest
<1>5. QED BY <1>4, ControlCorrect, PTL

\* A task owns its sender of the transmit queue exactly until it is over, so
\* an empty queue with no sender stays empty.
DrainInv ==
  /\ "reader" \in sinks <=> ~ReaderOver
  /\ "writer" \in sinks <=> wpc = "read"
  /\ "ciphertext_out" \notin held => sinks = {} /\ ctq = <<>> /\ tx = <<>>

\* The terminal ordering: stream ends and queue sender go before the verdict,
\* and once the ciphertext stream is closed nothing waits for it: neither the
\* alert of a failing reader nor the close_notify of the writer is cut off.
THEOREM TerminalOrdering == Spec => []TerminalOrder
<1>1. Init => DrainInv
  BY DEF Init, DrainInv, ReaderOver, Streams
<1>2. TypeOK /\ DrainInv /\ [Next]_vars => DrainInv'
  <2> SUFFICES ASSUME TypeOK, DrainInv, [Next]_vars PROVE DrainInv'
    OBVIOUS
  <2> USE DEF DrainInv, ReaderOver,
              readerVars, rustlsIn, rustlsOut, verdicts, ends, txVars
  <2>0. sinks \subseteq {"reader", "writer"}
    BY DEF TypeOK
  <2>1. CASE \E n \in 1..CHUNK, st \in {"ok", "dropped"} : ReaderRead(n, st)
    BY <2>1 DEF ReaderRead
  <2>2. CASE ReaderLoop
    <3>1. "reader" \in sinks /\ UNCHANGED <<rpc, wpc, sinks, held>>
      BY <2>2
         DEF ReaderLoop, ReadTlsFull, ReadTlsEof, ProcessHandshake,
             ProcessPart, ProcessData, ProcessClose, ProcessBad, ReadTls, InLoop
    <3>2. QED BY <3>1
  <2>3. CASE ReaderTake
    BY <2>0, <2>3 DEF ReaderTake, Conclude, ReaderFinish
  <2>4. CASE ReaderDelivered
    BY <2>0, <2>4 DEF ReaderDelivered, Conclude, ReaderFinish
  <2>5. CASE ReaderEof
    BY <2>0, <2>5 DEF ReaderEof, ReaderFinish
  <2>6. CASE ReaderVerdictTaken
    BY <2>6 DEF ReaderVerdictTaken
  <2>7. CASE \E n \in 1..CHUNK, st \in {"ok", "dropped"} : WriterRead(n, st)
    BY <2>0, <2>7 DEF WriterRead, WriterClose, WriterFinish
  <2>8. CASE WriterEof
    BY <2>0, <2>8 DEF WriterEof, WriterClose, WriterFinish
  <2>9. CASE WriterVerdictTaken
    BY <2>9 DEF WriterVerdictTaken
  <2>10. CASE Transmit
    BY <2>10 DEF Transmit, TransmitNext, TransmitLost, TransmitEnd
  <2>11. CASE \E n \in 1..Len(out) : ConsumerRead(n)
    BY <2>11 DEF ConsumerRead
  <2>12. CASE TransportRead
    BY <2>12 DEF TransportRead
  <2>13. CASE \E s \in Streams : DropFar(s)
    BY <2>13 DEF DropFar
  <2>14. CASE Finished \/ UNCHANGED vars
    BY <2>14 DEF Finished, vars
  <2>15. QED
    BY <2>1, <2>2, <2>3, <2>4, <2>5, <2>6, <2>7, <2>8, <2>9, <2>10, <2>11,
       <2>12, <2>13, <2>14 DEF Next, Reader
<1>3. ControlInv /\ DrainInv => TerminalOrder
  BY DEF ControlInv, VerdictInv, DrainInv, ReaderOver, NothingCutOff,
         ReleasedBeforeVerdict, TerminalOrder
<1>4. QED BY <1>1, <1>2, <1>3, TypeCorrect, ControlCorrect, PTL DEF Spec

-----------------------------------------------------------------------------
(* The plaintext the consumer reads *)

\* Concatenation of plaintext is associative.
LEMMA PlaintextAssoc ==
  ASSUME NEW s \in Seq(Nat), NEW t \in Seq(Nat), NEW u \in Seq(Nat)
  PROVE  (s \o t) \o u = s \o (t \o u)
BY ConcatAssociative

\* A step that leaves the receive direction's data alone keeps the order.
LEMMA ReceivedUnchanged ==
  ASSUME ReceivedInOrder, UNCHANGED <<out, rx, received, consumed>>,
         far' \subseteq far
  PROVE  ReceivedInOrder'
BY DEF ReceivedInOrder

\* Decrypted plaintext is neither lost, doubled nor reordered on its way to a
\* consumer that keeps its stream.
THEOREM ReceiveOrder == Spec => []ReceivedInOrder
<1>1. Init => ReceivedInOrder
  <2>1. Units(0, 0) = <<>>
    BY DEF Units
  <2>2. <<>> \o <<>> \o <<>> = <<>>
    OBVIOUS
  <2>3. QED BY <2>1, <2>2 DEF Init, ReceivedInOrder
<1>2. TypeOK /\ ControlInv /\ ReceivedInOrder /\ [Next]_vars => ReceivedInOrder'
  <2> SUFFICES ASSUME TypeOK, ControlInv, ReceivedInOrder, [Next]_vars
               PROVE  ReceivedInOrder'
    OBVIOUS
  <2> USE DEF readerVars, rustlsIn, rustlsOut, verdicts, ends, txVars
  <2>0. /\ consumed \in Seq(Nat) /\ out \in Seq(Nat) /\ rx \in Seq(Nat)
        /\ received \in Nat /\ part \in Nat
    BY DEF TypeOK
  <2>1. CASE ProcessData
    <3> SUFFICES ASSUME "cleartext_out" \in far
                 PROVE  consumed \o out \o rx' = Units(0, received')
      BY <2>1 DEF ProcessData, ReceivedInOrder
    <3>1. Units(received, part + 1) \in Seq(Nat)
      BY <2>0, UnitsType
    <3>2. consumed \o out \in Seq(Nat)
      BY <2>0
    <3>3. (consumed \o out) \o (rx \o Units(received, part + 1))
            = ((consumed \o out) \o rx) \o Units(received, part + 1)
      BY <2>0, <3>1, <3>2, PlaintextAssoc, Zenon
    <3>4. @ = Units(0, received) \o Units(received, part + 1)
      BY DEF ReceivedInOrder
    <3>5. part + 1 \in Nat
      BY <2>0
    <3>6. Units(0, received) \o Units(received, part + 1)
            = Units(0, received + (part + 1))
      BY <2>0, <3>5, UnitsConcat, Zenon
    <3>7. rx' = rx \o Units(received, part + 1) /\ received' = received + (part + 1)
      BY <2>0, <2>1 DEF ProcessData
    <3>8. QED BY <3>3, <3>4, <3>6, <3>7, Zenon
  <2>2. CASE ReaderTake
    <3>1. out = <<>>
      BY <2>2 DEF ReaderTake, ControlInv, PlaintextInv
    <3>2. out' = rx /\ rx' = <<>>
      BY <2>2 DEF ReaderTake
    <3>3. consumed \o out \o rx = consumed \o rx \o <<>>
      BY <2>0, <3>1, ConcatEmptySeq, ConcatProperties
    <3>4. QED BY <2>2, <3>2, <3>3 DEF ReaderTake, ReceivedInOrder
  <2>3. CASE ReaderDelivered
    <3>1. CASE out = <<>>
      BY <2>3, <3>1, ReceivedUnchanged DEF ReaderDelivered
    <3>2. CASE "cleartext_out" \notin far
      BY <2>3, <3>2 DEF ReaderDelivered, ReceivedInOrder
    <3>3. QED BY <2>3, <3>1, <3>2 DEF ReaderDelivered
  <2>4. ASSUME NEW n \in 1..Len(out), ConsumerRead(n)
        PROVE  ReceivedInOrder'
    <3> DEFINE a == SubSeq(out, 1, n)
               b == SubSeq(out, n + 1, Len(out))
    <3>1. a \in Seq(Nat) /\ b \in Seq(Nat)
      BY <2>0
    <3>2. a \o b = out
      <4>1. SubSeq(out, 1, Len(out)) = a \o b
        BY <2>0, ConcatAdjacentSubSeq
      <4>2. QED BY <2>0, <4>1, SubSeqFull
    <3>3. (consumed \o a) \o b = consumed \o out
      <4> HIDE DEF a, b
      <4>1. (consumed \o a) \o b = consumed \o (a \o b)
        BY <2>0, <3>1, PlaintextAssoc, Zenon
      <4>2. QED BY <3>2, <4>1
    <3>4. QED BY <2>4, <3>3 DEF ConsumerRead, ReceivedInOrder
  <2>5. CASE UNCHANGED <<out, rx, received, consumed>> /\ far' \subseteq far
    BY <2>5, ReceivedUnchanged
  <2>6. ASSUME ~ProcessData, ~ReaderTake, ~ReaderDelivered,
               ~(\E n \in 1..Len(out) : ConsumerRead(n))
        PROVE  UNCHANGED <<out, rx, received, consumed>> /\ far' \subseteq far
    BY <2>6
       DEF Next, vars, Reader, ReaderLoop, Transmit,
           ReaderRead, ReadTlsFull, ReadTlsEof, ProcessHandshake, ProcessPart,
           ProcessClose, ProcessBad, ReaderEof, ReaderVerdictTaken,
           WriterRead, WriterEof, WriterVerdictTaken, TransmitNext,
           TransmitLost, TransmitEnd, TransportRead, DropFar, Finished
  <2>7. QED BY <2>1, <2>2, <2>3, <2>4, <2>5, <2>6
<1>3. QED BY <1>1, <1>2, TypeCorrect, ControlCorrect, PTL DEF Spec

\* An `ok` receive verdict is never a truncation.
THEOREM NoSilentTruncation == Spec => []CleanVerdictComplete
<1>1. TypeOK /\ ControlInv /\ ReceivedInOrder => CleanVerdictComplete
  <2> SUFFICES ASSUME TypeOK, ControlInv, ReceivedInOrder, recv_done = "ok"
               PROVE  /\ rclosed
                      /\ "cleartext_out" \in far => consumed = Units(0, received)
    BY DEF CleanVerdictComplete
  <2>1. rclosed /\ out = <<>> /\ rx = <<>>
    BY DEF ControlInv, PlaintextInv, VerdictInv, ReaderOver
  <2>2. consumed \o out \o rx = consumed
    BY <2>1, ConcatEmptySeq DEF TypeOK
  <2>3. QED BY <2>1, <2>2 DEF ReceivedInOrder
<1>2. QED BY <1>1, TypeCorrect, ControlCorrect, ReceiveOrder, PTL

-----------------------------------------------------------------------------
(* The receive direction implements Pipe *)

\* Concatenated plaintext is plaintext of the summed length.
LEMMA PlaintextConcat ==
  ASSUME NEW s \in Seq(Nat), NEW t \in Seq(Nat)
  PROVE  s \o t \in Seq(Nat) /\ Len(s \o t) = Len(s) + Len(t)
OBVIOUS

\* A middle part of a run of units is the run that starts where the part
\* before it ends.
LEMMA UnitsMiddle ==
  ASSUME NEW a \in Seq(Nat), NEW b \in Seq(Nat), NEW c \in Seq(Nat),
         NEW m \in Nat, (a \o b) \o c = Units(0, m)
  PROVE  /\ b = [i \in 1..Len(b) |-> Len(a) + i]
         /\ Len(a) + Len(b) <= m
<1>1. a \o b \in Seq(Nat) /\ Len(a \o b) = Len(a) + Len(b)
  OBVIOUS
<1>2. Len((a \o b) \o c) = Len(a \o b) + Len(c)
  BY <1>1, PlaintextConcat, Zenon
<1>3. Len(Units(0, m)) = m
  BY UnitsType
<1>4. Len(a) + Len(b) <= m
  <2>1. Len(a \o b) + Len(c) = m
    BY <1>2, <1>3
  <2>2. Len(a) \in Nat /\ Len(b) \in Nat /\ Len(c) \in Nat
    OBVIOUS
  <2>3. QED BY <1>1, <2>1, <2>2
<1>5. ASSUME NEW i \in 1..Len(b)
      PROVE  b[i] = Len(a) + i
  <2>1. \A s, t \in Seq(Nat) : \A j \in 1..(Len(s) + Len(t)) :
          (s \o t)[j] = IF j <= Len(s) THEN s[j] ELSE t[j - Len(s)]
    BY ConcatProperties
  <2>2. Len(a) \in Nat /\ Len(b) \in Nat /\ Len(c) \in Nat /\ i \in Nat
    OBVIOUS
  <2> DEFINE j == Len(a) + i
  <2>3. /\ j \in 1..(Len(a) + Len(b)) /\ ~(j <= Len(a))
        /\ j \in 1..(Len(a \o b) + Len(c)) /\ j <= Len(a \o b)
        /\ j - Len(a) = i /\ j \in 1..m
    BY <1>1, <1>4, <2>2
  <2> HIDE DEF j
  <2>4. (a \o b)[j] = b[j - Len(a)]
    BY <2>1, <2>3, Zenon
  <2>5. ((a \o b) \o c)[j] = (a \o b)[j]
    BY <1>1, <2>1, <2>3, Zenon
  <2>6. Units(0, m)[j] = j
    BY <2>3 DEF Units
  <2>7. QED BY <2>3, <2>4, <2>5, <2>6 DEF j
<1>6. b = [i \in 1..Len(b) |-> b[i]]
  OBVIOUS
<1>7. QED BY <1>4, <1>5, <1>6

\* The consumer gave its end up.
Left == "cleartext_out" \notin far

\* When the verdict is there, the consumer has everything or has left.
VerdictAfterAll == recv_done # "pending" => Left \/ Len(consumed) = received

\* The invariants say so.
LEMMA VerdictComplete == TypeOK /\ ControlInv /\ ReceivedInOrder => VerdictAfterAll
<1> SUFFICES ASSUME TypeOK, ControlInv, ReceivedInOrder, recv_done # "pending"
             PROVE  Left \/ Len(consumed) = received
  BY DEF VerdictAfterAll
<1>1. out = <<>> /\ rx = <<>>
  BY DEF ControlInv, PlaintextInv, VerdictInv, ReaderOver
<1>2. consumed \o out \o rx = consumed
  BY <1>1, ConcatEmptySeq DEF TypeOK
<1>3. Len(Units(0, received)) = received
  BY UnitsType DEF TypeOK
<1>4. QED BY <1>2, <1>3 DEF ReceivedInOrder, Left

\* For every chunk size, limit and amount of data the reader task and rustls
\* are a pipe to the consumer: every step is a step of Pipe or none.
THEOREM PumpIsPipe == Spec => ImplementsPipe
<1> DEFINE Inv == TypeOK /\ ControlInv /\ ReceivedInOrder
<1>1. Init => ReceivePipe!Init
  BY DEF Init, ReceivePipe!Init, Streams
<1>2. Inv /\ Inv' /\ [Next]_vars => [ReceivePipe!Next]_(ReceivePipe!pipeVars)
  <2> SUFFICES ASSUME Inv, Inv', [Next]_vars
               PROVE  [ReceivePipe!Next]_(ReceivePipe!pipeVars)
    OBVIOUS
  <2> USE DEF readerVars, rustlsIn, rustlsOut, verdicts, ends, txVars
  <2>0. received \in Nat /\ part \in Nat /\ consumed \in Seq(Nat) /\ out \in Seq(Nat)
        /\ rx \in Seq(Nat) /\ consumed' \in Seq(Nat) /\ rclosed \in BOOLEAN
    BY DEF TypeOK
  <2>1. CASE ProcessData
    <3>1. ReceivePipe!Carry
      BY <2>0, <2>1 DEF ProcessData, ReadTls, ReceivePipe!Carry
    <3>2. QED BY <3>1 DEF ReceivePipe!Next
  <2>2. CASE ProcessClose
    <3>1. ReceivePipe!End
      BY <2>2 DEF ProcessClose, ReadTls, ReceivePipe!End
    <3>2. QED BY <3>1 DEF ReceivePipe!Next
  <2>3. ASSUME NEW n \in 1..Len(out), ConsumerRead(n)
        PROVE  [ReceivePipe!Next]_(ReceivePipe!pipeVars)
    <3> DEFINE a == SubSeq(out, 1, n)
               b == SubSeq(out, n + 1, Len(out))
    <3>1. /\ "cleartext_out" \in far /\ rpc = "deliver" /\ consumed' = consumed \o a
          /\ out' = b /\ UNCHANGED <<rx, received, rclosed, recv_done, far>>
      BY <2>3 DEF ConsumerRead
    <3>2. a \in Seq(Nat) /\ b \in Seq(Nat) /\ Len(a) = n
      BY <2>0
    <3>3. recv_done = "pending"
      BY <3>1 DEF ControlInv, VerdictInv, ReaderOver
    <3> HIDE DEF a, b
    <3>4. ((consumed \o a) \o b) \o rx = Units(0, received)
      BY <3>1 DEF ReceivedInOrder
    <3>5. consumed \o a \in Seq(Nat) /\ b \o rx \in Seq(Nat)
      BY <2>0, <3>2
    <3>6. (consumed \o a) \o (b \o rx) = Units(0, received)
      <4>1. b \in Seq(Nat) /\ rx \in Seq(Nat)
        BY <2>0, <3>2
      <4>2. (consumed \o a) \o (b \o rx) = ((consumed \o a) \o b) \o rx
        BY <3>5, <4>1, PlaintextAssoc
      <4>3. QED BY <3>4, <4>2
    <3>7. /\ a = [i \in 1..Len(a) |-> Len(consumed) + i]
          /\ Len(consumed) + Len(a) <= received
      BY <2>0, <3>2, <3>5, <3>6, UnitsMiddle, Zenon
    <3>8. Len(consumed') = Len(consumed) + n
      <4>1. Len(consumed \o a) = Len(consumed) + Len(a)
        BY <2>0, <3>2, PlaintextConcat, Zenon
      <4>2. QED BY <3>1, <3>2, <4>1
    <3>9. Len(consumed') - Len(consumed) = n
      BY <2>0, <3>8
    <3>10. consumed' = consumed \o [i \in 1..(Len(consumed') - Len(consumed)) |-> Len(consumed) + i]
      BY <3>1, <3>2, <3>7, <3>9
    <3>11. Len(consumed) < Len(consumed') /\ Len(consumed') <= received
      BY <2>0, <3>2, <3>7, <3>8
    <3>12. ReceivePipe!Deliver
      BY <3>1, <3>3, <3>10, <3>11 DEF ReceivePipe!Deliver
    <3>13. QED BY <3>12 DEF ReceivePipe!Next
  <2>4. ASSUME UNCHANGED <<received, consumed, rclosed, far>>,
               recv_done = "pending", recv_done' # "pending"
        PROVE  [ReceivePipe!Next]_(ReceivePipe!pipeVars)
    <3>1. Left' \/ Len(consumed)' = received'
      <4>1. (TypeOK /\ ControlInv /\ ReceivedInOrder => VerdictAfterAll)'
        BY VerdictComplete, PTL
      <4>2. QED BY <2>4, <4>1 DEF VerdictAfterAll
    <3>2. recv_done' = "ok" => rclosed'
      BY DEF ControlInv, VerdictInv
    <3>3. CASE recv_done' = "ok"
      <4>1. ReceivePipe!TellClean
        BY <2>4, <3>1, <3>2, <3>3 DEF ReceivePipe!TellClean, ReceivePipe!Complete, Left
      <4>2. QED BY <4>1 DEF ReceivePipe!Next
    <3>4. CASE recv_done' # "ok"
      <4>1. ReceivePipe!TellCut
        BY <2>4, <3>1, <3>4 DEF ReceivePipe!TellCut, ReceivePipe!Complete, Left
      <4>2. QED BY <4>1 DEF ReceivePipe!Next
    <3>5. QED BY <3>3, <3>4
  <2>5. CASE UNCHANGED <<received, consumed, rclosed, recv_done>> /\ (Left <=> Left')
    BY <2>5 DEF ReceivePipe!pipeVars, Left
  <2>6. CASE ReaderTake \/ ReaderDelivered \/ ReaderEof
    <3>1. UNCHANGED <<received, consumed, rclosed, far>>
      BY <2>6 DEF ReaderTake, ReaderDelivered, ReaderEof
    <3>2. recv_done = "pending"
      BY <2>6 DEF ReaderTake, ReaderDelivered, ReaderEof, ControlInv, VerdictInv, ReaderOver
    <3>3. CASE recv_done' = "pending"
      BY <2>5, <3>1, <3>2, <3>3 DEF Left
    <3>4. CASE recv_done' # "pending"
      BY <2>4, <3>1, <3>2, <3>4
    <3>5. QED BY <3>3, <3>4
  <2>7. ASSUME NEW s \in Streams, DropFar(s)
        PROVE  [ReceivePipe!Next]_(ReceivePipe!pipeVars)
    <3>1. CASE s = "cleartext_out"
      <4>1. ReceivePipe!Leave
        BY <2>7, <3>1 DEF DropFar, ReceivePipe!Leave
      <4>2. QED BY <4>1 DEF ReceivePipe!Next
    <3>2. CASE s # "cleartext_out"
      BY <2>5, <2>7, <3>2 DEF DropFar, Left
    <3>3. QED BY <3>1, <3>2
  <2>8. ASSUME ~ProcessData, ~ProcessClose, ~(ReaderTake \/ ReaderDelivered \/ ReaderEof),
               ~(\E n \in 1..Len(out) : ConsumerRead(n)),
               ~(\E s \in Streams : DropFar(s))
        PROVE  UNCHANGED <<received, consumed, rclosed, recv_done>> /\ (Left <=> Left')
    BY <2>8
       DEF Next, vars, Reader, ReaderLoop, Transmit, Left,
           ReaderRead, ReadTlsFull, ReadTlsEof, ProcessHandshake, ProcessPart,
           ProcessBad, ReaderVerdictTaken,
           WriterRead, WriterEof, WriterVerdictTaken, TransmitNext,
           TransmitLost, TransmitEnd, TransportRead, Finished
  <2>9. QED BY <2>1, <2>2, <2>3, <2>5, <2>6, <2>7, <2>8
<1>3. QED
  BY <1>1, <1>2, TypeCorrect, ControlCorrect, ReceiveOrder, PTL
     DEF Spec, ImplementsPipe, ReceivePipe!Spec

-----------------------------------------------------------------------------
(* The records the transport reads *)

\* rustls buffers plaintext only until the handshake is over.
BufferInv == Len(sbuf) <= accepted /\ (~Handshaking => sbuf = <<>>)

\* Concatenation of records is associative.
LEMMA RecordsAssoc ==
  ASSUME NEW s \in Seq(Record), NEW t \in Seq(Record), NEW u \in Seq(Record)
  PROVE  (s \o t) \o u = s \o (t \o u)
BY ConcatAssociative

\* A run of units goes on where the run before it ended.
LEMMA UnitsFollow ==
  ASSUME NEW k \in Nat, NEW m \in Nat, NEW n \in Nat
  PROVE  Units(k, m) \o Units(k + m, n) = Units(k, m + n)
<1> DEFINE s == Units(k, m)
           t == Units(k + m, n)
           u == Units(k, m + n)
<1>1. /\ s \in Seq(Nat) /\ Len(s) = m /\ t \in Seq(Nat) /\ Len(t) = n
      /\ u \in Seq(Nat) /\ Len(u) = m + n
  <2>1. k + m \in Nat /\ m + n \in Nat
    OBVIOUS
  <2>2. s \in Seq(Nat) /\ Len(s) = m
    BY UnitsType
  <2>3. t \in Seq(Nat) /\ Len(t) = n
    BY <2>1, UnitsType
  <2>4. u \in Seq(Nat) /\ Len(u) = m + n
    BY <2>1, UnitsType
  <2>5. QED BY <2>2, <2>3, <2>4
<1>2. (\A i \in 1..m : s[i] = k + i) /\ (\A i \in 1..n : t[i] = (k + m) + i)
  BY DEF Units
<1>3. \A i \in 1..(m + n) : u[i] = k + i
  BY DEF Units
<1> HIDE DEF s, t, u
<1>4. s \o t \in Seq(Nat) /\ Len(s \o t) = m + n
  BY <1>1, ConcatProperties
<1>5. ASSUME NEW i \in 1..(m + n) PROVE (s \o t)[i] = u[i]
  <2>0. \A a, b \in Seq(Nat) : \A j \in 1..(Len(a) + Len(b)) :
          (a \o b)[j] = IF j <= Len(a) THEN a[j] ELSE b[j - Len(a)]
    BY ConcatProperties
  <2>1. CASE i <= m
    <3>0. (s \o t)[i] = s[i]
      BY <1>1, <2>0, <2>1, Zenon
    <3>1. (s \o t)[i] = s[i] /\ i \in 1..m
      BY <2>1, <3>0
    <3>2. QED BY <1>2, <1>3, <3>1
  <2>2. CASE i > m
    <3>0. ~(i <= m) /\ i - m \in 1..n
      BY <2>2
    <3>1. (s \o t)[i] = t[i - m] /\ i - m \in 1..n
      BY <1>1, <2>0, <3>0, Zenon
    <3>2. t[i - m] = (k + m) + (i - m)
      BY <1>2, <3>1
    <3>3. u[i] = k + i /\ (k + m) + (i - m) = k + i
      BY <1>3
    <3>4. QED BY <3>1, <3>2, <3>3
  <2>3. i <= m \/ i > m
    OBVIOUS
  <2>4. QED BY <2>1, <2>2, <2>3
<1>6. s \o t = u
  BY <1>1, <1>4, <1>5, SeqEqual
<1>7. QED BY <1>6 DEF s, t, u

\* Records that carry no application data may be added.
LEMMA CarryOther ==
  ASSUME NEW recs \in Seq(Record), NEW n \in Nat, CarryUnits(recs, n),
         NEW rec \in Record, rec.kind # "app"
  PROVE  CarryUnits(Append(recs, rec), n)
<1> DEFINE more == Append(recs, rec)
<1>1. /\ more \in Seq(Record) /\ Len(more) = Len(recs) + 1 /\ Len(recs) \in Nat
      /\ DOMAIN more = 1..(Len(recs) + 1) /\ DOMAIN recs = 1..Len(recs)
      /\ \A i \in 1..Len(recs) : more[i] = recs[i]
      /\ more[Len(recs) + 1] = rec
  BY AppendProperties, LenProperties
<1> HIDE DEF more
<1>2. AppAt(more) = AppAt(recs) /\ \A i \in AppAt(recs) : more[i] = recs[i]
  BY <1>1 DEF AppAt
<1>3. CarryUnits(more, n)
  BY <1>2 DEF CarryUnits
<1>4. QED BY <1>3 DEF more

\* So may the records of the units that come next.
LEMMA CarryMore ==
  ASSUME NEW recs \in Seq(Record), NEW n \in Nat, NEW m \in Nat, CarryUnits(recs, n)
  PROVE  CarryUnits(recs \o AppRecords(Units(n, m)), n + m)
<1> DEFINE new == AppRecords(Units(n, m))
           all == recs \o new
           L == Len(recs)
<1>1. Units(n, m) \in Seq(Nat) /\ Len(Units(n, m)) = m /\ \A i \in 1..m : Units(n, m)[i] = n + i
  BY UnitsType DEF Units
<1>2. /\ new \in Seq(Record) /\ Len(new) = m
      /\ \A i \in 1..m : new[i].kind = "app" /\ new[i].id = n + i
  <2>1. new \in Seq(Record)
    BY <1>1, AppRecordsType
  <2>2. DOMAIN new = 1..m /\ \A i \in 1..m : new[i] = [kind |-> "app", id |-> Units(n, m)[i]]
    BY <1>1 DEF AppRecords
  <2>3. Len(new) = m
    BY <2>1, <2>2, LenProperties
  <2>4. QED BY <1>1, <2>1, <2>2, <2>3
<1> HIDE DEF new
<1>3. /\ L \in Nat /\ DOMAIN recs = 1..L /\ DOMAIN all = 1..(L + m)
      /\ \A i \in 1..L : all[i] = recs[i]
      /\ \A i \in 1..(L + m) : i > L => all[i] = new[i - L]
  <2>1. L \in Nat /\ DOMAIN recs = 1..L
    BY LenProperties
  <2>2. all \in Seq(Record) /\ Len(all) = L + m
    BY <1>2, ConcatProperties
  <2>3. DOMAIN all = 1..(L + m)
    BY <2>2, LenProperties
  <2>4. \A i \in 1..(L + m) : all[i] = IF i <= L THEN recs[i] ELSE new[i - L]
    BY <1>2, ConcatProperties
  <2> HIDE DEF all, L
  <2>5. \A i \in 1..L : all[i] = recs[i]
    BY <2>1, <2>4
  <2>6. \A i \in 1..(L + m) : i > L => all[i] = new[i - L]
    BY <2>1, <2>4
  <2>7. QED BY <2>1, <2>3, <2>5, <2>6
<1> HIDE DEF all, L
<1>4. ASSUME NEW i \in DOMAIN all, i > L
      PROVE  i \in AppAt(all) /\ all[i].id = n + (i - L) /\ i - L \in 1..m
  <2>1. i \in 1..(L + m) /\ i - L \in 1..m
    BY <1>3, <1>4
  <2>2. all[i] = new[i - L]
    BY <1>3, <1>4, <2>1
  <2>3. QED BY <1>2, <2>1, <2>2 DEF AppAt
<1>5. ASSUME NEW i \in DOMAIN all, i <= L
      PROVE  i \in DOMAIN recs /\ all[i] = recs[i] /\ (i \in AppAt(all) <=> i \in AppAt(recs))
  BY <1>3, <1>5 DEF AppAt
<1>6. ASSUME NEW i \in AppAt(recs) PROVE i \in AppAt(all) /\ all[i] = recs[i] /\ recs[i].id \in 1..n
  <2>1. i \in AppAt(all) /\ all[i] = recs[i]
    BY <1>3 DEF AppAt
  <2>2. recs[i].id \in 1..n
    BY DEF CarryUnits
  <2>3. QED BY <2>1, <2>2
<1>7. ASSUME NEW i \in AppAt(all), NEW j \in AppAt(all), i < j PROVE all[i].id < all[j].id
  <2>1. i \in DOMAIN all /\ j \in DOMAIN all /\ i \in Nat /\ j \in Nat
    BY <1>3 DEF AppAt
  <2>2. CASE j <= L
    <3>1. i \in AppAt(recs) /\ j \in AppAt(recs) /\ all[i] = recs[i] /\ all[j] = recs[j]
      BY <1>3, <1>5, <1>7, <2>1, <2>2
    <3>2. QED BY <1>7, <3>1 DEF CarryUnits
  <2>3. CASE i > L
    <3>1. all[i].id = n + (i - L) /\ all[j].id = n + (j - L)
      BY <1>3, <1>4, <1>7, <2>1, <2>3
    <3>2. QED BY <1>3, <1>7, <2>1, <3>1
  <2>4. CASE i <= L /\ j > L
    <3>1. all[i].id \in 1..n
      BY <1>5, <1>6, <2>1, <2>4
    <3>2. all[j].id = n + (j - L) /\ j - L \in 1..m
      BY <1>4, <2>1, <2>4
    <3>3. QED BY <3>1, <3>2
  <2>5. QED BY <1>3, <2>1, <2>2, <2>3, <2>4
<1>8. {all[i].id : i \in AppAt(all)} \subseteq 1..(n + m)
  <2> SUFFICES ASSUME NEW i \in AppAt(all) PROVE all[i].id \in 1..(n + m)
    OBVIOUS
  <2>1. i \in DOMAIN all /\ i \in Nat
    BY <1>3 DEF AppAt
  <2>2. CASE i <= L
    <3>1. all[i].id \in 1..n
      BY <1>5, <1>6, <2>1, <2>2
    <3>2. QED BY <3>1
  <2>3. CASE i > L
    <3>1. all[i].id = n + (i - L) /\ i - L \in 1..m
      BY <1>4, <2>1, <2>3
    <3>2. QED BY <3>1
  <2>4. QED BY <1>3, <2>1, <2>2, <2>3
<1>9. ASSUME NEW x \in 1..(n + m) PROVE \E i \in AppAt(all) : all[i].id = x
  <2>1. CASE x <= n
    <3>1. x \in {recs[i].id : i \in AppAt(recs)}
      <4>1. x \in 1..n
        BY <2>1
      <4>2. QED BY <4>1 DEF CarryUnits
    <3>2. PICK i \in AppAt(recs) : recs[i].id = x
      BY <3>1
    <3>3. QED BY <1>6, <3>2
  <2>2. CASE x > n
    <3> DEFINE i == L + (x - n)
    <3>1. i \in DOMAIN all /\ i > L /\ n + (i - L) = x
      BY <1>3, <2>2
    <3>2. i \in AppAt(all) /\ all[i].id = n + (i - L)
      BY <1>4, <3>1
    <3>3. QED BY <3>1, <3>2
  <2>3. QED BY <2>1, <2>2
<1>10. {all[i].id : i \in AppAt(all)} = 1..(n + m)
  BY <1>8, <1>9
<1>11. CarryUnits(all, n + m)
  BY <1>7, <1>10 DEF CarryUnits
<1>12. QED BY <1>11 DEF all, new

\* rustls's buffer of early plaintext is part of what was accepted, and empty
\* once there are traffic keys.
LEMMA BufferCorrect == Spec => []BufferInv
<1>1. Init => BufferInv
  BY ConstantsAssumption DEF Init, BufferInv, Handshaking
<1>2. TypeOK /\ BufferInv /\ [Next]_vars => BufferInv'
  <2> SUFFICES ASSUME TypeOK, BufferInv, [Next]_vars PROVE BufferInv'
    OBVIOUS
  <2> USE DEF readerVars, rustlsIn, rustlsOut, verdicts, ends, txVars
  <2>0. /\ sbuf \in Seq(Nat) /\ accepted \in Nat /\ hs \in 0..HsLen /\ HsLen \in Nat
        /\ Len(sbuf) <= BUFLIMIT /\ BUFLIMIT \in Nat /\ Len(sbuf) \in Nat
    BY ConstantsAssumption DEF TypeOK
  <2>1. CASE ProcessHandshake
    <3>1. accepted' = accepted /\ hs' = hs + 1 /\ hs < HsLen
      BY <2>1 DEF ProcessHandshake, Handshaking
    <3>2. CASE hs' = HsLen
      <4>1. sbuf' = <<>>
        BY <2>1, <3>2 DEF ProcessHandshake
      <4>2. QED BY <2>0, <3>1, <4>1 DEF BufferInv
    <3>3. CASE hs' # HsLen
      <4>1. sbuf' = sbuf
        BY <2>1, <3>3 DEF ProcessHandshake
      <4>2. hs' < HsLen
        BY <2>0, <3>1, <3>3
      <4>3. QED BY <3>1, <4>1, <4>2 DEF BufferInv, Handshaking
    <3>4. QED BY <3>2, <3>3
  <2>2. ASSUME NEW n \in 1..CHUNK, NEW st \in {"ok", "dropped"}, WriterRead(n, st)
        PROVE  BufferInv'
    <3> DEFINE room == BUFLIMIT - Len(sbuf)
               fits == ~Handshaking \/ n <= room
    <3>1. /\ accepted' = IF fits THEN accepted + n ELSE accepted + room
          /\ sbuf' = IF ~Handshaking THEN sbuf
                     ELSE IF fits THEN sbuf \o Units(accepted, n)
                     ELSE sbuf \o Units(accepted, room)
          /\ hs' = hs
      BY <2>2 DEF WriterRead
    <3>2. n \in Nat /\ room \in Nat
      BY <2>0, ConstantsAssumption
    <3>3. CASE ~Handshaking
      <4>1. sbuf' = <<>> /\ accepted' = accepted + n
        BY <3>1, <3>3 DEF BufferInv
      <4>2. QED BY <2>0, <3>2, <4>1 DEF BufferInv
    <3>4. CASE Handshaking
      <4>1. Handshaking'
        BY <3>1, <3>4 DEF Handshaking
      <4>2. ASSUME NEW k \in Nat, sbuf' = sbuf \o Units(accepted, k), accepted' = accepted + k
            PROVE  Len(sbuf') <= accepted'
        <5>1. Units(accepted, k) \in Seq(Nat) /\ Len(Units(accepted, k)) = k
          BY <2>0, UnitsType
        <5>2. Len(sbuf') = Len(sbuf) + k
          BY <2>0, <4>2, <5>1, ConcatProperties
        <5>3. QED BY <2>0, <4>2, <5>2 DEF BufferInv
      <4>3. Len(sbuf') <= accepted'
        BY <3>1, <3>2, <3>4, <4>2
      <4>4. QED BY <4>1, <4>3 DEF BufferInv
    <3>5. QED BY <3>3, <3>4
  <2>3. ASSUME ~ProcessHandshake,
               ~(\E n \in 1..CHUNK, st \in {"ok", "dropped"} : WriterRead(n, st))
        PROVE  UNCHANGED <<sbuf, accepted, hs>>
    BY <2>3
       DEF Next, vars, Reader, ReaderLoop, Transmit,
           ReaderRead, ReadTlsFull, ReadTlsEof, ProcessPart, ProcessData,
           ProcessClose, ProcessBad, ReaderTake, ReaderDelivered, ReaderEof,
           ReaderVerdictTaken, WriterEof, WriterVerdictTaken, TransmitNext,
           TransmitLost, TransmitEnd, ConsumerRead, TransportRead, DropFar, Finished
  <2>4. CASE UNCHANGED <<sbuf, accepted, hs>>
    BY <2>4 DEF BufferInv, Handshaking
  <2>5. QED BY <2>1, <2>2, <2>3, <2>4
<1>3. QED BY <1>1, <1>2, TypeCorrect, PTL DEF Spec

\* Adding to the transmit queue adds to the end of what goes out.
LEMMA QueueGrows ==
  ASSUME TypeOK, NEW new \in Seq(Record)
  PROVE  (carried \o tx) \o (ctq \o new) = ((carried \o tx) \o ctq) \o new
<1> DEFINE ct == carried \o tx
<1>1. ct \in Seq(Record) /\ ctq \in Seq(Record)
  BY ConcatProperties DEF TypeOK
<1> HIDE DEF ct
<1>2. (ct \o ctq) \o new = ct \o (ctq \o new)
  BY <1>1, RecordsAssoc
<1>3. QED BY <1>2 DEF ct

\* A record that carries no application data may be queued at any time.
LEMMA QueueOther ==
  ASSUME TypeOK, BufferInv, SentInOrder, NEW rec \in Record, rec.kind # "app",
         ctq' = Append(ctq, rec), UNCHANGED <<carried, tx, sbuf, accepted>>, far' \subseteq far
  PROVE  SentInOrder'
<1> DEFINE all == (carried \o tx) \o ctq
           k == accepted - Len(sbuf)
<1> SUFFICES ASSUME "ciphertext_out" \in far
             PROVE  CarryUnits((carried \o tx) \o Append(ctq, rec), k) /\ sbuf = Units(k, Len(sbuf))
  BY DEF SentInOrder
<1>1. CarryUnits(all, k) /\ sbuf = Units(k, Len(sbuf))
  BY DEF SentInOrder
<1>2. k \in Nat
  <2>1. sbuf \in Seq(Nat) /\ accepted \in Nat
    BY DEF TypeOK
  <2>2. QED BY <2>1, LenProperties DEF BufferInv
<1>3. all \in Seq(Record) /\ ctq \in Seq(Record) /\ <<rec>> \in Seq(Record)
  BY ConcatProperties DEF TypeOK
<1>4. (carried \o tx) \o (ctq \o <<rec>>) = all \o <<rec>>
  <2> DEFINE e == <<rec>>
  <2>1. e \in Seq(Record)
    BY <1>3
  <2> HIDE DEF e
  <2>2. (carried \o tx) \o (ctq \o e) = all \o e
    BY <2>1, QueueGrows
  <2>3. QED BY <2>2 DEF e
<1> HIDE DEF all, k
<1>5. Append(ctq, rec) = ctq \o <<rec>> /\ Append(all, rec) = all \o <<rec>>
  BY <1>3, AppendIsConcat
<1>6. CarryUnits(Append(all, rec), k)
  BY <1>1, <1>2, <1>3, CarryOther
<1>7. QED BY <1>1, <1>4, <1>5, <1>6

\* The records of the next units, and then perhaps another one, may be queued
\* when there are traffic keys.
LEMMA QueueUnits ==
  ASSUME TypeOK, BufferInv, SentInOrder, ~Handshaking, NEW n \in Nat,
         accepted' = accepted + n,
         \/ ctq' = ctq \o AppRecords(Units(accepted, n))
         \/ ctq' = Append(ctq \o AppRecords(Units(accepted, n)), CloseRecord),
         UNCHANGED <<carried, tx, sbuf>>, far' \subseteq far
  PROVE  SentInOrder'
<1> DEFINE all == (carried \o tx) \o ctq
           new == AppRecords(Units(accepted, n))
<1>1. accepted \in Nat /\ sbuf = <<>> /\ Len(sbuf) = 0
  BY DEF TypeOK, BufferInv
<1>2. all \in Seq(Record) /\ ctq \in Seq(Record) /\ new \in Seq(Record)
  <2>1. all \in Seq(Record) /\ ctq \in Seq(Record)
    BY ConcatProperties DEF TypeOK
  <2>2. Units(accepted, n) \in Seq(Nat)
    BY <1>1, UnitsType
  <2>3. QED BY <2>1, <2>2, AppRecordsType
<1>3. Units(accepted + n, 0) = <<>>
  BY DEF Units
<1> SUFFICES ASSUME "ciphertext_out" \in far
             PROVE  CarryUnits((carried \o tx) \o ctq', accepted + n)
  <2>1. accepted' - Len(sbuf') = accepted + n /\ sbuf' = <<>> /\ Len(sbuf') = 0
    BY <1>1
  <2>2. QED BY <1>3, <2>1 DEF SentInOrder
<1>4. CarryUnits(all, accepted)
  <2>1. accepted - Len(sbuf) = accepted
    BY <1>1
  <2>2. QED BY <2>1 DEF SentInOrder
<1>5. CarryUnits(all \o new, accepted + n)
  <2> HIDE DEF all
  <2>1. QED BY <1>1, <1>2, <1>4, CarryMore
<1> HIDE DEF new
<1>6. (carried \o tx) \o (ctq \o new) = all \o new
  BY <1>2, QueueGrows
<1>7. CASE ctq' = ctq \o new
  BY <1>5, <1>6, <1>7
<1>8. CASE ctq' = Append(ctq \o new, CloseRecord)
  <2> DEFINE cn == ctq \o new
             an == all \o new
             ct == carried \o tx
  <2>1. cn \in Seq(Record) /\ an \in Seq(Record) /\ ct \in Seq(Record) /\ ct \o cn = an
    BY <1>2, <1>6, ConcatProperties DEF TypeOK
  <2>2. ctq' = Append(cn, CloseRecord) /\ CarryUnits(an, accepted + n) /\ accepted + n \in Nat
    BY <1>1, <1>5, <1>8
  <2>3. CloseRecord \in Record /\ CloseRecord.kind # "app"
    BY RecordConstants DEF CloseRecord
  <2> HIDE DEF cn, an, ct
  <2>4. CarryUnits(Append(an, CloseRecord), accepted + n)
    BY <2>1, <2>2, <2>3, CarryOther
  <2>5. ct \o Append(cn, CloseRecord) = Append(an, CloseRecord)
    <3> DEFINE e == <<CloseRecord>>
    <3>1. e \in Seq(Record)
      BY <2>3
    <3>2. Append(cn, CloseRecord) = cn \o e /\ Append(an, CloseRecord) = an \o e
      BY <2>1, <2>3, AppendIsConcat
    <3> HIDE DEF e
    <3>3. (ct \o cn) \o e = ct \o (cn \o e)
      BY <2>1, <3>1, RecordsAssoc
    <3>4. QED BY <2>1, <3>2, <3>3
  <2>6. QED BY <2>2, <2>4, <2>5 DEF ct
<1>9. QED BY <1>7, <1>8 DEF new

\* The last handshake unit flushes what rustls buffered behind its own flight.
LEMMA FlushKeepsOrder ==
  ASSUME TypeOK, BufferInv, SentInOrder, ProcessHandshake
  PROVE  SentInOrder'
<1> USE DEF readerVars, rustlsIn, rustlsOut, verdicts, ends, txVars
<1>1. UNCHANGED <<carried, tx, accepted, far>>
  BY DEF ProcessHandshake
<1>2. CASE hs' # HsLen
  <2>1. UNCHANGED <<ctq, sbuf>>
    BY <1>2 DEF ProcessHandshake
  <2>2. QED BY <1>1, <2>1 DEF SentInOrder
<1>3. CASE hs' = HsLen
  <2> DEFINE all == (carried \o tx) \o ctq
             k == accepted - Len(sbuf)
             m == Len(sbuf)
             new == AppRecords(sbuf)
  <2>1. ctq' = Append(ctq, HsRecord) \o new /\ sbuf' = <<>>
    BY <1>3 DEF ProcessHandshake
  <2>2. /\ sbuf \in Seq(Nat) /\ accepted \in Nat /\ all \in Seq(Record) /\ ctq \in Seq(Record)
        /\ carried \o tx \in Seq(Record)
    BY ConcatProperties DEF TypeOK
  <2>3. k \in Nat /\ m \in Nat /\ k + m = accepted /\ new \in Seq(Record)
    <3>1. m \in Nat
      BY <2>2, LenProperties
    <3>2. new \in Seq(Record)
      BY <2>2, AppRecordsType
    <3>3. QED BY <2>2, <3>1, <3>2 DEF BufferInv
  <2> SUFFICES ASSUME "ciphertext_out" \in far
               PROVE  CarryUnits((carried \o tx) \o ctq', accepted)
    <3>1. accepted' - Len(sbuf') = accepted /\ sbuf' = Units(accepted, 0) /\ Len(sbuf') = 0
      BY <1>1, <2>1, <2>2 DEF Units
    <3>2. QED BY <1>1, <3>1 DEF SentInOrder
  <2>4. CarryUnits(all, k) /\ sbuf = Units(k, m)
    BY DEF SentInOrder
  <2>5. HsRecord \in Record /\ HsRecord.kind # "app"
    BY RecordConstants DEF HsRecord
  <2>6. CarryUnits(Append(all, HsRecord), k)
    <3> HIDE DEF all, k
    <3>1. QED BY <2>2, <2>3, <2>4, <2>5, CarryOther
  <2>7. Append(all, HsRecord) \in Seq(Record)
    <3> HIDE DEF all
    <3>1. QED BY <2>2, <2>5, AppendProperties
  <2>8. CarryUnits(Append(all, HsRecord) \o new, accepted)
    <3> DEFINE recs == Append(all, HsRecord)
    <3>1. recs \in Seq(Record) /\ CarryUnits(recs, k)
      BY <2>6, <2>7
    <3> HIDE DEF recs, k, m
    <3>2. CarryUnits(recs \o AppRecords(Units(k, m)), k + m)
      BY <2>3, <3>1, CarryMore
    <3>3. QED BY <2>3, <2>4, <3>2 DEF recs
  <2>9. (carried \o tx) \o (Append(ctq, HsRecord) \o new) = Append(all, HsRecord) \o new
    <3> DEFINE e == <<HsRecord>>
               ct == carried \o tx
               ce == ctq \o e
    <3>1. e \in Seq(Record) /\ Append(ctq, HsRecord) = ctq \o e /\ Append(all, HsRecord) = all \o e
      <4>1. e \in Seq(Record)
        BY <2>5
      <4>2. Append(ctq, HsRecord) = ctq \o e
        BY <2>2, <2>5, AppendIsConcat
      <4> HIDE DEF all
      <4>3. Append(all, HsRecord) = all \o e
        BY <2>2, <2>5, AppendIsConcat
      <4>4. QED BY <4>1, <4>2, <4>3
    <3>2. ct \in Seq(Record)
      BY <2>2
    <3> HIDE DEF e, ct, new
    <3>3. ce \in Seq(Record)
      BY <2>2, <3>1, ConcatProperties
    <3>4. (ct \o ctq) \o e = ct \o (ctq \o e)
      BY <2>2, <3>1, <3>2, RecordsAssoc
    <3> HIDE DEF ce
    <3>5. (ct \o ce) \o new = ct \o (ce \o new)
      BY <2>3, <3>2, <3>3, RecordsAssoc
    <3>6. all = ct \o ctq
      BY DEF ct
    <3> HIDE DEF all
    <3>7. ct \o (Append(ctq, HsRecord) \o new) = Append(all, HsRecord) \o new
      BY <3>1, <3>4, <3>5, <3>6 DEF ce
    <3>8. QED BY <3>7 DEF ct
  <2>10. QED BY <2>1, <2>8, <2>9
<1>4. QED BY <1>2, <1>3

\* Plaintext written while the handshake runs waits behind what waits already.
LEMMA BufferKeepsOrder ==
  ASSUME TypeOK, BufferInv, SentInOrder, NEW n \in Nat,
         accepted' = accepted + n, sbuf' = sbuf \o Units(accepted, n),
         UNCHANGED <<carried, tx, ctq>>, far' \subseteq far
  PROVE  SentInOrder'
<1> DEFINE k == accepted - Len(sbuf)
           m == Len(sbuf)
<1>1. sbuf \in Seq(Nat) /\ accepted \in Nat
  BY DEF TypeOK
<1>2. k \in Nat /\ m \in Nat /\ k + m = accepted
  BY <1>1, LenProperties DEF BufferInv
<1> SUFFICES ASSUME "ciphertext_out" \in far
             PROVE  /\ accepted' - Len(sbuf') = k
                    /\ sbuf' = Units(k, Len(sbuf'))
  BY DEF SentInOrder
<1>3. sbuf = Units(k, m)
  BY DEF SentInOrder
<1>4. Units(accepted, n) \in Seq(Nat) /\ Len(Units(accepted, n)) = n
  BY <1>1, UnitsType
<1>5. Len(sbuf') = m + n
  BY <1>1, <1>4, ConcatProperties
<1> HIDE DEF k, m
<1>6. Units(k, m) \o Units(k + m, n) = Units(k, m + n)
  BY <1>2, UnitsFollow
<1>7. sbuf' = Units(k, m + n)
  BY <1>2, <1>3, <1>6
<1>8. accepted' - Len(sbuf') = k
  BY <1>2, <1>5
<1>9. QED BY <1>5, <1>7, <1>8

\* The writer's read.
LEMMA WriterKeepsOrder ==
  ASSUME TypeOK, BufferInv, SentInOrder, NEW n \in 1..CHUNK, NEW st \in {"ok", "dropped"},
         WriterRead(n, st)
  PROVE  SentInOrder'
<1> USE DEF readerVars, rustlsIn, rustlsOut, verdicts, ends, txVars
<1> DEFINE room == BUFLIMIT - Len(sbuf)
           fits == ~Handshaking \/ n <= room
           queue == IF Handshaking THEN ctq ELSE ctq \o AppRecords(Units(accepted, n))
<1>1. /\ accepted' = IF fits THEN accepted + n ELSE accepted + room
      /\ sbuf' = IF ~Handshaking THEN sbuf
                 ELSE IF fits THEN sbuf \o Units(accepted, n)
                 ELSE sbuf \o Units(accepted, room)
      /\ UNCHANGED <<tx, carried>> /\ far' \subseteq far
  BY DEF WriterRead
<1>2. \/ ~fits /\ ctq' = ctq
      \/ fits /\ (ctq' = queue \/ ctq' = Append(queue, CloseRecord))
  BY DEF WriterRead, WriterClose
<1>3. n \in Nat /\ room \in Nat
  <2>1. Len(sbuf) \in Nat /\ Len(sbuf) <= BUFLIMIT
    BY LenProperties DEF TypeOK
  <2>2. QED BY <2>1, ConstantsAssumption
<1>4. CASE ~Handshaking
  <2>1. accepted' = accepted + n /\ sbuf' = sbuf
    BY <1>1, <1>4
  <2>2. \/ ctq' = ctq \o AppRecords(Units(accepted, n))
        \/ ctq' = Append(ctq \o AppRecords(Units(accepted, n)), CloseRecord)
    BY <1>2, <1>4
  <2>3. QED BY <1>1, <1>3, <1>4, <2>1, <2>2, QueueUnits
<1>5. CASE Handshaking
  <2>1. PICK k \in Nat : accepted' = accepted + k /\ sbuf' = sbuf \o Units(accepted, k)
    BY <1>1, <1>3, <1>5
  <2>2. CASE ctq' = ctq
    BY <1>1, <2>1, <2>2, BufferKeepsOrder
  <2>3. CASE ctq' = Append(ctq, CloseRecord)
    <3> DEFINE all == (carried \o tx) \o ctq
               b == accepted - Len(sbuf)
               m == Len(sbuf)
    <3>1. sbuf \in Seq(Nat) /\ accepted \in Nat /\ all \in Seq(Record) /\ ctq \in Seq(Record)
      BY ConcatProperties DEF TypeOK
    <3>2. b \in Nat /\ m \in Nat /\ b + m = accepted
      BY <3>1, LenProperties DEF BufferInv
    <3> SUFFICES ASSUME "ciphertext_out" \in far
                 PROVE  /\ accepted' - Len(sbuf') = b /\ sbuf' = Units(b, Len(sbuf'))
                        /\ CarryUnits((carried \o tx) \o Append(ctq, CloseRecord), b)
      BY <1>1, <2>3 DEF SentInOrder
    <3>3. sbuf = Units(b, m) /\ CarryUnits(all, b)
      BY DEF SentInOrder
    <3>4. Units(accepted, k) \in Seq(Nat) /\ Len(Units(accepted, k)) = k
      BY <3>1, UnitsType
    <3>5. Len(sbuf') = m + k
      BY <2>1, <3>1, <3>4, ConcatProperties
    <3>6. CloseRecord \in Record /\ CloseRecord.kind # "app"
      BY RecordConstants DEF CloseRecord
    <3>7. (carried \o tx) \o Append(ctq, CloseRecord) = Append(all, CloseRecord)
      <4> DEFINE e == <<CloseRecord>>
      <4>1. e \in Seq(Record) /\ Append(ctq, CloseRecord) = ctq \o e
        BY <3>1, <3>6, AppendIsConcat
      <4>2. Append(all, CloseRecord) = all \o e
        <5> HIDE DEF all
        <5>1. QED BY <3>1, <3>6, AppendIsConcat
      <4> HIDE DEF e
      <4>3. (carried \o tx) \o (ctq \o e) = all \o e
        BY <4>1, QueueGrows
      <4> HIDE DEF all
      <4>4. QED BY <4>1, <4>2, <4>3
    <3> HIDE DEF all, b, m
    <3>8. CarryUnits(Append(all, CloseRecord), b)
      BY <3>1, <3>2, <3>3, <3>6, CarryOther
    <3>9. Units(b, m) \o Units(b + m, k) = Units(b, m + k)
      BY <3>2, UnitsFollow
    <3>10. sbuf' = Units(b, m + k)
      BY <2>1, <3>2, <3>3, <3>9
    <3>11. accepted' - Len(sbuf') = b
      BY <2>1, <3>2, <3>5
    <3>12. QED BY <3>5, <3>7, <3>8, <3>10, <3>11
  <2>4. QED BY <1>2, <1>5, <2>2, <2>3
<1>6. QED BY <1>4, <1>5

\* A record on its way to the transport stays where it is in the order.
LEMMA TransmitKeepsOrder ==
  ASSUME TypeOK, SentInOrder, TransmitNext \/ TransmitLost \/ TransportRead
  PROVE  SentInOrder'
<1> USE DEF readerVars, rustlsIn, rustlsOut, verdicts, ends, txVars
<1>1. UNCHANGED <<far, sbuf, accepted>>
  BY DEF TransmitNext, TransmitLost, TransportRead
<1>2. carried \in Seq(Record) /\ tx \in Seq(Record) /\ ctq \in Seq(Record)
  BY DEF TypeOK
<1>3. SUFFICES ASSUME "ciphertext_out" \in far
               PROVE  (carried' \o tx') \o ctq' = (carried \o tx) \o ctq
  BY <1>1 DEF SentInOrder
<1>4. CASE TransmitNext
  <2> DEFINE h == <<Head(ctq)>>
             r == Tail(ctq)
  <2>1. tx = <<>> /\ ctq # <<>> /\ tx' = h /\ ctq' = r /\ carried' = carried
    BY <1>4 DEF TransmitNext
  <2>2. h \in Seq(Record) /\ r \in Seq(Record) /\ ctq = h \o r
    <3>1. Head(ctq) \in Record /\ r \in Seq(Record)
      BY <1>2, <2>1, HeadTailProperties
    <3>2. ctq = h \o r
      BY <1>2, <2>1, HeadTailProperties
    <3>3. QED BY <3>1, <3>2
  <2>3. carried \o tx = carried
    BY <1>2, <2>1, ConcatEmptySeq
  <2> HIDE DEF h, r
  <2>4. (carried \o h) \o r = carried \o (h \o r)
    BY <1>2, <2>2, RecordsAssoc
  <2>5. QED BY <2>1, <2>2, <2>3, <2>4
<1>5. CASE TransmitLost
  BY <1>3, <1>5 DEF TransmitLost
<1>6. CASE TransportRead
  <2>1. carried' = carried \o tx /\ tx' = <<>> /\ ctq' = ctq
    BY <1>6 DEF TransportRead
  <2>2. (carried \o tx) \o <<>> = carried \o tx
    BY <1>2, ConcatEmptySeq, ConcatProperties
  <2>3. QED BY <2>1, <2>2
<1>7. QED BY <1>4, <1>5, <1>6

\* Cleartext the endpoint accepted goes out once and in order, whether rustls
\* buffered it during the handshake or encrypted it at once, as long as the
\* transport reads (writer_task, reader_task and transmit_task in
\* rust/component/src/pump.rs).
THEOREM SendOrder == Spec => []SentInOrder
<1>1. Init => SentInOrder
  <2> SUFFICES ASSUME Init PROVE SentInOrder
    OBVIOUS
  <2>1. ctq = <<HsRecord>> \/ ctq = <<>>
    BY DEF Init
  <2>2. AppAt((carried \o tx) \o ctq) = {}
    <3>1. (carried \o tx) \o ctq = ctq
      <4>1. ctq \in Seq(Record)
        <5>1. HsRecord \in Record
          BY RecordConstants
        <5>2. <<HsRecord>> \in Seq(Record)
          BY <5>1
        <5>3. <<>> \in Seq(Record)
          BY EmptySeq
        <5>4. QED BY <2>1, <5>2, <5>3
      <4>2. <<>> \o ctq = ctq /\ <<>> \o <<>> = <<>>
        BY <4>1, ConcatEmptySeq, EmptySeq
      <4>3. QED BY <4>2 DEF Init
    <3>2. AppAt(ctq) = {}
      BY <2>1 DEF AppAt, HsRecord
    <3>3. QED BY <3>1, <3>2
  <2>3. accepted - Len(sbuf) = 0 /\ sbuf = Units(0, 0) /\ Len(sbuf) = 0
    <3>1. accepted = 0 /\ sbuf = <<>>
      BY DEF Init
    <3>2. Len(sbuf) = 0
      BY <3>1, EmptySeq
    <3>3. Units(0, 0) = <<>>
      BY DEF Units
    <3>4. accepted - Len(sbuf) = 0
      <4>1. accepted = 0
        BY <3>1
      <4>2. 0 - 0 = 0
        OBVIOUS
      <4>3. QED BY <3>2, <4>1, <4>2, Zenon
    <3>5. QED BY <3>1, <3>2, <3>3, <3>4, Zenon
  <2>4. CarryUnits((carried \o tx) \o ctq, 0)
    BY <2>2 DEF CarryUnits
  <2>5. QED BY <2>3, <2>4 DEF SentInOrder
<1>2. TypeOK /\ BufferInv /\ SentInOrder /\ [Next]_vars => SentInOrder'
  <2> SUFFICES ASSUME TypeOK, BufferInv, SentInOrder, [Next]_vars
               PROVE  SentInOrder'
    OBVIOUS
  <2> USE DEF readerVars, rustlsIn, rustlsOut, verdicts, ends, txVars
  <2>1. CASE ProcessHandshake
    BY <2>1, FlushKeepsOrder
  <2>2. ASSUME NEW alert \in BOOLEAN, ProcessBad(alert)
        PROVE  SentInOrder'
    <3>1. UNCHANGED <<carried, tx, sbuf, accepted, far>>
      BY <2>2 DEF ProcessBad
    <3>2. CASE ctq' = ctq
      BY <3>1, <3>2 DEF SentInOrder
    <3>3. CASE ctq' = Append(ctq, AlertRecord)
      <4>1. AlertRecord \in Record /\ AlertRecord.kind # "app"
        BY RecordConstants DEF AlertRecord
      <4>2. QED BY <3>1, <3>3, <4>1, QueueOther
    <3>4. QED BY <2>2, <3>2, <3>3 DEF ProcessBad
  <2>3. ASSUME NEW n \in 1..CHUNK, NEW st \in {"ok", "dropped"}, WriterRead(n, st)
        PROVE  SentInOrder'
    BY <2>3, WriterKeepsOrder
  <2>4. CASE WriterEof
    <3>1. UNCHANGED <<carried, tx, sbuf, accepted, far>>
      BY <2>4 DEF WriterEof
    <3>2. CASE ctq' = ctq
      BY <3>1, <3>2 DEF SentInOrder
    <3>3. CASE ctq' = Append(ctq, CloseRecord)
      <4>1. CloseRecord \in Record /\ CloseRecord.kind # "app"
        BY RecordConstants DEF CloseRecord
      <4>2. QED BY <3>1, <3>3, <4>1, QueueOther
    <3>4. QED BY <2>4, <3>2, <3>3 DEF WriterEof, WriterClose
  <2>5. CASE TransmitNext \/ TransmitLost \/ TransportRead
    BY <2>5, TransmitKeepsOrder
  <2>6. ASSUME ~ProcessHandshake, ~(\E alert \in BOOLEAN : ProcessBad(alert)),
               ~(\E n \in 1..CHUNK, st \in {"ok", "dropped"} : WriterRead(n, st)),
               ~WriterEof, ~TransmitNext, ~TransmitLost, ~TransportRead
        PROVE  UNCHANGED <<carried, tx, ctq, sbuf, accepted>> /\ far' \subseteq far
    BY <2>6
       DEF Next, vars, Reader, ReaderLoop, Transmit,
           ReaderRead, ReadTlsFull, ReadTlsEof, ProcessPart, ProcessData,
           ProcessClose, ReaderTake, ReaderDelivered, ReaderEof,
           ReaderVerdictTaken, WriterVerdictTaken, TransmitEnd, ConsumerRead,
           DropFar, Finished
  <2>7. CASE UNCHANGED <<carried, tx, ctq, sbuf, accepted>> /\ far' \subseteq far
    BY <2>7 DEF SentInOrder
  <2>8. QED BY <2>1, <2>2, <2>3, <2>4, <2>5, <2>6, <2>7
<1>3. QED BY <1>1, <1>2, TypeCorrect, BufferCorrect, PTL DEF Spec

=============================================================================
