--------------------------- MODULE P2StreamProofs ---------------------------
(***************************************************************************)
(* Theorems about the two directions of a WASI 0.2 tunnel, for every       *)
(* budget, chunk size and amount of data: the send direction (P2Write),    *)
(* the receive direction (P2Read, the instance Reading of MCP2Stream) and  *)
(* the two together.                                                       *)
(***************************************************************************)
EXTENDS MCP2Stream, SequenceTheorems, TLAPS

-----------------------------------------------------------------------------
(* Sequences *)

\* The elements of a concatenation.
LEMMA ElemsConcat ==
  ASSUME NEW s \in Seq(Nat), NEW t \in Seq(Nat)
  PROVE  Elems(s \o t) = Elems(s) \cup Elems(t)
<1>1. Elems(s \o t) \subseteq Elems(s) \cup Elems(t)
  BY DEF Elems
<1>2. Elems(s) \subseteq Elems(s \o t)
  BY DEF Elems
<1>3. Elems(t) \subseteq Elems(s \o t)
  <2> SUFFICES ASSUME NEW i \in DOMAIN t PROVE t[i] \in Elems(s \o t)
    BY Zenon DEF Elems
  <2>1. Len(s) + i \in 1..Len(s \o t) /\ (s \o t)[Len(s) + i] = t[i]
    OBVIOUS
  <2>2. QED BY <2>1 DEF Elems
<1>4. QED BY <1>1, <1>2, <1>3

\* The empty sequence has no elements.
LEMMA ElemsEmpty == Elems(<<>>) = {}
BY DEF Elems

-----------------------------------------------------------------------------
(* Types *)

\* Every variable keeps its type, and the queue never exceeds the budget.
THEOREM WriteTypeCorrect == Spec => []TypeOK
<1> USE WriteAssumption, ChunkAssumption DEF TypeOK, TaskPcs
<1>1. Init => TypeOK
  <2> SUFFICES ASSUME Init PROVE TypeOK
    OBVIOUS
  <2>1. /\ flushing \in BOOLEAN /\ shutdown \in BOOLEAN /\ wake \in BOOLEAN
        /\ tflush \in BOOLEAN /\ tshut \in BOOLEAN
        /\ gwoken \in BOOLEAN /\ closed \in BOOLEAN
    BY DEF Init
  <2>2. QED BY <2>1 DEF Init
<1>2. TypeOK /\ [Next]_vars => TypeOK'
  <2> SUFFICES ASSUME TypeOK, [Next]_vars PROVE TypeOK'
    OBVIOUS
  <2> USE DEF shared, local, half, hist
  <2>0. <<>> \in Seq(Nat) /\ Len(<<>>) <= CHUNK
    OBVIOUS
  <2>1. CASE NextWork
    <3>1. tflush' \in BOOLEAN /\ tshut' \in BOOLEAN
      BY <2>1 DEF NextWork
    <3>2. queued' \in {queued, <<>>} /\ chunk' \in {chunk, queued}
      BY <2>1 DEF NextWork
    <3>3. /\ queued' \in Seq(Nat) /\ Len(queued') <= CHUNK
          /\ chunk' \in Seq(Nat)
      BY <2>0, <3>2
    <3>4. QED BY <2>1, <3>1, <3>3 DEF NextWork
  <2>2. CASE Register
    BY <2>2 DEF Register
  <2>3. CASE Recheck
    <3>1. Elems(queued) \subseteq Nat
      BY DEF Elems
    <3>2. wake' \in BOOLEAN /\ lost' \subseteq Nat
      BY <2>3, <3>1 DEF Recheck
    <3>3. queued' \in {queued, <<>>}
      BY <2>3 DEF Recheck
    <3>4. queued' \in Seq(Nat) /\ Len(queued') <= CHUNK
      BY <2>0, <3>3
    <3>5. QED BY <2>3, <3>2, <3>4 DEF Recheck
  <2>4. CASE Await
    BY <2>4 DEF Await
  <2>5. CASE WriteAll
    BY <2>5 DEF WriteAll, AfterWrite
  <2>6. CASE FlushHalf
    BY <2>6 DEF FlushHalf
  <2>7. CASE ShutdownHalf
    BY <2>7 DEF ShutdownHalf
  <2>8. CASE Settle
    BY <2>8 DEF Settle, NotifyGuest
  <2>9. CASE SettleFailed
    BY <2>9 DEF SettleFailed, NotifyGuest
  <2>10. ASSUME NEW n \in 0..Len(chunk), HalfFails(n)
        PROVE  TypeOK'
    <3>1. tls' \in Seq(Nat)
      BY <2>10 DEF HalfFails
    <3>2. QED BY <2>10, <3>1 DEF HalfFails
  <2>11. CASE NotifyTask
    <3>1. wake' \in BOOLEAN
      BY <2>11 DEF NotifyTask
    <3>2. QED BY <2>11, <3>1 DEF NotifyTask
  <2>12. CASE PollCheck
    BY <2>12 DEF PollCheck
  <2>13. CASE PollWoken
    <3>1. gwoken' \in BOOLEAN
      BY <2>13 DEF PollWoken
    <3>2. QED BY <2>13, <3>1 DEF PollWoken
  <2>14. ASSUME NEW n \in 1..CHUNK, Write(n)
        PROVE  TypeOK'
    <3>1. [i \in 1..n |-> written + i] \in Seq(Nat)
      OBVIOUS
    <3>2. Len([i \in 1..n |-> written + i]) = n
      OBVIOUS
    <3>3. queued' \in Seq(Nat) /\ Len(queued') <= CHUNK
      BY <2>14, <3>1, <3>2 DEF Write, Permit, Accepting
    <3>4. QED BY <2>14, <3>3 DEF Write
  <2>15. CASE Flush
    BY <2>15 DEF Flush, Accepting
  <2>16. CASE RequestShutdown
    BY <2>16 DEF RequestShutdown, Accepting
  <2>17. CASE PollEnable
    <3>1. gwoken' \in BOOLEAN
      BY <2>17 DEF PollEnable
    <3>2. QED BY <2>17, <3>1 DEF PollEnable
  <2>18. CASE PollCancel
    BY <2>18 DEF PollCancel
  <2>19. CASE UNCHANGED vars
    BY <2>19 DEF vars
  <2>20. QED
    BY <2>1, <2>2, <2>3, <2>4, <2>5, <2>6, <2>7, <2>8, <2>9, <2>10,
       <2>11, <2>12, <2>13, <2>14, <2>15, <2>16, <2>17, <2>18, <2>19
       DEF Next, Task, GuestRuns
<1>3. QED BY <1>1, <1>2, PTL DEF Spec

-----------------------------------------------------------------------------
(* The inductive invariant of task and guest *)

InIo == tpc \in {"write", "flush", "shutdown", "settle"}

\* The task is open for work until it returns, and holds bytes only between
\* taking the queue and passing them on.
TaskInv ==
  /\ tpc = "ended" <=> state # "open"
  /\ tpc \notin {"write", "broken", "ended"} => chunk = <<>>
  /\ tpc = "ended" /\ state = "closed" => chunk = <<>>

\* A shutdown the task has taken up was requested, so nothing can be queued
\* behind it any more.
CloseInv ==
  /\ tpc = "shutdown" => tshut
  /\ InIo /\ tshut => shutdown /\ queued = <<>>
  /\ closed => shutdown /\ queued = <<>> /\ tshut /\ tpc \in {"settle", "ended"}

\* A flush the task has taken up is still announced, so nothing can be queued
\* behind it; past the flush everything passed on is covered.
FlushInv ==
  /\ InIo /\ tflush => flushing /\ queued = <<>>
  /\ tpc \in {"shutdown", "settle"} /\ tflush => sent = Len(tls)

WriteInv == TaskInv /\ CloseInv /\ FlushInv

\* Task, close and flush go together as WriteInv says.
THEOREM WriteInvCorrect == Spec => []WriteInv
<1>1. Init => WriteInv
  BY DEF Init, WriteInv, TaskInv, CloseInv, FlushInv, InIo
<1>2. TypeOK /\ WriteInv /\ [Next]_vars => WriteInv'
  <2> SUFFICES ASSUME TypeOK, WriteInv, [Next]_vars PROVE WriteInv'
    OBVIOUS
  <2> USE DEF WriteInv, TaskInv, CloseInv, FlushInv, InIo, TypeOK, TaskPcs,
              shared, local, half, hist
  <2>1. CASE NextWork
    BY <2>1 DEF NextWork, NothingToDo
  <2>2. CASE Register
    BY <2>2 DEF Register
  <2>3. CASE Recheck
    BY <2>3 DEF Recheck, NothingToDo
  <2>4. CASE Await
    BY <2>4 DEF Await
  <2>5. CASE WriteAll
    BY <2>5 DEF WriteAll, AfterWrite
  <2>6. CASE FlushHalf
    BY <2>6 DEF FlushHalf
  <2>7. CASE ShutdownHalf
    <3>1. tpc = "shutdown" /\ tpc' = "settle" /\ sent' = Len(tls)
      BY <2>7 DEF ShutdownHalf
    <3>2. UNCHANGED <<queued, flushing, shutdown, state, chunk, tflush, tshut, tls>>
      BY <2>7 DEF ShutdownHalf
    <3>3. tshut
      BY <3>1
    <3>4. QED BY <3>1, <3>2, <3>3
  <2>8. CASE Settle
    BY <2>8 DEF Settle, NotifyGuest
  <2>9. CASE SettleFailed
    BY <2>9 DEF SettleFailed, NotifyGuest
  <2>10. ASSUME NEW n \in 0..Len(chunk), HalfFails(n)
        PROVE  WriteInv'
    BY <2>10 DEF HalfFails
  <2>11. CASE NotifyTask
    BY <2>11 DEF NotifyTask
  <2>12. CASE PollCheck
    BY <2>12 DEF PollCheck
  <2>13. CASE PollWoken
    BY <2>13 DEF PollWoken
  <2>14. ASSUME NEW n \in 1..CHUNK, Write(n)
        PROVE  WriteInv'
    BY <2>14 DEF Write, Permit, Accepting
  <2>15. CASE Flush
    BY <2>15 DEF Flush, Accepting
  <2>16. CASE RequestShutdown
    BY <2>16 DEF RequestShutdown, Accepting
  <2>17. CASE PollEnable
    BY <2>17 DEF PollEnable
  <2>18. CASE PollCancel
    BY <2>18 DEF PollCancel
  <2>19. CASE UNCHANGED vars
    BY <2>19 DEF vars
  <2>20. QED
    BY <2>1, <2>2, <2>3, <2>4, <2>5, <2>6, <2>7, <2>8, <2>9, <2>10,
       <2>11, <2>12, <2>13, <2>14, <2>15, <2>16, <2>17, <2>18, <2>19
       DEF Next, Task, GuestRuns
<1>3. QED BY <1>1, <1>2, WriteTypeCorrect, PTL DEF Spec

\* close_notify is never written while accepted data waits.
THEOREM CloseAfterData == Spec => []ClosedAfterData
<1>1. TypeOK /\ WriteInv => ClosedAfterData
  BY DEF TypeOK, WriteInv, TaskInv, CloseInv, ClosedAfterData, Healthy
<1>2. QED BY <1>1, WriteTypeCorrect, WriteInvCorrect, PTL

-----------------------------------------------------------------------------
(* No byte is lost other than by the re-check *)

\* A step that moves no byte keeps the account.
LEMMA AccountedUnchanged ==
  ASSUME Accounted, UNCHANGED <<tls, chunk, queued, lost, written>>,
         Healthy' => Healthy
  PROVE  Accounted'
BY DEF Accounted

\* Every accepted unit is in the connection, with the task, queued, or was
\* dropped by the re-check before waiting.
THEOREM AccountedAlways == Spec => []Accounted
<1>1. Init => Accounted
  BY ElemsEmpty DEF Init, Accounted
<1>2. TypeOK /\ WriteInv /\ Accounted /\ [Next]_vars => Accounted'
  <2> SUFFICES ASSUME TypeOK, WriteInv, Accounted, [Next]_vars PROVE Accounted'
    OBVIOUS
  <2> USE DEF shared, local, half, hist
  <2>0. /\ queued \in Seq(Nat) /\ chunk \in Seq(Nat) /\ tls \in Seq(Nat)
        /\ written \in Nat
    BY DEF TypeOK
  <2>1. CASE NextWork
    <3>1. CASE NothingToDo
      <4>1. UNCHANGED <<tls, chunk, queued, lost, written, state>>
        BY <2>1, <3>1 DEF NextWork
      <4>2. QED BY <2>1, <4>1, AccountedUnchanged DEF NextWork, Healthy
    <3>2. CASE ~NothingToDo
      <4>1. chunk' = queued /\ queued' = <<>> /\ UNCHANGED <<tls, lost, written>>
        BY <2>1, <3>2 DEF NextWork
      <4>2. chunk = <<>> /\ Healthy
        BY <2>1 DEF NextWork, WriteInv, TaskInv, Healthy
      <4>3. Elems(tls) \cup Elems(<<>>) \cup Elems(queued) \cup lost = 1..written
        BY <4>2 DEF Accounted
      <4>4. Elems(tls) \cup Elems(queued) \cup Elems(<<>>) \cup lost = 1..written
        BY <4>3
      <4>5. QED BY <4>1, <4>4 DEF Accounted
    <3>3. QED BY <3>1, <3>2
  <2>2. CASE Recheck
    <3>1. CASE NothingToDo
      <4>1. UNCHANGED <<tls, chunk, queued, lost, written, state>>
        BY <2>2, <3>1 DEF Recheck
      <4>2. QED BY <2>2, <4>1, AccountedUnchanged DEF Recheck, Healthy
    <3>2. CASE ~NothingToDo
      <4>1. /\ queued' = <<>> /\ lost' = lost \cup Elems(queued)
            /\ UNCHANGED <<tls, chunk, written, state>>
        BY <2>2, <3>2 DEF Recheck
      <4>2. Healthy
        BY <2>2 DEF Recheck, Healthy
      <4>3. Elems(tls) \cup Elems(chunk) \cup Elems(queued) \cup lost = 1..written
        BY <4>2 DEF Accounted
      <4>4. Elems(tls) \cup Elems(chunk) \cup Elems(<<>>) \cup (lost \cup Elems(queued))
              = 1..written
        BY <4>3, ElemsEmpty
      <4>5. QED BY <4>1, <4>4 DEF Accounted
    <3>3. QED BY <3>1, <3>2
  <2>3. CASE WriteAll
    <3>1. /\ tls' = tls \o chunk /\ chunk' = <<>>
          /\ UNCHANGED <<queued, lost, written, state>>
      BY <2>3 DEF WriteAll
    <3>2. Healthy
      BY <2>3 DEF WriteAll, WriteInv, TaskInv, Healthy
    <3>3. Elems(tls \o chunk) = Elems(tls) \cup Elems(chunk)
      BY <2>0, ElemsConcat
    <3>4. Elems(tls) \cup Elems(chunk) \cup Elems(queued) \cup lost = 1..written
      BY <3>2 DEF Accounted
    <3>5. Elems(tls \o chunk) \cup Elems(<<>>) \cup Elems(queued) \cup lost
            = 1..written
      BY <3>3, <3>4, ElemsEmpty
    <3>6. QED BY <3>1, <3>5 DEF Accounted
  <2>4. ASSUME NEW n \in 0..Len(chunk), HalfFails(n)
        PROVE  Accounted'
    BY <2>4 DEF HalfFails, Accounted, Healthy
  <2>5. CASE SettleFailed
    BY <2>5 DEF SettleFailed, Accounted, Healthy
  <2>6. ASSUME NEW n \in 1..CHUNK, Write(n)
        PROVE  Accounted'
    <3> DEFINE new == [i \in 1..n |-> written + i]
    <3>1. new \in Seq(Nat) /\ Elems(new) = (written + 1)..(written + n)
      <4>1. n \in Nat /\ n >= 1
        BY WriteAssumption, ChunkAssumption
      <4>2. new \in Seq(Nat)
        BY <2>0, <4>1
      <4>3. Elems(new) = {written + i : i \in 1..n}
        BY DEF Elems
      <4>4. ASSUME NEW x \in (written + 1)..(written + n)
            PROVE  x \in {written + i : i \in 1..n}
        <5>1. x - written \in 1..n /\ x = written + (x - written)
          BY <2>0, <4>1
        <5>2. QED BY <5>1
      <4>5. {written + i : i \in 1..n} \subseteq (written + 1)..(written + n)
        BY <2>0, <4>1
      <4>6. QED BY <4>2, <4>3, <4>4, <4>5
    <3>2. /\ queued' = queued \o new /\ written' = written + n
          /\ UNCHANGED <<tls, chunk, lost, state, tpc>>
      BY <2>6 DEF Write
    <3>3. Elems(queued') = Elems(queued) \cup Elems(new)
      BY <2>0, <3>1, <3>2, ElemsConcat
    <3>4. SUFFICES ASSUME Healthy
                   PROVE  Elems(tls) \cup Elems(chunk) \cup Elems(queued') \cup lost
                            = 1..(written + n)
      BY <3>2 DEF Accounted, Healthy
    <3>5. Elems(tls) \cup Elems(chunk) \cup Elems(queued) \cup lost = 1..written
      BY <3>4 DEF Accounted
    <3>6. 1..(written + n) = (1..written) \cup ((written + 1)..(written + n))
      BY <2>0, WriteAssumption, ChunkAssumption
    <3> HIDE DEF new
    <3>7. QED BY <3>1, <3>3, <3>5, <3>6
  <2>7. ASSUME ~NextWork, ~Recheck, ~WriteAll, ~SettleFailed,
               ~(\E n \in 0..Len(chunk) : HalfFails(n)),
               ~(\E n \in 1..CHUNK : Write(n))
        PROVE  UNCHANGED <<tls, chunk, queued, lost, written>> /\ (Healthy' => Healthy)
    BY <2>7
       DEF Next, Task, GuestRuns, vars, Healthy, WriteInv, TaskInv, Register,
           Await, FlushHalf, ShutdownHalf, Settle, NotifyTask, PollCheck,
           PollWoken, Flush, RequestShutdown, PollEnable, PollCancel
  <2>8. QED
    BY <2>1, <2>2, <2>3, <2>4, <2>5, <2>6, <2>7, AccountedUnchanged
<1>3. QED BY <1>1, <1>2, WriteTypeCorrect, WriteInvCorrect, PTL DEF Spec

\* When a flush is reported complete everything written has been passed to the
\* transport, except what the re-check before waiting dropped.
THEOREM FlushIsHonest == Spec => FlushHonest
<1>1. TypeOK /\ WriteInv /\ Accounted /\ [Next]_vars
        => [flushing /\ ~flushing' =>
              sent = Len(tls) /\ Elems(tls) \cup lost = 1..written]_vars
  <2> SUFFICES ASSUME TypeOK, WriteInv, Accounted, Next, flushing, ~flushing'
               PROVE  sent = Len(tls) /\ Elems(tls) \cup lost = 1..written
    OBVIOUS
  <2>1. Settle
    BY DEF Next, Task, GuestRuns, shared, local, half, hist, NextWork, Register,
           Recheck, Await, WriteAll, FlushHalf, ShutdownHalf, SettleFailed,
           HalfFails, NotifyTask, PollCheck, PollWoken, Write, Flush,
           RequestShutdown, PollEnable, PollCancel
  <2>2. tflush /\ queued = <<>> /\ chunk = <<>> /\ sent = Len(tls)
    BY <2>1 DEF Settle, WriteInv, TaskInv, FlushInv, TypeOK
  <2>3. Healthy
    BY <2>1 DEF Settle, Healthy, WriteInv, TaskInv
  <2>4. Elems(tls) \cup {} \cup {} \cup lost = 1..written
    BY <2>2, <2>3, ElemsEmpty DEF Accounted
  <2>5. QED BY <2>2, <2>4
<1>2. QED
  BY <1>1, WriteTypeCorrect, WriteInvCorrect, AccountedAlways, PTL
     DEF Spec, FlushHonest

-----------------------------------------------------------------------------
(* The order of the bytes *)

Rising(s) == \A i, j \in DOMAIN s : i < j => s[i] < s[j]

\* A first part of a rising sequence rises.
LEMMA RisingPrefix ==
  ASSUME NEW s \in Seq(Nat), NEW t \in Seq(Nat), Rising(s \o t)
  PROVE  Rising(s)
<1> SUFFICES ASSUME NEW i \in DOMAIN s, NEW j \in DOMAIN s, i < j PROVE s[i] < s[j]
  BY DEF Rising
<1>1. i \in 1..Len(s) /\ j \in 1..Len(s)
  OBVIOUS
<1>2. i \in DOMAIN (s \o t) /\ j \in DOMAIN (s \o t) /\ (s \o t)[i] = s[i] /\ (s \o t)[j] = s[j]
  BY <1>1
<1>3. (s \o t)[i] < (s \o t)[j]
  BY <1>2 DEF Rising
<1>4. QED BY <1>2, <1>3

\* A rising sequence may be followed by one that begins above it.
LEMMA RisingConcat ==
  ASSUME NEW s \in Seq(Nat), NEW t \in Seq(Nat), Rising(s), Rising(t),
         \A x \in Elems(s), y \in Elems(t) : x < y
  PROVE  Rising(s \o t)
<1> DEFINE u == s \o t
<1>1. /\ Len(s) \in Nat /\ Len(t) \in Nat /\ DOMAIN s = 1..Len(s) /\ DOMAIN t = 1..Len(t)
      /\ DOMAIN u = 1..(Len(s) + Len(t))
  OBVIOUS
<1>2. \A i \in 1..Len(s) : u[i] = s[i]
  OBVIOUS
<1>3. \A i \in 1..(Len(s) + Len(t)) : i > Len(s) => u[i] = t[i - Len(s)]
  OBVIOUS
<1> HIDE DEF u
<1>4. ASSUME NEW i \in DOMAIN u, NEW j \in DOMAIN u, i < j PROVE u[i] < u[j]
  <2>1. i \in Nat /\ j \in Nat
    BY <1>1
  <2>2. CASE j <= Len(s)
    <3>1. i \in DOMAIN s /\ j \in DOMAIN s
      BY <1>1, <1>4, <2>2
    <3>2. s[i] < s[j]
      BY <1>4, <3>1 DEF Rising
    <3>3. QED BY <1>1, <1>2, <3>1, <3>2
  <2>3. CASE i > Len(s)
    <3>1. i - Len(s) \in DOMAIN t /\ j - Len(s) \in DOMAIN t /\ i - Len(s) < j - Len(s)
      BY <1>1, <1>4, <2>3
    <3>2. t[i - Len(s)] < t[j - Len(s)]
      BY <3>1 DEF Rising
    <3>3. u[i] = t[i - Len(s)] /\ u[j] = t[j - Len(s)]
      <4>1. i \in 1..(Len(s) + Len(t)) /\ j \in 1..(Len(s) + Len(t)) /\ j > Len(s)
        BY <1>1, <1>4, <2>1, <2>3
      <4>2. QED BY <1>3, <2>3, <4>1
    <3>4. QED BY <3>2, <3>3
  <2>4. CASE i <= Len(s) /\ j > Len(s)
    <3>1. i \in DOMAIN s /\ j - Len(s) \in DOMAIN t
      BY <1>1, <1>4, <2>4
    <3>2. s[i] \in Elems(s) /\ t[j - Len(s)] \in Elems(t)
      BY <3>1 DEF Elems
    <3>3. u[i] = s[i] /\ u[j] = t[j - Len(s)]
      BY <1>1, <1>2, <1>3, <2>4, <3>1
    <3>4. QED BY <3>2, <3>3
  <2>5. QED BY <1>1, <2>1, <2>2, <2>3, <2>4
<1>5. QED BY <1>4 DEF Rising, u

\* Concatenation of units is associative.
LEMMA UnitsAssoc ==
  ASSUME NEW s \in Seq(Nat), NEW t \in Seq(Nat), NEW u \in Seq(Nat)
  PROVE  (s \o t) \o u = s \o (t \o u)
BY ConcatAssociative

\* Bytes reach the connection in the order they were written, each once: no
\* interleaving of guest and task reorders or repeats one, also when the
\* re-check drops some (write and write_task in
\* rust/tls-virt-wasmtime/src/p2.rs).
THEOREM AlwaysInOrder == Spec => []InOrder
<1> DEFINE Ordered == Healthy => Rising((tls \o chunk) \o queued)
<1>1. InOrder <=> Ordered
  BY DEF InOrder, Rising
<1>2. Init => Ordered
  <2> SUFFICES ASSUME Init PROVE Rising((tls \o chunk) \o queued)
    OBVIOUS
  <2>1. (tls \o chunk) \o queued = <<>>
    BY DEF Init
  <2>2. QED BY <2>1 DEF Rising
<1>3. TypeOK /\ WriteInv /\ Accounted /\ Ordered /\ [Next]_vars => Ordered'
  <2> SUFFICES ASSUME TypeOK, WriteInv, Accounted, Ordered, [Next]_vars, Healthy'
               PROVE  Rising((tls' \o chunk') \o queued')
    OBVIOUS
  <2> USE DEF shared, local, half, hist
  <2>0. /\ queued \in Seq(Nat) /\ chunk \in Seq(Nat) /\ tls \in Seq(Nat)
        /\ written \in Nat /\ <<>> \in Seq(Nat) /\ tls \o chunk \in Seq(Nat)
    BY DEF TypeOK
  <2>1. CASE NextWork
    <3>1. chunk = <<>> /\ Healthy /\ UNCHANGED tls
      BY <2>1 DEF NextWork, WriteInv, TaskInv, Healthy
    <3>2. chunk' \o queued' = queued
      <4>1. (chunk' = chunk /\ queued' = queued) \/ (chunk' = queued /\ queued' = <<>>)
        BY <2>1 DEF NextWork
      <4>2. QED BY <2>0, <3>1, <4>1, ConcatEmptySeq
    <3>3. chunk' \in Seq(Nat) /\ queued' \in Seq(Nat)
      BY <2>0, <2>1 DEF NextWork
    <3>4. (tls \o chunk') \o queued' = tls \o (chunk' \o queued')
      <4> DEFINE c == chunk'
                 q == queued'
      <4>1. c \in Seq(Nat) /\ q \in Seq(Nat)
        BY <3>3
      <4> HIDE DEF c, q
      <4>2. (tls \o c) \o q = tls \o (c \o q)
        BY <2>0, <4>1, UnitsAssoc
      <4>3. QED BY <4>2 DEF c, q
    <3>5. (tls \o chunk) \o queued = tls \o queued
      BY <2>0, <3>1, ConcatEmptySeq
    <3>6. QED BY <3>1, <3>2, <3>4, <3>5
  <2>2. CASE Recheck
    <3>1. Healthy /\ UNCHANGED <<tls, chunk>> /\ (queued' = queued \/ queued' = <<>>)
      BY <2>2 DEF Recheck, Healthy
    <3>2. Rising(tls \o chunk)
      BY <2>0, <3>1, RisingPrefix
    <3>3. (tls \o chunk) \o <<>> = tls \o chunk
      BY <2>0, ConcatEmptySeq
    <3>4. QED BY <3>1, <3>2, <3>3
  <2>3. CASE WriteAll
    <3>1. tls' = tls \o chunk /\ chunk' = <<>> /\ UNCHANGED queued
      BY <2>3 DEF WriteAll
    <3>2. Healthy
      BY <2>3 DEF WriteAll, WriteInv, TaskInv, Healthy
    <3>3. (tls \o chunk) \o <<>> = tls \o chunk
      BY <2>0, ConcatEmptySeq
    <3>4. QED BY <3>1, <3>2, <3>3
  <2>4. ASSUME NEW n \in 0..Len(chunk), HalfFails(n)
        PROVE  FALSE
    BY <2>4 DEF HalfFails, Healthy
  <2>5. ASSUME NEW n \in 1..CHUNK, Write(n)
        PROVE  Rising((tls' \o chunk') \o queued')
    <3> DEFINE new == [i \in 1..n |-> written + i]
               all == (tls \o chunk) \o queued
    <3>1. /\ n \in Nat /\ n >= 1
      BY WriteAssumption, ChunkAssumption
    <3>2. new \in Seq(Nat) /\ Len(new) = n /\ \A i \in 1..n : new[i] = written + i
      BY <2>0, <3>1
    <3>3. Healthy /\ queued' = queued \o new /\ UNCHANGED <<tls, chunk>>
      BY <2>5 DEF Write, Accepting, Healthy
    <3>4. Rising(new)
      BY <2>0, <3>1, <3>2 DEF Rising
    <3>5. \A y \in Elems(new) : y > written
      BY <2>0, <3>1, <3>2 DEF Elems
    <3>6. all \in Seq(Nat) /\ Rising(all)
      BY <2>0, <3>3
    <3>7. Elems(all) \subseteq 1..written
      <4>1. Elems(all) = Elems(tls \o chunk) \cup Elems(queued)
        BY <2>0, ElemsConcat
      <4>2. Elems(tls \o chunk) = Elems(tls) \cup Elems(chunk)
        BY <2>0, ElemsConcat
      <4>3. QED BY <3>3, <4>1, <4>2 DEF Accounted
    <3> HIDE DEF new
    <3>8. (tls \o chunk) \o (queued \o new) = all \o new
      <4> DEFINE tc == tls \o chunk
      <4>1. tc \in Seq(Nat)
        BY <2>0
      <4> HIDE DEF tc
      <4>2. (tc \o queued) \o new = tc \o (queued \o new)
        BY <2>0, <3>2, <4>1, UnitsAssoc
      <4>3. QED BY <4>2 DEF tc
    <3> HIDE DEF all
    <3>9. Elems(new) \subseteq Nat
      BY <3>2 DEF Elems
    <3>10. \A x \in Elems(all), y \in Elems(new) : x < y
      BY <2>0, <3>5, <3>7, <3>9
    <3>11. Rising(all \o new)
      BY <3>2, <3>4, <3>6, <3>10, RisingConcat
    <3>12. QED BY <3>3, <3>8, <3>11
  <2>6. ASSUME ~NextWork, ~Recheck, ~WriteAll,
               ~(\E n \in 0..Len(chunk) : HalfFails(n)),
               ~(\E n \in 1..CHUNK : Write(n))
        PROVE  UNCHANGED <<tls, chunk, queued>> /\ Healthy
    BY <2>6
       DEF Next, Task, GuestRuns, vars, Healthy, WriteInv, TaskInv, Register,
           Await, FlushHalf, ShutdownHalf, Settle, SettleFailed, NotifyTask,
           PollCheck, PollWoken, Flush, RequestShutdown, PollEnable, PollCancel
  <2>7. QED BY <2>1, <2>2, <2>3, <2>4, <2>5, <2>6
<1> HIDE DEF Ordered
<1>4. Spec => []Ordered
  BY <1>2, <1>3, WriteTypeCorrect, WriteInvCorrect, AccountedAlways, PTL DEF Spec
<1>5. QED BY <1>1, <1>4, PTL

-----------------------------------------------------------------------------
(* The receive direction: its inductive invariant. *)

ReadTypeOK ==
  /\ rhalf \in {"slot", "ready", "dropped"} /\ rbuf \in Seq(Nat)
  /\ rstate \in {"open", "closed", "failed"}
  /\ rgpc \in {"idle", "polling"}
  /\ arrived \in Nat /\ ending \in {"none", "notify", "reset"}
  /\ pulled \in Nat /\ taken \in Seq(Nat)
  /\ seen \in {"none", "closed", "failed"}
  /\ closedRead \in BOOLEAN /\ cancelled \in BOOLEAN

\* The half is out of the slot for a read only while the guest polls an open
\* stream with nothing buffered.
PollInv == rgpc = "polling" => rbuf = <<>> /\ rstate = "open" /\ rhalf = "ready"

\* A direction the guest closed holds nothing and reads no more.
ClosedInv == closedRead => rbuf = <<>> /\ rhalf = "dropped" /\ rstate # "open"

\* What the half handed out was read by the guest or waits in the slot, and
\* what waits follows on what was read.
DataInv ==
  /\ pulled <= arrived
  /\ ~closedRead =>
       /\ Len(taken) + Len(rbuf) = pulled
       /\ \A i \in 1..Len(rbuf) : rbuf[i] = Len(taken) + i

\* An end in the slot is the peer's, with all data before it, unless the
\* guest closed the direction itself.
EndInv ==
  rstate # "open" /\ ~closedRead =>
    /\ pulled = arrived
    /\ ending # "none"
    /\ rstate = "closed" => ending = "notify"

ReadInv == ReadTypeOK /\ PollInv /\ ClosedInv /\ DataInv /\ EndInv

-----------------------------------------------------------------------------
(* The receive direction: the steps that move data *)

\* A read of n units takes the n that come next off the slot and leaves the
\* rest in order behind them.
LEMMA ReadSplits ==
  ASSUME NEW t \in Seq(Nat), NEW b \in Seq(Nat), NEW n \in 1..Len(b),
         \A i \in 1..Len(b) : b[i] = Len(t) + i
  PROVE  LET a == SubSeq(b, 1, n)
             r == SubSeq(b, n + 1, Len(b))
         IN  /\ a \in Seq(Nat) /\ r \in Seq(Nat)
             /\ Len(a) = n /\ Len(r) = Len(b) - n
             /\ t \o a \in Seq(Nat) /\ Len(t \o a) = Len(t) + n
             /\ a = [i \in 1..n |-> Len(t) + i]
             /\ \A i \in 1..Len(r) : r[i] = Len(t \o a) + i
<1> DEFINE a == SubSeq(b, 1, n)
           r == SubSeq(b, n + 1, Len(b))
<1>0. Len(b) \in Nat /\ Len(t) \in Nat /\ n \in Nat /\ n <= Len(b)
  BY LenProperties
<1>1. /\ a \in Seq(Nat) /\ Len(a) = n
      /\ \A i \in 1..n : a[i] = b[i]
  BY <1>0
<1>2. /\ r \in Seq(Nat) /\ Len(r) = Len(b) - n
      /\ \A i \in 1..(Len(b) - n) : r[i] = b[n + i]
  BY <1>0
<1> HIDE DEF a, r
<1>3. t \o a \in Seq(Nat) /\ Len(t \o a) = Len(t) + n
  BY <1>1, ConcatProperties
<1>4. a = [i \in 1..n |-> Len(t) + i]
  <2>1. a = [i \in 1..n |-> a[i]]
    BY <1>1
  <2>2. 1..n \subseteq 1..Len(b)
    BY <1>0
  <2>3. \A i \in 1..n : a[i] = Len(t) + i
    BY <1>1, <2>2, Zenon
  <2>4. QED BY <2>1, <2>3
<1>5. ASSUME NEW i \in 1..Len(r)
      PROVE  r[i] = Len(t \o a) + i
  <2>1. n + i \in 1..Len(b) /\ i \in 1..(Len(b) - n)
    BY <1>0, <1>2
  <2>2. r[i] = Len(t) + (n + i)
    BY <1>2, <2>1
  <2>3. QED BY <1>0, <1>3, <2>1, <2>2
<1>6. QED BY <1>1, <1>2, <1>3, <1>4, <1>5 DEF a, r

\* What a TLS read returns goes into an empty buffer as it is.
LEMMA PolledUnits ==
  ASSUME NEW k \in Nat, NEW n \in Nat
  PROVE  /\ <<>> \o Reading!Units(k, n) \in Seq(Nat)
         /\ Len(<<>> \o Reading!Units(k, n)) = n
         /\ \A i \in 1..n : (<<>> \o Reading!Units(k, n))[i] = k + i
<1>1. Reading!Units(k, n) \in Seq(Nat) /\ Len(Reading!Units(k, n)) = n
  BY DEF Reading!Units
<1>2. \A i \in 1..n : Reading!Units(k, n)[i] = k + i
  BY DEF Reading!Units
<1>3. <<>> \o Reading!Units(k, n) = Reading!Units(k, n)
  BY <1>1, ConcatEmptySeq
<1>4. QED BY <1>1, <1>2, <1>3

-----------------------------------------------------------------------------
(* The receive direction: the invariant holds *)

\* However the guest's reads, polls, dropped polls and close_read interleave
\* with the network: nothing the half handed out is lost or doubled unless
\* the guest closed the direction, and the slot ends only with the peer's end
\* and behind all data (ReadSlot, Pollable::ready and close_read in
\* rust/tls-virt-wasmtime/src/p2.rs).
THEOREM ReadInvCorrect == Reading!Spec => []ReadInv
<1>1. Reading!Init => ReadInv
  <2> SUFFICES ASSUME Reading!Init PROVE ReadInv
    OBVIOUS
  <2>1. rbuf = <<>> /\ taken = <<>> /\ Len(rbuf) = 0 /\ Len(taken) = 0
        /\ rbuf \in Seq(Nat) /\ taken \in Seq(Nat)
    BY EmptySeq DEF Reading!Init
  <2>2. ReadTypeOK
    BY <2>1 DEF Reading!Init, ReadTypeOK
  <2>3. PollInv /\ ClosedInv /\ EndInv
    BY DEF Reading!Init, PollInv, ClosedInv, EndInv
  <2>4. DataInv
    <3>1. pulled = 0 /\ arrived = 0
      BY DEF Reading!Init
    <3>2. QED BY <2>1, <3>1 DEF DataInv
  <2>5. QED BY <2>2, <2>3, <2>4 DEF ReadInv
<1>2. ReadInv /\ [Reading!Next]_(Reading!vars) => ReadInv'
  <2> SUFFICES ASSUME ReadInv, [Reading!Next]_(Reading!vars) PROVE ReadInv'
    OBVIOUS
  <2> USE DEF Reading!slot, Reading!net, Reading!hist
  <2>0. ReadTypeOK /\ PollInv /\ ClosedInv /\ DataInv /\ EndInv
    BY DEF ReadInv
  <2>1. CASE Reading!Arrive
    <3>1. /\ ending = "none" /\ arrived' = arrived + 1
          /\ UNCHANGED <<Reading!slot, rgpc, ending, Reading!hist>>
      BY <2>1 DEF Reading!Arrive
    <3>2. ReadTypeOK'
      BY <2>0, <3>1 DEF ReadTypeOK
    <3>3. PollInv' /\ ClosedInv' /\ EndInv'
      BY <2>0, <3>1 DEF PollInv, ClosedInv, EndInv
    <3>4. DataInv'
      BY <2>0, <3>1 DEF DataInv, ReadTypeOK
    <3>5. QED BY <3>2, <3>3, <3>4 DEF ReadInv
  <2>2. ASSUME NEW how \in {"notify", "reset"}, Reading!PeerEnds(how)
        PROVE  ReadInv'
    <3>1. /\ ending = "none" /\ ending' = how
          /\ UNCHANGED <<Reading!slot, rgpc, arrived, Reading!hist>>
      BY <2>2 DEF Reading!PeerEnds
    <3>2. ReadTypeOK'
      BY <2>0, <3>1 DEF ReadTypeOK
    <3>3. PollInv' /\ ClosedInv' /\ EndInv'
      BY <2>0, <3>1 DEF PollInv, ClosedInv, EndInv
    <3>4. DataInv'
      BY <2>0, <3>1 DEF DataInv
    <3>5. QED BY <3>2, <3>3, <3>4 DEF ReadInv
  <2>3. ASSUME NEW n \in 1..CHUNK, Reading!Read(n)
        PROVE  ReadInv'
    <3>1. /\ rgpc = "idle" /\ seen = "none"
          /\ UNCHANGED <<rhalf, rstate, rgpc, Reading!net, pulled, closedRead, cancelled>>
      BY <2>3 DEF Reading!Read
    <3>2. CASE /\ rbuf # <<>> /\ n <= Len(rbuf)
               /\ taken' = taken \o SubSeq(rbuf, 1, n)
               /\ rbuf' = SubSeq(rbuf, n + 1, Len(rbuf))
               /\ UNCHANGED seen
      <4>1. taken \in Seq(Nat) /\ rbuf \in Seq(Nat) /\ n \in 1..Len(rbuf)
        BY <2>0, <3>2 DEF ReadTypeOK
      <4>2. ~closedRead
        BY <2>0, <3>2 DEF ClosedInv
      <4>3. \A i \in 1..Len(rbuf) : rbuf[i] = Len(taken) + i
        BY <2>0, <4>2 DEF DataInv
      <4>4. /\ taken' \in Seq(Nat) /\ rbuf' \in Seq(Nat)
            /\ Len(rbuf') = Len(rbuf) - n /\ Len(taken') = Len(taken) + n
            /\ \A i \in 1..Len(rbuf') : rbuf'[i] = Len(taken') + i
        <5> DEFINE a == SubSeq(rbuf, 1, n)
                   r == SubSeq(rbuf, n + 1, Len(rbuf))
        <5>1. /\ a \in Seq(Nat) /\ r \in Seq(Nat)
              /\ Len(a) = n /\ Len(r) = Len(rbuf) - n
              /\ taken \o a \in Seq(Nat) /\ Len(taken \o a) = Len(taken) + n
              /\ a = [i \in 1..n |-> Len(taken) + i]
              /\ \A i \in 1..Len(r) : r[i] = Len(taken \o a) + i
          BY <4>1, <4>3, ReadSplits, ZenonT(60)
        <5>2. taken' = taken \o a /\ rbuf' = r
          BY <3>2
        <5> HIDE DEF a, r
        <5>3. QED BY <5>1, <5>2
      <4>5. ReadTypeOK'
        BY <2>0, <3>1, <3>2, <4>4 DEF ReadTypeOK
      <4>6. PollInv' /\ ClosedInv' /\ EndInv'
        BY <2>0, <3>1, <4>2 DEF PollInv, ClosedInv, EndInv
      <4>7. Len(taken') + Len(rbuf') = Len(taken) + Len(rbuf)
        BY <4>1, <4>4, LenProperties
      <4>8. DataInv'
        BY <2>0, <3>1, <4>2, <4>4, <4>7 DEF DataInv
      <4>9. QED BY <4>5, <4>6, <4>8 DEF ReadInv
    <3>3. CASE /\ rbuf = <<>> /\ rstate # "open"
               /\ seen' = rstate
               /\ UNCHANGED <<rbuf, taken>>
      <4>1. ReadTypeOK'
        BY <2>0, <3>1, <3>3 DEF ReadTypeOK
      <4>2. PollInv' /\ ClosedInv' /\ EndInv'
        BY <2>0, <3>1, <3>3 DEF PollInv, ClosedInv, EndInv
      <4>3. DataInv'
        BY <2>0, <3>1, <3>3 DEF DataInv
      <4>4. QED BY <4>1, <4>2, <4>3 DEF ReadInv
    <3>4. QED BY <2>3, <3>2, <3>3 DEF Reading!Read
  <2>4. CASE Reading!PollBegin
    <3>1. /\ rgpc = "idle" /\ rbuf = <<>> /\ rstate = "open" /\ rhalf = "slot"
          /\ rhalf' = "ready" /\ rgpc' = "polling"
          /\ UNCHANGED <<rbuf, rstate, Reading!net, Reading!hist>>
      BY <2>4 DEF Reading!PollBegin
    <3>2. ReadTypeOK'
      BY <2>0, <3>1 DEF ReadTypeOK
    <3>3. PollInv' /\ ClosedInv' /\ EndInv'
      BY <2>0, <3>1 DEF PollInv, ClosedInv, EndInv
    <3>4. DataInv'
      BY <2>0, <3>1 DEF DataInv
    <3>5. QED BY <3>2, <3>3, <3>4 DEF ReadInv
  <2>5. CASE Reading!PollEnd
    <3>1. /\ rgpc = "polling" /\ pulled = arrived /\ ending # "none"
          /\ rstate' = (IF ending = "notify" THEN "closed" ELSE "failed")
          /\ rhalf' = "dropped" /\ rgpc' = "idle"
          /\ UNCHANGED <<rbuf, Reading!net, Reading!hist>>
      BY <2>5 DEF Reading!PollEnd
    <3>2. ReadTypeOK'
      BY <2>0, <3>1 DEF ReadTypeOK
    <3>3. PollInv' /\ ClosedInv' /\ EndInv'
      BY <2>0, <3>1 DEF PollInv, ClosedInv, EndInv
    <3>4. DataInv'
      BY <2>0, <3>1 DEF DataInv
    <3>5. QED BY <3>2, <3>3, <3>4 DEF ReadInv
  <2>6. ASSUME NEW n \in 1..CHUNK, Reading!PollData(n)
        PROVE  ReadInv'
    <3>1. /\ rgpc = "polling" /\ pulled + n <= arrived
          /\ rbuf' = rbuf \o Reading!Units(pulled, n) /\ pulled' = pulled + n
          /\ rhalf' = "slot" /\ rgpc' = "idle"
          /\ UNCHANGED <<rstate, Reading!net, taken, seen, closedRead, cancelled>>
      BY <2>6 DEF Reading!PollData
    <3>2. rbuf = <<>> /\ rstate = "open" /\ ~closedRead
      BY <2>0, <3>1 DEF PollInv, ClosedInv
    <3>3. n \in Nat /\ pulled \in Nat /\ taken \in Seq(Nat)
      BY <2>0, ChunkAssumption DEF ReadTypeOK
    <3>4. /\ rbuf' \in Seq(Nat) /\ Len(rbuf') = n
          /\ \A i \in 1..n : rbuf'[i] = pulled + i
      BY <3>1, <3>2, <3>3, PolledUnits
    <3>5. Len(taken) = pulled
      <4>1. Len(rbuf) = 0
        BY <3>2, EmptySeq
      <4>2. Len(taken) + Len(rbuf) = pulled
        BY <2>0, <3>2 DEF DataInv
      <4>3. QED BY <3>3, <4>1, <4>2, LenProperties
    <3>6. ReadTypeOK'
      BY <2>0, <3>1, <3>3, <3>4 DEF ReadTypeOK
    <3>7. PollInv' /\ ClosedInv' /\ EndInv'
      BY <3>1, <3>2 DEF PollInv, ClosedInv, EndInv
    <3>8. DataInv'
      BY <2>0, <3>1, <3>3, <3>4, <3>5 DEF DataInv
    <3>9. QED BY <3>6, <3>7, <3>8 DEF ReadInv
  <2>7. CASE Reading!PollCancel
    <3>1. /\ rgpc = "polling" /\ rhalf' = "dropped" /\ rgpc' = "idle"
          /\ cancelled' = TRUE
          /\ UNCHANGED <<rbuf, rstate, Reading!net, pulled, taken, seen, closedRead>>
      BY <2>7 DEF Reading!PollCancel
    <3>2. ReadTypeOK'
      BY <2>0, <3>1 DEF ReadTypeOK
    <3>3. PollInv' /\ ClosedInv' /\ EndInv'
      BY <2>0, <3>1 DEF PollInv, ClosedInv, EndInv
    <3>4. DataInv'
      BY <2>0, <3>1 DEF DataInv
    <3>5. QED BY <3>2, <3>3, <3>4 DEF ReadInv
  <2>8. CASE Reading!CloseRead
    <3>1. /\ rgpc = "idle" /\ rhalf' = "dropped" /\ rbuf' = <<>>
          /\ rstate' = (IF rstate = "open" THEN "closed" ELSE rstate)
          /\ closedRead' = TRUE
          /\ UNCHANGED <<rgpc, Reading!net, pulled, taken, seen, cancelled>>
      BY <2>8 DEF Reading!CloseRead
    <3>2. ReadTypeOK'
      <4>1. rbuf' \in Seq(Nat)
        BY <3>1, EmptySeq
      <4>2. QED BY <2>0, <3>1, <4>1 DEF ReadTypeOK
    <3>3. PollInv' /\ ClosedInv' /\ EndInv'
      BY <3>1 DEF PollInv, ClosedInv, EndInv
    <3>4. DataInv'
      BY <2>0, <3>1 DEF DataInv
    <3>5. QED BY <3>2, <3>3, <3>4 DEF ReadInv
  <2>9. CASE UNCHANGED Reading!vars
    BY <2>0, <2>9
       DEF Reading!vars, ReadInv, ReadTypeOK, PollInv, ClosedInv, DataInv, EndInv
  <2>10. QED
    BY <2>1, <2>2, <2>3, <2>4, <2>5, <2>6, <2>7, <2>8, <2>9 DEF Reading!Next, Reading!Poll
<1>3. QED BY <1>1, <1>2, PTL DEF Reading!Spec

-----------------------------------------------------------------------------
(* The receive direction implements Pipe *)

\* Seen from the peer and the guest, the slot is a pipe for every chunk size
\* and amount of data: every step of the receive direction is a step of Pipe
\* or none.  `closed` is told only after close_notify and any end only behind
\* all data, unless the guest shut the direction down itself.
THEOREM ReadIsPipe == Reading!Spec => Reading!ImplementsPipe
<1>1. Reading!Init => Reading!ReceivePipe!Init
  BY DEF Reading!Init, Reading!ReceivePipe!Init
<1>2. ReadInv /\ [Reading!Next]_(Reading!vars) => [Reading!ReceivePipe!Next]_(Reading!ReceivePipe!pipeVars)
  <2> SUFFICES ASSUME ReadInv, [Reading!Next]_(Reading!vars)
               PROVE  [Reading!ReceivePipe!Next]_(Reading!ReceivePipe!pipeVars)
    OBVIOUS
  <2> USE DEF Reading!slot, Reading!net, Reading!hist
  <2>0. ReadTypeOK /\ PollInv /\ ClosedInv /\ DataInv /\ EndInv
    BY DEF ReadInv
  <2>1. CASE Reading!Arrive
    <3>1. arrived' > arrived /\ ending # "notify"
      BY <2>0, <2>1 DEF Reading!Arrive, ReadTypeOK
    <3>2. Reading!ReceivePipe!Carry
      BY <2>1, <3>1 DEF Reading!Arrive, Reading!ReceivePipe!Carry
    <3>3. QED BY <3>2 DEF Reading!ReceivePipe!Next
  <2>2. ASSUME NEW how \in {"notify", "reset"}, Reading!PeerEnds(how)
        PROVE  [Reading!ReceivePipe!Next]_(Reading!ReceivePipe!pipeVars)
    <3>1. CASE how = "notify"
      <4>1. Reading!ReceivePipe!End
        BY <2>2, <3>1 DEF Reading!PeerEnds, Reading!ReceivePipe!End
      <4>2. QED BY <4>1 DEF Reading!ReceivePipe!Next
    <3>2. CASE how = "reset"
      BY <2>2, <3>2 DEF Reading!PeerEnds, Reading!ReceivePipe!pipeVars
    <3>3. QED BY <3>1, <3>2
  <2>3. ASSUME NEW n \in 1..CHUNK, Reading!Read(n)
        PROVE  [Reading!ReceivePipe!Next]_(Reading!ReceivePipe!pipeVars)
    <3>1. /\ seen = "none"
          /\ UNCHANGED <<rhalf, rstate, rgpc, Reading!net, pulled, closedRead, cancelled>>
      BY <2>3 DEF Reading!Read
    <3>2. CASE /\ rbuf # <<>> /\ n <= Len(rbuf)
               /\ taken' = taken \o SubSeq(rbuf, 1, n)
               /\ rbuf' = SubSeq(rbuf, n + 1, Len(rbuf))
               /\ UNCHANGED seen
      <4>1. taken \in Seq(Nat) /\ rbuf \in Seq(Nat) /\ n \in 1..Len(rbuf)
            /\ Len(taken) \in Nat /\ Len(rbuf) \in Nat
        BY <2>0, <3>2, LenProperties DEF ReadTypeOK
      <4>2. ~closedRead
        BY <2>0, <3>2 DEF ClosedInv
      <4>3. \A i \in 1..Len(rbuf) : rbuf[i] = Len(taken) + i
        BY <2>0, <4>2 DEF DataInv
      <4>4. /\ Len(taken') = Len(taken) + n
            /\ SubSeq(rbuf, 1, n) = [i \in 1..n |-> Len(taken) + i]
        BY <3>2, <4>1, <4>3, ReadSplits, Zenon
      <4>5. Len(taken') - Len(taken) = n
        BY <4>1, <4>4
      <4>6. taken' = taken \o [i \in 1..(Len(taken') - Len(taken)) |-> Len(taken) + i]
        BY <3>2, <4>4, <4>5, Zenon
      <4>7. Len(taken) < Len(taken') /\ Len(taken') <= arrived
        <5>1. Len(taken) + Len(rbuf) = pulled /\ pulled <= arrived
          BY <2>0, <4>2 DEF DataInv
        <5>2. arrived \in Nat /\ pulled \in Nat
          BY <2>0 DEF ReadTypeOK
        <5>3. QED BY <4>1, <4>4, <5>1, <5>2
      <4>8. Reading!ReceivePipe!Deliver
        BY <3>1, <3>2, <4>2, <4>6, <4>7 DEF Reading!ReceivePipe!Deliver
      <4>9. QED BY <4>8 DEF Reading!ReceivePipe!Next
    <3>3. CASE /\ rbuf = <<>> /\ rstate # "open"
               /\ seen' = rstate
               /\ UNCHANGED <<rbuf, taken>>
      <4>1. rstate \in {"closed", "failed"}
        BY <2>0, <3>3 DEF ReadTypeOK
      <4>2. closedRead \/ (/\ Len(taken) = arrived
                           /\ rstate = "closed" => ending = "notify")
        <5> SUFFICES ASSUME ~closedRead
                     PROVE  /\ Len(taken) = arrived
                            /\ rstate = "closed" => ending = "notify"
          OBVIOUS
        <5>1. pulled = arrived /\ (rstate = "closed" => ending = "notify")
          BY <2>0, <3>3 DEF EndInv
        <5>2. Len(taken) + Len(rbuf) = pulled
          BY <2>0 DEF DataInv
        <5>3. Len(rbuf) = 0 /\ Len(taken) \in Nat
          BY <2>0, <3>3, EmptySeq, LenProperties DEF ReadTypeOK
        <5>4. QED BY <5>1, <5>2, <5>3
      <4>3. CASE rstate = "closed"
        <5>1. Reading!ReceivePipe!TellClean
          BY <3>1, <3>3, <4>2, <4>3 DEF Reading!ReceivePipe!TellClean, Reading!ReceivePipe!Complete
        <5>2. QED BY <5>1 DEF Reading!ReceivePipe!Next
      <4>4. CASE rstate = "failed"
        <5>1. Reading!ReceivePipe!TellCut
          BY <3>1, <3>3, <4>2, <4>4 DEF Reading!ReceivePipe!TellCut, Reading!ReceivePipe!Complete
        <5>2. QED BY <5>1 DEF Reading!ReceivePipe!Next
      <4>5. QED BY <4>1, <4>3, <4>4
    <3>4. QED BY <2>3, <3>2, <3>3 DEF Reading!Read
  <2>4. CASE Reading!PollBegin \/ Reading!Poll \/ Reading!PollCancel
    BY <2>4 DEF Reading!PollBegin, Reading!Poll, Reading!PollEnd, Reading!PollData,
                Reading!PollCancel, Reading!ReceivePipe!pipeVars
  <2>5. CASE Reading!CloseRead
    <3>1. CASE closedRead
      <4>1. closedRead = TRUE
        BY <2>0, <3>1 DEF ReadTypeOK
      <4>2. QED BY <2>5, <4>1 DEF Reading!CloseRead, Reading!ReceivePipe!pipeVars
    <3>2. CASE ~closedRead
      <4>1. Reading!ReceivePipe!Leave
        BY <2>5, <3>2 DEF Reading!CloseRead, Reading!ReceivePipe!Leave
      <4>2. QED BY <4>1 DEF Reading!ReceivePipe!Next
    <3>3. QED BY <3>1, <3>2
  <2>6. CASE UNCHANGED Reading!vars
    BY <2>6 DEF Reading!vars, Reading!ReceivePipe!pipeVars
  <2>7. QED BY <2>1, <2>2, <2>3, <2>4, <2>5, <2>6 DEF Reading!Next
<1>3. QED
  BY <1>1, <1>2, ReadInvCorrect, PTL
     DEF Reading!Spec, Reading!ImplementsPipe, Reading!ReceivePipe!Spec

-----------------------------------------------------------------------------
(* Both directions *)

\* The two directions of a tunnel at once: a step of either, in any order.  TLC
\* explores one at a time (StreamSpec); the theorems hold of every merge.
MergeNext ==
  \/ Next /\ UNCHANGED readVars
  \/ Reading!Next /\ UNCHANGED vars
MergeSpec == Init /\ Reading!Init /\ [][MergeNext]_<<vars, readVars>>

\* However the steps of the two directions interleave, each keeps to its own
\* specification (finish_connect splits the TLS connection and each half has
\* its own mutex, p2.rs).
THEOREM MergeIsBoth == MergeSpec => Spec /\ Reading!Spec
<1>1. [MergeNext]_<<vars, readVars>> => [Next]_vars
  BY DEF MergeNext
<1>2. [MergeNext]_<<vars, readVars>> => [Reading!Next]_(Reading!vars)
  <2> USE DEF Reading!vars, Reading!slot, Reading!net, Reading!hist, readVars
  <2> SUFFICES ASSUME [MergeNext]_<<vars, readVars>> PROVE [Reading!Next]_(Reading!vars)
    OBVIOUS
  <2>1. CASE Next /\ UNCHANGED readVars
    BY <2>1
  <2>2. CASE Reading!Next
    BY <2>2
  <2>3. CASE UNCHANGED <<vars, readVars>>
    BY <2>3
  <2>4. QED BY <2>1, <2>2, <2>3 DEF MergeNext
<1>3. QED BY <1>1, <1>2, PTL DEF MergeSpec, Spec, Reading!Spec

\* What TLC explores is one of the merges: the direction that was not chosen
\* stands still (MCP2Stream).
LEMMA StreamIsMerge == StreamSpec => MergeSpec
<1>1. StreamInit => Init /\ Reading!Init
  BY DEF StreamInit
<1>2. [StreamNext]_streamVars => [MergeNext]_<<vars, readVars>>
  <2> SUFFICES ASSUME [StreamNext]_streamVars PROVE [MergeNext]_<<vars, readVars>>
    OBVIOUS
  <2>1. CASE Sends(Next)
    BY <2>1, Zenon DEF Sends, MergeNext, readVars
  <2>2. CASE Receives(Reading!Next)
    BY <2>2, Zenon DEF Receives, MergeNext
  <2>3. CASE UNCHANGED streamVars
    BY <2>3 DEF streamVars
  <2>4. QED BY <2>1, <2>2, <2>3 DEF StreamNext
<1>3. QED BY <1>1, <1>2, PTL DEF StreamSpec, MergeSpec

\* The receive direction of a tunnel is a pipe whatever the send direction does
\* beside it (TlsInputStream and TlsOutputStream, p2.rs).
THEOREM MergeReadIsPipe == MergeSpec => ReadImplementsPipe
BY MergeIsBoth, ReadIsPipe, PTL DEF ReadImplementsPipe

\* So is that of the behaviours TLC explores (p2.rs, TlsInputStream).
THEOREM StreamReadIsPipe == StreamSpec => ReadImplementsPipe
BY StreamIsMerge, MergeReadIsPipe, PTL

=============================================================================
