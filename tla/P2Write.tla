------------------------------ MODULE P2Write ------------------------------
(***************************************************************************)
(* The send direction of a WASI 0.2 tunnel: the guest-facing output stream *)
(* (TlsOutputStream), the state it shares with the writer task (WriteCtl)  *)
(* and the task that owns the TLS write half (write_task), in              *)
(* rust/tls-virt-wasmtime/src/p2.rs.                                       *)
(*                                                                         *)
(* The guest and the task run on different threads of the tokio runtime.   *)
(* Everything under the mutex is one step; between two locked sections,    *)
(* between an unlock and the notify after it, and at every await the other *)
(* side may move.  The two tokio `Notify` cells are modelled by their      *)
(* documented behaviour: notify_one wakes the registered waiter or stores  *)
(* one permit, notify_waiters wakes only those registered.                 *)
(***************************************************************************)
EXTENDS P2Chunk

CONSTANTS
  MaxBytes,  \* bound: units the guest writes
  MaxFlush   \* bound: flush calls of the guest

ASSUME WriteAssumption ==
  MaxBytes \in Nat /\ MaxFlush \in Nat

VARIABLES
  queued,     \* WriteInner.queued
  flushing,   \* WriteInner.flushing
  shutdown,   \* WriteInner.shutdown
  state,      \* WriteInner.state: "open", "closed", "failed"
  wake,       \* Notify `wake`: a permit is stored
  waiter,     \* the task's Notified: "none", "waiting", "notified", "done"
  tpc,        \* write_task: see Work and the steps below
  chunk,      \* Work::Io: the bytes taken
  tflush,     \* Work::Io: flush after the bytes
  tshut,      \* Work::Io: shut down after the bytes
  gpc,        \* guest: "idle", "notify", "enabled", "polling"
  gwoken,     \* the guest's Notified on `ready` has been woken
  tls,        \* history: units the TLS write half has taken
  sent,       \* history: how many of them the half has passed to the transport
  closed,     \* close_notify has been written
  written,    \* history: units accepted from the guest
  lost,       \* history: units taken from the queue and discarded
  flushes     \* flush calls so far

shared == <<queued, flushing, shutdown, state>>
local  == <<tpc, chunk, tflush, tshut>>
half   == <<tls, sent, closed>>
hist   == <<written, lost, flushes>>
vars   == <<shared, wake, waiter, local, gpc, gwoken, half, hist>>

Init ==
  /\ queued = <<>> /\ flushing = FALSE /\ shutdown = FALSE /\ state = "open"
  /\ wake = FALSE /\ waiter = "none"
  /\ tpc = "work" /\ chunk = <<>> /\ tflush = FALSE /\ tshut = FALSE
  /\ gpc = "idle" /\ gwoken = FALSE
  /\ tls = <<>> /\ sent = 0 /\ closed = FALSE
  /\ written = 0 /\ lost = {} /\ flushes = 0

Elems(s) == {s[i] : i \in DOMAIN s}

-----------------------------------------------------------------------------
(* Guest calls.  Each is one locked section followed by wake.notify_one.    *)

\* What check_write answers, and what write permits.
Permit == IF flushing THEN 0 ELSE CHUNK - Len(queued)

\* Mutant: calls are accepted after shutdown.
AcceptingLate == state = "open"

\* The stream accepts calls: the state is open and no shutdown is requested.
Accepting == state = "open" /\ ~shutdown

Write(n) ==
  /\ gpc = "idle" /\ Accepting
  /\ n <= Permit
  /\ written + n <= MaxBytes
  /\ queued' = queued \o [i \in 1..n |-> written + i]
  /\ written' = written + n
  /\ gpc' = "notify"
  /\ UNCHANGED <<flushing, shutdown, state, wake, waiter, local, gwoken, half,
                 lost, flushes>>

Flush ==
  /\ gpc = "idle" /\ Accepting
  /\ flushes < MaxFlush
  /\ flushes' = flushes + 1
  /\ flushing' = TRUE
  /\ gpc' = "notify"
  /\ UNCHANGED <<queued, shutdown, state, wake, waiter, local, gwoken, half,
                 written, lost>>

\* shutdown(send) on the socket, or the guest dropped its stream.
RequestShutdown ==
  /\ gpc = "idle" /\ Accepting
  /\ shutdown' = TRUE
  /\ gpc' = "notify"
  /\ UNCHANGED <<queued, flushing, state, wake, waiter, local, gwoken, half,
                 hist>>

\* wake.notify_one after the unlock.
NotifyTask ==
  /\ gpc = "notify"
  /\ gpc' = "idle"
  /\ IF waiter = "waiting"
     THEN waiter' = "notified" /\ UNCHANGED wake
     ELSE wake' = TRUE /\ UNCHANGED waiter
  /\ UNCHANGED <<shared, local, gwoken, half, hist>>

\* Pollable::ready: register with `ready`, check under the lock, await.
PollEnable ==
  /\ gpc = "idle"
  /\ gpc' = "enabled" /\ gwoken' = FALSE
  /\ UNCHANGED <<shared, wake, waiter, local, half, hist>>

Writable == ~flushing /\ Len(queued) < CHUNK

PollCheck ==
  /\ gpc = "enabled"
  /\ gpc' = IF Writable \/ state # "open" \/ shutdown THEN "idle" ELSE "polling"
  /\ UNCHANGED <<shared, wake, waiter, local, gwoken, half, hist>>

PollWoken ==
  /\ gpc = "polling" /\ gwoken
  /\ gpc' = "enabled" /\ gwoken' = FALSE
  /\ UNCHANGED <<shared, wake, waiter, local, half, hist>>

\* Another pollable of the same poll call won: the future is dropped.
PollCancel ==
  /\ gpc = "polling"
  /\ gpc' = "idle"
  /\ UNCHANGED <<shared, wake, waiter, local, gwoken, half, hist>>

-----------------------------------------------------------------------------
(* write_task *)

NothingToDo == queued = <<>> /\ ~flushing /\ ~shutdown

\* Mutant: Work::Io copies the queue instead of taking it.
NextWorkCopies ==
  /\ tpc = "work" /\ state = "open"
  /\ \/ /\ NothingToDo
        /\ tpc' = "register"
        /\ UNCHANGED <<chunk, tflush, tshut>>
     \/ /\ ~NothingToDo
        /\ chunk' = queued
        /\ tflush' = flushing /\ tshut' = shutdown
        /\ tpc' = "write"
  /\ UNCHANGED <<shared, wake, waiter, gpc, gwoken, half, hist>>

\* next_work at the top of the loop.  Work::Io takes the whole queue.  Only
\* the task leaves the open state, and returns when it does, so Work::End is
\* never the answer.
NextWork ==
  /\ tpc = "work" /\ state = "open"
  /\ \/ /\ NothingToDo
        /\ tpc' = "register"
        /\ UNCHANGED <<queued, chunk, tflush, tshut>>
     \/ /\ ~NothingToDo
        /\ chunk' = queued /\ queued' = <<>>
        /\ tflush' = flushing /\ tshut' = shutdown
        /\ tpc' = "write"
  /\ UNCHANGED <<flushing, shutdown, state, wake, waiter, gpc, gwoken, half,
                 hist>>

\* wake.notified() and enable(): consume a stored permit or register.
Register ==
  /\ tpc = "register"
  /\ tpc' = "recheck"
  /\ waiter' = IF wake THEN "done" ELSE "waiting"
  /\ wake' = FALSE
  /\ UNCHANGED <<shared, chunk, tflush, tshut, gpc, gwoken, half, hist>>

\* The second next_work.  It takes the queue like the first one, but only
\* its kind is looked at: the bytes of a Work::Io are dropped with it.  The
\* Notified is dropped too, and hands a notification it holds back.
Recheck ==
  /\ tpc = "recheck" /\ state = "open"
  /\ \/ /\ NothingToDo
        /\ tpc' = "await"
        /\ UNCHANGED <<queued, lost, wake, waiter>>
     \/ /\ ~NothingToDo
        /\ lost' = lost \cup Elems(queued)
        /\ queued' = <<>>
        /\ wake' = (wake \/ waiter = "notified")
        /\ waiter' = "none"
        /\ tpc' = "work"
  /\ UNCHANGED <<flushing, shutdown, state, chunk, tflush, tshut, gpc, gwoken,
                 half, written, flushes>>

Await ==
  /\ tpc = "await" /\ waiter \in {"notified", "done"}
  /\ waiter' = "none"
  /\ tpc' = "work"
  /\ UNCHANGED <<shared, wake, chunk, tflush, tshut, gpc, gwoken, half, hist>>

\* Mutant: the flush asked for is left out.
AfterWriteUnflushed == IF tshut THEN "shutdown" ELSE "settle"

\* half.write_all, then flush and shutdown as the work asks.
AfterWrite == IF tflush THEN "flush" ELSE IF tshut THEN "shutdown" ELSE "settle"

\* Mutant: a single write instead of write_all.
WriteSome ==
  /\ tpc = "write"
  /\ tls' = tls \o SubSeq(chunk, 1, 1)
  /\ sent' \in sent..Len(tls')
  /\ chunk' = <<>>
  /\ tpc' = AfterWrite
  /\ UNCHANGED <<shared, wake, waiter, tflush, tshut, gpc, gwoken, closed,
                 hist>>

\* tokio-rustls encrypts all of the chunk and passes on what the transport
\* takes: write_all returns with a tail of records still buffered when the
\* transport blocks, and only the next call on the half moves it.
WriteAll ==
  /\ tpc = "write"
  /\ tls' = tls \o chunk
  /\ IF chunk = <<>> THEN UNCHANGED sent ELSE sent' \in sent..Len(tls')
  /\ chunk' = <<>>
  /\ tpc' = AfterWrite
  /\ UNCHANGED <<shared, wake, waiter, tflush, tshut, gpc, gwoken, closed,
                 hist>>

FlushHalf ==
  /\ tpc = "flush"
  /\ sent' = Len(tls)
  /\ tpc' = IF tshut THEN "shutdown" ELSE "settle"
  /\ UNCHANGED <<shared, wake, waiter, chunk, tflush, tshut, gpc, gwoken, tls,
                 closed, hist>>

\* close_notify, then flush and FIN.
ShutdownHalf ==
  /\ tpc = "shutdown"
  /\ closed' = TRUE
  /\ sent' = Len(tls)
  /\ tpc' = "settle"
  /\ UNCHANGED <<shared, wake, waiter, chunk, tflush, tshut, gpc, gwoken, tls,
                 hist>>

\* Any of the three fails; write_all may have passed on a first part.
HalfFails(n) ==
  /\ tpc \in {"write", "flush", "shutdown"}
  /\ n <= Len(chunk)
  /\ tls' = tls \o SubSeq(chunk, 1, n)
  /\ sent' \in sent..Len(tls')
  /\ tpc' = "broken"
  /\ UNCHANGED <<shared, wake, waiter, chunk, tflush, tshut, gpc, gwoken,
                 closed, hist>>

\* ready.notify_waiters: wakes a guest that has registered.
NotifyGuest == gwoken' = (gwoken \/ gpc \in {"enabled", "polling"})

\* Mutant: any finished work completes a flush.
SettleEager ==
  /\ tpc = "settle"
  /\ flushing' = FALSE
  /\ IF tshut
     THEN state' = "closed" /\ tpc' = "ended"
     ELSE state' = state /\ tpc' = "work"
  /\ NotifyGuest
  /\ UNCHANGED <<queued, shutdown, wake, waiter, chunk, tflush, tshut, gpc,
                 half, hist>>

\* Mutant: a finished flush is not recorded.
SettleForgets ==
  /\ tpc = "settle"
  /\ IF tshut
     THEN state' = "closed" /\ tpc' = "ended"
     ELSE state' = state /\ tpc' = "work"
  /\ NotifyGuest
  /\ UNCHANGED <<queued, flushing, shutdown, wake, waiter, chunk, tflush,
                 tshut, gpc, half, hist>>

\* The locked section after the I/O.
Settle ==
  /\ tpc = "settle"
  /\ flushing' = IF tflush /\ queued = <<>> THEN FALSE ELSE flushing
  /\ IF tshut
     THEN state' = "closed" /\ tpc' = "ended"
     ELSE state' = state /\ tpc' = "work"
  /\ NotifyGuest
  /\ UNCHANGED <<queued, shutdown, wake, waiter, chunk, tflush, tshut, gpc,
                 half, hist>>

SettleFailed ==
  /\ tpc = "broken"
  /\ state' = "failed" /\ tpc' = "ended"
  /\ NotifyGuest
  /\ UNCHANGED <<queued, flushing, shutdown, wake, waiter, chunk, tflush,
                 tshut, gpc, half, hist>>

-----------------------------------------------------------------------------
Task ==
  \/ NextWork \/ Register \/ Recheck \/ Await
  \/ WriteAll \/ FlushHalf \/ ShutdownHalf \/ Settle \/ SettleFailed

\* What a guest that has called does without deciding anything.
GuestRuns == NotifyTask \/ PollCheck \/ PollWoken

Next ==
  \/ Task
  \/ \E n \in 0..Len(chunk) : HalfFails(n)
  \/ GuestRuns
  \/ \E n \in 1..CHUNK : Write(n)
  \/ Flush \/ RequestShutdown \/ PollEnable \/ PollCancel

Spec == Init /\ [][Next]_vars

(* tokio polls the task when it can move and the peer takes what is sent;   *)
(* a guest call that has begun runs to its end.  The guest is not obliged   *)
(* to write, flush, poll or close.                                          *)
FairSpec == Spec /\ WF_vars(Task) /\ WF_vars(GuestRuns)

-----------------------------------------------------------------------------
(* Properties *)

TaskPcs == {"work", "register", "recheck", "await", "write", "flush",
            "shutdown", "settle", "broken", "ended"}

\* Types; the queue stays within the budget check-write announces.
TypeOK ==
  /\ queued \in Seq(Nat) /\ Len(queued) <= CHUNK
  /\ flushing \in BOOLEAN /\ shutdown \in BOOLEAN
  /\ state \in {"open", "closed", "failed"}
  /\ wake \in BOOLEAN
  /\ waiter \in {"none", "waiting", "notified", "done"}
  /\ tpc \in TaskPcs
  /\ chunk \in Seq(Nat)
  /\ tflush \in BOOLEAN /\ tshut \in BOOLEAN
  /\ gpc \in {"idle", "notify", "enabled", "polling"}
  /\ gwoken \in BOOLEAN
  /\ tls \in Seq(Nat)
  /\ sent \in 0..Len(tls)
  /\ closed \in BOOLEAN
  /\ written \in Nat
  /\ lost \subseteq Nat
  /\ flushes \in Nat

Healthy == tpc # "broken" /\ state # "failed"

\* Every unit the guest handed over is in the connection, in the task's
\* hands or queued, unless the send direction failed or the re-check before
\* waiting dropped it: no other interleaving of guest and task loses bytes.
Accounted ==
  Healthy => Elems(tls) \cup Elems(chunk) \cup Elems(queued) \cup lost
               = 1..written

\* Units reach the connection in the order they were written, each once.
InOrder ==
  Healthy =>
    LET all == tls \o chunk \o queued
    IN  \A i, j \in DOMAIN all : i < j => all[i] < all[j]

\* close_notify is written after all data accepted before the shutdown, and
\* nothing is accepted after it.
ClosedAfterData == closed /\ Healthy => queued = <<>> /\ chunk = <<>>

\* A flush is reported complete (budget is announced again) only when
\* everything written before it has been passed to the transport, except
\* what the re-check before waiting dropped: the flush does not know of it.
FlushHonest ==
  [][flushing /\ ~flushing' =>
       sent = Len(tls) /\ Elems(tls) \cup lost = 1..written]_vars

\* A guest may write and never poll again: what it wrote still reaches the
\* TLS half, and the transport too once the guest has asked for a flush or a
\* shutdown.  Without either the tail of the last write may stay buffered in
\* the half for good; and the re-check before waiting may drop what it took.
WrittenIsSent ==
  \A k \in 1..MaxBytes :
    /\ written >= k ~> k \in Elems(tls) \/ k \in lost \/ ~Healthy
    /\ written >= k /\ (flushing \/ shutdown)
         ~> k \in Elems(SubSeq(tls, 1, sent)) \/ k \in lost \/ ~Healthy

\* Nothing the guest asked for stays undone: a requested flush completes and a
\* requested shutdown ends the direction, whenever they were requested, and a
\* guest waiting for budget is woken when there is some, unless the re-check
\* dropped bytes.
RequestsComplete ==
  /\ flushing ~> ~flushing \/ state # "open"
  /\ shutdown ~> state # "open"
  /\ gpc = "polling" ~> gpc = "idle" \/ lost # {}

-----------------------------------------------------------------------------
(* What comments in p2.rs say, where the code does something else. *)

\* "a request that landed in between is caught here": no accepted byte is
\* discarded by the re-check before waiting.
NothingLost == lost = {}
=============================================================================
