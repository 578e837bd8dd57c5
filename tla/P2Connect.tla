----------------------------- MODULE P2Connect -----------------------------
(***************************************************************************)
(* Connecting a WASI 0.2 socket through the provider: start_connect,       *)
(* finish_connect, subscribe and drop of rust/tls-virt-wasmtime/src/p2.rs, *)
(* with the background task that checks, dials and runs the handshake.     *)
(*                                                                         *)
(* Guest calls run on the store's thread, one at a time; each connect task *)
(* runs on the runtime's threads and survives the socket it was started    *)
(* for.  Table indices are used again after a drop, so a socket is an      *)
(* index and a generation; the provider's side map knows only the index.   *)
(* The handles that are dialed come from P2Resolve's lookups.              *)
(***************************************************************************)
EXTENDS P2Resolve

CONSTANTS
  BadNames,  \* hostnames that are not valid TLS server names
  Reps,      \* table indices
  MaxGen,    \* bound: sockets created at one index
  MaxTasks   \* bound: connect tasks

ASSUME ConnectAssumption ==
  BadNames \subseteq Names /\ MaxGen \in Nat /\ MaxTasks \in Nat

VARIABLES
  gen,      \* per index: generation of the socket there
  alive,    \* per index: a socket exists
  native,   \* per index: the wasmtime-wasi socket's own connection state
  tunnels,  \* p2_tunnels
  tasks,    \* the connect tasks spawned so far
  approved  \* history: <<task, address>> pairs the sandbox check allowed

sockVars == <<gen, alive, native>>
connectVars == <<sockVars, tunnels, tasks, approved>>
vars == <<lookupVars, connectVars>>

NoTunnel == [st |-> "none", remote |-> "none", task |-> 0]

ConnectInit ==
  /\ gen = [r \in Reps |-> 0]
  /\ alive = [r \in Reps |-> FALSE]
  /\ native = [r \in Reps |-> "fresh"]
  /\ tunnels = [r \in Reps |-> NoTunnel]
  /\ tasks = <<>>
  /\ approved = {}

Pc(t, pc) == t \in DOMAIN tasks /\ tasks[t].pc = pc

\* The watch flag a pollable of this tunnel waits for.
Ready(rep) == tunnels[rep].st # "none" /\ tasks[tunnels[rep].task].done

-----------------------------------------------------------------------------
(* Guest calls. *)

\* A socket appears at a free index: by create-tcp-socket, or accepted from
\* a listener elsewhere in the table, which the provider delegates.
Create(rep, how) ==
  /\ ~alive[rep] /\ gen[rep] < MaxGen
  /\ gen' = [gen EXCEPT ![rep] = @ + 1]
  /\ alive' = [alive EXCEPT ![rep] = TRUE]
  /\ native' = [native EXCEPT ![rep] = how]
  /\ UNCHANGED <<tunnels, tasks, approved>>

\* What the task captures, and its empty result slot and unset watch.
NewTask(rep, h) ==
  [pc |-> "check", owner |-> <<rep, gen[rep]>>,
   name |-> table[h].hostname, addr |-> PickAddr(table[h].addrs),
   outcome |-> "none", slot |-> "none", done |-> FALSE]

\* Mutant: a socket that is already a tunnel may connect again.
StartConnectAgain(rep, h) ==
  /\ alive[rep] /\ IsHandle(table, h)
  /\ Len(tasks) < MaxTasks
  /\ tasks' = Append(tasks, NewTask(rep, h))
  /\ tunnels' = [tunnels EXCEPT ![rep] =
       [st |-> "connecting", remote |-> h, task |-> Len(tasks) + 1]]
  /\ UNCHANGED <<sockVars, approved>>

\* start_connect to a handle: refused when the socket is already a tunnel.
StartConnect(rep, h) ==
  /\ alive[rep] /\ IsHandle(table, h)
  /\ tunnels[rep].st = "none"
  /\ Len(tasks) < MaxTasks
  /\ tasks' = Append(tasks, NewTask(rep, h))
  /\ tunnels' = [tunnels EXCEPT ![rep] =
       [st |-> "connecting", remote |-> h, task |-> Len(tasks) + 1]]
  /\ UNCHANGED <<sockVars, approved>>

\* start_connect to any other address is delegated before the side map is
\* looked at.
StartConnectPlain(rep) ==
  /\ alive[rep] /\ native[rep] = "fresh"
  /\ native' = [native EXCEPT ![rep] = "connecting"]
  /\ UNCHANGED <<gen, alive, tunnels, tasks, approved>>

\* finish_connect of a socket that is not a tunnel is delegated.
FinishPlain(rep) ==
  /\ alive[rep] /\ tunnels[rep].st = "none" /\ native[rep] = "connecting"
  /\ native' = [native EXCEPT ![rep] = "connected"]
  /\ UNCHANGED <<gen, alive, tunnels, tasks, approved>>

\* finish_connect of a tunnel: would-block while the slot is empty, else the
\* outcome is taken and the tunnel becomes connected or failed.
FinishConnect(rep) ==
  /\ alive[rep] /\ tunnels[rep].st = "connecting"
  /\ LET t == tunnels[rep].task
     IN  /\ tasks[t].slot # "none"
         /\ tasks' = [tasks EXCEPT ![t].slot = "none"]
         /\ tunnels' = [tunnels EXCEPT ![rep].st =
              IF tasks[t].slot = "ok" THEN "connected" ELSE "failed"]
  /\ UNCHANGED <<sockVars, approved>>

\* Mutant: the side map keeps the entry of a dropped socket.
DropSocketKept(rep) ==
  /\ alive[rep]
  /\ alive' = [alive EXCEPT ![rep] = FALSE]
  /\ native' = [native EXCEPT ![rep] = "fresh"]
  /\ UNCHANGED <<gen, tunnels, tasks, approved>>

\* The socket's streams are its children in the table and are gone by now.
\* A connect task still running is left alone.
DropSocket(rep) ==
  /\ alive[rep]
  /\ alive' = [alive EXCEPT ![rep] = FALSE]
  /\ native' = [native EXCEPT ![rep] = "fresh"]
  /\ tunnels' = [tunnels EXCEPT ![rep] = NoTunnel]
  /\ UNCHANGED <<gen, tasks, approved>>

-----------------------------------------------------------------------------
(* The connect task. *)

\* The outcome is known: nothing is left but to publish it.
Ends(t, result) == tasks' = [tasks EXCEPT ![t].outcome = result, ![t].pc = "store"]

Goes(t, pc) == tasks' = [tasks EXCEPT ![t].pc = pc]

\* The embedder's address check.
TaskCheck(t, allow) ==
  /\ Pc(t, "check")
  /\ IF allow
     THEN Goes(t, "dial") /\ approved' = approved \cup {<<t, tasks[t].addr>>}
     ELSE Ends(t, "access-denied") /\ UNCHANGED approved
  /\ UNCHANGED <<sockVars, tunnels>>

TaskDial(t, up) ==
  /\ Pc(t, "dial")
  /\ IF up THEN Goes(t, "tls") ELSE Ends(t, "refused")
  /\ UNCHANGED <<sockVars, tunnels, approved>>

\* The server name is parsed once TCP is up; then the handshake with it.
TaskTls(t, verified) ==
  /\ Pc(t, "tls")
  /\ \/ /\ tasks[t].name \in BadNames
        /\ Ends(t, "invalid-argument")
     \/ /\ tasks[t].name \notin BadNames
        /\ Ends(t, IF verified THEN "ok" ELSE "connection-reset")
  /\ UNCHANGED <<sockVars, tunnels, approved>>

\* Mutant: the watch is set before the slot is filled.
TaskStoreAfterSignal(t) ==
  /\ Pc(t, "store")
  /\ tasks' = [tasks EXCEPT ![t].done = TRUE, ![t].pc = "signal"]
  /\ UNCHANGED <<sockVars, tunnels, approved>>

\* The slot is filled, and after the unlock the watch is set.
TaskStore(t) ==
  /\ Pc(t, "store")
  /\ tasks' = [tasks EXCEPT ![t].slot = tasks[t].outcome, ![t].pc = "signal"]
  /\ UNCHANGED <<sockVars, tunnels, approved>>

\* Mutant: the watch is not set when the connect failed.
TaskSignalOnSuccess(t) ==
  /\ Pc(t, "signal")
  /\ tasks' = [tasks EXCEPT ![t].done = (tasks[t].outcome = "ok"), ![t].pc = "end"]
  /\ UNCHANGED <<sockVars, tunnels, approved>>

TaskSignal(t) ==
  /\ Pc(t, "signal")
  /\ tasks' = [tasks EXCEPT ![t].done = TRUE, ![t].pc = "end"]
  /\ UNCHANGED <<sockVars, tunnels, approved>>

TaskRuns(t) ==
  \/ \E b \in BOOLEAN : TaskCheck(t, b) \/ TaskDial(t, b) \/ TaskTls(t, b)
  \/ TaskStore(t) \/ TaskSignal(t)

-----------------------------------------------------------------------------
ConnectNext ==
  \/ \E rep \in Reps :
       \/ \E how \in {"fresh", "connected"} : Create(rep, how)
       \/ DropSocket(rep)
       \/ \E h \in DOMAIN table : StartConnect(rep, h)
       \/ StartConnectPlain(rep) \/ FinishPlain(rep) \/ FinishConnect(rep)
  \/ \E t \in 1..MaxTasks : TaskRuns(t)

Init == ResolveInit /\ ConnectInit

(* Bound: lookups come first.  The table only grows, an entry never changes  *)
(* and start_connect reads one entry, so a lookup made between or after the  *)
(* steps of a connect could as well have been made before it.                *)
Next ==
  \/ /\ \A rep \in Reps : gen[rep] = 0
     /\ ResolveNext
     /\ UNCHANGED connectVars
  \/ /\ \A rep \in Lookups : ~Open(rep)
     /\ ConnectNext
     /\ UNCHANGED lookupVars

Spec == Init /\ [][Next]_vars

(* The resolver answers and a guest calls resolve_next_address until it gets *)
(* something; the delegated stream does not block for ever.  The runtime     *)
(* runs every task; check, transport and peer answer one way or the other    *)
(* (the code sets no timeout of its own), and a guest whose pollable is      *)
(* ready calls finish_connect.                                               *)
FairSpec ==
  /\ Spec
  /\ \A rep \in Lookups :
       /\ WF_vars(Resolver(rep) /\ UNCHANGED connectVars)
       /\ WF_vars(NextAddress(rep) /\ UNCHANGED connectVars)
  /\ \A t \in 1..MaxTasks : WF_vars(TaskRuns(t) /\ UNCHANGED lookupVars)
  /\ \A rep \in Reps :
       WF_vars(Ready(rep) /\ FinishConnect(rep) /\ UNCHANGED lookupVars)

-----------------------------------------------------------------------------
(* Properties *)

\* A guest woken by the socket's pollable gets its answer: finish_connect
\* does not say would-block once the pollable is ready.
ReadyMeansFinished ==
  \A r \in Reps :
    tunnels[r].st = "connecting" /\ Ready(r) =>
      tasks[tunnels[r].task].slot # "none"

TunnelIsOwn(r) ==
  alive[r] /\ tasks[tunnels[r].task].owner = <<r, gen[r]>>

AsDialed(r) ==
  LET task  == tasks[tunnels[r].task]
      entry == table[tunnels[r].remote]
      addrs == {entry.addrs[i] : i \in DOMAIN entry.addrs}
  IN  /\ task.outcome = "ok"
      /\ task.name = entry.hostname /\ task.name \notin BadNames
      /\ task.addr \in addrs
      /\ <<tunnels[r].task, task.addr>> \in approved
      /\ addrs \cap V6Addrs # {} => task.addr \in V6Addrs

\* A tunnel in the side map belongs to the socket that lives at its index
\* now, not to one dropped before, also while that one's task still runs; and
\* a connected tunnel is what the guest asked for: the handshake succeeded
\* for the hostname that was looked up to get the handle, at one of the
\* resolver's answers (an IPv6 one if there is one), which the sandbox
\* allowed.
ConnectedAsDialed ==
  \A r \in Reps :
    /\ tunnels[r].st # "none" => TunnelIsOwn(r)
    /\ tunnels[r].st = "connected" => AsDialed(r)

\* An outcome that was reported stands until the socket is dropped.
OutcomeStands ==
  [][\A r \in Reps :
       tunnels[r].st \in {"connected", "failed"} =>
         tunnels'[r] = tunnels[r] \/ ~alive'[r]]_vars

\* A started connect is reported to a guest that polls, success or failure.
ConnectSettles ==
  \A r \in Reps :
    tunnels[r].st = "connecting" ~> tunnels[r].st # "connecting"
=============================================================================
