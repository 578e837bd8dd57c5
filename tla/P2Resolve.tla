----------------------------- MODULE P2Resolve -----------------------------
(***************************************************************************)
(* Name lookup for WASI 0.2 guests: resolve_addresses and the wrapped      *)
(* resolve-address-stream of rust/tls-virt-wasmtime/src/p2.rs.             *)
(*                                                                         *)
(* A stream resource is known by its table index, which the resource table *)
(* uses again once the resource is dropped; `resolves` is the side map     *)
(* keyed by it.  The delegated stream is wasmtime-wasi's: it answers       *)
(* would-block until the resolver is done, may do so again between         *)
(* addresses, and reports a failed resolution once.                        *)
(***************************************************************************)
EXTENDS HandleTable

CONSTANTS
  NoName,      \* stands for no hostname
  Lookups,     \* table indices of lookup streams
  Answers,     \* what the resolver may answer
  MaxResolves  \* bound: calls of resolve_addresses

ASSUME ResolveAssumption == Answers \subseteq Seq(RealAddrs)

VARIABLES
  table,     \* VirtCtx.names
  resolves,  \* p2_resolves[rep], st = "none" where the map has no entry
  inner,     \* the delegated stream and what it has left to answer
  opted,     \* history: the stream was opened for a suffixed name
  name,      \* history: the hostname it resolves
  answer,    \* history: the resolver's whole answer
  given,     \* history: addresses the guest was given
  calls      \* resolve_addresses calls so far

streamVars == <<opted, name, answer>>
lookupVars == <<table, resolves, inner, streamVars, given, calls>>

Draining(n, addrs) == [st |-> "draining", hostname |-> n, addrs |-> addrs]

NoResolve == [st |-> "none", hostname |-> NoName, addrs |-> <<>>]
Yielded   == [st |-> "yielded", hostname |-> NoName, addrs |-> <<>>]

IsDraining(rep) == resolves[rep].st = "draining"

Inner(st, rest) == [st |-> st, rest |-> rest]

Answered(rep) == inner[rep].st = "answered"

ResolveInit ==
  /\ table = EmptyTable
  /\ resolves = [r \in Lookups |-> NoResolve]
  /\ inner = [r \in Lookups |-> Inner("absent", <<>>)]
  /\ opted = [r \in Lookups |-> FALSE]
  /\ name = [r \in Lookups |-> NoName]
  /\ answer = [r \in Lookups |-> <<>>]
  /\ given = [r \in Lookups |-> <<>>]
  /\ calls = 0

-----------------------------------------------------------------------------
(* The resolver, external. *)

ResolverAnswers(rep, addrs) ==
  /\ inner[rep].st = "waiting"
  /\ inner' = [inner EXCEPT ![rep] = Inner("answered", addrs)]
  /\ answer' = [answer EXCEPT ![rep] = addrs]
  /\ UNCHANGED <<table, resolves, opted, name, given, calls>>

ResolverFails(rep) ==
  /\ inner[rep].st = "waiting"
  /\ inner' = [inner EXCEPT ![rep].st = "failed"]
  /\ UNCHANGED <<table, resolves, streamVars, given, calls>>

-----------------------------------------------------------------------------
(* Guest calls. *)

\* resolve_addresses: the delegated lookup opens a stream at a free index;
\* a suffixed name also enters the side map.
ResolveAddresses(rep, n, suffixed) ==
  /\ inner[rep].st = "absent"
  /\ calls < MaxResolves
  /\ calls' = calls + 1
  /\ inner' = [inner EXCEPT ![rep] = Inner("waiting", <<>>)]
  /\ resolves' = IF suffixed
                 THEN [resolves EXCEPT ![rep] = Draining(n, <<>>)]
                 ELSE resolves
  /\ opted' = [opted EXCEPT ![rep] = suffixed]
  /\ name' = [name EXCEPT ![rep] = n]
  /\ answer' = [answer EXCEPT ![rep] = <<>>]
  /\ given' = [given EXCEPT ![rep] = <<>>]
  /\ UNCHANGED table

\* resolve_next_address on a stream that is not in the side map.
NextPlain(rep) ==
  /\ resolves[rep].st = "none" /\ Answered(rep) /\ inner[rep].rest # <<>>
  /\ given' = [given EXCEPT ![rep] = Append(@, Head(inner[rep].rest))]
  /\ inner' = [inner EXCEPT ![rep].rest = Tail(@)]
  /\ UNCHANGED <<table, resolves, streamVars, calls>>

\* A failed delegated resolution is passed on once; afterwards the delegated
\* stream is at its end.
NextFails(rep) ==
  /\ inner[rep].st = "failed"
  /\ inner' = [inner EXCEPT ![rep].st = "answered"]
  /\ UNCHANGED <<table, resolves, streamVars, given, calls>>

\* The drain loop pushes k addresses, then the delegated stream would block:
\* the error is returned and what was drained stays in the side map.
NextBlocks(rep, k) ==
  /\ IsDraining(rep) /\ Answered(rep)
  /\ k <= Len(inner[rep].rest)
  /\ resolves' = [resolves EXCEPT ![rep].addrs = @ \o SubSeq(inner[rep].rest, 1, k)]
  /\ inner' = [inner EXCEPT ![rep].rest = SubSeq(@, k + 1, Len(@))]
  /\ UNCHANGED <<table, streamVars, given, calls>>

\* The loop reaches the end of the delegated stream with something drained:
\* one handle is minted for all of it and given to the guest.
NextHandle(rep, h) ==
  /\ IsDraining(rep) /\ Answered(rep)
  /\ LET all == resolves[rep].addrs \o inner[rep].rest
     IN  /\ all # <<>>
         /\ table' = Mint(table, h, [hostname |-> resolves[rep].hostname,
                                     addrs |-> all])
         /\ given' = [given EXCEPT ![rep] = Append(@, h)]
  /\ resolves' = [resolves EXCEPT ![rep] = Yielded]
  /\ inner' = [inner EXCEPT ![rep].rest = <<>>]
  /\ UNCHANGED <<streamVars, calls>>

\* Mutant: only the last batch is looked at.
NextUnresolvableHasty(rep) ==
  /\ IsDraining(rep) /\ Answered(rep) /\ inner[rep].rest = <<>>
  /\ resolves' = [resolves EXCEPT ![rep] = Yielded]
  /\ UNCHANGED <<table, inner, streamVars, given, calls>>

\* The same with nothing drained: name-unresolvable.
NextUnresolvable(rep) ==
  /\ IsDraining(rep) /\ Answered(rep) /\ inner[rep].rest = <<>>
  /\ resolves[rep].addrs = <<>>
  /\ resolves' = [resolves EXCEPT ![rep] = Yielded]
  /\ UNCHANGED <<table, inner, streamVars, given, calls>>

\* The histories are those of the open stream.
Forget(rep) ==
  /\ opted' = [opted EXCEPT ![rep] = FALSE]
  /\ name' = [name EXCEPT ![rep] = NoName]
  /\ answer' = [answer EXCEPT ![rep] = <<>>]
  /\ given' = [given EXCEPT ![rep] = <<>>]

\* Mutant: the side map keeps the entry of a dropped stream.
DropStreamKept(rep) ==
  /\ inner[rep].st # "absent"
  /\ inner' = [inner EXCEPT ![rep] = Inner("absent", <<>>)]
  /\ Forget(rep)
  /\ UNCHANGED <<table, resolves, calls>>

DropStream(rep) ==
  /\ inner[rep].st # "absent"
  /\ resolves' = [resolves EXCEPT ![rep] = NoResolve]
  /\ inner' = [inner EXCEPT ![rep] = Inner("absent", <<>>)]
  /\ Forget(rep)
  /\ UNCHANGED <<table, calls>>

NextAddress(rep) ==
  \/ NextPlain(rep) \/ NextFails(rep) \/ NextUnresolvable(rep)
  \/ \E h \in Fresh(table) : NextHandle(rep, h)

Resolver(rep) == ResolverFails(rep) \/ \E a \in Answers : ResolverAnswers(rep, a)

ResolveNext ==
  \E rep \in Lookups :
    \/ Resolver(rep)
    \/ \E n \in Names, suffixed \in BOOLEAN : ResolveAddresses(rep, n, suffixed)
    \/ NextAddress(rep)
    \/ \E k \in 0..Len(answer[rep]) : NextBlocks(rep, k)
    \/ DropStream(rep)

-----------------------------------------------------------------------------
(* Properties *)

Open(rep) == inner[rep].st # "absent"

OnlyFaithfulHandle(r) ==
  /\ Len(given[r]) <= 1
  /\ \A i \in DOMAIN given[r] :
       /\ IsHandle(table, given[r][i])
       /\ table[given[r][i]].addrs # <<>>
       /\ table[given[r][i]] = [hostname |-> name[r], addrs |-> answer[r]]

PlainUnchanged(r) ==
  /\ resolves[r].st = "none"
  /\ Answered(r) => given[r] \o inner[r].rest = answer[r]

\* A guest that opted a name in never sees its real addresses: the stream
\* yields at most one address, and that is a handle standing for the name
\* and for everything the resolver answered, however often the delegated
\* stream blocked in between; there is always an address to dial behind it,
\* which pick_addr's callers rely on.  A name that was not opted in resolves
\* as if the provider were not there, also at a table index an opted-in
\* stream had used before.
ResolvedAsAsked ==
  \A r \in Lookups :
    Open(r) => IF opted[r] THEN OnlyFaithfulHandle(r) ELSE PlainUnchanged(r)

\* A resolution of an opted-in name that has an answer ends in a handle.
ResolutionYields ==
  \A r \in Lookups :
    opted[r] /\ answer[r] # <<>> /\ Open(r) ~> given[r] # <<>> \/ ~Open(r)
=============================================================================
