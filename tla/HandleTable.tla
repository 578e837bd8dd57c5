---------------------------- MODULE HandleTable ----------------------------
(***************************************************************************)
(* The handle-address table of rust/tls-virt-common/src/lib.rs, shared by  *)
(* both deliveries of the tls-virt scheme.                                 *)
(*                                                                         *)
(* A table maps the addresses it minted to the destinations they stand     *)
(* for.  Addresses are opaque: those in HandleSpace lie under the table's  *)
(* random prefix, the others do not.  The 64 random bits of a handle are   *)
(* modelled by choosing any address of HandleSpace not minted before.      *)
(***************************************************************************)
EXTENDS Naturals, Sequences

CONSTANTS
  HandleSpace,  \* addresses under the table's prefix
  RealAddrs,    \* addresses the host's resolver answers with
  V6Addrs,      \* those of them that are IPv6
  Names         \* hostnames, without the opt-in suffix

ASSUME TableAssumption ==
  HandleSpace \cap RealAddrs = {} /\ V6Addrs \subseteq RealAddrs

Entry == [hostname : Names, addrs : Seq(RealAddrs)]

EmptyTable == [h \in {} |-> <<>>]

\* HandleTable::mint with the fresh handle h.
Mint(table, h, entry) ==
  [x \in DOMAIN table \cup {h} |-> IF x = h THEN entry ELSE table[x]]

Fresh(table) == HandleSpace \ DOMAIN table

\* HandleTable::lookup answers for a.
IsHandle(table, a) == a \in DOMAIN table

\* pick_addr of a non-empty entry: the first IPv6 address, or the first.
PickAddr(addrs) ==
  LET six == {i \in DOMAIN addrs : addrs[i] \in V6Addrs}
  IN  addrs[IF six = {} THEN 1 ELSE CHOOSE i \in six : \A j \in six : i <= j]
=============================================================================
