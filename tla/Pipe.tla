-------------------------------- MODULE Pipe --------------------------------
(***************************************************************************)
(* What one direction of a TLS tunnel promises its receiver, whichever     *)
(* code carries it: the data arrives in order, nothing is added, an end is *)
(* told once and only when everything before it was handed over, and the   *)
(* end is told as clean only after the sender's close_notify.  The         *)
(* receiver may leave; what it then misses is its own doing.               *)
(*                                                                         *)
(* An abstract specification: TlsPump and P2Read are shown to implement it *)
(* (ImplementsPipe there).                                                 *)
(***************************************************************************)
EXTENDS Naturals, Sequences

VARIABLES
  sent,   \* units of data the secure channel has carried, numbered from 1
  got,    \* the units the receiver was given
  ended,  \* the sender has ended the direction with close_notify
  told,   \* the end the receiver was told of: "none", "clean", "cut"
  left    \* the receiver gave its end up

pipeVars == <<sent, got, ended, told, left>>

Init ==
  /\ sent = 0 /\ got = <<>> /\ ended = FALSE /\ told = "none" /\ left = FALSE

\* Data is carried: some units, until the sender ends.
Carry ==
  /\ ~ended
  /\ sent' > sent
  /\ UNCHANGED <<got, ended, told, left>>

\* The receiver is given the units that come next.
Deliver ==
  /\ ~left /\ told = "none"
  /\ Len(got) < Len(got') /\ Len(got') <= sent
  /\ got' = got \o [i \in 1..(Len(got') - Len(got)) |-> Len(got) + i]
  /\ UNCHANGED <<sent, ended, told, left>>

End ==
  /\ ~ended
  /\ ended' = TRUE
  /\ UNCHANGED <<sent, got, told, left>>

\* The receiver has all there is.
Complete == Len(got) = sent

TellClean ==
  /\ told = "none"
  /\ left \/ (ended /\ Complete)
  /\ told' = "clean"
  /\ UNCHANGED <<sent, got, ended, left>>

\* Without close_notify, or when something else went wrong.
TellCut ==
  /\ told = "none"
  /\ left \/ Complete
  /\ told' = "cut"
  /\ UNCHANGED <<sent, got, ended, left>>

Leave ==
  /\ ~left
  /\ left' = TRUE
  /\ UNCHANGED <<sent, got, ended, told>>

Next == Carry \/ Deliver \/ End \/ TellClean \/ TellCut \/ Leave

Spec == Init /\ [][Next]_pipeVars
=============================================================================
