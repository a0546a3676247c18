--------------------------- MODULE ReaderProtocol ---------------------------
(***************************************************************************)
(* What the block writer is promised of the stream reader it takes its     *)
(* work from: of each connection first the header piece, then data pieces  *)
(* and header updates, and an error before anything of the next one.       *)
(* `out' is what one step of the reader posts, in order.                   *)
(***************************************************************************)
EXTENDS Naturals, Sequences

VARIABLES phase, out

Init == phase = "head" /\ out = <<>>

\* Data pieces and updates only, in any number.
Feed(s) == \A i \in DOMAIN s : s[i] \in {"data", "update"}

\* A batch that ends with an error, after what was still to be delivered.
Failing(s) == \E n \in DOMAIN s : /\ n = Len(s) /\ s[n] = "error"
                                  /\ \A i \in DOMAIN s : i < n => s[i] \in {"data", "update"}

Quiet  == out' = <<>> /\ UNCHANGED phase
Header == phase = "head" /\ phase' = "data" /\ out' = <<"head">>
Data   == phase = "data" /\ phase' = "data" /\ Feed(out')
Error  == /\ Failing(out') /\ phase' = "head"
          /\ phase = "head" => Len(out') = 1

Next == Quiet \/ Header \/ Data \/ Error

Spec == Init /\ [][Next]_<<phase, out>>
=============================================================================
