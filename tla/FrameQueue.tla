----------------------------- MODULE FrameQueue -----------------------------
(***************************************************************************)
(* What the frame ring promises its users: a queue that loses frames only  *)
(* from the old end.  The capture threads add frames, each younger than    *)
(* every one still to come out and than the one the recorder has; the      *)
(* oldest is delivered to the recorder or given up to make room.  A queue  *)
(* that broke promises nothing, and stays broken.                          *)
(***************************************************************************)
EXTENDS Integers, Sequences

CONSTANTS Frame,    \* the frames, each with its number id
          NoFrame   \* what the recorder has before the first frame

VARIABLES queue,    \* the frames to come out, the oldest first
          out,      \* the frame delivered last
          broken

Init == queue = <<>> /\ out = NoFrame /\ broken = FALSE

Younger(f) == out.id < f.id /\ \A i \in DOMAIN queue : queue[i].id < f.id

Push    == \E f \in Frame : Younger(f) /\ queue' = Append(queue, f) /\ out' = out
Discard == queue # <<>> /\ queue' = Tail(queue) /\ out' = out
Deliver == queue # <<>> /\ queue' = Tail(queue) /\ out' = Head(queue)
Break   == broken' = TRUE

Next == \/ ~broken /\ ~broken' /\ (Push \/ Discard \/ Deliver)
        \/ Break

Spec == Init /\ [][Next]_<<queue, out, broken>>
=============================================================================
