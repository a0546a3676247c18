--------------------------- MODULE MCChannelGroup ---------------------------
(* Two connections of one camera, and one of a device that registers as    *)
(* another camera and also under the first one's number.                   *)
EXTENDS ChannelGroup, TLC

CONSTANTS a1, a2, b, sa, sb

MCChan == {a1, a2, b}
MCSerial == {sa, sb}
MCSerialsOf == a1 :> {sa} @@ a2 :> {sa} @@ b :> {sa, sb}
MCSymmetry == Permutations({a1, a2})

=============================================================================
