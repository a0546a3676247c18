---------------------------- MODULE MCTranscoder ----------------------------
(* An instance of Transcoder: two processes of wsgi_flv2ts, one each of    *)
(* wsgi_flv2fragment and wsgi_flv2manifest; a channel with a normal        *)
(* segment and one on hold, and a second channel with a late blank one.    *)
EXTENDS Transcoder, TLC

CONSTANTS w1, w2, w3, w4, c1, c2, a1, a2, b1

MCWorker == {w1, w2, w3, w4}
MCPoolOf == w1 :> "ts" @@ w2 :> "ts" @@ w3 :> "fragment" @@ w4 :> "manifest"
MCClient == {c1, c2}
MCSeg == {a1, a2, b1}
MCChannelOf == a1 :> "a" @@ a2 :> "a" @@ b1 :> "b"
MCBlockKind == a1 :> "normal" @@ a2 :> "hold" @@ b1 :> "blank"
MCLate == {b1}
MCAsk == [from : {c1}, svc : {"ts"}, seg : MCSeg]
            \cup [from : {c2}, svc : {"video"}, seg : {a1, a2}]
            \cup [from : {c2}, svc : {"ts", "manifest"}, seg : {a2}]

=============================================================================
