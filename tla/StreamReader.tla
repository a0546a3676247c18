---------------------------- MODULE StreamReader ----------------------------
(***************************************************************************)
(* The stream reader of a cutter worker (live/cutter/cutterworker/         *)
(* StreamReader.cpp): one thread that opens an HTTP-FLV stream, parses its *)
(* tags, cuts them into pieces of cut_scale_ milliseconds and posts them   *)
(* to the block writer; a one-second timer gives up on a stream that is    *)
(* silent and opens it again.                                              *)
(*                                                                         *)
(* A tag is reduced to its type, its timestamp and what its first bytes    *)
(* say.  It is read in two callbacks: the tag header gives the type and    *)
(* the timestamp, the body the rest.                                       *)
(***************************************************************************)
EXTENDS Integers, Sequences, FiniteSets

CONSTANTS CutScale,   \* cut_scale_
          Bump,       \* the 500 ms added at a reconnect
          Half,       \* 2^31
          WrapHi, WrapLo, \* the 429490 and the 10 that tell a wrapped timestamp
          Times,      \* timestamps tags carry
          ResumeTs,   \* the timestamp of the last block found on disk
          NeedKf,     \* need_cut_with_kf_
          StartDown,  \* what async_begin sets: 1 or cs_start_cut_down_time
          Pending,    \* cs_pedding_cut_down_time
          OpenLimit,  \* the 30 s an open may take
          MaxTags, MaxOpens \* bounds: tags read and connections opened

ASSUME ReaderAssumption ==
    /\ CutScale \in Nat \ {0} /\ Half \in Nat \ {0} /\ Bump \in 0..Half-1
    /\ WrapHi \in Nat /\ WrapLo \in Nat
    /\ Times \subseteq 0..Half-1 /\ ResumeTs \in 0..Half-1 /\ NeedKf \in BOOLEAN
    /\ StartDown \in Nat \ {0} /\ Pending \in Nat \ {0} /\ OpenLimit \in Nat
    /\ MaxTags \in Nat /\ MaxOpens \in Nat

VARIABLES
    op, cancelled,    \* the outstanding asynchronous operation; cancelled?
    ready, pending, countdown,
                      \* is_reader_ready_, pedding_ and start_cut_down_time_
    stat, reading,    \* stat_ and reading_stat_
    gotA, gotV, over, \* got_audio_head_, got_video_head_, is_header_over_
    first,            \* got_first_data_tag_
    kf, cuts,         \* cut_with_kf_ and should_cut_count_
    ts, delta,        \* flv_tag_timestamp_ and flv_tag_ts_delta_
    tagSlot, slot,    \* cur_flv_tag_ts_ and cur_piece_ts_
    type,             \* cur_flv_tag_type_
    piece,            \* piece_ptr_: the tags in it, the one being read excluded
    aac, avc,         \* aac_ and avc_sequence_header_: the connection that sent
                      \* the one kept, 0 for none
    out,              \* what the last callback posted to the writer
    tags, opens       \* counters of the environment

net   == <<op, cancelled>>
timer == <<ready, pending, countdown>>
parse == <<stat, reading>>
heads == <<gotA, gotV, over, first>>
cut   == <<kf, cuts>>
clock == <<ts, delta>>
slots == <<tagSlot, slot>>
upd   == <<aac, avc>>
vars  == <<net, timer, parse, heads, cut, clock, slots, type, piece, upd, out, tags,
           opens>>

NoSlot == -1      \* 0xffffffff
Word   == 2 * Half

\* What a body turns out to be, by the type of its tag.  A video frame that is
\* not AVC and no key frame acts like otherKey in a header, like avcInter after.
Bodies(t) ==
    CASE t = "audio" -> {"aacSeq", "aac", "mp3"}
      [] t = "video" -> {"avcSeq", "avcKey", "avcInter", "otherKey"}
      [] OTHER       -> {"meta"}
Keys == {"avcKey", "otherKey"}

Posted(k, p) == [kind |-> k, lead |-> IF p = <<>> THEN "empty" ELSE p[1]]

Init ==
    /\ op = "none" /\ cancelled = FALSE
    /\ ready = FALSE /\ pending = Pending /\ countdown = StartDown
    /\ stat = "head" /\ reading = "head"
    /\ gotA = FALSE /\ gotV = FALSE /\ over = FALSE /\ first = FALSE
    /\ kf = NeedKf /\ cuts = 0
    /\ ts = ResumeTs /\ delta = 0 /\ tagSlot = 0 /\ slot = ResumeTs \div CutScale
    /\ type = "script" /\ piece = <<>> /\ aac = 0 /\ avc = 0
    /\ out = <<>> /\ tags = 0 /\ opens = 0

----------------------------------------------------------------------------
(* async_begin, do_begin and the timer *)

\* Mutant: the countdown starts at the value it is opened at, and misses it.
async_begin_Zero == ready' = FALSE /\ countdown' = 0 /\ op' = "none"
               /\ cancelled' = FALSE

async_begin == ready' = FALSE /\ countdown' = StartDown /\ op' = "none"
               /\ cancelled' = FALSE

\* Posts what is still to be delivered and the error, and starts over.
Restart(batch) ==
    /\ async_begin
    /\ out' = Append(batch, Posted("error", <<>>))

\* Mutant: the piece begun on the old connection is kept.
do_begin_KeepPiece ==
    /\ op' = "open" /\ cancelled' = FALSE
    /\ UNCHANGED piece /\ stat' = "head" /\ reading' = "head"

do_begin ==
    /\ op' = "open" /\ cancelled' = FALSE
    /\ piece' = <<>> /\ stat' = "head" /\ reading' = "head"

\* Mutant: a silent connection is not cancelled.
OnClockAlarm_NoCancel ==
    /\ out' = <<>>
    /\ IF ready
       THEN /\ pending > -1 /\ pending' = pending - 1
            /\ cancelled' = cancelled
            /\ UNCHANGED <<countdown, op, piece, parse>>
       ELSE /\ countdown' = IF countdown < -OpenLimit THEN countdown ELSE countdown - 1
            /\ IF countdown' = 0 THEN do_begin
               ELSE /\ cancelled' = (cancelled \/ (countdown' < -OpenLimit /\ op = "open"))
                    /\ UNCHANGED <<op, piece, parse>>
            /\ UNCHANGED pending
    /\ UNCHANGED <<ready, heads, cut, clock, slots, type, upd, tags, opens>>

OnClockAlarm ==
    /\ out' = <<>>
    /\ IF ready
       THEN /\ pending > -1 /\ pending' = pending - 1
            /\ cancelled' = (cancelled \/ pending' = 0)
            /\ UNCHANGED <<countdown, op, piece, parse>>
       ELSE /\ countdown' = IF countdown < -OpenLimit THEN countdown ELSE countdown - 1
            /\ IF countdown' = 0 THEN do_begin
               ELSE /\ cancelled' = (cancelled \/ (countdown' < -OpenLimit /\ op = "open"))
                    /\ UNCHANGED <<op, piece, parse>>
            /\ UNCHANGED pending
    /\ UNCHANGED <<ready, heads, cut, clock, slots, type, upd, tags, opens>>

on_http_open ==
    /\ op = "open" /\ out' = <<>>
    /\ \/ /\ ~cancelled /\ opens < MaxOpens /\ opens' = opens + 1
          /\ ready' = TRUE /\ pending' = Pending /\ op' = "content"
          /\ UNCHANGED <<countdown, cancelled>>
       \/ async_begin /\ UNCHANGED <<pending, opens>>
    /\ UNCHANGED <<parse, heads, cut, clock, slots, type, piece, upd, tags>>

----------------------------------------------------------------------------
(* on_content *)

\* Mutant: the error is reported but the reader still counts as connected.
Lost_Ready ==
    /\ op = "content" /\ out' = <<Posted("error", <<>>)>> /\ op' = "none"
    /\ UNCHANGED <<ready, countdown, cancelled, pending, parse, heads, cut, clock, slots, type, piece, upd, tags,
                   opens>>

\* An error of the connection, or the cancel of the timer.
Lost ==
    /\ op = "content" /\ Restart(<<>>)
    /\ UNCHANGED <<pending, parse, heads, cut, clock, slots, type, piece, upd, tags,
                   opens>>

\* Less came than was asked for.
Partial ==
    /\ op = "content" /\ ~cancelled /\ pending' = Pending /\ out' = <<>>
    /\ UNCHANGED <<net, ready, countdown, parse, heads, cut, clock, slots, type, piece,
                   upd, tags, opens>>

Content(s, r) ==
    /\ op = "content" /\ ~cancelled /\ stat = s /\ reading = r /\ pending' = Pending

Continue(batch) == out' = batch /\ UNCHANGED <<net, ready, countdown>>

\* The FLV file header, or something else.
ReadHead ==
    /\ Content("head", "head")
    /\ \/ /\ Continue(<<>>) /\ reading' = "tag"
          /\ gotA' = FALSE /\ gotV' = FALSE /\ over' = FALSE /\ first' = FALSE
          /\ kf' = NeedKf /\ cuts' = 0 /\ delta' = 0
          /\ piece' = Append(piece, "flv")
       \/ Restart(<<>>) /\ UNCHANGED <<reading, heads, cut, delta, piece>>
    /\ UNCHANGED <<stat, ts, slots, type, upd, tags, opens>>

\* The data size in a tag header may be more than the 10 MB allowed.
SizeOk(batch) == Continue(batch) \/ Restart(batch)

Masked(t) == t % Half     \* t & 0x7fffffff

\* The first data tag of a connection continues the timestamps of the last one.
Resume(t) ==
    LET up == ts + Bump IN
    IF t >= ts THEN [ts |-> t, delta |-> delta]
    ELSE IF up < Half THEN [ts |-> up, delta |-> up - t]
    ELSE [ts |-> Masked(up), delta |-> (Masked(up) - t) % Word]

\* A tag header while the header piece is collected.
HeadTag(y, t) ==
    /\ Content("head", "tag") /\ tags < MaxTags /\ tags' = tags + 1
    /\ type' = y /\ reading' = "body"
    /\ IF t > 0 /\ (gotA \/ gotV)
       THEN /\ over' = TRUE /\ first' = TRUE
            /\ LET new == IF first THEN [ts |-> ts, delta |-> delta] ELSE Resume(t) IN
               /\ ts' = new.ts /\ delta' = new.delta
               /\ tagSlot' = new.ts \div CutScale
       ELSE UNCHANGED <<over, first, clock, tagSlot>>
    /\ SizeOk(<<>>)
    /\ UNCHANGED <<stat, gotA, gotV, cut, slot, piece, upd, opens>>

\* Its body: the header piece is complete, or grows, or the tag is dropped.
HeadBody(b) ==
    /\ Content("head", "body") /\ b \in Bodies(type)
    /\ reading' = "tag"
    /\ IF over
       THEN /\ stat' = "data" /\ slot' = tagSlot
            /\ Continue(<<Posted("head", piece)>>)
            /\ piece' = <<b>>
            /\ kf' = (kf /\ gotV)
            /\ UNCHANGED <<gotA, gotV>>
       ELSE /\ gotA' = (gotA \/ b \in {"aacSeq", "mp3"})
            /\ gotV' = (gotV \/ b \in {"avcSeq", "otherKey"})
            /\ kf' = (kf /\ b # "otherKey")
            /\ LET grown == IF b \in {"aacSeq", "avcSeq", "meta"} THEN Append(piece, b)
                                                                  ELSE piece IN
               IF gotA' /\ gotV'
               THEN /\ stat' = "data" /\ piece' = <<>>
                    /\ Continue(<<Posted("head", grown)>>)
               ELSE /\ stat' = stat /\ piece' = grown /\ Continue(<<>>)
            /\ UNCHANGED slot
    /\ UNCHANGED <<over, first, cuts, clock, tagSlot, type, upd, tags, opens>>

\* Mutant: the first data tag keeps its own timestamp.
Stamp_NoBump(t) ==
    LET r  == IF TRUE THEN [ts |-> ts, delta |-> delta]
                                  ELSE [ts |-> ts + Bump, delta |-> ts + Bump - t]
        up == IF (t + r.delta) % Word = r.ts THEN r.ts + 1 ELSE (t + r.delta) % Word
    IN  IF r.delta = 0 THEN [ts |-> IF t = r.ts THEN t + 1 ELSE t, delta |-> 0]
        ELSE IF up < Half THEN [ts |-> up, delta |-> r.delta]
        ELSE [ts |-> Masked(up), delta |-> (Masked(up) - t) % Word]

\* The timestamp a data tag is given, and the correction from then on.
Stamp(t) ==
    LET r  == IF first \/ t >= ts THEN [ts |-> ts, delta |-> delta]
                                  ELSE [ts |-> ts + Bump, delta |-> ts + Bump - t]
        up == IF (t + r.delta) % Word = r.ts THEN r.ts + 1 ELSE (t + r.delta) % Word
    IN  IF r.delta = 0 THEN [ts |-> IF t = r.ts THEN t + 1 ELSE t, delta |-> 0]
        ELSE IF up < Half THEN [ts |-> up, delta |-> r.delta]
        ELSE [ts |-> Masked(up), delta |-> (Masked(up) - t) % Word]

\* A new slot has begun: cut now, or at the next key frame.
NewSlot(s) ==
    /\ slot' = s
    /\ IF kf THEN cuts' = cuts + 1 /\ piece' = piece /\ SizeOk(<<>>)
             ELSE cuts' = cuts /\ piece' = <<>> /\ SizeOk(<<Posted("data", piece)>>)

\* A tag header of the data.
DataTag(y, t) ==
    /\ Content("data", "tag") /\ tags < MaxTags /\ tags' = tags + 1
    /\ type' = y
    /\ IF y = "script"
       THEN SizeOk(<<>>) /\ reading' = "body" /\ UNCHANGED <<first, cuts, clock, slots, piece>>
       ELSE LET new == Stamp(t)
                s   == new.ts \div CutScale
                old == IF slot = NoSlot THEN s ELSE slot
                wrapped == s < old /\ old > WrapHi /\ s < WrapLo
            IN
            /\ first' = TRUE /\ ts' = new.ts /\ delta' = new.delta /\ tagSlot' = s
            /\ \/ /\ s > old \/ (wrapped /\ (new.ts + Half) \div CutScale > old)
                  /\ NewSlot(s) /\ reading' = "body"
               \/ /\ s = old \/ (wrapped /\ (new.ts + Half) \div CutScale <= old)
                     \/ (s < old /\ ~wrapped /\ (s = 0 \/ s - old >= -2))
                  /\ slot' = old /\ SizeOk(<<>>) /\ reading' = "body"
                  /\ UNCHANGED <<cuts, piece>>
               \/ /\ s < old - 2 /\ ~wrapped /\ s # 0      \* Big gap!
                  /\ slot' = NoSlot /\ Restart(<<>>)
                  /\ UNCHANGED <<reading, cuts, piece>>
    /\ UNCHANGED <<stat, gotA, gotV, over, kf, upd, opens>>

\* The sequence headers seen since the last cut go to the writer after it.
Update(c) == IF c = 0 THEN <<>>
             ELSE <<[kind |-> "update", lead |-> IF c = opens THEN "fresh" ELSE "stale"]>>
Updates == Update(aac) \o Update(avc)

\* Empty pieces make up for slots in which no key frame came.
Empties(n) == [i \in 1..(IF n > 2 THEN n - 1 ELSE 0) |-> Posted("data", <<>>)]
CutsLeft(n) == IF n > 2 THEN 1 ELSE n

\* Its body.
DataBody(b) ==
    /\ Content("data", "body") /\ b \in Bodies(type)
    /\ reading' = "tag"
    /\ kf' = IF b = "avcSeq" THEN NeedKf ELSE kf
    /\ IF b \in Keys /\ kf /\ cuts > 0
       THEN /\ cuts' = CutsLeft(cuts - 1)
            /\ Continue(<<Posted("data", piece)>> \o Updates \o Empties(cuts - 1))
            /\ piece' = <<b>> /\ aac' = 0 /\ avc' = 0
       ELSE /\ cuts' = CutsLeft(cuts)
            /\ Continue(Empties(cuts))
            /\ piece' = Append(piece, b)
            /\ aac' = IF b = "aacSeq" THEN opens ELSE aac
            /\ avc' = IF b = "avcSeq" THEN opens ELSE avc
    /\ UNCHANGED <<stat, heads, clock, slots, type, tags, opens>>

Types == {"audio", "video", "script"}
AnyBody == UNION {Bodies(y) : y \in Types}

Tag  == \E y \in Types, t \in Times : HeadTag(y, t) \/ DataTag(y, t)
Body == \E b \in AnyBody : HeadBody(b) \/ DataBody(b)

Next == OnClockAlarm \/ on_http_open \/ Lost \/ Partial \/ ReadHead \/ Tag \/ Body

\* The timer runs, and a cancelled operation completes.  Nothing is promised of
\* the network.
Spec == /\ Init /\ [][Next]_vars
        /\ WF_vars(OnClockAlarm)
        /\ WF_vars(cancelled /\ (on_http_open \/ Lost))
----------------------------------------------------------------------------
(* Properties *)

Kinds == {"head", "data", "update", "error"}
Leads == AnyBody \cup {"flv", "empty", "fresh", "stale"}

\* Every variable stays in its domain; timestamps keep to 31 bits.
TypeOK ==
    /\ op \in {"none", "open", "content"} /\ cancelled \in BOOLEAN
    /\ ready \in BOOLEAN /\ pending \in -1..Pending
    /\ countdown \in -(OpenLimit + 1)..StartDown
    /\ stat \in {"head", "data"} /\ reading \in {"head", "tag", "body"}
    /\ gotA \in BOOLEAN /\ gotV \in BOOLEAN /\ over \in BOOLEAN /\ first \in BOOLEAN
    /\ kf \in BOOLEAN /\ cuts \in 0..3
    /\ ts \in 0..Half /\ delta \in 0..Word-1
    /\ tagSlot \in Nat /\ slot \in Nat \cup {NoSlot}
    /\ type \in Types /\ piece \in Seq(AnyBody \cup {"flv"})
    /\ aac \in 0..MaxOpens /\ avc \in 0..MaxOpens
    /\ out \in Seq([kind : Kinds, lead : Leads])
    /\ tags \in 0..MaxTags /\ opens \in 0..MaxOpens

\* At most one operation of the connection is outstanding, and none when the
\* timer opens the next one: no callback of an old connection ever runs against
\* the state do_begin has reset.
OneOperation ==
    /\ ready <=> op = "content"
    /\ ~ready /\ countdown > 0 => op = "none"

\* The header piece starts with the FLV file header, and no data piece does.
WellFormed(p) == p.kind \in {"head", "data"} => (p.kind = "head" <=> p.lead = "flv")

\* The reader keeps the protocol the block writer relies on, with pieces that
\* are what they are posted as: nothing of a connection that was lost within
\* a piece gets into the pieces of the next.
Protocol == INSTANCE ReaderProtocol
    WITH phase <- IF ready /\ stat = "data" THEN "data" ELSE "head",
         out   <- [i \in DOMAIN out |-> IF WellFormed(out[i]) THEN out[i].kind ELSE "spoilt"]
FollowsProtocol == Protocol!Spec

\* The first data tag after a reconnect is not stamped before the last tag of
\* the connection before it, except where the timestamp wraps at 31 bits.
TimeGoesOn == [][~first /\ first' /\ ts + Bump + 1 < Half => ts' >= ts]_vars

\* A connection that falls silent is given up: it delivers or it is dropped.
SilenceEnds == []<>(~ready \/ pending = Pending)

\* A reader that is not connected tries to open the stream.
OpensAgain == (op = "none") ~> (op = "open")
=============================================================================
