------------------------- MODULE StreamReaderProofs -------------------------
(***************************************************************************)
(* Proofs about the stream reader, for every slot length, every set of     *)
(* timestamps, all the timer's limits and any number of connections.       *)
(***************************************************************************)
EXTENDS StreamReader, SequenceTheorems, TLAPS

Bit  == AnyBody \cup {"flv"}
Item == [kind : Kinds, lead : Leads]

LEMMA BodyFacts ==
    /\ "flv" \notin AnyBody /\ "empty" # "flv"
    /\ \A y \in Types : Bodies(y) \subseteq AnyBody
    /\ Keys \subseteq AnyBody
  <1>1. \A y \in Types : "flv" \notin Bodies(y)
    BY DEF Types, Bodies
  <1>2. Keys \subseteq Bodies("video")
    BY DEF Keys, Bodies
  <1> QED BY <1>1, <1>2 DEF AnyBody, Types

\* What is posted of a piece.
LEMMA PostedItem ==
    ASSUME NEW k \in Kinds, NEW p \in Seq(Bit)
    PROVE  /\ Posted(k, p) \in Item
           /\ Posted(k, p).kind = k
           /\ Posted(k, p).lead = IF p = <<>> THEN "empty" ELSE p[1]
  <1>1. p # <<>> => p[1] \in Bit
    OBVIOUS
  <1>2. (IF p = <<>> THEN "empty" ELSE p[1]) \in Leads
    BY <1>1 DEF Leads, Bit
  <1> QED BY <1>2 DEF Posted, Item

LEMMA NoItem == Posted("error", <<>>) \in Item /\ Posted("data", <<>>) \in Item
  <1>1. <<>> \in Seq(Bit)
    OBVIOUS
  <1> QED BY <1>1, PostedItem DEF Kinds

----------------------------------------------------------------------------
(* Type correctness. *)

LEMMA StampType ==
    ASSUME TypeOK, NEW t \in Times
    PROVE  Stamp(t).ts \in 0..Half /\ Stamp(t).delta \in 0..Word-1
  <1> DEFINE r  == IF first \/ t >= ts THEN [ts |-> ts, delta |-> delta]
                                       ELSE [ts |-> ts + Bump, delta |-> ts + Bump - t]
             up == IF (t + r.delta) % Word = r.ts THEN r.ts + 1 ELSE (t + r.delta) % Word
  <1>1. /\ t \in 0..Half-1 /\ ts \in 0..Half /\ delta \in 0..Word-1
        /\ Half \in Nat \ {0} /\ Bump \in 0..Half-1 /\ Word = 2 * Half
    BY ReaderAssumption DEF TypeOK, Word
  <1>2. r.ts \in Nat /\ r.delta \in 0..Word-1
    BY <1>1
  <1>3. (t + r.delta) % Word \in 0..Word-1
    BY <1>1, <1>2
  <1>4. up \in Nat
    BY <1>2, <1>3
  <1>5. Masked(up) \in 0..Half-1 /\ (Masked(up) - t) % Word \in 0..Word-1
    BY <1>1, <1>4 DEF Masked
  <1>6. Stamp(t) = IF r.delta = 0 THEN [ts |-> IF t = r.ts THEN t + 1 ELSE t, delta |-> 0]
                   ELSE IF up < Half THEN [ts |-> up, delta |-> r.delta]
                   ELSE [ts |-> Masked(up), delta |-> (Masked(up) - t) % Word]
    BY DEF Stamp
  <1> HIDE DEF r, up
  <1> QED BY <1>1, <1>2, <1>4, <1>5, <1>6

LEMMA ResumeType ==
    ASSUME TypeOK, NEW t \in Times
    PROVE  Resume(t).ts \in 0..Half /\ Resume(t).delta \in 0..Word-1
  <1> DEFINE up == ts + Bump
  <1>1. /\ t \in 0..Half-1 /\ ts \in 0..Half /\ delta \in 0..Word-1
        /\ Half \in Nat \ {0} /\ Bump \in 0..Half-1 /\ Word = 2 * Half
    BY ReaderAssumption DEF TypeOK, Word
  <1>2. up \in Nat /\ Masked(up) \in 0..Half-1 /\ (Masked(up) - t) % Word \in 0..Word-1
    BY <1>1 DEF Masked
  <1>3. up - t <= up
    BY <1>1
  <1> QED BY <1>1, <1>2, <1>3 DEF Resume

\* The callback goes on, or it ends with an error and a new start.
LEMMA GoesType ==
    ASSUME TypeOK, NEW batch \in Seq(Item), SizeOk(batch)
    PROVE  /\ op' \in {"none", "open", "content"} /\ cancelled' \in BOOLEAN
           /\ ready' \in BOOLEAN /\ countdown' \in -(OpenLimit + 1)..StartDown
           /\ out' \in Seq(Item)
  <1>1. CASE Continue(batch)
    BY <1>1 DEF Continue, TypeOK, net
  <1>2. CASE Restart(batch)
    <2>1. out' = Append(batch, Posted("error", <<>>))
      BY <1>2 DEF Restart
    <2>2. out' \in Seq(Item)
      BY <2>1, NoItem
    <2>3. StartDown \in -(OpenLimit + 1)..StartDown
      BY ReaderAssumption
    <2>4. op' = "none" /\ cancelled' = FALSE /\ ready' = FALSE /\ countdown' = StartDown
      BY <1>2 DEF Restart, async_begin
    <2> QED BY <2>2, <2>3, <2>4
  <1> QED BY <1>1, <1>2 DEF SizeOk

LEMMA EmptiesType ==
    ASSUME NEW n \in 0..3
    PROVE  Empties(n) \in Seq({Posted("data", <<>>)}) /\ CutsLeft(n) \in 0..2
  <1> DEFINE k == IF n > 2 THEN n - 1 ELSE 0
  <1>1. k \in Nat
    OBVIOUS
  <1>2. [i \in 1..k |-> Posted("data", <<>>)] \in Seq({Posted("data", <<>>)})
    <2> HIDE DEF k
    <2> QED BY <1>1
  <1> QED BY <1>2 DEF Empties, CutsLeft

LEMMA UpdatesType ==
    Updates \in Seq({[kind |-> "update", lead |-> l] : l \in {"fresh", "stale"}})
  <1> DEFINE U == {[kind |-> "update", lead |-> l] : l \in {"fresh", "stale"}}
  <1>1. ASSUME NEW c PROVE Update(c) \in Seq(U)
    <2> DEFINE u == [kind |-> "update", lead |-> IF c = opens THEN "fresh" ELSE "stale"]
    <2>1. u \in U
      OBVIOUS
    <2>2. Update(c) = IF c = 0 THEN <<>> ELSE <<u>>
      BY DEF Update
    <2> HIDE DEF U, u
    <2> QED BY <2>1, <2>2
  <1> HIDE DEF U
  <1>2. Updates \in Seq(U)
    BY <1>1, ConcatProperties DEF Updates
  <1> QED BY <1>2 DEF U

\* What is posted of the pieces of a connection, header pieces and errors apart.
Fed == {[kind |-> "data", lead |-> l] : l \in AnyBody \cup {"empty"}}
       \cup {[kind |-> "update", lead |-> l] : l \in {"fresh", "stale"}}

LEMMA FedItem == Fed \subseteq Item
  BY DEF Fed, Item, Kinds, Leads

\* A piece that is posted as data holds no file header.
LEMMA DataFed ==
    ASSUME NEW p \in Seq(Bit), p = <<>> \/ p[1] # "flv"
    PROVE  Posted("data", p) \in Fed
  <1>1. p # <<>> => p[1] \in AnyBody
    <2>1. p # <<>> => p[1] \in Bit
      OBVIOUS
    <2> QED BY <2>1 DEF Bit
  <1> QED BY <1>1 DEF Posted, Fed

\* The timer's and the network's part of the state, and the parser's.
TimerOK == /\ op \in {"none", "open", "content"} /\ cancelled \in BOOLEAN
           /\ ready \in BOOLEAN /\ pending \in -1..Pending
           /\ countdown \in -(OpenLimit + 1)..StartDown
ParseOK == /\ stat \in {"head", "data"} /\ reading \in {"head", "tag", "body"}
           /\ gotA \in BOOLEAN /\ gotV \in BOOLEAN /\ over \in BOOLEAN /\ first \in BOOLEAN
           /\ kf \in BOOLEAN /\ type \in Types
ClockOK == /\ cuts \in 0..3 /\ ts \in 0..Half /\ delta \in 0..Word-1
           /\ tagSlot \in Nat /\ slot \in Nat \cup {NoSlot}
PieceOK == piece \in Seq(Bit) /\ out \in Seq(Item)
CountOK == /\ aac \in 0..MaxOpens /\ avc \in 0..MaxOpens
           /\ tags \in 0..MaxTags /\ opens \in 0..MaxOpens

LEMMA Parts == TypeOK <=> TimerOK /\ ParseOK /\ ClockOK /\ PieceOK /\ CountOK
  BY DEF TypeOK, TimerOK, ParseOK, ClockOK, PieceOK, CountOK, Bit, Item

\* At most two cuts are due when a tag header comes, and none in a header.
Few == /\ reading = "tag" => cuts <= 2
       /\ stat = "head" /\ reading # "head" => cuts = 0

TypeInv == TypeOK /\ Few

LEMMA TypeInit == Init => TypeInv
  <1> SUFFICES ASSUME Init PROVE TypeInv
    OBVIOUS
  <1>1. TimerOK
    <2>1. Pending \in -1..Pending /\ StartDown \in -(OpenLimit + 1)..StartDown
      BY ReaderAssumption
    <2> QED BY <2>1 DEF Init, TimerOK
  <1>2. ParseOK
    BY ReaderAssumption DEF Init, ParseOK, Types
  <1>3. ClockOK
    <2>1. ResumeTs \div CutScale \in Nat
      BY ReaderAssumption
    <2> QED BY <2>1, ReaderAssumption DEF Init, ClockOK, Word
  <1>4. PieceOK
    BY DEF Init, PieceOK
  <1>5. CountOK
    BY ReaderAssumption DEF Init, CountOK
  <1> QED BY <1>1, <1>2, <1>3, <1>4, <1>5, Parts DEF TypeInv, Few, Init

LEMMA TypeNext == TypeInv /\ [Next]_vars => TypeInv'
  <1> SUFFICES ASSUME TypeInv, [Next]_vars PROVE TypeInv'
    OBVIOUS
  <1> USE DEF net, timer, parse, heads, cut, clock, slots, upd
  <1>0. TypeOK /\ Few /\ TimerOK /\ ParseOK /\ ClockOK /\ PieceOK /\ CountOK
    BY Parts DEF TypeInv
  <1>1. SUFFICES TimerOK' /\ ParseOK' /\ ClockOK' /\ PieceOK' /\ CountOK' /\ Few'
    <2>1. TypeOK' <=> TimerOK' /\ ParseOK' /\ ClockOK' /\ PieceOK' /\ CountOK'
      BY DEF TypeOK, TimerOK, ParseOK, ClockOK, PieceOK, CountOK, Bit, Item
    <2> QED BY <2>1 DEF TypeInv
  <1> DEFINE Good == TimerOK' /\ ParseOK' /\ ClockOK' /\ PieceOK' /\ CountOK' /\ Few'
  <1>2. Pending \in -1..Pending /\ StartDown \in -(OpenLimit + 1)..StartDown
    BY ReaderAssumption
  <1>3. <<>> \in Seq(Item) /\ <<>> \in Seq(Bit)
    OBVIOUS
  <1>4. \A t \in Times : t \in 0..Half-1
    BY ReaderAssumption
  <1>5. ASSUME OnClockAlarm PROVE Good
    <2>1. TimerOK'
      <3>1. CASE ready
        BY <1>0, <1>5, <3>1, ReaderAssumption DEF OnClockAlarm, TimerOK
      <3>2. CASE ~ready
        <4>1. countdown' \in -(OpenLimit + 1)..StartDown
          BY <1>0, <1>5, <3>2, ReaderAssumption DEF OnClockAlarm, TimerOK
        <4> QED BY <1>0, <1>5, <3>2, <4>1 DEF OnClockAlarm, do_begin, TimerOK
      <3> QED BY <3>1, <3>2
    <2>2. \/ stat' = stat /\ reading' = reading /\ piece' = piece
          \/ stat' = "head" /\ reading' = "head" /\ piece' = <<>>
      BY <1>5 DEF OnClockAlarm, do_begin
    <2>3. PieceOK'
      BY <1>0, <1>3, <1>5, <2>2 DEF OnClockAlarm, PieceOK
    <2>4. ParseOK' /\ ClockOK' /\ CountOK'
      BY <1>0, <1>5, <2>2 DEF OnClockAlarm, ParseOK, ClockOK, CountOK
    <2>5. Few'
      BY <1>0, <1>5, <2>2 DEF OnClockAlarm, Few
    <2> QED BY <2>1, <2>3, <2>4, <2>5
  <1>6. ASSUME on_http_open PROVE Good
    <2>1. TimerOK'
      BY <1>0, <1>2, <1>6 DEF on_http_open, async_begin, TimerOK
    <2>2. CountOK'
      BY <1>0, <1>6, ReaderAssumption DEF on_http_open, CountOK
    <2>3. PieceOK'
      BY <1>0, <1>3, <1>6 DEF on_http_open, PieceOK
    <2>4. ParseOK' /\ ClockOK' /\ Few'
      BY <1>0, <1>6 DEF on_http_open, ParseOK, ClockOK, Few
    <2> QED BY <2>1, <2>2, <2>3, <2>4
  <1>7. ASSUME Lost PROVE Good
    <2>1. out' \in Seq(Item) /\ op' \in {"none", "open", "content"} /\ cancelled' \in BOOLEAN
          /\ ready' \in BOOLEAN /\ countdown' \in -(OpenLimit + 1)..StartDown
      BY <1>0, <1>3, <1>7, GoesType DEF Lost, SizeOk
    <2>2. TimerOK' /\ PieceOK'
      BY <1>0, <1>7, <2>1 DEF Lost, TimerOK, PieceOK
    <2>3. ParseOK' /\ ClockOK' /\ CountOK' /\ Few'
      BY <1>0, <1>7 DEF Lost, ParseOK, ClockOK, CountOK, Few
    <2> QED BY <2>2, <2>3
  <1>8. ASSUME Partial PROVE Good
    <2>1. TimerOK' /\ PieceOK'
      BY <1>0, <1>2, <1>3, <1>8 DEF Partial, TimerOK, PieceOK
    <2>2. ParseOK' /\ ClockOK' /\ CountOK' /\ Few'
      BY <1>0, <1>8 DEF Partial, ParseOK, ClockOK, CountOK, Few
    <2> QED BY <2>1, <2>2
  <1>9. ASSUME ReadHead PROVE Good
    <2>1. SizeOk(<<>>) /\ pending' = Pending
      BY <1>9 DEF ReadHead, SizeOk, Content
    <2>2. /\ op' \in {"none", "open", "content"} /\ cancelled' \in BOOLEAN
          /\ ready' \in BOOLEAN /\ countdown' \in -(OpenLimit + 1)..StartDown
          /\ out' \in Seq(Item)
      BY <1>0, <1>3, <2>1, GoesType
    <2>3. piece' \in Seq(Bit)
      BY <1>0, <1>9 DEF ReadHead, PieceOK, Bit
    <2>4. TimerOK' /\ PieceOK'
      BY <1>2, <2>1, <2>2, <2>3 DEF TimerOK, PieceOK
    <2>5. ParseOK'
      BY <1>0, <1>9, ReaderAssumption DEF ReadHead, ParseOK
    <2>6. ClockOK' /\ CountOK' /\ Few'
      BY <1>0, <1>9, ReaderAssumption DEF ReadHead, Content, ClockOK, CountOK, Few, Word
    <2> QED BY <2>4, <2>5, <2>6
  <1>10. ASSUME NEW y \in Types, NEW t \in Times, HeadTag(y, t) PROVE Good
    <2>1. SizeOk(<<>>) /\ pending' = Pending /\ piece' = piece
      BY <1>10 DEF HeadTag, Content
    <2>2. /\ op' \in {"none", "open", "content"} /\ cancelled' \in BOOLEAN
          /\ ready' \in BOOLEAN /\ countdown' \in -(OpenLimit + 1)..StartDown
          /\ out' \in Seq(Item)
      BY <1>0, <1>3, <2>1, GoesType
    <2>3. TimerOK' /\ PieceOK'
      BY <1>0, <1>2, <2>1, <2>2 DEF TimerOK, PieceOK
    <2>4. /\ stat' = stat /\ stat = "head" /\ reading = "tag" /\ reading' = "body"
          /\ cuts' = cuts /\ slot' = slot /\ gotA' = gotA /\ gotV' = gotV /\ kf' = kf
          /\ type' = y /\ aac' = aac /\ avc' = avc /\ opens' = opens
      BY <1>10 DEF HeadTag, Content
    <2>5. over' \in BOOLEAN /\ first' \in BOOLEAN
      BY <1>0, <1>10 DEF HeadTag, ParseOK
    <2>6. ParseOK' /\ Few'
      BY <1>0, <2>4, <2>5 DEF ParseOK, Few
    <2>7. CountOK'
      BY <1>0, <1>10, <2>4, ReaderAssumption DEF HeadTag, CountOK
    <2>8. ts' \in 0..Half /\ delta' \in 0..Word-1 /\ tagSlot' \in Nat
      <3>1. CASE t > 0 /\ (gotA \/ gotV)
        <4> DEFINE new == IF first THEN [ts |-> ts, delta |-> delta] ELSE Resume(t)
        <4>1. ts' = new.ts /\ delta' = new.delta /\ tagSlot' = new.ts \div CutScale
          BY <1>10, <3>1 DEF HeadTag
        <4>2. new.ts \in 0..Half /\ new.delta \in 0..Word-1
          BY <1>0, ResumeType DEF ClockOK
        <4> HIDE DEF new
        <4>3. new.ts \div CutScale \in Nat
          BY <4>2, ReaderAssumption
        <4> QED BY <4>1, <4>2, <4>3
      <3>2. CASE ~(t > 0 /\ (gotA \/ gotV))
        BY <1>0, <1>10, <3>2 DEF HeadTag, ClockOK
      <3> QED BY <3>1, <3>2
    <2>9. ClockOK'
      BY <1>0, <2>4, <2>8 DEF ClockOK
    <2> QED BY <2>3, <2>6, <2>7, <2>9
  <1>11. ASSUME NEW b \in AnyBody, HeadBody(b) PROVE Good
    <2>1. /\ op' = op /\ cancelled' = cancelled /\ ready' = ready /\ countdown' = countdown
          /\ pending' = Pending
          /\ stat = "head" /\ reading = "body" /\ reading' = "tag"
      BY <1>11 DEF HeadBody, Content, Continue
    <2>2. /\ piece' \in {<<b>>, <<>>, piece, Append(piece, b)}
          /\ \/ out' = <<>> \/ out' = <<Posted("head", piece)>>
             \/ out' = <<Posted("head", Append(piece, b))>>
      BY <1>11 DEF HeadBody, Continue
    <2>3. b \in Bit /\ piece \in Seq(Bit)
      BY <1>0 DEF Bit, PieceOK
    <2>4. <<b>> \in Seq(Bit) /\ Append(piece, b) \in Seq(Bit)
      BY <2>3
    <2>5. Posted("head", piece) \in Item /\ Posted("head", Append(piece, b)) \in Item
      BY <2>3, <2>4, PostedItem DEF Kinds
    <2>6. TimerOK' /\ PieceOK'
      <3>1. /\ <<Posted("head", piece)>> \in Seq(Item)
            /\ <<Posted("head", Append(piece, b))>> \in Seq(Item)
        BY ONLY <2>5
      <3>2. out' \in Seq(Item)
        BY <1>3, <2>2, <3>1
      <3>3. piece' \in Seq(Bit)
        BY <1>3, <2>2, <2>3, <2>4
      <3> QED BY <1>0, <1>2, <2>1, <3>2, <3>3 DEF TimerOK, PieceOK
    <2>7. ParseOK'
      <3>1. /\ stat' \in {"head", "data"} /\ reading' = "tag" /\ over' = over
            /\ first' = first /\ type' = type
        BY <1>0, <1>11 DEF HeadBody, ParseOK
      <3>2. gotA' \in BOOLEAN /\ gotV' \in BOOLEAN /\ kf' \in BOOLEAN
        BY <1>0, <1>11 DEF HeadBody, ParseOK
      <3> QED BY <1>0, <3>1, <3>2 DEF ParseOK
    <2>8. ClockOK' /\ CountOK'
      BY <1>0, <1>11 DEF HeadBody, ClockOK, CountOK
    <2>9. Few'
      BY <1>0, <1>11, <2>1 DEF HeadBody, Few
    <2> QED BY <2>6, <2>7, <2>8, <2>9
  <1>12. ASSUME NEW y \in Types, NEW t \in Times, DataTag(y, t) PROVE Good
    <2>1. /\ stat' = stat /\ stat = "data" /\ reading = "tag" /\ pending' = Pending
          /\ gotA' = gotA /\ gotV' = gotV /\ over' = over /\ kf' = kf
          /\ type' = y /\ aac' = aac /\ avc' = avc /\ opens' = opens
      BY <1>12 DEF DataTag, Content
    <2>2. CountOK'
      BY <1>0, <1>12, <2>1, ReaderAssumption DEF DataTag, CountOK
    <2>3. CASE y = "script"
      <3>1. /\ SizeOk(<<>>) /\ reading' = "body" /\ first' = first /\ cuts' = cuts
            /\ ts' = ts /\ delta' = delta /\ tagSlot' = tagSlot /\ slot' = slot
            /\ piece' = piece
        BY <1>12, <2>3 DEF DataTag
      <3>2. /\ op' \in {"none", "open", "content"} /\ cancelled' \in BOOLEAN
            /\ ready' \in BOOLEAN /\ countdown' \in -(OpenLimit + 1)..StartDown
            /\ out' \in Seq(Item)
        BY <1>0, <1>3, <3>1, GoesType
      <3>3. TimerOK' /\ PieceOK'
        BY <1>0, <1>2, <2>1, <3>1, <3>2 DEF TimerOK, PieceOK
      <3>4. ParseOK' /\ ClockOK' /\ Few'
        BY <1>0, <2>1, <3>1 DEF ParseOK, ClockOK, Few
      <3> QED BY <2>2, <3>3, <3>4
    <2>4. CASE y # "script"
      <3> DEFINE new == Stamp(t)
                 s   == new.ts \div CutScale
                 old == IF slot = NoSlot THEN s ELSE slot
      <3>1. new.ts \in 0..Half /\ new.delta \in 0..Word-1
        BY <1>0, StampType
      <3>2. s \in Nat
        <4> HIDE DEF new
        <4> QED BY <3>1, ReaderAssumption
      <3>3. old \in Nat
        BY <1>0, <3>2 DEF ClockOK
      <3> HIDE DEF s, old, new
      <3>4. /\ first' = TRUE /\ ts' = new.ts /\ delta' = new.delta /\ tagSlot' = s
            /\ \/ NewSlot(s) /\ reading' = "body"
               \/ slot' = old /\ SizeOk(<<>>) /\ reading' = "body" /\ cuts' = cuts /\ piece' = piece
               \/ slot' = NoSlot /\ Restart(<<>>) /\ reading' = reading /\ cuts' = cuts
                  /\ piece' = piece
        BY <1>12, <2>4 DEF DataTag, s, old, new
      <3>5. cuts \in 0..2
        BY <1>0, <2>1 DEF Few, ClockOK
      <3>6. \E batch \in Seq(Item) : SizeOk(batch)
        <4>1. SizeOk(<<>>) \/ SizeOk(<<Posted("data", piece)>>)
          BY <3>4 DEF NewSlot, SizeOk
        <4>2. Posted("data", piece) \in Item
          BY <1>0, PostedItem DEF PieceOK, Kinds
        <4>3. <<Posted("data", piece)>> \in Seq(Item)
          BY ONLY <4>2
        <4> QED BY <1>3, <4>1, <4>3
      <3>7. /\ op' \in {"none", "open", "content"} /\ cancelled' \in BOOLEAN
            /\ ready' \in BOOLEAN /\ countdown' \in -(OpenLimit + 1)..StartDown
            /\ out' \in Seq(Item)
        BY <1>0, <3>6, GoesType
      <3>8. /\ slot' \in Nat \cup {NoSlot} /\ cuts' \in 0..3 /\ reading' \in {"tag", "body"}
            /\ reading' = "tag" => cuts' <= 2
            /\ piece' \in {piece, <<>>}
        BY <2>1, <3>2, <3>3, <3>4, <3>5 DEF NewSlot
      <3>9. TimerOK' /\ PieceOK'
        BY <1>0, <1>2, <1>3, <2>1, <3>7, <3>8 DEF TimerOK, PieceOK
      <3>10. ClockOK' /\ Few'
        BY <2>1, <3>1, <3>2, <3>4, <3>8 DEF ClockOK, Few
      <3>11. ParseOK'
        BY <1>0, <2>1, <3>4, <3>8 DEF ParseOK
      <3> QED BY <2>2, <3>9, <3>10, <3>11
    <2> QED BY <2>3, <2>4
  <1>13. ASSUME NEW b \in AnyBody, DataBody(b) PROVE Good
    <2>1. /\ op' = op /\ cancelled' = cancelled /\ ready' = ready /\ countdown' = countdown
          /\ pending' = Pending /\ stat' = stat
          /\ stat = "data" /\ reading' = "tag"
      BY <1>13 DEF DataBody, Content, Continue
    <2>2. b \in Bit /\ piece \in Seq(Bit) /\ cuts \in 0..3 /\ opens \in 0..MaxOpens
      BY <1>0 DEF Bit, PieceOK, ClockOK, CountOK
    <2>3. <<b>> \in Seq(Bit) /\ Append(piece, b) \in Seq(Bit)
      BY <2>2
    <2>4. piece' \in Seq(Bit) /\ aac' \in 0..MaxOpens /\ avc' \in 0..MaxOpens
      <3>1. piece' \in {<<b>>, Append(piece, b)}
        BY <1>13 DEF DataBody
      <3>2. aac' \in {0, opens, aac} /\ avc' \in {0, opens, avc}
        BY <1>13 DEF DataBody
      <3>3. 0 \in 0..MaxOpens
        BY ReaderAssumption
      <3> QED BY <1>0, <2>2, <2>3, <3>1, <3>2, <3>3 DEF CountOK
    <2>5. cuts' \in 0..2 /\ out' \in Seq(Item)
      <3>1. CASE b \in Keys /\ kf /\ cuts > 0
        <4>1. /\ cuts' = CutsLeft(cuts - 1)
              /\ out' = <<Posted("data", piece)>> \o Updates \o Empties(cuts - 1)
          BY <1>13, <3>1 DEF DataBody, Continue
        <4>2. cuts - 1 \in 0..3
          BY <2>2, <3>1
        <4>3. Empties(cuts - 1) \in Seq(Item) /\ CutsLeft(cuts - 1) \in 0..2
          BY <4>2, EmptiesType, NoItem, SeqMonotonic
        <4>4. <<Posted("data", piece)>> \in Seq(Item)
          <5>1. Posted("data", piece) \in Item
            BY <2>2, PostedItem DEF Kinds
          <5> QED BY <5>1
        <4>5. Updates \in Seq(Item)
          BY UpdatesType, SeqMonotonic, FedItem DEF Fed
        <4> QED BY <4>1, <4>3, <4>4, <4>5, ConcatProperties
      <3>2. CASE ~(b \in Keys /\ kf /\ cuts > 0)
        <4>1. cuts' = CutsLeft(cuts) /\ out' = Empties(cuts)
          BY <1>13, <3>2 DEF DataBody, Continue
        <4> QED BY <2>2, <4>1, EmptiesType, NoItem, SeqMonotonic
      <3> QED BY <3>1, <3>2
    <2>6. TimerOK' /\ PieceOK'
      BY <1>0, <1>2, <2>1, <2>4, <2>5 DEF TimerOK, PieceOK
    <2>7. ParseOK'
      BY <1>0, <1>13, <2>1, ReaderAssumption DEF DataBody, ParseOK
    <2>8. ClockOK' /\ CountOK' /\ Few'
      BY <1>0, <1>13, <2>1, <2>4, <2>5 DEF DataBody, ClockOK, CountOK, Few
    <2> QED BY <2>6, <2>7, <2>8
  <1>14. CASE UNCHANGED vars
    BY <1>0, <1>14 DEF vars, TimerOK, ParseOK, ClockOK, PieceOK, CountOK, Few
  <1> QED
    BY <1>5, <1>6, <1>7, <1>8, <1>9, <1>10, <1>11, <1>12, <1>13, <1>14
    DEF Next, Tag, Body

\* Every variable of the reader stays in its domain: timestamps keep to 31 bits
\* and the correction to 32, and no more than three cuts are ever owed.
THEOREM TypeCorrect == Spec => []TypeOK
  <1>1. TypeInv => TypeOK
    BY DEF TypeInv
  <1> QED BY <1>1, TypeInit, TypeNext, PTL DEF Spec

----------------------------------------------------------------------------
(* One operation at a time, and the protocol of the block writer. *)

\* A connection is opened only when the parser has been reset.
Opened == op = "open" => stat = "head" /\ reading = "head"

\* The header piece begins with the file header, which no data piece holds.
Shape ==
    IF stat = "head"
    THEN IF reading = "head" THEN piece = <<>> ELSE piece # <<>> /\ piece[1] = "flv"
    ELSE reading # "head" /\ (piece = <<>> \/ piece[1] # "flv")

\* No correction before the first data tag of a connection.
Uncorrected == ~first => delta = 0

Inv == OneOperation /\ Opened /\ Shape /\ Uncorrected

\* The callback goes on, or it ends with an error and a new start.
LEMMA Goes ==
    ASSUME NEW batch, SizeOk(batch)
    PROVE  \/ Continue(batch) /\ op' = op /\ ready' = ready /\ countdown' = countdown
           \/ Restart(batch) /\ op' = "none" /\ ready' = FALSE
  BY DEF SizeOk, Continue, Restart, async_begin, net

LEMMA InvInit == Init => Inv
  BY ReaderAssumption DEF Init, Inv, OneOperation, Opened, Shape, Uncorrected

LEMMA InvNext == TypeInv /\ Inv /\ [Next]_vars => Inv'
  <1> SUFFICES ASSUME TypeInv, Inv, [Next]_vars PROVE Inv'
    OBVIOUS
  <1> USE DEF net, timer, parse, heads, cut, clock, slots, upd
  <1>0. /\ TypeOK /\ OneOperation /\ Opened /\ Shape /\ Uncorrected
        /\ piece \in Seq(Bit) /\ ready \in BOOLEAN
    BY DEF TypeInv, Inv, TypeOK, Bit
  \* A callback with content, whatever becomes of it, leaves no open under way.
  <1>1. ASSUME op = "content", NEW batch, SizeOk(batch) PROVE OneOperation' /\ Opened'
    <2>1. CASE op' = op /\ ready' = ready /\ countdown' = countdown
      BY <1>0, <1>1, <2>1 DEF OneOperation, Opened
    <2>2. CASE op' = "none" /\ ready' = FALSE
      BY <2>2 DEF OneOperation, Opened
    <2> QED BY <1>1, <2>1, <2>2, Goes
  <1>2. ASSUME OnClockAlarm PROVE Inv'
    <2>1. first' = first /\ delta' = delta /\ ready' = ready
      BY <1>2 DEF OnClockAlarm
    <2>2. CASE op' = op /\ piece' = piece /\ stat' = stat /\ reading' = reading
      <3>1. countdown' > 0 /\ ~ready => countdown > 0
        BY <1>0, <1>2, ReaderAssumption DEF OnClockAlarm, TypeOK
      <3> QED BY <1>0, <2>1, <2>2, <3>1 DEF Inv, OneOperation, Opened, Shape, Uncorrected
    <2>3. CASE do_begin /\ ~ready /\ countdown' = 0
      BY <1>0, <2>1, <2>3 DEF do_begin, Inv, OneOperation, Opened, Shape, Uncorrected
    <2> QED BY <1>2, <2>2, <2>3 DEF OnClockAlarm
  <1>3. ASSUME on_http_open PROVE Inv'
    <2>1. OneOperation' /\ Opened'
      BY <1>0, <1>3 DEF on_http_open, async_begin, OneOperation, Opened
    <2>2. Shape' /\ Uncorrected'
      BY <1>0, <1>3 DEF on_http_open, Shape, Uncorrected
    <2> QED BY <2>1, <2>2 DEF Inv
  <1>4. ASSUME Lost PROVE Inv'
    <2>1. OneOperation' /\ Opened'
      BY <1>1, <1>4 DEF Lost, SizeOk
    <2>2. Shape' /\ Uncorrected'
      BY <1>0, <1>4 DEF Lost, Shape, Uncorrected
    <2> QED BY <2>1, <2>2 DEF Inv
  <1>5. ASSUME Partial PROVE Inv'
    BY <1>0, <1>5 DEF Partial, Inv, OneOperation, Opened, Shape, Uncorrected
  <1>6. ASSUME ReadHead PROVE Inv'
    <2>1. OneOperation' /\ Opened'
      BY <1>1, <1>6 DEF ReadHead, Content, SizeOk
    <2>2. piece = <<>> /\ stat = "head" /\ reading = "head" /\ stat' = stat
      BY <1>0, <1>6 DEF ReadHead, Content, Shape
    <2>3. Append(piece, "flv") # <<>> /\ Append(piece, "flv")[1] = "flv"
      BY <2>2
    <2>4. Shape' /\ Uncorrected'
      BY <1>0, <1>6, <2>2, <2>3 DEF ReadHead, Shape, Uncorrected
    <2> QED BY <2>1, <2>4 DEF Inv
  <1>7. ASSUME NEW y \in Types, NEW t \in Times, HeadTag(y, t) PROVE Inv'
    <2>1. OneOperation' /\ Opened'
      BY <1>1, <1>7 DEF HeadTag, Content
    <2>2. Shape' /\ Uncorrected'
      BY <1>0, <1>7 DEF HeadTag, Content, Shape, Uncorrected
    <2> QED BY <2>1, <2>2 DEF Inv
  <1>8. ASSUME NEW b \in AnyBody, HeadBody(b) PROVE Inv'
    <2>1. op = "content" /\ op' = op /\ ready' = ready /\ countdown' = countdown
      BY <1>8 DEF HeadBody, Content, Continue
    <2>2. OneOperation' /\ Opened'
      BY <1>0, <2>1 DEF OneOperation, Opened
    <2>3. piece # <<>> /\ piece[1] = "flv" /\ reading' = "tag"
      BY <1>0, <1>8 DEF HeadBody, Content, Shape
    <2>4. Append(piece, b) # <<>> /\ Append(piece, b)[1] = "flv"
      BY <1>0, <2>3, AppendProperties DEF Bit
    <2>5. <<b>>[1] # "flv"
      BY BodyFacts
    <2>6. \/ stat' = "data" /\ piece' \in {<<b>>, <<>>}
          \/ stat' = "head" /\ piece' \in {piece, Append(piece, b)}
      BY <1>8 DEF HeadBody, Content
    <2>7. Shape'
      BY <2>3, <2>4, <2>5, <2>6 DEF Shape
    <2>8. Uncorrected'
      BY <1>0, <1>8 DEF HeadBody, Uncorrected
    <2> QED BY <2>2, <2>7, <2>8 DEF Inv
  <1>9. ASSUME NEW y \in Types, NEW t \in Times, DataTag(y, t) PROVE Inv'
    <2>1. op = "content" /\ stat = "data" /\ stat' = stat /\ reading = "tag"
      BY <1>9 DEF DataTag, Content
    <2>2. \E batch : SizeOk(batch)
      BY <1>9 DEF DataTag, NewSlot, SizeOk
    <2>3. OneOperation' /\ Opened'
      BY <1>1, <2>1, <2>2
    <2>4. reading' \in {"tag", "body"} /\ piece' \in {piece, <<>>}
      BY <1>9, <2>1 DEF DataTag, NewSlot
    <2>5. Shape'
      BY <1>0, <2>1, <2>4 DEF Shape
    <2>6. Uncorrected'
      BY <1>0, <1>9 DEF DataTag, Uncorrected
    <2> QED BY <2>3, <2>5, <2>6 DEF Inv
  <1>10. ASSUME NEW b \in AnyBody, DataBody(b) PROVE Inv'
    <2>1. /\ op = "content" /\ op' = op /\ ready' = ready /\ countdown' = countdown
          /\ stat = "data" /\ stat' = stat /\ reading' = "tag"
      BY <1>10 DEF DataBody, Content, Continue
    <2>2. OneOperation' /\ Opened'
      BY <1>0, <2>1 DEF OneOperation, Opened
    <2>3. piece' \in {<<b>>, Append(piece, b)}
      BY <1>10 DEF DataBody
    <2>4. piece = <<>> \/ piece[1] # "flv"
      BY <1>0, <2>1 DEF Shape
    <2>5. <<b>>[1] # "flv"
      BY BodyFacts
    <2>6. Append(piece, b)[1] # "flv"
      <3>1. b \in Bit /\ b # "flv"
        BY BodyFacts DEF Bit
      <3>2. CASE piece = <<>>
        BY <3>1, <3>2
      <3>3. CASE piece # <<>>
        BY <1>0, <2>4, <3>1, <3>3, AppendProperties
      <3> QED BY <3>2, <3>3
    <2>7. Shape'
      BY <2>1, <2>3, <2>5, <2>6 DEF Shape
    <2>8. Uncorrected'
      BY <1>0, <1>10 DEF DataBody, Uncorrected
    <2> QED BY <2>2, <2>7, <2>8 DEF Inv
  <1>11. CASE UNCHANGED vars
    BY <1>0, <1>11 DEF vars, Inv, OneOperation, Opened, Shape, Uncorrected
  <1> QED
    BY <1>2, <1>3, <1>4, <1>5, <1>6, <1>7, <1>8, <1>9, <1>10, <1>11
    DEF Next, Tag, Body

LEMMA InvAlways == Spec => []TypeInv /\ []Inv
  BY TypeInit, TypeNext, InvInit, InvNext, PTL DEF Spec

\* Whatever the network and the timer do, at most one operation is outstanding,
\* and none when the timer comes to open the stream again.
THEOREM OneAtATime == Spec => []OneOperation
  <1>1. Inv => OneOperation
    BY DEF Inv
  <1> QED BY <1>1, InvAlways, PTL

----------------------------------------------------------------------------
(* The timestamps of a stream go on after a reconnect. *)

LEMMA StampGoesOn ==
    ASSUME TypeOK, NEW t \in Times, ~first, delta = 0, ts + Bump + 1 < Half
    PROVE  Stamp(t).ts >= ts
  <1>1. /\ t \in 0..Half-1 /\ ts \in 0..Half /\ Half \in Nat \ {0} /\ Bump \in 0..Half-1
        /\ Word = 2 * Half
    BY ReaderAssumption DEF TypeOK, Word
  <1>2. CASE t >= ts
    <2>1. Stamp(t).ts = IF t = ts THEN t + 1 ELSE t
      BY <1>2 DEF Stamp
    <2> QED BY <1>1, <1>2, <2>1
  <1>3. CASE ~(t >= ts)
    <2> DEFINE d == ts + Bump - t
    <2>1. d # 0 /\ t + d = ts + Bump /\ ts + Bump \in 0..Word-1
      BY <1>1, <1>3
    <2>2. (t + d) % Word = ts + Bump
      BY <1>1, <2>1
    <2>3. Stamp(t).ts = ts + Bump + 1
      BY <1>3, <2>1, <2>2 DEF Stamp
    <2> QED BY <1>1, <2>3
  <1> QED BY <1>2, <1>3

LEMMA ResumeGoesOn ==
    ASSUME TypeOK, NEW t \in Times, ts + Bump + 1 < Half
    PROVE  Resume(t).ts >= ts
  <1>1. t \in 0..Half-1 /\ ts \in 0..Half /\ Half \in Nat \ {0} /\ Bump \in 0..Half-1
    BY ReaderAssumption DEF TypeOK
  <1> QED BY <1>1 DEF Resume

\* The first data tag of a connection is stamped no earlier than the last tag of
\* the connection before, for all timestamps below the 31-bit wrap.
THEOREM NoJumpBack == Spec => TimeGoesOn
  <1>1. TypeInv /\ Inv /\ [Next]_vars
          => [~first /\ first' /\ ts + Bump + 1 < Half => ts' >= ts]_vars
    <2> SUFFICES ASSUME TypeInv, Inv, Next, ~first, first', ts + Bump + 1 < Half
                 PROVE  ts' >= ts
      OBVIOUS
    <2> USE DEF net, timer, parse, heads, cut, clock, slots, upd
    <2>1. TypeOK /\ delta = 0
      BY DEF TypeInv, Inv, Uncorrected
    <2>2. ASSUME NEW y \in Types, NEW t \in Times, HeadTag(y, t) PROVE ts' >= ts
      <3>1. ts' = Resume(t).ts
        BY <2>2 DEF HeadTag
      <3> QED BY <2>1, <3>1, ResumeGoesOn
    <2>3. ASSUME NEW y \in Types, NEW t \in Times, DataTag(y, t) PROVE ts' >= ts
      <3>1. ts' = Stamp(t).ts
        BY <2>3 DEF DataTag
      <3> QED BY <2>1, <3>1, StampGoesOn
    <2>4. ~(OnClockAlarm \/ on_http_open \/ Lost \/ Partial \/ ReadHead)
      BY DEF OnClockAlarm, on_http_open, Lost, Partial, ReadHead
    <2>5. ASSUME NEW b \in AnyBody PROVE ~HeadBody(b) /\ ~DataBody(b)
      BY DEF HeadBody, DataBody
    <2> QED BY <2>2, <2>3, <2>4, <2>5 DEF Next, Tag, Body
  <1> QED BY <1>1, InvAlways, PTL DEF Spec, TimeGoesOn

----------------------------------------------------------------------------
(* The reader implements ReaderProtocol. *)

Phase     == IF ready /\ stat = "data" THEN "data" ELSE "head"
Kind(x)   == IF WellFormed(x) THEN x.kind ELSE "spoilt"
KindsOf(s) == [i \in DOMAIN s |-> Kind(s[i])]

LEMMA KindsOfEmpty == KindsOf(<<>>) = <<>>
  BY DEF KindsOf

LEMMA KindFed == \A x \in Fed : Kind(x) \in {"data", "update"}
  <1>1. ASSUME NEW l \in AnyBody \cup {"empty"}
        PROVE  Kind([kind |-> "data", lead |-> l]) = "data"
    <2>1. l # "flv"
      BY BodyFacts
    <2> QED BY <2>1 DEF Kind, WellFormed
  <1>2. ASSUME NEW l PROVE Kind([kind |-> "update", lead |-> l]) = "update"
    BY DEF Kind, WellFormed
  <1> QED BY <1>1, <1>2 DEF Fed

\* A batch of data pieces and updates.
LEMMA KindsOfFed ==
    ASSUME NEW s \in Seq(Fed)
    PROVE  Protocol!Feed(KindsOf(s))
  <1>1. ASSUME NEW i \in DOMAIN s PROVE Kind(s[i]) \in {"data", "update"}
    <2>1. s[i] \in Fed
      BY LenProperties
    <2> QED BY <2>1, KindFed
  <1>2. DOMAIN KindsOf(s) = DOMAIN s /\ \A i \in DOMAIN s : KindsOf(s)[i] = Kind(s[i])
    BY DEF KindsOf
  <1> QED BY <1>1, <1>2 DEF Protocol!Feed

\* The same with an error at its end.
LEMMA KindsOfFailing ==
    ASSUME NEW s \in Seq(Fed)
    PROVE  /\ Protocol!Failing(KindsOf(Append(s, Posted("error", <<>>))))
           /\ s = <<>> => Len(KindsOf(Append(s, Posted("error", <<>>)))) = 1
  <1> DEFINE e == Posted("error", <<>>)
             a == Append(s, e)
             n == Len(s) + 1
  <1>1. e.kind = "error" /\ e \in Item
    BY NoItem DEF Posted
  <1>2. s \in Seq(Item) /\ Len(s) \in Nat
    BY FedItem, SeqMonotonic
  <1> HIDE DEF e
  <1>3. /\ Len(a) = n /\ a[n] = e /\ a \in Seq(Item)
        /\ \A i \in 1..Len(s) : a[i] = s[i]
    BY <1>1, <1>2, AppendProperties
  <1>4. DOMAIN a = 1..n
    BY <1>3, LenProperties
  <1> HIDE DEF a
  <1>5. /\ DOMAIN KindsOf(a) = 1..n /\ \A i \in 1..n : KindsOf(a)[i] = Kind(a[i])
    BY <1>4 DEF KindsOf
  <1>6. Len(KindsOf(a)) = n
    <2>1. KindsOf(a) = [i \in 1..n |-> Kind(a[i])]
      BY <1>4 DEF KindsOf
    <2>2. n \in Nat
      BY <1>2
    <2> HIDE DEF n
    <2> QED BY <2>1, <2>2
  <1>7. KindsOf(a)[n] = "error"
    BY <1>1, <1>2, <1>3, <1>5 DEF Kind, WellFormed
  <1>8. ASSUME NEW i \in DOMAIN KindsOf(a), i < n PROVE KindsOf(a)[i] \in {"data", "update"}
    <2>1. i \in 1..Len(s)
      BY <1>2, <1>5, <1>8
    <2>2. s[i] \in Fed
      BY <2>1, ElementOfSeq
    <2> QED BY <1>2, <1>3, <1>5, <2>1, <2>2, KindFed
  <1>9. n \in DOMAIN KindsOf(a)
    BY <1>2, <1>5
  <1>10. Protocol!Failing(KindsOf(a))
    BY <1>6, <1>7, <1>8, <1>9 DEF Protocol!Failing
  <1>11. s = <<>> => Len(KindsOf(a)) = 1
    BY <1>6
  <1> QED BY <1>10, <1>11 DEF a, e

LEMMA Mapping == Protocol!Init <=> Phase = "head" /\ KindsOf(out) = <<>>
  BY DEF Protocol!Init, Phase, KindsOf, Kind

\* The steps of the protocol, in terms of the reader's variables.
LEMMA QuietStep ==
    ASSUME out' = <<>>, Phase' = Phase PROVE Protocol!Next
  <1>1. KindsOf(out') = <<>>
    BY KindsOfEmpty
  <1> QED BY <1>1 DEF Protocol!Next, Protocol!Quiet, Phase, KindsOf, Kind

LEMMA HeaderStep ==
    ASSUME NEW p \in Seq(Bit), p # <<>>, p[1] = "flv", out' = <<Posted("head", p)>>,
           Phase = "head", Phase' = "data"
    PROVE  Protocol!Next
  <1>1. Kind(Posted("head", p)) = "head"
    BY DEF Kind, WellFormed, Posted
  <1>2. KindsOf(out') = <<"head">>
    <2> DEFINE x == Posted("head", p)
    <2> HIDE DEF x
    <2>1. KindsOf(<<x>>) = <<Kind(x)>>
      BY DEF KindsOf
    <2> QED BY <1>1, <2>1 DEF x
  <1> QED BY <1>2 DEF Protocol!Next, Protocol!Header, Phase, KindsOf, Kind

LEMMA DataStep ==
    ASSUME out' \in Seq(Fed), Phase = "data", Phase' = "data"
    PROVE  Protocol!Next
  <1>1. PICK s \in Seq(Fed) : s = out'
    OBVIOUS
  <1>2. Protocol!Feed(KindsOf(s))
    BY KindsOfFed
  <1> QED BY <1>1, <1>2 DEF Protocol!Next, Protocol!Data, Phase, KindsOf, Kind

LEMMA ErrorStep ==
    ASSUME NEW s \in Seq(Fed), out' = Append(s, Posted("error", <<>>)), Phase' = "head",
           Phase = "head" => s = <<>>
    PROVE  Protocol!Next
  <1>1. PICK a : a = Append(s, Posted("error", <<>>))
    OBVIOUS
  <1>2. Protocol!Failing(KindsOf(a)) /\ (s = <<>> => Len(KindsOf(a)) = 1)
    BY <1>1, KindsOfFailing
  <1>3. out' = a
    BY <1>1
  <1> QED BY <1>2, <1>3 DEF Protocol!Next, Protocol!Error, Phase, KindsOf, Kind

\* Every step of the reader is one of the protocol.
LEMMA StepImplements ==
    ASSUME TypeInv, Inv, Next PROVE Protocol!Next
  <1> USE DEF net, timer, parse, heads, cut, clock, slots, upd
  <1>0. /\ TypeOK /\ OneOperation /\ Opened /\ Shape /\ ready \in BOOLEAN
        /\ piece \in Seq(Bit) /\ cuts \in 0..3 /\ op \in {"none", "open", "content"}
        /\ <<>> \in Seq(Fed)
    BY DEF TypeInv, Inv, TypeOK, Bit
  \* A callback while the header is read: it goes on, or it reports an error.
  <1>1. ASSUME op = "content", stat = "head", stat' = "head", SizeOk(<<>>)
        PROVE  Protocol!Next
    <2>1. Phase = "head" /\ Phase' = "head"
      BY <1>1 DEF Phase
    <2>2. CASE Continue(<<>>)
      BY <2>1, <2>2, QuietStep DEF Continue
    <2>3. CASE Restart(<<>>)
      BY <1>0, <2>1, <2>3, ErrorStep DEF Restart
    <2> QED BY <1>1, <2>2, <2>3 DEF SizeOk
  \* The same while data is read.
  <1>2. ASSUME op = "content", stat = "data", stat' = "data",
               NEW s \in Seq(Fed), SizeOk(s)
        PROVE  Protocol!Next
    <2>1. Phase = "data" /\ ready
      BY <1>0, <1>2 DEF Phase, OneOperation
    <2>2. CASE Continue(s)
      <3>1. Phase' = "data" /\ out' = s
        BY <1>2, <2>1, <2>2 DEF Phase, Continue
      <3> QED BY <2>1, <3>1, DataStep
    <2>3. CASE Restart(s)
      <3>1. Phase' = "head" /\ out' = Append(s, Posted("error", <<>>))
        BY <2>3 DEF Phase, Restart, async_begin
      <3> QED BY <2>1, <3>1, ErrorStep
    <2> QED BY <1>2, <2>2, <2>3 DEF SizeOk
  <1>3. ASSUME OnClockAlarm PROVE Protocol!Next
    <2>1. out' = <<>> /\ ready' = ready /\ (ready => stat' = stat)
      BY <1>3 DEF OnClockAlarm
    <2>2. Phase' = Phase
      BY <1>0, <2>1 DEF Phase
    <2> QED BY <2>1, <2>2, QuietStep
  <1>4. ASSUME on_http_open PROVE Protocol!Next
    <2>1. out' = <<>> /\ stat' = stat /\ stat = "head"
      BY <1>0, <1>4 DEF on_http_open, Opened
    <2>2. Phase' = Phase
      BY <2>1 DEF Phase
    <2> QED BY <2>1, <2>2, QuietStep
  <1>5. ASSUME Lost PROVE Protocol!Next
    <2>1. out' = Append(<<>>, Posted("error", <<>>)) /\ Phase' = "head"
      BY <1>5 DEF Lost, Restart, async_begin, Phase
    <2> QED BY <1>0, <2>1, ErrorStep
  <1>6. ASSUME Partial PROVE Protocol!Next
    <2>1. out' = <<>> /\ Phase' = Phase
      BY <1>6 DEF Partial, Phase
    <2> QED BY <2>1, QuietStep
  <1>7. ASSUME ReadHead PROVE Protocol!Next
    BY <1>1, <1>7 DEF ReadHead, Content, SizeOk
  <1>8. ASSUME NEW y \in Types, NEW t \in Times, HeadTag(y, t) PROVE Protocol!Next
    BY <1>1, <1>8 DEF HeadTag, Content
  <1>9. ASSUME NEW b \in AnyBody, HeadBody(b) PROVE Protocol!Next
    <2>1. /\ op = "content" /\ stat = "head" /\ ready' = ready
          /\ piece # <<>> /\ piece[1] = "flv"
      BY <1>0, <1>9 DEF HeadBody, Content, Continue, Shape
    <2>2. Phase = "head" /\ ready
      BY <1>0, <2>1 DEF Phase, OneOperation
    <2>3. /\ Append(piece, b) # <<>> /\ Append(piece, b)[1] = "flv"
          /\ Append(piece, b) \in Seq(Bit)
      BY <1>0, <2>1, AppendProperties DEF Bit
    <2>4. \/ stat' = "head" /\ out' = <<>>
          \/ stat' = "data" /\ out' = <<Posted("head", piece)>>
          \/ stat' = "data" /\ out' = <<Posted("head", Append(piece, b))>>
      BY <1>9, <2>1 DEF HeadBody, Continue
    <2>5. CASE stat' = "head" /\ out' = <<>>
      <3>1. Phase' = Phase
        BY <2>2, <2>5 DEF Phase
      <3> QED BY <2>5, <3>1, QuietStep
    <2>6. CASE stat' = "data" /\ out' = <<Posted("head", piece)>>
      <3>1. Phase' = "data"
        BY <2>1, <2>2, <2>6 DEF Phase
      <3> QED BY <1>0, <2>1, <2>2, <2>6, <3>1, HeaderStep
    <2>7. CASE stat' = "data" /\ out' = <<Posted("head", Append(piece, b))>>
      <3>1. Phase' = "data"
        BY <2>1, <2>2, <2>7 DEF Phase
      <3> QED BY <2>2, <2>3, <2>7, <3>1, HeaderStep
    <2> QED BY <2>4, <2>5, <2>6, <2>7
  <1>10. ASSUME NEW y \in Types, NEW t \in Times, DataTag(y, t) PROVE Protocol!Next
    <2>1. op = "content" /\ stat = "data" /\ stat' = "data"
      BY <1>10 DEF DataTag, Content
    <2>2. Posted("data", piece) \in Fed
      BY <1>0, <2>1, DataFed DEF Shape
    <2>3. <<Posted("data", piece)>> \in Seq(Fed)
      BY ONLY <2>2
    <2>4. SizeOk(<<>>) \/ SizeOk(<<Posted("data", piece)>>)
      BY <1>10 DEF DataTag, NewSlot, SizeOk
    <2> QED BY <1>0, <1>2, <2>1, <2>3, <2>4
  <1>11. ASSUME NEW b \in AnyBody, DataBody(b) PROVE Protocol!Next
    <2>1. op = "content" /\ stat = "data" /\ stat' = "data"
      BY <1>11 DEF DataBody, Content
    <2>2. Posted("data", <<>>) \in Fed
      BY DEF Posted, Fed
    <2>3. \A n \in 0..3 : Empties(n) \in Seq(Fed)
      <3> SUFFICES ASSUME NEW n \in 0..3 PROVE Empties(n) \in Seq(Fed)
        OBVIOUS
      <3>1. Empties(n) \in Seq({Posted("data", <<>>)}) /\ {Posted("data", <<>>)} \subseteq Fed
        BY <2>2, EmptiesType
      <3> QED BY <3>1, SeqMonotonic
    <2>4. CASE b \in Keys /\ kf /\ cuts > 0
      <3>1. Continue(<<Posted("data", piece)>> \o Updates \o Empties(cuts - 1))
        BY <1>11, <2>4 DEF DataBody
      <3>2. cuts - 1 \in 0..3
        BY <1>0, <2>4
      <3>3. Posted("data", piece) \in Fed
        BY <1>0, <2>1, DataFed DEF Shape
      <3>4. <<Posted("data", piece)>> \in Seq(Fed)
        BY ONLY <3>3
      <3>5. Updates \in Seq(Fed)
        BY UpdatesType, SeqMonotonic DEF Fed
      <3>6. Empties(cuts - 1) \in Seq(Fed)
        BY <2>3, <3>2
      <3>7. <<Posted("data", piece)>> \o Updates \o Empties(cuts - 1) \in Seq(Fed)
        BY <3>4, <3>5, <3>6, ConcatProperties
      <3> QED BY <1>2, <2>1, <3>1, <3>7 DEF SizeOk
    <2>5. CASE ~(b \in Keys /\ kf /\ cuts > 0)
      <3>1. Continue(Empties(cuts))
        BY <1>11, <2>5 DEF DataBody
      <3> QED BY <1>0, <1>2, <2>1, <2>3, <3>1 DEF SizeOk
    <2> QED BY <2>4, <2>5
  <1> QED
    BY <1>3, <1>4, <1>5, <1>6, <1>7, <1>8, <1>9, <1>10, <1>11 DEF Next, Tag, Body

\* The reader implements the protocol the block writer is written against: of
\* each connection first the header piece, then data and updates, and an error
\* before anything of the next, with no piece made of two connections.
THEOREM ImplementsProtocol == Spec => FollowsProtocol
  <1>1. Init => Protocol!Init
    <2> SUFFICES ASSUME Init PROVE Phase = "head" /\ KindsOf(out) = <<>>
      BY Mapping
    <2>1. out = <<>> /\ Phase = "head"
      BY DEF Init, Phase
    <2> QED BY <2>1, KindsOfEmpty
  <1>2. UNCHANGED vars => UNCHANGED <<Phase, KindsOf(out)>>
    BY DEF vars, timer, parse, Phase, KindsOf, Kind
  <1>3. TypeInv /\ Inv /\ [Next]_vars => [Protocol!Next]_<<Phase, KindsOf(out)>>
    BY <1>2, StepImplements
  <1> QED
    BY <1>1, <1>3, InvAlways, PTL
    DEF Spec, FollowsProtocol, Protocol!Spec, Phase, KindsOf, Kind

=============================================================================
