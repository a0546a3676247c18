----------------------------- MODULE Transcoder -----------------------------
(***************************************************************************)
(* The segment services behind the web server of vod (the WSGI programs    *)
(* wsgi_flv2ts.py, wsgi_flv2fragment.py and wsgi_flv2manifest.py).  Each   *)
(* is a pool of single-threaded processes.  A request names a segment; the *)
(* process fetches the block of that segment with curl, converts it, reads *)
(* the result from a file of the ramdisk and removes the file.  All        *)
(* processes of all pools use the same directory per channel and the same  *)
(* file names per segment.                                                 *)
(*                                                                         *)
(* A block without a picture ("hold") cannot be converted.  It is replaced *)
(* by the last segment this process has converted for the channel, which   *)
(* wsgi_flv2ts.py asks for with a request of its own to the same pool.     *)
(*                                                                         *)
(* Bytes are modelled by what they are: <<kind, segment>>.                 *)
(***************************************************************************)
EXTENDS Integers, Sequences, FiniteSets

CONSTANTS Worker,      \* processes
          PoolOf,      \* [Worker -> {"ts", "fragment", "manifest"}]
          Client,
          Seg, NoSeg,  \* segments
          ChannelOf,   \* [Seg -> channels]
          BlockKind,   \* [Seg -> {"normal", "hold", "blank"}]
          Late,        \* the segments whose block is written after the start
          Ask,         \* the requests clients make, [from, svc, seg] records
          Nobody,
          MaxAsk, MaxFault   \* bounds: requests; broken transfers, blocks
                       \* that come or go and restarts together

Services == {"ts", "video", "audio", "manifest"}
Pool(svc) == CASE svc = "ts" -> "ts" [] svc = "manifest" -> "manifest"
               [] OTHER -> "fragment"

ASSUME TranscoderAssumption ==
    /\ PoolOf \in [Worker -> {"ts", "fragment", "manifest"}]
    /\ NoSeg \notin Seg /\ Nobody \notin Client \cup Worker
    /\ Client \cap Worker = {}
    /\ BlockKind \in [Seg -> {"normal", "hold", "blank"}]
    /\ Late \subseteq Seg
    /\ Ask \subseteq [from : Client, svc : Services, seg : Seg]
    /\ \A a \in Ask : \E w \in Worker : PoolOf[w] = Pool(a.svc)
    /\ MaxAsk \in Nat /\ MaxFault \in Nat

Channel == {ChannelOf[s] : s \in Seg}
File == Seg \X {"flv", "ts", "video", "audio"}
Nothing == <<"", NoSeg>>        \* no file, or an empty body
Page == <<"page", NoSeg>>       \* an error page
Part == <<"part", NoSeg>>       \* a file that is not complete
Mixed == <<"mixed", NoSeg>>     \* two writers in one file
Data == {"flv", "symbol", "media", "meta"} \X Seg
            \cup {Nothing, Page, Part, Mixed, <<"meta", NoSeg>>}

VARIABLES
    block,     \* [Seg -> {"not_yet", "there", "gone"}], kept by the cutter
    backlog,   \* per pool, the requests that wait for a process
    asked,     \* the clients that wait for an answer
    ans,       \* per client, the last answer
    dirs,      \* the channels whose ramdisk directory exists
    disk, writers,   \* the ramdisk: content of each file, who has it open
    pc, job, stream, \* per process: step, request, bytes in hand
    last,      \* DICT_LAST_TS_URI and DICT_LAST_URI, one per process
    asks, faults,
    spoilt, littered, gaveup  \* history: channels for which no promise is made
                       \* any more, that a restart left files of, and whether a
                       \* request to the own pool has timed out

ramdisk == <<dirs, disk, writers>>
process == <<pc, job, stream, last>>
counts == <<asks, faults>>
history == <<spoilt, littered, gaveup>>
vars == <<block, backlog, asked, ans, ramdisk, process, counts, history>>

Idle == <<"idle", "">>
NoJob == [from |-> Nobody, svc |-> "ts", seg |-> NoSeg]
NoAnswer == [svc |-> "ts", seg |-> NoSeg, status |-> "", body |-> Nothing, block |-> ""]

Normal(c) == {s \in Seg : ChannelOf[s] = c /\ BlockKind[s] = "normal"}

\* The processes may have served a channel before and be idle again.
Init ==
    /\ block = [s \in Seg |-> IF s \in Late THEN "not_yet" ELSE "there"]
    /\ backlog = [p \in {"ts", "fragment", "manifest"} |-> <<>>]
    /\ asked = {} /\ ans = [c \in Client |-> NoAnswer]
    /\ dirs \in {{}, Channel}
    /\ disk = [f \in File |-> Nothing] /\ writers = [f \in File |-> {}]
    /\ pc = [w \in Worker |-> Idle] /\ job = [w \in Worker |-> NoJob]
    /\ stream = [w \in Worker |-> Nothing]
    /\ \E s \in Seg \cup {NoSeg} :
         /\ s \in Seg => ChannelOf[s] \in dirs /\ BlockKind[s] = "normal"
         /\ last = [w \in Worker |-> [c \in Channel |->
                       IF s \in Normal(c) \ Late THEN s ELSE NoSeg]]
    /\ asks = 0 /\ faults = 0
    /\ spoilt = {} /\ littered = {} /\ gaveup = FALSE

----------------------------------------------------------------------------
(* The environment: the cutter's blocks, the clients.                      *)

Busy(s) == \E w \in Worker : job[w].seg = s
Fault == faults < MaxFault /\ faults' = faults + 1
Spoil(S) == spoilt' = spoilt \cup {ChannelOf[s] : s \in S}

\* The cutter publishes a block, or removes one whose time is over.  The
\* answer to a request that sees both states is not determined.
Move(s) ==
    /\ Fault /\ block[s] # "gone"
    /\ block' = [block EXCEPT ![s] = IF @ = "there" THEN "gone" ELSE "there"]
    /\ Spoil({t \in {s} : Busy(t)})
    /\ UNCHANGED <<backlog, asked, ans, ramdisk, process, asks, littered, gaveup>>

Request(a) ==
    /\ a.from \notin asked /\ asks < MaxAsk
    /\ asks' = asks + 1 /\ asked' = asked \cup {a.from}
    /\ backlog' = [backlog EXCEPT ![Pool(a.svc)] = Append(@, a)]
    /\ ans' = [ans EXCEPT ![a.from] = NoAnswer]
    /\ UNCHANGED <<block, ramdisk, process, faults, history>>

----------------------------------------------------------------------------
(* The steps of a process.  pc is <<stage, step>>: a stage writes one file *)
(* (open, close), reads it back (read) and removes it (remove).            *)

Goto(w, l) == pc' = [pc EXCEPT ![w] = l]
Svc(w) == job[w].svc
Ch(w) == ChannelOf[job[w].seg]
Fetched(s) == IF block[s] = "there" THEN <<"flv", s>> ELSE Page

\* Mutant: one directory for all channels; their segments have the same numbers.
Target_NoChannel(w) ==
    LET f == CASE pc[w][1] \in {"curl", "meta"} -> "flv"
               [] pc[w][1] \in {"symbol", "hold"} /\ Svc(w) # "ts" -> "flv"
               [] OTHER -> Svc(w)
    IN  <<CHOOSE s \in Seg : TRUE, f>>

\* The file of the current stage.
Target(w) ==
    LET f == CASE pc[w][1] \in {"curl", "meta"} -> "flv"
               [] pc[w][1] \in {"symbol", "hold"} /\ Svc(w) # "ts" -> "flv"
               [] OTHER -> Svc(w)
    IN  <<job[w].seg, f>>

\* What pptransfer and ffmpeg make of their input: nothing, when it has no
\* picture; when it is not complete, something or nothing.
Converted(d) ==
    CASE d[1] = "flv" -> {IF BlockKind[d[2]] = "normal" THEN <<"media", d[2]>>
                                                        ELSE Nothing}
      [] d \in {Part, Mixed} -> {Part, Nothing}
      [] OTHER -> {Nothing}

\* What the command of the current stage may write.
Sources(w) ==
    LET s == job[w].seg
    IN  CASE pc[w][1] \in {"curl", "symbol", "meta"} -> {Fetched(s)}
          [] pc[w][1] = "hold" -> {IF block[s] = "there" THEN <<"symbol", s>> ELSE Page}
          [] pc[w][1] = "convert" -> IF Svc(w) = "ts" THEN Converted(disk[<<s, "flv">>])
                                                      ELSE Converted(Fetched(s))
          [] OTHER -> IF Svc(w) = "ts" THEN {stream[w]}
                                       ELSE Converted(Fetched(last[w][Ch(w)]))

First(svc) == CASE svc = "ts" -> "curl" [] svc = "manifest" -> "meta"
                [] OTHER -> "convert"

\* A free process takes the oldest request of its pool; it looks whether
\* the directory of the channel exists.
Accept(w) ==
    /\ pc[w] = Idle /\ backlog[PoolOf[w]] # <<>>
    /\ LET r == Head(backlog[PoolOf[w]])
       IN  /\ job' = [job EXCEPT ![w] = r]
           /\ Goto(w, IF ChannelOf[r.seg] \in dirs THEN <<First(r.svc), "open">>
                                                   ELSE <<First(r.svc), "mkdir">>)
           /\ Spoil({t \in {r.seg} : Busy(t)})
    /\ backlog' = [backlog EXCEPT ![PoolOf[w]] = Tail(@)]
    /\ stream' = [stream EXCEPT ![w] = Nothing]
    /\ UNCHANGED <<block, asked, ans, ramdisk, last, counts, littered, gaveup>>

\* Nothing is left of the job of w; whoever waits for it gets the answer.
\* The answer to a process that waits is the body of its curl.
Answer(w, status, body) ==
    LET r == job[w]
    IN  /\ asked' = asked \ {r.from}
        /\ ans' = IF r.from \notin Client THEN ans ELSE
             [ans EXCEPT ![r.from] = [svc |-> r.svc, seg |-> r.seg, status |-> status,
                                      body |-> body, block |-> block[r.seg]]]
        /\ pc' = [v \in Worker |-> IF v = w THEN Idle
                                   ELSE IF v = r.from THEN <<"last", "open">> ELSE pc[v]]
        /\ stream' = [v \in Worker |-> IF v = w THEN Nothing
                                       ELSE IF v = r.from THEN body ELSE stream[v]]
        /\ job' = [job EXCEPT ![w] = NoJob]

\* Another process may have made the directory since: an exception.
Mkdir(w) ==
    /\ pc[w][2] = "mkdir"
    /\ IF Ch(w) \in dirs
       THEN Answer(w, "500", Page) /\ Spoil({job[w].seg}) /\ UNCHANGED dirs
       ELSE /\ dirs' = dirs \cup {Ch(w)} /\ Goto(w, <<pc[w][1], "open">>)
            /\ UNCHANGED <<asked, ans, job, stream, spoilt>>
    /\ UNCHANGED <<block, backlog, disk, writers, last, counts, littered, gaveup>>

\* The command opens its output; one that has nothing to write does not.
Open(w) ==
    /\ pc[w][2] = "open"
    /\ \E d \in Sources(w) :
         /\ stream' = [stream EXCEPT ![w] = d]
         /\ IF d = Nothing THEN Goto(w, <<pc[w][1], "read">>) /\ UNCHANGED <<disk, writers>>
            ELSE /\ Goto(w, <<pc[w][1], "close">>)
                 /\ disk' = [disk EXCEPT ![Target(w)] =
                                IF writers[Target(w)] = {} THEN Part ELSE Mixed]
                 /\ writers' = [writers EXCEPT ![Target(w)] = @ \cup {w}]
    /\ UNCHANGED <<block, backlog, asked, ans, dirs, job, last, counts, history>>

\* The command ends and leaves d; if the file was removed meanwhile, or
\* removed and made again, that is not seen in the directory.
Leave(w, d) ==
    /\ pc[w][2] = "close"
    /\ Goto(w, IF pc[w][1] = "curl" THEN <<"convert", "open">> ELSE <<pc[w][1], "read">>)
    /\ IF w \in writers[Target(w)]
       THEN /\ disk' = [disk EXCEPT ![Target(w)] = IF @ = Mixed THEN @ ELSE d]
            /\ writers' = [writers EXCEPT ![Target(w)] = @ \ {w}]
       ELSE UNCHANGED <<disk, writers>>
    /\ UNCHANGED <<block, backlog, asked, ans, dirs, job, stream, last, asks,
                   littered, gaveup>>

Close(w) == Leave(w, stream[w]) /\ UNCHANGED <<faults, spoilt>>

\* The transfer breaks, or takes longer than 15 seconds: the exit status of
\* curl is not looked at.
Cut(w) ==
    /\ pc[w][1] # "convert" \/ Svc(w) # "ts"
    /\ Fault /\ Leave(w, Part) /\ Spoil({job[w].seg})

\* readlines of the result, or '' when there is no such file.
Read(w) ==
    /\ pc[w][2] = "read"
    /\ stream' = [stream EXCEPT ![w] = disk[Target(w)]]
    /\ Goto(w, <<pc[w][1], IF pc[w][1] = "convert" /\ Svc(w) = "ts" THEN "rm_flv"
                           ELSE "remove">>)
    /\ UNCHANGED <<block, backlog, asked, ans, ramdisk, job, last, counts, history>>

Unlink(f) ==
    /\ disk' = [disk EXCEPT ![f] = Nothing]
    /\ writers' = [writers EXCEPT ![f] = {}]

\* Mutant: the downloaded block is not removed.
RemoveFlv_Keep(w) ==
    /\ pc[w][2] = "rm_flv"
    /\ UNCHANGED <<disk, writers>>
    /\ Goto(w, <<"convert", "remove">>)
    /\ UNCHANGED <<block, backlog, asked, ans, dirs, job, stream, last, counts, history>>

RemoveFlv(w) ==
    /\ pc[w][2] = "rm_flv"
    /\ Unlink(<<job[w].seg, "flv">>)
    /\ Goto(w, <<"convert", "remove">>)
    /\ UNCHANGED <<block, backlog, asked, ans, dirs, job, stream, last, counts, history>>

\* Whether the bytes begin with a symbol: of garbled ones that is not known.
Begins(d, k) == IF d \in {Part, Mixed} THEN BOOLEAN ELSE {d[1] = k}
IsHold(d) == IF d \in {Part, Mixed} THEN BOOLEAN
             ELSE {d[1] = "symbol" /\ BlockKind[d[2]] = "hold"}

\* The conversion has given something: it is the answer, and the segment is
\* remembered.  Else the first bytes of the block are fetched.
Converted200(w) ==
    IF stream[w] = Nothing
    THEN Goto(w, <<"symbol", "open">>) /\ UNCHANGED <<asked, ans, job, stream, last>>
    ELSE /\ last' = [last EXCEPT ![w][Ch(w)] = job[w].seg]
         /\ Answer(w, "200", stream[w])

Symbol(w) ==
    /\ UNCHANGED last
    /\ IF stream[w] = Nothing THEN Answer(w, "502", Nothing)
       ELSE \E flv \in Begins(stream[w], "flv") :
              IF flv THEN Goto(w, <<"hold", "open">>) /\ UNCHANGED <<asked, ans, job, stream>>
                     ELSE Answer(w, "404", Nothing)

\* Mutant: every block that cannot be converted counts as one on hold.
Hold_NoTest(w) ==
    /\ UNCHANGED last
    /\ IF stream[w] = Nothing THEN Answer(w, "502", Nothing)
       ELSE \E hold \in IsHold(stream[w]) :
              IF FALSE THEN Answer(w, "200", Nothing)
              ELSE IF last[w][Ch(w)] = NoSeg THEN Answer(w, "502", Nothing)
              ELSE /\ Goto(w, <<"last", IF Svc(w) = "ts" THEN "ask" ELSE "open">>)
                   /\ UNCHANGED <<asked, ans, job, stream>>

\* A block that is FLV and cannot be converted: on hold, or blank.
Hold(w) ==
    /\ UNCHANGED last
    /\ IF stream[w] = Nothing THEN Answer(w, "502", Nothing)
       ELSE \E hold \in IsHold(stream[w]) :
              IF ~hold THEN Answer(w, "200", Nothing)
              ELSE IF last[w][Ch(w)] = NoSeg THEN Answer(w, "502", Nothing)
              ELSE /\ Goto(w, <<"last", IF Svc(w) = "ts" THEN "ask" ELSE "open">>)
                   /\ UNCHANGED <<asked, ans, job, stream>>

\* The metadata of the manifest: defaults when the block is none.
Meta(w) ==
    /\ UNCHANGED last
    /\ IF stream[w] = Nothing THEN Answer(w, "500", Nothing)
       ELSE \E flv \in Begins(stream[w], "flv") :
              Answer(w, "200", IF flv /\ stream[w][1] = "flv" THEN <<"meta", stream[w][2]>>
                               ELSE <<"meta", NoSeg>>)

\* The last remove of a stage, and what follows from the bytes read.
Remove(w) ==
    /\ pc[w][2] = "remove"
    /\ Unlink(Target(w))
    /\ CASE pc[w][1] = "convert" -> Converted200(w)
         [] pc[w][1] = "symbol" -> Symbol(w)
         [] pc[w][1] = "hold" -> Hold(w)
         [] pc[w][1] = "meta" -> Meta(w)
         [] OTHER -> Answer(w, "200", stream[w]) /\ UNCHANGED last
    /\ UNCHANGED <<block, backlog, dirs, counts, history>>

\* wsgi_flv2ts.py: the substitute is requested from the own pool.
AskLast(w) ==
    /\ pc[w] = <<"last", "ask">>
    /\ backlog' = [backlog EXCEPT !["ts"] =
                      Append(@, [from |-> w, svc |-> "ts", seg |-> last[w][Ch(w)]])]
    /\ Goto(w, <<"last", "wait">>)
    /\ UNCHANGED <<block, asked, ans, ramdisk, job, stream, last, counts, history>>

Orphan(r, V) == [r EXCEPT !.from = IF @ \in V THEN Nobody ELSE @]

\* Every process that could serve the request waits for such a request.
Stuck == \A w \in Worker : PoolOf[w] = "ts" => pc[w] = <<"last", "wait">>

\* Mutant: no time limit.
Timeout_Never(w) == FALSE /\ UNCHANGED vars

\* The web server gives up after 300 seconds and answers with an error page;
\* the request is still served, for nobody.  That it happens to a request
\* whose turn would come counts as a fault.
Timeout(w) ==
    /\ pc[w] = <<"last", "wait">>
    /\ IF Stuck THEN UNCHANGED faults ELSE Fault
    /\ stream' = [stream EXCEPT ![w] = Page] /\ Goto(w, <<"last", "open">>)
    /\ backlog' = [backlog EXCEPT !["ts"] =
                      [i \in DOMAIN @ |-> Orphan(@[i], {w})]]
    /\ job' = [v \in Worker |-> Orphan(job[v], {w})]
    /\ gaveup' = TRUE
    /\ UNCHANGED <<block, asked, ans, ramdisk, last, asks, spoilt, littered>>

\* wsgi_monitor.sh finds too few processes of a pool: all are killed and
\* started anew on a new socket.  The files on the ramdisk stay.
Restart(p) ==
    LET dead == {w \in Worker : PoolOf[w] = p}
        lost == {job[w] : w \in dead} \cup {backlog[p][i] : i \in DOMAIN backlog[p]}
        from == {r.from : r \in lost}
        open == {f \in File : disk[f] # Nothing /\ \E w \in dead : job[w].seg = f[1]}
    IN  /\ Fault
        /\ asked' = asked \ from
        /\ ans' = [c \in Client |->
                     IF \E r \in lost : r.from = c
                     THEN LET r == CHOOSE q \in lost : q.from = c
                          IN  [svc |-> r.svc, seg |-> r.seg, status |-> "502",
                               body |-> Page, block |-> "restart"]
                     ELSE ans[c]]
        /\ pc' = [w \in Worker |-> IF w \in dead THEN Idle ELSE pc[w]]
        /\ stream' = [w \in Worker |-> IF w \in dead THEN Nothing ELSE stream[w]]
        /\ job' = [w \in Worker |-> IF w \in dead THEN NoJob ELSE job[w]]
        /\ last' = [w \in Worker |-> IF w \in dead THEN [c \in Channel |-> NoSeg] ELSE last[w]]
        /\ backlog' = [backlog EXCEPT ![p] = <<>>]
        /\ writers' = [f \in File |-> writers[f] \ dead]
        /\ littered' = littered \cup {ChannelOf[f[1]] : f \in open}
        /\ Spoil({f[1] : f \in open})
        /\ UNCHANGED <<block, dirs, disk, asks, gaveup>>

----------------------------------------------------------------------------
Work(w) ==
    \/ Accept(w) \/ Mkdir(w) \/ Open(w) \/ Close(w) \/ Read(w) \/ RemoveFlv(w)
    \/ Remove(w) \/ AskLast(w) \/ Timeout(w)

Next ==
    \/ \E s \in Seg : Move(s)
    \/ \E a \in Ask : Request(a)
    \/ \E w \in Worker : Work(w) \/ Cut(w)
    \/ \E p \in {"ts", "fragment", "manifest"} : Restart(p)

\* The kernel runs every process, the commands end and the web server has a
\* time limit.
Spec == Init /\ [][Next]_vars /\ \A w \in Worker : WF_vars(Work(w))

----------------------------------------------------------------------------
(* Properties.                                                             *)

Steps == {"", "mkdir", "open", "close", "read", "rm_flv", "remove", "ask", "wait"}
Jobs == [from : Client \cup Worker \cup {Nobody}, svc : Services, seg : Seg \cup {NoSeg}]

\* The types of the variables.
TypeOK ==
    /\ block \in [Seg -> {"not_yet", "there", "gone"}]
    /\ backlog \in [{"ts", "fragment", "manifest"} -> Seq(Jobs)]
    /\ asked \subseteq Client /\ dirs \subseteq Channel
    /\ disk \in [File -> Data] /\ writers \in [File -> SUBSET Worker]
    /\ pc \in [Worker -> {"idle", "curl", "convert", "symbol", "hold", "last", "meta"} \X Steps]
    /\ job \in [Worker -> Jobs] /\ stream \in [Worker -> Data]
    /\ last \in [Worker -> [Channel -> Seg \cup {NoSeg}]]
    /\ spoilt \subseteq Channel /\ littered \subseteq Channel /\ gaveup \in BOOLEAN

\* What a segment service may answer for a segment of kind k when nobody else
\* works on the segment: the converted segment, nothing for a blank one, a
\* segment of the same channel for one on hold.
RightFor(a) ==
    IF a.svc = "manifest"
    THEN a.status = "200" /\ a.body = <<"meta", IF a.block = "there" THEN a.seg ELSE NoSeg>>
    ELSE IF a.block # "there" THEN a.status = "404"
    ELSE CASE BlockKind[a.seg] = "normal" -> a.status = "200" /\ a.body = <<"media", a.seg>>
           [] BlockKind[a.seg] = "blank" -> a.status = "200" /\ a.body = Nothing
           [] OTHER ->
                \/ a.status = "502"
                \/ a.status = "200" /\ \/ a.body \in {"media"} \X Normal(ChannelOf[a.seg])
                                       \/ a.body = Nothing /\ \E s \in Normal(ChannelOf[a.seg]) : block[s] = "gone"
                                       \/ a.body = Page /\ gaveup

\* As long as no two processes worked on one segment of the channel at the
\* same time, no transfer broke and no process was killed, every answer is
\* right, whatever the processes did to other segments in between.
RightAnswer ==
    \A c \in Client :
        ans[c] # NoAnswer /\ ans[c].block # "restart" /\ ChannelOf[ans[c].seg] \notin spoilt
            => RightFor(ans[c])

\* Whatever happens, also with processes that write and remove each other's
\* files: no viewer gets the picture of another channel.
ChannelsApart ==
    \A c \in Client : ans[c].body[2] \in Seg => ChannelOf[ans[c].body[2]] = ChannelOf[ans[c].seg]

\* The ramdisk does not fill up: while no request for a segment is being
\* served, no file of it exists, except after a restart.
NoLitter ==
    \A f \in File : disk[f] # Nothing => Busy(f[1]) \/ ChannelOf[f[1]] \in littered

\* Every request is answered, even when all processes of the pool wait for
\* an answer from the pool.
Answered == \A c \in Client : c \in asked ~> c \notin asked

=============================================================================
