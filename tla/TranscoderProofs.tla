-------------------------- MODULE TranscoderProofs --------------------------
(***************************************************************************)
(* Proofs about the segment services, for any number of processes in each  *)
(* pool, of clients, channels and segments, and any number of requests,    *)
(* broken transfers, restarts and blocks that come and go.                 *)
(***************************************************************************)
EXTENDS Transcoder, SequenceTheorems, TLAPS

\* A process is at one of these places.
Places ==
    {Idle} \cup ({"curl", "convert", "meta"} \X {"mkdir"})
           \cup ({"curl", "convert", "symbol", "hold", "last", "meta"}
                     \X {"open", "close", "read", "remove"})
           \cup {<<"convert", "rm_flv">>, <<"last", "ask">>, <<"last", "wait">>}

Pools == {"ts", "fragment", "manifest"}
Requests == [from : Client \cup Worker \cup {Nobody}, svc : Services, seg : Seg]
Answers == [svc : Services, seg : Seg \cup {NoSeg}, status : {"", "200", "404", "500", "502"},
            body : Data, block : {"", "not_yet", "there", "gone", "restart"}]

Types ==
    /\ block \in [Seg -> {"not_yet", "there", "gone"}]
    /\ backlog \in [Pools -> Seq(Requests)]
    /\ asked \subseteq Client /\ ans \in [Client -> Answers] /\ dirs \subseteq Channel
    /\ disk \in [File -> Data] /\ writers \in [File -> SUBSET Worker]
    /\ pc \in [Worker -> Places]
    /\ job \in [Worker -> Requests \cup {NoJob}] /\ stream \in [Worker -> Data]
    /\ last \in [Worker -> [Channel -> Seg \cup {NoSeg}]]
    /\ spoilt \subseteq Channel /\ littered \subseteq Channel /\ gaveup \in BOOLEAN

\* What the step a process is at tells about its request: the service fits the
\* pool and the stage, and the last stage has a segment to turn to.
Placed(w) ==
    IF pc[w] = Idle THEN job[w] = NoJob
    ELSE /\ job[w] \in Requests /\ Pool(Svc(w)) = PoolOf[w]
         /\ pc[w][1] = "meta" <=> Svc(w) = "manifest"
         /\ pc[w][1] = "curl" \/ pc[w][2] \in {"rm_flv", "ask", "wait"} => Svc(w) = "ts"
         /\ pc[w][1] = "last" /\ (pc[w][2] = "ask" \/ (pc[w][2] = "open" /\ Svc(w) # "ts"))
                => last[w][Ch(w)] \in Seg

\* A request a process has made: the process waits, on a request of the same
\* channel.
Waited(r) ==
    r.from \in Worker => /\ pc[r.from] = <<"last", "wait">> /\ r.svc = "ts"
                         /\ ChannelOf[r.seg] = Ch(r.from)

\* Every request is in the queue of its pool.
Queued(p) ==
    \A i \in DOMAIN backlog[p] : Pool(backlog[p][i].svc) = p /\ Waited(backlog[p][i])

\* A process waits for one request only.
Once ==
    /\ \A v, w \in Worker : job[v].from \in Worker /\ job[v].from = job[w].from => v = w
    /\ \A i, j \in DOMAIN backlog["ts"] :
          backlog["ts"][i].from \in Worker /\ backlog["ts"][i].from = backlog["ts"][j].from => i = j
    /\ \A v \in Worker, i \in DOMAIN backlog["ts"] :
          job[v].from \in Worker => job[v].from # backlog["ts"][i].from

Order ==
    /\ \A w \in Worker : Placed(w) /\ Waited(job[w])
    /\ \A p \in Pools : Queued(p)
    /\ Once

\* The last segment of a channel is one of that channel.
Kept == \A w \in Worker, c \in Channel : last[w][c] \in Seg => ChannelOf[last[w][c]] = c

----------------------------------------------------------------------------
(* The operators of the model.                                             *)

LEMMA IdleFacts ==
    Idle[2] \notin {"mkdir", "open", "close", "read", "rm_flv", "remove", "ask", "wait"}
  BY DEF Idle

\* The marks of the things that are no segment.
LEMMA MarkFacts ==
    /\ Nothing[1] \notin {"flv", "symbol", "media", "meta", "page", "part", "mixed"}
    /\ Page[1] = "page" /\ Part[1] = "part" /\ Mixed[1] = "mixed"
    /\ Nothing[2] = NoSeg /\ Page[2] = NoSeg /\ Part[2] = NoSeg /\ Mixed[2] = NoSeg
  BY DEF Nothing, Page, Part, Mixed

LEMMA DataFacts ==
    /\ {Nothing, Page, Part, Mixed, <<"meta", NoSeg>>} \subseteq Data
    /\ \A s \in Seg : {<<"flv", s>>, <<"symbol", s>>, <<"media", s>>, <<"meta", s>>} \subseteq Data
    /\ \A d \in Data : d[1] \in {"flv", "symbol", "media"} => d = <<d[1], d[2]>> /\ d[2] \in Seg
  <1>1. {Nothing, Page, Part, Mixed, <<"meta", NoSeg>>} \subseteq Data
    BY DEF Data
  <1>2. \A s \in Seg : {<<"flv", s>>, <<"symbol", s>>, <<"media", s>>, <<"meta", s>>} \subseteq Data
    BY DEF Data
  <1>3. \A d \in Data : d[1] \in {"flv", "symbol", "media"} => d = <<d[1], d[2]>> /\ d[2] \in Seg
    <2> SUFFICES ASSUME NEW d \in Data, d[1] \in {"flv", "symbol", "media"}
                 PROVE  d = <<d[1], d[2]>> /\ d[2] \in Seg
      OBVIOUS
    <2>1. CASE d \in {"flv", "symbol", "media", "meta"} \X Seg
      BY <2>1
    <2>2. CASE d \in {Nothing, Page, Part, Mixed, <<"meta", NoSeg>>}
      <3>1. d # <<"meta", NoSeg>>
        OBVIOUS
      <3> QED BY <2>2, <3>1, MarkFacts
    <2> QED BY <2>1, <2>2 DEF Data
  <1> QED BY <1>1, <1>2, <1>3

Stages == {"curl", "convert", "symbol", "hold", "last", "meta"}

LEMMA PlacesFacts ==
    /\ Idle \in Places
    /\ \A st \in {"curl", "convert", "meta"} : <<st, "mkdir">> \in Places
    /\ \A st \in Stages, n \in {"open", "close", "read", "remove"} : <<st, n>> \in Places
    /\ {<<"convert", "rm_flv">>, <<"last", "ask">>, <<"last", "wait">>} \subseteq Places
    /\ \A l \in Places :
          /\ l = <<l[1], l[2]>> /\ (l # Idle => l[1] \in Stages)
          /\ l[2] = "rm_flv" => l[1] = "convert"
          /\ l[2] = "mkdir" => l[1] \in {"curl", "convert", "meta"}
          /\ l[2] \in {"ask", "wait"} => l[1] = "last"
          /\ l # Idle => l[2] \in {"mkdir", "open", "close", "read", "rm_flv", "remove", "ask", "wait"}
  <1>1. /\ Idle \in Places
        /\ \A st \in {"curl", "convert", "meta"} : <<st, "mkdir">> \in Places
        /\ \A st \in Stages, n \in {"open", "close", "read", "remove"} : <<st, n>> \in Places
        /\ {<<"convert", "rm_flv">>, <<"last", "ask">>, <<"last", "wait">>} \subseteq Places
    BY DEF Places, Stages
  <1>2. ASSUME NEW l \in Places
        PROVE  /\ l = <<l[1], l[2]>> /\ (l # Idle => l[1] \in Stages)
               /\ l[2] = "rm_flv" => l[1] = "convert"
               /\ l[2] = "mkdir" => l[1] \in {"curl", "convert", "meta"}
               /\ l[2] \in {"ask", "wait"} => l[1] = "last"
               /\ l # Idle => l[2] \in {"mkdir", "open", "close", "read", "rm_flv", "remove", "ask", "wait"}
    <2>1. CASE l = Idle
      BY <2>1 DEF Idle
    <2>2. CASE l \in {"curl", "convert", "meta"} \X {"mkdir"}
      BY <2>2 DEF Stages
    <2>3. CASE l \in {"curl", "convert", "symbol", "hold", "last", "meta"}
                     \X {"open", "close", "read", "remove"}
      BY <2>3 DEF Stages
    <2>4. CASE l \in {<<"convert", "rm_flv">>, <<"last", "ask">>, <<"last", "wait">>}
      BY <2>4 DEF Stages
    <2> QED BY <1>2, <2>1, <2>2, <2>3, <2>4 DEF Places
  <1> QED BY <1>1, <1>2

LEMMA PoolFacts ==
    /\ \A svc \in Services : Pool(svc) \in Pools
    /\ Pool("ts") = "ts" /\ \A svc \in Services : Pool(svc) = "ts" => svc = "ts"
    /\ Pool("manifest") = "manifest"
  BY DEF Pool, Pools, Services

\* The last segment of a process in stage last can be fetched.
LEMMA FetchedType ==
    ASSUME Types, NEW s \in Seg
    PROVE  Fetched(s) \in Data /\ Fetched(s) # Nothing
  BY DataFacts DEF Fetched, Nothing, Page

LEMMA ConvertedType ==
    ASSUME NEW d \in Data, NEW e \in Converted(d)
    PROVE  e \in Data
  BY DataFacts DEF Converted, Part, Mixed, Nothing

\* The file of a stage belongs to the segment of the request.
LEMMA TargetType ==
    ASSUME Types, NEW w \in Worker, Placed(w), pc[w] # Idle
    PROVE  Target(w) \in File /\ Target(w)[1] = job[w].seg
  <1>1. Svc(w) \in Services /\ job[w].seg \in Seg
    BY DEF Placed, Svc, Requests
  <1>2. Target(w) = <<job[w].seg, Target(w)[2]>>
    BY DEF Target
  <1>3. Target(w)[2] \in {"flv", Svc(w)} /\ (Svc(w) = "manifest" => Target(w)[2] = "flv")
    BY DEF Target, Placed
  <1> QED BY <1>1, <1>2, <1>3 DEF File, Services

LEMMA SourcesType ==
    ASSUME Types, NEW w \in Worker, Placed(w), pc[w][2] = "open", NEW d \in Sources(w)
    PROVE  d \in Data
  <1> DEFINE s == job[w].seg
  <1>a. pc[w] # Idle
    BY IdleFacts
  <1>0. pc[w] # Idle /\ pc[w] \in Places
    BY <1>a DEF Types
  <1>1. s \in Seg /\ Svc(w) \in Services
    BY <1>0 DEF Placed, Svc, Requests
  <1>2. CASE pc[w][1] \in {"curl", "symbol", "meta"}
    BY <1>1, <1>2, FetchedType DEF Sources
  <1>3. CASE pc[w][1] = "hold"
    BY <1>1, <1>3, DataFacts DEF Sources
  <1>4. CASE pc[w][1] = "convert" /\ Svc(w) = "ts"
    <2>1. disk[<<s, "flv">>] \in Data
      BY <1>1 DEF Types, File
    <2>2. d \in Converted(disk[<<s, "flv">>])
      BY <1>4 DEF Sources
    <2> QED BY <2>1, <2>2, ConvertedType
  <1>5. CASE pc[w][1] = "convert" /\ Svc(w) # "ts"
    <2>1. d \in Converted(Fetched(s))
      BY <1>5 DEF Sources
    <2> QED BY <1>1, <2>1, ConvertedType, FetchedType
  <1>6. CASE pc[w][1] = "last" /\ Svc(w) = "ts"
    BY <1>6 DEF Sources, Types
  <1>7. CASE pc[w][1] = "last" /\ Svc(w) # "ts"
    <2>1. last[w][Ch(w)] \in Seg
      BY <1>0, <1>7 DEF Placed
    <2>2. d \in Converted(Fetched(last[w][Ch(w)]))
      BY <1>7 DEF Sources
    <2> QED BY <2>1, <2>2, ConvertedType, FetchedType
  <1>8. pc[w][1] \in {"curl", "convert", "symbol", "hold", "last", "meta"}
    BY <1>0, PlacesFacts DEF Stages
  <1> QED BY <1>2, <1>3, <1>4, <1>5, <1>6, <1>7, <1>8

----------------------------------------------------------------------------
(* Type correctness, and who waits for whom.                               *)

LEMMA JobFacts ==
    /\ NoJob.from = Nobody /\ NoJob.seg = NoSeg /\ NoJob \in Jobs
    /\ Requests \subseteq Jobs /\ Nobody \notin Worker /\ NoSeg \notin Seg
    /\ \A c \in Client : c \notin Worker /\ c # Nobody
    /\ \A s \in Seg : ChannelOf[s] \in Channel
  BY TranscoderAssumption DEF NoJob, Jobs, Requests, Services, Channel

LEMMA BusyFacts ==
    ASSUME Types, Order, NEW w \in Worker, pc[w] # Idle
    PROVE  /\ job[w] \in Requests /\ job[w].seg \in Seg /\ Svc(w) \in Services
           /\ Ch(w) \in Channel /\ pc[w] \in Places /\ pc[w][1] \in Stages
           /\ Placed(w) /\ Waited(job[w]) /\ Target(w) \in File /\ Target(w)[1] = job[w].seg
  <1>1. Placed(w) /\ Waited(job[w]) /\ pc[w] \in Places
    BY DEF Order, Types
  <1>2. job[w] \in Requests /\ job[w].seg \in Seg /\ Svc(w) \in Services
    BY <1>1 DEF Placed, Requests, Svc
  <1> QED BY <1>1, <1>2, TargetType, PlacesFacts, JobFacts DEF Ch

\* What Answer does, process by process and client by client.
Handed(w, status, body) ==
    /\ asked' \subseteq Client /\ ans' \in [Client -> Answers]
    /\ pc' \in [Worker -> Places] /\ stream' \in [Worker -> Data]
    /\ job' \in [Worker -> Requests \cup {NoJob}]
    /\ pc'[w] = Idle /\ job'[w] = NoJob /\ job[w].from # w
    /\ \A v \in Worker \ {w} :
          /\ job'[v] = job[v]
          /\ v # job[w].from => pc'[v] = pc[v] /\ stream'[v] = stream[v]
          /\ v = job[w].from => /\ pc[v] = <<"last", "wait">> /\ pc'[v] = <<"last", "open">>
                                /\ stream'[v] = body
    /\ \A c \in Client :
          ans'[c] = IF c = job[w].from
                    THEN [svc |-> Svc(w), seg |-> job[w].seg, status |-> status,
                          body |-> body, block |-> block[job[w].seg]]
                    ELSE ans[c]

LEMMA AnswerFacts ==
    ASSUME Types, Order, NEW w \in Worker, pc[w][2] \in {"mkdir", "remove"},
           NEW status \in {"200", "404", "500", "502"}, NEW body \in Data,
           Answer(w, status, body)
    PROVE  Handed(w, status, body)
  <1>1. pc[w] # Idle /\ pc[w] # <<"last", "wait">>
    BY IdleFacts
  <1>2. job[w] \in Requests /\ job[w].seg \in Seg /\ Svc(w) \in Services /\ Waited(job[w])
    BY <1>1, BusyFacts
  <1>3. job[w].from # w
    BY <1>1, <1>2 DEF Waited
  <1>4. asked' \subseteq Client
    BY DEF Answer, Types
  <1>5. /\ pc' = [v \in Worker |-> IF v = w THEN Idle
                                   ELSE IF v = job[w].from THEN <<"last", "open">> ELSE pc[v]]
        /\ stream' = [v \in Worker |-> IF v = w THEN Nothing
                                       ELSE IF v = job[w].from THEN body ELSE stream[v]]
        /\ job' = [job EXCEPT ![w] = NoJob]
    BY DEF Answer
  <1>6. pc' \in [Worker -> Places]
    <2>1. <<"last", "open">> \in Places /\ Idle \in Places /\ \A v \in Worker : pc[v] \in Places
      BY PlacesFacts DEF Stages, Types
    <2> QED BY <1>5, <2>1
  <1>7. stream' \in [Worker -> Data]
    <2>1. Nothing \in Data /\ \A v \in Worker : stream[v] \in Data
      BY DataFacts DEF Types
    <2> QED BY <1>5, <2>1
  <1>8. job' \in [Worker -> Requests \cup {NoJob}]
    BY <1>5 DEF Types
  <1>9. \A v \in Worker \ {w} : v = job[w].from => pc[v] = <<"last", "wait">>
    BY <1>2 DEF Waited
  <1>10. DEFINE a == [svc |-> Svc(w), seg |-> job[w].seg, status |-> status,
                      body |-> body, block |-> block[job[w].seg]]
  <1>11. a \in Answers
    <2>1. block[job[w].seg] \in {"not_yet", "there", "gone"}
      BY <1>2 DEF Types
    <2> QED BY <1>2, <2>1 DEF Answers
  <1>12. ans' \in [Client -> Answers] /\ \A c \in Client : ans'[c] = IF c = job[w].from THEN a ELSE ans[c]
    <2>1. ans \in [Client -> Answers]
      BY DEF Types
    <2>2. ans' = IF job[w].from \notin Client THEN ans ELSE [ans EXCEPT ![job[w].from] = a]
      BY DEF Answer, Svc
    <2> HIDE DEF a
    <2> QED BY <1>11, <2>1, <2>2
  <1>13. job \in [Worker -> Requests \cup {NoJob}]
    BY DEF Types
  <1>14. \A v \in Worker : /\ v = w => pc'[v] = Idle /\ job'[v] = NoJob
                           /\ v # w => /\ job'[v] = job[v]
                                       /\ v # job[w].from => pc'[v] = pc[v] /\ stream'[v] = stream[v]
                                       /\ v = job[w].from => pc'[v] = <<"last", "open">> /\ stream'[v] = body
    BY <1>5, <1>13
  <1> QED BY <1>3, <1>4, <1>6, <1>7, <1>8, <1>9, <1>12, <1>14 DEF Handed

\* A step of a process within its request.
LEMMA OrderStep ==
    ASSUME Types, Order, NEW w \in Worker, pc[w] # Idle, pc[w] # <<"last", "wait">>,
           UNCHANGED <<job, backlog>>, Placed(w)',
           \A v \in Worker \ {w} : pc'[v] = pc[v] /\ last'[v] = last[v]
    PROVE  Order'
  <1>1. \A v \in Worker : Placed(v)'
    BY DEF Order, Placed, Svc, Ch
  <1>2. \A r : Waited(r) => Waited(r)'
    BY DEF Waited, Ch
  <1>3. (\A v \in Worker : Waited(job[v])') /\ \A p \in Pools : Queued(p)'
    BY <1>2 DEF Order, Queued
  <1>4. Once'
    BY DEF Order, Once
  <1> QED BY <1>1, <1>3, <1>4 DEF Order

LEMMA OrderAnswer ==
    ASSUME Types, Order, NEW w \in Worker, pc[w][2] \in {"mkdir", "remove"},
           NEW status \in {"200", "404", "500", "502"}, NEW body \in Data,
           Answer(w, status, body), UNCHANGED backlog,
           \A v \in Worker \ {w} : last'[v] = last[v]
    PROVE  Order'
  <1> DEFINE u == job[w].from
  <1>0. Handed(w, status, body)
    BY AnswerFacts
  <1>1. /\ pc'[w] = Idle /\ job'[w] = NoJob /\ u # w
        /\ \A v \in Worker \ {w} :
              /\ job'[v] = job[v] /\ (v # u => pc'[v] = pc[v])
              /\ v = u => pc[v] = <<"last", "wait">> /\ pc'[v] = <<"last", "open">>
    BY <1>0 DEF Handed
  <1>2. pc[w] # Idle /\ pc[w] # <<"last", "wait">>
    BY IdleFacts
  <1> HIDE DEF u
  <1>3. ASSUME NEW v \in Worker PROVE Placed(v)'
    <2>1. CASE v = w
      BY <1>1, <2>1 DEF Placed
    <2>2. CASE v # w /\ v # u
      BY <1>1, <2>2 DEF Order, Placed, Svc, Ch
    <2>3. CASE v # w /\ v = u
      <3>1. pc[v] = <<"last", "wait">> /\ pc'[v] = <<"last", "open">> /\ job'[v] = job[v]
        BY <1>1, <2>3
      <3>2. pc[v] # Idle /\ pc'[v] # Idle
        BY <3>1, IdleFacts
      <3>3. Placed(v)
        BY DEF Order
      <3> QED BY <3>1, <3>2, <3>3 DEF Placed, Svc, Ch
    <2> QED BY <2>1, <2>2, <2>3
  <1>4. ASSUME NEW r, Waited(r), r.from \in Worker => r.from # u PROVE Waited(r)'
    <2> SUFFICES ASSUME r.from \in Worker PROVE Waited(r)'
      BY DEF Waited
    <2>1. pc[r.from] = <<"last", "wait">> /\ r.svc = "ts" /\ ChannelOf[r.seg] = Ch(r.from)
      BY <1>4 DEF Waited
    <2>2. r.from # w /\ pc'[r.from] = pc[r.from] /\ job'[r.from] = job[r.from]
      BY <1>1, <1>2, <1>4, <2>1
    <2> QED BY <2>1, <2>2 DEF Waited, Ch
  <1>5. ASSUME NEW v \in Worker PROVE Waited(job[v])'
    <2>1. CASE v = w
      BY <1>1, <2>1, JobFacts DEF Waited
    <2>2. CASE v # w
      <3>1. Waited(job[v]) /\ (job[v].from \in Worker => job[v].from # u) /\ job'[v] = job[v]
        BY <1>1, <2>2 DEF Order, Once, u
      <3>2. PICK r : r = job[v]
        OBVIOUS
      <3>3. Waited(r)'
        BY <1>4, <3>1, <3>2
      <3> QED BY <3>1, <3>2, <3>3 DEF Waited, Ch
    <2> QED BY <2>1, <2>2
  <1>6. ASSUME NEW p \in Pools PROVE Queued(p)'
    <2> SUFFICES ASSUME NEW i \in DOMAIN backlog[p]
                 PROVE  Pool(backlog[p][i].svc) = p /\ Waited(backlog[p][i])'
      BY DEF Queued
    <2>1. Pool(backlog[p][i].svc) = p /\ Waited(backlog[p][i])
      BY DEF Order, Queued
    <2>2. PICK r : r = backlog[p][i]
      OBVIOUS
    <2>3. r.from \in Worker => r.from # u
      <3>1. r.from \in Worker => p = "ts"
        BY <2>1, <2>2, PoolFacts DEF Waited
      <3> QED BY <2>2, <3>1 DEF Order, Once, u
    <2>4. Waited(r)'
      BY <1>4, <2>1, <2>2, <2>3
    <2> QED BY <2>1, <2>2, <2>4 DEF Waited, Ch
  <1>7. Once'
    <2>1. NoJob.from \notin Worker /\ \A v \in Worker : job'[v] = IF v = w THEN NoJob ELSE job[v]
      BY <1>1, JobFacts
    <2>2. Once
      BY DEF Order
    <2> QED BY <2>1, <2>2 DEF Once
  <1> QED BY <1>3, <1>5, <1>6, <1>7 DEF Order

LEMMA SpoilFacts ==
    ASSUME spoilt \subseteq Channel, NEW S \in SUBSET Seg, Spoil(S)
    PROVE  /\ spoilt' \subseteq Channel /\ spoilt \subseteq spoilt'
           /\ \A s \in S : ChannelOf[s] \in spoilt'
  BY DEF Spoil, Channel

LEMMA AppendFacts ==
    ASSUME NEW S, NEW q \in Seq(S), NEW e \in S
    PROVE  /\ Append(q, e) \in Seq(S)
           /\ \A i \in DOMAIN Append(q, e) :
                 \/ i \in DOMAIN q /\ Append(q, e)[i] = q[i]
                 \/ i = Len(q) + 1 /\ Append(q, e)[i] = e
  OBVIOUS

LEMMA TailFacts ==
    ASSUME NEW S, NEW q \in Seq(S), q # <<>>
    PROVE  /\ Tail(q) \in Seq(S) /\ Head(q) \in S /\ Head(q) = q[1] /\ 1 \in DOMAIN q
           /\ \A i \in DOMAIN Tail(q) : i + 1 \in DOMAIN q /\ i + 1 # 1 /\ Tail(q)[i] = q[i + 1]
                                      /\ i \in Nat
  OBVIOUS

LEMMA OrphanFacts ==
    ASSUME NEW w \in Worker
    PROVE  /\ \A r \in Requests : LET o == Orphan(r, {w})
                                  IN  /\ o \in Requests /\ o.svc = r.svc /\ o.seg = r.seg
                                      /\ o.from = IF r.from = w THEN Nobody ELSE r.from
           /\ Orphan(NoJob, {w}) = NoJob
  <1>1. ASSUME NEW r \in Requests
        PROVE  LET o == Orphan(r, {w})
               IN  /\ o \in Requests /\ o.svc = r.svc /\ o.seg = r.seg
                   /\ o.from = IF r.from = w THEN Nobody ELSE r.from
    BY <1>1 DEF Orphan, Requests
  <1>2. Orphan(NoJob, {w}) = NoJob
    BY TranscoderAssumption DEF Orphan, NoJob
  <1> QED BY <1>1, <1>2

LEMMA UnlinkFacts ==
    ASSUME Types, NEW f \in File, Unlink(f)
    PROVE  /\ disk' \in [File -> Data] /\ writers' \in [File -> SUBSET Worker]
           /\ \A g \in File : /\ disk'[g] = IF g = f THEN Nothing ELSE disk[g]
                              /\ writers'[g] = IF g = f THEN {} ELSE writers[g]
  BY DataFacts DEF Types, Unlink

\* The last step of a stage ends the request with an answer, or leads to the
\* next stage.
Replies(w) ==
    \E status \in {"200", "404", "500", "502"}, body \in Data :
        /\ Answer(w, status, body)
        /\ body[2] \in {NoSeg, stream[w][2]}

Goes(w) ==
    \E l \in {<<"symbol", "open">>, <<"hold", "open">>, <<"last", "ask">>, <<"last", "open">>} :
        /\ Goto(w, l) /\ UNCHANGED <<asked, ans, job, stream, last>>
        /\ Svc(w) # "manifest"
        /\ l = <<"last", "ask">> => Svc(w) = "ts"
        /\ l[1] = "last" => last[w][Ch(w)] # NoSeg

LEMMA RemoveFacts ==
    ASSUME Types, Order, NEW w \in Worker, Remove(w)
    PROVE  /\ pc[w] # Idle /\ Unlink(Target(w))
           /\ Replies(w) \/ Goes(w)
           /\ \/ UNCHANGED last
              \/ last' = [last EXCEPT ![w][Ch(w)] = job[w].seg]
  <1>0. pc[w] # Idle /\ Unlink(Target(w)) /\ pc[w][2] = "remove" /\ stream[w] \in Data
    BY IdleFacts DEF Remove, Types
  <1>1. pc[w][1] \in Stages /\ (pc[w][1] = "meta" <=> Svc(w) = "manifest")
    BY <1>0, BusyFacts DEF Placed
  <1>2. Nothing \in Data /\ Nothing[2] = NoSeg
    BY DataFacts, MarkFacts
  <1>3. CASE pc[w][1] = "convert"
    <2>1. Converted200(w)
      BY <1>3 DEF Remove
    <2>2. CASE stream[w] = Nothing
      BY <1>0, <1>1, <1>3, <2>1, <2>2 DEF Converted200, Goes
    <2>3. CASE stream[w] # Nothing
      <3>1. Answer(w, "200", stream[w]) /\ last' = [last EXCEPT ![w][Ch(w)] = job[w].seg]
        BY <2>1, <2>3 DEF Converted200
      <3>2. Replies(w)
        BY <1>0, <3>1 DEF Replies
      <3> QED BY <1>0, <3>1, <3>2
    <2> QED BY <2>2, <2>3
  <1>4. CASE pc[w][1] = "symbol"
    <2>1. Symbol(w)
      BY <1>4 DEF Remove
    <2>2. \/ Answer(w, "502", Nothing) \/ Answer(w, "404", Nothing)
          \/ Goto(w, <<"hold", "open">>) /\ UNCHANGED <<asked, ans, job, stream>>
      BY <2>1 DEF Symbol
    <2>3. UNCHANGED last
      BY <2>1 DEF Symbol
    <2>4. Replies(w) \/ Goes(w)
      BY <1>1, <1>2, <1>4, <2>2, <2>3 DEF Replies, Goes
    <2> QED BY <1>0, <2>3, <2>4
  <1>5. CASE pc[w][1] = "hold"
    <2>1. Hold(w)
      BY <1>5 DEF Remove
    <2>2. \/ Answer(w, "502", Nothing) \/ Answer(w, "200", Nothing)
          \/ /\ last[w][Ch(w)] # NoSeg
             /\ Goto(w, <<"last", IF Svc(w) = "ts" THEN "ask" ELSE "open">>)
             /\ UNCHANGED <<asked, ans, job, stream>>
      BY <2>1 DEF Hold
    <2>3. UNCHANGED last
      BY <2>1 DEF Hold
    <2>4. Replies(w) \/ Goes(w)
      BY <1>1, <1>2, <1>5, <2>2, <2>3 DEF Replies, Goes
    <2> QED BY <1>0, <2>3, <2>4
  <1>6. CASE pc[w][1] = "meta"
    <2>1. Meta(w)
      BY <1>6 DEF Remove
    <2>2. <<"meta", NoSeg>> \in Data /\ (stream[w][1] = "flv" => <<"meta", stream[w][2]>> \in Data)
      BY <1>0, DataFacts
    <2>3. \/ Answer(w, "500", Nothing)
          \/ Answer(w, "200", <<"meta", NoSeg>>)
          \/ stream[w][1] = "flv" /\ Answer(w, "200", <<"meta", stream[w][2]>>)
      BY <2>1 DEF Meta
    <2>4. UNCHANGED last
      BY <2>1 DEF Meta
    <2>5. Replies(w)
      BY <1>2, <2>2, <2>3 DEF Replies
    <2> QED BY <1>0, <2>4, <2>5
  <1>7. CASE pc[w][1] \in {"curl", "last"}
    <2>1. Answer(w, "200", stream[w]) /\ UNCHANGED last
      BY <1>7 DEF Remove
    <2>2. Replies(w)
      BY <1>0, <2>1 DEF Replies
    <2> QED BY <1>0, <2>1, <2>2
  <1> QED BY <1>1, <1>3, <1>4, <1>5, <1>6, <1>7 DEF Stages

Base == Types /\ Order /\ Kept

LEMMA BaseInit == Init => Base
  <1> SUFFICES ASSUME Init PROVE Base
    OBVIOUS
  <1>1. Types
    <2>1. ans \in [Client -> Answers]
      BY DataFacts DEF Init, NoAnswer, Answers, Services
    <2>2. disk \in [File -> Data] /\ stream \in [Worker -> Data]
      BY DataFacts DEF Init
    <2>3. pc \in [Worker -> Places]
      BY PlacesFacts DEF Init
    <2>4. backlog \in [Pools -> Seq(Requests)]
      BY DEF Init, Pools
    <2>5. last \in [Worker -> [Channel -> Seg \cup {NoSeg}]]
      BY DEF Init, Normal
    <2>6. dirs \subseteq Channel
      BY DEF Init
    <2>7. /\ block \in [Seg -> {"not_yet", "there", "gone"}]
          /\ writers \in [File -> SUBSET Worker] /\ job \in [Worker -> Requests \cup {NoJob}]
      BY DEF Init
    <2>8. asked \subseteq Client /\ spoilt \subseteq Channel /\ littered \subseteq Channel
          /\ gaveup \in BOOLEAN
      BY DEF Init
    <2> QED BY <2>1, <2>2, <2>3, <2>4, <2>5, <2>6, <2>7, <2>8 DEF Types
  <1>2. /\ \A w \in Worker : pc[w] = Idle /\ job[w] = NoJob
        /\ \A p \in Pools : backlog[p] = <<>>
    BY DEF Init, Pools
  <1>3. \A w \in Worker : Placed(w) /\ Waited(job[w])
    BY <1>2, JobFacts DEF Placed, Waited
  <1>4. (\A p \in Pools : Queued(p)) /\ Once
    BY <1>2, JobFacts DEF Queued, Once, Pools
  <1>5. Kept
    BY JobFacts DEF Init, Kept, Normal
  <1> QED BY <1>1, <1>3, <1>4, <1>5 DEF Base, Order

\* A step that leaves the processes and the queues alone.
LEMMA OrderFrame ==
    ASSUME Order, UNCHANGED <<pc, job, last, backlog>>
    PROVE  Order'
  BY DEF Order, Placed, Waited, Queued, Once, Svc, Ch

LEMMA MoveBase ==
    ASSUME Base, NEW s \in Seg, Move(s)
    PROVE  Base'
  <1> USE DEF ramdisk, process
  <1>1. block' \in [Seg -> {"not_yet", "there", "gone"}]
    BY DEF Move, Base, Types
  <1>2. spoilt' \subseteq Channel
    BY SpoilFacts DEF Move, Base, Types
  <1>3. UNCHANGED <<backlog, asked, ans, dirs, disk, writers, pc, job, stream, last,
                    littered, gaveup>>
    BY DEF Move
  <1>4. Types'
    BY <1>1, <1>2, <1>3 DEF Base, Types
  <1>5. Order'
    BY <1>3, OrderFrame DEF Base
  <1> QED BY <1>3, <1>4, <1>5 DEF Base, Kept

LEMMA RequestBase ==
    ASSUME Base, NEW a \in Ask, Request(a)
    PROVE  Base'
  <1> USE DEF ramdisk, process, history
  <1> DEFINE q == Pool(a.svc)
  <1>1. a \in Requests /\ a.from \in Client /\ a.from \notin Worker /\ a.svc \in Services
    <2>1. a \in [from : Client, svc : Services, seg : Seg]
      BY TranscoderAssumption
    <2> QED BY <2>1, JobFacts DEF Requests
  <1>2. q \in Pools
    BY <1>1, PoolFacts
  <1>3. UNCHANGED <<block, dirs, disk, writers, pc, job, stream, last, spoilt, littered, gaveup>>
        /\ asked' = asked \cup {a.from} /\ ans' = [ans EXCEPT ![a.from] = NoAnswer]
        /\ backlog' = [backlog EXCEPT ![q] = Append(@, a)]
    BY DEF Request
  <1>4. backlog \in [Pools -> Seq(Requests)] /\ ans \in [Client -> Answers]
    BY DEF Base, Types
  <1> HIDE DEF q
  <1>5. backlog[q] \in Seq(Requests) /\ Append(backlog[q], a) \in Seq(Requests)
    BY <1>1, <1>2, <1>4, AppendFacts
  <1>6. /\ backlog' \in [Pools -> Seq(Requests)]
        /\ \A p \in Pools : backlog'[p] = IF p = q THEN Append(backlog[q], a) ELSE backlog[p]
    BY <1>2, <1>3, <1>4, <1>5
  <1>7. \A p \in Pools : \A i \in DOMAIN backlog'[p] :
           \/ i \in DOMAIN backlog[p] /\ backlog'[p][i] = backlog[p][i]
           \/ backlog'[p][i] = a /\ p = q
    BY <1>1, <1>2, <1>5, <1>6, AppendFacts
  <1>8. NoAnswer \in Answers
    BY DataFacts DEF NoAnswer, Answers, Services
  <1>9. Types'
    <2>1. ans' \in [Client -> Answers] /\ asked' \subseteq Client
      BY <1>1, <1>3, <1>4, <1>8 DEF Base, Types
    <2> QED BY <1>3, <1>6, <2>1 DEF Base, Types
  <1>10. \A w \in Worker : Placed(w)' /\ Waited(job[w])'
    BY <1>3 DEF Base, Order, Placed, Waited, Svc, Ch
  <1>11. ASSUME NEW p \in Pools PROVE Queued(p)'
    <2>1. \A r : Waited(r) => Waited(r)'
      BY <1>3 DEF Waited, Ch
    <2>2. Waited(a)
      BY <1>1 DEF Waited
    <2>3. \A i \in DOMAIN backlog'[p] : Pool(backlog'[p][i].svc) = p /\ Waited(backlog'[p][i])
      BY <1>7, <2>2 DEF Base, Order, Queued, q
    <2> QED BY <2>1, <2>3 DEF Queued, Waited, Ch
  <1>12. Once'
    <2>1. "ts" \in Pools
      BY DEF Pools
    <2>2. \A i \in DOMAIN backlog'["ts"] : backlog'["ts"][i].from \in Worker =>
             i \in DOMAIN backlog["ts"] /\ backlog'["ts"][i] = backlog["ts"][i]
      BY <1>1, <1>7, <2>1
    <2> QED BY <1>3, <2>2 DEF Base, Order, Once
  <1> QED BY <1>3, <1>9, <1>10, <1>11, <1>12 DEF Base, Order, Kept

\* What Accept does: the oldest request of the pool becomes that of w.
Taken(w, r) ==
    /\ pc[w] = Idle /\ r \in Requests /\ Pool(r.svc) = PoolOf[w] /\ Waited(r)
    /\ pc' \in [Worker -> Places] /\ job' \in [Worker -> Requests \cup {NoJob}]
    /\ stream' \in [Worker -> Data] /\ backlog' \in [Pools -> Seq(Requests)]
    /\ job'[w] = r /\ pc'[w][1] = First(r.svc) /\ pc'[w][2] \in {"open", "mkdir"}
    /\ pc'[w] # Idle /\ stream'[w] = Nothing
    /\ \A v \in Worker \ {w} : job'[v] = job[v] /\ pc'[v] = pc[v] /\ stream'[v] = stream[v]
    /\ \A p \in Pools : IF p = PoolOf[w]
                        THEN /\ 1 \in DOMAIN backlog[p] /\ r = backlog[p][1]
                             /\ \A i \in DOMAIN backlog'[p] :
                                   /\ i \in Nat /\ i + 1 \in DOMAIN backlog[p] /\ i + 1 # 1
                                   /\ backlog'[p][i] = backlog[p][i + 1]
                        ELSE backlog'[p] = backlog[p]

LEMMA AcceptFacts ==
    ASSUME Types, Order, NEW w \in Worker, Accept(w)
    PROVE  \E r : Taken(w, r) /\ Spoil({t \in {r.seg} : Busy(t)})
  <1> DEFINE q == backlog[PoolOf[w]]
             r == Head(q)
  <1>1. PoolOf[w] \in Pools
    BY TranscoderAssumption DEF Pools
  <1>2. q \in Seq(Requests) /\ q # <<>>
    BY <1>1 DEF Types, Accept
  <1>3. /\ Tail(q) \in Seq(Requests) /\ r \in Requests /\ r = q[1] /\ 1 \in DOMAIN q
        /\ \A i \in DOMAIN Tail(q) : i + 1 \in DOMAIN q /\ i + 1 # 1 /\ Tail(q)[i] = q[i + 1]
                                   /\ i \in Nat
    BY <1>2, TailFacts
  <1>4. Pool(r.svc) = PoolOf[w] /\ Waited(r)
    <2>1. Queued(PoolOf[w])
      BY <1>1 DEF Order
    <2> QED BY <1>3, <2>1 DEF Queued
  <1>5. PICK l \in {<<First(r.svc), "open">>, <<First(r.svc), "mkdir">>} :
            /\ pc[w] = Idle /\ pc' = [pc EXCEPT ![w] = l] /\ job' = [job EXCEPT ![w] = r]
            /\ stream' = [stream EXCEPT ![w] = Nothing]
            /\ backlog' = [backlog EXCEPT ![PoolOf[w]] = Tail(q)]
            /\ Spoil({t \in {r.seg} : Busy(t)})
    BY DEF Accept, Goto
  <1>6. /\ pc \in [Worker -> Places] /\ job \in [Worker -> Requests \cup {NoJob}]
        /\ stream \in [Worker -> Data] /\ backlog \in [Pools -> Seq(Requests)]
    BY DEF Types
  <1>7. First(r.svc) \in {"curl", "convert", "meta"}
    BY DEF First
  <1>8. l \in Places /\ l # Idle /\ l[1] = First(r.svc) /\ l[2] \in {"open", "mkdir"}
    <2>1. l[1] = First(r.svc) /\ l[2] \in {"open", "mkdir"} /\ l = <<l[1], l[2]>>
      BY ONLY <1>5
    <2>2. l \in Places
      BY <1>7, <2>1, PlacesFacts DEF Stages
    <2>3. l # Idle
      BY <2>1, IdleFacts
    <2> QED BY <2>1, <2>2, <2>3
  <1>9. Nothing \in Data
    BY DataFacts
  <1> HIDE DEF q, r
  <1>10. /\ pc' \in [Worker -> Places] /\ job' \in [Worker -> Requests \cup {NoJob}]
         /\ stream' \in [Worker -> Data] /\ backlog' \in [Pools -> Seq(Requests)]
         /\ job'[w] = r /\ pc'[w] = l /\ stream'[w] = Nothing
         /\ \A v \in Worker \ {w} : job'[v] = job[v] /\ pc'[v] = pc[v] /\ stream'[v] = stream[v]
         /\ \A p \in Pools : backlog'[p] = IF p = PoolOf[w] THEN Tail(q) ELSE backlog[p]
    BY <1>1, <1>3, <1>5, <1>6, <1>8, <1>9
  <1>11. \A p \in Pools : IF p = PoolOf[w]
                        THEN /\ 1 \in DOMAIN backlog[p] /\ r = backlog[p][1]
                             /\ \A i \in DOMAIN backlog'[p] :
                                   /\ i \in Nat /\ i + 1 \in DOMAIN backlog[p] /\ i + 1 # 1
                                   /\ backlog'[p][i] = backlog[p][i + 1]
                        ELSE backlog'[p] = backlog[p]
    BY <1>1, <1>3, <1>10 DEF q
  <1>12. Taken(w, r)
    BY <1>3, <1>4, <1>5, <1>8, <1>10, <1>11 DEF Taken
  <1> QED BY <1>5, <1>12

LEMMA AcceptBase ==
    ASSUME Base, NEW w \in Worker, Accept(w)
    PROVE  Base'
  <1> USE DEF ramdisk
  <1>0. Types /\ Order /\ Kept
    BY DEF Base
  <1>1. PICK r : Taken(w, r) /\ Spoil({t \in {r.seg} : Busy(t)})
    BY <1>0, AcceptFacts
  <1>2. UNCHANGED <<block, asked, ans, dirs, disk, writers, last, littered, gaveup>>
    BY DEF Accept
  <1>3. r \in Requests /\ r.seg \in Seg /\ r.svc \in Services
    BY <1>1 DEF Taken, Requests
  <1>4. spoilt' \subseteq Channel
    BY <1>0, <1>1, <1>3, SpoilFacts DEF Types
  <1>5. Types'
    BY <1>0, <1>1, <1>2, <1>4 DEF Types, Taken
  <1>6. ASSUME NEW v \in Worker PROVE Placed(v)'
    <2>1. CASE v = w
      <3>1. /\ job'[w] = r /\ pc'[w][1] = First(r.svc) /\ pc'[w][2] \in {"open", "mkdir"}
            /\ pc'[w] # Idle /\ Pool(r.svc) = PoolOf[w]
        BY <1>1 DEF Taken
      <3>2. /\ First(r.svc) = "meta" <=> r.svc = "manifest"
            /\ First(r.svc) = "curl" => r.svc = "ts"
            /\ First(r.svc) # "last"
        BY <1>3 DEF First, Services
      <3> QED BY <1>3, <2>1, <3>1, <3>2 DEF Placed, Svc, Ch
    <2>2. CASE v # w
      <3>1. job'[v] = job[v] /\ pc'[v] = pc[v]
        BY <1>1, <2>2 DEF Taken
      <3> QED BY <1>0, <1>2, <3>1 DEF Order, Placed, Svc, Ch
    <2> QED BY <2>1, <2>2
  <1>7. ASSUME NEW e, Waited(e) PROVE Waited(e)'
    <2> SUFFICES ASSUME e.from \in Worker PROVE Waited(e)'
      BY DEF Waited
    <2>1. pc[e.from] = <<"last", "wait">> /\ e.svc = "ts" /\ ChannelOf[e.seg] = Ch(e.from)
      BY <1>7 DEF Waited
    <2>2. e.from # w
      BY <1>1, <2>1, IdleFacts DEF Taken
    <2>3. pc'[e.from] = pc[e.from] /\ job'[e.from] = job[e.from]
      BY <1>1, <2>2 DEF Taken
    <2> QED BY <2>1, <2>3 DEF Waited, Ch
  <1>8. ASSUME NEW v \in Worker PROVE Waited(job[v])'
    <2>1. PICK e : e = job'[v]
      OBVIOUS
    <2>2. Waited(e)
      BY <1>0, <1>1, <2>1 DEF Order, Taken
    <2>3. Waited(e)'
      BY <1>7, <2>2
    <2> QED BY <2>1, <2>3 DEF Waited, Ch
  <1>9. ASSUME NEW p \in Pools PROVE Queued(p)'
    <2> SUFFICES ASSUME NEW i \in DOMAIN backlog'[p]
                 PROVE  Pool(backlog'[p][i].svc) = p /\ Waited(backlog[p][i])'
      BY DEF Queued
    <2>1. \E j \in DOMAIN backlog[p] : backlog'[p][i] = backlog[p][j]
      BY <1>1 DEF Taken
    <2>2. PICK e : e = backlog'[p][i]
      OBVIOUS
    <2>3. Pool(e.svc) = p /\ Waited(e)
      BY <1>0, <2>1, <2>2 DEF Order, Queued
    <2>4. Waited(e)'
      BY <1>7, <2>3
    <2> QED BY <2>2, <2>3, <2>4 DEF Waited, Ch
  <1>10. Once'
    <2>0. "ts" \in Pools /\ Once
      BY <1>0 DEF Pools, Order
    <2>1. r.from \in Worker => PoolOf[w] = "ts"
      BY <1>1, PoolFacts DEF Taken, Waited
    <2>2. \A v \in Worker : job'[v] = IF v = w THEN r ELSE job[v]
      BY <1>1 DEF Taken
    <2>3. CASE PoolOf[w] = "ts"
      <3>1. /\ 1 \in DOMAIN backlog["ts"] /\ r = backlog["ts"][1]
            /\ \A i \in DOMAIN backlog'["ts"] :
                  /\ i \in Nat /\ i + 1 \in DOMAIN backlog["ts"] /\ i + 1 # 1
                  /\ backlog'["ts"][i] = backlog["ts"][i + 1]
        BY <1>1, <2>0, <2>3 DEF Taken
      <3>2. \A v, u \in Worker : job'[v].from \in Worker /\ job'[v].from = job'[u].from => v = u
        BY <2>0, <2>2, <3>1 DEF Once
      <3>3. \A i, j \in DOMAIN backlog'["ts"] :
               backlog'["ts"][i].from \in Worker /\ backlog'["ts"][i].from = backlog'["ts"][j].from
                   => i = j
        BY <2>0, <3>1 DEF Once
      <3>4. \A v \in Worker, i \in DOMAIN backlog'["ts"] :
               job'[v].from \in Worker => job'[v].from # backlog'["ts"][i].from
        BY <2>0, <2>2, <3>1 DEF Once
      <3> QED BY <3>2, <3>3, <3>4 DEF Once
    <2>4. CASE PoolOf[w] # "ts"
      <3>1. backlog'["ts"] = backlog["ts"]
        BY <1>1, <2>0, <2>4 DEF Taken
      <3> QED BY <2>0, <2>1, <2>2, <2>4, <3>1 DEF Once
    <2> QED BY <2>3, <2>4
  <1> QED BY <1>0, <1>2, <1>5, <1>6, <1>8, <1>9, <1>10 DEF Base, Order, Kept

LEMMA GotoFacts ==
    ASSUME Types, NEW w \in Worker, NEW l \in Places, Goto(w, l)
    PROVE  /\ pc' \in [Worker -> Places] /\ pc'[w] = l
           /\ \A v \in Worker \ {w} : pc'[v] = pc[v]
  BY DEF Types, Goto

LEMMA MkdirBase ==
    ASSUME Base, NEW w \in Worker, Mkdir(w)
    PROVE  Base'
  <1>0. Types /\ Order /\ Kept
    BY DEF Base
  <1>1. /\ UNCHANGED <<block, backlog, disk, writers, last, littered, gaveup>> /\ pc[w][2] = "mkdir"
    BY DEF Mkdir
  <1>2. pc[w] # Idle /\ pc[w] # <<"last", "wait">>
    BY <1>1, IdleFacts
  <1>3. /\ job[w].seg \in Seg /\ Ch(w) \in Channel /\ Placed(w) /\ pc[w] \in Places
    BY <1>0, <1>2, BusyFacts
  <1>4. CASE Ch(w) \in dirs
    <2>1. Answer(w, "500", Page) /\ Spoil({job[w].seg}) /\ dirs' = dirs
      BY <1>4 DEF Mkdir
    <2>2. Page \in Data
      BY DataFacts
    <2>3. Handed(w, "500", Page)
      BY <1>0, <1>1, <2>1, <2>2, AnswerFacts
    <2>4. Order'
      BY <1>0, <1>1, <2>1, <2>2, OrderAnswer
    <2>5. spoilt' \subseteq Channel
      BY <1>0, <1>3, <2>1, SpoilFacts DEF Types
    <2>6. Types'
      BY <1>0, <1>1, <2>1, <2>3, <2>5 DEF Types, Handed
    <2> QED BY <1>0, <1>1, <2>4, <2>6 DEF Base, Kept
  <1>5. CASE Ch(w) \notin dirs
    <2>1. /\ dirs' = dirs \cup {Ch(w)} /\ Goto(w, <<pc[w][1], "open">>)
          /\ UNCHANGED <<asked, ans, job, stream, spoilt>>
      BY <1>5 DEF Mkdir
    <2>2. pc[w][1] \in {"curl", "convert", "meta"} /\ <<pc[w][1], "open">> \in Places
      BY <1>1, <1>3, PlacesFacts DEF Stages
    <2>3. /\ pc' \in [Worker -> Places] /\ pc'[w] = <<pc[w][1], "open">>
          /\ \A v \in Worker \ {w} : pc'[v] = pc[v]
      BY <1>0, <2>1, <2>2, GotoFacts
    <2>4. Placed(w)'
      <3>1. pc'[w] # Idle /\ pc'[w][1] = pc[w][1] /\ pc'[w][2] = "open"
        BY <2>3, IdleFacts
      <3> QED BY <1>1, <1>2, <1>3, <2>1, <2>2, <3>1 DEF Placed, Svc, Ch
    <2>5. Order'
      BY <1>0, <1>1, <1>2, <2>1, <2>3, <2>4, OrderStep
    <2>6. Types'
      BY <1>0, <1>1, <1>3, <2>1, <2>3 DEF Types
    <2> QED BY <1>0, <1>1, <2>5, <2>6 DEF Base, Kept
  <1> QED BY <1>4, <1>5

\* The steps of one stage, and from the download to the conversion.
Within(w, l) ==
    /\ l \in Places
    /\ l[1] = pc[w][1] \/ (pc[w][1] = "curl" /\ l = <<"convert", "open">>)
    /\ l[2] \in {"open", "close", "read", "remove"} \/ (l[2] = "rm_flv" /\ Svc(w) = "ts")
    /\ l[1] = "last" => l[2] # "open"

LEMMA SameStage ==
    ASSUME Types, Order, NEW w \in Worker, pc[w][2] \in {"open", "close", "read", "rm_flv"},
           NEW l, Within(w, l), Goto(w, l), UNCHANGED <<job, backlog, last>>
    PROVE  Order' /\ pc[w] # Idle /\ pc' \in [Worker -> Places] /\ pc'[w] = l /\ pc'[w] # Idle
           /\ \A v \in Worker \ {w} : pc'[v] = pc[v]
  <1>1. pc[w] # Idle /\ pc[w] # <<"last", "wait">>
    BY IdleFacts
  <1>2. /\ pc' \in [Worker -> Places] /\ pc'[w] = l
        /\ \A v \in Worker \ {w} : pc'[v] = pc[v]
    BY GotoFacts DEF Within
  <1>3. pc'[w] # Idle
    BY <1>2, IdleFacts DEF Within
  <1>4. Placed(w)
    BY DEF Order
  <1>5. Placed(w)'
    BY <1>1, <1>2, <1>3, <1>4 DEF Placed, Svc, Ch, Within
  <1> QED BY <1>1, <1>2, <1>3, <1>5, OrderStep

LEMMA OpenBase ==
    ASSUME Base, NEW w \in Worker, Open(w)
    PROVE  Base'
  <1>0. Types /\ Order /\ Kept
    BY DEF Base
  <1>1. UNCHANGED <<block, backlog, asked, ans, dirs, job, last, spoilt, littered, gaveup>>
        /\ pc[w][2] = "open"
    BY DEF Open, history
  <1>2. PICK d \in Sources(w) :
         /\ stream' = [stream EXCEPT ![w] = d]
         /\ \/ Goto(w, <<pc[w][1], "read">>) /\ UNCHANGED <<disk, writers>>
            \/ /\ Goto(w, <<pc[w][1], "close">>)
               /\ disk' = [disk EXCEPT ![Target(w)] =
                                IF writers[Target(w)] = {} THEN Part ELSE Mixed]
               /\ writers' = [writers EXCEPT ![Target(w)] = @ \cup {w}]
    BY DEF Open
  <1>3. pc[w] # Idle
    BY <1>1, IdleFacts
  <1>4. Target(w) \in File /\ pc[w][1] \in Stages /\ Placed(w)
    BY <1>0, <1>3, BusyFacts
  <1>5. d \in Data
    BY <1>0, <1>1, <1>4, SourcesType
  <1>6. PICK l \in {<<pc[w][1], "read">>, <<pc[w][1], "close">>} : Goto(w, l)
    BY <1>2
  <1>7. l \in Places /\ l[1] = pc[w][1] /\ l[2] \in {"read", "close"}
    <2>1. <<pc[w][1], "read">> \in Places /\ <<pc[w][1], "close">> \in Places
      BY <1>4, PlacesFacts
    <2> QED BY <1>6, <2>1
  <1>a. Within(w, l)
    BY <1>1, <1>7 DEF Within
  <1>8. Order' /\ pc' \in [Worker -> Places]
    BY <1>0, <1>1, <1>6, <1>a, SameStage
  <1>9. stream' \in [Worker -> Data]
    BY <1>0, <1>2, <1>5 DEF Types
  <1>10. disk' \in [File -> Data] /\ writers' \in [File -> SUBSET Worker]
    <2>1. disk \in [File -> Data] /\ writers \in [File -> SUBSET Worker] /\ {Part, Mixed} \subseteq Data
      BY <1>0, DataFacts DEF Types
    <2>2. writers[Target(w)] \cup {w} \in SUBSET Worker
      BY <1>4, <2>1
    <2> QED BY <1>2, <1>4, <2>1, <2>2
  <1>11. Types'
    BY <1>0, <1>1, <1>8, <1>9, <1>10 DEF Types
  <1> QED BY <1>0, <1>1, <1>8, <1>11 DEF Base, Kept

\* Close and Cut: the command ends and leaves d.
LEMMA LeaveBase ==
    ASSUME Base, NEW w \in Worker, NEW d \in Data, Leave(w, d), spoilt' \subseteq Channel
    PROVE  Base'
  <1>0. Types /\ Order /\ Kept
    BY DEF Base
  <1>1. UNCHANGED <<block, backlog, asked, ans, dirs, job, stream, last, littered, gaveup>>
        /\ pc[w][2] = "close"
    BY DEF Leave
  <1>2. pc[w] # Idle
    BY <1>1, IdleFacts
  <1>3. Target(w) \in File /\ pc[w][1] \in Stages
    BY <1>0, <1>2, BusyFacts
  <1> DEFINE l == IF pc[w][1] = "curl" THEN <<"convert", "open">> ELSE <<pc[w][1], "read">>
  <1>4. Goto(w, l)
    BY DEF Leave
  <1>5. Within(w, l)
    <2>1. <<pc[w][1], "read">> \in Places /\ <<"convert", "open">> \in Places
      BY <1>3, PlacesFacts DEF Stages
    <2>2. CASE pc[w][1] = "curl"
      BY <2>1, <2>2 DEF Within
    <2>3. CASE pc[w][1] # "curl"
      BY <2>1, <2>3 DEF Within
    <2> QED BY <2>2, <2>3
  <1> HIDE DEF l
  <1>6. Order' /\ pc' \in [Worker -> Places]
    BY <1>0, <1>1, <1>4, <1>5, SameStage
  <1>7. disk' \in [File -> Data] /\ writers' \in [File -> SUBSET Worker]
    <2>1. disk \in [File -> Data] /\ writers \in [File -> SUBSET Worker]
      BY <1>0 DEF Types
    <2>2. writers[Target(w)] \ {w} \in SUBSET Worker
      BY <1>3, <2>1
    <2> QED BY <1>3, <2>1, <2>2 DEF Leave
  <1>8. Types'
    BY <1>0, <1>1, <1>6, <1>7 DEF Types
  <1> QED BY <1>0, <1>1, <1>6, <1>8 DEF Base, Kept

LEMMA CloseBase ==
    ASSUME Base, NEW w \in Worker, Close(w) \/ Cut(w)
    PROVE  Base'
  <1>1. CASE Close(w)
    <2>1. Leave(w, stream[w]) /\ spoilt' = spoilt /\ stream[w] \in Data /\ spoilt \subseteq Channel
      BY <1>1 DEF Close, Base, Types
    <2> QED BY <2>1, LeaveBase
  <1>2. CASE Cut(w)
    <2>1. Leave(w, Part) /\ Spoil({job[w].seg}) /\ pc[w][2] = "close"
      BY <1>2 DEF Cut, Leave
    <2>2. pc[w] # Idle
      BY <2>1, IdleFacts
    <2>3. job[w].seg \in Seg /\ spoilt \subseteq Channel
      BY <2>2, BusyFacts DEF Base, Types
    <2>4. spoilt' \subseteq Channel
      BY <2>1, <2>3, SpoilFacts
    <2> QED BY <2>1, <2>4, LeaveBase, DataFacts
  <1> QED BY <1>1, <1>2

LEMMA ReadBase ==
    ASSUME Base, NEW w \in Worker, Read(w)
    PROVE  Base'
  <1>0. Types /\ Order /\ Kept
    BY DEF Base
  <1>1. UNCHANGED <<block, backlog, asked, ans, dirs, disk, writers, job, last, spoilt, littered, gaveup>>
        /\ pc[w][2] = "read" /\ stream' = [stream EXCEPT ![w] = disk[Target(w)]]
    BY DEF Read, ramdisk, history
  <1>2. pc[w] # Idle
    BY <1>1, IdleFacts
  <1>3. Target(w) \in File /\ pc[w][1] \in Stages
    BY <1>0, <1>2, BusyFacts
  <1> DEFINE l == <<pc[w][1], IF pc[w][1] = "convert" /\ Svc(w) = "ts" THEN "rm_flv" ELSE "remove">>
  <1>4. Goto(w, l)
    BY DEF Read
  <1>5. Within(w, l)
    <2>1. <<pc[w][1], "remove">> \in Places /\ <<"convert", "rm_flv">> \in Places
      BY <1>3, PlacesFacts
    <2>2. CASE pc[w][1] = "convert" /\ Svc(w) = "ts"
      BY <2>1, <2>2 DEF Within
    <2>3. CASE ~(pc[w][1] = "convert" /\ Svc(w) = "ts")
      BY <2>1, <2>3 DEF Within
    <2> QED BY <2>2, <2>3
  <1> HIDE DEF l
  <1>6. Order' /\ pc' \in [Worker -> Places]
    BY <1>0, <1>1, <1>4, <1>5, SameStage
  <1>7. stream' \in [Worker -> Data]
    BY <1>0, <1>1, <1>3 DEF Types
  <1>8. Types'
    BY <1>0, <1>1, <1>6, <1>7 DEF Types
  <1> QED BY <1>0, <1>1, <1>6, <1>8 DEF Base, Kept

LEMMA RemoveFlvBase ==
    ASSUME Base, NEW w \in Worker, RemoveFlv(w)
    PROVE  Base'
  <1>0. Types /\ Order /\ Kept
    BY DEF Base
  <1>1. UNCHANGED <<block, backlog, asked, ans, dirs, job, stream, last, spoilt, littered, gaveup>>
        /\ pc[w][2] = "rm_flv" /\ Unlink(<<job[w].seg, "flv">>) /\ Goto(w, <<"convert", "remove">>)
    BY DEF RemoveFlv, history
  <1>2. pc[w] # Idle
    BY <1>1, IdleFacts
  <1>3. <<job[w].seg, "flv">> \in File /\ pc[w][1] = "convert" /\ <<"convert", "remove">> \in Places
    BY <1>0, <1>1, <1>2, BusyFacts, PlacesFacts DEF File, Stages
  <1>a. Within(w, <<"convert", "remove">>)
    BY <1>3 DEF Within
  <1>4. Order' /\ pc' \in [Worker -> Places]
    BY <1>0, <1>1, <1>a, SameStage
  <1>5. disk' \in [File -> Data] /\ writers' \in [File -> SUBSET Worker]
    BY <1>0, <1>1, <1>3, UnlinkFacts
  <1>6. Types'
    BY <1>0, <1>1, <1>4, <1>5 DEF Types
  <1> QED BY <1>0, <1>1, <1>4, <1>6 DEF Base, Kept

LEMMA RemoveBase ==
    ASSUME Base, NEW w \in Worker, Remove(w)
    PROVE  Base'
  <1>0. Types /\ Order /\ Kept
    BY DEF Base
  <1>1. /\ pc[w] # Idle /\ Unlink(Target(w)) /\ (Replies(w) \/ Goes(w))
        /\ UNCHANGED last \/ last' = [last EXCEPT ![w][Ch(w)] = job[w].seg]
    BY <1>0, RemoveFacts
  <1>2. UNCHANGED <<block, backlog, dirs, spoilt, littered, gaveup>> /\ pc[w][2] = "remove"
    BY DEF Remove, history
  <1>3. job[w].seg \in Seg /\ Ch(w) \in Channel /\ Target(w) \in File /\ Placed(w)
    BY <1>0, <1>1, BusyFacts
  <1>4. disk' \in [File -> Data] /\ writers' \in [File -> SUBSET Worker]
    BY <1>0, <1>1, <1>3, UnlinkFacts
  <1>5. /\ last' \in [Worker -> [Channel -> Seg \cup {NoSeg}]]
        /\ \A v \in Worker \ {w} : last'[v] = last[v]
        /\ \A c \in Channel : last'[w][c] \in {last[w][c]} \cup {s \in {job[w].seg} : c = Ch(w)}
    <2>1. last \in [Worker -> [Channel -> Seg \cup {NoSeg}]]
      BY <1>0 DEF Types
    <2> QED BY <1>1, <1>3, <2>1
  <1>6. Kept'
    <2>1. \A s \in {job[w].seg} : ChannelOf[s] = Ch(w)
      BY DEF Ch
    <2> QED BY <1>0, <1>5, <2>1 DEF Kept
  <1>7. CASE Replies(w)
    <2>1. PICK status \in {"200", "404", "500", "502"}, body \in Data : Answer(w, status, body)
      BY <1>7 DEF Replies
    <2>2. Handed(w, status, body)
      BY <1>0, <1>2, <2>1, AnswerFacts
    <2>3. Order'
      BY <1>0, <1>2, <1>5, <2>1, OrderAnswer
    <2>4. Types'
      BY <1>0, <1>2, <1>4, <1>5, <2>2 DEF Types, Handed
    <2> QED BY <1>6, <2>3, <2>4 DEF Base
  <1>8. CASE Goes(w)
    <2>1. PICK l \in {<<"symbol", "open">>, <<"hold", "open">>, <<"last", "ask">>, <<"last", "open">>} :
              /\ Goto(w, l) /\ UNCHANGED <<asked, ans, job, stream, last>>
              /\ Svc(w) # "manifest"
              /\ l = <<"last", "ask">> => Svc(w) = "ts"
              /\ l[1] = "last" => last[w][Ch(w)] # NoSeg
      BY <1>8 DEF Goes
    <2>2. l \in Places /\ l[2] \in {"open", "ask"} /\ l[1] \in {"symbol", "hold", "last"}
          /\ (l[2] = "ask" => l = <<"last", "ask">>)
      <3>1. {<<"symbol", "open">>, <<"hold", "open">>, <<"last", "ask">>, <<"last", "open">>} \subseteq Places
        BY PlacesFacts DEF Stages
      <3>2. l[2] \in {"open", "ask"} /\ l[1] \in {"symbol", "hold", "last"}
            /\ (l[2] = "ask" => l = <<"last", "ask">>)
        BY ONLY <2>1
      <3> QED BY <2>1, <3>1, <3>2
    <2>3. /\ pc' \in [Worker -> Places] /\ pc'[w] = l
          /\ \A v \in Worker \ {w} : pc'[v] = pc[v]
      BY <1>0, <2>1, <2>2, GotoFacts
    <2>4. pc'[w] # Idle /\ pc[w] # <<"last", "wait">>
      BY <1>2, <2>2, <2>3, IdleFacts
    <2>5. last[w][Ch(w)] # NoSeg => last[w][Ch(w)] \in Seg
      BY <1>0, <1>3 DEF Types
    <2>6. Placed(w)'
      BY <1>1, <1>3, <2>1, <2>2, <2>3, <2>4, <2>5 DEF Placed, Svc, Ch
    <2>7. Order'
      BY <1>0, <1>1, <1>2, <2>1, <2>3, <2>4, <2>6, OrderStep
    <2>8. Types'
      BY <1>0, <1>2, <1>4, <2>1, <2>3 DEF Types
    <2> QED BY <1>6, <2>7, <2>8 DEF Base
  <1> QED BY <1>1, <1>7, <1>8

LEMMA AskLastBase ==
    ASSUME Base, NEW w \in Worker, AskLast(w)
    PROVE  Base'
  <1>0. Types /\ Order /\ Kept
    BY DEF Base
  <1>r. PICK r : r = [from |-> w, svc |-> "ts", seg |-> last[w][Ch(w)]]
    OBVIOUS
  <1>1. /\ UNCHANGED <<block, asked, ans, dirs, disk, writers, job, stream, last, spoilt, littered, gaveup>>
        /\ pc[w] = <<"last", "ask">> /\ Goto(w, <<"last", "wait">>)
        /\ backlog' = [backlog EXCEPT !["ts"] = Append(@, r)]
    BY <1>r DEF AskLast, ramdisk, history
  <1>2. pc[w] # Idle /\ pc[w] # <<"last", "wait">> /\ pc[w][1] = "last" /\ pc[w][2] = "ask"
    BY <1>1, IdleFacts
  <1>3. Placed(w) /\ Ch(w) \in Channel
    BY <1>0, <1>2, BusyFacts
  <1>4. last[w][Ch(w)] \in Seg /\ Svc(w) = "ts"
    BY <1>2, <1>3 DEF Placed
  <1>5. ChannelOf[last[w][Ch(w)]] = Ch(w)
    BY <1>0, <1>3, <1>4 DEF Kept
  <1>6. r \in Requests /\ r.from = w /\ r.svc = "ts" /\ ChannelOf[r.seg] = Ch(w)
    BY <1>4, <1>5, <1>r DEF Requests, Services
  <1>7. /\ pc' \in [Worker -> Places] /\ pc'[w] = <<"last", "wait">>
        /\ \A v \in Worker \ {w} : pc'[v] = pc[v]
    BY <1>0, <1>1, PlacesFacts, GotoFacts
  <1>8. /\ backlog' \in [Pools -> Seq(Requests)] /\ "ts" \in Pools
        /\ \A p \in Pools : p # "ts" => backlog'[p] = backlog[p]
        /\ \A i \in DOMAIN backlog'["ts"] :
              \/ i \in DOMAIN backlog["ts"] /\ backlog'["ts"][i] = backlog["ts"][i]
              \/ backlog'["ts"][i] = r /\ i = Len(backlog["ts"]) + 1
    <2>1. backlog \in [Pools -> Seq(Requests)] /\ "ts" \in Pools
      BY <1>0 DEF Types, Pools
    <2>2. backlog["ts"] \in Seq(Requests)
      BY <2>1
    <2>3. Append(backlog["ts"], r) \in Seq(Requests)
          /\ \A i \in DOMAIN Append(backlog["ts"], r) :
                 \/ i \in DOMAIN backlog["ts"] /\ Append(backlog["ts"], r)[i] = backlog["ts"][i]
                 \/ i = Len(backlog["ts"]) + 1 /\ Append(backlog["ts"], r)[i] = r
      BY <1>6, <2>2, AppendFacts
    <2>4. backlog' \in [Pools -> Seq(Requests)] /\ backlog'["ts"] = Append(backlog["ts"], r)
          /\ \A p \in Pools : p # "ts" => backlog'[p] = backlog[p]
      BY <1>1, <2>1, <2>3
    <2> QED BY <2>1, <2>3, <2>4
  <1>9. Types'
    BY <1>0, <1>1, <1>7, <1>8 DEF Types
  <1>10. ASSUME NEW v \in Worker PROVE Placed(v)'
    <2>1. CASE v = w
      <3>1. pc'[w] # Idle /\ pc'[w][1] = "last" /\ pc'[w][2] = "wait"
        BY <1>7, IdleFacts
      <3> QED BY <1>1, <1>2, <1>3, <1>4, <2>1, <3>1 DEF Placed, Svc, Ch
    <2>2. CASE v # w
      BY <1>0, <1>1, <1>7, <2>2 DEF Order, Placed, Svc, Ch
    <2> QED BY <2>1, <2>2
  <1>11. ASSUME NEW e, Waited(e) PROVE Waited(e)' /\ (e.from \in Worker => e.from # w)
    <2>1. e.from \in Worker => /\ e.from # w /\ pc'[e.from] = pc[e.from]
                               /\ job'[e.from] = job[e.from]
      BY <1>1, <1>2, <1>7, <1>11 DEF Waited
    <2> QED BY <1>11, <2>1 DEF Waited, Ch
  <1>12. Waited(r)'
    BY <1>1, <1>6, <1>7 DEF Waited, Ch
  <1>13. \A v \in Worker : Waited(job[v])' /\ (job[v].from \in Worker => job[v].from # w)
    <2> TAKE v \in Worker
    <2>1. PICK e : e = job[v]
      OBVIOUS
    <2>2. Waited(e)' /\ (e.from \in Worker => e.from # w)
      BY <1>0, <1>11, <2>1 DEF Order
    <2> QED BY <1>1, <2>1, <2>2 DEF Waited, Ch
  <1>14. ASSUME NEW p \in Pools PROVE Queued(p)'
    <2> SUFFICES ASSUME NEW i \in DOMAIN backlog'[p]
                 PROVE  Pool(backlog'[p][i].svc) = p /\ Waited(backlog[p][i])'
      BY DEF Queued
    <2>1. PICK e : e = backlog'[p][i]
      OBVIOUS
    <2>2. (e = r /\ p = "ts") \/ (Pool(e.svc) = p /\ Waited(e))
      BY <1>0, <1>8, <2>1 DEF Order, Queued
    <2>3. Pool(e.svc) = p /\ Waited(e)'
      BY <1>6, <1>11, <1>12, <2>2, PoolFacts
    <2> QED BY <2>1, <2>3 DEF Waited, Ch
  <1>15. Once'
    <2>1. Once
      BY <1>0 DEF Order
    <2>2. \A i \in DOMAIN backlog["ts"] : backlog["ts"][i].from # w
      BY <1>0, <1>8, <1>11 DEF Order, Queued
    <2>3. \A i, j \in DOMAIN backlog'["ts"] :
             backlog'["ts"][i].from \in Worker /\ backlog'["ts"][i].from = backlog'["ts"][j].from
                 => i = j
      BY <1>6, <1>8, <2>1, <2>2 DEF Once
    <2>4. \A v \in Worker, i \in DOMAIN backlog'["ts"] :
             job'[v].from \in Worker => job'[v].from # backlog'["ts"][i].from
      BY <1>1, <1>6, <1>8, <1>13, <2>1 DEF Once
    <2> QED BY <1>1, <2>1, <2>3, <2>4 DEF Once
  <1> QED BY <1>0, <1>1, <1>9, <1>10, <1>13, <1>14, <1>15 DEF Base, Order, Kept

\* What Timeout does to the requests: the one w waits for is nobody's now.
LEMMA TimeoutFacts ==
    ASSUME Types, Order, NEW w \in Worker, Timeout(w)
    PROVE  /\ pc[w] = <<"last", "wait">> /\ pc'[w] = <<"last", "open">> /\ stream'[w] = Page
           /\ pc' \in [Worker -> Places] /\ stream' \in [Worker -> Data]
           /\ \A v \in Worker \ {w} : pc'[v] = pc[v] /\ stream'[v] = stream[v]
           /\ job' \in [Worker -> Requests \cup {NoJob}] /\ backlog' \in [Pools -> Seq(Requests)]
           /\ \A v \in Worker : /\ job'[v].svc = job[v].svc /\ job'[v].seg = job[v].seg
                                /\ job'[v].from = IF job[v].from = w THEN Nobody ELSE job[v].from
                                /\ job[v] \in Requests => job'[v] \in Requests
                                /\ job[v] = NoJob => job'[v] = NoJob
           /\ \A p \in Pools : p # "ts" => backlog'[p] = backlog[p]
           /\ DOMAIN backlog'["ts"] = DOMAIN backlog["ts"]
           /\ \A i \in DOMAIN backlog["ts"] :
                 /\ backlog'["ts"][i].svc = backlog["ts"][i].svc
                 /\ backlog'["ts"][i].seg = backlog["ts"][i].seg
                 /\ backlog'["ts"][i].from = IF backlog["ts"][i].from = w THEN Nobody
                                             ELSE backlog["ts"][i].from
  <1>1. /\ pc[w] = <<"last", "wait">> /\ Goto(w, <<"last", "open">>)
        /\ stream' = [stream EXCEPT ![w] = Page]
        /\ backlog' = [backlog EXCEPT !["ts"] =
                          [i \in DOMAIN backlog["ts"] |-> Orphan(backlog["ts"][i], {w})]]
        /\ job' = [v \in Worker |-> Orphan(job[v], {w})]
    BY DEF Timeout
  <1>2. /\ pc' \in [Worker -> Places] /\ pc'[w] = <<"last", "open">>
        /\ \A v \in Worker \ {w} : pc'[v] = pc[v]
    BY <1>1, PlacesFacts, GotoFacts DEF Stages
  <1>3. /\ stream' \in [Worker -> Data] /\ stream'[w] = Page
        /\ \A v \in Worker \ {w} : stream'[v] = stream[v]
    BY <1>1, DataFacts DEF Types
  <1>4. \A r \in Requests : /\ Orphan(r, {w}) \in Requests /\ Orphan(r, {w}).svc = r.svc
                            /\ Orphan(r, {w}).seg = r.seg
                            /\ Orphan(r, {w}).from = IF r.from = w THEN Nobody ELSE r.from
    BY OrphanFacts
  <1>5. Orphan(NoJob, {w}) = NoJob /\ NoJob.from # w
    BY OrphanFacts, JobFacts
  <1>6. job \in [Worker -> Requests \cup {NoJob}] /\ backlog \in [Pools -> Seq(Requests)]
        /\ "ts" \in Pools
    BY DEF Types, Pools
  <1>7. ASSUME NEW v \in Worker
        PROVE  /\ job'[v].svc = job[v].svc /\ job'[v].seg = job[v].seg
               /\ job'[v].from = IF job[v].from = w THEN Nobody ELSE job[v].from
               /\ job[v] \in Requests => job'[v] \in Requests
               /\ job[v] = NoJob => job'[v] = NoJob
    <2>1. job'[v] = Orphan(job[v], {w})
      BY <1>1
    <2>2. CASE job[v] \in Requests
      BY <1>4, <1>5, <2>1, <2>2
    <2>3. CASE job[v] = NoJob /\ job[v] \notin Requests
      BY <1>5, <2>1, <2>3
    <2> QED BY <1>6, <2>2, <2>3
  <1>8. job' \in [Worker -> Requests \cup {NoJob}]
    BY <1>1, <1>4, <1>5, <1>6
  <1> DEFINE q == backlog["ts"]
             o == [i \in DOMAIN q |-> Orphan(q[i], {w})]
  <1>9. q \in Seq(Requests) /\ Len(q) \in Nat /\ DOMAIN q = 1..Len(q) /\ \A i \in DOMAIN q : q[i] \in Requests
    BY <1>6
  <1>10. o \in Seq(Requests)
    <2>1. o \in [1..Len(q) -> Requests]
      BY <1>4, <1>9
    <2> HIDE DEF o
    <2>2. \A n \in Nat : \A f \in [1..n -> Requests] : f \in Seq(Requests)
      BY SMT
    <2> QED BY <1>9, <2>1, <2>2
  <1>11. backlog' \in [Pools -> Seq(Requests)] /\ backlog'["ts"] = o
         /\ \A p \in Pools : p # "ts" => backlog'[p] = backlog[p]
    BY <1>1, <1>6, <1>10
  <1>12. \A i \in DOMAIN q : /\ o[i].svc = q[i].svc /\ o[i].seg = q[i].seg
                             /\ o[i].from = IF q[i].from = w THEN Nobody ELSE q[i].from
    BY <1>4, <1>9
  <1>13. DOMAIN o = DOMAIN q
    OBVIOUS
  <1> HIDE DEF o
  <1>14. DOMAIN backlog'["ts"] = DOMAIN backlog["ts"]
    BY <1>11, <1>13
  <1>15. \A i \in DOMAIN backlog["ts"] :
            /\ backlog'["ts"][i].svc = backlog["ts"][i].svc
            /\ backlog'["ts"][i].seg = backlog["ts"][i].seg
            /\ backlog'["ts"][i].from = IF backlog["ts"][i].from = w THEN Nobody
                                        ELSE backlog["ts"][i].from
    BY <1>11, <1>12
  <1> HIDE DEF q
  <1> QED BY <1>1, <1>2, <1>3, <1>7, <1>8, <1>11, <1>14, <1>15

LEMMA TimeoutBase ==
    ASSUME Base, NEW w \in Worker, Timeout(w)
    PROVE  Base'
  <1>0. Types /\ Order /\ Kept
    BY DEF Base
  <1>1. UNCHANGED <<block, asked, ans, dirs, disk, writers, last, spoilt, littered>> /\ gaveup' = TRUE
    BY DEF Timeout, ramdisk
  <1>2. /\ pc[w] = <<"last", "wait">> /\ pc'[w] = <<"last", "open">>
        /\ pc' \in [Worker -> Places] /\ stream' \in [Worker -> Data]
        /\ \A v \in Worker \ {w} : pc'[v] = pc[v]
        /\ job' \in [Worker -> Requests \cup {NoJob}] /\ backlog' \in [Pools -> Seq(Requests)]
    BY <1>0, TimeoutFacts
  <1>3. \A v \in Worker : /\ job'[v].svc = job[v].svc /\ job'[v].seg = job[v].seg
                          /\ job'[v].from = IF job[v].from = w THEN Nobody ELSE job[v].from
                          /\ job[v] \in Requests => job'[v] \in Requests
                          /\ job[v] = NoJob => job'[v] = NoJob
    BY <1>0, TimeoutFacts
  <1>4. /\ \A p \in Pools : p # "ts" => backlog'[p] = backlog[p]
        /\ DOMAIN backlog'["ts"] = DOMAIN backlog["ts"]
        /\ \A i \in DOMAIN backlog["ts"] :
              /\ backlog'["ts"][i].svc = backlog["ts"][i].svc
              /\ backlog'["ts"][i].seg = backlog["ts"][i].seg
              /\ backlog'["ts"][i].from = IF backlog["ts"][i].from = w THEN Nobody
                                          ELSE backlog["ts"][i].from
    BY <1>0, TimeoutFacts
  <1>5. Types'
    BY <1>0, <1>1, <1>2 DEF Types
  <1>6. ASSUME NEW v \in Worker PROVE Placed(v)'
    <2>1. Placed(v) /\ Svc(v)' = Svc(v) /\ Ch(v)' = Ch(v)
      BY <1>0, <1>3 DEF Order, Svc, Ch
    <2>2. CASE v = w
      <3>1. pc[w] # Idle /\ pc'[w] # Idle /\ pc'[w][1] = "last" /\ pc'[w][2] = "open"
            /\ pc[w][1] = "last" /\ pc[w][2] = "wait"
        BY <1>2, IdleFacts
      <3> QED BY <1>3, <2>1, <2>2, <3>1 DEF Placed
    <2>3. CASE v # w
      <3>1. pc'[v] = pc[v]
        BY <1>2, <2>3
      <3> QED BY <1>1, <1>3, <2>1, <3>1 DEF Placed
    <2> QED BY <2>2, <2>3
  <1>7. ASSUME NEW r, NEW e, Waited(r), e.svc = r.svc, e.seg = r.seg,
               e.from = IF r.from = w THEN Nobody ELSE r.from
        PROVE  Waited(e)'
    <2>1. e.from \in Worker => e.from = r.from /\ e.from # w
      BY <1>7, JobFacts
    <2> QED BY <1>2, <1>3, <1>7, <2>1 DEF Waited, Ch
  <1>8. ASSUME NEW v \in Worker PROVE Waited(job[v])'
    <2>1. PICK e : e = job'[v]
      OBVIOUS
    <2>2. Waited(e)'
      BY <1>0, <1>3, <1>7, <2>1 DEF Order
    <2> QED BY <2>1, <2>2 DEF Waited, Ch
  <1>9. ASSUME NEW p \in Pools PROVE Queued(p)'
    <2> SUFFICES ASSUME NEW i \in DOMAIN backlog'[p]
                 PROVE  Pool(backlog'[p][i].svc) = p /\ Waited(backlog[p][i])'
      BY DEF Queued
    <2>1. PICK e : e = backlog'[p][i]
      OBVIOUS
    <2>2. CASE p = "ts"
      <3>1. PICK r : r = backlog["ts"][i]
        OBVIOUS
      <3>2. Waited(r) /\ Pool(r.svc) = p
        BY <1>0, <1>4, <2>2, <3>1 DEF Order, Queued
      <3>3. Waited(e)' /\ Pool(e.svc) = p
        BY <1>4, <1>7, <2>1, <2>2, <3>1, <3>2
      <3> QED BY <2>1, <3>3 DEF Waited, Ch
    <2>3. CASE p # "ts"
      <3>1. Waited(e) /\ Pool(e.svc) = p /\ e.svc # "ts"
        BY <1>0, <1>4, <2>1, <2>3, PoolFacts DEF Order, Queued
      <3>2. Waited(e)'
        BY <3>1 DEF Waited
      <3> QED BY <2>1, <3>1, <3>2 DEF Waited, Ch
    <2> QED BY <2>2, <2>3
  <1>10. Once'
    <2>1. Once /\ Nobody \notin Worker
      BY <1>0, JobFacts DEF Order
    <2>2. \A v, u \in Worker : job'[v].from \in Worker /\ job'[v].from = job'[u].from => v = u
      BY <1>3, <2>1 DEF Once
    <2>3. \A i, j \in DOMAIN backlog'["ts"] :
             backlog'["ts"][i].from \in Worker /\ backlog'["ts"][i].from = backlog'["ts"][j].from
                 => i = j
      BY <1>4, <2>1 DEF Once
    <2>4. \A v \in Worker, i \in DOMAIN backlog'["ts"] :
             job'[v].from \in Worker => job'[v].from # backlog'["ts"][i].from
      BY <1>3, <1>4, <2>1 DEF Once
    <2> QED BY <2>2, <2>3, <2>4 DEF Once
  <1> QED BY <1>0, <1>1, <1>5, <1>6, <1>8, <1>9, <1>10 DEF Base, Order, Kept

\* What Restart does, process by process.
LEMMA RestartFacts ==
    ASSUME Types, NEW p \in Pools, Restart(p)
    PROVE  /\ UNCHANGED <<block, dirs, disk, gaveup>>
           /\ \A w \in Worker : IF PoolOf[w] = p
                 THEN pc'[w] = Idle /\ job'[w] = NoJob /\ \A c \in Channel : last'[w][c] = NoSeg
                 ELSE pc'[w] = pc[w] /\ job'[w] = job[w] /\ last'[w] = last[w] /\ stream'[w] = stream[w]
           /\ backlog'[p] = <<>> /\ \A q \in Pools : q # p => backlog'[q] = backlog[q]
           /\ \A f \in File, w \in Worker : w \in writers'[f] <=> w \in writers[f] /\ PoolOf[w] # p
           /\ \A f \in File, w \in Worker :
                 disk[f] # Nothing /\ PoolOf[w] = p /\ job[w].seg = f[1]
                     => ChannelOf[f[1]] \in littered' /\ ChannelOf[f[1]] \in spoilt'
           /\ littered \subseteq littered' /\ spoilt \subseteq spoilt'
           /\ littered \subseteq spoilt => littered' \subseteq spoilt'
           /\ \A c \in Client : ans'[c] = ans[c] \/ (ans'[c].body = Page /\ ans'[c].block = "restart")
           /\ Types'
  <1> DEFINE dead == {w \in Worker : PoolOf[w] = p}
             open == {f \in File : disk[f] # Nothing /\ \E w \in dead : job[w].seg = f[1]}
             lost == {job[w] : w \in dead} \cup {backlog[p][i] : i \in DOMAIN backlog[p]}
  <1>1. /\ UNCHANGED <<block, dirs, disk, gaveup>>
        /\ pc' = [w \in Worker |-> IF w \in dead THEN Idle ELSE pc[w]]
        /\ stream' = [w \in Worker |-> IF w \in dead THEN Nothing ELSE stream[w]]
        /\ job' = [w \in Worker |-> IF w \in dead THEN NoJob ELSE job[w]]
        /\ last' = [w \in Worker |-> IF w \in dead THEN [c \in Channel |-> NoSeg] ELSE last[w]]
        /\ backlog' = [backlog EXCEPT ![p] = <<>>]
        /\ writers' = [f \in File |-> writers[f] \ dead]
    BY DEF Restart
  <1>2. littered' = littered \cup {ChannelOf[f[1]] : f \in open} /\ Spoil({f[1] : f \in open})
    BY DEF Restart
  <1>3. /\ asked' = asked \ {r.from : r \in lost}
        /\ ans' = [c \in Client |->
                     IF \E r \in lost : r.from = c
                     THEN LET r == CHOOSE q \in lost : q.from = c
                          IN  [svc |-> r.svc, seg |-> r.seg, status |-> "502",
                               body |-> Page, block |-> "restart"]
                     ELSE ans[c]]
    BY DEF Restart
  <1>4. {f[1] : f \in open} \in SUBSET Seg /\ \A f \in open : ChannelOf[f[1]] \in Channel
    BY JobFacts DEF File
  <1>5. spoilt' \subseteq Channel /\ spoilt \subseteq spoilt' /\ \A f \in open : ChannelOf[f[1]] \in spoilt'
    <2>1. PICK S : S = {f[1] : f \in open}
      OBVIOUS
    <2>2. spoilt' \subseteq Channel /\ spoilt \subseteq spoilt' /\ \A s \in S : ChannelOf[s] \in spoilt'
      BY <1>2, <1>4, <2>1, SpoilFacts DEF Types
    <2> QED BY <2>1, <2>2
  <1>6. littered' \subseteq Channel /\ littered \subseteq littered'
        /\ (\A f \in open : ChannelOf[f[1]] \in littered')
        /\ (littered \subseteq spoilt => littered' \subseteq spoilt')
    BY <1>2, <1>4, <1>5 DEF Types
  <1>7. \A w \in Worker : IF PoolOf[w] = p
              THEN pc'[w] = Idle /\ job'[w] = NoJob /\ \A c \in Channel : last'[w][c] = NoSeg
              ELSE pc'[w] = pc[w] /\ job'[w] = job[w] /\ last'[w] = last[w] /\ stream'[w] = stream[w]
    BY <1>1
  <1>8. backlog \in [Pools -> Seq(Requests)] /\ backlog' \in [Pools -> Seq(Requests)]
        /\ backlog'[p] = <<>> /\ \A q \in Pools : q # p => backlog'[q] = backlog[q]
    BY <1>1 DEF Types
  <1>9. \A f \in File, w \in Worker : w \in writers'[f] <=> w \in writers[f] /\ PoolOf[w] # p
    BY <1>1
  <1>10. \A f \in File, w \in Worker : disk[f] # Nothing /\ PoolOf[w] = p /\ job[w].seg = f[1]
             => f \in open
    OBVIOUS
  <1>11. Types'
    <2>1. pc' \in [Worker -> Places] /\ stream' \in [Worker -> Data]
      BY <1>1, PlacesFacts, DataFacts DEF Types
    <2>2. job' \in [Worker -> Requests \cup {NoJob}]
      BY <1>1 DEF Types
    <2>3. last' \in [Worker -> [Channel -> Seg \cup {NoSeg}]]
      BY <1>1 DEF Types
    <2>4. writers' \in [File -> SUBSET Worker]
      BY <1>1 DEF Types
    <2>5. lost \subseteq Jobs
      <3>1. \A w \in dead : job[w] \in Jobs
        BY JobFacts DEF Types
      <3>2. \A i \in DOMAIN backlog[p] : backlog[p][i] \in Jobs
        <4>1. backlog[p] \in Seq(Requests)
          BY <1>8
        <4> QED BY <4>1, JobFacts
      <3> QED BY <3>1, <3>2
    <2>6. asked' \subseteq Client
      BY <1>3 DEF Types
    <2> HIDE DEF lost
    <2>7. ASSUME NEW c \in Client, \E r \in lost : r.from = c
          PROVE  LET r == CHOOSE q \in lost : q.from = c
                 IN  [svc |-> r.svc, seg |-> r.seg, status |-> "502",
                      body |-> Page, block |-> "restart"] \in Answers
      <3>1. PICK r : r = CHOOSE q \in lost : q.from = c
        OBVIOUS
      <3>2. r \in Jobs
        BY <2>5, <2>7, <3>1
      <3>3. r.svc \in Services /\ r.seg \in Seg \cup {NoSeg} /\ Page \in Data
        BY <3>2, DataFacts DEF Jobs
      <3> QED BY <3>1, <3>3 DEF Answers
    <2>8. ans' \in [Client -> Answers]
      <3>1. \A c \in Client : ans[c] \in Answers
        BY DEF Types
      <3> QED BY <1>3, <2>7, <3>1
    <2> QED BY <1>1, <1>5, <1>6, <1>8, <2>1, <2>2, <2>3, <2>4, <2>6, <2>8 DEF Types
  <1>12. \A c \in Client : ans'[c] = ans[c] \/ (ans'[c].body = Page /\ ans'[c].block = "restart")
    BY <1>3
  <1> HIDE DEF dead, open, lost
  <1> QED BY <1>1, <1>5, <1>6, <1>7, <1>8, <1>9, <1>10, <1>11, <1>12

LEMMA RestartBase ==
    ASSUME Base, NEW p \in Pools, Restart(p)
    PROVE  Base'
  <1>0. Types /\ Order /\ Kept
    BY DEF Base
  <1>1. Types'
    BY <1>0, RestartFacts
  <1>2. \A w \in Worker : IF PoolOf[w] = p
              THEN pc'[w] = Idle /\ job'[w] = NoJob /\ \A c \in Channel : last'[w][c] = NoSeg
              ELSE pc'[w] = pc[w] /\ job'[w] = job[w] /\ last'[w] = last[w]
    BY <1>0, RestartFacts
  <1>3. backlog'[p] = <<>> /\ \A q \in Pools : q # p => backlog'[q] = backlog[q]
    BY <1>0, RestartFacts
  <1>4. Kept'
    BY <1>0, <1>2, JobFacts DEF Kept
  <1>5. \A w \in Worker : Placed(w)'
    BY <1>0, <1>2 DEF Order, Placed, Svc, Ch
  \* A request of a process is with the pool of that process.
  <1>6. ASSUME NEW r, Waited(r), Pool(r.svc) # p PROVE Waited(r)'
    <2> SUFFICES ASSUME r.from \in Worker PROVE Waited(r)'
      BY DEF Waited
    <2>1. pc[r.from] = <<"last", "wait">> /\ r.svc = "ts" /\ ChannelOf[r.seg] = Ch(r.from)
      BY <1>6 DEF Waited
    <2>2. pc[r.from] # Idle /\ pc[r.from][2] = "wait"
      BY <2>1, IdleFacts
    <2>3. PoolOf[r.from] = "ts" /\ "ts" # p
      BY <1>0, <1>6, <2>1, <2>2, PoolFacts DEF Order, Placed
    <2> QED BY <1>2, <2>1, <2>3 DEF Waited, Ch
  <1>7. ASSUME NEW w \in Worker PROVE Waited(job[w])'
    <2>1. CASE job'[w] = NoJob
      BY <2>1, JobFacts DEF Waited
    <2>2. CASE job'[w] # NoJob
      <3>1. PICK r : r = job[w]
        OBVIOUS
      <3>2. PoolOf[w] # p /\ job'[w] = r /\ job[w] # NoJob
        BY <1>2, <2>2, <3>1
      <3>3. Waited(r) /\ Pool(r.svc) # p
        BY <1>0, <3>1, <3>2 DEF Order, Placed, Svc
      <3>4. Waited(r)'
        BY <1>6, <3>3
      <3> QED BY <3>2, <3>4 DEF Waited, Ch
    <2> QED BY <2>1, <2>2
  <1>8. ASSUME NEW q \in Pools PROVE Queued(q)'
    <2> SUFFICES ASSUME NEW i \in DOMAIN backlog'[q]
                 PROVE  Pool(backlog'[q][i].svc) = q /\ Waited(backlog[q][i])'
      BY DEF Queued
    <2>1. q # p /\ backlog'[q] = backlog[q]
      BY <1>3
    <2>2. PICK r : r = backlog[q][i]
      OBVIOUS
    <2>3. Pool(r.svc) = q /\ Waited(r)
      BY <1>0, <2>1, <2>2 DEF Order, Queued
    <2>4. Waited(r)'
      BY <1>6, <2>1, <2>3
    <2> QED BY <2>1, <2>2, <2>3, <2>4 DEF Waited, Ch
  <1>9. Once'
    <2>1. Once /\ "ts" \in Pools /\ NoJob.from \notin Worker
      BY <1>0, JobFacts DEF Order, Pools
    <2>2. \A w \in Worker : job'[w].from \in Worker => job'[w] = job[w]
      BY <1>2, <2>1
    <2>3. \A i \in DOMAIN backlog'["ts"] : i \in DOMAIN backlog["ts"] /\ backlog'["ts"][i] = backlog["ts"][i]
      BY <1>3, <2>1
    <2> QED BY <2>1, <2>2, <2>3 DEF Once
  <1> QED BY <1>1, <1>4, <1>5, <1>7, <1>8, <1>9 DEF Base, Order

LEMMA BaseNext == Base /\ [Next]_vars => Base'
  <1> SUFFICES ASSUME Base, [Next]_vars PROVE Base'
    OBVIOUS
  <1>1. ASSUME NEW w \in Worker, Work(w) \/ Cut(w) PROVE Base'
    BY <1>1, AcceptBase, MkdirBase, OpenBase, CloseBase, ReadBase, RemoveFlvBase, RemoveBase,
       AskLastBase, TimeoutBase DEF Work
  <1>2. CASE UNCHANGED vars
    BY <1>2, OrderFrame DEF vars, ramdisk, process, history, Base, Types, Kept
  <1> QED BY <1>1, <1>2, MoveBase, RequestBase, RestartBase DEF Next, Pools

LEMMA BaseHolds == Spec => []Base
  BY BaseInit, BaseNext, PTL DEF Spec

\* Type correctness of the services, their ramdisk and their queues.
THEOREM TypeCorrect == Spec => []TypeOK
  <1>1. Base => TypeOK
    <2> SUFFICES ASSUME Base PROVE TypeOK
      OBVIOUS
    <2>1. Places \subseteq {"idle", "curl", "convert", "symbol", "hold", "last", "meta"} \X Steps
      <3> SUFFICES ASSUME NEW l \in Places
                   PROVE  l \in {"idle", "curl", "convert", "symbol", "hold", "last", "meta"} \X Steps
        OBVIOUS
      <3>1. Idle \in {"idle", "curl", "convert", "symbol", "hold", "last", "meta"} \X Steps
        BY DEF Idle, Steps
      <3>2. CASE l # Idle
        <4>1. l = <<l[1], l[2]>> /\ l[1] \in Stages
              /\ l[2] \in {"mkdir", "open", "close", "read", "rm_flv", "remove", "ask", "wait"}
          BY <3>2, PlacesFacts
        <4> QED BY <4>1 DEF Steps, Stages
      <3> QED BY <3>1, <3>2
    <2>2. backlog \in [{"ts", "fragment", "manifest"} -> Seq(Jobs)]
      <3>1. Seq(Requests) \subseteq Seq(Jobs)
        BY JobFacts, SeqMonotonic
      <3> QED BY <3>1 DEF Base, Types, Pools
    <2>3. job \in [Worker -> Jobs]
      BY JobFacts DEF Base, Types
    <2>4. pc \in [Worker -> {"idle", "curl", "convert", "symbol", "hold", "last", "meta"} \X Steps]
      BY <2>1 DEF Base, Types
    <2> QED BY <2>2, <2>3, <2>4 DEF Base, Types, TypeOK
  <1> QED BY <1>1, BaseHolds, PTL

----------------------------------------------------------------------------
(* No picture of another channel.                                          *)

\* d is nothing of a channel other than c.
Of(d, c) == d[2] \in Seg => ChannelOf[d[2]] = c

Apart ==
    /\ \A f \in File : Of(disk[f], ChannelOf[f[1]])
    /\ \A w \in Worker : pc[w] # Idle => Of(stream[w], Ch(w))

LEMMA OfNone ==
    \A c : Of(Nothing, c) /\ Of(Page, c) /\ Of(Part, c) /\ Of(Mixed, c)
  BY MarkFacts, JobFacts DEF Of

LEMMA ConvertedOf ==
    ASSUME NEW d \in Data, NEW e \in Converted(d), NEW c, Of(d, c)
    PROVE  Of(e, c)
  <1>1. e \in {Nothing, Part} \/ (d[1] = "flv" /\ e = <<"media", d[2]>>)
    BY DEF Converted
  <1>2. d[1] = "flv" /\ e = <<"media", d[2]>> => e[2] = d[2]
    OBVIOUS
  <1> QED BY <1>1, <1>2, OfNone DEF Of

LEMMA SourcesOf ==
    ASSUME Base, Apart, NEW w \in Worker, pc[w][2] = "open", NEW d \in Sources(w)
    PROVE  Of(d, Ch(w))
  <1> DEFINE s == job[w].seg
  <1>0. pc[w] # Idle
    BY IdleFacts
  <1>1. s \in Seg /\ Ch(w) = ChannelOf[s] /\ Ch(w) \in Channel /\ pc[w][1] \in Stages /\ Placed(w)
    BY <1>0, BusyFacts DEF Base, Ch
  <1>2. \A t \in Seg : ChannelOf[t] = Ch(w) => Of(Fetched(t), Ch(w)) /\ Fetched(t) \in Data
    BY OfNone, FetchedType DEF Fetched, Of, Base
  <1>3. CASE pc[w][1] \in {"curl", "symbol", "meta"}
    BY <1>1, <1>2, <1>3 DEF Sources
  <1>4. CASE pc[w][1] = "hold"
    <2>1. d \in {<<"symbol", s>>, Page}
      BY <1>4 DEF Sources
    <2> QED BY <1>1, <2>1, OfNone DEF Of
  <1>5. CASE pc[w][1] = "convert" /\ Svc(w) = "ts"
    <2>1. <<s, "flv">> \in File
      BY <1>1 DEF File
    <2>2. disk[<<s, "flv">>] \in Data /\ Of(disk[<<s, "flv">>], Ch(w))
      BY <1>1, <2>1 DEF Base, Types, Apart
    <2>3. d \in Converted(disk[<<s, "flv">>])
      BY <1>5 DEF Sources
    <2> QED BY <2>2, <2>3, ConvertedOf
  <1>6. CASE pc[w][1] = "convert" /\ Svc(w) # "ts"
    <2>1. d \in Converted(Fetched(s))
      BY <1>6 DEF Sources
    <2> QED BY <1>1, <1>2, <2>1, ConvertedOf
  <1>7. CASE pc[w][1] = "last" /\ Svc(w) = "ts"
    BY <1>0, <1>7 DEF Sources, Apart
  <1>8. CASE pc[w][1] = "last" /\ Svc(w) # "ts"
    <2>1. last[w][Ch(w)] \in Seg /\ ChannelOf[last[w][Ch(w)]] = Ch(w)
      BY <1>0, <1>1, <1>8 DEF Placed, Base, Kept
    <2>2. d \in Converted(Fetched(last[w][Ch(w)]))
      BY <1>8 DEF Sources
    <2> QED BY <1>2, <2>1, <2>2, ConvertedOf
  <1> QED BY <1>1, <1>3, <1>4, <1>5, <1>6, <1>7, <1>8 DEF Stages

\* An answer with bytes of the channel.
LEMMA ApartAnswer ==
    ASSUME Base, Apart, ChannelsApart, NEW w \in Worker, pc[w] # Idle, NEW status, NEW body \in Data,
           Handed(w, status, body), Of(body, Ch(w)),
           \A f \in File : disk'[f] = disk[f] \/ disk'[f] = Nothing
    PROVE  Apart' /\ ChannelsApart'
  <1>1. \A f \in File : Of(disk'[f], ChannelOf[f[1]])
    BY OfNone DEF Apart
  <1>2. ASSUME NEW v \in Worker, pc'[v] # Idle PROVE Of(stream'[v], Ch(v)')
    <2>1. v # w /\ job'[v] = job[v]
      BY <1>2 DEF Handed
    <2>2. CASE v # job[w].from
      BY <1>2, <2>1, <2>2 DEF Handed, Apart, Ch
    <2>3. CASE v = job[w].from
      <3>1. stream'[v] = body
        BY <2>1, <2>3 DEF Handed
      <3>2. Waited(job[w])
        BY DEF Base, Order
      <3>3. Ch(v) = Ch(w)
        BY <2>3, <3>2 DEF Waited, Ch
      <3> QED BY <2>1, <3>1, <3>3 DEF Ch
    <2> QED BY <2>2, <2>3
  <1>3. ASSUME NEW c \in Client, ans'[c].body[2] \in Seg
        PROVE  ChannelOf[ans'[c].body[2]] = ChannelOf[ans'[c].seg]
    <2>1. CASE c = job[w].from
      <3>1. ans'[c] = [svc |-> Svc(w), seg |-> job[w].seg, status |-> status,
                       body |-> body, block |-> block[job[w].seg]]
        BY <2>1 DEF Handed
      <3>2. ans'[c].body = body /\ ans'[c].seg = job[w].seg
        BY <3>1
      <3> QED BY <1>3, <3>2 DEF Of, Ch
    <2>2. CASE c # job[w].from
      BY <1>3, <2>2 DEF Handed, ChannelsApart
    <2> QED BY <2>1, <2>2
  <1> QED BY <1>1, <1>2, <1>3 DEF Apart, ChannelsApart

LEMMA ApartNext ==
    ASSUME Base, Base', Apart, ChannelsApart, [Next]_vars
    PROVE  Apart' /\ ChannelsApart'
  <1> USE DEF Base
  \* A step without an answer.
  <1>f. ASSUME \A c \in Client : ans'[c].body = ans[c].body /\ ans'[c].seg = ans[c].seg,
               \A f \in File : Of(disk'[f], ChannelOf[f[1]]),
               \A w \in Worker : pc'[w] # Idle => Of(stream'[w], Ch(w)')
        PROVE  Apart' /\ ChannelsApart'
    BY <1>f DEF Apart, ChannelsApart
  <1>d. \A f \in File : Of(disk[f], ChannelOf[f[1]])
    BY DEF Apart
  <1>s. ASSUME UNCHANGED <<pc, job, stream>> PROVE \A w \in Worker : pc'[w] # Idle => Of(stream'[w], Ch(w)')
    BY <1>s DEF Apart, Ch
  <1>1. ASSUME NEW s \in Seg, Move(s) PROVE Apart' /\ ChannelsApart'
    BY <1>1, <1>f, <1>d, <1>s DEF Move, ramdisk, process
  <1>2. ASSUME NEW a \in Ask, Request(a) PROVE Apart' /\ ChannelsApart'
    <2>1. UNCHANGED <<disk, pc, job, stream>> /\ ans' = [ans EXCEPT ![a.from] = NoAnswer]
      BY <1>2 DEF Request, ramdisk, process
    <2>2. Apart'
      BY <1>d, <1>s, <2>1 DEF Apart
    <2>3. \A c \in Client : ans'[c] = ans[c] \/ ans'[c] = NoAnswer
      BY <2>1 DEF Types
    <2>4. NoAnswer.body[2] \notin Seg
      BY MarkFacts, JobFacts DEF NoAnswer
    <2>5. ChannelsApart'
      BY <2>3, <2>4 DEF ChannelsApart
    <2> QED BY <2>2, <2>5
  <1>3. ASSUME NEW w \in Worker, Accept(w) PROVE Apart' /\ ChannelsApart'
    <2>1. PICK r : Taken(w, r)
      BY <1>3, AcceptFacts
    <2>2. UNCHANGED <<disk, ans>>
      BY <1>3 DEF Accept, ramdisk
    <2>3. \A v \in Worker : pc'[v] # Idle => Of(stream'[v], Ch(v)')
      BY <2>1, OfNone DEF Taken, Apart, Ch
    <2> QED BY <1>f, <1>d, <2>2, <2>3
  <1>4. ASSUME NEW w \in Worker, Mkdir(w) PROVE Apart' /\ ChannelsApart'
    <2>1. UNCHANGED disk /\ pc[w][2] = "mkdir"
      BY <1>4 DEF Mkdir
    <2>2. pc[w] # Idle
      BY <2>1, IdleFacts
    <2>3. CASE Ch(w) \in dirs
      <3>1. Answer(w, "500", Page) /\ Page \in Data
        BY <1>4, <2>3, DataFacts DEF Mkdir
      <3>2. Handed(w, "500", Page)
        BY <2>1, <3>1, AnswerFacts
      <3> QED BY <2>1, <2>2, <3>1, <3>2, ApartAnswer, OfNone
    <2>4. CASE Ch(w) \notin dirs
      <3>1. UNCHANGED <<ans, job, stream>> /\ pc' = [pc EXCEPT ![w] = <<pc[w][1], "open">>]
        BY <1>4, <2>4 DEF Mkdir, Goto
      <3>2. \A v \in Worker : pc'[v] # Idle => pc[v] # Idle
        BY <2>2, <3>1 DEF Types
      <3>3. \A v \in Worker : pc'[v] # Idle => Of(stream'[v], Ch(v)')
        BY <3>1, <3>2 DEF Apart, Ch
      <3> QED BY <1>f, <1>d, <2>1, <3>1, <3>3
    <2> QED BY <2>3, <2>4
  <1>5. ASSUME NEW w \in Worker, Open(w) PROVE Apart' /\ ChannelsApart'
    <2>1. UNCHANGED <<ans, job>> /\ pc[w][2] = "open"
      BY <1>5 DEF Open
    <2>2. pc[w] # Idle
      BY <2>1, IdleFacts
    <2>3. PICK d \in Sources(w) : /\ stream' = [stream EXCEPT ![w] = d]
                                   /\ \E l : Goto(w, l)
                                   /\ \/ UNCHANGED disk
                                      \/ disk' = [disk EXCEPT ![Target(w)] =
                                                    IF writers[Target(w)] = {} THEN Part ELSE Mixed]
      BY <1>5 DEF Open
    <2>4. Of(d, Ch(w))
      BY <2>1, SourcesOf
    <2>5. \A v \in Worker : v # w => pc'[v] = pc[v] /\ stream'[v] = stream[v]
      BY <2>3 DEF Goto, Types
    <2>6. stream'[w] = d
      BY <2>3 DEF Types
    <2>7. \A v \in Worker : pc'[v] # Idle => Of(stream'[v], Ch(v)')
      BY <2>1, <2>4, <2>5, <2>6 DEF Apart, Ch
    <2>8. \A f \in File : disk'[f] \in {disk[f], Part, Mixed}
      BY <2>3 DEF Types
    <2>9. \A f \in File : Of(disk'[f], ChannelOf[f[1]])
      BY <1>d, <2>8, OfNone
    <2> QED BY <1>f, <2>1, <2>7, <2>9
  <1>6. ASSUME NEW w \in Worker, Close(w) \/ Cut(w) PROVE Apart' /\ ChannelsApart'
    <2>1. PICK d \in {stream[w], Part} : Leave(w, d)
      BY <1>6 DEF Close, Cut
    <2>2. UNCHANGED <<ans, job, stream>> /\ pc[w][2] = "close"
      BY <2>1 DEF Leave
    <2>3. pc[w] # Idle
      BY <2>2, IdleFacts
    <2>4. Target(w) \in File /\ Target(w)[1] = job[w].seg
      BY <2>3, BusyFacts
    <2>5. \A v \in Worker : pc'[v] # Idle => pc[v] # Idle
      BY <2>1, <2>3 DEF Types, Leave, Goto
    <2>6. \A v \in Worker : pc'[v] # Idle => Of(stream'[v], Ch(v)')
      BY <2>2, <2>5 DEF Apart, Ch
    <2>7. Of(d, Ch(w))
      BY <2>1, <2>3, OfNone DEF Apart
    <2>8. \A f \in File : disk'[f] = disk[f] \/ (f = Target(w) /\ disk'[f] = d)
      BY <2>1, <2>4 DEF Leave, Types
    <2>9. \A f \in File : Of(disk'[f], ChannelOf[f[1]])
      BY <1>d, <2>4, <2>7, <2>8 DEF Ch
    <2> QED BY <1>f, <2>2, <2>6, <2>9
  <1>7. ASSUME NEW w \in Worker, Read(w) PROVE Apart' /\ ChannelsApart'
    <2>1. UNCHANGED <<ans, job, disk>> /\ pc[w][2] = "read"
          /\ stream' = [stream EXCEPT ![w] = disk[Target(w)]]
      BY <1>7 DEF Read, ramdisk
    <2>2. pc[w] # Idle
      BY <2>1, IdleFacts
    <2>3. Target(w) \in File /\ Target(w)[1] = job[w].seg
      BY <2>2, BusyFacts
    <2>4. Of(disk[Target(w)], Ch(w))
      BY <1>d, <2>3 DEF Ch
    <2>5. \A v \in Worker : v # w => pc'[v] = pc[v] /\ stream'[v] = stream[v]
      BY <1>7 DEF Read, Goto, Types
    <2>6. stream'[w] = disk[Target(w)]
      BY <2>1 DEF Types
    <2>7. \A v \in Worker : pc'[v] # Idle => Of(stream'[v], Ch(v)')
      BY <2>1, <2>4, <2>5, <2>6 DEF Apart, Ch
    <2> QED BY <1>f, <1>d, <2>1, <2>7
  <1>8. ASSUME NEW w \in Worker, RemoveFlv(w) PROVE Apart' /\ ChannelsApart'
    <2>1. UNCHANGED <<ans, job, stream>> /\ pc[w][2] = "rm_flv" /\ Unlink(<<job[w].seg, "flv">>)
      BY <1>8 DEF RemoveFlv
    <2>2. pc[w] # Idle
      BY <2>1, IdleFacts
    <2>3. \A v \in Worker : pc'[v] # Idle => pc[v] # Idle
      BY <1>8, <2>2 DEF RemoveFlv, Goto, Types
    <2>4. \A v \in Worker : pc'[v] # Idle => Of(stream'[v], Ch(v)')
      BY <2>1, <2>3 DEF Apart, Ch
    <2>5. <<job[w].seg, "flv">> \in File
      BY <2>2, BusyFacts DEF File
    <2>6. \A f \in File : Of(disk'[f], ChannelOf[f[1]])
      BY <1>d, <2>1, <2>5, UnlinkFacts, OfNone
    <2> QED BY <1>f, <2>1, <2>4, <2>6
  <1>9. ASSUME NEW w \in Worker, Remove(w) PROVE Apart' /\ ChannelsApart'
    <2>1. pc[w] # Idle /\ Unlink(Target(w)) /\ (Replies(w) \/ Goes(w))
      BY <1>9, RemoveFacts
    <2>2. Target(w) \in File /\ pc[w][2] = "remove"
      BY <1>9, <2>1, BusyFacts DEF Remove
    <2>3. \A f \in File : disk'[f] = disk[f] \/ disk'[f] = Nothing
      BY <2>1, <2>2, UnlinkFacts
    <2>4. CASE Replies(w)
      <3>1. PICK status \in {"200", "404", "500", "502"}, body \in Data :
                Answer(w, status, body) /\ body[2] \in {NoSeg, stream[w][2]}
        BY <2>4 DEF Replies
      <3>2. Handed(w, status, body)
        BY <2>2, <3>1, AnswerFacts
      <3>3. Of(stream[w], Ch(w)) /\ NoSeg \notin Seg
        BY <2>1, JobFacts DEF Apart
      <3>4. Of(body, Ch(w))
        BY <3>1, <3>3 DEF Of
      <3> QED BY <2>1, <2>3, <3>1, <3>2, <3>4, ApartAnswer
    <2>5. CASE Goes(w)
      <3>1. PICK l : Goto(w, l) /\ UNCHANGED <<ans, job, stream>>
        BY <2>5 DEF Goes
      <3>2. \A v \in Worker : pc'[v] # Idle => pc[v] # Idle
        BY <2>1, <3>1 DEF Goto, Types
      <3>3. \A v \in Worker : pc'[v] # Idle => Of(stream'[v], Ch(v)')
        BY <3>1, <3>2 DEF Apart, Ch
      <3>4. \A f \in File : Of(disk'[f], ChannelOf[f[1]])
        BY <1>d, <2>3, OfNone
      <3> QED BY <1>f, <3>1, <3>3, <3>4
    <2> QED BY <2>1, <2>4, <2>5
  <1>10. ASSUME NEW w \in Worker, AskLast(w) PROVE Apart' /\ ChannelsApart'
    <2>1. UNCHANGED <<ans, job, stream, disk>> /\ Goto(w, <<"last", "wait">>) /\ pc[w] = <<"last", "ask">>
      BY <1>10 DEF AskLast, ramdisk
    <2>2. pc[w] # Idle
      BY <2>1, IdleFacts
    <2>3. \A v \in Worker : pc'[v] # Idle => pc[v] # Idle
      BY <2>1, <2>2 DEF Goto, Types
    <2>4. \A v \in Worker : pc'[v] # Idle => Of(stream'[v], Ch(v)')
      BY <2>1, <2>3 DEF Apart, Ch
    <2> QED BY <1>f, <1>d, <2>1, <2>4
  <1>11. ASSUME NEW w \in Worker, Timeout(w) PROVE Apart' /\ ChannelsApart'
    <2>1. UNCHANGED <<ans, disk>>
      BY <1>11 DEF Timeout, ramdisk
    <2>2. /\ stream'[w] = Page
          /\ \A v \in Worker \ {w} : pc'[v] = pc[v] /\ stream'[v] = stream[v]
          /\ \A v \in Worker : job'[v].seg = job[v].seg
      BY <1>11, TimeoutFacts
    <2>3. \A v \in Worker : pc'[v] # Idle => Of(stream'[v], Ch(v)')
      BY <2>2, OfNone DEF Apart, Ch
    <2> QED BY <1>f, <1>d, <2>1, <2>3
  <1>12. ASSUME NEW p \in Pools, Restart(p) PROVE Apart' /\ ChannelsApart'
    <2>1. /\ UNCHANGED disk
          /\ \A w \in Worker : IF PoolOf[w] = p THEN pc'[w] = Idle
                 ELSE pc'[w] = pc[w] /\ job'[w] = job[w] /\ stream'[w] = stream[w]
          /\ \A c \in Client : ans'[c] = ans[c] \/ (ans'[c].body = Page /\ ans'[c].block = "restart")
      BY <1>12, RestartFacts
    <2>2. Apart'
      BY <1>d, <2>1 DEF Apart, Ch
    <2>3. Page[2] \notin Seg
      BY MarkFacts, JobFacts
    <2>4. ChannelsApart'
      BY <2>1, <2>3 DEF ChannelsApart
    <2> QED BY <2>2, <2>4
  <1>13. CASE UNCHANGED vars
    BY <1>13, <1>f, <1>d, <1>s DEF vars, ramdisk, process
  <1>14. ASSUME NEW w \in Worker, Work(w) \/ Cut(w) PROVE Apart' /\ ChannelsApart'
    BY <1>14, <1>3, <1>4, <1>5, <1>6, <1>7, <1>8, <1>9, <1>10, <1>11 DEF Work
  <1> QED BY <1>1, <1>2, <1>12, <1>13, <1>14 DEF Next, Pools

\* Whatever the processes do to each other's files, and whatever is restarted,
\* timed out or broken off: a viewer gets no picture of another channel.
THEOREM NoOtherChannel == Spec => []ChannelsApart
  <1>1. Init => Apart /\ ChannelsApart
    <2> SUFFICES ASSUME Init PROVE Apart /\ ChannelsApart
      OBVIOUS
    <2>1. Apart
      BY OfNone DEF Init, Apart
    <2>2. NoAnswer.body[2] \notin Seg /\ \A c \in Client : ans[c] = NoAnswer
      BY MarkFacts, JobFacts DEF NoAnswer, Init
    <2> QED BY <2>1, <2>2 DEF ChannelsApart
  <1>2. Base /\ Base' /\ Apart /\ ChannelsApart /\ [Next]_vars => (Apart /\ ChannelsApart)'
    BY ApartNext
  <1> QED BY <1>1, <1>2, BaseHolds, PTL DEF Spec

----------------------------------------------------------------------------
(* The ramdisk does not fill up.                                           *)

\* Process w is going to remove file f.
Owes(w, f) ==
    /\ pc[w] # Idle /\ f[1] = job[w].seg
    /\ \/ f = Target(w) /\ pc[w][2] \in {"close", "read", "rm_flv", "remove"}
       \/ /\ Svc(w) = "ts" /\ f[2] = "flv"
          /\ pc[w][1] = "convert" /\ pc[w][2] \in {"open", "close", "read", "rm_flv"}

Swept ==
    \A f \in File : disk[f] # Nothing =>
        (\E w \in Worker : Owes(w, f)) \/ ChannelOf[f[1]] \in littered

LEMMA OwesSame ==
    ASSUME NEW v \in Worker, pc'[v] = pc[v], job'[v].seg = job[v].seg, job'[v].svc = job[v].svc
    PROVE  Target(v)' = Target(v) /\ \A f : Owes(v, f)' <=> Owes(v, f)
  BY DEF Owes, Target, Svc

\* A process that neither writes nor removes owes nothing.
LEMMA OwesNone ==
    ASSUME NEW v \in Worker, pc[v] = Idle \/ pc[v][2] \in {"mkdir", "ask", "wait"}
    PROVE  \A f : ~Owes(v, f)
  BY DEF Owes

\* A step of w: what it owed it still owes, or has removed; what it has
\* written it owes.
LEMMA SweptStep ==
    ASSUME Swept, littered \subseteq littered', NEW w \in Worker,
           \A v \in Worker \ {w} : \A f \in File : Owes(v, f) => Owes(v, f)',
           \A f \in File : disk'[f] # Nothing =>
               Owes(w, f)' \/ (disk[f] # Nothing /\ ~Owes(w, f))
    PROVE  Swept'
  <1> SUFFICES ASSUME NEW f \in File, disk'[f] # Nothing
               PROVE  (\E v \in Worker : Owes(v, f)') \/ ChannelOf[f[1]] \in littered'
    BY DEF Swept
  <1>1. CASE Owes(w, f)'
    BY <1>1
  <1>2. CASE disk[f] # Nothing /\ ~Owes(w, f)
    <2>1. (\E v \in Worker : Owes(v, f)) \/ ChannelOf[f[1]] \in littered
      BY <1>2 DEF Swept
    <2>2. CASE \E v \in Worker : Owes(v, f)
      <3>1. PICK v \in Worker : Owes(v, f)
        BY <2>2
      <3>2. Owes(v, f)'
        BY <1>2, <3>1
      <3> QED BY <3>2
    <2> QED BY <2>1, <2>2
  <1> QED BY <1>1, <1>2

\* The same for a step that ends the request of w.
LEMMA SweptAnswer ==
    ASSUME Base, Swept, NEW w \in Worker, NEW status, NEW body, Handed(w, status, body),
           UNCHANGED littered,
           \A f \in File : disk'[f] # Nothing => disk[f] # Nothing /\ ~Owes(w, f)
    PROVE  Swept'
  <1>1. ASSUME NEW v \in Worker \ {w}, NEW f \in File, Owes(v, f) PROVE Owes(v, f)'
    <2>1. v # job[w].from
      <3>1. v = job[w].from => pc[v] = <<"last", "wait">>
        BY DEF Handed
      <3>2. v = job[w].from => pc[v][2] = "wait"
        BY <3>1
      <3> QED BY <1>1, <3>2, OwesNone
    <2>2. pc'[v] = pc[v] /\ job'[v] = job[v]
      BY <2>1 DEF Handed
    <2> QED BY <1>1, <2>2, OwesSame
  <1> QED BY <1>1, SweptStep

LEMMA SweptNext ==
    ASSUME Base, Base', Swept, [Next]_vars
    PROVE  Swept'
  <1> USE DEF Base
  \* A step of w that does not answer.
  <1>w. ASSUME NEW w \in Worker, UNCHANGED <<job, littered>>, \E l : Goto(w, l),
               \A f \in File : disk'[f] # Nothing =>
                   Owes(w, f)' \/ (disk[f] # Nothing /\ ~Owes(w, f))
        PROVE  Swept'
    <2>1. \A v \in Worker \ {w} : pc'[v] = pc[v]
      BY <1>w DEF Goto, Types
    <2>2. \A v \in Worker \ {w} : \A f \in File : Owes(v, f) => Owes(v, f)'
      BY <1>w, <2>1, OwesSame
    <2> QED BY <1>w, <2>2, SweptStep
  <1>s. ASSUME UNCHANGED <<pc, job, disk, littered>> PROVE Swept'
    <2>1. \A v \in Worker : \A f \in File : Owes(v, f) => Owes(v, f)'
      BY <1>s, OwesSame
    <2> QED BY <1>s, <2>1 DEF Swept
  <1>1. ASSUME NEW s \in Seg, Move(s) PROVE Swept'
    BY <1>1, <1>s DEF Move, ramdisk, process
  <1>2. ASSUME NEW a \in Ask, Request(a) PROVE Swept'
    BY <1>2, <1>s DEF Request, ramdisk, process, history
  <1>3. ASSUME NEW w \in Worker, Accept(w) PROVE Swept'
    <2>1. PICK r : Taken(w, r)
      BY <1>3, AcceptFacts
    <2>2. UNCHANGED <<disk, littered>>
      BY <1>3 DEF Accept, ramdisk
    <2>3. \A v \in Worker \ {w} : \A f \in File : Owes(v, f) => Owes(v, f)'
      BY <2>1, OwesSame DEF Taken
    <2>4. \A f \in File : ~Owes(w, f)
      BY <2>1, OwesNone DEF Taken
    <2> QED BY <2>2, <2>3, <2>4, SweptStep
  <1>4. ASSUME NEW w \in Worker, Mkdir(w) PROVE Swept'
    <2>1. UNCHANGED <<disk, littered>> /\ pc[w][2] = "mkdir"
      BY <1>4 DEF Mkdir
    <2>2. \A f \in File : ~Owes(w, f)
      BY <2>1, OwesNone
    <2>3. CASE Ch(w) \in dirs
      <3>1. Answer(w, "500", Page) /\ Page \in Data
        BY <1>4, <2>3, DataFacts DEF Mkdir
      <3>2. Handed(w, "500", Page)
        BY <2>1, <3>1, AnswerFacts
      <3> QED BY <2>1, <2>2, <3>2, SweptAnswer
    <2>4. CASE Ch(w) \notin dirs
      <3>1. UNCHANGED job /\ Goto(w, <<pc[w][1], "open">>)
        BY <1>4, <2>4 DEF Mkdir
      <3> QED BY <1>w, <2>1, <2>2, <3>1
    <2> QED BY <2>3, <2>4
  <1>5. ASSUME NEW w \in Worker, Open(w) PROVE Swept'
    <2>1. UNCHANGED <<job, littered>> /\ pc[w][2] = "open"
      BY <1>5 DEF Open, history
    <2>2. pc[w] # Idle
      BY <2>1, IdleFacts
    <2>3. Target(w) \in File /\ Target(w)[1] = job[w].seg
      BY <2>2, BusyFacts
    <2>4. PICK l : /\ Goto(w, l) /\ l \in {<<pc[w][1], "read">>, <<pc[w][1], "close">>}
                   /\ UNCHANGED disk \/ disk' = [disk EXCEPT ![Target(w)] =
                                                   IF writers[Target(w)] = {} THEN Part ELSE Mixed]
      BY <1>5 DEF Open
    <2>5. pc'[w] = l /\ l[1] = pc[w][1] /\ l[2] \in {"read", "close"}
      BY <2>4 DEF Goto, Types
    <2>6. Target(w)' = Target(w) /\ pc'[w] # Idle /\ Svc(w)' = Svc(w)
      BY <2>1, <2>5, IdleFacts DEF Target, Svc
    <2>7. \A f \in File : disk'[f] = disk[f] \/ f = Target(w)
      BY <2>4 DEF Types
    <2>8. Owes(w, Target(w))'
      BY <2>1, <2>3, <2>5, <2>6 DEF Owes
    <2>9. \A f \in File : Owes(w, f) => Owes(w, f)'
      BY <2>1, <2>5, <2>6 DEF Owes
    <2>10. \A f \in File : f = Target(w) => Owes(w, f)'
      BY <2>6, <2>8
    <2> QED BY <1>w, <2>1, <2>4, <2>7, <2>9, <2>10
  <1>6. ASSUME NEW w \in Worker, Close(w) \/ Cut(w) PROVE Swept'
    <2>1. PICK d \in {stream[w], Part} : Leave(w, d)
      BY <1>6 DEF Close, Cut
    <2>2. UNCHANGED <<job, littered>> /\ pc[w][2] = "close"
      BY <2>1 DEF Leave
    <2>3. pc[w] # Idle
      BY <2>2, IdleFacts
    <2>4. Target(w) \in File /\ Target(w)[1] = job[w].seg /\ Placed(w)
      BY <2>3, BusyFacts
    <2>5. \A f \in File : disk'[f] = disk[f] \/ f = Target(w)
      BY <2>1 DEF Leave, Types
    <2>6. CASE pc[w][1] = "curl"
      <3>1. Goto(w, <<"convert", "open">>)
        BY <2>1, <2>6 DEF Leave
      <3>2. pc'[w] = <<"convert", "open">>
        BY <3>1 DEF Goto, Types
      <3>3. pc'[w][1] = "convert" /\ pc'[w][2] = "open" /\ pc'[w] # Idle
        BY <3>2, IdleFacts
      <3>4. Svc(w) = "ts" /\ Svc(w)' = "ts" /\ Target(w) = <<job[w].seg, "flv">>
        BY <2>2, <2>3, <2>4, <2>6 DEF Placed, Svc, Target
      <3>5. \A f \in File : Owes(w, f) => f = Target(w)
        BY <2>2, <2>6, <3>4 DEF Owes
      <3>6. \A f \in File : f = Target(w) => Owes(w, f)'
        BY <2>2, <3>3, <3>4 DEF Owes
      <3> QED BY <1>w, <2>2, <2>5, <3>1, <3>5, <3>6
    <2>7. CASE pc[w][1] # "curl"
      <3>1. Goto(w, <<pc[w][1], "read">>)
        BY <2>1, <2>7 DEF Leave
      <3>2. pc'[w] = <<pc[w][1], "read">>
        BY <3>1 DEF Goto, Types
      <3>3. pc'[w][1] = pc[w][1] /\ pc'[w][2] = "read" /\ pc'[w] # Idle
        BY <3>2, IdleFacts
      <3>4. Target(w)' = Target(w) /\ Svc(w)' = Svc(w)
        BY <2>2, <3>3 DEF Target, Svc
      <3>5. \A f \in File : f = Target(w) => Owes(w, f)'
        BY <2>2, <2>4, <3>3, <3>4 DEF Owes
      <3>6. \A f \in File : Owes(w, f) => Owes(w, f)'
        BY <2>2, <3>3, <3>4 DEF Owes
      <3> QED BY <1>w, <2>2, <2>5, <3>1, <3>5, <3>6
    <2> QED BY <2>6, <2>7
  <1>7. ASSUME NEW w \in Worker, Read(w) PROVE Swept'
    <2>1. UNCHANGED <<job, disk, littered>> /\ pc[w][2] = "read"
      BY <1>7 DEF Read, ramdisk, history
    <2>2. PICK n : /\ Goto(w, <<pc[w][1], n>>)
                   /\ n = IF pc[w][1] = "convert" /\ Svc(w) = "ts" THEN "rm_flv" ELSE "remove"
      BY <1>7 DEF Read
    <2>3. pc'[w] = <<pc[w][1], n>>
      BY <2>2 DEF Goto, Types
    <2>4. pc'[w][1] = pc[w][1] /\ pc'[w][2] = n
      BY <2>3
    <2>5. pc'[w] # Idle
      BY <2>2, <2>4, IdleFacts
    <2>6. Target(w)' = Target(w) /\ Svc(w)' = Svc(w)
      BY <2>1, <2>4 DEF Target, Svc
    <2>7. \A f \in File : Owes(w, f) => Owes(w, f)'
      BY <2>1, <2>2, <2>4, <2>5, <2>6 DEF Owes
    <2> QED BY <1>w, <2>1, <2>2, <2>7
  <1>8. ASSUME NEW w \in Worker, RemoveFlv(w) PROVE Swept'
    <2>1. UNCHANGED <<job, littered>> /\ pc[w][2] = "rm_flv" /\ Unlink(<<job[w].seg, "flv">>)
          /\ Goto(w, <<"convert", "remove">>)
      BY <1>8 DEF RemoveFlv, history
    <2>2. pc[w] # Idle
      BY <2>1, IdleFacts
    <2>3. <<job[w].seg, "flv">> \in File /\ pc[w][1] = "convert"
      BY <2>1, <2>2, BusyFacts, PlacesFacts DEF File
    <2>4. \A f \in File : disk'[f] = IF f = <<job[w].seg, "flv">> THEN Nothing ELSE disk[f]
      BY <2>1, <2>3, UnlinkFacts
    <2>5. pc'[w] = <<"convert", "remove">>
      BY <2>1 DEF Goto, Types
    <2>6. pc'[w][1] = pc[w][1] /\ pc'[w][2] = "remove" /\ pc'[w] # Idle
      BY <2>3, <2>5, IdleFacts
    <2>7. Target(w)' = Target(w)
      BY <2>1, <2>6 DEF Target, Svc
    <2>8. \A f \in File : Owes(w, f) => Owes(w, f)' \/ (f[1] = job[w].seg /\ f[2] = "flv")
      BY <2>1, <2>6, <2>7 DEF Owes
    <2>9. \A f \in File : f = <<f[1], f[2]>>
      BY DEF File
    <2> QED BY <1>w, <2>1, <2>4, <2>8, <2>9
  <1>9. ASSUME NEW w \in Worker, Remove(w) PROVE Swept'
    <2>1. pc[w] # Idle /\ Unlink(Target(w)) /\ (Replies(w) \/ Goes(w))
      BY <1>9, RemoveFacts
    <2>2. Target(w) \in File /\ pc[w][2] = "remove" /\ UNCHANGED littered
      BY <1>9, <2>1, BusyFacts DEF Remove, history
    <2>3. \A f \in File : disk'[f] # Nothing => disk[f] # Nothing /\ f # Target(w)
      BY <2>1, <2>2, UnlinkFacts
    <2>4. \A f \in File : Owes(w, f) => f = Target(w)
      BY <2>2 DEF Owes
    <2>5. CASE Replies(w)
      <3>1. PICK status \in {"200", "404", "500", "502"}, body \in Data : Answer(w, status, body)
        BY <2>5 DEF Replies
      <3>2. Handed(w, status, body)
        BY <2>2, <3>1, AnswerFacts
      <3> QED BY <2>2, <2>3, <2>4, <3>2, SweptAnswer
    <2>6. CASE Goes(w)
      <3>1. PICK l : Goto(w, l) /\ UNCHANGED job
        BY <2>6 DEF Goes
      <3> QED BY <1>w, <2>2, <2>3, <2>4, <3>1
    <2> QED BY <2>1, <2>5, <2>6
  <1>10. ASSUME NEW w \in Worker, AskLast(w) PROVE Swept'
    <2>1. UNCHANGED <<job, disk, littered>> /\ Goto(w, <<"last", "wait">>) /\ pc[w] = <<"last", "ask">>
      BY <1>10 DEF AskLast, ramdisk, history
    <2>2. pc[w][2] = "ask"
      BY <2>1
    <2>3. \A f \in File : ~Owes(w, f)
      BY <2>2, OwesNone
    <2> QED BY <1>w, <2>1, <2>3
  <1>11. ASSUME NEW w \in Worker, Timeout(w) PROVE Swept'
    <2>1. UNCHANGED <<disk, littered>>
      BY <1>11 DEF Timeout, ramdisk
    <2>2. /\ pc[w] = <<"last", "wait">>
          /\ \A v \in Worker \ {w} : pc'[v] = pc[v]
          /\ \A v \in Worker : job'[v].seg = job[v].seg /\ job'[v].svc = job[v].svc
      BY <1>11, TimeoutFacts
    <2>3. pc[w][2] = "wait"
      BY <2>2
    <2>4. \A f \in File : ~Owes(w, f)
      BY <2>3, OwesNone
    <2>5. \A v \in Worker \ {w} : \A f \in File : Owes(v, f) => Owes(v, f)'
      BY <2>2, OwesSame
    <2> QED BY <2>1, <2>4, <2>5, SweptStep
  <1>12. ASSUME NEW p \in Pools, Restart(p) PROVE Swept'
    <2>1. /\ UNCHANGED disk /\ littered \subseteq littered'
          /\ \A w \in Worker : PoolOf[w] # p => pc'[w] = pc[w] /\ job'[w] = job[w]
          /\ \A f \in File, w \in Worker :
                disk[f] # Nothing /\ PoolOf[w] = p /\ job[w].seg = f[1]
                    => ChannelOf[f[1]] \in littered'
      BY <1>12, RestartFacts
    <2> SUFFICES ASSUME NEW f \in File, disk[f] # Nothing
                 PROVE  (\E v \in Worker : Owes(v, f)') \/ ChannelOf[f[1]] \in littered'
      BY <2>1 DEF Swept
    <2>2. CASE ChannelOf[f[1]] \in littered
      BY <2>1, <2>2
    <2>3. ASSUME NEW w \in Worker, Owes(w, f)
          PROVE  (\E v \in Worker : Owes(v, f)') \/ ChannelOf[f[1]] \in littered'
      <3>1. CASE PoolOf[w] = p
        <4>1. job[w].seg = f[1]
          BY <2>3 DEF Owes
        <4> QED BY <2>1, <3>1, <4>1
      <3>2. CASE PoolOf[w] # p
        <4>1. Owes(w, f)'
          BY <2>1, <2>3, <3>2, OwesSame
        <4> QED BY <4>1
      <3> QED BY <3>1, <3>2
    <2> QED BY <2>2, <2>3 DEF Swept
  <1>13. CASE UNCHANGED vars
    BY <1>13, <1>s DEF vars, ramdisk, process, history
  <1>14. ASSUME NEW w \in Worker, Work(w) \/ Cut(w) PROVE Swept'
    BY <1>14, <1>3, <1>4, <1>5, <1>6, <1>7, <1>8, <1>9, <1>10, <1>11 DEF Work
  <1> QED BY <1>1, <1>2, <1>12, <1>13, <1>14 DEF Next, Pools

LEMMA SweptHolds == Spec => []Swept
  <1>1. Init => Swept
    BY DEF Init, Swept
  <1>2. Base /\ Base' /\ Swept /\ [Next]_vars => Swept'
    BY SweptNext
  <1> QED BY <1>1, <1>2, BaseHolds, PTL DEF Spec

\* A file on the ramdisk is one that some process is still going to remove,
\* whatever the others do with it, except after a restart.
THEOREM RamdiskClean == Spec => []NoLitter
  <1>1. Swept => NoLitter
    BY DEF Swept, NoLitter, Owes, Busy
  <1> QED BY <1>1, SweptHolds, PTL

----------------------------------------------------------------------------
(* The answers are right.                                                  *)

\* Only a command that is running has a file open.
Opened == \A f \in File, w \in Worker : w \in writers[f] => pc[w][2] = "close" /\ Target(w) = f

\* In a channel with no spoilt request no two processes work on one segment.
Alone ==
    /\ littered \subseteq spoilt
    /\ \A v, w \in Worker : v # w /\ pc[v] # Idle /\ job[v].seg = job[w].seg => Ch(v) \in spoilt

LEMMA OpenedStep ==
    ASSUME Opened, NEW w \in Worker,
           \A v \in Worker \ {w} : pc[v][2] = "close" =>
               pc'[v] = pc[v] /\ job'[v].seg = job[v].seg /\ job'[v].svc = job[v].svc,
           \A f \in File, v \in Worker : v \in writers'[f] =>
               \/ v # w /\ v \in writers[f]
               \/ v = w /\ pc'[w][2] = "close" /\ Target(w)' = f
    PROVE  Opened'
  <1> SUFFICES ASSUME NEW f \in File, NEW v \in Worker, v \in writers'[f]
               PROVE  pc'[v][2] = "close" /\ Target(v)' = f
    BY DEF Opened
  <1>1. CASE v = w
    BY <1>1
  <1>2. CASE v # w
    <2>1. pc[v][2] = "close" /\ Target(v) = f
      BY <1>2 DEF Opened
    <2>2. pc'[v] = pc[v] /\ job'[v].seg = job[v].seg /\ job'[v].svc = job[v].svc
      BY <1>2, <2>1
    <2> QED BY <2>1, <2>2, OwesSame
  <1> QED BY <1>1, <1>2

\* A step of w that neither begins nor ends a command.
LEMMA OpenedOther ==
    ASSUME Opened, NEW w \in Worker, pc[w][2] # "close",
           \A v \in Worker \ {w} : pc[v][2] = "close" =>
               pc'[v] = pc[v] /\ job'[v].seg = job[v].seg /\ job'[v].svc = job[v].svc,
           \A f \in File : writers'[f] \subseteq writers[f]
    PROVE  Opened'
  <1>1. \A f \in File, v \in Worker : v \in writers'[f] => v # w /\ v \in writers[f]
    BY DEF Opened
  <1> QED BY <1>1, OpenedStep

LEMMA OpenedAnswer ==
    ASSUME Base, Opened, NEW w \in Worker, pc[w][2] # "close", NEW status, NEW body,
           Handed(w, status, body), \A f \in File : writers'[f] \subseteq writers[f]
    PROVE  Opened'
  <1>1. ASSUME NEW v \in Worker \ {w}, pc[v][2] = "close" PROVE pc'[v] = pc[v] /\ job'[v] = job[v]
    <2>1. v = job[w].from => pc[v] = <<"last", "wait">>
      BY DEF Handed
    <2>2. v # job[w].from
      BY <1>1, <2>1
    <2> QED BY <2>2 DEF Handed
  <1> QED BY <1>1, OpenedOther

LEMMA OpenedNext ==
    ASSUME Base, Base', Opened, [Next]_vars
    PROVE  Opened'
  <1> USE DEF Base
  <1>g. ASSUME NEW w \in Worker, UNCHANGED <<job, writers>>, \E l : Goto(w, l), pc[w][2] # "close"
        PROVE  Opened'
    <2>1. \A v \in Worker \ {w} : pc'[v] = pc[v]
      BY <1>g DEF Goto, Types
    <2> QED BY <1>g, <2>1, OpenedOther
  <1>s. ASSUME UNCHANGED <<pc, job, writers>> PROVE Opened'
    BY <1>s, OwesSame DEF Opened
  <1>1. ASSUME NEW s \in Seg, Move(s) PROVE Opened'
    BY <1>1, <1>s DEF Move, ramdisk, process
  <1>2. ASSUME NEW a \in Ask, Request(a) PROVE Opened'
    BY <1>2, <1>s DEF Request, ramdisk, process
  <1>3. ASSUME NEW w \in Worker, Accept(w) PROVE Opened'
    <2>1. PICK r : Taken(w, r)
      BY <1>3, AcceptFacts
    <2>2. UNCHANGED writers
      BY <1>3 DEF Accept, ramdisk
    <2>3. pc[w][2] # "close" /\ \A v \in Worker \ {w} : pc'[v] = pc[v] /\ job'[v] = job[v]
      BY <2>1, IdleFacts DEF Taken
    <2> QED BY <2>2, <2>3, OpenedOther
  <1>4. ASSUME NEW w \in Worker, Mkdir(w) PROVE Opened'
    <2>1. UNCHANGED writers /\ pc[w][2] = "mkdir"
      BY <1>4 DEF Mkdir
    <2>2. CASE Ch(w) \in dirs
      <3>1. Answer(w, "500", Page) /\ Page \in Data
        BY <1>4, <2>2, DataFacts DEF Mkdir
      <3>2. Handed(w, "500", Page)
        BY <2>1, <3>1, AnswerFacts
      <3> QED BY <2>1, <3>2, OpenedAnswer
    <2>3. CASE Ch(w) \notin dirs
      <3>1. UNCHANGED job /\ Goto(w, <<pc[w][1], "open">>)
        BY <1>4, <2>3 DEF Mkdir
      <3> QED BY <1>g, <2>1, <3>1
    <2> QED BY <2>2, <2>3
  <1>5. ASSUME NEW w \in Worker, Open(w) PROVE Opened'
    <2>1. UNCHANGED job /\ pc[w][2] = "open"
      BY <1>5 DEF Open
    <2>2. CASE Goto(w, <<pc[w][1], "read">>) /\ UNCHANGED writers
      BY <1>g, <2>1, <2>2
    <2>3. CASE /\ Goto(w, <<pc[w][1], "close">>)
               /\ writers' = [writers EXCEPT ![Target(w)] = @ \cup {w}]
      <3>1. pc'[w] = <<pc[w][1], "close">> /\ \A v \in Worker \ {w} : pc'[v] = pc[v]
        BY <2>3 DEF Goto, Types
      <3>2. pc'[w][1] = pc[w][1] /\ pc'[w][2] = "close"
        BY <3>1
      <3>3. Target(w)' = Target(w)
        BY <2>1, <3>2 DEF Target, Svc
      <3>4. \A f \in File, v \in Worker : v \in writers[f] => v # w
        BY <2>1 DEF Opened
      <3>5. \A f \in File, v \in Worker : v \in writers'[f] =>
                v \in writers[f] \/ (v = w /\ f = Target(w))
        BY <2>3 DEF Types
      <3> QED BY <2>1, <3>1, <3>2, <3>3, <3>4, <3>5, OpenedStep
    <2> QED BY <1>5, <2>2, <2>3 DEF Open
  <1>6. ASSUME NEW w \in Worker, Close(w) \/ Cut(w) PROVE Opened'
    <2>1. PICK d \in {stream[w], Part} : Leave(w, d)
      BY <1>6 DEF Close, Cut
    <2>2. UNCHANGED job /\ pc[w][2] = "close"
      BY <2>1 DEF Leave
    <2>3. \A v \in Worker \ {w} : pc'[v] = pc[v]
      BY <2>1 DEF Leave, Goto, Types
    <2>4. Target(w) \in File /\ \A f \in File : w \in writers[f] => f = Target(w)
      <3>1. pc[w] # Idle
        BY <2>2, IdleFacts
      <3> QED BY <3>1, BusyFacts DEF Opened
    <2>5. \A f \in File : writers'[f] = IF f = Target(w) THEN writers[f] \ {w} ELSE writers[f]
      BY <2>1, <2>4 DEF Leave, Types
    <2>6. \A f \in File, v \in Worker : v \in writers'[f] => v # w /\ v \in writers[f]
      BY <2>4, <2>5
    <2> QED BY <2>2, <2>3, <2>6, OpenedStep
  <1>7. ASSUME NEW w \in Worker, Read(w) PROVE Opened'
    BY <1>7, <1>g DEF Read, ramdisk
  <1>8. ASSUME NEW w \in Worker, RemoveFlv(w) PROVE Opened'
    <2>1. UNCHANGED job /\ pc[w][2] = "rm_flv" /\ Unlink(<<job[w].seg, "flv">>)
      BY <1>8 DEF RemoveFlv
    <2>2. \A v \in Worker \ {w} : pc'[v] = pc[v]
      BY <1>8 DEF RemoveFlv, Goto, Types
    <2>3. pc[w] # Idle
      BY <2>1, IdleFacts
    <2>4. <<job[w].seg, "flv">> \in File
      BY <2>3, BusyFacts DEF File
    <2>5. \A f \in File : writers'[f] \subseteq writers[f]
      BY <2>1, <2>4, UnlinkFacts
    <2> QED BY <2>1, <2>2, <2>5, OpenedOther
  <1>9. ASSUME NEW w \in Worker, Remove(w) PROVE Opened'
    <2>1. pc[w] # Idle /\ Unlink(Target(w)) /\ (Replies(w) \/ Goes(w)) /\ pc[w][2] = "remove"
      BY <1>9, RemoveFacts DEF Remove
    <2>2. Target(w) \in File
      BY <2>1, BusyFacts
    <2>3. \A f \in File : writers'[f] \subseteq writers[f]
      BY <2>1, <2>2, UnlinkFacts
    <2>4. CASE Replies(w)
      <3>1. PICK status \in {"200", "404", "500", "502"}, body \in Data : Answer(w, status, body)
        BY <2>4 DEF Replies
      <3>2. Handed(w, status, body)
        BY <2>1, <3>1, AnswerFacts
      <3> QED BY <2>1, <2>3, <3>2, OpenedAnswer
    <2>5. CASE Goes(w)
      <3>1. PICK l : Goto(w, l) /\ UNCHANGED job
        BY <2>5 DEF Goes
      <3>2. \A v \in Worker \ {w} : pc'[v] = pc[v]
        BY <3>1 DEF Goto, Types
      <3> QED BY <2>1, <2>3, <3>1, <3>2, OpenedOther
    <2> QED BY <2>1, <2>4, <2>5
  <1>10. ASSUME NEW w \in Worker, AskLast(w) PROVE Opened'
    <2>1. UNCHANGED <<job, writers>> /\ Goto(w, <<"last", "wait">>) /\ pc[w] = <<"last", "ask">>
      BY <1>10 DEF AskLast, ramdisk
    <2>2. pc[w][2] # "close"
      BY <2>1
    <2> QED BY <1>g, <2>1, <2>2
  <1>11. ASSUME NEW w \in Worker, Timeout(w) PROVE Opened'
    <2>1. /\ UNCHANGED writers /\ pc[w] = <<"last", "wait">>
          /\ \A v \in Worker \ {w} : pc'[v] = pc[v]
          /\ \A v \in Worker : job'[v].seg = job[v].seg /\ job'[v].svc = job[v].svc
      BY <1>11, TimeoutFacts DEF Timeout, ramdisk
    <2>2. pc[w][2] # "close"
      BY <2>1
    <2> QED BY <2>1, <2>2, OpenedOther
  <1>12. ASSUME NEW p \in Pools, Restart(p) PROVE Opened'
    <2>1. /\ \A w \in Worker : PoolOf[w] # p => pc'[w] = pc[w] /\ job'[w] = job[w]
          /\ \A f \in File, w \in Worker : w \in writers'[f] <=> w \in writers[f] /\ PoolOf[w] # p
      BY <1>12, RestartFacts
    <2> SUFFICES ASSUME NEW f \in File, NEW v \in Worker, v \in writers'[f]
                 PROVE  pc'[v][2] = "close" /\ Target(v)' = f
      BY DEF Opened
    <2>2. v \in writers[f] /\ pc'[v] = pc[v] /\ job'[v] = job[v]
      BY <2>1
    <2> QED BY <2>2, OwesSame DEF Opened
  <1>13. CASE UNCHANGED vars
    BY <1>13, <1>s DEF vars, ramdisk, process
  <1>14. ASSUME NEW w \in Worker, Work(w) \/ Cut(w) PROVE Opened'
    BY <1>14, <1>3, <1>4, <1>5, <1>6, <1>7, <1>8, <1>9, <1>10, <1>11 DEF Work
  <1> QED BY <1>1, <1>2, <1>12, <1>13, <1>14 DEF Next, Pools

\* What never comes back: the promise for a channel, a block, a request in time.
Grown ==
    /\ spoilt \subseteq spoilt' /\ (gaveup => gaveup')
    /\ \A s \in Seg : /\ block[s] = "gone" => block'[s] = "gone"
                      /\ block[s] # "not_yet" => block'[s] # "not_yet"

LEMMA GrownNext ==
    ASSUME Base, [Next]_vars
    PROVE  Grown
  <1> USE DEF Base
  <1>s. ASSUME UNCHANGED <<block, gaveup>>, spoilt \subseteq spoilt' PROVE Grown
    BY <1>s DEF Grown
  <1>1. ASSUME NEW s \in Seg, Move(s) PROVE Grown
    <2>1. spoilt \subseteq spoilt' /\ UNCHANGED gaveup
      BY <1>1 DEF Move, Spoil
    <2>2. /\ block \in [Seg -> {"not_yet", "there", "gone"}] /\ block[s] # "gone"
          /\ block' = [block EXCEPT ![s] = IF @ = "there" THEN "gone" ELSE "there"]
      BY <1>1 DEF Move, Types
    <2>3. \A t \in Seg : /\ block[t] = "gone" => block'[t] = "gone"
                         /\ block[t] # "not_yet" => block'[t] # "not_yet"
      BY <2>2
    <2> QED BY <2>1, <2>3 DEF Grown
  <1>2. ASSUME NEW w \in Worker, Work(w) \/ Cut(w) PROVE Grown
    <2>1. CASE Accept(w)
      BY <1>s, <2>1 DEF Accept, Spoil
    <2>2. CASE Mkdir(w)
      BY <1>s, <2>2 DEF Mkdir, Spoil
    <2>3. CASE Open(w)
      BY <1>s, <2>3 DEF Open, history
    <2>4. CASE Close(w)
      BY <1>s, <2>4 DEF Close, Leave
    <2>5. CASE Cut(w)
      BY <1>s, <2>5 DEF Cut, Leave, Spoil
    <2>6. CASE Read(w)
      BY <1>s, <2>6 DEF Read, history
    <2>7. CASE RemoveFlv(w)
      BY <1>s, <2>7 DEF RemoveFlv, history
    <2>8. CASE Remove(w)
      BY <1>s, <2>8 DEF Remove, history
    <2>9. CASE AskLast(w)
      BY <1>s, <2>9 DEF AskLast, history
    <2>10. CASE Timeout(w)
      BY <2>10 DEF Timeout, Grown
    <2> QED BY <1>2, <2>1, <2>2, <2>3, <2>4, <2>5, <2>6, <2>7, <2>8, <2>9, <2>10 DEF Work
  <1>3. ASSUME NEW a \in Ask, Request(a) PROVE Grown
    BY <1>3, <1>s DEF Request, history
  <1>4. ASSUME NEW p \in Pools, Restart(p) PROVE Grown
    BY <1>4, <1>s, RestartFacts
  <1>5. CASE UNCHANGED vars
    BY <1>5, <1>s DEF vars, history
  <1> QED BY <1>1, <1>2, <1>3, <1>4, <1>5 DEF Next, Pools

\* A step in which no process takes a request.
LEMMA AloneStep ==
    ASSUME Base', Alone, spoilt \subseteq spoilt', littered' \subseteq spoilt',
           \A v \in Worker : \/ job'[v] = NoJob
                             \/ job'[v].seg = job[v].seg /\ (pc'[v] # Idle => pc[v] # Idle)
    PROVE  Alone'
  <1> SUFFICES ASSUME NEW v \in Worker, NEW w \in Worker, v # w, pc'[v] # Idle, job'[v].seg = job'[w].seg
               PROVE  Ch(v)' \in spoilt'
    BY DEF Alone
  <1>1. job'[v] \in Requests
    BY DEF Base, Order, Placed
  <1>2. job'[v].seg \in Seg /\ NoJob.seg \notin Seg
    BY <1>1, JobFacts DEF Requests
  <1>3. job'[v].seg = job[v].seg /\ job'[w].seg = job[w].seg /\ pc[v] # Idle
    BY <1>2
  <1> QED BY <1>3 DEF Alone, Ch

LEMMA AloneNext ==
    ASSUME Base, Base', Alone, [Next]_vars
    PROVE  Alone'
  <1> USE DEF Base
  <1>0. spoilt \subseteq spoilt' /\ littered \subseteq spoilt
    BY GrownNext DEF Grown, Alone
  <1>s. ASSUME UNCHANGED <<pc, job, littered>> PROVE Alone'
    BY <1>s, <1>0, AloneStep
  <1>g. ASSUME NEW w \in Worker, UNCHANGED <<job, littered>>, \E l : Goto(w, l), pc[w] # Idle
        PROVE  Alone'
    <2>1. \A v \in Worker : pc'[v] # Idle => pc[v] # Idle
      BY <1>g DEF Goto, Types
    <2> QED BY <1>g, <1>0, <2>1, AloneStep
  <1>a. ASSUME NEW w \in Worker, UNCHANGED littered, NEW status, NEW body, Handed(w, status, body)
        PROVE  Alone'
    <2>1. ASSUME NEW v \in Worker
          PROVE  job'[v] = NoJob \/ (job'[v].seg = job[v].seg /\ (pc'[v] # Idle => pc[v] # Idle))
      <3>1. CASE v = w
        BY <1>a, <3>1 DEF Handed
      <3>2. CASE v # w
        <4>1. job'[v] = job[v] /\ (pc'[v] = pc[v] \/ pc[v] = <<"last", "wait">>)
          BY <1>a, <3>2 DEF Handed
        <4>2. pc[v] = <<"last", "wait">> => pc[v] # Idle
          BY IdleFacts
        <4> QED BY <4>1, <4>2
      <3> QED BY <3>1, <3>2
    <2> QED BY <1>a, <1>0, <2>1, AloneStep
  <1>1. ASSUME NEW s \in Seg, Move(s) PROVE Alone'
    BY <1>1, <1>s DEF Move, process
  <1>2. ASSUME NEW a \in Ask, Request(a) PROVE Alone'
    BY <1>2, <1>s DEF Request, process, history
  <1>3. ASSUME NEW w \in Worker, Accept(w) PROVE Alone'
    <2>1. PICK r : Taken(w, r) /\ Spoil({t \in {r.seg} : Busy(t)})
      BY <1>3, AcceptFacts
    <2>2. /\ r \in Requests /\ job'[w] = r
          /\ \A v \in Worker \ {w} : pc'[v] = pc[v] /\ job'[v] = job[v]
      BY <2>1 DEF Taken
    <2>3. r.seg \in Seg /\ spoilt \subseteq Channel
      BY <2>2 DEF Requests, Types
    <2>4. \A v \in Worker \ {w} : job[v].seg = r.seg => ChannelOf[r.seg] \in spoilt'
      BY <2>1, <2>3, SpoilFacts DEF Busy
    <2>5. UNCHANGED littered
      BY <1>3 DEF Accept
    <2> SUFFICES ASSUME NEW v \in Worker, NEW u \in Worker, v # u, pc'[v] # Idle,
                        job'[v].seg = job'[u].seg
                 PROVE  Ch(v)' \in spoilt'
      BY <1>0, <2>5 DEF Alone
    <2>6. CASE v = w
      BY <2>2, <2>4, <2>6 DEF Ch
    <2>7. CASE u = w
      BY <2>2, <2>4, <2>7 DEF Ch
    <2>8. CASE v # w /\ u # w
      BY <1>0, <2>2, <2>8 DEF Alone, Ch
    <2> QED BY <2>6, <2>7, <2>8
  <1>4. ASSUME NEW w \in Worker, Mkdir(w) PROVE Alone'
    <2>1. UNCHANGED littered /\ pc[w][2] = "mkdir"
      BY <1>4 DEF Mkdir
    <2>2. pc[w] # Idle
      BY <2>1, IdleFacts
    <2>3. CASE Ch(w) \in dirs
      <3>1. Answer(w, "500", Page) /\ Page \in Data
        BY <1>4, <2>3, DataFacts DEF Mkdir
      <3>2. Handed(w, "500", Page)
        BY <2>1, <3>1, AnswerFacts
      <3> QED BY <1>a, <2>1, <3>2
    <2>4. CASE Ch(w) \notin dirs
      <3>1. UNCHANGED job /\ Goto(w, <<pc[w][1], "open">>)
        BY <1>4, <2>4 DEF Mkdir
      <3> QED BY <1>g, <2>1, <2>2, <3>1
    <2> QED BY <2>3, <2>4
  <1>5. ASSUME NEW w \in Worker, Open(w) PROVE Alone'
    <2>1. UNCHANGED <<job, littered>> /\ pc[w][2] = "open" /\ \E l : Goto(w, l)
      BY <1>5 DEF Open, history
    <2> QED BY <1>g, <2>1, IdleFacts
  <1>6. ASSUME NEW w \in Worker, Close(w) \/ Cut(w) PROVE Alone'
    <2>1. PICK d \in {stream[w], Part} : Leave(w, d)
      BY <1>6 DEF Close, Cut
    <2>2. UNCHANGED <<job, littered>> /\ pc[w][2] = "close" /\ \E l : Goto(w, l)
      BY <2>1 DEF Leave
    <2> QED BY <1>g, <2>2, IdleFacts
  <1>7. ASSUME NEW w \in Worker, Read(w) PROVE Alone'
    <2>1. UNCHANGED <<job, littered>> /\ pc[w][2] = "read" /\ \E l : Goto(w, l)
      BY <1>7 DEF Read, history
    <2> QED BY <1>g, <2>1, IdleFacts
  <1>8. ASSUME NEW w \in Worker, RemoveFlv(w) PROVE Alone'
    <2>1. UNCHANGED <<job, littered>> /\ pc[w][2] = "rm_flv" /\ \E l : Goto(w, l)
      BY <1>8 DEF RemoveFlv, history
    <2> QED BY <1>g, <2>1, IdleFacts
  <1>9. ASSUME NEW w \in Worker, Remove(w) PROVE Alone'
    <2>1. pc[w] # Idle /\ (Replies(w) \/ Goes(w)) /\ pc[w][2] = "remove" /\ UNCHANGED littered
      BY <1>9, RemoveFacts DEF Remove, history
    <2>2. CASE Replies(w)
      <3>1. PICK status \in {"200", "404", "500", "502"}, body \in Data : Answer(w, status, body)
        BY <2>2 DEF Replies
      <3>2. Handed(w, status, body)
        BY <2>1, <3>1, AnswerFacts
      <3> QED BY <1>a, <2>1, <3>2
    <2>3. CASE Goes(w)
      <3>1. UNCHANGED job /\ \E l : Goto(w, l)
        BY <2>3 DEF Goes
      <3> QED BY <1>g, <2>1, <3>1
    <2> QED BY <2>1, <2>2, <2>3
  <1>10. ASSUME NEW w \in Worker, AskLast(w) PROVE Alone'
    <2>1. UNCHANGED <<job, littered>> /\ pc[w] = <<"last", "ask">> /\ \E l : Goto(w, l)
      BY <1>10 DEF AskLast, history
    <2> QED BY <1>g, <2>1, IdleFacts
  <1>11. ASSUME NEW w \in Worker, Timeout(w) PROVE Alone'
    <2>1. /\ UNCHANGED littered /\ pc[w] = <<"last", "wait">>
          /\ \A v \in Worker \ {w} : pc'[v] = pc[v]
          /\ \A v \in Worker : job'[v].seg = job[v].seg
      BY <1>11, TimeoutFacts DEF Timeout
    <2>2. \A v \in Worker : pc'[v] # Idle => pc[v] # Idle
      BY <2>1, IdleFacts
    <2> QED BY <1>0, <2>1, <2>2, AloneStep
  <1>12. ASSUME NEW p \in Pools, Restart(p) PROVE Alone'
    <2>1. /\ \A w \in Worker : job'[w] = NoJob \/ (pc'[w] = pc[w] /\ job'[w] = job[w])
          /\ littered' \subseteq spoilt'
      BY <1>0, <1>12, RestartFacts
    <2> QED BY <1>0, <2>1, AloneStep
  <1>13. CASE UNCHANGED vars
    BY <1>13, <1>s DEF vars, process, history
  <1>14. ASSUME NEW w \in Worker, Work(w) \/ Cut(w) PROVE Alone'
    BY <1>14, <1>3, <1>4, <1>5, <1>6, <1>7, <1>8, <1>9, <1>10, <1>11 DEF Work
  <1> QED BY <1>1, <1>2, <1>12, <1>13, <1>14 DEF Next, Pools

\* A segment that may stand in for one of channel c.
Spare(s, c) == s \in Normal(c) /\ block[s] # "not_yet"

\* What may stand in for a segment of channel c.
Substitute(d, c) ==
    \/ d \in {"media"} \X Normal(c)
    \/ d = Nothing /\ \E s \in Normal(c) : block[s] = "gone"
    \/ d = Page /\ gaveup

\* d is what the current stage of w has to give.
Result(w, d) ==
    LET s == job[w].seg
    IN  CASE pc[w][1] \in {"curl", "symbol", "meta"} -> d = Fetched(s)
          [] pc[w][1] = "hold" -> d = <<"symbol", s>>
          [] pc[w][1] = "convert" -> d = IF block[s] = "there" /\ BlockKind[s] = "normal"
                                         THEN <<"media", s>> ELSE Nothing
          [] OTHER -> Substitute(d, Ch(w))

\* Why w is at its stage.
Reason(w) ==
    LET s == job[w].seg
    IN  /\ pc[w][1] = "symbol" => block[s] # "there" \/ BlockKind[s] # "normal"
        /\ pc[w][1] = "hold" => block[s] = "there" /\ BlockKind[s] # "normal"
        /\ pc[w][1] = "last" => block[s] = "there" /\ BlockKind[s] = "hold"

\* What is where at the steps of w.
InHand(w) ==
    /\ pc[w][2] = "mkdir" => pc[w][1] = First(Svc(w))
    /\ pc[w][1] = "curl" => pc[w][2] \in {"mkdir", "open", "close"}
    /\ pc[w][2] = "close" => /\ Result(w, stream[w])
                             /\ writers[Target(w)] = {w} /\ disk[Target(w)] = Part
    /\ pc[w][2] = "read" => Result(w, disk[Target(w)])
    /\ pc[w][2] \in {"rm_flv", "remove"} => Result(w, stream[w])
    /\ pc[w] = <<"last", "open">> /\ Svc(w) = "ts" => Result(w, stream[w])
    /\ pc[w] = <<"convert", "open">> /\ Svc(w) = "ts"
           => disk[<<job[w].seg, "flv">>] = Fetched(job[w].seg)

Sound(w) == pc[w] # Idle /\ Ch(w) \notin spoilt => Reason(w) /\ InHand(w)

Progress == \A w \in Worker : Sound(w)

Spares == \A w \in Worker, c \in Channel \ spoilt : last[w][c] # NoSeg => Spare(last[w][c], c)

\* A request that a process makes is for a segment that can stand in.
Fit(r) == r.from \in Worker /\ ChannelOf[r.seg] \notin spoilt => Spare(r.seg, ChannelOf[r.seg])

Fits ==
    /\ \A w \in Worker : Fit(job[w])
    /\ \A p \in Pools : \A i \in DOMAIN backlog[p] : Fit(backlog[p][i])

Right == Progress /\ Spares /\ Fits

LEMMA SubstituteStays ==
    ASSUME Grown, NEW d, NEW c, Substitute(d, c)
    PROVE  Substitute(d, c)'
  BY DEF Grown, Substitute, Normal

LEMMA FitStays ==
    ASSUME Grown, NEW r, Fit(r)
    PROVE  Fit(r)'
  BY DEF Grown, Fit, Spare, Normal

LEMMA RightForStays ==
    ASSUME Grown, NEW a, RightFor(a)
    PROVE  RightFor(a)'
  <1>1. \A s \in Normal(ChannelOf[a.seg]) : block[s] = "gone" => block'[s] = "gone"
    BY DEF Grown, Normal
  <1>2. gaveup => gaveup'
    BY DEF Grown
  <1>3. CASE a.svc = "manifest"
    BY <1>3 DEF RightFor
  <1>4. CASE a.svc # "manifest" /\ a.block # "there"
    BY <1>4 DEF RightFor
  <1>5. CASE a.svc # "manifest" /\ a.block = "there" /\ BlockKind[a.seg] = "normal"
    BY <1>5 DEF RightFor
  <1>6. CASE a.svc # "manifest" /\ a.block = "there" /\ BlockKind[a.seg] = "blank"
    BY <1>6 DEF RightFor
  <1>7. CASE a.svc # "manifest" /\ a.block = "there" /\ BlockKind[a.seg] \notin {"normal", "blank"}
    <2>1. \/ a.status = "502"
          \/ a.status = "200" /\ \/ a.body \in {"media"} \X Normal(ChannelOf[a.seg])
                                 \/ a.body = Nothing /\ \E s \in Normal(ChannelOf[a.seg]) : block[s] = "gone"
                                 \/ a.body = Page /\ gaveup
      BY <1>7 DEF RightFor
    <2>2. \/ a.status = "502"
          \/ a.status = "200" /\ \/ a.body \in {"media"} \X Normal(ChannelOf[a.seg])
                                 \/ a.body = Nothing /\ \E s \in Normal(ChannelOf[a.seg]) : block'[s] = "gone"
                                 \/ a.body = Page /\ gaveup'
      BY <1>1, <1>2, <2>1
    <2> QED BY <1>7, <2>2 DEF RightFor, Normal
  <1> QED BY <1>3, <1>4, <1>5, <1>6, <1>7

\* A block that is there and has a picture is converted; all others give nothing.
LEMMA ConvertedFetched ==
    ASSUME Types, NEW s \in Seg, NEW d, d \in Converted(Fetched(s))
    PROVE  d = IF block[s] = "there" /\ BlockKind[s] = "normal" THEN <<"media", s>> ELSE Nothing
  <1>1. CASE block[s] = "there"
    <2>1. Fetched(s) = <<"flv", s>>
      BY <1>1 DEF Fetched
    <2>2. Fetched(s)[1] = "flv" /\ Fetched(s)[2] = s
      BY <2>1
    <2>3. Fetched(s) # Part /\ Fetched(s) # Mixed
      BY <2>2, MarkFacts
    <2> QED BY <1>1, <2>2, <2>3 DEF Converted
  <1>2. CASE block[s] # "there"
    <2>1. Fetched(s) = Page /\ Page[1] = "page" /\ Page # Part /\ Page # Mixed
      BY <1>2, MarkFacts DEF Fetched
    <2>2. Converted(Page) = {Nothing}
      BY <2>1 DEF Converted
    <2> QED BY <1>2, <2>1, <2>2
  <1> QED BY <1>1, <1>2

\* The file a command is going to write does not exist.
LEMMA CleanTarget ==
    ASSUME Base, Swept, Opened, Alone, NEW w \in Worker, pc[w][2] = "open", Ch(w) \notin spoilt
    PROVE  disk[Target(w)] = Nothing /\ writers[Target(w)] = {}
  <1>1. pc[w] # Idle
    BY IdleFacts
  <1>2. PICK f \in File : f = Target(w) /\ f[1] = job[w].seg /\ ChannelOf[f[1]] = Ch(w)
    BY <1>1, BusyFacts DEF Base, Ch
  <1>3. \A v \in Worker : pc[v] # Idle /\ job[v].seg = f[1] => v = w
    BY <1>1, <1>2 DEF Alone, Ch
  <1>4. ~Owes(w, f)
    <2>1. Svc(w) = "ts" /\ pc[w][1] = "convert" => Target(w) = <<job[w].seg, "ts">>
      BY DEF Target
    <2>2. Svc(w) = "ts" /\ pc[w][1] = "convert" => f[2] # "flv"
      BY <1>2, <2>1
    <2> QED BY <2>2 DEF Owes
  <1>5. disk[f] = Nothing
    <2>1. \A v \in Worker : ~Owes(v, f)
      BY <1>3, <1>4 DEF Owes
    <2> QED BY <1>2, <2>1 DEF Swept, Alone
  <1>6. ASSUME NEW v \in writers[f] PROVE FALSE
    <2>1. v \in Worker
      BY <1>6 DEF Base, Types
    <2>2. pc[v][2] = "close" /\ Target(v) = f
      BY <1>6, <2>1 DEF Opened
    <2>3. pc[v] # Idle
      BY <2>2, IdleFacts
    <2>4. job[v].seg = f[1]
      BY <2>1, <2>2, <2>3, BusyFacts DEF Base
    <2> QED BY <1>3, <2>1, <2>2, <2>3, <2>4
  <1> QED BY <1>2, <1>5, <1>6

LEMMA ResultStays ==
    ASSUME Grown, NEW v \in Worker, pc'[v][1] = pc[v][1], job'[v].seg = job[v].seg,
           block'[job[v].seg] = block[job[v].seg], NEW d, Result(v, d)
    PROVE  Result(v, d)'
  <1>1. Fetched(job[v].seg)' = Fetched(job[v].seg)
    BY DEF Fetched
  <1>2. PICK c : c = Ch(v) /\ c = Ch(v)'
    BY DEF Ch
  <1>3. Substitute(d, c) => Substitute(d, c)'
    BY SubstituteStays
  <1>4. Substitute(d, c)' <=> Substitute(d, Ch(v))'
    BY <1>2 DEF Substitute
  <1>5. CASE pc[v][1] \in {"curl", "symbol", "meta"}
    BY <1>1, <1>5 DEF Result
  <1>6. CASE pc[v][1] = "hold"
    BY <1>6 DEF Result
  <1>7. CASE pc[v][1] = "convert"
    BY <1>7 DEF Result
  <1>8. CASE pc[v][1] \notin {"curl", "symbol", "meta", "hold", "convert"}
    BY <1>2, <1>3, <1>4, <1>8 DEF Result
  <1> QED BY <1>5, <1>6, <1>7, <1>8

\* A step in which v, its block and its files stay as they are.
LEMMA SoundFrame ==
    ASSUME Base, Grown, NEW v \in Worker, Sound(v), pc'[v] = pc[v],
           job'[v].seg = job[v].seg, job'[v].svc = job[v].svc, stream'[v] = stream[v],
           block'[job[v].seg] = block[job[v].seg],
           \A f \in File : f[1] = job[v].seg =>
               disk'[f] = disk[f] /\ (writers[f] = {v} => writers'[f] = {v})
    PROVE  Sound(v)'
  <1> SUFFICES ASSUME pc[v] # Idle, Ch(v)' \notin spoilt' PROVE Reason(v)' /\ InHand(v)'
    BY DEF Sound
  <1>1. Ch(v) \notin spoilt /\ Svc(v)' = Svc(v)
    BY DEF Grown, Ch, Svc
  <1>2. Reason(v) /\ InHand(v)
    BY <1>1 DEF Sound
  <1>3. Target(v)' = Target(v) /\ Target(v) \in File /\ Target(v)[1] = job[v].seg /\ job[v].seg \in Seg
    BY OwesSame, BusyFacts DEF Base
  <1>4. disk'[Target(v)] = disk[Target(v)]
        /\ (writers[Target(v)] = {v} => writers'[Target(v)] = {v})
    BY <1>3
  <1>5. \A d : Result(v, d) => Result(v, d)'
    BY ResultStays
  <1>6. disk'[<<job[v].seg, "flv">>] = disk[<<job[v].seg, "flv">>]
    <2>1. <<job[v].seg, "flv">> \in File /\ <<job[v].seg, "flv">>[1] = job[v].seg
      BY <1>3 DEF File
    <2> QED BY <2>1
  <1>7. Fetched(job[v].seg)' = Fetched(job[v].seg)
    BY DEF Fetched
  <1>8. Reason(v)'
    BY <1>2 DEF Reason
  <1>9. InHand(v)'
    <2>1. PICK x : x = stream[v]
      OBVIOUS
    <2>2. PICK y : y = disk[Target(v)]
      OBVIOUS
    <2>3. (Result(v, x)' <=> Result(v, stream[v])') /\ (Result(v, y)' <=> Result(v, disk[Target(v)])')
      BY <1>3, <1>4, <2>1, <2>2 DEF Result, Substitute
    <2>4. /\ pc[v][2] = "close" => /\ Result(v, stream[v])'
                                   /\ writers'[Target(v)'] = {v} /\ disk'[Target(v)'] = Part
          /\ pc[v][2] = "read" => Result(v, disk[Target(v)])'
          /\ pc[v][2] \in {"rm_flv", "remove"} => Result(v, stream[v])'
          /\ pc[v] = <<"last", "open">> /\ Svc(v) = "ts" => Result(v, stream[v])'
      BY <1>2, <1>3, <1>4, <1>5, <2>1, <2>2, <2>3 DEF InHand
    <2>5. /\ pc[v] = <<"convert", "open">> /\ Svc(v) = "ts"
                => disk'[<<job'[v].seg, "flv">>] = Fetched(job[v].seg)'
          /\ pc[v][2] = "mkdir" => pc[v][1] = First(Svc(v))
          /\ pc[v][1] = "curl" => pc[v][2] \in {"mkdir", "open", "close"}
      BY <1>2, <1>6, <1>7 DEF InHand
    <2> QED BY <1>1, <1>3, <2>4, <2>5 DEF InHand
  <1> QED BY <1>8, <1>9

\* The same for a step of another process, w, which touches files of its own
\* segment only.
LEMMA SoundOther ==
    ASSUME Base, Grown, Alone, Progress, NEW w \in Worker, NEW v \in Worker \ {w}, pc'[v] = pc[v],
           job'[v].seg = job[v].seg, job'[v].svc = job[v].svc, stream'[v] = stream[v],
           UNCHANGED block,
           \A f \in File : f[1] # job[w].seg => disk'[f] = disk[f] /\ writers'[f] = writers[f]
    PROVE  Sound(v)'
  <1>1. CASE pc[v] = Idle
    BY <1>1 DEF Sound
  <1>2. CASE pc[v] # Idle /\ job[v].seg = job[w].seg
    <2>1. Ch(v) \in spoilt
      BY <1>2 DEF Alone
    <2> QED BY <2>1 DEF Sound, Grown, Ch
  <1>3. CASE pc[v] # Idle /\ job[v].seg # job[w].seg
    <2>1. \A f \in File : f[1] = job[v].seg => disk'[f] = disk[f] /\ writers'[f] = writers[f]
      BY <1>3
    <2> QED BY <2>1, SoundFrame DEF Progress
  <1> QED BY <1>1, <1>2, <1>3

\* What a command finds is what its stage has to give.
LEMMA SourcesResult ==
    ASSUME Base, Spares, NEW w \in Worker, pc[w][2] = "open", Ch(w) \notin spoilt,
           Reason(w), InHand(w), NEW d \in Sources(w)
    PROVE  Result(w, d) /\ (pc[w][1] = "curl" => d # Nothing)
  <1> DEFINE s == job[w].seg
  <1>0. pc[w] # Idle
    BY IdleFacts
  <1>1. s \in Seg /\ Ch(w) \in Channel /\ pc[w][1] \in Stages /\ Placed(w) /\ pc[w] = <<pc[w][1], pc[w][2]>>
    BY <1>0, BusyFacts, PlacesFacts DEF Base
  <1>2. CASE pc[w][1] \in {"curl", "symbol", "meta"}
    <2>1. d = Fetched(s) /\ Fetched(s) # Nothing
      BY <1>1, <1>2, FetchedType DEF Sources, Base
    <2> QED BY <1>2, <2>1 DEF Result
  <1>3. CASE pc[w][1] = "hold"
    BY <1>3 DEF Sources, Reason, Result
  <1>4. CASE pc[w][1] = "convert"
    <2>1. d \in Converted(Fetched(s))
      <3>1. CASE Svc(w) = "ts"
        BY <1>1, <1>4, <3>1 DEF Sources, InHand
      <3>2. CASE Svc(w) # "ts"
        BY <1>4, <3>2 DEF Sources
      <3> QED BY <3>1, <3>2
    <2> QED BY <1>1, <1>4, <2>1, ConvertedFetched DEF Result, Base
  <1>5. CASE pc[w][1] = "last" /\ Svc(w) = "ts"
    <2>1. d = stream[w]
      BY <1>5 DEF Sources
    <2>2. Result(w, stream[w])
      BY <1>1, <1>5 DEF InHand
    <2> QED BY <1>5, <2>1, <2>2
  <1>6. CASE pc[w][1] = "last" /\ Svc(w) # "ts"
    <2>1. PICK u \in Seg : u = last[w][Ch(w)]
      BY <1>0, <1>1, <1>6 DEF Placed
    <2>2. u \in Normal(Ch(w)) /\ block[u] # "not_yet" /\ BlockKind[u] = "normal"
      BY <1>1, <2>1, JobFacts DEF Spares, Spare, Normal
    <2>3. d \in Converted(Fetched(u))
      BY <1>6, <2>1 DEF Sources
    <2>4. d = IF block[u] = "there" THEN <<"media", u>> ELSE Nothing
      BY <2>2, <2>3, ConvertedFetched DEF Base
    <2>5. block[u] \in {"there", "gone"}
      BY <2>2 DEF Base, Types
    <2>6. Substitute(d, Ch(w))
      BY <2>2, <2>4, <2>5 DEF Substitute
    <2> QED BY <1>6, <2>6 DEF Result
  <1> QED BY <1>1, <1>2, <1>3, <1>4, <1>5, <1>6 DEF Stages

\* The answer is right for a client, and may stand in when a process asked.
Proper(w, status, body) ==
    /\ RightFor([svc |-> Svc(w), seg |-> job[w].seg, status |-> status,
                 body |-> body, block |-> block[job[w].seg]])
    /\ job[w].from \in Worker => Substitute(body, Ch(w))

LEMMA AnsStays ==
    ASSUME Grown, RightAnswer,
           \A c \in Client : ans'[c] = ans[c] \/ ans'[c] = NoAnswer \/ ans'[c].block = "restart"
    PROVE  RightAnswer'
  <1> SUFFICES ASSUME NEW c \in Client, ans'[c] # NoAnswer, ans'[c].block # "restart",
                      ChannelOf[ans'[c].seg] \notin spoilt'
               PROVE  RightFor(ans[c])'
    BY DEF RightAnswer
  <1>1. PICK a : a = ans[c] /\ a = ans'[c]
    OBVIOUS
  <1>2. RightFor(a)
    BY <1>1 DEF RightAnswer, Grown
  <1>3. RightFor(a)'
    BY <1>2, RightForStays
  <1> QED BY <1>1, <1>3 DEF RightFor

LEMMA AnswerSound ==
    ASSUME Base, Grown, Alone, Progress, RightAnswer, NEW w \in Worker, pc[w] # Idle,
           NEW status, NEW body, Handed(w, status, body), UNCHANGED block,
           \A f \in File : f[1] # job[w].seg => disk'[f] = disk[f] /\ writers'[f] = writers[f],
           Ch(w) \notin spoilt' => Proper(w, status, body)
    PROVE  Progress' /\ RightAnswer'
  <1>1. ASSUME NEW v \in Worker PROVE Sound(v)'
    <2>1. CASE v = w
      BY <2>1 DEF Handed, Sound
    <2>2. CASE v # w /\ v # job[w].from
      <3>1. pc'[v] = pc[v] /\ job'[v] = job[v] /\ stream'[v] = stream[v]
        BY <2>2 DEF Handed
      <3> QED BY <2>2, <3>1, SoundOther
    <2>3. CASE v # w /\ v = job[w].from
      <3>1. pc[v] = <<"last", "wait">> /\ pc'[v] = <<"last", "open">> /\ job'[v] = job[v]
            /\ stream'[v] = body
        BY <2>3 DEF Handed
      <3>2. pc[v][1] = "last" /\ pc'[v][1] = "last" /\ pc'[v][2] = "open" /\ pc[v] # Idle
        BY <3>1, IdleFacts
      <3>3. Waited(job[w])
        BY DEF Base, Order
      <3>4. Ch(v) = Ch(w) /\ Ch(v)' = Ch(w)
        BY <2>3, <3>1, <3>3 DEF Waited, Ch
      <3> SUFFICES ASSUME Ch(v)' \notin spoilt' PROVE Reason(v)' /\ InHand(v)'
        BY DEF Sound
      <3>5. Reason(v) /\ Substitute(body, Ch(w))
        BY <2>3, <3>2, <3>4 DEF Progress, Sound, Proper, Grown
      <3>6. Reason(v)'
        BY <3>1, <3>2, <3>5 DEF Reason
      <3>7. PICK c : c = Ch(w) /\ c = Ch(v)'
        BY <3>4
      <3>8. Substitute(body, c)'
        <4>1. Substitute(body, c)
          BY <3>5, <3>7
        <4> QED BY <4>1, SubstituteStays
      <3>9. Result(v, stream[v])'
        BY <3>1, <3>2, <3>7, <3>8 DEF Result, Substitute
      <3>10. pc'[v] # <<"convert", "open">>
        BY <3>1
      <3>11. InHand(v)'
        BY <3>2, <3>9, <3>10 DEF InHand
      <3> QED BY <3>6, <3>11
    <2> QED BY <2>1, <2>2, <2>3
  <1>2. ASSUME NEW c \in Client, ans'[c] # NoAnswer, ans'[c].block # "restart",
               ChannelOf[ans'[c].seg] \notin spoilt'
        PROVE  RightFor(ans[c])'
    <2>1. PICK a : a = ans'[c]
      OBVIOUS
    <2>2. CASE c = job[w].from
      <3>1. a = [svc |-> Svc(w), seg |-> job[w].seg, status |-> status,
                 body |-> body, block |-> block[job[w].seg]]
        BY <2>1, <2>2 DEF Handed
      <3>2. a.seg = job[w].seg
        BY <3>1
      <3>3. RightFor(a)
        BY <1>2, <2>1, <3>1, <3>2 DEF Proper, Ch
      <3>4. RightFor(a)'
        BY <3>3, RightForStays
      <3> QED BY <2>1, <3>4 DEF RightFor
    <2>3. CASE c # job[w].from
      <3>1. a = ans[c]
        BY <2>1, <2>3 DEF Handed
      <3>2. RightFor(a)
        BY <1>2, <2>1, <3>1 DEF RightAnswer, Grown
      <3>3. RightFor(a)'
        BY <3>2, RightForStays
      <3> QED BY <2>1, <3>3 DEF RightFor
    <2> QED BY <2>2, <2>3
  <1> QED BY <1>1, <1>2 DEF Progress, RightAnswer

\* The last step of a stage, when the bytes are what the stage has to give: the
\* answer is a proper one, or there is a reason for the next stage.
Concludes(w) ==
    \E status \in {"200", "404", "500", "502"}, body \in Data :
        Answer(w, status, body) /\ Proper(w, status, body)

Continues(w) ==
    \E l \in {<<"symbol", "open">>, <<"hold", "open">>, <<"last", "ask">>, <<"last", "open">>} :
        /\ Goto(w, l) /\ UNCHANGED <<ans, job, stream>>
        /\ l[1] = "symbol" => block[job[w].seg] # "there" \/ BlockKind[job[w].seg] # "normal"
        /\ l[1] = "hold" => block[job[w].seg] = "there" /\ BlockKind[job[w].seg] # "normal"
        /\ l[1] = "last" => block[job[w].seg] = "there" /\ BlockKind[job[w].seg] = "hold"
        /\ l = <<"last", "open">> => Svc(w) # "ts"

LEMMA RemoveConcludes ==
    ASSUME Base, NEW w \in Worker, Remove(w), Ch(w) \notin spoilt, Reason(w),
           Result(w, stream[w]), pc[w][1] # "curl", Fit(job[w])
    PROVE  /\ Concludes(w) \/ Continues(w)
           /\ \/ UNCHANGED last
              \/ /\ last' = [last EXCEPT ![w][Ch(w)] = job[w].seg]
                 /\ Spare(job[w].seg, Ch(w))
  <1> DEFINE s == job[w].seg
  <1>0. pc[w] # Idle /\ pc[w][2] = "remove" /\ stream[w] \in Data
    BY IdleFacts DEF Remove, Base, Types
  <1>1. /\ s \in Seg /\ Ch(w) = ChannelOf[s] /\ pc[w][1] \in Stages /\ Svc(w) \in Services
        /\ (pc[w][1] = "meta" <=> Svc(w) = "manifest") /\ Waited(job[w])
    BY <1>0, BusyFacts DEF Base, Placed, Ch
  <1>2. /\ block[s] \in {"not_yet", "there", "gone"} /\ BlockKind[s] \in {"normal", "hold", "blank"}
    BY <1>1, TranscoderAssumption DEF Base, Types
  <1>3. job[w].from \in Worker => BlockKind[s] = "normal" /\ block[s] # "not_yet" /\ s \in Normal(Ch(w))
    BY <1>1 DEF Fit, Spare, Normal
  <1>4. BlockKind[s] = "normal" => s \in Normal(Ch(w))
    BY <1>1 DEF Normal
  <1>5. Nothing \in Data
    BY DataFacts
  <1>6. CASE pc[w][1] = "convert"
    <2>1. Converted200(w)
      BY <1>6 DEF Remove
    <2>2. stream[w] = IF block[s] = "there" /\ BlockKind[s] = "normal" THEN <<"media", s>> ELSE Nothing
      BY <1>6 DEF Result
    <2>3. CASE stream[w] = Nothing
      <3>1. block[s] # "there" \/ BlockKind[s] # "normal"
        <4>1. <<"media", s>>[1] = "media"
          OBVIOUS
        <4> QED BY <2>2, <2>3, <4>1, MarkFacts
      <3>2. Goto(w, <<"symbol", "open">>) /\ UNCHANGED <<ans, job, stream, last>>
        BY <2>1, <2>3 DEF Converted200
      <3>3. Continues(w)
        BY <3>1, <3>2 DEF Continues
      <3> QED BY <3>2, <3>3
    <2>4. CASE stream[w] # Nothing
      <3>1. block[s] = "there" /\ BlockKind[s] = "normal" /\ stream[w] = <<"media", s>>
        BY <2>2, <2>4
      <3>2. Answer(w, "200", stream[w]) /\ last' = [last EXCEPT ![w][Ch(w)] = s]
        BY <2>1, <2>4 DEF Converted200
      <3>3. Svc(w) # "manifest"
        BY <1>1, <1>6
      <3>4. Proper(w, "200", stream[w])
        BY <1>4, <3>1, <3>3 DEF Proper, RightFor, Substitute
      <3>5. Spare(s, Ch(w))
        BY <1>4, <3>1 DEF Spare
      <3> QED BY <1>0, <3>2, <3>4, <3>5 DEF Concludes
    <2> QED BY <2>3, <2>4
  <1>7. CASE pc[w][1] = "symbol"
    <2>1. Symbol(w) /\ UNCHANGED last /\ Svc(w) # "manifest"
      BY <1>1, <1>7 DEF Remove, Symbol
    <2>2. stream[w] = Fetched(s) /\ Fetched(s) # Nothing
      BY <1>1, <1>7, FetchedType DEF Result, Base
    <2>3. block[s] # "there" \/ BlockKind[s] # "normal"
      BY <1>7 DEF Reason
    <2>4. CASE block[s] = "there"
      <3>1. stream[w] = <<"flv", s>>
        BY <2>2, <2>4 DEF Fetched
      <3>2. stream[w][1] = "flv"
        BY <3>1
      <3>3. Begins(stream[w], "flv") = {TRUE}
        BY <3>2, MarkFacts DEF Begins
      <3>4. Goto(w, <<"hold", "open">>) /\ UNCHANGED <<ans, job, stream>>
        BY <2>1, <2>2, <3>3 DEF Symbol
      <3>5. Continues(w)
        BY <2>3, <2>4, <3>4 DEF Continues
      <3> QED BY <2>1, <3>5
    <2>5. CASE block[s] # "there"
      <3>1. stream[w] = Page
        BY <2>2, <2>5 DEF Fetched
      <3>2. Begins(stream[w], "flv") = {FALSE}
        BY <3>1, MarkFacts DEF Begins
      <3>3. Answer(w, "404", Nothing)
        BY <2>1, <2>2, <3>2 DEF Symbol
      <3>4. job[w].from \in Worker => Substitute(Nothing, Ch(w))
        BY <1>2, <1>3, <2>5 DEF Substitute
      <3>5. Proper(w, "404", Nothing)
        BY <2>1, <2>5, <3>4 DEF Proper, RightFor
      <3> QED BY <1>5, <2>1, <3>3, <3>5 DEF Concludes
    <2> QED BY <2>4, <2>5
  <1>8. CASE pc[w][1] = "hold"
    <2>1. Hold(w) /\ UNCHANGED last /\ Svc(w) # "manifest"
      BY <1>1, <1>8 DEF Remove, Hold
    <2>2. block[s] = "there" /\ BlockKind[s] # "normal" /\ stream[w] = <<"symbol", s>>
      BY <1>8 DEF Reason, Result
    <2>3. stream[w][1] = "symbol" /\ stream[w][2] = s
      BY <2>2
    <2>4. stream[w] # Nothing /\ stream[w] # Part /\ stream[w] # Mixed
      BY <2>3, MarkFacts
    <2>5. IsHold(stream[w]) = {BlockKind[s] = "hold"}
      BY <2>3, <2>4 DEF IsHold
    <2>6. job[w].from \notin Worker
      BY <1>3, <2>2
    <2>7. CASE BlockKind[s] = "blank"
      <3>1. Answer(w, "200", Nothing)
        BY <2>1, <2>4, <2>5, <2>7 DEF Hold
      <3>2. Proper(w, "200", Nothing)
        BY <2>1, <2>2, <2>6, <2>7 DEF Proper, RightFor
      <3> QED BY <1>5, <2>1, <3>1, <3>2 DEF Concludes
    <2>8. CASE BlockKind[s] = "hold" /\ last[w][Ch(w)] = NoSeg
      <3>1. Answer(w, "502", Nothing)
        BY <2>1, <2>4, <2>5, <2>8 DEF Hold
      <3>2. Proper(w, "502", Nothing)
        BY <2>1, <2>2, <2>6, <2>8 DEF Proper, RightFor
      <3> QED BY <1>5, <2>1, <3>1, <3>2 DEF Concludes
    <2>9. CASE BlockKind[s] = "hold" /\ last[w][Ch(w)] # NoSeg
      <3>1. Goto(w, <<"last", IF Svc(w) = "ts" THEN "ask" ELSE "open">>) /\ UNCHANGED <<ans, job, stream>>
        BY <2>1, <2>4, <2>5, <2>9 DEF Hold
      <3>2. CASE Svc(w) = "ts"
        <4>1. Goto(w, <<"last", "ask">>)
          BY <3>1, <3>2
        <4> QED BY <2>1, <2>2, <2>9, <3>1, <4>1 DEF Continues
      <3>3. CASE Svc(w) # "ts"
        <4>1. Goto(w, <<"last", "open">>)
          BY <3>1, <3>3
        <4> QED BY <2>1, <2>2, <2>9, <3>1, <3>3, <4>1 DEF Continues
      <3> QED BY <3>2, <3>3
    <2> QED BY <1>2, <2>2, <2>7, <2>8, <2>9
  <1>9. CASE pc[w][1] = "meta"
    <2>1. Meta(w) /\ UNCHANGED last /\ Svc(w) = "manifest"
      BY <1>1, <1>9 DEF Remove, Meta
    <2>2. stream[w] = Fetched(s) /\ Fetched(s) # Nothing
      BY <1>1, <1>9, FetchedType DEF Result, Base
    <2>3. job[w].from \notin Worker
      BY <1>1, <2>1 DEF Waited, Svc
    <2>4. CASE block[s] = "there"
      <3>1. stream[w] = <<"flv", s>>
        BY <2>2, <2>4 DEF Fetched
      <3>2. stream[w][1] = "flv" /\ stream[w][2] = s
        BY <3>1
      <3>3. Begins(stream[w], "flv") = {TRUE}
        BY <3>2, MarkFacts DEF Begins
      <3>4. Answer(w, "200", <<"meta", s>>)
        BY <2>1, <2>2, <3>2, <3>3 DEF Meta
      <3>5. Proper(w, "200", <<"meta", s>>)
        BY <2>1, <2>3, <2>4 DEF Proper, RightFor
      <3>6. <<"meta", s>> \in Data
        BY <1>1, DataFacts
      <3> QED BY <2>1, <3>4, <3>5, <3>6 DEF Concludes
    <2>5. CASE block[s] # "there"
      <3>1. stream[w] = Page
        BY <2>2, <2>5 DEF Fetched
      <3>2. Begins(stream[w], "flv") = {FALSE}
        BY <3>1, MarkFacts DEF Begins
      <3>3. Answer(w, "200", <<"meta", NoSeg>>)
        BY <2>1, <2>2, <3>2 DEF Meta
      <3>4. Proper(w, "200", <<"meta", NoSeg>>)
        BY <2>1, <2>3, <2>5 DEF Proper, RightFor
      <3>5. <<"meta", NoSeg>> \in Data
        BY DataFacts
      <3> QED BY <2>1, <3>3, <3>4, <3>5 DEF Concludes
    <2> QED BY <2>4, <2>5
  <1>10. CASE pc[w][1] = "last"
    <2>1. Answer(w, "200", stream[w]) /\ UNCHANGED last /\ Svc(w) # "manifest"
      BY <1>1, <1>10 DEF Remove
    <2>2. block[s] = "there" /\ BlockKind[s] = "hold" /\ Substitute(stream[w], ChannelOf[s])
      BY <1>1, <1>10 DEF Reason, Result
    <2>3. job[w].from \notin Worker
      BY <1>3, <2>2
    <2>4. Proper(w, "200", stream[w])
      BY <2>1, <2>2, <2>3 DEF Proper, RightFor, Substitute
    <2> QED BY <1>0, <2>1, <2>4 DEF Concludes
  <1> QED BY <1>1, <1>6, <1>7, <1>8, <1>9, <1>10 DEF Stages

LEMMA FitsStep ==
    ASSUME Grown, \A w \in Worker : Fit(job'[w]),
           \A p \in Pools : \A i \in DOMAIN backlog'[p] : Fit(backlog'[p][i])
    PROVE  Fits'
  <1>1. ASSUME NEW w \in Worker PROVE Fit(job[w])'
    <2>1. PICK r : r = job'[w]
      OBVIOUS
    <2>2. Fit(r)'
      BY <2>1, FitStays
    <2> QED BY <2>1, <2>2 DEF Fit, Spare, Normal
  <1>2. ASSUME NEW p \in Pools, NEW i \in DOMAIN backlog'[p] PROVE Fit(backlog[p][i])'
    <2>1. PICK r : r = backlog'[p][i]
      OBVIOUS
    <2>2. Fit(r)'
      BY <2>1, FitStays
    <2> QED BY <2>1, <2>2 DEF Fit, Spare, Normal
  <1> QED BY <1>1, <1>2 DEF Fits

LEMMA FitsNext ==
    ASSUME Base, Grown, Spares, Fits, [Next]_vars
    PROVE  Fits'
  <1> USE DEF Base
  <1>j. \A w \in Worker : Fit(job[w])
    BY DEF Fits
  <1>q. \A p \in Pools : \A i \in DOMAIN backlog[p] : Fit(backlog[p][i])
    BY DEF Fits
  <1>n. Fit(NoJob)
    BY JobFacts DEF Fit
  <1>s. ASSUME UNCHANGED <<job, backlog>> PROVE Fits'
    BY <1>s, <1>j, <1>q, FitsStep
  <1>a. ASSUME NEW w \in Worker, UNCHANGED backlog, NEW status, NEW body, Handed(w, status, body)
        PROVE  Fits'
    <2>1. \A v \in Worker : job'[v] = job[v] \/ job'[v] = NoJob
      BY <1>a DEF Handed
    <2>2. \A v \in Worker : Fit(job'[v])
      BY <1>j, <1>n, <2>1
    <2> QED BY <1>a, <1>q, <2>2, FitsStep
  <1>1. ASSUME NEW s \in Seg, Move(s) PROVE Fits'
    BY <1>1, <1>s DEF Move, process
  <1>2. ASSUME NEW a \in Ask, Request(a) PROVE Fits'
    <2>1. a \in [from : Client, svc : Services, seg : Seg]
      BY TranscoderAssumption
    <2>2. a \in Requests /\ a.from \notin Worker /\ a.svc \in Services
      BY <2>1, JobFacts DEF Requests
    <2>3. Fit(a)
      BY <2>2 DEF Fit
    <2>4. Pool(a.svc) \in Pools
      BY <2>2, PoolFacts
    <2>5. /\ backlog \in [Pools -> Seq(Requests)] /\ UNCHANGED job
          /\ backlog' = [backlog EXCEPT ![Pool(a.svc)] = Append(@, a)]
      BY <1>2 DEF Request, process, Types
    <2>6. \A p \in Pools : \A i \in DOMAIN backlog'[p] :
             backlog'[p][i] = a \/ (i \in DOMAIN backlog[p] /\ backlog'[p][i] = backlog[p][i])
      BY <2>2, <2>4, <2>5, AppendFacts
    <2>7. \A p \in Pools : \A i \in DOMAIN backlog'[p] : Fit(backlog'[p][i])
      BY <1>q, <2>3, <2>6
    <2> QED BY <1>j, <2>5, <2>7, FitsStep
  <1>3. ASSUME NEW w \in Worker, Accept(w) PROVE Fits'
    <2>1. PICK r : Taken(w, r)
      BY <1>3, AcceptFacts
    <2>2. PoolOf[w] \in Pools
      BY TranscoderAssumption DEF Pools
    <2>3. Fit(r)
      BY <1>q, <2>1, <2>2 DEF Taken
    <2>4. \A v \in Worker : Fit(job'[v])
      BY <1>j, <2>1, <2>3 DEF Taken
    <2>5. \A p \in Pools : \A i \in DOMAIN backlog'[p] : \E j \in DOMAIN backlog[p] :
              backlog'[p][i] = backlog[p][j]
      BY <2>1 DEF Taken
    <2>6. \A p \in Pools : \A i \in DOMAIN backlog'[p] : Fit(backlog'[p][i])
      BY <1>q, <2>5
    <2> QED BY <2>4, <2>6, FitsStep
  <1>4. ASSUME NEW w \in Worker, Mkdir(w) PROVE Fits'
    <2>1. UNCHANGED backlog /\ pc[w][2] = "mkdir"
      BY <1>4 DEF Mkdir
    <2>2. CASE Ch(w) \in dirs
      <3>1. Answer(w, "500", Page) /\ Page \in Data
        BY <1>4, <2>2, DataFacts DEF Mkdir
      <3>2. Handed(w, "500", Page)
        BY <2>1, <3>1, AnswerFacts
      <3> QED BY <1>a, <2>1, <3>2
    <2>3. CASE Ch(w) \notin dirs
      BY <1>4, <1>s, <2>1, <2>3 DEF Mkdir
    <2> QED BY <2>2, <2>3
  <1>5. ASSUME NEW w \in Worker, Open(w) \/ Read(w) \/ RemoveFlv(w) \/ Close(w) \/ Cut(w) PROVE Fits'
    BY <1>5, <1>s DEF Open, Read, RemoveFlv, Close, Cut, Leave
  <1>6. ASSUME NEW w \in Worker, Remove(w) PROVE Fits'
    <2>1. UNCHANGED backlog /\ pc[w][2] = "remove" /\ (Replies(w) \/ Goes(w))
      BY <1>6, RemoveFacts DEF Remove
    <2>2. CASE Replies(w)
      <3>1. PICK status \in {"200", "404", "500", "502"}, body \in Data : Answer(w, status, body)
        BY <2>2 DEF Replies
      <3>2. Handed(w, status, body)
        BY <2>1, <3>1, AnswerFacts
      <3> QED BY <1>a, <2>1, <3>2
    <2>3. CASE Goes(w)
      BY <1>s, <2>1, <2>3 DEF Goes
    <2> QED BY <2>1, <2>2, <2>3
  <1>7. ASSUME NEW w \in Worker, AskLast(w) PROVE Fits'
    <2>1. PICK r : r = [from |-> w, svc |-> "ts", seg |-> last[w][Ch(w)]]
      OBVIOUS
    <2>2. /\ pc[w] = <<"last", "ask">> /\ UNCHANGED job
          /\ backlog' = [backlog EXCEPT !["ts"] = Append(@, r)]
      BY <1>7, <2>1 DEF AskLast
    <2>3. pc[w] # Idle /\ pc[w][1] = "last" /\ pc[w][2] = "ask"
      BY <2>2, IdleFacts
    <2>4. Ch(w) \in Channel /\ last[w][Ch(w)] \in Seg
      BY <2>3, BusyFacts DEF Placed
    <2>5. ChannelOf[last[w][Ch(w)]] = Ch(w) /\ last[w][Ch(w)] # NoSeg
      BY <2>4, JobFacts DEF Kept
    <2>6. r \in Requests /\ r.seg = last[w][Ch(w)]
      BY <2>1, <2>4 DEF Requests, Services
    <2>7. Fit(r)
      BY <2>4, <2>5, <2>6 DEF Fit, Spares
    <2>8. backlog \in [Pools -> Seq(Requests)] /\ "ts" \in Pools
      BY DEF Types, Pools
    <2>9. \A p \in Pools : \A i \in DOMAIN backlog'[p] :
             backlog'[p][i] = r \/ (i \in DOMAIN backlog[p] /\ backlog'[p][i] = backlog[p][i])
      BY <2>2, <2>6, <2>8, AppendFacts
    <2>10. \A p \in Pools : \A i \in DOMAIN backlog'[p] : Fit(backlog'[p][i])
      BY <1>q, <2>7, <2>9
    <2> QED BY <1>j, <2>2, <2>10, FitsStep
  <1>8. ASSUME NEW w \in Worker, Timeout(w) PROVE Fits'
    <2>1. \A r, e : Fit(r) /\ e.seg = r.seg /\ e.from = (IF r.from = w THEN Nobody ELSE r.from) => Fit(e)
      BY JobFacts DEF Fit
    <2>2. \A v \in Worker : /\ job'[v].seg = job[v].seg
                            /\ job'[v].from = IF job[v].from = w THEN Nobody ELSE job[v].from
      BY <1>8, TimeoutFacts
    <2>3. /\ \A p \in Pools : p # "ts" => backlog'[p] = backlog[p]
          /\ DOMAIN backlog'["ts"] = DOMAIN backlog["ts"]
          /\ \A i \in DOMAIN backlog["ts"] :
                /\ backlog'["ts"][i].seg = backlog["ts"][i].seg
                /\ backlog'["ts"][i].from = IF backlog["ts"][i].from = w THEN Nobody
                                            ELSE backlog["ts"][i].from
      BY <1>8, TimeoutFacts
    <2>4. \A v \in Worker : Fit(job'[v])
      BY <1>j, <2>1, <2>2
    <2>5. "ts" \in Pools
      BY DEF Pools
    <2>6. \A i \in DOMAIN backlog'["ts"] : Fit(backlog'["ts"][i])
      BY <1>q, <2>1, <2>3, <2>5
    <2>7. \A p \in Pools : \A i \in DOMAIN backlog'[p] : Fit(backlog'[p][i])
      BY <1>q, <2>3, <2>6
    <2> QED BY <2>4, <2>7, FitsStep
  <1>9. ASSUME NEW p \in Pools, Restart(p) PROVE Fits'
    <2>1. /\ \A w \in Worker : job'[w] = NoJob \/ job'[w] = job[w]
          /\ backlog'[p] = <<>> /\ \A q \in Pools : q # p => backlog'[q] = backlog[q]
      BY <1>9, RestartFacts
    <2>2. \A v \in Worker : Fit(job'[v])
      BY <1>j, <1>n, <2>1
    <2>3. \A q \in Pools : \A i \in DOMAIN backlog'[q] : Fit(backlog'[q][i])
      BY <1>q, <2>1
    <2> QED BY <2>2, <2>3, FitsStep
  <1>10. CASE UNCHANGED vars
    BY <1>10, <1>s DEF vars, process
  <1>11. ASSUME NEW w \in Worker, Work(w) \/ Cut(w) PROVE Fits'
    BY <1>11, <1>3, <1>4, <1>5, <1>6, <1>7, <1>8 DEF Work
  <1> QED BY <1>1, <1>2, <1>9, <1>10, <1>11 DEF Next, Pools

\* A process remembers a segment that it has converted.
LEMMA SparesNext ==
    ASSUME Base, Grown, Progress, Spares, Fits, [Next]_vars
    PROVE  Spares'
  <1> USE DEF Base
  <1>g. \A s, c : Spare(s, c) => Spare(s, c)'
    BY DEF Spare, Normal, Grown
  <1>f. ASSUME \A w \in Worker, c \in Channel \ spoilt' :
                   last'[w][c] \in {last[w][c], NoSeg} \/ Spare(last'[w][c], c)
        PROVE  Spares'
    <2> SUFFICES ASSUME NEW w \in Worker, NEW c \in Channel \ spoilt', last'[w][c] # NoSeg
                 PROVE  Spare(last[w][c], c)'
      BY DEF Spares
    <2>1. PICK s : s = last'[w][c]
      OBVIOUS
    <2>2. Spare(s, c)
      BY <1>f, <2>1 DEF Spares, Grown
    <2>3. Spare(s, c)'
      BY <1>g, <2>2
    <2> QED BY <2>1, <2>3 DEF Spare, Normal
  <1>s. ASSUME UNCHANGED last PROVE Spares'
    BY <1>s, <1>f
  <1>1. ASSUME NEW w \in Worker, Remove(w) PROVE Spares'
    <2>1. pc[w] # Idle /\ pc[w][2] = "remove" /\ UNCHANGED spoilt
          /\ (UNCHANGED last \/ last' = [last EXCEPT ![w][Ch(w)] = job[w].seg])
      BY <1>1, RemoveFacts DEF Remove, history
    <2>2. Ch(w) \in Channel
      BY <2>1, BusyFacts
    <2>3. CASE UNCHANGED last
      BY <1>s, <2>3
    <2>4. CASE last' = [last EXCEPT ![w][Ch(w)] = job[w].seg] /\ ~UNCHANGED last
      <3>1. \A v \in Worker, c \in Channel : last'[v][c] = IF v = w /\ c = Ch(w) THEN job[w].seg ELSE last[v][c]
        BY <2>2, <2>4 DEF Types
      <3>2. CASE Ch(w) \in spoilt
        BY <1>f, <2>1, <3>1, <3>2
      <3>3. CASE Ch(w) \notin spoilt
        <4>1. Reason(w) /\ InHand(w)
          BY <2>1, <3>3 DEF Progress, Sound
        <4>2. Result(w, stream[w]) /\ pc[w][1] # "curl"
          BY <2>1, <4>1 DEF InHand
        <4>3. Spare(job[w].seg, Ch(w))
          BY <1>1, <2>4, <3>3, <4>1, <4>2, RemoveConcludes DEF Fits
        <4> QED BY <1>f, <3>1, <4>3
      <3> QED BY <3>2, <3>3
    <2> QED BY <2>1, <2>3, <2>4
  <1>2. ASSUME NEW w \in Worker, Work(w) \/ Cut(w) PROVE Spares'
    BY <1>1, <1>2, <1>s DEF Work, Accept, Mkdir, Open, Close, Cut, Leave, Read, RemoveFlv, AskLast, Timeout
  <1>3. ASSUME NEW p \in Pools, Restart(p) PROVE Spares'
    <2>1. \A w \in Worker, c \in Channel : last'[w][c] \in {last[w][c], NoSeg}
      BY <1>3, RestartFacts
    <2> QED BY <1>f, <2>1
  <1>4. ASSUME NEW s \in Seg, Move(s) PROVE Spares'
    BY <1>4, <1>s DEF Move, process
  <1>5. ASSUME NEW a \in Ask, Request(a) PROVE Spares'
    BY <1>5, <1>s DEF Request, process
  <1>6. CASE UNCHANGED vars
    BY <1>6, <1>s DEF vars, process
  <1> QED BY <1>2, <1>3, <1>4, <1>5, <1>6 DEF Next, Pools

LEMMA ProgressNext ==
    ASSUME Base, Base', Grown, Swept, Opened, Alone, Right, RightAnswer, [Next]_vars
    PROVE  Progress' /\ RightAnswer'
  <1> USE DEF Base
  <1>r. Progress /\ Spares /\ Fits
    BY DEF Right
  <1>n. ASSUME UNCHANGED ans PROVE RightAnswer'
    BY <1>n, AnsStays
  \* A step of w with its request, which touches only files of its segment.
  <1>w. ASSUME NEW w \in Worker, UNCHANGED <<ans, block, job>>, \E l : Goto(w, l),
               \A v \in Worker \ {w} : stream'[v] = stream[v],
               \A f \in File : f[1] # job[w].seg => disk'[f] = disk[f] /\ writers'[f] = writers[f],
               Ch(w) \notin spoilt' => Reason(w)' /\ InHand(w)'
        PROVE  Progress' /\ RightAnswer'
    <2>1. \A v \in Worker \ {w} : pc'[v] = pc[v]
      BY <1>w DEF Goto, Types
    <2>2. \A v \in Worker \ {w} : Sound(v)'
      BY <1>w, <1>r, <2>1, SoundOther
    <2>3. Sound(w)'
      BY <1>w DEF Sound, Ch
    <2> QED BY <1>n, <1>w, <2>2, <2>3 DEF Progress
  \* What is known of w in a channel without a spoilt request.
  <1>k. ASSUME NEW w \in Worker, pc[w] # Idle, Ch(w) \notin spoilt' PROVE Reason(w) /\ InHand(w) /\ Ch(w) \notin spoilt
    BY <1>k, <1>r DEF Progress, Sound, Grown
  <1>1. ASSUME NEW s \in Seg, Move(s) PROVE Progress' /\ RightAnswer'
    <2>1. /\ UNCHANGED <<ans, disk, writers, pc, job, stream>>
          /\ block' = [block EXCEPT ![s] = IF @ = "there" THEN "gone" ELSE "there"]
          /\ Spoil({t \in {s} : Busy(t)})
      BY <1>1 DEF Move, ramdisk, process
    <2>2. ASSUME NEW v \in Worker PROVE Sound(v)'
      <3>1. CASE pc[v] # Idle /\ job[v].seg = s
        <4>1. Busy(s)
          BY <3>1 DEF Busy
        <4>2. ChannelOf[s] \in spoilt'
          BY <2>1, <4>1 DEF Spoil
        <4> QED BY <2>1, <3>1, <4>2 DEF Sound, Ch
      <3>2. CASE pc[v] # Idle /\ job[v].seg # s
        <4>1. job[v].seg \in Seg
          BY <3>2, BusyFacts
        <4>2. block'[job[v].seg] = block[job[v].seg]
          BY <2>1, <3>2, <4>1 DEF Types
        <4> QED BY <1>r, <2>1, <4>2, SoundFrame DEF Progress
      <3>3. CASE pc[v] = Idle
        BY <2>1, <3>3 DEF Sound
      <3> QED BY <3>1, <3>2, <3>3
    <2> QED BY <1>n, <2>1, <2>2 DEF Progress
  <1>s. ASSUME UNCHANGED <<block, disk, writers, pc, job, stream>> PROVE Progress'
    BY <1>s, <1>r, SoundFrame DEF Progress
  <1>2. ASSUME NEW a \in Ask, Request(a) PROVE Progress' /\ RightAnswer'
    <2>1. UNCHANGED <<block, disk, writers, pc, job, stream>> /\ ans' = [ans EXCEPT ![a.from] = NoAnswer]
      BY <1>2 DEF Request, ramdisk, process
    <2>2. \A c \in Client : ans'[c] = ans[c] \/ ans'[c] = NoAnswer
      BY <2>1 DEF Types
    <2> QED BY <1>s, <2>1, <2>2, AnsStays
  <1>3. ASSUME NEW w \in Worker, Accept(w) PROVE Progress' /\ RightAnswer'
    <2>1. PICK r : Taken(w, r)
      BY <1>3, AcceptFacts
    <2>2. UNCHANGED <<block, ans, disk, writers>>
      BY <1>3 DEF Accept, ramdisk
    <2>3. \A v \in Worker \ {w} : job'[v] = job[v] /\ pc'[v] = pc[v] /\ stream'[v] = stream[v]
      BY <2>1 DEF Taken
    <2>4. \A v \in Worker \ {w} : Sound(v)'
      BY <1>r, <2>2, <2>3, SoundOther
    <2>5. /\ job'[w] = r /\ pc'[w][1] = First(r.svc) /\ pc'[w][2] \in {"open", "mkdir"}
      BY <2>1 DEF Taken
    <2>6. /\ First(r.svc) \in {"curl", "meta", "convert"} /\ (First(r.svc) = "convert" => r.svc # "ts")
      BY DEF First
    <2>7. pc'[w] = <<"last", "open">> => pc'[w][1] = "last"
      OBVIOUS
    <2>8. pc'[w] = <<"convert", "open">> => pc'[w][1] = "convert"
      OBVIOUS
    <2>9. Reason(w)' /\ InHand(w)'
      BY <2>5, <2>6, <2>7, <2>8 DEF Reason, InHand, Svc
    <2> QED BY <1>n, <2>2, <2>4, <2>9 DEF Progress, Sound
  <1>4. ASSUME NEW w \in Worker, Mkdir(w) PROVE Progress' /\ RightAnswer'
    <2>1. UNCHANGED <<block, disk, writers>> /\ pc[w][2] = "mkdir"
      BY <1>4 DEF Mkdir
    <2>2. pc[w] # Idle
      BY <2>1, IdleFacts
    <2>3. CASE Ch(w) \in dirs
      <3>1. Answer(w, "500", Page) /\ Page \in Data /\ Spoil({job[w].seg})
        BY <1>4, <2>3, DataFacts DEF Mkdir
      <3>2. Handed(w, "500", Page)
        BY <2>1, <3>1, AnswerFacts
      <3>3. Ch(w) \in spoilt'
        BY <3>1 DEF Ch, Spoil
      <3> QED BY <1>r, <2>1, <2>2, <3>2, <3>3, AnswerSound
    <2>4. CASE Ch(w) \notin dirs
      <3>1. UNCHANGED <<ans, job, stream>> /\ Goto(w, <<pc[w][1], "open">>)
        BY <1>4, <2>4 DEF Mkdir
      <3>2. pc'[w] = <<pc[w][1], "open">>
        BY <3>1 DEF Goto, Types
      <3>3. pc'[w][1] = pc[w][1] /\ pc'[w][2] = "open"
        BY <3>2
      <3>4. ASSUME Ch(w) \notin spoilt' PROVE Reason(w)' /\ InHand(w)'
        <4>1. InHand(w)
          BY <1>k, <2>2, <3>4
        <4>2. pc[w][1] = First(Svc(w))
          BY <2>1, <4>1 DEF InHand
        <4>3. /\ First(Svc(w)) \in {"curl", "meta", "convert"}
              /\ First(Svc(w)) = "convert" => Svc(w) # "ts"
          BY DEF First
        <4>4. pc'[w] = <<"last", "open">> => pc'[w][1] = "last"
          OBVIOUS
        <4>5. pc'[w] = <<"convert", "open">> => pc'[w][1] = "convert"
          OBVIOUS
        <4> QED BY <3>1, <3>3, <4>2, <4>3, <4>4, <4>5 DEF Reason, InHand, Svc
      <3> QED BY <1>w, <2>1, <3>1, <3>4
    <2> QED BY <2>3, <2>4
  <1>5. ASSUME NEW w \in Worker, Open(w) PROVE Progress' /\ RightAnswer'
    <2>1. UNCHANGED <<block, ans, job>> /\ pc[w][2] = "open"
      BY <1>5 DEF Open
    <2>2. pc[w] # Idle
      BY <2>1, IdleFacts
    <2>3. Target(w) \in File /\ Target(w)[1] = job[w].seg
      BY <2>2, BusyFacts
    <2>4. PICK d \in Sources(w) :
         /\ stream' = [stream EXCEPT ![w] = d]
         /\ IF d = Nothing THEN Goto(w, <<pc[w][1], "read">>) /\ UNCHANGED <<disk, writers>>
            ELSE /\ Goto(w, <<pc[w][1], "close">>)
                 /\ disk' = [disk EXCEPT ![Target(w)] =
                                IF writers[Target(w)] = {} THEN Part ELSE Mixed]
                 /\ writers' = [writers EXCEPT ![Target(w)] = @ \cup {w}]
      BY <1>5 DEF Open
    <2>5. stream'[w] = d /\ \A v \in Worker \ {w} : stream'[v] = stream[v]
      BY <2>4 DEF Types
    <2>6. \A f \in File : f[1] # job[w].seg => disk'[f] = disk[f] /\ writers'[f] = writers[f]
      BY <2>3, <2>4 DEF Types
    <2>7. ASSUME Ch(w) \notin spoilt' PROVE Reason(w)' /\ InHand(w)'
      <3>1. Reason(w) /\ InHand(w) /\ Ch(w) \notin spoilt
        BY <1>k, <2>2, <2>7
      <3>2. Result(w, d) /\ (pc[w][1] = "curl" => d # Nothing)
        BY <1>r, <2>1, <3>1, SourcesResult
      <3>3. disk[Target(w)] = Nothing /\ writers[Target(w)] = {}
        BY <2>1, <3>1, CleanTarget
      <3>4. pc'[w] = <<pc[w][1], IF d = Nothing THEN "read" ELSE "close">>
        BY <2>4 DEF Goto, Types
      <3>5. pc'[w][1] = pc[w][1] /\ pc'[w][2] = IF d = Nothing THEN "read" ELSE "close"
        BY <3>4
      <3>6. Target(w)' = Target(w) /\ Reason(w)'
        BY <2>1, <3>1, <3>5 DEF Target, Svc, Reason
      <3>7. Result(w, d)'
        BY <2>1, <3>2, <3>5, ResultStays
      <3>8. pc'[w] # <<"last", "open">> /\ pc'[w] # <<"convert", "open">>
        BY <3>5
      <3>9. CASE d = Nothing
        <4>1. disk'[Target(w)'] = d
          BY <2>4, <3>3, <3>6, <3>9
        <4>2. Result(w, disk[Target(w)])'
          BY <3>7, <4>1 DEF Result, Substitute
        <4> QED BY <3>2, <3>5, <3>6, <3>8, <3>9, <4>2 DEF InHand
      <3>10. CASE d # Nothing
        <4>1. disk'[Target(w)'] = Part /\ writers'[Target(w)'] = {w}
          BY <2>3, <2>4, <3>3, <3>6, <3>10 DEF Types
        <4>2. Result(w, stream[w])'
          BY <2>5, <3>7 DEF Result, Substitute
        <4> QED BY <3>5, <3>6, <3>8, <3>10, <4>1, <4>2 DEF InHand
      <3> QED BY <3>9, <3>10
    <2>8. \E l : Goto(w, l)
      BY <2>4
    <2> QED BY <1>w, <2>1, <2>5, <2>6, <2>7, <2>8
  <1>6. ASSUME NEW w \in Worker, Close(w) \/ Cut(w) PROVE Progress' /\ RightAnswer'
    <2>1. PICK d \in {stream[w], Part} : Leave(w, d)
      BY <1>6 DEF Close, Cut
    <2>2. UNCHANGED <<block, ans, job, stream>> /\ pc[w][2] = "close" /\ \E l : Goto(w, l)
      BY <2>1 DEF Leave
    <2>3. pc[w] # Idle
      BY <2>2, IdleFacts
    <2>4. Target(w) \in File /\ Target(w)[1] = job[w].seg /\ job[w].seg \in Seg /\ Placed(w)
      BY <2>3, BusyFacts
    <2>5. \A f \in File : f[1] # job[w].seg => disk'[f] = disk[f] /\ writers'[f] = writers[f]
      BY <2>1, <2>4 DEF Leave, Types
    <2>6. ASSUME Ch(w) \notin spoilt' PROVE Reason(w)' /\ InHand(w)'
      <3>1. Reason(w) /\ InHand(w)
        BY <1>k, <2>3, <2>6
      <3>2. Close(w)
        <4>1. Cut(w) => Spoil({job[w].seg})
          BY DEF Cut
        <4>2. Cut(w) => Ch(w) \in spoilt'
          BY <4>1 DEF Spoil, Ch
        <4> QED BY <1>6, <2>6, <4>2
      <3>3. Leave(w, stream[w])
        BY <3>2 DEF Close
      <3>4. Result(w, stream[w]) /\ writers[Target(w)] = {w} /\ disk[Target(w)] = Part
        BY <2>2, <3>1 DEF InHand
      <3>5. disk'[Target(w)] = stream[w]
        <4>1. Part # Mixed
          BY MarkFacts
        <4> QED BY <2>4, <3>3, <3>4, <4>1 DEF Leave, Types
      <3>6. CASE pc[w][1] = "curl"
        <4>1. pc'[w] = <<"convert", "open">>
          BY <3>3, <3>6 DEF Leave, Goto, Types
        <4>2. pc'[w][1] = "convert" /\ pc'[w][2] = "open" /\ pc'[w] # <<"last", "open">>
          BY <4>1
        <4>3. Target(w) = <<job[w].seg, "flv">> /\ stream[w] = Fetched(job[w].seg)
          BY <3>4, <3>6 DEF Target, Result
        <4>4. disk'[<<job'[w].seg, "flv">>] = Fetched(job[w].seg)'
          BY <2>2, <3>5, <4>3 DEF Fetched
        <4>5. InHand(w)'
          BY <4>2, <4>4 DEF InHand
        <4> QED BY <4>2, <4>5 DEF Reason
      <3>7. CASE pc[w][1] # "curl"
        <4>1. pc'[w] = <<pc[w][1], "read">>
          BY <3>3, <3>7 DEF Leave, Goto, Types
        <4>2. pc'[w][1] = pc[w][1] /\ pc'[w][2] = "read" /\ pc'[w] # <<"last", "open">>
              /\ pc'[w] # <<"convert", "open">>
          BY <4>1
        <4>3. Target(w)' = Target(w) /\ Reason(w)'
          BY <2>2, <3>1, <4>2 DEF Target, Svc, Reason
        <4>4. PICK x : x = stream[w]
          OBVIOUS
        <4>5. Result(w, x)'
          BY <2>2, <3>4, <4>2, <4>4, ResultStays
        <4>6. Result(w, disk[Target(w)])'
          BY <3>5, <4>3, <4>4, <4>5 DEF Result, Substitute
        <4>7. InHand(w)'
          BY <3>7, <4>2, <4>6 DEF InHand
        <4> QED BY <4>3, <4>7
      <3> QED BY <3>6, <3>7
    <2> QED BY <1>w, <2>2, <2>5, <2>6
  <1>7. ASSUME NEW w \in Worker, Read(w) PROVE Progress' /\ RightAnswer'
    <2>1. UNCHANGED <<block, ans, job, disk, writers>> /\ pc[w][2] = "read"
          /\ stream' = [stream EXCEPT ![w] = disk[Target(w)]]
      BY <1>7 DEF Read, ramdisk
    <2>2. PICK n \in {"rm_flv", "remove"} : Goto(w, <<pc[w][1], n>>)
      BY <1>7 DEF Read
    <2>3. pc[w] # Idle
      BY <2>1, IdleFacts
    <2>4. pc'[w] = <<pc[w][1], n>>
      BY <2>2 DEF Goto, Types
    <2>5. pc'[w][1] = pc[w][1] /\ pc'[w][2] = n
      BY <2>4
    <2>6. stream'[w] = disk[Target(w)] /\ \A v \in Worker \ {w} : stream'[v] = stream[v]
      BY <2>1 DEF Types
    <2>7. ASSUME Ch(w) \notin spoilt' PROVE Reason(w)' /\ InHand(w)'
      <3>1. Reason(w) /\ InHand(w)
        BY <1>k, <2>3, <2>7
      <3>2. Result(w, disk[Target(w)]) /\ pc[w][1] # "curl"
        BY <2>1, <3>1 DEF InHand
      <3>3. PICK x : x = disk[Target(w)]
        OBVIOUS
      <3>4. Result(w, x)'
        BY <2>1, <2>5, <3>2, <3>3, ResultStays
      <3>5. Result(w, stream[w])'
        BY <2>6, <3>3, <3>4 DEF Result, Substitute
      <3>6. pc'[w] # <<"last", "open">> /\ pc'[w] # <<"convert", "open">>
        BY <2>2, <2>5
      <3>7. InHand(w)'
        BY <2>2, <2>5, <3>2, <3>5, <3>6 DEF InHand
      <3> QED BY <2>1, <2>5, <3>1, <3>7 DEF Reason
    <2> QED BY <1>w, <2>1, <2>2, <2>6, <2>7
  <1>8. ASSUME NEW w \in Worker, RemoveFlv(w) PROVE Progress' /\ RightAnswer'
    <2>1. UNCHANGED <<block, ans, job, stream>> /\ pc[w][2] = "rm_flv"
          /\ Unlink(<<job[w].seg, "flv">>) /\ Goto(w, <<"convert", "remove">>)
      BY <1>8 DEF RemoveFlv
    <2>2. pc[w] # Idle
      BY <2>1, IdleFacts
    <2>3. <<job[w].seg, "flv">> \in File /\ pc[w][1] = "convert"
      BY <2>1, <2>2, BusyFacts, PlacesFacts DEF File
    <2>4. pc'[w] = <<"convert", "remove">>
      BY <2>1 DEF Goto, Types
    <2>5. pc'[w][1] = pc[w][1] /\ pc'[w][2] = "remove"
          /\ pc'[w] # <<"last", "open">> /\ pc'[w] # <<"convert", "open">>
      BY <2>3, <2>4
    <2>6. \A f \in File : f[1] # job[w].seg => disk'[f] = disk[f] /\ writers'[f] = writers[f]
      <3>1. <<job[w].seg, "flv">>[1] = job[w].seg
        OBVIOUS
      <3> QED BY <2>1, <2>3, <3>1, UnlinkFacts
    <2>7. ASSUME Ch(w) \notin spoilt' PROVE Reason(w)' /\ InHand(w)'
      <3>1. Reason(w) /\ InHand(w)
        BY <1>k, <2>2, <2>7
      <3>2. Result(w, stream[w])
        BY <2>1, <3>1 DEF InHand
      <3>3. PICK x : x = stream[w]
        OBVIOUS
      <3>4. Result(w, x)'
        BY <2>1, <2>5, <3>2, <3>3, ResultStays
      <3>5. Result(w, stream[w])'
        BY <2>1, <3>3, <3>4 DEF Result, Substitute
      <3>6. InHand(w)'
        BY <2>3, <2>5, <3>5 DEF InHand
      <3> QED BY <2>3, <2>5, <3>6 DEF Reason
    <2> QED BY <1>w, <2>1, <2>6, <2>7
  <1>9. ASSUME NEW w \in Worker, Remove(w) PROVE Progress' /\ RightAnswer'
    <2>1. /\ pc[w] # Idle /\ Unlink(Target(w)) /\ (Replies(w) \/ Goes(w))
          /\ pc[w][2] = "remove" /\ UNCHANGED <<block, spoilt>>
      BY <1>9, RemoveFacts DEF Remove, history
    <2>2. Target(w) \in File /\ Target(w)[1] = job[w].seg
      BY <2>1, BusyFacts
    <2>3. \A f \in File : f[1] # job[w].seg => disk'[f] = disk[f] /\ writers'[f] = writers[f]
      BY <2>1, <2>2, UnlinkFacts
    <2>4. CASE Ch(w) \in spoilt
      <3>1. Ch(w) \in spoilt'
        BY <2>1, <2>4
      <3>2. CASE Replies(w)
        <4>1. PICK status \in {"200", "404", "500", "502"}, body \in Data : Answer(w, status, body)
          BY <3>2 DEF Replies
        <4>2. Handed(w, status, body)
          BY <2>1, <4>1, AnswerFacts
        <4> QED BY <1>r, <2>1, <2>3, <3>1, <4>2, AnswerSound
      <3>3. CASE Goes(w)
        <4>1. UNCHANGED <<ans, job, stream>> /\ \E l : Goto(w, l)
          BY <3>3 DEF Goes
        <4> QED BY <1>w, <2>1, <2>3, <3>1, <4>1
      <3> QED BY <2>1, <3>2, <3>3
    <2>5. CASE Ch(w) \notin spoilt
      <3>1. Reason(w) /\ InHand(w)
        BY <1>r, <2>1, <2>5 DEF Progress, Sound
      <3>2. Result(w, stream[w]) /\ pc[w][1] # "curl" /\ Fit(job[w])
        BY <1>r, <2>1, <3>1 DEF InHand, Fits
      <3>3. Concludes(w) \/ Continues(w)
        BY <1>9, <2>5, <3>1, <3>2, RemoveConcludes
      <3>4. CASE Concludes(w)
        <4>1. PICK status \in {"200", "404", "500", "502"}, body \in Data :
                  Answer(w, status, body) /\ Proper(w, status, body)
          BY <3>4 DEF Concludes
        <4>2. Handed(w, status, body)
          BY <2>1, <4>1, AnswerFacts
        <4> QED BY <1>r, <2>1, <2>3, <4>1, <4>2, AnswerSound
      <3>5. CASE Continues(w)
        <4>1. PICK l \in {<<"symbol", "open">>, <<"hold", "open">>, <<"last", "ask">>, <<"last", "open">>} :
                /\ Goto(w, l) /\ UNCHANGED <<ans, job, stream>>
                /\ l[1] = "symbol" => block[job[w].seg] # "there" \/ BlockKind[job[w].seg] # "normal"
                /\ l[1] = "hold" => block[job[w].seg] = "there" /\ BlockKind[job[w].seg] # "normal"
                /\ l[1] = "last" => block[job[w].seg] = "there" /\ BlockKind[job[w].seg] = "hold"
                /\ l = <<"last", "open">> => Svc(w) # "ts"
          BY <3>5 DEF Continues
        <4>2. pc'[w] = l
          BY <4>1 DEF Goto, Types
        <4>3. l[2] \in {"open", "ask"} /\ l[1] \in {"symbol", "hold", "last"} /\ l # <<"convert", "open">>
          BY ONLY <4>1
        <4>4. Reason(w)'
          BY <2>1, <4>1, <4>2 DEF Reason
        <4>5. InHand(w)'
          BY <4>1, <4>2, <4>3 DEF InHand, Svc
        <4> QED BY <1>w, <2>1, <2>3, <4>1, <4>4, <4>5
      <3> QED BY <3>3, <3>4, <3>5
    <2> QED BY <2>4, <2>5
  <1>10. ASSUME NEW w \in Worker, AskLast(w) PROVE Progress' /\ RightAnswer'
    <2>1. /\ UNCHANGED <<block, ans, job, stream, disk, writers>>
          /\ Goto(w, <<"last", "wait">>) /\ pc[w] = <<"last", "ask">>
      BY <1>10 DEF AskLast, ramdisk
    <2>2. pc'[w] = <<"last", "wait">>
      BY <2>1 DEF Goto, Types
    <2>3. /\ pc[w] # Idle /\ pc[w][1] = "last" /\ pc'[w][1] = "last" /\ pc'[w][2] = "wait"
          /\ pc'[w] # <<"last", "open">> /\ pc'[w] # <<"convert", "open">>
      BY <2>1, <2>2, IdleFacts
    <2>4. ASSUME Ch(w) \notin spoilt' PROVE Reason(w)' /\ InHand(w)'
      <3>1. Reason(w)
        BY <1>k, <2>3, <2>4
      <3> QED BY <2>1, <2>3, <3>1 DEF Reason, InHand
    <2> QED BY <1>w, <2>1, <2>4
  <1>11. ASSUME NEW w \in Worker, Timeout(w) PROVE Progress' /\ RightAnswer'
    <2>1. UNCHANGED <<block, ans, disk, writers>> /\ gaveup' = TRUE
      BY <1>11 DEF Timeout, ramdisk
    <2>2. /\ pc[w] = <<"last", "wait">> /\ pc'[w] = <<"last", "open">> /\ stream'[w] = Page
          /\ \A v \in Worker \ {w} : pc'[v] = pc[v] /\ stream'[v] = stream[v]
          /\ \A v \in Worker : job'[v].seg = job[v].seg /\ job'[v].svc = job[v].svc
      BY <1>11, TimeoutFacts
    <2>3. \A v \in Worker \ {w} : Sound(v)'
      BY <1>r, <2>1, <2>2, SoundOther
    <2>4. /\ pc[w] # Idle /\ pc[w][1] = "last" /\ pc'[w][1] = "last" /\ pc'[w][2] = "open"
          /\ pc'[w] # <<"convert", "open">>
      BY <2>2, IdleFacts
    <2>5. ASSUME Ch(w)' \notin spoilt' PROVE Reason(w)' /\ InHand(w)'
      <3>1. Ch(w) \notin spoilt'
        BY <2>2, <2>5 DEF Ch
      <3>2. Reason(w)
        BY <1>k, <2>4, <3>1
      <3>3. Result(w, stream[w])'
        BY <2>1, <2>2, <2>4 DEF Result, Substitute
      <3> QED BY <2>1, <2>2, <2>4, <3>2, <3>3 DEF Reason, InHand
    <2>6. Sound(w)'
      BY <2>5 DEF Sound
    <2> QED BY <1>n, <2>1, <2>3, <2>6 DEF Progress
  <1>12. ASSUME NEW p \in Pools, Restart(p) PROVE Progress' /\ RightAnswer'
    <2>1. /\ UNCHANGED <<block, disk>>
          /\ \A w \in Worker : IF PoolOf[w] = p THEN pc'[w] = Idle
                 ELSE pc'[w] = pc[w] /\ job'[w] = job[w] /\ stream'[w] = stream[w]
          /\ \A f \in File, w \in Worker : w \in writers'[f] <=> w \in writers[f] /\ PoolOf[w] # p
          /\ \A c \in Client : ans'[c] = ans[c] \/ ans'[c].block = "restart"
      BY <1>12, RestartFacts
    <2>2. ASSUME NEW v \in Worker PROVE Sound(v)'
      <3>1. CASE PoolOf[v] = p
        BY <2>1, <3>1 DEF Sound
      <3>2. CASE PoolOf[v] # p
        <4>1. \A f \in File : writers[f] = {v} => writers'[f] = {v}
          <5>1. \A f \in File : writers'[f] \subseteq Worker
            BY DEF Types
          <5> QED BY <2>1, <3>2, <5>1
        <4> QED BY <1>r, <2>1, <3>2, <4>1, SoundFrame DEF Progress
      <3> QED BY <3>1, <3>2
    <2> QED BY <2>1, <2>2, AnsStays DEF Progress
  <1>13. CASE UNCHANGED vars
    BY <1>13, <1>n, <1>s DEF vars, ramdisk, process
  <1>14. ASSUME NEW w \in Worker, Work(w) \/ Cut(w) PROVE Progress' /\ RightAnswer'
    BY <1>14, <1>3, <1>4, <1>5, <1>6, <1>7, <1>8, <1>9, <1>10, <1>11 DEF Work
  <1> QED BY <1>1, <1>2, <1>12, <1>13, <1>14 DEF Next, Pools

LEMMA RightInit == Init => Opened /\ Alone /\ Right /\ RightAnswer
  <1> SUFFICES ASSUME Init PROVE Opened /\ Alone /\ Right /\ RightAnswer
    OBVIOUS
  <1>1. \A w \in Worker : pc[w] = Idle /\ job[w] = NoJob
    BY DEF Init
  <1>2. Opened /\ Alone
    BY <1>1 DEF Init, Opened, Alone
  <1>3. Progress
    BY <1>1 DEF Progress, Sound
  <1>4. Fits
    <2>1. \A p \in Pools : backlog[p] = <<>>
      BY DEF Init, Pools
    <2>2. \A w \in Worker : Fit(job[w])
      BY <1>1, JobFacts DEF Fit
    <2> QED BY <2>1, <2>2 DEF Fits
  <1>5. Spares
    <2> SUFFICES ASSUME NEW w \in Worker, NEW c \in Channel, last[w][c] # NoSeg
                 PROVE  Spare(last[w][c], c)
      BY DEF Spares
    <2>1. last[w][c] \in Normal(c) \ Late
      BY DEF Init
    <2>2. \A s \in Seg : s \notin Late => block[s] = "there"
      BY DEF Init
    <2> QED BY <2>1, <2>2 DEF Spare, Normal
  <1>6. RightAnswer
    BY DEF Init, RightAnswer
  <1> QED BY <1>2, <1>3, <1>4, <1>5, <1>6 DEF Right

\* As long as no two processes worked on one segment of a channel at the same
\* time, no transfer of it broke and no restart left files of it behind, every
\* answer for the channel is the one its block calls for: what the other
\* processes do to the ramdisk, and which of them was asked, cannot be seen.
THEOREM AnswersRight == Spec => []RightAnswer
  <1>1. Base /\ Base' /\ Swept /\ Opened /\ Alone /\ Right /\ RightAnswer /\ [Next]_vars
            => (Opened /\ Alone /\ Right /\ RightAnswer)'
    <2> SUFFICES ASSUME Base, Base', Swept, Opened, Alone, Right, RightAnswer, [Next]_vars
                 PROVE  (Opened /\ Alone /\ Right /\ RightAnswer)'
      OBVIOUS
    <2>1. Grown /\ Progress /\ Spares /\ Fits
      BY GrownNext DEF Right
    <2>2. Opened' /\ Alone'
      BY OpenedNext, AloneNext
    <2>3. Progress' /\ RightAnswer'
      BY <2>1, ProgressNext
    <2>4. Spares' /\ Fits'
      BY <2>1, SparesNext, FitsNext
    <2> QED BY <2>2, <2>3, <2>4 DEF Right
  <1> QED BY <1>1, RightInit, BaseHolds, SweptHolds, PTL DEF Spec
=============================================================================
