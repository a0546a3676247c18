---------------------------- MODULE BlockWriter ----------------------------
(***************************************************************************)
(* The block writer of a cutter worker (live/cutter/cutterworker/          *)
(* PieceWriter.cpp: CPieceWriter and CPPLBlockWriter), the thread that     *)
(* turns the pieces cut from a live stream into the files <id>.block, one  *)
(* per piece_scale_ seconds of wall clock, padding the timeline with       *)
(* special blocks when the stream is away.                                 *)
(*                                                                         *)
(* The stream reader posts work to the writer's io_service from its own    *)
(* thread; it is reduced here to the order in which it posts (a header     *)
(* piece, then data pieces and header updates, then an error, and again).  *)
(* The process may be killed at any step and started again: the blocks,    *)
(* directories and .tmp files on disk survive, nothing else does.          *)
(*                                                                         *)
(* Old directories are removed by another process, the cutter processor    *)
(* (cutterprocessor/main.cpp): all of them when it is started, and the     *)
(* last ones in every round of its loop.                                   *)
(*                                                                         *)
(* Times and block ids are seconds.  The content of a block is reduced to  *)
(* the connection its header and its data came from (0 for a special       *)
(* block).                                                                 *)
(***************************************************************************)
EXTENDS Integers, Sequences, FiniteSets

CONSTANTS Scale,      \* piece_scale_
          DirScale,   \* DIR_SCALE
          CheckScale, \* ID_CHECK_SCALE
          Cache,      \* cache_time
          Misses,     \* missing directories after which the sweep ends, 10
          Cap,        \* the limit of 50 in AsyncWritePiece
          Start,      \* the wall clock when the worker is first started
          MaxTime,    \* bound: the wall clock stops here
          MaxConn,    \* bound: connections the reader makes
          MaxPost,    \* bound: pieces the reader posts
          MaxCrash,   \* bound: how often the process is killed
          MaxSweep,   \* bound: sweeps of the cutter processor that find something
          MaxFail,    \* bound: file operations that fail
          MaxFault    \* bound: kills, failed operations and sweeps together

ASSUME WriterAssumption ==
    /\ Scale \in Nat \ {0} /\ DirScale \in Nat \ {0} /\ CheckScale \in Nat \ {0}
    /\ Cache \in Nat /\ Misses \in Nat /\ MaxSweep \in Nat
    /\ Cap \in Nat \ {0} /\ Start \in Nat /\ Start >= Scale
    /\ MaxTime \in Nat /\ MaxConn \in Nat \ {0} /\ MaxPost \in Nat
    /\ MaxCrash \in Nat /\ MaxFail \in Nat /\ MaxFault \in Nat

VARIABLES
    now,          \* GetUTC()
    alarm,        \* the one-second timer of the writer is due
    conn, phase,  \* the reader's connection, and what it posts next
    posts,        \* pieces posted so far
    ios,          \* the writer's io_service queue
    num, seen,    \* writing_piece_num_, and the value the writer loaded of it
    pc,           \* where the writer thread is
    task,         \* the piece it handles
    job, goal, till, \* the block it writes, what follows, end of the padding
    stat, cur, reader_ok, \* stat_, current_piece_id_, reader_ok_
    head,         \* the connection header_piece_ came from, 0 for none
    pq, dq,       \* ids in piece_file_queue_, ids in dir_queue_
    err, rounds,  \* error_value # 0, and calls of DecreasePiece since
    blocks, dirs, tmps, \* the disk: <id>.block, directories, <id>.block.tmp
    crashes, fails, sweeps, \* counters of the environment
    dropped,      \* history: AsyncWritePiece dropped a piece
    stale,        \* history: an update of an older connection was posted
    blind,        \* history: a restart found no block in the newest directory
    razed         \* history: a sweep took the directory being written, or one
                  \* that is ahead of the clock

reader == <<conn, phase, posts>>
queue  == <<ios, num, seen>>
flow   == <<task, job, goal, till>>
timeline == <<stat, cur, reader_ok, head>>
caches == <<pq, dq>>
error  == <<err, rounds>>
disk   == <<blocks, dirs, tmps>>
env    == <<crashes, fails, sweeps>>
hist   == <<dropped, stale, blind, razed>>
vars   == <<now, alarm, reader, queue, pc, flow, timeline, caches, error, disk,
            env, hist>>

\* What is posted to the io_service.
Task   == [kind : {"head", "data", "error", "update"}, conn : 1..MaxConn]
NoTask == [kind |-> "none", conn |-> 0]

Max(S) == CHOOSE x \in S : \A y \in S : x >= y
\* The one sequence that lists a finite set of numbers in ascending order.
Sorted(S) == {s \in [1..Cardinality(S) -> S] :
                /\ \A x \in S : \E i \in DOMAIN s : s[i] = x
                /\ \A i, j \in DOMAIN s : i < j => s[i] < s[j]}

Faulty == crashes + fails + sweeps < MaxFault

DirOf(id)   == id \div DirScale
InDir(S, d) == {id \in S : DirOf(id) = d}

\* piece_life_span_, which the constructor raises to two directories.
Life == IF 2 * DirScale > Cache THEN 2 * DirScale ELSE Cache

Expired(id) == now - id - Scale > Life

Align(t)    == (t \div Scale) * Scale
Lag(t, k)   == t - cur >= k * Scale     \* (int)(t - current_piece_id_) / piece_scale_ >= k
CheckLag    == IF Scale > 3 THEN 1 ELSE 3

Init ==
    /\ now = Start /\ alarm = FALSE
    /\ conn = 1 /\ phase = "head" /\ posts = 0
    /\ ios = <<>> /\ num = 0 /\ seen = 0
    /\ pc = "init" /\ task = NoTask /\ job = "pad" /\ goal = "idle" /\ till = 0
    /\ stat = "first" /\ cur = 0 /\ reader_ok = FALSE /\ head = 0
    /\ pq = {} /\ dq = <<>> /\ err = FALSE /\ rounds = 0
    /\ blocks = <<>> /\ dirs = {} /\ tmps = {}
    /\ crashes = 0 /\ fails = 0 /\ sweeps = 0 /\ dropped = FALSE /\ stale = FALSE
    /\ blind = FALSE /\ razed = FALSE

----------------------------------------------------------------------------
(* The reader's thread.  It runs once its constructor has run Init. *)

Up == pc # "init" /\ goal # "boot"

Post(t) == ios' = Append(ios, t)

\* AsyncWritePiece, of a header piece and of a data piece.
AsyncWritePiece(kind) ==
    /\ Up /\ posts < MaxPost /\ phase = kind
    /\ posts' = posts + 1 /\ phase' = "data"
    /\ IF num < Cap
       THEN num' = num + 1 /\ Post([kind |-> kind, conn |-> conn]) /\ UNCHANGED dropped
       ELSE dropped' = TRUE /\ UNCHANGED <<num, ios>>
    /\ UNCHANGED <<now, alarm, conn, seen, pc, flow, timeline, caches, error, disk,
                   env, stale, blind, razed>>

ReaderError ==
    /\ Up /\ conn < MaxConn
    /\ conn' = conn + 1 /\ phase' = "head"
    /\ Post([kind |-> "error", conn |-> conn])
    /\ UNCHANGED <<now, alarm, posts, num, seen, pc, flow, timeline, caches, error,
                   disk, env, hist>>

\* The reader may still keep a sequence header from the connection before.
AsyncUpdateHeader ==
    /\ Up /\ phase = "data" /\ posts < MaxPost
    /\ posts' = posts + 1
    /\ \E c \in {conn - 1, conn} \ {0} :
         /\ Post([kind |-> "update", conn |-> c])
         /\ stale' = (stale \/ c # conn)
    /\ UNCHANGED <<now, alarm, conn, phase, num, seen, pc, flow, timeline, caches,
                   error, disk, env, dropped, blind, razed>>

----------------------------------------------------------------------------
(* The writer's thread: taking work from the io_service. *)

\* Mutant: stat_ is not reset.
HandleReaderError_KeepStat ==
    /\ pc = "idle" /\ ios # <<>> /\ Head(ios).kind = "error"
    /\ ios' = Tail(ios)
    /\ reader_ok' = FALSE
    /\ till' = now /\ goal' = "idle"
    /\ pc' = IF cur # 0 THEN "pad" ELSE "idle"
    /\ UNCHANGED <<now, alarm, reader, num, seen, task, job, stat, cur, head, caches, error,
                   disk, env, hist>>

HandleReaderError ==
    /\ pc = "idle" /\ ios # <<>> /\ Head(ios).kind = "error"
    /\ ios' = Tail(ios)
    /\ reader_ok' = FALSE /\ stat' = "first"
    /\ till' = now /\ goal' = "idle"
    /\ pc' = IF cur # 0 THEN "pad" ELSE "idle"
    /\ UNCHANGED <<now, alarm, reader, num, seen, task, job, cur, head, caches, error,
                   disk, env, hist>>

\* The tags of another connection in header_piece_ are left mixed: 0.
HandleUpdateHeader ==
    /\ pc = "idle" /\ ios # <<>> /\ Head(ios).kind = "update"
    /\ ios' = Tail(ios)
    /\ head' = IF head = Head(ios).conn THEN head ELSE 0
    /\ UNCHANGED <<now, alarm, reader, num, seen, pc, flow, stat, cur, reader_ok,
                   caches, error, disk, env, hist>>

HandleWritePiece ==
    /\ pc = "idle" /\ ios # <<>> /\ Head(ios).kind \in {"head", "data"}
    /\ ios' = Tail(ios) /\ task' = Head(ios)
    /\ reader_ok' = TRUE
    /\ seen' = num /\ pc' = "dec"
    /\ UNCHANGED <<now, alarm, reader, num, job, goal, till, stat, cur, head, caches,
                   error, disk, env, hist>>

\* --writing_piece_num_ races with the reader's ++: either may be lost.
Decremented == {seen - 1, num - 1} \cup (IF num > seen THEN {num} ELSE {})

\* The switch on stat_.
Dispatch ==
    /\ pc = "dec" /\ num' \in Decremented
    /\ CASE stat = "first" ->
              /\ head' = IF task.kind = "head" THEN task.conn ELSE 0
              /\ stat' = "second" /\ pc' = "idle"
              /\ UNCHANGED <<goal, cur>>
         [] stat = "second" /\ cur > now ->
              pc' = "idle" /\ UNCHANGED <<goal, stat, cur, head>>
         [] stat = "second" /\ cur <= now /\ cur > 0 ->
              pc' = "pad" /\ goal' = "normal" /\ UNCHANGED <<stat, cur, head>>
         [] stat = "second" /\ cur = 0 ->
              /\ cur' = Align(now) /\ stat' = "normal" /\ pc' = "normal"
              /\ UNCHANGED <<goal, head>>
         [] OTHER ->
              pc' = "normal" /\ UNCHANGED <<goal, stat, cur, head>>
    /\ UNCHANGED <<now, alarm, reader, ios, seen, task, job, till, reader_ok, caches,
                   error, disk, env, hist>>

\* Mutant: a writer ahead of the clock is not held back.
Normal_NoAhead ==
    /\ pc = "normal"
    /\ CASE cur % CheckScale = 0 /\ Lag(now, CheckLag) ->
              pc' = "pad" /\ goal' = "write" /\ UNCHANGED job
         [] OTHER -> pc' = "dir" /\ job' = "live" /\ UNCHANGED goal
    /\ UNCHANGED <<now, alarm, reader, queue, task, till, timeline, caches, error, disk,
                   env, hist>>

\* case STAT_NORMAL up to the write.
Normal ==
    /\ pc = "normal"
    /\ CASE cur > now + Scale -> pc' = "idle" /\ UNCHANGED <<goal, job>>
         [] cur <= now + Scale /\ cur % CheckScale = 0 /\ Lag(now, CheckLag) ->
              pc' = "pad" /\ goal' = "write" /\ UNCHANGED job
         [] OTHER -> pc' = "dir" /\ job' = "live" /\ UNCHANGED goal
    /\ UNCHANGED <<now, alarm, reader, queue, task, till, timeline, caches, error, disk,
                   env, hist>>

\* The padding loops: those of HandleReaderError, OnClockAlarm and Init run up
\* to the time they started, those of HandleWritePiece up to the clock.
Pad ==
    /\ pc = "pad"
    /\ IF Lag(IF goal \in {"idle", "boot"} THEN till ELSE now, 1)
       THEN pc' = "dir" /\ job' = "pad" /\ UNCHANGED <<goal, stat>>
       ELSE /\ goal' = "idle"
            /\ CASE goal = "normal" -> pc' = "normal" /\ stat' = "normal" /\ UNCHANGED job
                 [] goal = "write"  -> pc' = "dir" /\ job' = "live" /\ UNCHANGED stat
                 [] OTHER           -> pc' = "idle" /\ UNCHANGED <<job, stat>>
    /\ UNCHANGED <<now, alarm, reader, queue, task, till, cur, reader_ok, head, caches,
                   error, disk, env, hist>>

----------------------------------------------------------------------------
(* Writing one block, live or special. *)

NewDir == dq = <<>> \/ dq[Len(dq)] # DirOf(cur)

\* Mutant: piece_file_queue_ is not cleared.
GetFilePathName_KeepQueue ==
    /\ pc = "dir"
    /\ IF NewDir
       THEN /\ dirs' = dirs \cup {DirOf(cur)}
            /\ dq' = Append(dq, DirOf(cur)) /\ UNCHANGED pq
       ELSE UNCHANGED <<dirs, caches>>
    /\ pc' = "tmp"
    /\ UNCHANGED <<now, alarm, reader, queue, flow, timeline, error, blocks, tmps, env,
                   hist>>

\* GetFilePathName.
GetFilePathName ==
    /\ pc = "dir"
    /\ IF NewDir
       THEN /\ dirs' = dirs \cup {DirOf(cur)}
            /\ dq' = Append(dq, DirOf(cur)) /\ pq' = {}
       ELSE UNCHANGED <<dirs, caches>>
    /\ pc' = "tmp"
    /\ UNCHANGED <<now, alarm, reader, queue, flow, timeline, error, blocks, tmps, env,
                   hist>>

WriteTmp ==
    /\ pc = "tmp" /\ DirOf(cur) \in dirs
    /\ tmps' = tmps \cup {cur} /\ pc' = "rename"
    /\ UNCHANGED <<now, alarm, reader, queue, flow, timeline, caches, error, blocks,
                   dirs, env, hist>>

RemoveOld ==
    /\ pc = "rename" /\ DirOf(cur) \in dirs /\ cur \in DOMAIN blocks
    /\ blocks' = [id \in DOMAIN blocks \ {cur} |-> blocks[id]]
    /\ UNCHANGED <<now, alarm, reader, queue, pc, flow, timeline, caches, error, dirs,
                   tmps, env, hist>>

Content == IF job = "live" THEN [head |-> head, data |-> task.conn]
                           ELSE [head |-> 0, data |-> 0]

Rename ==
    /\ pc = "rename" /\ DirOf(cur) \in dirs /\ cur \notin DOMAIN blocks
    /\ blocks' = [id \in DOMAIN blocks \cup {cur} |->
                    IF id = cur THEN Content ELSE blocks[id]]
    /\ tmps' = tmps \ {cur} /\ pc' = "done"
    /\ UNCHANGED <<now, alarm, reader, queue, flow, timeline, caches, error, dirs, env,
                   hist>>

\* The directory was removed after GetFilePathName made sure of it.
DirGone ==
    /\ pc \in {"tmp", "rename"} /\ DirOf(cur) \notin dirs
    /\ err' = TRUE /\ pc' = "done"
    /\ UNCHANGED <<now, alarm, reader, queue, flow, timeline, caches, rounds, disk,
                   env, hist>>

\* A directory, a file or a rename that fails sets error_value.
Fail ==
    /\ pc \in {"dir", "tmp", "rename"} /\ fails < MaxFail /\ Faulty
    /\ fails' = fails + 1 /\ err' = TRUE /\ pc' = "done"
    /\ UNCHANGED <<now, alarm, reader, queue, flow, timeline, caches, rounds, disk,
                   crashes, sweeps, hist>>

\* Mutant: a special block does not move the id.
Written_Stay ==
    /\ pc = "done" /\ ~err
    /\ pq' = pq \cup {cur} /\ cur' = IF job = "pad" THEN cur ELSE cur + Scale
    /\ pc' = IF job = "pad" THEN "pad" ELSE "idle"
    /\ rounds' = 0
    /\ UNCHANGED <<now, alarm, reader, queue, flow, stat, reader_ok, head, dq, err, disk,
                   env, hist>>

\* No error: the block is queued and the id moves on.
Written ==
    /\ pc = "done" /\ ~err
    /\ pq' = pq \cup {cur} /\ cur' = cur + Scale
    /\ pc' = IF job = "pad" THEN "pad" ELSE "idle"
    /\ rounds' = 0
    /\ UNCHANGED <<now, alarm, reader, queue, flow, stat, reader_ok, head, dq, err, disk,
                   env, hist>>

\* DecreasePiece: the oldest blocks of the queue go, as many as make up the
\* size of the new one.
DecreasePiece ==
    \E gone \in SUBSET pq :
      /\ pq # {} => gone # {}
      /\ \A id \in gone, other \in pq \ gone : id < other
      /\ pq' = pq \ gone
      /\ blocks' = [id \in DOMAIN blocks \ gone |-> blocks[id]]

\* An error: blocks are removed for room, or the thread sleeps, and the file is
\* written again.  error_value is not reset in this loop.  removed_size starts
\* at 0 for a live block and is uninitialised for a special one.
Retry ==
    /\ pc = "done" /\ err
    /\ pc' = "dir"
    /\ \/ /\ rounds < 2 /\ rounds' = rounds + 1
          /\ DecreasePiece
       \/ /\ rounds = 2 \/ job = "pad"
          /\ UNCHANGED <<rounds, pq, blocks>>
    /\ UNCHANGED <<now, alarm, reader, queue, flow, timeline, dq, err, dirs, tmps, env,
                   hist>>

----------------------------------------------------------------------------
(* The clock, and a kill with the restart after it. *)

Tick ==
    /\ now < MaxTime
    /\ now' = now + 1 /\ alarm' = TRUE
    /\ UNCHANGED <<reader, queue, pc, flow, timeline, caches, error, disk, env, hist>>

OldDir(d) == now - d * DirScale > Life

\* Mutant: the timeline is not padded.
OnClockAlarm_NoPad ==
    /\ pc = "idle" /\ alarm /\ alarm' = FALSE
    /\ LET n == Cardinality({i \in 1..Len(dq) : \A j \in 1..i : OldDir(dq[j])})
       IN  dq' = SubSeq(dq, n + 1, Len(dq))
    /\ pq' = {id \in pq : ~Expired(id)}
    /\ blocks' = [id \in DOMAIN blocks \ (pq \ pq') |-> blocks[id]]
    /\ UNCHANGED <<pc, goal, till, now, reader, queue, task, job, timeline, error, dirs, tmps, env, hist>>

OnClockAlarm ==
    /\ pc = "idle" /\ alarm /\ alarm' = FALSE
    /\ LET n == Cardinality({i \in 1..Len(dq) : \A j \in 1..i : OldDir(dq[j])})
       IN  dq' = SubSeq(dq, n + 1, Len(dq))
    /\ pq' = {id \in pq : ~Expired(id)}
    /\ blocks' = [id \in DOMAIN blocks \ (pq \ pq') |-> blocks[id]]
    /\ IF ~reader_ok /\ cur # 0
       THEN pc' = "pad" /\ goal' = "idle" /\ till' = now
       ELSE UNCHANGED <<pc, goal, till>>
    /\ UNCHANGED <<now, reader, queue, task, job, timeline, error, dirs, tmps, env, hist>>

Crash ==
    /\ crashes < MaxCrash /\ Faulty /\ crashes' = crashes + 1
    /\ phase' = "head" /\ ios' = <<>> /\ num' = 0 /\ seen' = 0
    /\ pc' = "init" /\ alarm' = FALSE /\ task' = NoTask /\ job' = "pad" /\ goal' = "idle"
    /\ till' = 0 /\ stat' = "first" /\ cur' = 0 /\ reader_ok' = FALSE /\ head' = 0
    /\ pq' = {} /\ dq' = <<>> /\ err' = FALSE /\ rounds' = 0
    /\ conn' = IF conn < MaxConn THEN conn + 1 ELSE conn
    /\ UNCHANGED <<now, posts, disk, fails, sweeps, hist>>

\* Mutant: the worker does not resume where the last one stopped.
Scan_Forget ==
    /\ pc = "init"
    /\ dq' \in Sorted(dirs)
    /\ LET newest == Max(dirs)
           found  == IF dirs = {} THEN {} ELSE InDir(DOMAIN blocks, newest)
           kept   == {id \in found : ~Expired(id)}
       IN  /\ tmps' = IF dirs = {} THEN tmps ELSE tmps \ InDir(tmps, newest)
           /\ blocks' = [id \in DOMAIN blocks \ (found \ kept) |-> blocks[id]]
           /\ pq' = kept
           /\ cur' = 0
           /\ blind' = (blind \/ (kept = {} /\ DOMAIN blocks # {}))
    /\ till' = now
    /\ IF cur' > 0 THEN pc' = "pad" /\ goal' = "boot" ELSE pc' = "idle" /\ goal' = "idle"
    /\ UNCHANGED <<now, alarm, reader, queue, task, job, stat, reader_ok, head, error,
                   dirs, env, dropped, stale, razed>>

\* Mutant: it resumes at the last block instead of after it.
Scan_OffByOne ==
    /\ pc = "init"
    /\ dq' \in Sorted(dirs)
    /\ LET newest == Max(dirs)
           found  == IF dirs = {} THEN {} ELSE InDir(DOMAIN blocks, newest)
           kept   == {id \in found : ~Expired(id)}
       IN  /\ tmps' = IF dirs = {} THEN tmps ELSE tmps \ InDir(tmps, newest)
           /\ blocks' = [id \in DOMAIN blocks \ (found \ kept) |-> blocks[id]]
           /\ pq' = kept
           /\ cur' = IF kept = {} THEN 0 ELSE Align(Max(kept))
           /\ blind' = (blind \/ (kept = {} /\ DOMAIN blocks # {}))
    /\ till' = now
    /\ IF cur' > 0 THEN pc' = "pad" /\ goal' = "boot" ELSE pc' = "idle" /\ goal' = "idle"
    /\ UNCHANGED <<now, alarm, reader, queue, task, job, stat, reader_ok, head, error,
                   dirs, env, dropped, stale, razed>>

\* CPPLBlockWriter::Init: only the newest directory is looked at.
Scan ==
    /\ pc = "init"
    /\ dq' \in Sorted(dirs)
    /\ LET newest == Max(dirs)
           found  == IF dirs = {} THEN {} ELSE InDir(DOMAIN blocks, newest)
           kept   == {id \in found : ~Expired(id)}
       IN  /\ tmps' = IF dirs = {} THEN tmps ELSE tmps \ InDir(tmps, newest)
           /\ blocks' = [id \in DOMAIN blocks \ (found \ kept) |-> blocks[id]]
           /\ pq' = kept
           /\ cur' = IF kept = {} THEN 0 ELSE Align(Max(kept) + Scale)
           /\ blind' = (blind \/ (kept = {} /\ DOMAIN blocks # {}))
    /\ till' = now
    /\ IF cur' > 0 THEN pc' = "pad" /\ goal' = "boot" ELSE pc' = "idle" /\ goal' = "idle"
    /\ UNCHANGED <<now, alarm, reader, queue, task, job, stat, reader_ok, head, error,
                   dirs, env, dropped, stale, razed>>

----------------------------------------------------------------------------
(* The cutter processor removes directories, with all that is in them.     *)

\* The directory being written.
Current == {DirOf(id) : id \in pq} \cup (IF dq = <<>> THEN {} ELSE {dq[Len(dq)]})

RemoveAll(D) ==
    /\ D # {} /\ sweeps < MaxSweep /\ Faulty /\ sweeps' = sweeps + 1
    /\ dirs' = dirs \ D
    /\ blocks' = [id \in {i \in DOMAIN blocks : DirOf(i) \notin D} |-> blocks[id]]
    /\ tmps' = {id \in tmps : DirOf(id) \notin D}
    /\ razed' = (razed \/ \E d \in D : d * DirScale > now \/ d \in Current)
    /\ UNCHANGED <<now, alarm, reader, queue, pc, flow, timeline, caches, error,
                   crashes, fails, dropped, stale, blind>>

\* Mutant: the directory that is partly within the cache time goes as well.
Top_Partly == (now - Cache) \div DirScale

\* The last directory all of which is past the cache time.
Top == (now - Cache) \div DirScale - 1

\* In the loop: from there downwards, until Misses directories were missing.
Sweep ==
    RemoveAll({d \in dirs : d <= Top /\ Cardinality((d..Top) \ dirs) < Misses})

\* When the processor starts.  The difference is unsigned: a directory ahead
\* of the clock counts as one of great age.
SweepAtStart ==
    RemoveAll({d \in dirs : LET age == now - d * DirScale
                            IN age < 0 \/ age > Cache + DirScale})

Reader == AsyncWritePiece("head") \/ AsyncWritePiece("data") \/ ReaderError
          \/ AsyncUpdateHeader
Writer == \/ HandleReaderError \/ HandleUpdateHeader \/ HandleWritePiece \/ Dispatch
          \/ Normal \/ Pad \/ GetFilePathName \/ WriteTmp \/ RemoveOld \/ Rename
          \/ Written \/ Retry \/ DirGone \/ OnClockAlarm \/ Scan

Next == Reader \/ Writer \/ Fail \/ Tick \/ Crash \/ Sweep \/ SweepAtStart

\* The writer thread runs; the clock goes on.  Nothing is promised of the
\* stream, and a file operation need not fail.
Spec == Init /\ [][Next]_vars /\ WF_vars(Writer) /\ WF_vars(Tick)
----------------------------------------------------------------------------
(* Properties *)

\* Every variable stays in its domain.
TypeOK ==
    /\ now \in Nat /\ alarm \in BOOLEAN
    /\ conn \in 1..MaxConn /\ phase \in {"head", "data"} /\ posts \in 0..MaxPost
    /\ ios \in Seq(Task) /\ num \in Int /\ seen \in Int
    /\ pc \in {"init", "idle", "dec", "normal", "pad", "dir", "tmp", "rename", "done"}
    /\ task \in Task \cup {NoTask} /\ job \in {"live", "pad"}
    /\ goal \in {"idle", "boot", "normal", "write"} /\ till \in Nat
    /\ stat \in {"first", "second", "normal"} /\ cur \in Nat /\ reader_ok \in BOOLEAN
    /\ head \in 0..MaxConn
    /\ pq \in SUBSET Nat /\ dq \in Seq(Nat)
    /\ err \in BOOLEAN /\ rounds \in 0..2
    /\ DOMAIN blocks \in SUBSET Nat /\ dirs \in SUBSET Nat /\ tmps \in SUBSET Nat
    /\ crashes \in 0..MaxCrash /\ fails \in 0..MaxFail /\ sweeps \in 0..MaxSweep
    /\ dropped \in BOOLEAN /\ stale \in BOOLEAN
    /\ blind \in BOOLEAN /\ razed \in BOOLEAN

NoGap == \A i, j \in DOMAIN blocks :
           /\ i % Scale = 0
           /\ \A k \in i..j : k % Scale = 0 => k \in DOMAIN blocks \/ Expired(k)

\* The timeline on disk has no hole, across kills, restarts and the sweeps of
\* the cutter processor, as long as no file operation failed, no restart found
\* its newest directory empty and no sweep took the directory being written; but
\* for blocks that came to the end of their life, which the worker removes from
\* the directory being written while older directories wait for the sweep.
NoHoles == ~blind /\ ~razed /\ fails = 0 => NoGap

\* A block is written under an id that no file has yet: nothing published is
\* ever rewritten, across kills, restarts and sweeps, under the same provisos.
FreshId == pc = "rename" /\ ~blind /\ ~err => cur \notin DOMAIN blocks

\* The writer is never more than two blocks ahead of the clock, however fast
\* the stream delivers and wherever a restart resumes.
LiveEdge == cur <= now + 2 * Scale

\* Unless AsyncWritePiece dropped a piece or the reader posted a sequence header
\* of an older connection, every live block starts with the header of the
\* connection its data came from.
HeaderMatches == ~dropped /\ ~stale => \A id \in DOMAIN blocks : blocks[id].head = blocks[id].data

\* piece_file_queue_, from which blocks are removed for age or for room, names
\* only blocks that are on disk, in the directory being written, whatever the
\* other process removes; unless it took that directory.
QueueOnDisk == /\ ~razed => pq \subseteq DOMAIN blocks
               /\ \A id \in pq, other \in pq : DirOf(id) = DirOf(other)

\* While no file operation failed, a block is only removed for its age: by the
\* worker after piece_life_span_, by the cutter processor after cache_time.
NoEarlyRemoval ==
    [][~blind /\ ~razed' /\ fails = 0 =>
         \A id \in DOMAIN blocks : id \notin DOMAIN blocks' =>
             now - id > IF dirs' # dirs THEN Cache ELSE Life]_vars

\* While the stream is away the timeline is padded up to the clock.
PaddedWhenDown ==
    (cur # 0 /\ ~reader_ok) ~> (reader_ok \/ err \/ pc = "init" \/ ~Lag(now, 1))

\* The writer gets to the end of its queue again and again.
QueueDrains == []<>(ios = <<>> \/ err)

\* The comment on the retry, "Maybe disk is full, remove some piece.": once the
\* file can be written, the writer goes on to the next block.
WriteRecovers == err ~> ~err
============================================================================
