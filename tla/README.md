# A TLA+ model of xhome

xhome is a home camera service. A camera captures audio and video and talks to a
control server; live streams are relayed to media servers and cut into blocks on
disk, which web services convert and serve as segments; an Android application and a
small web service command the cameras. This directory models the parts of it
that keep state and run concurrently, checks them with TLC on small instances and
proves the safety properties of eight of the ten components with TLAPS, for instances of any size.

## 1. The system

| Component | Source | State it keeps | Operations | Hard behaviour |
|---|---|---|---|---|
| Frame ring and recorder | `camera/interface.c`, `AVdataTransfer.c` | a 2 MB array with three pointers, a mutex, a semaphore, the record file | `pushFrame`, `popFrame`, discard of the oldest frames, the recorder loop | several producers, wrap at the end of the array, full and empty look alike, post after unlock |
| Stream reader | `live/cutter/cutterworker/StreamReader.cpp` | the HTTP operation, the parser state, the piece being cut, time stamps | open, read, cut, clock alarm | timer against callback, reconnects, time stamps that jump and wrap |
| Block writer | `live/cutter/cutterworker/PieceWriter.cpp` | id of the next block, state, caches of files and directories; the files | write a piece, pad the timeline, expire blocks, resume after a restart | kill between two file operations, failing disk, a counter two threads change |
| Cutter processor | `live/cutter/cutterprocessor/main.cpp` | map of workers, table of pids, a count | read the list, start, close, restart | children die at any time, forks fail, the table is full, slots are renumbered |
| Directory sweep | `cutterprocessor/main.cpp:294-411` | the directories of all workers | remove at the start, remove in the loop | another process is writing in them; unsigned ages |
| Control server registry | `XHomeTCPServer`: `ServerHandler`, `XHomeChannelGroup` | map from serial numbers to channels, close listeners | register, forward, answer, close | handlers of several channels, a camera that returns before its old connection ends |
| Wire protocol | `Common`: `ProtocolUtil`; `XHomeTCPServer`: `CodecUtil`, `BinaryServerDecoder`, `TCPServer` | bytes received so far | encode, decode | messages in pieces, one decoder for all channels |
| FLV relay | `live/crtmpserver-717/scripts/flv_stream.py` | a queue and two events per server | pull, push, renew, drain | two threads on one queue, failures of any connection |
| Push script | `crtmpserver-717/scripts/push_streams.sh`, `rtmp_channel.py` | a pid file and its lock, the list as fetched, the ini file, the relay processes | mutual exclusion, fetch, compare, kill, rewrite, start | instances started by cron and by requests, killed at any command; failed fetches |
| Segment services | `vod/nginx-1.2.9/wsgi/` | temporary files shared by all processes, the last segment of each channel per process | fetch, convert, read, remove, substitute | requests for the same segment, a request to the own pool, broken transfers, kills |
| HTTP client and screen | `app/XhomeCamera`: `http/`, `CameraShowActivity` | one context per client, a thread per request, one dialog | send, retry in two loops, cancel, report | requests that share the context, failures before and after sending |
| Camera message handler, web service, Lua handlers, test clients, logging | see `PROJECT.json` | none that matters | | not modelled |
| crtmpserver, nginx, ffmpeg, universal image loader | vendored | | | third-party |

How they interact: capture threads and the recorder share the ring. The reader
posts to the writer's `io_service`; the two run on two threads of one worker
process, and one worker runs per channel as a child of the processor, which reads
the list of channels from a file. Camera and control server exchange messages of
the wire protocol; the server forwards a request of one client to the channel of
another. The relay's threads share queues and events only; one relay process per channel
is started and stopped by the push script. The segment services read the blocks
that the workers write and the processor removes.

What makes each part correct, in a sentence: the ring hands out the frames in
order and never one that was overwritten, and wakes the recorder for each; the
reader posts header, pieces and errors of its connections in order; the writer's
timeline has no hole and no block is written twice; the processor runs exactly the
listed channels; a camera that registered is found and nobody else gets its
requests; messages arrive as they were sent; every stream to a server starts with
its header; after an update exactly the listed channels are relayed; a viewer gets
the segment he asked for and no file is left; a POST reaches the server once and
the dialog goes away. `PROJECT.json` lists the hazards at their lines with the properties
that answer them.

## 2. The modules

The proofs about a module `M` are in `MProofs`, those about the two modules of the live
relay in `LiveProofs` (section 4); `MCM` instantiates `M` for TLC where a cfg alone cannot.

### FrameRing and FrameQueue
Addresses are offsets. `hdr[a]` is what a `FrameInfo_t` read at address `a` would
be: a frame, zeroes, or torn bytes, whose size field may then be anything. A
capture thread goes through `Lock`, `Enter`, `Discard`/`Exit`, `Wrap` and `Place`
(all under the mutex: the steps of `myallocate` are kept apart so that its loop
can fail to end) and `Post`; the recorder through `SemWait`, `Pop` and `Record`.
`frames` (what is really in the ring) and `damaged` (a frame of an empty ring was
freed, or the ring wrapped while empty) are history variables. `fwrite` is called
with items of `sizeof(char*)` bytes, so the file grows by `Word` bytes per byte
counted. The content of the bytes it reads past the allocation is left out.
`FrameQueue` is the abstract specification: a queue that loses frames only from its old
end. `FirstInFirstOut` is the refinement, under the mapping of the queue to the frames
in the ring (`Contents`), of the frame delivered last to `topframe` (`got`) and of a
broken queue to a damaged ring.

### StreamReader and ReaderProtocol
`op` is the outstanding asynchronous operation, `cancelled` whether the timer
cancelled it. Each callback of `on_content` is one action: `ReadHead`, `HeadTag`
and `HeadBody` while the header piece is collected, `DataTag` and `DataBody`
after it, `Partial` for a short read, `Lost` for an error. A tag is its type, its
time stamp and what its first bytes say. `out` is what one step posts. Time stamps
are kept modulo `2 * Half` (2^32 in the code). `ReaderProtocol` is the abstract
specification of what the writer is promised; `FollowsProtocol` is the refinement.

### BlockWriter
One action per posted handler (`HandleWritePiece`, `HandleReaderError`,
`HandleUpdateHeader`), then one per step that is visible on disk
(`GetFilePathName`, `WriteTmp`, `RemoveOld`, `Rename`) for live and special blocks alike,
`Fail` and `Retry` for the error loop, `OnClockAlarm` for the timer, `Crash` and
`Scan` for a kill and the next start. The reader is reduced to the order in which it
posts, that of `ReaderProtocol`. `writing_piece_num_` is changed by two threads without
a lock: the decrement is split into a read and a write, so that an increment
between the two is lost. `Sweep` and `SweepAtStart` are the cutter processor's removal
of old directories; `DirGone` is what the writer then meets. The worker's
`piece_life_span_` (`Life`) is raised to two directories, the sweep's `cache_time`
(`Cache`) is not. `razed` records that a sweep took the directory being written or
one ahead of the clock. A block's content is the connection its header and its data came from.

### Processor (MCProcessor)
The loop of `main` for the Linux build, one action per line of the list, per
worker closed and per child reaped. `procs` is the operating system's table of
children: running, told to stop, or dead and not yet reaped; a pid is free again
only after `waitpid`. `EditList`, `Die` and `Terminate` are the environment's and
interleave with every step.

### ChannelGroup (MCChannelGroup)
Netty runs the handlers and close listeners of one channel on one thread; each
call on the concurrent map, on the close future and on a channel is one step.
`listeners[c]` counts how often `remover` is registered with the close future of
`c`; once the future is done, `removeListener` has no effect. A device may register
under several numbers (`SerialsOf`). Three history variables: `newest`, `twofold`
(channels with two numbers) and `clash` (numbers two handlers worked on at once).

### WireProtocol (MCWireProtocol)
A unit is a four-byte integer, half of a long or a byte of a string. `encode` and
`decoder` are the code's loops over typed items; `Receive`, with the cumulation
buffer of Netty's `FrameDecoder`, is external; so are `ReceiveRace`, two threads at
the one buffer, and `Disconnect`, which throws the buffer away. `owner` and `mixed`
record whose bytes are in it and whether those of two channels have met; what follows
then is not explored. The length of a string is counted in
characters and written in bytes of its encoding (`Bytes`), as in the code.

### FlvRelay
Every test of and operation on a queue or an event is a step of the pull or of a
push thread. There is no clock: sleeps and blocking calls may take any time. Names that
PushStreams has too carry the prefix `Relay` or `relay_`, so that one module can extend both.

### PushStreams (MCPushStreams)
One step is one command of the script. `Truncate`, `Ps`, `Flock` and `Test` are
`push_mutex` (the redirection empties the pid file before anything else);
`Fetch`, `Compare`, `ParseXml`, `WriteIni`, `Clear`, `PushStart` and `StartRelay`
are `push_update` and `push_start`; `PushStop` is the stop command. `Kill` ends an
instance between any two commands, `RelayDies` a relay, `EditCms` changes the list.
`clash`, `overlap` and `torn` are history variables: an attempt was refused or met
another, two instances were past the mutex, the ini file was left empty.

### Transcoder (MCTranscoder)
One step is one command or one file operation of a process: `Mkdir`, `Open` and
`Close` of a download (other processes may have the file open too), `Cut` for a
transfer that breaks off, `Converted` by the external program, `Read`, `RemoveFlv`,
`Remove`, then the tests for a blank block or one on hold (`Symbol`, `Hold`) and
`AskLast`, a request to the own pool. Bytes are modelled by what they are and of
which segment. `Move` lets blocks appear and expire; `Timeout` is nginx's limit on a
nested request; `Restart` is the monitor's kill and start of a service. The
processes start with any segment of their channel already served. Clients and processes
are different parties (`TranscoderAssumption`): an answer goes to one or the other.

### HttpClient (MCHttpClient)
A request's thread goes through `Start`, `MakeRequest`, the external steps of the
Apache client (`Prepare` and `Transmit` set the attributes of the context that
`RetryHandler` reads, `Break` raises), `Caught` for the outer loop, `Respond`,
`Finish`, `Fail` and `End`. `NoBody` is the exception for a response without an
entity. `HandleMessage` is the looper of the screen. `excused` records a POST repeated
for a white-listed exception or on what another request left in the context.

## 3. The runs

Passing runs:

| Run | Instance | What it shows |
|---|---|---|
| `ring` | 8 bytes, frames of 3 and 5, two producers, five frames | until the ring is damaged every frame in it is intact, the ring implements `FrameQueue`, `pushFrame` returns and every frame leaves; no frame is ever without a token; the pointers stay in the array even after damage |
| `reader` | two connections, four tags, three time stamps around the wrap | at most one operation outstanding; header before data; the writer's protocol is kept; time does not step back at a reconnect; a silent connection is given up and a lost one opened again |
| `writer` | blocks of 2 s, directories of 4 s, cache time 2 s, eight seconds, four posts, queue limit 2, two of: a kill, a failing file operation, a sweep | no holes, no id used twice, at most two blocks ahead, header and data of one connection; the queue of removable files names files on disk in one directory |
| `writer_live` | blocks of 2 s, directories of 3 s, ten seconds, three posts, a kill or a sweep, two connections | the writer drains its queue and pads while the stream is away; neither process removes a block before its time |
| `processor` | three usable slots, four pids, four lists, one edit, two deaths, one failed fork or open | map, table and count agree; every running child is managed; only deleted ones are killed; after the last disturbance exactly the listed channels run |
| `group` | two connections of one camera and one of a device with two numbers, two messages each | a closed channel is never found and every entry has a listener; requests reach only the camera they name; a camera that returned stays registered when its old connection closes |
| `wire` | two channels at the shared decoder, three message sequences, every way of cutting them | decoded once, in order, intact, for the right channel; all of them; until the channels mix |
| `relay` | two servers, queues of three, two failures | no put on a full queue; a server that is away gets at most one piece; a header only in front |
| `push` | two instances at a time, four starts, two edits, one of: failed fetch, dead relay, killed instance | one instance at a time; no channel twice or with an old address; after a good run exactly the listed channels |
| `vod` | four processes of three services, two viewers, two requests, three segments of two channels, one of: broken transfer, block that comes or goes, restart, early timeout | right answers for whoever had the files to himself; never another channel; no file left; every request answered |
| `http` | a GET and a POST of one client, one retry per loop, one cancellation | no POST twice by a decision about itself; one result per request; the dialog goes away |

One run ends in a counterexample, against a statement of the repository (quoted in
`PROJECT.json` under findings): `writer_hang`. `error_value` is never reset in the
retry loop, so that after one failure the writer never leaves it.

Further behaviour of the code that the properties have to allow for, met while
modelling and listed with the hazards:

* At the wrap, `read_pos == write_pos` of an empty ring is taken for a full one and a
  frame that is not there is freed, although `interface.c:78` says the space is
  full; `damaged` records it.
* The recorder's `fwrite` has items of `sizeof(char*)` bytes (`AVdataTransfer.c:16`).
* The close listener removes whatever is registered under the number
  (`XHomeChannelGroup.java:28`): a close that overlaps the registration of the
  camera's new connection takes that one out.
* One `FrameDecoder`, which keeps the bytes received so far in a member, serves all
  channels, although `TCPServer.java:49` says that sharing is for handlers without
  stateful members: `mixed`.
* `cutterprocessor/main.cpp:306` computes ages unsigned: a processor that is started
  while a worker has just created the next directory removes that directory. A
  worker whose directory was removed fails to write, and then hangs as above.
* A refused attempt of `push_streams.sh` has already emptied the pid file
  (`push_streams.sh:135`), so the next one gets in although an instance runs.
* A killed `rtmp_channel.py` leaves an empty ini file (`rtmp_channel.py:74`).
* Two requests for one segment work on the same files (`wsgi_flv2ts.py:32`); a
  process may read the FLV file of another as the segment and record it as the
  last good one.
* A POST is repeated after it was sent when the exception is white-listed, or when
  another request of the client has changed the context (`RetryHandler.java:70`); a
  cancelled request leaves the dialog open; a body that breaks off is reported as a
  failure and then as a success (`AsyncHttpResponseHandler.java:228`); the failure
  is reported after the end, which `AsyncHttpResponseHandler.java:102` puts last.
* A worker killed between creating a directory and its first block forgets the
  timeline (`PieceWriter.cpp:1811`); `blind` records it.
* A worker that is late, or starts after a long time away, removes the expired blocks of
  the newest directory (`PieceWriter.cpp:1856`) while older directories are still
  there until the sweep: the blocks on disk then have a hole, of expired blocks only. The
  proof of `TimelineWhole` brought it up, TLC shows it on the instance of `writer_live`
  when `NoGap` does not allow for `Expired(k)`, and `NoHoles` does allow for it.
* A pending sequence header survives a reconnect (`StreamReader.cpp:510`); `stale`
  records it in the writer.
* The first piece of a connection is posted although `StreamReader.h:87` says it is dropped.
* A channel id listed with two addresses gets two workers from the second round on
  (`cutterprocessor/main.cpp:531`); the lists of the run name each id once.
* "Send done" is also the answer when the camera's connection was closed in the
  meantime (`ServerHandler.java:45`); `RoutedToCamera` says that this is the only case.
* `get_nowait` can raise in the handler that drains the queue and end the push
  thread (`flv_stream.py:264`), and a push thread that reconnects before the pull
  thread has emptied its queue starts with data (`flv_stream.py:229`).
* While no worker is counted, the processor does not call `waitpid`
  (`cutterprocessor/main.cpp:669`), so children that were told to stop stay zombies
  until a worker runs again.

### Bounds and why they are enough
Every bound is a constant named `Max...` and appears in the guard of the action it
bounds. The ring of 8 bytes wraps after two frames, and five frames take it around
twice with discards, for both sizes in every order. Four tags reach
a header, a cut and a cut that is skipped; two connections reach everything that
survives a reconnect. Eight seconds are four blocks in three directories, of which
the first is swept, so a kill, a failure or a sweep can fall before, in and after a
change of directory; the ten seconds and the shorter directories of `writer_live` reach
the end of the first blocks' life as well, before and after a sweep. Four posts are two connections with a header and a
piece each, or enough pieces of one to meet the limit and to run ahead of the clock. Three slots with lists of
up to three lines give every renumbering of slots
(first, middle, last), and the edit of one of the lists needs a fourth slot for a round. With four
pids, of which one must be left for a fork, a second edit could use up all
pids by unreaped children, which says nothing of a real system: hence one edit. A camera's old and new connection
and one other client are all the parties a registration or a request involves.
Two instances of the push script are what its mutex must keep apart, and four
starts let a third and a fourth meet what the first ones left; an edit changes an
address and adds a channel. Two processes of the segment service are the least that
can wait for each other, and the third and fourth share files with them. In `http`
the counter of what the server got stops at two.
`CHECK_DEADLOCK FALSE` is used where all bounded activity may be used up.

Symmetry is used for the two connections of one camera, which are only compared for
equality, and for the two instances of the push script, in safety runs.

### Fairness
Ring: the recorder, and a capture thread inside `pushFrame`, keep running; nobody
promises another call. Reader: the timer fires, and a cancelled operation
completes, which asio guarantees; nothing is promised of the network. Writer: its
thread runs and the clock advances. Processor: the loop never blocks (`WNOHANG`),
and a child that got `SIGTERM` ends, since the worker installs no handler for it. Wire: what was sent
arrives. Segment services: the kernel runs every process, the commands end (curl has
`-m 15`), and nginx gives up a request after its `uwsgi_read_timeout`. HTTP client: the pool
has a thread for every task, sockets have time limits, the looper handles its
messages. ChannelGroup, FlvRelay and PushStreams have no liveness property; `Served`
states the outcome of a run that ended.

Each module has a type invariant `TypeOK`. That of the ring is part of its run; the
others were checked on the instances above and, but for that of WireProtocol, are proved.

## 4. What is proved

Eight modules hold proofs; each EXTENDS the module or modules it is about. A theorem holds for
every value of the constants that satisfies the module's named assumption, and in
particular for every value of the bounds `Max...`: a bound only ends a run. Each
safety theorem rests on an inductive invariant, which was first checked by TLC on the
instances of section 3 and is then shown to hold initially and to be preserved by
every action, one step of the proof per action.

**FrameRingProofs** (any array, header and frame sizes that fit, any finite set of
capture threads).
* `TypeCorrect`: the pointers stay in the array in every interleaving, whatever a torn
  header says. `TypeInv` adds `Holder`: a thread between lock and unlock holds the
  mutex and carries a frame.
* `TokensSuffice` (`TokenPerFrame`): a counting argument. `Place` adds a frame and a
  posting thread, `Post` turns the thread into a token, `SemWait` the token into a
  woken recorder, `Pop` uses it up; discards only take frames away.
* `FramesIntact` (`Intact`): until the ring is damaged. The invariant is the geometry
  of the ring: `Linear` while `read_pos` is not beyond `write_pos`, `Wrapped`
  otherwise (the frames lie in two stretches that do not meet), `Chain` (freeing a frame leads to
  the next), `Kept` (their headers are in the array) and `Roomy` (a thread about to
  copy has room that belongs to no frame).
* `ImplementsQueue` (`FirstInFirstOut`, the refinement of `FrameQueue`): `Sorted` says
  that the ids in the ring ascend, above the one popped last and below the one being
  copied. With it and the geometry every step of the ring is a step of the queue or a
  stutter: `Place` pushes, `Discard` and a `Wrap` that frees discard, `Pop` delivers the
  head, a step that damages the ring breaks the queue, and all others do nothing to it.

**StreamReaderProofs** (any lengths and limits, any time stamps below `Half`; the
step `Bump` at a reconnect is below `Half`, as 500 ms are below 2^31).
* `TypeCorrect`, with `Few`: how many cuts may be owed where.
* `OneAtATime` (`OneOperation`) and `ImplementsProtocol` (`FollowsProtocol`, the
  refinement of `ReaderProtocol`), with `Opened`, `Shape` (a header piece begins with
  the file header, no data piece holds it) and `Uncorrected`; every step maps to a step
  of the protocol or to a stutter.
* `NoJumpBack` (`TimeGoesOn`). The proof showed that the property needs
  `ts + Bump + 1 < Half`, not only `ts + Bump < Half`: a tag that would repeat the
  corrected time is given one more. The property now says so.

**BlockWriterProofs** (any block, directory, check and cache length, queue limit and
numbers of posts, connections, kills, failures and sweeps).
* `TypeCorrect` and `AtLiveEdge` (`LiveEdge`), by `Edge`: a live block is begun at
  most one block ahead of the clock, a special one never ahead, so that a restart that
  resumes after the last block is at most two ahead.
* `HeadersMatch` (`HeaderMatches`), by `HeaderInv`: the posts in the queue follow one
  another as the reader makes them (`Following`), and `header_piece_` is that of the
  connection of the piece being handled (`Handled`).
* `QueueTrue` (`QueueOnDisk`), by `QueueInv`: what is queued is behind `cur` and in
  the directory at the end of `dir_queue_`.
* `IdsFresh` (`FreshId`), by `FreshInv`: until its own block is there, `cur` is past
  every block on disk.
* `TimelineWhole` (`NoHoles`), if blocks are no longer than directories
  (`Scale <= DirScale`; 5 s and 1000 s in the code): with longer ones directories would be
  missing by design and the sweep, which ends after `Misses` of them, could leave old
  ones behind. `WholeInv` says that every id and every directory between two blocks,
  and between a block and `cur`, is there or at the end of its life. The core is
  `SweepFacts`: a sweep takes an unbroken run of directories from its oldest end.
* `RemovedForAge` (`NoEarlyRemoval`), an action property: the worker's expiry and the
  scan remove what is past `Life`, a sweep what is past `Cache`, and blocks are
  replaced or removed for room only after an error, which `Sane` excludes.

**ProcessorProofs** (any table of two slots or more, pids and lists).
* `TypeCorrect`, `TablesAgree` (`SlotsAgree`), `NoneForgotten` (`Managed`) and
  `OnlyDeletedKilled` (`KillsDeleted`), all by `Inv`: the workers hold the slots from 0
  up, each its own and one always left (`Slots`); each slot has the pid of a child
  forked for that worker (`Held`), each child that runs is in its worker's slot
  (`Owned`), and `processCount` counts the listed workers while the list is read
  (`Counted`).

**ChannelGroupProofs** (any finite set of channels).
* `TypeCorrect` and `Routed` (`RoutedToCamera`).
* `EntriesLeave` (`NoStaleEntry`), by counting: an open channel has a listener, or is
  about to add one, for its entry in the map and for every thread that has taken the
  entry out and will take a listener back (`Settled`).
* `CameraFound` (`RegisteredFound`): of a number whose handlers ran in turn, a channel
  has exactly one listener while it is in the map or was just taken out (`Turn`).

**LiveProofs**, about FlvRelay (any number of servers, any queue size).
`RelayTypeCorrect`, `RelayBounded` (`QueuesBounded`) and `StreamsApart` (`HeadInFront`):
where the pull thread is tells which queues it has emptied and where there is room
(`Room`, `Emptied`), and what a server that is away can still get (`Outage`). In the
course of the proof `QueuesBounded` was made tighter: at most one piece while the server
is away.

**LiveProofs**, about PushStreams (any instances, channels and lists, a finite set of
addresses).
* `TypeCorrect`; `OneAtATime` (`Exclusive`): the pid of the instance that got in is in
  the pid file or remembered by the one attempt that has emptied the file since (`Noted`).
* `RelaysCurrent` (`NotStale`) and `ListServed` (`Served`): what an instance has
  established after each command (`Established`, `Progress`).

**TranscoderProofs** (any number of processes in each pool, of clients, channels and
segments, requests, broken transfers, restarts and blocks that come and go).
* `TypeCorrect`, by `Base`: the stage a process is at fits its pool and its request
  (`Placed`), a request made by a process has that process waiting for it (`Waited`),
  and no process waits for two (`Once`): an answer is handed to the one that asked.
* `NoOtherChannel` (`ChannelsApart`), by `Apart`: what is in a file or in the stream of a
  process is of the channel of that file or of the request; with `Kept`, the segment
  remembered for a channel is one of that channel. It needs no exclusion between processes, only that all file names
  of a request are of its channel.
* `RamdiskClean` (`NoLitter`), by `Swept`: a file of a channel that was not littered by a
  kill is one that some process still has to remove (`Owes`).
* `AnswersRight` (`RightAnswer`), by `Right` over three layers. `Opened` and `Alone`:
  whoever has a file open is at the step that closes it, and two processes at work on one
  segment have `spoilt` its channel, so that elsewhere nobody else writes to a file.
  `Progress`: what such a process knows at each stage about the block (`Reason`) and
  what its files and its stream then hold (`InHand`). `Spares` and `Fits`: the segment
  remembered as the last good one, or asked for in its place, is a normal one of the
  channel whose block has been there. `Grown` says what no step takes back: a block
  never comes again once gone, and the exclusions `spoilt` and `gaveup` only grow, so that
  an answer that was right remains right. The proof brought up that
  the cases of `RightFor` overlapped, where TLA+ leaves open which one holds and TLC takes
  the first; they are now disjoint.

**HttpClientProofs** (any requests and clients). `TypeCorrect`; `PostedOnce`
(`PostOnce`): once it has reached the server, a request's thread knows that it was
sent and is deciding on a failure, or has ended (`SentOnce`); `OneResultEach`
(`OneResult`): nothing is reported before the request ends (`Reported`).

Only model-checked:
* the liveness properties (`PushReturns`, `FramesLeave`, `SilenceEnds`, `OpensAgain`,
  `PaddedWhenDown`, `QueueDrains`, `ListServed` of the processor, `AllDelivered`,
  `Answered`, `DialogEnds`), which rest on fairness and with it on `ENABLED`, outside the
  prover. The safety part of several is proved: that every frame has its token
  (`TokensSuffice`) for `FramesLeave`, that every child that runs is in its worker's slot
  (`NoneForgotten`) for `ListServed`;
* `MessagesIntact`. It compares what the loops of `encode` and `decoder` compute, for
  messages of any number of items, and splits and joins sequences of any number of
  messages: an induction over data at every step, which the provers cannot do.

Every other property of a passing run is the statement of a theorem.

## 5. What is not modelled
The camera's message handler: `MessageHandler` connects a local `client_socket`, and
`getMsg` and `sendMsg` use the global one, which stays 0, so that as built no message
is ever exchanged; its protocol is not the control server's either. `setFSFunc` is
stored after the threads were started (`interface.c:40`), and nothing calls it.
`CPPLPieceWriter` and `CFLVPieceWriter` are not used by the worker's `main.cpp`. The
playlist service, the DRM step, Lua handlers and the web service keep no state between
requests. Reports to the CMS and to Zabbix are read by nothing in the system. Vendored
code, by far the largest part of the repository (nginx, crtmpserver, ffmpeg headers,
Boost-based framework, image loader), is left out: it is modelled only by how the
code uses it. Formats (FLV, block headers, checksums, MD5) are reduced to what the
properties tell apart. A processor that dies and leaves its workers running is
modelled for the directories (`SweepAtStart`) and not for the second worker its
successor starts. A list that names one channel id twice, and relay connections
that are renewed for ever, are described above and have no property.

## 6. Plan

The model covers the parts of the repository's own code that keep state; the safety
properties are proved for all components but the wire protocol. What is left:

1. The decoder: that decoding what was encoded gives the message back, for every
   message, once a prover for induction over sequences is at hand; `MessagesIntact` then
   follows from an invariant on where the boundaries of the messages lie in the buffer.
2. The segment services as a refinement: a table from segments to answers, for the
   channels that are not spoilt.
3. The two halves of the cutter worker composed: BlockWriter takes the order of posts
   from `ReaderProtocol`, which the reader is proved to implement; a module that runs
   both would also show what the bounded queue between them does to the reader.
