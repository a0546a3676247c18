----------------------------- MODULE FrameRing -----------------------------
(***************************************************************************)
(* The frame ring of the camera library (camera/interface.c) together with *)
(* the only reader of it, the recording thread (camera/AVdataTransfer.c).  *)
(*                                                                         *)
(* Capture threads call pushFrame: under w_mutex they find room with       *)
(* myallocate, discarding the oldest frames when there is none, and copy   *)
(* the frame; after the unlock they post the semaphore full.  The recorder *)
(* calls popFrame: it waits for full, copies the frame at read_pos under   *)
(* w_mutex and frees it.                                                   *)
(*                                                                         *)
(* Addresses are offsets into buffer.  A frame of size n occupies          *)
(* Hdr + n bytes and one unused byte, as in the code.  Memory is kept as   *)
(* what a FrameInfo_t read at each address would be: the frame written     *)
(* there, the zeroes of a static array, or Torn bytes of something else.   *)
(***************************************************************************)
EXTENDS Integers, Sequences, FiniteSets

CONSTANTS Max,        \* MAX_MEMORY
          Hdr,        \* sizeof(FrameInfo_t)
          Sizes,      \* payload sizes of the frames pushed
          Producers,  \* the capture threads
          NoOne,      \* w_mutex is free
          MaxPush,    \* bound: how many frames are pushed
          RecLimit,   \* the 5*1024*1024 of StartDataTransfer
          Word        \* sizeof(char*), the item size of its fwrite

ASSUME RingAssumption ==
    /\ Max \in Nat /\ Hdr \in Nat \ {0} /\ MaxPush \in Nat /\ RecLimit \in Nat
    /\ Word \in Nat \ {0}
    /\ Sizes \subseteq Nat
    /\ \A n \in Sizes : Hdr + n <= Max
    /\ NoOne \notin Producers /\ IsFiniteSet(Producers)

VARIABLES
    read_pos, write_pos, buffer_end_pos,
    hdr,          \* hdr[a]: the FrameInfo_t a read at address a yields
    full,         \* the semaphore's value
    w_mutex,      \* the thread holding the mutex, or NoOne
    pc, req,      \* where each capture thread is, and the frame it pushes
    reader,       \* where the recorder is: "wait", "lock" or "write"
    got,          \* topframe: the frame the recorder popped last
    offset,       \* bytes StartDataTransfer has counted
    file,         \* bytes now in record.file
    pushed,       \* history: frames numbered so far
    frames,       \* history: frames written and neither popped nor discarded
    damaged       \* history: a frame was freed, or the ring wrapped, while empty

ringVars == <<read_pos, write_pos, buffer_end_pos, hdr>>
histVars == <<frames, damaged>>
recVars  == <<reader, got, offset, file>>
vars     == <<ringVars, full, w_mutex, pc, req, recVars, pushed, histVars>>

Frame == [id : 1..MaxPush, size : Sizes]
Zero  == [id |-> 0, size |-> 0]
Torn  == [id |-> -1, size |-> 0]

\* The bytes a frame takes (myallocate's argument) and where it ends.
Need(f)     == Hdr + f.size
After(a, f) == a + Need(f) + 1

\* ((FrameInfo_t*)read_pos)->size.  Bytes that are no header can say anything;
\* beyond Max every value has the same effect on read_pos.
SizeAt(a) == IF hdr[a] = Torn THEN 0..Max ELSE {hdr[a].size}

\* memcpy of frame f to address a: headers it covers, even partly, are gone.
Written(a, f) ==
    [x \in 0..Max |->
        IF x = a THEN f
        ELSE IF x + Hdr > a /\ x < a + Need(f) THEN Torn ELSE hdr[x]]

Init ==
    /\ read_pos = 0 /\ write_pos = 0 /\ buffer_end_pos = Max
    /\ hdr = [x \in 0..Max |-> IF x + Hdr <= Max THEN Zero ELSE Torn]
    /\ full = 0 /\ w_mutex = NoOne
    /\ pc = [p \in Producers |-> "idle"] /\ req = [p \in Producers |-> Zero]
    /\ reader = "wait" /\ got = Zero /\ offset = 0 /\ file = 0
    /\ pushed = 0 /\ frames = <<>> /\ damaged = FALSE

----------------------------------------------------------------------------
(* myfree of a frame whose header says n bytes, on a ring that ends at e.   *)

\* Mutant: the unused byte after the frame is not skipped.
myfree_NoGap(n, e) ==
    LET r == read_pos + Hdr + n IN
    /\ read_pos' = IF r >= e THEN 0 ELSE r
    /\ buffer_end_pos' = IF r >= e THEN Max ELSE e
    /\ frames' = IF frames = <<>> THEN frames ELSE Tail(frames)
    /\ damaged' = (damaged \/ frames = <<>>)

myfree(n, e) ==
    LET r == read_pos + Hdr + n + 1 IN
    /\ read_pos' = IF r >= e THEN 0 ELSE r
    /\ buffer_end_pos' = IF r >= e THEN Max ELSE e
    /\ frames' = IF frames = <<>> THEN frames ELSE Tail(frames)
    /\ damaged' = (damaged \/ frames = <<>>)

discardFrame(e) == \E n \in SizeAt(read_pos) : myfree(n, e)

(* pushFrame, from the lock to the semaphore. *)

Lock(p) ==
    /\ pc[p] = "idle" /\ w_mutex = NoOne /\ pushed < MaxPush
    /\ w_mutex' = p
    /\ pushed' = pushed + 1
    /\ \E n \in Sizes : req' = [req EXCEPT ![p] = [id |-> pushed + 1, size |-> n]]
    /\ pc' = [pc EXCEPT ![p] = "alloc"]
    /\ UNCHANGED <<ringVars, full, recVars, histVars>>

\* Mutant: the unused byte is not counted.
NoRoom_NoGap(p) == write_pos + Need(req[p]) >= read_pos

NoRoom(p) == write_pos + Need(req[p]) + 1 >= read_pos

\* The first test of myallocate.
Enter(p) ==
    /\ pc[p] = "alloc"
    /\ pc' = [pc EXCEPT ![p] =
                IF write_pos < read_pos /\ NoRoom(p) THEN "loop" ELSE "fit"]
    /\ UNCHANGED <<ringVars, full, w_mutex, req, recVars, pushed, histVars>>

\* One round of its while loop, and the loop's exit.
Discard(p) ==
    /\ pc[p] = "loop" /\ NoRoom(p)
    /\ discardFrame(buffer_end_pos)
    /\ UNCHANGED <<write_pos, hdr, full, w_mutex, pc, req, recVars, pushed>>

Exit(p) ==
    /\ pc[p] = "loop" /\ ~NoRoom(p)
    /\ pc' = [pc EXCEPT ![p] = "fit"]
    /\ UNCHANGED <<ringVars, full, w_mutex, req, recVars, pushed, histVars>>

\* Mutant: off by one at the end of the array.
Fits_OffByOne(p) == write_pos + Need(req[p]) <= Max + 1

Fits(p) == write_pos + Need(req[p]) <= Max

\* Mutant: write_pos stays where it is.
Wrap_Stays(p) ==
    /\ pc[p] = "fit" /\ ~Fits(p)
    /\ IF read_pos = 0
       THEN discardFrame(write_pos)
       ELSE /\ buffer_end_pos' = write_pos
            /\ damaged' = (damaged \/ frames = <<>>)
            /\ UNCHANGED <<read_pos, frames>>
    /\ pc' = [pc EXCEPT ![p] = "alloc"]
    /\ UNCHANGED <<write_pos, hdr, full, w_mutex, req, recVars, pushed>>

\* The frame does not fit before the end: wrap, and allocate again.
Wrap(p) ==
    /\ pc[p] = "fit" /\ ~Fits(p)
    /\ write_pos' = 0
    /\ IF read_pos = 0
       THEN discardFrame(write_pos)
       ELSE /\ buffer_end_pos' = write_pos
            /\ damaged' = (damaged \/ frames = <<>>)
            /\ UNCHANGED <<read_pos, frames>>
    /\ pc' = [pc EXCEPT ![p] = "alloc"]
    /\ UNCHANGED <<hdr, full, w_mutex, req, recVars, pushed>>

\* It fits: copy it, and unlock.
Place(p) ==
    /\ pc[p] = "fit" /\ Fits(p)
    /\ hdr' = Written(write_pos, req[p])
    /\ write_pos' = After(write_pos, req[p])
    /\ frames' = Append(frames, [addr |-> write_pos, frame |-> req[p]])
    /\ w_mutex' = NoOne
    /\ pc' = [pc EXCEPT ![p] = "post"]
    /\ UNCHANGED <<read_pos, buffer_end_pos, full, req, recVars, pushed, damaged>>

\* Mutant: sem_post is missing.
Post_NoPost(p) ==
    /\ pc[p] = "post"
    /\ pc' = [pc EXCEPT ![p] = "idle"]
    /\ UNCHANGED <<ringVars, full, w_mutex, req, recVars, pushed, histVars>>

Post(p) ==
    /\ pc[p] = "post"
    /\ full' = full + 1
    /\ pc' = [pc EXCEPT ![p] = "idle"]
    /\ UNCHANGED <<ringVars, w_mutex, req, recVars, pushed, histVars>>

(* popFrame and the loop of StartDataTransfer. *)

SemWait ==
    /\ reader = "wait" /\ full > 0
    /\ full' = full - 1 /\ reader' = "lock"
    /\ UNCHANGED <<ringVars, w_mutex, pc, req, got, offset, file, pushed, histVars>>

Pop ==
    /\ reader = "lock" /\ w_mutex = NoOne
    /\ \E n \in SizeAt(read_pos) :
         /\ got' = [hdr[read_pos] EXCEPT !.size = n]
         /\ myfree(n, buffer_end_pos)
    /\ reader' = "write"
    /\ UNCHANGED <<write_pos, hdr, full, w_mutex, pc, req, offset, file, pushed>>

Record ==
    /\ reader = "write" /\ reader' = "wait"
    /\ IF offset < RecLimit
       THEN /\ offset' = offset + Need(got)
            /\ file' = file + Word * Need(got)
       ELSE file' = 0 /\ UNCHANGED offset
    /\ UNCHANGED <<ringVars, full, w_mutex, pc, req, got, pushed, histVars>>

push(p) == \/ Lock(p) \/ Enter(p) \/ Discard(p) \/ Exit(p)
           \/ Wrap(p) \/ Place(p) \/ Post(p)
record  == SemWait \/ Pop \/ Record

Next == record \/ \E p \in Producers : push(p)

\* A capture thread inside pushFrame keeps running, and so does the recorder;
\* nobody promises another call of pushFrame.
Fairness == /\ WF_vars(record)
            /\ \A p \in Producers : WF_vars(push(p) /\ pc[p] # "idle")

Spec == Init /\ [][Next]_vars /\ Fairness
----------------------------------------------------------------------------
(* Properties *)

\* Every variable stays in its domain; in particular read_pos and write_pos
\* never point more than one byte past the array.
TypeOK ==
    /\ read_pos \in 0..Max /\ write_pos \in 0..Max+1 /\ buffer_end_pos \in 0..Max+1
    /\ hdr \in [0..Max -> Frame \cup {Zero, Torn}]
    /\ full \in Nat /\ w_mutex \in Producers \cup {NoOne}
    /\ pc \in [Producers -> {"idle", "alloc", "loop", "fit", "post"}]
    /\ req \in [Producers -> Frame \cup {Zero}]
    /\ reader \in {"wait", "lock", "write"}
    /\ got \in [id : -1..MaxPush, size : Nat] /\ offset \in Nat /\ file \in Nat
    /\ pushed \in 0..MaxPush
    /\ frames \in Seq([addr : 0..Max, frame : Frame])
    /\ damaged \in BOOLEAN

\* While the ring is sound, the frames written and not yet freed are all intact
\* in memory: the first is at read_pos, each is where freeing the one before it
\* moves read_pos to, and no later memcpy has touched any of them.
Intact ==
    ~damaged =>
      /\ frames # <<>> => frames[1].addr = read_pos
      /\ \A i \in 1..Len(frames) : hdr[frames[i].addr] = frames[i].frame
      /\ \A i \in 1..Len(frames) - 1 :
           LET a == After(frames[i].addr, frames[i].frame) IN
           frames[i+1].addr = IF a >= buffer_end_pos THEN 0 ELSE a

\* Every frame in the ring has a semaphore token, or a post or a popFrame on
\* its way: no frame is left behind for want of a wake-up.
TokenPerFrame ==
    Len(frames) <= full + Cardinality({p \in Producers : pc[p] = "post"})
                        + (IF reader = "lock" THEN 1 ELSE 0)

\* The ring with its semaphore and mutex implements a queue: popFrame returns,
\* byte for byte and with its size, the oldest frame pushed and not given up, in
\* the order of the pushes and none twice, and myallocate gives up only the
\* oldest, as long as the ring is sound.
Contents(s) == [i \in 1..Len(s) |-> s[i].frame]
Queue == INSTANCE FrameQueue
    WITH queue <- Contents(frames), out <- got, broken <- damaged,
         NoFrame <- Zero
FirstInFirstOut == Queue!Spec

\* A thread that entered pushFrame leaves it, unless the ring was damaged.
PushReturns == \A p \in Producers : pc[p] = "alloc" ~> (pc[p] = "idle" \/ damaged)

\* A frame in the ring is popped or discarded in the end, unless the ring was
\* damaged.
FramesLeave ==
    \A i \in 1..MaxPush :
      (\E k \in 1..Len(frames) : frames[k].frame.id = i)
        ~> (damaged \/ ~ \E k \in 1..Len(frames) : frames[k].frame.id = i)

============================================================================
