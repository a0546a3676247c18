-------------------------- MODULE FrameRingProofs --------------------------
(***************************************************************************)
(* Proofs about the frame ring, for every buffer size, header size, set of *)
(* frame sizes and set of capture threads.                                 *)
(***************************************************************************)
EXTENDS FrameRing, FiniteSetTheorems, TLAPS

\* The threads between the lock and the unlock of pushFrame hold the mutex and
\* carry a real frame.
Holder ==
    \A p \in Producers :
      /\ pc[p] \in {"alloc", "loop", "fit"} => w_mutex = p /\ req[p] \in Frame

\* read_pos never runs past the end of the array.
TypeInv == TypeOK /\ Holder

LEMMA FrameFits ==
    ASSUME NEW f \in Frame
    PROVE  f.size \in Nat /\ Need(f) \in Nat /\ Need(f) <= Max /\ f.id \in 1..MaxPush
  <1>1. f.size \in Sizes /\ f.id \in 1..MaxPush
    BY DEF Frame
  <1>2. f.size \in Nat
    BY <1>1, RingAssumption
  <1>3. Need(f) \in Nat /\ Need(f) <= Max
    BY <1>1, <1>2, RingAssumption DEF Need
  <1> QED BY <1>1, <1>2, <1>3

\* myfree keeps its four variables in their domains, whatever the header says.
LEMMA FreeType ==
    ASSUME TypeOK, NEW n \in Nat, NEW e \in 0..Max+1, myfree(n, e)
    PROVE  /\ read_pos' \in 0..Max /\ buffer_end_pos' \in 0..Max+1
           /\ frames' \in Seq([addr : 0..Max, frame : Frame])
           /\ damaged' \in BOOLEAN
  <1>1. read_pos' \in 0..Max /\ buffer_end_pos' \in 0..Max+1
    BY RingAssumption DEF TypeOK, myfree
  <1>2. frames' \in Seq([addr : 0..Max, frame : Frame])
    BY DEF TypeOK, myfree
  <1>3. damaged' \in BOOLEAN
    BY DEF TypeOK, myfree
  <1> QED BY <1>1, <1>2, <1>3

LEMMA HeaderType ==
    ASSUME TypeOK, NEW n \in SizeAt(read_pos)
    PROVE  /\ n \in Nat
           /\ [hdr[read_pos] EXCEPT !.size = n] \in [id : -1..MaxPush, size : Nat]
  <1>1. hdr[read_pos] \in Frame \cup {Zero, Torn}
    BY DEF TypeOK
  <1>2. hdr[read_pos] \in [id : -1..MaxPush, size : Nat]
    <2>1. CASE hdr[read_pos] \in Frame
      <3>1. Sizes \subseteq Nat /\ 1..MaxPush \subseteq -1..MaxPush
        BY RingAssumption
      <3> QED BY <2>1, <3>1 DEF Frame
    <2>2. CASE hdr[read_pos] \in {Zero, Torn}
      BY <2>2, RingAssumption DEF Zero, Torn
    <2> QED BY <1>1, <2>1, <2>2
  <1>3. n \in Nat
    BY <1>2, RingAssumption DEF SizeAt
  <1> QED BY <1>2, <1>3

LEMMA HeaderId ==
    ASSUME TypeOK, NEW n
    PROVE  [hdr[read_pos] EXCEPT !.size = n].id = hdr[read_pos].id
  <1>1. hdr[read_pos] \in Frame \/ hdr[read_pos] = Zero \/ hdr[read_pos] = Torn
    BY DEF TypeOK
  <1> QED BY <1>1 DEF Frame, Zero, Torn

LEMMA TypeInit == Init => TypeInv
  <1> SUFFICES ASSUME Init PROVE TypeInv
    OBVIOUS
  <1>1. hdr \in [0..Max -> Frame \cup {Zero, Torn}]
    BY DEF Init
  <1>2. got \in [id : -1..MaxPush, size : Nat]
    BY RingAssumption DEF Init, Zero
  <1>3. /\ read_pos \in 0..Max /\ write_pos \in 0..Max+1 /\ buffer_end_pos \in 0..Max+1
        /\ full \in Nat /\ offset \in Nat /\ file \in Nat /\ pushed \in 0..MaxPush
    BY RingAssumption DEF Init
  <1>4. /\ w_mutex \in Producers \cup {NoOne}
        /\ pc \in [Producers -> {"idle", "alloc", "loop", "fit", "post"}]
        /\ req \in [Producers -> Frame \cup {Zero}]
        /\ reader \in {"wait", "lock", "write"}
        /\ damaged \in BOOLEAN
    BY DEF Init
  <1>5. frames \in Seq([addr : 0..Max, frame : Frame])
    BY DEF Init
  <1>6. TypeOK
    BY <1>1, <1>2, <1>3, <1>4, <1>5 DEF TypeOK
  <1>7. Holder
    BY DEF Init, Holder
  <1> QED BY <1>6, <1>7 DEF TypeInv

LEMMA TypeNext == TypeInv /\ [Next]_vars => TypeInv'
  <1> SUFFICES ASSUME TypeInv, [Next]_vars PROVE TypeInv'
    OBVIOUS
  <1> USE DEF TypeInv
  <1>1. ASSUME NEW p \in Producers, Lock(p) PROVE TypeInv'
    <2>1. PICK n \in Sizes : req' = [req EXCEPT ![p] = [id |-> pushed + 1, size |-> n]]
      BY <1>1 DEF Lock
    <2>2. [id |-> pushed + 1, size |-> n] \in Frame
      BY <1>1, RingAssumption DEF Lock, Frame, TypeOK
    <2>3. TypeOK'
      BY <1>1, <2>1, <2>2, RingAssumption
      DEF Lock, TypeOK, ringVars, recVars, histVars
    <2>4. Holder'
      BY <1>1, <2>1, <2>2, RingAssumption DEF Lock, TypeOK, Holder
    <2> QED BY <2>3, <2>4
  <1>2. ASSUME NEW p \in Producers, Enter(p) PROVE TypeInv'
    BY <1>2 DEF Enter, TypeOK, Holder, ringVars, recVars, histVars
  <1>3. ASSUME NEW p \in Producers, Discard(p) PROVE TypeInv'
    <2>1. PICK n \in SizeAt(read_pos) : myfree(n, buffer_end_pos)
      BY <1>3 DEF Discard, discardFrame
    <2>2. n \in Nat
      BY HeaderType
    <2>3. TypeOK'
      BY <1>3, <2>1, <2>2, FreeType DEF Discard, TypeOK, recVars
    <2>4. Holder'
      BY <1>3 DEF Discard, Holder
    <2> QED BY <2>3, <2>4
  <1>4. ASSUME NEW p \in Producers, Exit(p) PROVE TypeInv'
    BY <1>4 DEF Exit, TypeOK, Holder, ringVars, recVars, histVars
  <1>5. ASSUME NEW p \in Producers, Wrap(p) PROVE TypeInv'
    <2>1. CASE read_pos = 0
      <3>1. PICK n \in SizeAt(read_pos) : myfree(n, write_pos)
        BY <1>5, <2>1 DEF Wrap, discardFrame
      <3>2. n \in Nat
        BY HeaderType
      <3>3. write_pos \in 0..Max+1
        BY DEF TypeOK
      <3>6. write_pos' \in 0..Max+1
        BY <1>5, RingAssumption DEF Wrap
      <3>4. TypeOK'
        BY <1>5, <3>1, <3>2, <3>3, <3>6, FreeType DEF Wrap, TypeOK, recVars
      <3>5. Holder'
        BY <1>5 DEF Wrap, Holder, TypeOK
      <3> QED BY <3>4, <3>5
    <2>2. CASE read_pos # 0
      <3>1. TypeOK'
        BY <1>5, <2>2, RingAssumption DEF Wrap, TypeOK, recVars
      <3>2. Holder'
        BY <1>5 DEF Wrap, Holder, TypeOK
      <3> QED BY <3>1, <3>2
    <2> QED BY <2>1, <2>2
  <1>6. ASSUME NEW p \in Producers, Place(p) PROVE TypeInv'
    <2>1. req[p] \in Frame /\ w_mutex = p
      BY <1>6 DEF Place, Holder
    <2>2. Need(req[p]) \in Nat /\ write_pos + Need(req[p]) <= Max
      BY <1>6, <2>1, FrameFits DEF Place, Fits
    <2>3. write_pos' \in 0..Max+1 /\ write_pos \in 0..Max
      BY <1>6, <2>2, RingAssumption DEF Place, After, TypeOK
    <2>4. hdr' \in [0..Max -> Frame \cup {Zero, Torn}]
      BY <1>6, <2>1 DEF Place, Written, TypeOK
    <2>5. frames' \in Seq([addr : 0..Max, frame : Frame])
      BY <1>6, <2>1, <2>3 DEF Place, TypeOK
    <2>6. TypeOK'
      BY <1>6, <2>3, <2>4, <2>5 DEF Place, TypeOK, recVars
    <2>7. Holder'
      BY <1>6, <2>1 DEF Place, Holder, TypeOK
    <2> QED BY <2>6, <2>7
  <1>7. ASSUME NEW p \in Producers, Post(p) PROVE TypeInv'
    BY <1>7 DEF Post, TypeOK, Holder, ringVars, recVars, histVars
  <1>8. ASSUME SemWait PROVE TypeInv'
    BY <1>8 DEF SemWait, TypeOK, Holder, ringVars, recVars, histVars
  <1>9. ASSUME Pop PROVE TypeInv'
    <2>1. PICK n \in SizeAt(read_pos) :
            /\ got' = [hdr[read_pos] EXCEPT !.size = n]
            /\ myfree(n, buffer_end_pos)
      BY <1>9 DEF Pop
    <2>2. n \in Nat /\ got' \in [id : -1..MaxPush, size : Nat]
      BY <2>1, HeaderType
    <2>3. TypeOK'
      BY <1>9, <2>1, <2>2, FreeType DEF Pop, TypeOK
    <2>4. Holder'
      BY <1>9 DEF Pop, Holder
    <2> QED BY <2>3, <2>4
  <1>10. ASSUME Record PROVE TypeInv'
    <2>1. Need(got) \in Nat
      BY RingAssumption DEF TypeOK, Need
    <2> DEFINE written == Word * Need(got)
    <2>2. written \in Nat
      BY <2>1, RingAssumption
    <2>3. file' \in {file + written, 0}
      BY <1>10 DEF Record
    <2> HIDE DEF written
    <2>4. file' \in Nat
      BY <2>2, <2>3 DEF TypeOK
    <2>5. offset' \in Nat
      BY <1>10, <2>1 DEF Record, TypeOK
    <2>6. TypeOK'
      BY <1>10, <2>4, <2>5 DEF Record, TypeOK, ringVars, histVars
    <2>7. Holder'
      BY <1>10 DEF Record, Holder
    <2> QED BY <2>6, <2>7
  <1>11. CASE UNCHANGED vars
    BY <1>11 DEF vars, TypeOK, Holder, ringVars, recVars, histVars
  <1> QED BY <1>1, <1>2, <1>3, <1>4, <1>5, <1>6, <1>7, <1>8, <1>9, <1>10, <1>11
          DEF Next, push, record

\* Type correctness of the ring: read_pos stays inside the array and write_pos
\* at most one byte past it, whatever a torn header says.
THEOREM TypeCorrect == Spec => []TypeOK
  <1>1. Spec => []TypeInv
    BY TypeInit, TypeNext, PTL DEF Spec
  <1>2. TypeInv => TypeOK
    BY DEF TypeInv
  <1> QED BY <1>1, <1>2, PTL

----------------------------------------------------------------------------
(* No frame without a token. *)

\* The capture threads that have unlocked and not yet posted, and the recorder
\* between sem_wait and the lock.
Posting == {p \in Producers : pc[p] = "post"}
Woken   == IF reader = "lock" THEN 1 ELSE 0

LEMMA PostingFinite ==
    IsFiniteSet(Posting) /\ Cardinality(Posting) \in Nat
  <1>1. IsFiniteSet(Producers) /\ Posting \in SUBSET Producers
    BY RingAssumption DEF Posting
  <1>2. IsFiniteSet(Posting)
    BY <1>1, FS_Subset
  <1> QED BY <1>2, FS_CardinalityType

\* myfree never adds a frame.
LEMMA FreeShrinks ==
    ASSUME TypeOK, NEW n, NEW e, myfree(n, e)
    PROVE  Len(frames') \in Nat /\ Len(frames') <= Len(frames)
           /\ (frames # <<>> => Len(frames') = Len(frames) - 1)
           /\ (frames = <<>> => Len(frames') = 0)
  <1>1. frames \in Seq([addr : 0..Max, frame : Frame])
    BY DEF TypeOK
  <1>2. frames' = IF frames = <<>> THEN frames ELSE Tail(frames)
    BY DEF myfree
  <1> QED BY <1>1, <1>2

LEMMA TokenNext ==
    ASSUME TypeInv, TokenPerFrame, [Next]_vars
    PROVE  TokenPerFrame'
  <1> USE DEF TypeInv
  <1> DEFINE n == Cardinality(Posting)
  <1>1. /\ n \in Nat /\ full \in Nat /\ Len(frames) \in Nat
        /\ Len(frames) <= full + n + Woken
    BY PostingFinite DEF TypeOK, TokenPerFrame, Posting, Woken
  <1>2. SUFFICES Len(frames') <= full' + n' + Woken'
    BY DEF TokenPerFrame, Posting, Woken
  <1> HIDE DEF n
  <1>3. ASSUME pc' = pc PROVE n' = n
    BY <1>3 DEF n, Posting
  <1>4. ASSUME NEW p \in Producers, NEW l, pc[p] # "post", l # "post",
               pc' = [pc EXCEPT ![p] = l]
        PROVE  n' = n
    <2>1. Posting' = Posting
      BY <1>4 DEF Posting, TypeOK
    <2> QED BY <2>1 DEF n
  <1>5. ASSUME NEW p \in Producers, Lock(p) \/ Enter(p) \/ Exit(p)
        PROVE  Len(frames') <= full' + n' + Woken'
    <2>1. n' = n
      <3>1. CASE Lock(p)
        BY <3>1, <1>4 DEF Lock
      <3>2. CASE Enter(p)
        <4> DEFINE l == IF write_pos < read_pos /\ NoRoom(p) THEN "loop" ELSE "fit"
        <4>1. l # "post" /\ pc[p] # "post" /\ pc' = [pc EXCEPT ![p] = l]
          BY <3>2 DEF Enter
        <4> HIDE DEF l
        <4> QED BY <4>1, <1>4
      <3>3. CASE Exit(p)
        BY <3>3, <1>4 DEF Exit
      <3> QED BY <1>5, <3>1, <3>2, <3>3
    <2>2. frames' = frames /\ full' = full /\ Woken' = Woken
      BY <1>5 DEF Lock, Enter, Exit, histVars, recVars, Woken
    <2> QED BY <1>1, <2>1, <2>2
  <1>6. ASSUME NEW p \in Producers, Discard(p)
        PROVE  Len(frames') <= full' + n' + Woken'
    <2>1. PICK k \in SizeAt(read_pos) : myfree(k, buffer_end_pos)
      BY <1>6 DEF Discard, discardFrame
    <2>2. Len(frames') \in Nat /\ Len(frames') <= Len(frames)
      BY <2>1, FreeShrinks
    <2>3. n' = n /\ full' = full /\ Woken' = Woken
      BY <1>6, <1>3 DEF Discard, recVars, Woken
    <2>4. Woken \in Nat
      BY DEF Woken
    <2> QED BY <1>1, <2>2, <2>3, <2>4
  <1>7. ASSUME NEW p \in Producers, Wrap(p)
        PROVE  Len(frames') <= full' + n' + Woken'
    <2>1. Len(frames') \in Nat /\ Len(frames') <= Len(frames)
      <3>1. CASE read_pos = 0
        <4>1. PICK k \in SizeAt(read_pos) : myfree(k, write_pos)
          BY <1>7, <3>1 DEF Wrap, discardFrame
        <4> QED BY <4>1, FreeShrinks
      <3>2. CASE read_pos # 0
        BY <1>7, <3>2, <1>1 DEF Wrap
      <3> QED BY <3>1, <3>2
    <2>2. n' = n
      BY <1>7, <1>4 DEF Wrap
    <2>3. full' = full /\ Woken' = Woken
      BY <1>7 DEF Wrap, recVars, Woken
    <2>4. Woken \in Nat
      BY DEF Woken
    <2> QED BY <1>1, <2>1, <2>2, <2>3, <2>4
  <1>8. ASSUME NEW p \in Producers, Place(p)
        PROVE  Len(frames') <= full' + n' + Woken'
    <2>1. Posting' = Posting \cup {p} /\ p \notin Posting
      BY <1>8 DEF Place, Posting, TypeOK
    <2>2. n' = n + 1
      BY <2>1, PostingFinite, FS_AddElement DEF n
    <2>3. frames' = Append(frames, [addr |-> write_pos, frame |-> req[p]])
      BY <1>8 DEF Place
    <2>4. [addr |-> write_pos, frame |-> req[p]] \in [addr : 0..Max+1, frame : Frame]
      BY <1>8 DEF Place, Holder, TypeOK
    <2>5. Len(frames') = Len(frames) + 1
      BY <2>3, <2>4 DEF TypeOK
    <2>6. full' = full /\ Woken' = Woken /\ Woken \in Nat
      BY <1>8 DEF Place, recVars, Woken
    <2> QED BY <1>1, <2>2, <2>5, <2>6
  <1>9. ASSUME NEW p \in Producers, Post(p)
        PROVE  Len(frames') <= full' + n' + Woken'
    <2>1. Posting' = Posting \ {p} /\ p \in Posting
      BY <1>9 DEF Post, Posting, TypeOK
    <2>2. n' = n - 1
      BY <2>1, PostingFinite, FS_RemoveElement DEF n
    <2>3. full' = full + 1 /\ frames' = frames /\ Woken' = Woken /\ Woken \in Nat
      BY <1>9 DEF Post, recVars, histVars, Woken
    <2> QED BY <1>1, <2>2, <2>3
  <1>10. ASSUME SemWait PROVE Len(frames') <= full' + n' + Woken'
    <2>1. full' = full - 1 /\ frames' = frames /\ Woken = 0 /\ Woken' = 1
      BY <1>10 DEF SemWait, histVars, Woken
    <2>2. n' = n
      BY <1>10, <1>3 DEF SemWait
    <2> QED BY <1>1, <2>1, <2>2
  <1>11. ASSUME Pop PROVE Len(frames') <= full' + n' + Woken'
    <2>1. PICK k \in SizeAt(read_pos) : myfree(k, buffer_end_pos)
      BY <1>11 DEF Pop
    <2>2. /\ Len(frames') \in Nat
          /\ Len(frames') = Len(frames) - 1 \/ Len(frames') = 0
      BY <2>1, FreeShrinks
    <2>3. Woken = 1 /\ Woken' = 0 /\ full' = full
      BY <1>11 DEF Pop, Woken
    <2>4. n' = n
      BY <1>11, <1>3 DEF Pop
    <2> QED BY <1>1, <2>2, <2>3, <2>4
  <1>12. ASSUME Record PROVE Len(frames') <= full' + n' + Woken'
    <2>1. full' = full /\ frames' = frames /\ Woken' = Woken
      BY <1>12 DEF Record, histVars, Woken
    <2>2. n' = n
      BY <1>12, <1>3 DEF Record
    <2> QED BY <1>1, <2>1, <2>2
  <1>13. CASE UNCHANGED vars
    <2>1. full' = full /\ frames' = frames /\ Woken' = Woken
      BY <1>13 DEF vars, recVars, histVars, Woken
    <2>2. n' = n
      BY <1>13, <1>3 DEF vars
    <2> QED BY <1>1, <2>1, <2>2
  <1> QED
    BY <1>5, <1>6, <1>7, <1>8, <1>9, <1>10, <1>11, <1>12, <1>13 DEF Next, push, record

\* Every frame in the ring has a semaphore token, or a post or a popFrame on its
\* way, in every interleaving of any number of capture threads with the recorder
\* and also after the ring has gone wrong.
THEOREM TokensSuffice == Spec => []TokenPerFrame
  <1>1. Spec => []TypeInv
    BY TypeInit, TypeNext, PTL DEF Spec
  <1>2. Init => TokenPerFrame
    <2> SUFFICES ASSUME Init PROVE TokenPerFrame
      OBVIOUS
    <2>1. Len(frames) = 0 /\ full = 0
      BY DEF Init
    <2>2. Cardinality(Posting) \in Nat /\ Woken \in Nat
      BY PostingFinite DEF Woken
    <2> QED BY <2>1, <2>2 DEF TokenPerFrame, Posting, Woken
  <1>3. TypeInv /\ TokenPerFrame /\ [Next]_vars => TokenPerFrame'
    BY TokenNext
  <1> QED BY <1>1, <1>2, <1>3, PTL DEF Spec

----------------------------------------------------------------------------
(* The frames in the ring stay intact. *)

N       == Len(frames)
Addr(i) == frames[i].addr
End(i)  == After(frames[i].addr, frames[i].frame)

\* While read_pos is not beyond write_pos the frames lie between the two, one
\* after the other, and the ring ends where the array does.
Linear ==
    /\ buffer_end_pos = Max
    /\ N = 0 => read_pos = write_pos \/ (read_pos = 0 /\ write_pos >= Max)
    /\ \A i \in 1..N : /\ Addr(i) >= read_pos /\ End(i) <= write_pos
                       /\ IF i < N THEN End(i) < Max ELSE End(i) = write_pos
    /\ \A i, j \in 1..N : i < j => End(i) <= Addr(j)

\* Otherwise they lie between read_pos and the place where the writer turned
\* back, and from there on below write_pos.
Wrapped ==
    /\ N > 0 /\ read_pos < buffer_end_pos
    /\ \A i \in 1..N :
          /\ (Addr(i) >= read_pos /\ End(i) <= buffer_end_pos) \/ End(i) <= write_pos
          /\ i = N => IF Addr(i) >= read_pos THEN End(i) = buffer_end_pos /\ write_pos = 0
                                             ELSE End(i) = write_pos
    /\ \A i, j \in 1..N :
          i < j => End(i) <= Addr(j) \/ (Addr(i) >= read_pos /\ End(j) <= write_pos)

Layout == IF read_pos <= write_pos THEN Linear ELSE Wrapped

\* Freeing the first frame moves read_pos to the second, and so on.
Chain ==
    /\ N > 0 => Addr(1) = read_pos
    /\ \A i \in 1..N : i < N =>
          Addr(i + 1) = IF End(i) >= buffer_end_pos THEN 0 ELSE End(i)

Kept == \A i \in 1..N : hdr[Addr(i)] = frames[i].frame

Sound == Chain /\ Kept /\ Layout

\* A thread that is about to copy its frame has room for it below read_pos, or
\* all the frames are behind it.
Roomy ==
    \A p \in Producers : pc[p] = "fit" =>
        read_pos <= write_pos \/ write_pos + Need(req[p]) + 1 < read_pos

LEMMA ElementIn ==
    ASSUME NEW S, NEW s \in Seq(S), NEW i \in 1..Len(s)
    PROVE  s[i] \in S
  OBVIOUS

LEMMA FrameAt ==
    ASSUME TypeOK, NEW i \in 1..N
    PROVE  /\ Addr(i) \in Nat /\ Addr(i) <= Max /\ frames[i].frame \in Frame
           /\ End(i) \in Nat /\ Addr(i) + Hdr + 1 <= End(i) /\ Addr(i) + Hdr \in Nat
           /\ End(i) = Addr(i) + Hdr + frames[i].frame.size + 1
  <1>1. frames \in Seq([addr : 0..Max, frame : Frame]) /\ i \in 1..Len(frames)
    BY DEF TypeOK, N
  <1>2. frames[i] \in [addr : 0..Max, frame : Frame]
    BY ONLY <1>1, ElementIn
  <1>3. frames[i].addr \in 0..Max /\ frames[i].frame \in Frame
    BY <1>2
  <1>4. frames[i].frame.size \in Nat
    BY <1>3, FrameFits
  <1> QED BY <1>3, <1>4, RingAssumption DEF Addr, End, After, Need

\* The counters of the first frame, and what remains when it is freed.
LEMMA TailFrames ==
    ASSUME TypeOK, frames # <<>>, frames' = Tail(frames)
    PROVE  /\ N \in Nat \ {0} /\ N' = N - 1 /\ 1 \in 1..N
           /\ \A i \in 1..N' : /\ i + 1 \in 1..N /\ frames'[i] = frames[i + 1]
                               /\ Addr(i)' = Addr(i + 1) /\ End(i)' = End(i + 1)
  <1>1. frames \in Seq([addr : 0..Max, frame : Frame])
    BY DEF TypeOK
  <1>2. Len(frames) \in Nat \ {0} /\ Len(Tail(frames)) = Len(frames) - 1
    BY <1>1
  <1>3. \A i \in 1..Len(frames) - 1 : Tail(frames)[i] = frames[i + 1]
    BY <1>1
  <1> QED BY <1>2, <1>3 DEF N, Addr, End

LEMMA AppendFrames ==
    ASSUME TypeOK, NEW f \in [addr : 0..Max, frame : Frame], frames' = Append(frames, f)
    PROVE  /\ N \in Nat /\ N' = N + 1 /\ N + 1 \in 1..N'
           /\ \A i \in 1..N : /\ i \in 1..N' /\ frames'[i] = frames[i]
                              /\ Addr(i)' = Addr(i) /\ End(i)' = End(i)
           /\ \A i \in 1..N' : i = N + 1 =>
                 frames'[i] = f /\ Addr(i)' = f.addr /\ End(i)' = After(f.addr, f.frame)
  <1>1. frames \in Seq([addr : 0..Max, frame : Frame])
    BY DEF TypeOK
  <1>2. Len(frames) \in Nat /\ Len(Append(frames, f)) = Len(frames) + 1
    BY <1>1
  <1>3. \A i \in 1..Len(frames) : Append(frames, f)[i] = frames[i]
    BY <1>1
  <1>4. Append(frames, f)[Len(frames) + 1] = f
    BY <1>1
  <1> QED BY <1>2, <1>3, <1>4 DEF N, Addr, End

\* The header at read_pos is that of the first frame.
LEMMA FirstFreed ==
    ASSUME TypeOK, Sound, frames # <<>>, NEW n \in SizeAt(read_pos), NEW e, myfree(n, e)
    PROVE  /\ 1 \in 1..N /\ frames' = Tail(frames)
           /\ hdr[read_pos] = frames[1].frame /\ n = frames[1].frame.size
           /\ read_pos' = IF End(1) >= e THEN 0 ELSE End(1)
           /\ buffer_end_pos' = IF End(1) >= e THEN Max ELSE e
  <1>1. N \in Nat \ {0}
    BY DEF TypeOK, N
  <1>2. 1 \in 1..N /\ Addr(1) = read_pos /\ hdr[read_pos] = frames[1].frame
    BY <1>1 DEF Sound, Chain, Kept
  <1>3. frames[1].frame \in Frame /\ End(1) = Addr(1) + Hdr + frames[1].frame.size + 1
    BY <1>2, FrameAt
  <1>4. frames[1].frame # Torn
    BY <1>3, FrameFits DEF Torn
  <1>5. n = frames[1].frame.size
    BY <1>2, <1>4 DEF SizeAt
  <1>6. End(1) = read_pos + Hdr + n + 1
    BY <1>2, <1>3, <1>5
  <1> QED BY <1>2, <1>5, <1>6 DEF myfree

\* popFrame, and a frame discarded within myallocate.
LEMMA FreeSound ==
    ASSUME TypeOK, Sound, frames # <<>>, NEW n \in SizeAt(read_pos),
           myfree(n, buffer_end_pos), write_pos' = write_pos, hdr' = hdr
    PROVE  Sound'
  <1> USE RingAssumption
  <1> DEFINE r == read_pos
             w == write_pos
             e == buffer_end_pos
  <1>1. /\ r \in 0..Max /\ w \in 0..Max+1 /\ e \in 0..Max+1
        /\ Chain /\ Kept /\ Layout
    BY DEF TypeOK, Sound
  <1>2. /\ 1 \in 1..N /\ frames' = Tail(frames)
        /\ read_pos' = IF End(1) >= e THEN 0 ELSE End(1)
        /\ buffer_end_pos' = IF End(1) >= e THEN Max ELSE e
    BY FirstFreed
  <1>3. /\ N \in Nat \ {0} /\ N' = N - 1
        /\ \A i \in 1..N' : /\ i + 1 \in 1..N /\ frames'[i] = frames[i + 1]
                            /\ Addr(i)' = Addr(i + 1) /\ End(i)' = End(i + 1)
    BY <1>2, TailFrames
  <1>4. \A i \in 1..N : Addr(i) \in Nat /\ End(i) \in Nat /\ Addr(i) < End(i)
    BY FrameAt
  <1>5. Addr(1) = r
    BY <1>1, <1>3 DEF Chain
  <1>6. Kept'
    BY <1>1, <1>3 DEF Kept
  <1>7. CASE r <= w
    <2>1. Linear
      BY <1>1, <1>7 DEF Layout
    <2>2. e = Max
      BY <2>1 DEF Linear
    <2>3. CASE N = 1
      <3>1. N' = 0 /\ End(1) = w
        BY <1>2, <1>3, <2>1, <2>3 DEF Linear
      <3>2. buffer_end_pos' = Max /\ read_pos' = IF w >= Max THEN 0 ELSE w
        BY <1>2, <2>2, <3>1
      <3>3. Linear'
        BY <1>1, <3>1, <3>2 DEF Linear
      <3>4. Layout'
        BY <1>1, <3>2, <3>3 DEF Layout
      <3>5. Chain'
        BY <3>1 DEF Chain
      <3> QED BY <1>6, <3>4, <3>5 DEF Sound
    <2>4. CASE N # 1
      <3>1. End(1) < Max /\ 1 < N /\ 1 \in 1..N'
        BY <1>2, <1>3, <2>1, <2>4 DEF Linear
      <3>2. buffer_end_pos' = Max /\ read_pos' = End(1) /\ Addr(2) = End(1)
        BY <1>1, <1>2, <1>4, <2>2, <3>1 DEF Chain
      <3>3. End(1) <= w
        BY <1>2, <2>1 DEF Linear
      <3>4. Linear'
        <4>1. ASSUME NEW i \in 1..N'
              PROVE  /\ Addr(i)' >= read_pos' /\ End(i)' <= write_pos'
                     /\ IF i < N' THEN End(i)' < Max ELSE End(i)' = write_pos'
          BY <1>2, <1>3, <2>1, <3>2, <4>1 DEF Linear
        <4>2. ASSUME NEW i \in 1..N', NEW j \in 1..N', i < j PROVE End(i)' <= Addr(j)'
          BY <1>3, <2>1, <4>2 DEF Linear
        <4> QED BY <1>3, <3>1, <3>2, <4>1, <4>2 DEF Linear
      <3>5. Layout'
        BY <3>2, <3>3, <3>4 DEF Layout
      <3>6. Chain'
        BY <1>1, <1>3, <2>2, <3>1, <3>2 DEF Chain
      <3> QED BY <1>6, <3>5, <3>6 DEF Sound
    <2> QED BY <2>3, <2>4
  <1>8. CASE ~(r <= w)
    <2>1. Wrapped
      BY <1>8, <1>1 DEF Layout
    <2>2. w < r /\ r < e
      BY <1>1, <1>8, <2>1 DEF Wrapped
    <2>3. CASE End(1) >= e
      <3>1. End(1) = e /\ read_pos' = 0 /\ buffer_end_pos' = Max
        BY <1>1, <1>2, <1>4, <1>5, <2>1, <2>2, <2>3 DEF Wrapped
      \* The other frames are those below write_pos.
      <3>2. ASSUME NEW j \in 1..N, j # 1 PROVE End(j) <= w /\ Addr(j) < r
        <4>1. 1 < j /\ Addr(j) \in Nat /\ End(j) \in Nat /\ Addr(j) < End(j)
          BY <1>3, <1>4, <3>2
        <4>2. End(1) <= Addr(j) \/ End(j) <= w
          BY <1>2, <2>1, <4>1 DEF Wrapped
        <4>3. (Addr(j) >= r /\ End(j) <= e) \/ End(j) <= w
          BY <2>1 DEF Wrapped
        <4> QED BY <1>1, <2>2, <3>1, <4>1, <4>2, <4>3
      <3>3. Linear'
        <4>1. N' = 0 => read_pos' = write_pos'
          <5> SUFFICES ASSUME N = 1 PROVE write_pos' = 0
            BY <1>3, <3>1
          <5> QED BY <1>2, <1>5, <1>1, <2>1 DEF Wrapped
        <4>2. ASSUME NEW i \in 1..N'
              PROVE  /\ Addr(i)' >= read_pos' /\ End(i)' <= write_pos'
                     /\ IF i < N' THEN End(i)' < Max ELSE End(i)' = write_pos'
          <5>1. i + 1 \in 1..N /\ i + 1 # 1 /\ Addr(i)' = Addr(i + 1) /\ End(i)' = End(i + 1)
            BY <1>3
          <5>2. Addr(i)' >= 0 /\ End(i)' <= w /\ Addr(i + 1) < r
            BY <1>4, <3>2, <5>1
          <5>3. i = N' => End(i)' = w
            BY <1>1, <1>3, <1>4, <2>1, <5>1, <5>2 DEF Wrapped
          <5> QED BY <1>1, <1>3, <1>4, <2>2, <3>1, <5>1, <5>2, <5>3
        <4>3. ASSUME NEW i \in 1..N', NEW j \in 1..N', i < j PROVE End(i)' <= Addr(j)'
          <5>1. /\ i + 1 \in 1..N /\ j + 1 \in 1..N /\ i + 1 < j + 1 /\ i + 1 # 1
                /\ Addr(j)' = Addr(j + 1) /\ End(i)' = End(i + 1)
            BY <1>3, <4>3
          <5>2. End(i + 1) <= Addr(j + 1) \/ Addr(i + 1) >= r
            BY <2>1, <5>1 DEF Wrapped
          <5>3. Addr(i + 1) < r /\ Addr(i + 1) \in Nat
            BY <1>4, <3>2, <5>1
          <5> QED BY <1>1, <5>1, <5>2, <5>3
        <4> QED BY <3>1, <4>1, <4>2, <4>3 DEF Linear
      <3>4. Layout'
        BY <1>1, <3>1, <3>3 DEF Layout
      <3>5. Chain'
        <4>1. N' > 0 => Addr(1)' = 0
          BY <1>1, <1>3, <1>2, <2>3 DEF Chain
        <4>2. ASSUME NEW i \in 1..N', i < N'
              PROVE  Addr(i + 1)' = IF End(i)' >= Max THEN 0 ELSE End(i)'
          <5>1. /\ i + 1 \in 1..N /\ i + 1 < N /\ i + 1 \in 1..N' /\ i + 1 # 1
                /\ End(i)' = End(i + 1) /\ Addr(i + 1)' = Addr(i + 2)
            BY <1>3, <4>2
          <5>2. Addr(i + 2) = IF End(i + 1) >= e THEN 0 ELSE End(i + 1)
            BY <1>1, <5>1 DEF Chain
          <5>3. End(i + 1) <= w /\ End(i + 1) \in Nat
            BY <1>4, <3>2, <5>1
          <5> QED BY <1>1, <2>2, <5>1, <5>2, <5>3
        <4> QED BY <3>1, <4>1, <4>2 DEF Chain
      <3> QED BY <1>6, <3>4, <3>5 DEF Sound
    <2>4. CASE End(1) < e
      <3>1. read_pos' = End(1) /\ buffer_end_pos' = e /\ r < End(1)
        BY <1>1, <1>2, <1>4, <1>5, <2>4
      <3>2. N # 1
        BY <1>1, <1>2, <1>5, <2>1, <2>4 DEF Wrapped
      \* A frame that is not below write_pos lies behind the first.
      <3>3. ASSUME NEW j \in 1..N, j # 1, Addr(j) >= r PROVE End(1) <= Addr(j)
        <4>1. 1 < j /\ Addr(j) \in Nat /\ End(j) \in Nat /\ Addr(j) < End(j)
          BY <1>3, <1>4, <3>3
        <4>2. End(1) <= Addr(j) \/ End(j) <= w
          BY <1>2, <2>1, <4>1 DEF Wrapped
        <4> QED BY <1>1, <2>2, <3>3, <4>1, <4>2
      <3>4. Wrapped'
        <4>1. ASSUME NEW i \in 1..N'
              PROVE  /\ (Addr(i)' >= read_pos' /\ End(i)' <= buffer_end_pos') \/ End(i)' <= write_pos'
                     /\ i = N' => IF Addr(i)' >= read_pos'
                                  THEN End(i)' = buffer_end_pos' /\ write_pos' = 0
                                  ELSE End(i)' = write_pos'
          <5>1. i + 1 \in 1..N /\ i + 1 # 1 /\ Addr(i)' = Addr(i + 1) /\ End(i)' = End(i + 1)
            BY <1>3
          <5>2. Addr(i + 1) \in Nat /\ End(1) \in Nat
            BY <1>2, <1>4, <5>1
          <5>3. (Addr(i + 1) >= r /\ End(i + 1) <= e) \/ End(i + 1) <= w
            BY <2>1, <5>1 DEF Wrapped
          <5>4. Addr(i + 1) >= r <=> Addr(i + 1) >= End(1)
            BY <1>1, <3>1, <3>3, <5>1, <5>2
          <5>5. i = N' => IF Addr(i + 1) >= r THEN End(i + 1) = e /\ w = 0 ELSE End(i + 1) = w
            BY <1>3, <2>1, <5>1 DEF Wrapped
          <5> QED BY <3>1, <5>1, <5>3, <5>4, <5>5
        <4>2. ASSUME NEW i \in 1..N', NEW j \in 1..N', i < j
              PROVE  End(i)' <= Addr(j)' \/ (Addr(i)' >= read_pos' /\ End(j)' <= write_pos')
          <5>1. /\ i + 1 \in 1..N /\ j + 1 \in 1..N /\ i + 1 < j + 1 /\ i + 1 # 1
                /\ Addr(i)' = Addr(i + 1) /\ Addr(j)' = Addr(j + 1)
                /\ End(i)' = End(i + 1) /\ End(j)' = End(j + 1)
            BY <1>3, <4>2
          <5>2. End(i + 1) <= Addr(j + 1) \/ (Addr(i + 1) >= r /\ End(j + 1) <= w)
            BY <2>1, <5>1 DEF Wrapped
          <5> QED BY <3>1, <3>3, <5>1, <5>2
        <4> QED BY <1>3, <2>4, <3>1, <3>2, <4>1, <4>2 DEF Wrapped
      <3>5. Layout'
        BY <1>1, <1>2, <1>4, <2>2, <3>1, <3>4 DEF Layout
      <3>6. Chain'
        <4>1. Addr(1)' = End(1)
          BY <1>1, <1>2, <1>3, <2>4, <3>2, <1>4 DEF Chain
        <4>2. ASSUME NEW i \in 1..N', i < N'
              PROVE  Addr(i + 1)' = IF End(i)' >= e THEN 0 ELSE End(i)'
          <5>1. /\ i + 1 \in 1..N /\ i + 1 < N /\ i + 1 \in 1..N'
                /\ End(i)' = End(i + 1) /\ Addr(i + 1)' = Addr(i + 2)
            BY <1>3, <4>2
          <5> QED BY <1>1, <5>1 DEF Chain
        <4> QED BY <3>1, <4>1, <4>2 DEF Chain
      <3> QED BY <1>6, <3>5, <3>6 DEF Sound
    <2> QED BY <1>1, <1>2, <1>4, <2>3, <2>4
  <1> QED BY <1>7, <1>8

\* The copy of a new frame tears no header of another one.
LEMMA WrittenKeeps ==
    ASSUME TypeOK, NEW a \in 0..Max, NEW f \in Frame, NEW x \in 0..Max,
           hdr' = Written(a, f)
    PROVE  /\ x = a => hdr'[x] = f
           /\ x + Hdr + 1 <= a \/ a + Need(f) <= x => hdr'[x] = hdr[x]
  <1>1. Need(f) \in Nat /\ Need(f) >= Hdr
    BY FrameFits, RingAssumption DEF Need
  <1>2. hdr'[x] = IF x = a THEN f
                  ELSE IF x + Hdr > a /\ x < a + Need(f) THEN Torn ELSE hdr[x]
    BY DEF Written
  <1> QED BY <1>1, <1>2, RingAssumption

\* The end of pushFrame.
LEMMA PlaceSound ==
    ASSUME TypeInv, Sound, Roomy, NEW p \in Producers, Place(p)
    PROVE  Sound'
  <1> USE RingAssumption
  <1> DEFINE r == read_pos
             w == write_pos
             e == buffer_end_pos
             f == req[p]
             k == Need(f)
  <1>1. /\ r \in 0..Max /\ w \in 0..Max+1 /\ e \in 0..Max+1 /\ TypeOK
        /\ Chain /\ Kept /\ Layout
    BY DEF TypeInv, TypeOK, Sound
  <1>2. f \in Frame
    BY DEF TypeInv, Holder, Place
  <1>3. k \in Nat /\ k >= Hdr
    BY <1>2, FrameFits DEF Need
  <1>4. w + k <= Max /\ w \in 0..Max /\ w < Max
    BY <1>1, <1>3 DEF Place, Fits
  <1>5. /\ read_pos' = r /\ write_pos' = w + k + 1 /\ buffer_end_pos' = e
        /\ hdr' = Written(w, f)
        /\ frames' = Append(frames, [addr |-> w, frame |-> f])
    BY DEF Place, After
  <1>6. [addr |-> w, frame |-> f] \in [addr : 0..Max, frame : Frame]
    BY <1>2, <1>4
  <1>7. /\ N \in Nat /\ N' = N + 1
        /\ \A i \in 1..N : /\ i \in 1..N' /\ frames'[i] = frames[i]
                           /\ Addr(i)' = Addr(i) /\ End(i)' = End(i)
        /\ \A i \in 1..N' : i = N + 1 =>
              frames'[i].frame = f /\ Addr(i)' = w /\ End(i)' = w + k + 1
    <2>1. PICK g \in [addr : 0..Max, frame : Frame] : g = [addr |-> w, frame |-> f]
      BY <1>6
    <2>2. g.addr = w /\ g.frame = f /\ frames' = Append(frames, g)
      BY <1>5, <2>1
    <2>3. After(w, f) = w + k + 1
      BY DEF After
    <2> HIDE DEF w, f, k
    <2> QED BY ONLY <1>1, <2>2, <2>3, AppendFrames
  <1>8. \A i \in 1..N : /\ Addr(i) \in 0..Max /\ End(i) \in Nat
                       /\ Addr(i) + Hdr + 1 <= End(i)
    BY <1>1, FrameAt
  <1>9. ASSUME NEW i \in 1..N
        PROVE  End(i) <= w \/ (Addr(i) >= r /\ w + k + 1 < r)
    <2>1. CASE r <= w
      BY <1>1, <2>1 DEF Layout, Linear
    <2>2. CASE ~(r <= w)
      <3>1. w + k + 1 < r
        BY <2>2 DEF Roomy, Place
      <3> QED BY <1>1, <2>2, <3>1 DEF Layout, Wrapped
    <2> QED BY <2>1, <2>2
  <1>10. Kept'
    <2>1. ASSUME NEW i \in 1..N PROVE hdr'[Addr(i)] = hdr[Addr(i)]
      <3>1. Addr(i) \in 0..Max /\ End(i) \in Nat /\ Addr(i) + Hdr + 1 <= End(i)
        BY <1>8
      <3>2. Addr(i) + Hdr + 1 <= w \/ w + k <= Addr(i)
        BY <1>1, <1>3, <1>9, <3>1
      <3> QED BY <1>1, <1>2, <1>4, <1>5, <3>1, <3>2, WrittenKeeps
    <2>2. hdr'[w] = f
      BY <1>1, <1>2, <1>4, <1>5, WrittenKeeps
    <2>3. ASSUME NEW i \in 1..N' PROVE hdr'[Addr(i)'] = frames'[i].frame
      <3>1. CASE i \in 1..N
        BY <1>1, <1>7, <2>1, <3>1 DEF Kept
      <3>2. CASE i = N + 1
        BY <1>7, <2>2, <3>2
      <3> QED BY <1>7, <3>1, <3>2
    <2> QED BY <2>3 DEF Kept
  <1>11. CASE r <= w
    <2>1. Linear
      BY <1>1, <1>11 DEF Layout
    <2>2. e = Max /\ (N = 0 => r = w)
      BY <1>1, <1>4, <2>1 DEF Linear
    <2>3. ASSUME NEW i \in 1..N
          PROVE  /\ Addr(i) >= r /\ End(i) <= w /\ End(i) < Max
                 /\ i = N => End(i) = w
      BY <1>1, <1>4, <1>7, <1>8, <2>1 DEF Linear
    <2>4. Linear'
      <3>1. ASSUME NEW i \in 1..N'
            PROVE  /\ Addr(i)' >= read_pos' /\ End(i)' <= write_pos'
                   /\ IF i < N' THEN End(i)' < Max ELSE End(i)' = write_pos'
        <4>1. CASE i \in 1..N
          <5>1. Addr(i)' = Addr(i) /\ End(i)' = End(i) /\ i < N'
            BY <1>7, <4>1
          <5>2. End(i) \in Nat /\ Addr(i) >= r /\ End(i) <= w /\ End(i) < Max
            BY <1>8, <2>3, <4>1
          <5> QED BY <1>1, <1>3, <1>5, <5>1, <5>2
        <4>2. CASE i = N + 1
          BY <1>5, <1>7, <1>11, <1>1, <1>3, <4>2
        <4> QED BY <1>7, <4>1, <4>2
      <3>2. ASSUME NEW i \in 1..N', NEW j \in 1..N', i < j PROVE End(i)' <= Addr(j)'
        <4>1. i \in 1..N /\ End(i)' = End(i)
          BY <1>7, <3>2
        <4>2. CASE j \in 1..N
          BY <1>7, <2>1, <3>2, <4>1, <4>2 DEF Linear
        <4>3. CASE j = N + 1
          <5>1. Addr(j)' = w
            BY <1>7, <4>3
          <5>2. End(i) <= w
            BY <2>3, <4>1
          <5> QED BY <4>1, <5>1, <5>2
        <4> QED BY <1>7, <4>2, <4>3
      <3>3. N' # 0
        BY <1>7
      <3> QED BY <1>5, <2>2, <3>1, <3>2, <3>3 DEF Linear
    <2>5. Layout'
      BY <1>1, <1>3, <1>5, <1>11, <2>4 DEF Layout
    <2>6. Chain'
      <3>1. Addr(1)' = r
        <4>1. CASE N = 0
          BY <1>7, <2>2, <4>1
        <4>2. CASE N # 0
          BY <1>1, <1>7, <4>2 DEF Chain
        <4> QED BY <4>1, <4>2
      <3>2. ASSUME NEW i \in 1..N', i < N'
            PROVE  Addr(i + 1)' = IF End(i)' >= e THEN 0 ELSE End(i)'
        <4>1. i \in 1..N /\ End(i)' = End(i)
          BY <1>7, <3>2
        <4>2. CASE i < N
          BY <1>1, <1>7, <4>1, <4>2 DEF Chain
        <4>3. CASE i = N
          <5>1. i + 1 \in 1..N' /\ Addr(i + 1)' = w
            BY <1>7, <4>1, <4>3
          <5>2. End(i) = w /\ End(i) < e
            BY <2>2, <2>3, <4>1, <4>3
          <5> QED BY <1>1, <4>1, <5>1, <5>2
        <4> QED BY <1>7, <4>1, <4>2, <4>3
      <3> QED BY <1>5, <3>1, <3>2 DEF Chain
    <2> QED BY <1>10, <2>5, <2>6 DEF Sound
  <1>12. CASE ~(r <= w)
    <2>1. Wrapped /\ w + k + 1 < r
      BY <1>1, <1>12 DEF Layout, Roomy, Place
    <2>2. N > 0 /\ r < e
      BY <2>1 DEF Wrapped
    <2>3. Wrapped'
      <3>1. ASSUME NEW i \in 1..N'
            PROVE  /\ (Addr(i)' >= read_pos' /\ End(i)' <= buffer_end_pos') \/ End(i)' <= write_pos'
                   /\ i = N' => IF Addr(i)' >= read_pos'
                                THEN End(i)' = buffer_end_pos' /\ write_pos' = 0
                                ELSE End(i)' = write_pos'
        <4>1. CASE i \in 1..N
          <5>1. Addr(i)' = Addr(i) /\ End(i)' = End(i) /\ i # N'
            BY <1>7, <4>1
          <5>2. (Addr(i) >= r /\ End(i) <= e) \/ End(i) <= w
            BY <2>1, <4>1 DEF Wrapped
          <5> QED BY <1>1, <1>3, <1>5, <1>8, <4>1, <5>1, <5>2
        <4>2. CASE i = N + 1
          <5>1. Addr(i)' = w /\ End(i)' = w + k + 1
            BY <1>7, <4>2
          <5> QED BY <1>1, <1>3, <1>5, <1>12, <5>1
        <4> QED BY <1>7, <4>1, <4>2
      <3>2. ASSUME NEW i \in 1..N', NEW j \in 1..N', i < j
            PROVE  End(i)' <= Addr(j)' \/ (Addr(i)' >= read_pos' /\ End(j)' <= write_pos')
        <4>1. i \in 1..N /\ End(i)' = End(i) /\ Addr(i)' = Addr(i)
          BY <1>7, <3>2
        <4>2. CASE j \in 1..N
          <5>1. End(i) <= Addr(j) \/ (Addr(i) >= r /\ End(j) <= w)
            BY <2>1, <3>2, <4>1, <4>2 DEF Wrapped
          <5>2. Addr(j)' = Addr(j) /\ End(j)' = End(j) /\ End(j) \in Nat
            BY <1>7, <1>8, <4>2
          <5> QED BY <1>1, <1>3, <1>5, <4>1, <5>1, <5>2
        <4>3. CASE j = N + 1
          <5>1. Addr(j)' = w /\ End(j)' = w + k + 1
            BY <1>7, <4>3
          <5> QED BY <1>1, <1>3, <1>5, <1>9, <4>1, <5>1
        <4> QED BY <1>7, <4>2, <4>3
      <3> QED BY <1>5, <1>7, <2>2, <3>1, <3>2 DEF Wrapped
    <2>4. Layout'
      BY <1>1, <1>3, <1>5, <2>1, <2>3 DEF Layout
    <2>5. Chain'
      <3>1. Addr(1)' = r
        BY <1>1, <1>7, <2>2 DEF Chain
      <3>2. ASSUME NEW i \in 1..N', i < N'
            PROVE  Addr(i + 1)' = IF End(i)' >= e THEN 0 ELSE End(i)'
        <4>1. i \in 1..N /\ End(i)' = End(i)
          BY <1>7, <3>2
        <4>2. CASE i < N
          BY <1>1, <1>7, <4>1, <4>2 DEF Chain
        <4>3. CASE i = N
          <5>1. i + 1 \in 1..N' /\ Addr(i + 1)' = w
            BY <1>7, <4>1, <4>3
          <5>2. IF Addr(i) >= r THEN End(i) = e /\ w = 0 ELSE End(i) = w
            BY <2>1, <4>1, <4>3 DEF Wrapped
          <5> QED BY <1>1, <1>12, <2>2, <4>1, <5>1, <5>2
        <4> QED BY <1>7, <4>1, <4>2, <4>3
      <3> QED BY <1>5, <3>1, <3>2 DEF Chain
    <2> QED BY <1>10, <2>4, <2>5 DEF Sound
  <1> QED BY <1>11, <1>12

\* The wrap within myallocate, when there is a frame to keep or to discard.
LEMMA WrapSound ==
    ASSUME TypeInv, Sound, Roomy, frames # <<>>, NEW p \in Producers, Wrap(p)
    PROVE  Sound'
  <1> USE RingAssumption
  <1> DEFINE r == read_pos
             w == write_pos
  <1>1. /\ r \in 0..Max /\ w \in 0..Max+1 /\ TypeOK /\ N \in Nat \ {0}
        /\ Chain /\ Kept /\ Layout
    BY DEF TypeInv, TypeOK, Sound, N
  <1>2. Need(req[p]) \in Nat /\ w + Need(req[p]) > Max
    <2>1. req[p] \in Frame /\ ~Fits(p)
      BY DEF TypeInv, Holder, Wrap
    <2>2. Need(req[p]) \in Nat
      BY <2>1, FrameFits
    <2> QED BY <1>1, <2>1, <2>2 DEF Fits
  <1>3. r <= w /\ Linear
    <2>1. r <= w \/ w + Need(req[p]) + 1 < r
      BY DEF Roomy, Wrap
    <2>2. r <= w
      BY <1>1, <1>2, <2>1
    <2> QED BY <1>1, <2>2 DEF Layout
  <1>4. ASSUME NEW i \in 1..N
        PROVE  /\ Addr(i) \in Nat /\ End(i) \in Nat /\ Addr(i) < End(i)
               /\ Addr(i) >= r /\ End(i) <= w
               /\ i = N => End(i) = w
    <2>1. Addr(i) \in Nat /\ End(i) \in Nat /\ Addr(i) < End(i)
      BY <1>1, FrameAt
    <2>2. Addr(i) >= r /\ End(i) <= w /\ (i = N => End(i) = w)
      BY <1>3 DEF Linear
    <2> QED BY <2>1, <2>2
  <1>5. ASSUME NEW i \in 1..N, i < N
        PROVE  i + 1 \in 1..N /\ Addr(i + 1) = End(i) /\ End(i) < w
    <2>1. i + 1 \in 1..N
      BY <1>1, <1>5
    <2>2. End(i) \in Nat /\ End(i) < Max /\ buffer_end_pos = Max
      BY <1>3, <1>4, <1>5 DEF Linear
    <2>3. Addr(i + 1) = End(i)
      BY <1>1, <1>5, <2>2 DEF Chain
    <2>4. Addr(i + 1) < End(i + 1) /\ End(i + 1) <= w /\ End(i + 1) \in Nat
      BY <1>4, <2>1
    <2> QED BY <1>1, <2>1, <2>2, <2>3, <2>4
  <1>6. ASSUME NEW i \in 1..N, NEW j \in 1..N, i < j PROVE End(i) <= Addr(j)
    BY <1>3, <1>6 DEF Linear
  <1>7. Addr(1) = r /\ 1 \in 1..N
    BY <1>1 DEF Chain
  <1>8. write_pos' = 0 /\ hdr' = hdr
    BY DEF Wrap
  <1>9. CASE r # 0
    <2>1. read_pos' = r /\ buffer_end_pos' = w /\ frames' = frames
      BY <1>9 DEF Wrap
    <2>2. /\ N' = N
          /\ \A i \in 1..N : Addr(i)' = Addr(i) /\ End(i)' = End(i)
      BY <2>1 DEF N, Addr, End
    <2>3. Kept'
      BY <1>1, <1>8, <2>1, <2>2 DEF Kept
    <2>4. r < w
      BY <1>1, <1>4, <1>7
    <2>5. Wrapped'
      BY <1>1, <1>4, <1>6, <1>8, <2>1, <2>2, <2>4 DEF Wrapped
    <2>6. Layout'
      BY <1>1, <1>8, <1>9, <2>1, <2>5 DEF Layout
    <2>7. ASSUME NEW i \in 1..N', i < N'
          PROVE  Addr(i + 1)' = IF End(i)' >= w THEN 0 ELSE End(i)'
      <3>1. i \in 1..N /\ i < N
        BY <2>2, <2>7
      <3>2. i + 1 \in 1..N /\ Addr(i + 1) = End(i) /\ End(i) < w /\ End(i) \in Nat
        BY <1>4, <1>5, <3>1
      <3>3. Addr(i + 1)' = Addr(i + 1) /\ End(i)' = End(i)
        BY <2>2, <3>1, <3>2
      <3> QED BY <1>1, <3>2, <3>3
    <2>8. Addr(1)' = r
      BY <1>7, <2>2
    <2>9. Chain'
      BY <2>1, <2>7, <2>8 DEF Chain
    <2> QED BY <2>3, <2>6, <2>9 DEF Sound
  <1>10. CASE r = 0
    <2>1. PICK n \in SizeAt(read_pos) : myfree(n, write_pos)
      BY <1>10 DEF Wrap, discardFrame
    <2>2. /\ frames' = Tail(frames)
          /\ read_pos' = IF End(1) >= w THEN 0 ELSE End(1)
          /\ buffer_end_pos' = IF End(1) >= w THEN Max ELSE w
      BY <1>1, <2>1, FirstFreed
    <2>3. /\ N' = N - 1
          /\ \A i \in 1..N' : /\ i + 1 \in 1..N /\ frames'[i] = frames[i + 1]
                              /\ Addr(i)' = Addr(i + 1) /\ End(i)' = End(i + 1)
      BY <1>1, <2>2, TailFrames
    <2>4. Kept'
      BY <1>1, <1>8, <2>3 DEF Kept
    <2>5. CASE N = 1
      <3>1. End(1) = w /\ N' = 0
        BY <1>4, <1>7, <2>3, <2>5
      <3>2. read_pos' = 0 /\ buffer_end_pos' = Max
        BY <1>1, <2>2, <3>1
      <3>3. Chain' /\ Linear'
        BY <1>8, <3>1, <3>2 DEF Chain, Linear
      <3> QED BY <1>8, <2>4, <3>2, <3>3 DEF Sound, Layout
    <2>6. CASE N # 1
      <3>1. 1 < N /\ 1 \in 1..N'
        BY <1>1, <2>3, <2>6
      <3>2. Addr(2) = End(1) /\ End(1) < w /\ End(1) \in Nat /\ 0 < End(1)
        BY <1>4, <1>5, <1>7, <3>1
      <3>3. read_pos' = End(1) /\ buffer_end_pos' = w
        BY <1>1, <2>2, <3>2
      <3>4. Wrapped'
        <4>1. ASSUME NEW i \in 1..N'
              PROVE  /\ Addr(i)' >= read_pos' /\ End(i)' <= buffer_end_pos'
                     /\ i = N' => End(i)' = buffer_end_pos'
          <5>1. i + 1 \in 1..N /\ 1 < i + 1 /\ Addr(i)' = Addr(i + 1) /\ End(i)' = End(i + 1)
            BY <2>3
          <5>2. End(1) <= Addr(i + 1)
            BY <1>6, <1>7, <5>1
          <5>3. End(i + 1) <= w /\ (i = N' => End(i + 1) = w)
            BY <1>1, <1>4, <2>3, <5>1
          <5>4. Addr(i + 1) \in Nat
            BY <1>4, <5>1
          <5> QED BY <3>2, <3>3, <5>1, <5>2, <5>3, <5>4
        <4>2. ASSUME NEW i \in 1..N', NEW j \in 1..N', i < j PROVE End(i)' <= Addr(j)'
          <5>1. /\ i + 1 \in 1..N /\ j + 1 \in 1..N /\ i + 1 < j + 1
                /\ Addr(j)' = Addr(j + 1) /\ End(i)' = End(i + 1)
            BY <2>3, <4>2
          <5> QED BY <1>6, <5>1
        <4>3. N' > 0 /\ read_pos' < buffer_end_pos'
          BY <1>1, <2>3, <3>1, <3>2, <3>3
        <4> QED BY <1>8, <4>1, <4>2, <4>3 DEF Wrapped
      <3>5. Layout'
        BY <1>8, <3>2, <3>3, <3>4 DEF Layout
      <3>6. ASSUME NEW i \in 1..N', i < N'
            PROVE  Addr(i + 1)' = IF End(i)' >= w THEN 0 ELSE End(i)'
        <4>1. /\ i + 1 \in 1..N /\ i + 1 < N /\ i + 1 \in 1..N'
              /\ End(i)' = End(i + 1) /\ Addr(i + 1)' = Addr(i + 1 + 1)
          BY <1>1, <2>3, <3>6
        <4>2. Addr(i + 1 + 1) = End(i + 1) /\ End(i + 1) < w /\ End(i + 1) \in Nat
          BY <1>4, <1>5, <4>1
        <4> QED BY <1>1, <4>1, <4>2
      <3>7. Addr(1)' = End(1)
        BY <2>3, <3>1, <3>2
      <3>8. Chain'
        BY <3>3, <3>6, <3>7 DEF Chain
      <3> QED BY <2>4, <3>5, <3>8 DEF Sound
    <2> QED BY <2>5, <2>6
  <1> QED BY <1>9, <1>10

\* What holds until the ring is damaged.
Good == ~damaged => Sound /\ Roomy

\* Only the thread that holds the mutex is between the lock and the unlock.
LEMMA OneHolder ==
    ASSUME TypeInv, NEW p \in Producers, NEW q \in Producers, q # p,
           pc[p] \in {"alloc", "loop", "fit"}
    PROVE  pc[q] # "fit"
  BY DEF TypeInv, Holder

LEMMA GoodNext == TypeInv /\ Good /\ [Next]_vars => Good'
  <1> SUFFICES ASSUME TypeInv, Good, [Next]_vars, ~damaged' PROVE Sound' /\ Roomy'
    BY DEF Good
  <1>1. ASSUME ~damaged, UNCHANGED ringVars, UNCHANGED histVars,
               \A p \in Producers : pc'[p] = "fit" =>
                  /\ req'[p] = req[p]
                  /\ pc[p] = "fit" \/ ~(write_pos < read_pos /\ NoRoom(p))
        PROVE  Sound' /\ Roomy'
    <2>1. Sound /\ Roomy
      BY <1>1 DEF Good
    <2>2. Sound'
      BY <1>1, <2>1 DEF Sound, Chain, Kept, Layout, Linear, Wrapped, Addr, End, N,
                        ringVars, histVars
    <2>3. Roomy'
      <3> SUFFICES ASSUME NEW p \in Producers, pc'[p] = "fit"
                   PROVE  read_pos <= write_pos \/ write_pos + Need(req[p]) + 1 < read_pos
        BY <1>1 DEF Roomy, ringVars
      <3>1. CASE pc[p] = "fit"
        BY <2>1, <3>1 DEF Roomy
      <3>2. CASE ~(write_pos < read_pos /\ NoRoom(p))
        <4>1. req'[p] \in Frame
          BY TypeNext DEF TypeInv, Holder
        <4>2. Need(req[p]) \in Nat /\ read_pos \in Nat /\ write_pos \in Nat
          BY <1>1, <4>1, FrameFits DEF TypeInv, TypeOK
        <4> QED BY <3>2, <4>2 DEF NoRoom
      <3> QED BY <1>1, <3>1, <3>2
    <2> QED BY <2>2, <2>3
  <1>2. ASSUME NEW p \in Producers, Lock(p) PROVE Sound' /\ Roomy'
    <2>1. \A q \in Producers : pc'[q] = "fit" => pc[q] = "fit" /\ req'[q] = req[q]
      BY <1>2 DEF Lock, TypeInv, TypeOK
    <2> QED BY <1>1, <1>2, <2>1 DEF Lock, histVars
  <1>3. ASSUME NEW p \in Producers, Enter(p) PROVE Sound' /\ Roomy'
    <2>1. \A q \in Producers : pc'[q] = "fit" =>
             pc[q] = "fit" \/ ~(write_pos < read_pos /\ NoRoom(q))
      BY <1>3 DEF Enter, TypeInv, TypeOK
    <2> QED BY <1>1, <1>3, <2>1 DEF Enter, histVars
  <1>4. ASSUME NEW p \in Producers, Discard(p) PROVE Sound' /\ Roomy'
    <2>1. PICK n \in SizeAt(read_pos) : myfree(n, buffer_end_pos)
      BY <1>4 DEF Discard, discardFrame
    <2>2. ~damaged /\ frames # <<>>
      BY <2>1 DEF myfree
    <2>3. Sound'
      BY <1>4, <2>1, <2>2, FreeSound DEF Discard, Good, TypeInv
    <2>4. \A q \in Producers : pc'[q] # "fit"
      BY <1>4, OneHolder DEF Discard
    <2> QED BY <2>3, <2>4 DEF Roomy
  <1>5. ASSUME NEW p \in Producers, Exit(p) PROVE Sound' /\ Roomy'
    <2>1. \A q \in Producers : pc'[q] = "fit" =>
             pc[q] = "fit" \/ ~(write_pos < read_pos /\ NoRoom(q))
      BY <1>5 DEF Exit, TypeInv, TypeOK
    <2> QED BY <1>1, <1>5, <2>1 DEF Exit, histVars
  <1>6. ASSUME NEW p \in Producers, Wrap(p) PROVE Sound' /\ Roomy'
    <2>1. ~damaged /\ frames # <<>>
      BY <1>6 DEF Wrap, discardFrame, myfree
    <2>2. Sound'
      BY <1>6, <2>1, WrapSound DEF Good
    <2>3. \A q \in Producers : pc'[q] # "fit"
      BY <1>6, OneHolder DEF Wrap, TypeInv, TypeOK
    <2> QED BY <2>2, <2>3 DEF Roomy
  <1>7. ASSUME NEW p \in Producers, Place(p) PROVE Sound' /\ Roomy'
    <2>1. ~damaged
      BY <1>7 DEF Place
    <2>2. Sound'
      BY <1>7, <2>1, PlaceSound DEF Good
    <2>3. \A q \in Producers : pc'[q] # "fit"
      BY <1>7, OneHolder DEF Place, TypeInv, TypeOK
    <2> QED BY <2>2, <2>3 DEF Roomy
  <1>8. ASSUME NEW p \in Producers, Post(p) PROVE Sound' /\ Roomy'
    <2>1. \A q \in Producers : pc'[q] = "fit" => pc[q] = "fit"
      BY <1>8 DEF Post, TypeInv, TypeOK
    <2> QED BY <1>1, <1>8, <2>1 DEF Post, histVars
  <1>9. ASSUME SemWait PROVE Sound' /\ Roomy'
    BY <1>1, <1>9 DEF SemWait, histVars
  <1>10. ASSUME Pop PROVE Sound' /\ Roomy'
    <2>1. PICK n \in SizeAt(read_pos) : myfree(n, buffer_end_pos)
      BY <1>10 DEF Pop
    <2>2. ~damaged /\ frames # <<>>
      BY <2>1 DEF myfree
    <2>3. Sound'
      BY <1>10, <2>1, <2>2, FreeSound DEF Pop, Good, TypeInv
    <2>4. \A q \in Producers : pc'[q] # "fit"
      BY <1>10, RingAssumption DEF Pop, TypeInv, Holder
    <2> QED BY <2>3, <2>4 DEF Roomy
  <1>11. ASSUME Record PROVE Sound' /\ Roomy'
    BY <1>1, <1>11 DEF Record, histVars
  <1>12. CASE UNCHANGED vars
    BY <1>1, <1>12 DEF vars, ringVars, histVars
  <1> QED
    BY <1>2, <1>3, <1>4, <1>5, <1>6, <1>7, <1>8, <1>9, <1>10, <1>11, <1>12
    DEF Next, push, record

LEMMA GoodInit == Init => Good
  <1> SUFFICES ASSUME Init PROVE Good
    OBVIOUS
  <1>1. N = 0 /\ read_pos = 0 /\ write_pos = 0 /\ buffer_end_pos = Max
    BY DEF Init, N
  <1>2. Linear /\ Chain /\ Kept
    BY <1>1 DEF Linear, Chain, Kept
  <1>3. Roomy
    BY DEF Init, Roomy
  <1> QED BY <1>1, <1>2, <1>3 DEF Good, Sound, Layout

\* Until a frame is freed, or the ring wraps, while it is empty, every frame
\* pushed and not yet freed is intact where freeing the ones before it leads:
\* myallocate never hands out bytes that still belong to a frame, for every size
\* of the buffer and of the frames and any number of capture threads.
THEOREM FramesIntact == Spec => []Intact
  <1>1. Spec => []TypeInv
    BY TypeInit, TypeNext, PTL DEF Spec
  <1>2. Spec => []Good
    BY <1>1, GoodInit, GoodNext, PTL DEF Spec
  <1>3. TypeInv /\ Good => Intact
    <2> SUFFICES ASSUME TypeInv, Good, ~damaged PROVE Intact
      BY DEF Intact
    <2>1. Chain /\ Kept
      BY DEF Good, Sound
    <2>2. N \in Nat /\ (frames # <<>> => N > 0)
      BY DEF TypeInv, TypeOK, N
    <2>3. frames # <<>> => frames[1].addr = read_pos
      BY <2>1, <2>2 DEF Chain, Addr
    <2>4. \A i \in 1..Len(frames) : hdr[frames[i].addr] = frames[i].frame
      BY <2>1 DEF Kept, Addr, N
    <2>5. ASSUME NEW i \in 1..Len(frames) - 1
          PROVE  frames[i + 1].addr =
                   IF End(i) >= buffer_end_pos THEN 0 ELSE End(i)
      BY <2>1, <2>2 DEF Chain, Addr, N
    <2> QED BY <2>3, <2>4, <2>5 DEF Intact, End
  <1> QED BY <1>1, <1>2, <1>3, PTL

----------------------------------------------------------------------------
(* The ring implements a queue. *)

Id(i) == frames[i].frame.id

\* The frames in the ring are younger than the one popped last, each older than
\* the next, and the one being copied is the youngest.
Ordered ==
    /\ got.id <= pushed
    /\ \A i \in 1..N : got.id < Id(i) /\ Id(i) <= pushed
    /\ \A i, j \in 1..N : i < j => Id(i) < Id(j)
    /\ \A p \in Producers : pc[p] \in {"alloc", "loop", "fit"} =>
          /\ req[p].id = pushed /\ got.id < pushed
          /\ \A i \in 1..N : Id(i) < pushed

Sorted == ~damaged => Ordered

LEMMA IdNat ==
    ASSUME TypeOK
    PROVE  /\ \A i \in 1..N : Id(i) \in Nat
           /\ got.id \in Int /\ pushed \in Nat
  <1>1. ASSUME NEW i \in 1..N PROVE Id(i) \in Nat
    <2>1. frames[i].frame \in Frame
      BY FrameAt
    <2> QED BY <2>1, FrameFits DEF Id
  <1>2. got.id \in Int /\ pushed \in Nat
    BY RingAssumption DEF TypeOK
  <1> QED BY <1>1, <1>2

\* Taking the first frame away, for the recorder (g = its number) or for good.
LEMMA TakeFirst ==
    ASSUME TypeOK, Ordered, frames # <<>>, frames' = Tail(frames), pushed' = pushed,
           got'.id = got.id \/ got'.id = Id(1)
    PROVE  /\ 1 \in 1..N /\ got.id < Id(1)
           /\ got'.id <= pushed'
           /\ \A i \in 1..N' : got'.id < Id(i)' /\ Id(i)' <= pushed'
           /\ \A i, j \in 1..N' : i < j => Id(i)' < Id(j)'
           /\ \A k \in Nat : (\A i \in 1..N : Id(i) < k) => \A i \in 1..N' : Id(i)' < k
  <1>1. /\ N \in Nat \ {0} /\ N' = N - 1 /\ 1 \in 1..N
        /\ \A i \in 1..N' : i + 1 \in 1..N /\ frames'[i] = frames[i + 1]
    BY TailFrames
  <1>2. ASSUME NEW i \in 1..N' PROVE i + 1 \in 1..N /\ 1 < i + 1 /\ Id(i)' = Id(i + 1)
    <2>1. i + 1 \in 1..N /\ frames'[i] = frames[i + 1]
      BY <1>1
    <2>2. 1 < i + 1
      BY <1>1
    <2>3. Id(i)' = Id(i + 1)
      BY ONLY <2>1 DEF Id
    <2> QED BY <2>1, <2>2, <2>3
  <1>3. got.id < Id(1) /\ Id(1) <= pushed /\ Id(1) \in Nat /\ got.id \in Int /\ pushed \in Nat
    BY <1>1, IdNat DEF Ordered
  <1>4. got'.id <= pushed'
    BY <1>3
  <1>5. ASSUME NEW i \in 1..N' PROVE got'.id < Id(i)' /\ Id(i)' <= pushed'
    <2>1. Id(i + 1) \in Nat /\ Id(i + 1) <= pushed /\ Id(1) < Id(i + 1)
      BY <1>1, <1>2, IdNat DEF Ordered
    <2> QED BY <1>2, <1>3, <2>1
  <1>6. ASSUME NEW i \in 1..N', NEW j \in 1..N', i < j PROVE Id(i)' < Id(j)'
    <2>1. Id(i)' = Id(i + 1) /\ Id(j)' = Id(j + 1) /\ i + 1 \in 1..N /\ j + 1 \in 1..N
      BY <1>2
    <2>2. i + 1 < j + 1
      BY <1>1, <1>6
    <2> QED BY <2>1, <2>2 DEF Ordered
  <1> QED BY <1>1, <1>2, <1>3, <1>4, <1>5, <1>6

LEMMA SortedNext == TypeInv /\ Good /\ Sorted /\ [Next]_vars => Sorted'
  <1> SUFFICES ASSUME TypeInv, Good, Sorted, [Next]_vars, ~damaged' PROVE Ordered'
    BY DEF Sorted
  <1> DEFINE In(p) == pc[p] \in {"alloc", "loop", "fit"}
  <1>0. TypeOK
    BY DEF TypeInv
  <1>1. ASSUME ~damaged, UNCHANGED <<histVars, got, pushed>>,
               \A p \in Producers : In(p)' => In(p) /\ req'[p] = req[p]
        PROVE  Ordered'
    <2>1. Ordered
      BY <1>1 DEF Sorted
    <2>2. N' = N /\ \A i \in 1..N : Id(i)' = Id(i)
      BY <1>1 DEF histVars, N, Id
    <2> QED BY <1>1, <2>1, <2>2 DEF Ordered
  <1>2. ASSUME NEW p \in Producers, Lock(p) PROVE Ordered'
    <2>1. PICK n \in Sizes : req' = [req EXCEPT ![p] = [id |-> pushed + 1, size |-> n]]
      BY <1>2 DEF Lock
    <2>2. /\ ~damaged /\ frames' = frames /\ got' = got /\ pushed' = pushed + 1
          /\ Ordered
      BY <1>2 DEF Lock, histVars, recVars, Sorted
    <2>3. N' = N /\ \A i \in 1..N : Id(i)' = Id(i)
      BY <2>2 DEF N, Id
    <2>4. req'[p].id = pushed + 1
      BY <1>0, <2>1 DEF TypeOK
    <2>5. ASSUME NEW q \in Producers, In(q)' PROVE q = p
      <3>1. pc'[q] = IF q = p THEN "alloc" ELSE pc[q]
        BY <1>0, <1>2 DEF Lock, TypeOK
      <3>2. ~In(q)
        BY <1>2, RingAssumption DEF Lock, TypeInv, Holder
      <3> QED BY <2>5, <3>1, <3>2
    <2>6. got.id <= pushed /\ \A i \in 1..N : got.id < Id(i) /\ Id(i) <= pushed
      BY <2>2 DEF Ordered
    <2>7. /\ got.id < pushed + 1
          /\ \A i \in 1..N : Id(i) < pushed + 1 /\ Id(i) <= pushed + 1
      BY <1>0, <2>6, IdNat
    <2>8. \A i, j \in 1..N : i < j => Id(i) < Id(j)
      BY <2>2 DEF Ordered
    <2>9. got'.id <= pushed'
      BY <1>0, <2>2, <2>7, IdNat
    <2> QED BY <2>2, <2>3, <2>4, <2>5, <2>6, <2>7, <2>8, <2>9 DEF Ordered
  <1>3. ASSUME NEW p \in Producers, Enter(p) PROVE Ordered'
    <2>1. \A q \in Producers : In(q)' => In(q)
      BY <1>0, <1>3 DEF Enter, TypeOK
    <2> QED BY <1>1, <1>3, <2>1 DEF Enter, histVars, recVars
  <1>4. ASSUME NEW p \in Producers, Discard(p) PROVE Ordered'
    <2>1. PICK n \in SizeAt(read_pos) : myfree(n, buffer_end_pos)
      BY <1>4 DEF Discard, discardFrame
    <2>2. /\ ~damaged /\ frames # <<>> /\ frames' = Tail(frames)
          /\ pushed' = pushed /\ got' = got /\ pc' = pc /\ req' = req
      BY <1>4, <2>1 DEF Discard, myfree, recVars
    <2>3. Ordered
      BY <2>2 DEF Sorted
    <2>4. pushed \in Nat
      BY <1>0, IdNat
    <2>5. \A q \in Producers : In(q)' =>
             req'[q].id = pushed' /\ got'.id < pushed' /\ \A i \in 1..N : Id(i) < pushed
      BY <2>2, <2>3 DEF Ordered
    <2> QED BY <1>0, <2>2, <2>3, <2>4, <2>5, TakeFirst DEF Ordered
  <1>5. ASSUME NEW p \in Producers, Exit(p) PROVE Ordered'
    <2>1. \A q \in Producers : In(q)' => In(q)
      BY <1>0, <1>5 DEF Exit, TypeOK
    <2> QED BY <1>1, <1>5, <2>1 DEF Exit, histVars, recVars
  <1>6. ASSUME NEW p \in Producers, Wrap(p) PROVE Ordered'
    <2>1. ~damaged /\ frames # <<>> /\ pushed' = pushed /\ got' = got /\ req' = req
      BY <1>6 DEF Wrap, discardFrame, myfree, recVars
    <2>2. \A q \in Producers : In(q)' => In(q)
      BY <1>0, <1>6 DEF Wrap, TypeOK
    <2>3. Ordered /\ pushed \in Nat
      BY <1>0, <2>1, IdNat DEF Sorted
    <2>4. CASE read_pos # 0
      <3>1. UNCHANGED histVars
        BY <1>0, <1>6, <2>1, <2>4 DEF Wrap, histVars, TypeOK
      <3> QED BY <1>1, <2>1, <2>2, <3>1
    <2>5. CASE read_pos = 0
      <3>1. frames' = Tail(frames)
        BY <1>6, <2>1, <2>5 DEF Wrap, discardFrame, myfree
      <3>2. \A q \in Producers : In(q)' =>
               req'[q].id = pushed' /\ got'.id < pushed' /\ \A i \in 1..N : Id(i) < pushed
        BY <2>1, <2>2, <2>3 DEF Ordered
      <3> QED BY <1>0, <2>1, <2>3, <3>1, <3>2, TakeFirst DEF Ordered
    <2> QED BY <2>4, <2>5
  <1>7. ASSUME NEW p \in Producers, Place(p) PROVE Ordered'
    <2>1. /\ ~damaged /\ pushed' = pushed /\ got' = got /\ pc[p] = "fit"
          /\ frames' = Append(frames, [addr |-> write_pos, frame |-> req[p]])
      BY <1>7 DEF Place, recVars
    <2>2. /\ Ordered /\ req[p].id = pushed /\ got.id < pushed
          /\ \A i \in 1..N : Id(i) < pushed
      BY <2>1 DEF Sorted, Ordered
    <2>3. \A q \in Producers : ~In(q)'
      BY <1>0, <1>7 DEF Place, TypeInv, TypeOK, Holder
    <2>4. [addr |-> write_pos, frame |-> req[p]] \in [addr : 0..Max, frame : Frame]
      <3>1. req[p] \in Frame
        BY <2>1 DEF TypeInv, Holder
      <3>2. write_pos \in 0..Max
        BY <1>0, <1>7, <3>1, FrameFits, RingAssumption DEF Place, Fits, TypeOK
      <3> QED BY <3>1, <3>2
    <2>5. PICK g \in [addr : 0..Max, frame : Frame] :
             g = [addr |-> write_pos, frame |-> req[p]]
      BY <2>4
    <2>6. g.frame.id = pushed /\ frames' = Append(frames, g)
      BY <2>1, <2>2, <2>5
    <2>7. /\ N \in Nat /\ N' = N + 1
          /\ \A i \in 1..N : i \in 1..N' /\ frames'[i] = frames[i]
          /\ \A i \in 1..N' : i = N + 1 => frames'[i] = g
      BY <1>0, <2>6, AppendFrames
    <2>8. ASSUME NEW i \in 1..N'
          PROVE  \/ i \in 1..N /\ Id(i)' = Id(i)
                 \/ i = N + 1 /\ Id(i)' = pushed
      <3>1. i \in 1..N \/ i = N + 1
        BY <2>7
      <3>2. CASE i \in 1..N
        <4>1. frames'[i] = frames[i]
          BY <2>7, <3>2
        <4>2. Id(i)' = Id(i)
          BY ONLY <4>1 DEF Id
        <4> QED BY <3>2, <4>2
      <3>3. CASE i = N + 1
        <4>1. frames'[i] = g
          BY <2>7, <3>3
        <4>2. Id(i)' = pushed
          BY ONLY <2>6, <4>1 DEF Id
        <4> QED BY <3>3, <4>2
      <3> QED BY <3>1, <3>2, <3>3
    <2>9. \A i, j \in 1..N' : i < j => Id(i)' < Id(j)'
      <3> SUFFICES ASSUME NEW i \in 1..N', NEW j \in 1..N', i < j PROVE Id(i)' < Id(j)'
        OBVIOUS
      <3>1. i \in 1..N /\ Id(i)' = Id(i)
        BY <2>7, <2>8
      <3>2. CASE j \in 1..N /\ Id(j)' = Id(j)
        BY <2>2, <3>1, <3>2 DEF Ordered
      <3>3. CASE Id(j)' = pushed
        BY <2>2, <3>1, <3>3
      <3> QED BY <2>8, <3>2, <3>3
    <2>10. \A i \in 1..N' : got.id < Id(i)' /\ Id(i)' <= pushed
      BY <1>0, <2>2, <2>8, IdNat DEF Ordered
    <2>11. got.id <= pushed
      BY <2>2 DEF Ordered
    <2> QED BY <2>1, <2>3, <2>9, <2>10, <2>11 DEF Ordered
  <1>8. ASSUME NEW p \in Producers, Post(p) PROVE Ordered'
    <2>1. \A q \in Producers : In(q)' => In(q)
      BY <1>0, <1>8 DEF Post, TypeOK
    <2> QED BY <1>1, <1>8, <2>1 DEF Post, histVars, recVars
  <1>9. ASSUME SemWait PROVE Ordered'
    BY <1>1, <1>9 DEF SemWait, histVars
  <1>10. ASSUME Pop PROVE Ordered'
    <2>1. PICK n \in SizeAt(read_pos) :
             /\ got' = [hdr[read_pos] EXCEPT !.size = n]
             /\ myfree(n, buffer_end_pos)
      BY <1>10 DEF Pop
    <2>2. ~damaged /\ frames # <<>> /\ pushed' = pushed /\ pc' = pc
      BY <1>10, <2>1 DEF Pop, myfree
    <2>3. Ordered /\ Sound
      BY <2>2 DEF Sorted, Good
    <2>4. frames' = Tail(frames) /\ hdr[read_pos] = frames[1].frame
      BY <1>0, <2>1, <2>2, <2>3, FirstFreed
    <2>5. got'.id = Id(1)
      BY <1>0, <2>1, <2>4, HeaderId DEF Id
    <2>6. \A q \in Producers : ~In(q)'
      BY <1>10, <2>2, RingAssumption DEF Pop, TypeInv, Holder
    <2> QED BY <1>0, <2>2, <2>3, <2>4, <2>5, <2>6, TakeFirst DEF Ordered
  <1>11. ASSUME Record PROVE Ordered'
    BY <1>1, <1>11 DEF Record, histVars
  <1>12. CASE UNCHANGED vars
    BY <1>1, <1>12 DEF vars, histVars, recVars
  <1> QED
    BY <1>2, <1>3, <1>4, <1>5, <1>6, <1>7, <1>8, <1>9, <1>10, <1>11, <1>12
    DEF Next, push, record

\* The queue the ring stands for, when its first frame is taken away and when a
\* frame is added.
LEMMA ContentsTail ==
    ASSUME NEW S, NEW s \in Seq([addr : 0..Max, frame : S]), s # <<>>
    PROVE  /\ Contents(s) \in Seq(S) /\ Contents(s) # <<>>
           /\ Contents(Tail(s)) = Tail(Contents(s))
           /\ Head(Contents(s)) = s[1].frame
  <1>1. Len(s) \in Nat \ {0} /\ \A i \in 1..Len(s) : s[i].frame \in S
    <2>1. Len(s) \in Nat \ {0}
      OBVIOUS
    <2>2. ASSUME NEW i \in 1..Len(s) PROVE s[i].frame \in S
      <3>1. s[i] \in [addr : 0..Max, frame : S]
        BY ElementIn
      <3> QED BY <3>1
    <2> QED BY <2>1, <2>2
  <1>2. Contents(s) \in Seq(S) /\ Len(Contents(s)) = Len(s)
    BY <1>1 DEF Contents
  <1>3. Contents(s) # <<>> /\ Head(Contents(s)) = s[1].frame
    <2>1. Contents(s) # <<>> /\ Head(Contents(s)) = Contents(s)[1]
      BY <1>1, <1>2
    <2>2. Contents(s)[1] = s[1].frame
      BY <1>1 DEF Contents
    <2> QED BY <2>1, <2>2
  <1>4. /\ Len(Tail(s)) = Len(s) - 1
        /\ \A i \in 1..Len(s) - 1 : Tail(s)[i] = s[i + 1]
    BY <1>1
  <1>5. /\ Tail(Contents(s)) \in Seq(S) /\ Len(Tail(Contents(s))) = Len(s) - 1
        /\ \A i \in 1..Len(s) - 1 : Tail(Contents(s))[i] = Contents(s)[i + 1]
    BY <1>1, <1>2, <1>3
  <1>6. \A i \in 1..Len(s) - 1 : Contents(s)[i + 1] = s[i + 1].frame
    BY <1>1 DEF Contents
  <1>7. Tail(Contents(s)) = [i \in 1..Len(s) - 1 |-> s[i + 1].frame]
    <2> DEFINE t == Tail(Contents(s))
    <2>1. t \in Seq(S) /\ Len(t) = Len(s) - 1
      BY <1>5
    <2> HIDE DEF t
    <2>2. t = [i \in 1..Len(s) - 1 |-> t[i]]
      BY <2>1
    <2>3. \A i \in 1..Len(s) - 1 : t[i] = s[i + 1].frame
      BY <1>5, <1>6 DEF t
    <2>4. t = [i \in 1..Len(s) - 1 |-> s[i + 1].frame]
      BY <2>2, <2>3
    <2> QED BY <2>4 DEF t
  <1>8. Contents(Tail(s)) = [i \in 1..Len(s) - 1 |-> s[i + 1].frame]
    BY <1>4 DEF Contents
  <1> QED BY <1>2, <1>3, <1>7, <1>8

LEMMA ContentsAppend ==
    ASSUME NEW S, NEW s \in Seq([addr : 0..Max, frame : S]),
           NEW g \in [addr : 0..Max, frame : S]
    PROVE  Contents(Append(s, g)) = Append(Contents(s), g.frame)
  <1>1. Len(s) \in Nat /\ \A i \in 1..Len(s) : s[i].frame \in S
    <2>1. Len(s) \in Nat
      OBVIOUS
    <2>2. ASSUME NEW i \in 1..Len(s) PROVE s[i].frame \in S
      <3>1. s[i] \in [addr : 0..Max, frame : S]
        BY ElementIn
      <3> QED BY <3>1
    <2> QED BY <2>1, <2>2
  <1>2. Contents(s) \in Seq(S) /\ Len(Contents(s)) = Len(s) /\ g.frame \in S
    BY <1>1 DEF Contents
  <1> DEFINE c == [i \in 1..Len(s) + 1 |-> IF i = Len(s) + 1 THEN g.frame ELSE s[i].frame]
  <1>3. Append(Contents(s), g.frame) = c
    <2>1. /\ Append(Contents(s), g.frame) \in Seq(S)
          /\ Len(Append(Contents(s), g.frame)) = Len(s) + 1
          /\ \A i \in 1..Len(s) : Append(Contents(s), g.frame)[i] = Contents(s)[i]
          /\ Append(Contents(s), g.frame)[Len(s) + 1] = g.frame
      BY <1>1, <1>2
    <2>2. \A i \in 1..Len(s) : Contents(s)[i] = s[i].frame
      BY DEF Contents
    <2> QED BY <1>1, <2>1, <2>2
  <1>4. /\ Len(Append(s, g)) = Len(s) + 1 /\ Append(s, g)[Len(s) + 1] = g
        /\ \A i \in 1..Len(s) : Append(s, g)[i] = s[i]
    BY <1>1
  <1>5. Contents(Append(s, g)) = c
    BY <1>1, <1>4 DEF Contents
  <1> QED BY <1>3, <1>5

\* A sound ring: freeing a frame discards the oldest frame of the queue.
LEMMA Discards ==
    ASSUME TypeOK, ~damaged, ~damaged', frames # <<>>, frames' = Tail(frames), got' = got
    PROVE  Queue!Next
  <1>1. /\ Contents(frames) # <<>>
        /\ Contents(frames') = Tail(Contents(frames))
    BY ContentsTail DEF TypeOK
  <1> QED BY <1>1 DEF Queue!Next, Queue!Discard

\* Steps that neither write nor free a frame do nothing to the queue.
LEMMA QueueStep ==
    ASSUME TypeInv, Good, Sorted, [Next]_vars
    PROVE  [Queue!Next]_<<Contents(frames), got, damaged>>
  <1>0. TypeOK
    BY DEF TypeInv
  <1>1. CASE damaged'
    BY <1>1, TypeNext DEF TypeInv, TypeOK, Queue!Next, Queue!Break
  <1>2. ASSUME ~damaged', NEW p \in Producers, Discard(p) PROVE Queue!Next
    BY <1>0, <1>2, Discards DEF Discard, discardFrame, myfree, recVars
  <1>3. ASSUME ~damaged', NEW p \in Producers, Wrap(p)
        PROVE  [Queue!Next]_<<Contents(frames), got, damaged>>
    <2>1. ~damaged /\ got' = got
      BY <1>3 DEF Wrap, discardFrame, myfree, recVars
    <2>2. CASE read_pos # 0
      <3>1. frames' = frames /\ damaged' = damaged
        BY <1>0, <1>3, <2>1, <2>2 DEF Wrap, TypeOK
      <3> QED BY <2>1, <3>1
    <2>3. CASE read_pos = 0
      <3>1. frames # <<>> /\ frames' = Tail(frames)
        BY <1>3, <2>3 DEF Wrap, discardFrame, myfree
      <3> QED BY <1>0, <1>3, <2>1, <3>1, Discards
    <2> QED BY <2>2, <2>3
  <1>4. ASSUME ~damaged', NEW p \in Producers, Place(p) PROVE Queue!Next
    <2>1. /\ ~damaged /\ got' = got /\ pc[p] = "fit"
          /\ frames' = Append(frames, [addr |-> write_pos, frame |-> req[p]])
      BY <1>4 DEF Place, recVars
    <2>2. req[p] \in Frame /\ write_pos \in 0..Max
      <3>1. req[p] \in Frame
        BY <2>1 DEF TypeInv, Holder
      <3> QED BY <1>0, <1>4, <3>1, FrameFits, RingAssumption DEF Place, Fits, TypeOK
    <2>3. Contents(frames') = Append(Contents(frames), req[p])
      <3>1. PICK g \in [addr : 0..Max, frame : Frame] :
               g = [addr |-> write_pos, frame |-> req[p]]
        BY <2>2
      <3>2. g.frame = req[p] /\ frames' = Append(frames, g)
        BY <2>1, <3>1
      <3>3. Contents(Append(frames, g)) = Append(Contents(frames), g.frame)
        BY <1>0, ContentsAppend DEF TypeOK
      <3> QED BY <3>2, <3>3
    <2>4. got.id < req[p].id /\ \A i \in 1..N : Id(i) < req[p].id
      BY <2>1 DEF Sorted, Ordered
    <2>5. \A i \in DOMAIN Contents(frames) : Contents(frames)[i].id < req[p].id
      BY <2>4 DEF Contents, N, Id
    <2> QED BY <1>4, <2>1, <2>2, <2>3, <2>4, <2>5 DEF Queue!Next, Queue!Push, Queue!Younger
  <1>5. ASSUME ~damaged', Pop PROVE Queue!Next
    <2>1. PICK n \in SizeAt(read_pos) :
             /\ got' = [hdr[read_pos] EXCEPT !.size = n]
             /\ myfree(n, buffer_end_pos)
      BY <1>5 DEF Pop
    <2>2. ~damaged /\ frames # <<>>
      BY <1>5, <2>1 DEF myfree
    <2>3. /\ 1 \in 1..N /\ frames' = Tail(frames)
          /\ hdr[read_pos] = frames[1].frame /\ n = frames[1].frame.size
      BY <1>0, <2>1, <2>2, FirstFreed DEF Good
    <2>4. frames[1].frame \in Frame
      BY <1>0, <2>3, FrameAt
    <2>5. got' = frames[1].frame
      BY <2>1, <2>3, <2>4 DEF Frame
    <2>6. /\ Contents(frames) # <<>> /\ Head(Contents(frames)) = got'
          /\ Contents(frames') = Tail(Contents(frames))
      BY <1>0, <2>2, <2>3, <2>5, ContentsTail DEF TypeOK
    <2> QED BY <1>5, <2>2, <2>6 DEF Queue!Next, Queue!Deliver
  <1>6. ASSUME UNCHANGED <<frames, got, damaged>>
        PROVE  UNCHANGED <<Contents(frames), got, damaged>>
    BY <1>6
  <1>7. ASSUME NEW p \in Producers, Lock(p) \/ Enter(p) \/ Exit(p) \/ Post(p)
        PROVE  UNCHANGED <<frames, got, damaged>>
    BY <1>7 DEF Lock, Enter, Exit, Post, recVars, histVars
  <1>8. ASSUME SemWait \/ Record \/ UNCHANGED vars PROVE UNCHANGED <<frames, got, damaged>>
    BY <1>8 DEF SemWait, Record, vars, recVars, histVars
  <1> QED
    BY <1>1, <1>2, <1>3, <1>4, <1>5, <1>6, <1>7, <1>8 DEF Next, push, record

\* The frame ring implements FrameQueue, until a frame is freed, or the ring
\* wraps, while it is empty: the recorder gets the very frames that were pushed,
\* in the order of the pushes and none of them twice, and what myallocate gives
\* up for room is always the oldest.
THEOREM ImplementsQueue == Spec => FirstInFirstOut
  <1>1. Spec => []TypeInv
    BY TypeInit, TypeNext, PTL DEF Spec
  <1>2. Spec => []Good
    BY <1>1, GoodInit, GoodNext, PTL DEF Spec
  <1>3. Init => Sorted
    BY DEF Init, Sorted, Ordered, N, Zero
  <1>4. Spec => []Sorted
    BY <1>1, <1>2, <1>3, SortedNext, PTL DEF Spec
  <1>5. Init => Queue!Init
    BY DEF Init, Queue!Init, Contents
  <1> QED
    BY <1>1, <1>2, <1>4, <1>5, QueueStep, PTL DEF Spec, FirstInFirstOut, Queue!Spec

============================================================================
