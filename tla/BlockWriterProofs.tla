------------------------- MODULE BlockWriterProofs -------------------------
(***************************************************************************)
(* Proofs about the block writer, for every length of blocks and           *)
(* directories, every cache time, any queue limit and any number of posts, *)
(* connections, kills, failing file operations and sweeps.                 *)
(***************************************************************************)
EXTENDS BlockWriter, FiniteSetTheorems, SequenceTheorems, WellFoundedInduction, TLAPS

----------------------------------------------------------------------------
(* Arithmetic of blocks and directories, and the greatest of a set.        *)

\* Rounding down.
LEMMA Division ==
    ASSUME NEW a \in Nat, NEW n \in Nat \ {0}
    PROVE  /\ a \div n \in Nat /\ a % n \in 0..(n-1)
           /\ a = n * (a \div n) + (a % n)
  OBVIOUS

LEMMA DivisionMonotonic ==
    ASSUME NEW a \in Nat, NEW b \in Nat, NEW n \in Nat \ {0}, a <= b
    PROVE  a \div n <= b \div n
  <1> DEFINE p == a \div n  q == b \div n
  <1>1. /\ p \in Nat /\ q \in Nat /\ a % n \in 0..(n-1) /\ b % n \in 0..(n-1)
        /\ a = n * p + (a % n) /\ b = n * q + (b % n)
    BY Division
  <1> HIDE DEF p, q
  <1>2. ASSUME q + 1 <= p PROVE FALSE
    <2>1. PICK r \in Nat : p = q + 1 + r
      <3>1. p - (q + 1) \in Nat /\ p = q + 1 + (p - (q + 1))
        BY <1>1, <1>2
      <3> QED BY <3>1
    <2>2. n * p = n * q + n + n * r /\ n * r >= 0 /\ n * q \in Nat /\ n * r \in Nat
      BY <1>1, <2>1
    <2> QED BY <1>1, <2>2
  <1> QED BY <1>1, <1>2 DEF p, q

LEMMA DivisionStep ==
    ASSUME NEW a \in Nat, NEW s \in Nat, NEW n \in Nat \ {0}, s <= n
    PROVE  (a + s) \div n <= a \div n + 1
  <1>1. (a + s) \div n <= (a + n) \div n
    BY DivisionMonotonic
  <1>2. (a + n) \div n = a \div n + 1
    OBVIOUS
  <1> QED BY <1>1, <1>2

LEMMA AlignFacts ==
    ASSUME NEW t \in Nat
    PROVE  /\ Align(t) \in Nat /\ Align(t) <= t /\ t < Align(t) + Scale
           /\ Align(t) % Scale = 0
           /\ t % Scale = 0 => Align(t) = t
  <1> DEFINE q == t \div Scale
  <1>1. /\ Scale \in Nat \ {0} /\ q \in Nat /\ t % Scale \in 0..(Scale-1)
        /\ t = Scale * q + (t % Scale)
    BY WriterAssumption, Division
  <1>2. Align(t) = q * Scale
    BY DEF Align
  <1> HIDE DEF q
  <1>3. q * Scale = Scale * q /\ q * Scale \in Nat
    BY <1>1
  <1>4. (q * Scale) % Scale = 0
    BY <1>1
  <1> QED BY <1>1, <1>2, <1>3, <1>4

\* Multiples of the length of a block are a whole length apart.
LEMMA NextMultiple ==
    ASSUME NEW a \in Nat, NEW b \in Nat, a % Scale = 0, b % Scale = 0, b < a + Scale
    PROVE  b <= a
  <1> DEFINE p == a \div Scale  q == b \div Scale
  <1>1. /\ Scale \in Nat \ {0} /\ p \in Nat /\ q \in Nat
        /\ a = Scale * p + 0 /\ b = Scale * q + 0
    BY WriterAssumption, Division
  <1> HIDE DEF p, q
  <1>2. ASSUME p + 1 <= q PROVE FALSE
    <2>1. PICK r \in Nat : q = p + 1 + r
      <3>1. q - (p + 1) \in Nat /\ q = p + 1 + (q - (p + 1))
        BY <1>1, <1>2
      <3> QED BY <3>1
    <2>2. Scale * q = Scale * p + Scale + Scale * r /\ Scale * r >= 0 /\ Scale * r \in Nat
      BY <1>1, <2>1
    <2> QED BY <1>1, <2>2
  <1>3. q <= p
    BY <1>1, <1>2
  <1>4. PICK r \in Nat : p = q + r
    <2>1. p - q \in Nat /\ p = q + (p - q)
      BY <1>1, <1>3
    <2> QED BY <2>1
  <1>5. Scale * p = Scale * q + Scale * r /\ Scale * r >= 0
    BY <1>1, <1>4
  <1> QED BY <1>1, <1>5

LEMMA NextAligned ==
    ASSUME NEW a \in Nat, a % Scale = 0
    PROVE  (a + Scale) % Scale = 0
  BY WriterAssumption

LEMMA DirOfNat == ASSUME NEW a \in Nat PROVE DirOf(a) \in Nat
  BY WriterAssumption, Division DEF DirOf

LEMMA DirOfMonotonic ==
    ASSUME NEW a \in Nat, NEW b \in Nat, a <= b
    PROVE  DirOf(a) <= DirOf(b)
  BY WriterAssumption, DivisionMonotonic DEF DirOf

LEMMA DirOfBounds ==
    ASSUME NEW a \in Nat
    PROVE  DirOf(a) * DirScale <= a /\ a < DirOf(a) * DirScale + DirScale
  <1>1. /\ DirScale \in Nat \ {0} /\ DirOf(a) \in Nat /\ a % DirScale \in 0..(DirScale-1)
        /\ a = DirScale * DirOf(a) + (a % DirScale)
    BY WriterAssumption, Division DEF DirOf
  <1>2. DirScale * DirOf(a) = DirOf(a) * DirScale /\ DirOf(a) * DirScale \in Nat
    BY <1>1
  <1> QED BY <1>1, <1>2

\* A set of numbers with a bound has a greatest element.
LEMMA MaxIs ==
    ASSUME NEW S, S \subseteq Nat, S # {}, NEW b \in Nat, \A x \in S : x <= b
    PROVE  Max(S) \in S /\ \A y \in S : Max(S) >= y
  <1> DEFINE T == {b - x : x \in S}
  <1>1. T \subseteq Nat /\ T # {}
    <2>1. \A x \in S : b - x \in Nat
      OBVIOUS
    <2>2. PICK x \in S : TRUE
      OBVIOUS
    <2> QED BY <2>1, <2>2
  <1>2. PICK m \in T : \A y \in T : ~ (<<y, m>> \in OpToRel(<, Nat))
    BY <1>1, NatLessThanWellFounded, WFMin
  <1>3. PICK x \in S : m = b - x
    OBVIOUS
  <1>4. \A y \in S : x >= y
    <2> TAKE y \in S
    <2>1. b - y \in T /\ b - y \in Nat /\ b - x \in Nat
      OBVIOUS
    <2>2. ~(b - y < b - x)
      BY <2>1, <1>2, <1>3 DEF OpToRel
    <2> QED BY <2>1, <2>2
  <1> QED BY <1>3, <1>4 DEF Max

----------------------------------------------------------------------------
(* Type correctness, and how far ahead of the clock the writer gets.       *)

\* The writer is busy with the block cur.
Writing == pc \in {"dir", "tmp", "rename", "done"}

\* A live block is begun at most one block ahead of the clock and a special one
\* never ahead of it; so a block on disk, from which a restart resumes, is not
\* further ahead either.
Edge ==
    /\ cur <= now + 2 * Scale /\ till <= now
    /\ Writing => cur <= now + Scale
    /\ Writing /\ job = "pad" => cur <= now
    /\ pc = "pad" /\ goal = "write" => cur <= now + Scale
    /\ \A id \in DOMAIN blocks : id <= now + Scale

TypeInv == TypeOK /\ IsFiniteSet(dirs) /\ Edge

LEMMA InitType == Init => TypeInv
  <1> SUFFICES ASSUME Init PROVE TypeInv
    OBVIOUS
  <1>1. TypeOK
    <2>1. ios \in Seq(Task) /\ dq \in Seq(Nat) /\ DOMAIN blocks = {}
      BY EmptySeq DEF Init
    <2>2. /\ 0 \in 0..MaxConn /\ 1 \in 1..MaxConn /\ 0 \in 0..MaxPost
          /\ 0 \in 0..MaxCrash /\ 0 \in 0..MaxFail /\ 0 \in 0..MaxSweep
      BY WriterAssumption
    <2>3. now \in Nat /\ num \in Int /\ seen \in Int /\ till \in Nat /\ cur \in Nat
      BY WriterAssumption DEF Init
    <2>4. DOMAIN blocks \in SUBSET Nat /\ task \in Task \cup {NoTask}
      BY <2>1 DEF Init
    <2>5. /\ alarm \in BOOLEAN /\ reader_ok \in BOOLEAN /\ err \in BOOLEAN
          /\ dropped \in BOOLEAN /\ stale \in BOOLEAN /\ blind \in BOOLEAN
          /\ razed \in BOOLEAN
      BY Zenon DEF Init
    <2>6. /\ conn \in 1..MaxConn /\ head \in 0..MaxConn /\ posts \in 0..MaxPost
          /\ crashes \in 0..MaxCrash /\ fails \in 0..MaxFail /\ sweeps \in 0..MaxSweep
          /\ rounds \in 0..2
      BY <2>2 DEF Init
    <2>7. /\ phase \in {"head", "data"} /\ job \in {"live", "pad"}
          /\ pc \in {"init", "idle", "dec", "normal", "pad", "dir", "tmp", "rename", "done"}
          /\ goal \in {"idle", "boot", "normal", "write"}
          /\ stat \in {"first", "second", "normal"}
          /\ pq \in SUBSET Nat /\ dirs \in SUBSET Nat /\ tmps \in SUBSET Nat
      BY DEF Init
    <2> QED BY <2>1, <2>3, <2>4, <2>5, <2>6, <2>7 DEF TypeOK
  <1>2. IsFiniteSet(dirs)
    BY FS_EmptySet DEF Init
  <1>3. Edge
    BY WriterAssumption DEF Init, Edge, Writing
  <1> QED BY <1>1, <1>2, <1>3 DEF TypeInv

\* The directories the next start finds, in order.
LEMMA SortedFacts ==
    ASSUME NEW S, S \subseteq Nat, IsFiniteSet(S), NEW s \in Sorted(S)
    PROVE  /\ s \in Seq(Nat) /\ (s = <<>> <=> S = {})
           /\ s # <<>> => s[Len(s)] \in S /\ \A x \in S : x <= s[Len(s)]
           /\ S # {} => Max(S) = s[Len(s)]
  <1>1. PICK n \in Nat : n = Cardinality(S)
    BY FS_CardinalityType
  <1>2. s \in [1..n -> S] /\ DOMAIN s = 1..n
    BY <1>1 DEF Sorted
  <1>3. /\ \A x \in S : \E i \in 1..n : s[i] = x
        /\ \A i, j \in 1..n : i < j => s[i] < s[j]
    BY <1>1, <1>2 DEF Sorted
  <1>4. s \in Seq(Nat) /\ Len(s) = n
    <2>1. s \in Seq(S)
      BY <1>2, SeqDef
    <2>2. s \in Seq(Nat)
      BY <2>1, SeqMonotonic
    <2> QED BY <1>2, <2>2, LenProperties
  <1>5. n = 0 <=> S = {}
    BY <1>1, FS_EmptySet
  <1>6. ASSUME n # 0 PROVE s[n] \in S /\ \A x \in S : x <= s[n]
    <2>1. n \in 1..n
      BY <1>6
    <2>2. s[n] \in S
      BY <1>2, <2>1
    <2> SUFFICES ASSUME NEW x \in S PROVE x <= s[n]
      BY <2>2
    <2>3. PICK i \in 1..n : s[i] = x
      BY <1>3
    <2>4. i = n \/ s[i] < s[n]
      BY <1>3, <2>1
    <2>5. x \in Nat /\ s[n] \in Nat
      BY <2>2
    <2> QED BY <2>3, <2>4, <2>5
  <1>7. s = <<>> <=> n = 0
    BY <1>4
  <1>8. ASSUME S # {} PROVE Max(S) = s[n]
    <2>1. s[n] \in S /\ \A y \in S : s[n] >= y
      BY <1>5, <1>6, <1>8
    <2>2. Max(S) \in S /\ \A y \in S : Max(S) >= y
      BY <2>1 DEF Max
    <2>3. Max(S) \in Nat /\ s[n] \in Nat /\ s[n] >= Max(S) /\ Max(S) >= s[n]
      BY <2>1, <2>2
    <2> QED BY <2>3
  <1> QED BY <1>4, <1>5, <1>6, <1>7, <1>8

\* Directories leave the front of dir_queue_; the last one is still the last.
Front == Cardinality({i \in 1..Len(dq) : \A j \in 1..i : OldDir(dq[j])})

LEMMA FrontFacts ==
    ASSUME dq \in Seq(Nat)
    PROVE  LET rest == SubSeq(dq, Front + 1, Len(dq))
           IN  /\ rest \in Seq(Nat)
               /\ rest # <<>> => dq # <<>> /\ rest[Len(rest)] = dq[Len(dq)]
  <1>1. Front \in Nat
    <2>1. Len(dq) \in Nat
      OBVIOUS
    <2>2. IsFiniteSet(1..Len(dq))
      BY <2>1, FS_Interval
    <2>3. IsFiniteSet({i \in 1..Len(dq) : \A j \in 1..i : OldDir(dq[j])})
      BY <2>2, FS_Subset
    <2> QED BY <2>3, FS_CardinalityType DEF Front
  <1>2. ASSUME NEW n \in Nat
        PROVE  LET rest == SubSeq(dq, n + 1, Len(dq))
               IN  /\ rest \in Seq(Nat)
                   /\ rest # <<>> => dq # <<>> /\ rest[Len(rest)] = dq[Len(dq)]
    <2> DEFINE rest == SubSeq(dq, n + 1, Len(dq))
    <2>1. Len(dq) \in Nat /\ \A i \in (n+1)..Len(dq) : dq[i] \in Nat
      BY LenProperties
    <2>2. /\ rest \in Seq(Nat)
          /\ Len(rest) = IF n + 1 <= Len(dq) THEN Len(dq) - (n + 1) + 1 ELSE 0
          /\ \A i \in 1..(Len(dq) - (n + 1) + 1) : rest[i] = dq[n + 1 + i - 1]
      BY <2>1, SubSeqProperties
    <2> HIDE DEF rest
    <2>3. ASSUME rest # <<>> PROVE dq # <<>> /\ rest[Len(rest)] = dq[Len(dq)]
      <3>1. n + 1 <= Len(dq)
        BY <2>1, <2>2, <2>3, EmptySeq
      <3>2. /\ Len(rest) = Len(dq) - n /\ Len(dq) - n \in 1..(Len(dq) - (n + 1) + 1)
            /\ n + 1 + (Len(dq) - n) - 1 = Len(dq)
        BY <2>1, <2>2, <3>1
      <3>3. rest[Len(dq) - n] = dq[n + 1 + (Len(dq) - n) - 1]
        BY <2>2, <3>2
      <3>4. dq # <<>>
        BY <3>1, EmptySeq
      <3> QED BY <3>2, <3>3, <3>4
    <2> QED BY <2>2, <2>3 DEF rest
  <1> QED BY <1>1, <1>2

\* What a restart does: it takes expired blocks out of the newest directory and
\* resumes after the last one it keeps.
LEMMA ScanFacts ==
    ASSUME TypeInv, Scan
    PROVE  \E kept \in SUBSET DOMAIN blocks, gone \in SUBSET DOMAIN blocks :
             /\ pq' = kept /\ kept \cap gone = {} /\ \A id \in gone : Expired(id)
             /\ DOMAIN blocks' = DOMAIN blocks \ gone
             /\ \A id \in DOMAIN blocks' : blocks'[id] = blocks[id]
             /\ kept = {} => cur' = 0 /\ (~blind' => DOMAIN blocks = {})
             /\ kept # {} => \E top \in kept :
                  /\ cur' = Align(top + Scale) /\ \A id \in kept : id <= top
                  /\ dq' # <<>> /\ dq'[Len(dq')] = DirOf(top)
                  /\ \A d \in dirs : d <= DirOf(top)
                  /\ \A id \in kept : DirOf(id) = DirOf(top)
                  /\ \A id \in DOMAIN blocks' : DirOf(id) = DirOf(top) => id \in kept
             /\ blind => blind'
             /\ dq' \in Seq(Nat) /\ tmps' \in SUBSET Nat
  <1> DEFINE newest == Max(dirs)
             found == IF dirs = {} THEN {} ELSE InDir(DOMAIN blocks, newest)
             kept  == {id \in found : ~Expired(id)}
             gone  == found \ kept
  <1>1. /\ dq' \in Sorted(dirs) /\ pq' = kept
        /\ blocks' = [id \in DOMAIN blocks \ gone |-> blocks[id]]
        /\ cur' = IF kept = {} THEN 0 ELSE Align(Max(kept) + Scale)
        /\ blind' = (blind \/ (kept = {} /\ DOMAIN blocks # {}))
        /\ tmps' = IF dirs = {} THEN tmps ELSE tmps \ InDir(tmps, newest)
    BY DEF Scan
  <1>2. /\ dirs \subseteq Nat /\ DOMAIN blocks \subseteq Nat /\ tmps \subseteq Nat
        /\ IsFiniteSet(dirs) /\ now \in Nat /\ \A id \in DOMAIN blocks : id <= now + Scale
        /\ Scale \in Nat
    BY WriterAssumption DEF TypeInv, TypeOK, Edge
  <1>3. found \subseteq DOMAIN blocks /\ \A id \in found : dirs # {} /\ DirOf(id) = newest
    BY DEF InDir
  <1>4. kept \subseteq DOMAIN blocks /\ gone \subseteq DOMAIN blocks
        /\ kept \cap gone = {} /\ \A id \in gone : Expired(id)
    BY <1>3
  <1>5. DOMAIN blocks' = DOMAIN blocks \ gone
        /\ \A id \in DOMAIN blocks' : blocks'[id] = blocks[id]
    BY <1>1
  <1>6. dq' \in Seq(Nat) /\ tmps' \in SUBSET Nat
    <2>1. PICK s \in Sorted(dirs) : dq' = s
      BY <1>1
    <2>2. s \in Seq(Nat)
      BY <1>2, SortedFacts
    <2> QED BY <1>1, <1>2, <2>1, <2>2
  <1>7. ASSUME kept # {}
        PROVE  \E top \in kept :
                  /\ cur' = Align(top + Scale) /\ \A id \in kept : id <= top
                  /\ dq' # <<>> /\ dq'[Len(dq')] = DirOf(top)
                  /\ \A d \in dirs : d <= DirOf(top)
                  /\ \A id \in kept : DirOf(id) = DirOf(top)
                  /\ \A id \in DOMAIN blocks' : DirOf(id) = DirOf(top) => id \in kept
    <2>1. now + Scale \in Nat /\ kept \subseteq Nat /\ \A x \in kept : x <= now + Scale
      BY <1>2, <1>4
    <2>2. PICK top \in kept : top = Max(kept) /\ \A y \in kept : top >= y
      BY <1>7, <2>1, MaxIs
    <2>3. dirs # {} /\ \A id \in kept : DirOf(id) = newest
      BY <1>3, <1>7
    <2>4. /\ dq' # <<>> /\ dq'[Len(dq')] = newest /\ \A d \in dirs : d <= newest
      <3>1. PICK s \in Sorted(dirs) : dq' = s
        BY <1>1
      <3>2. s # <<>> /\ s[Len(s)] = newest /\ \A d \in dirs : d <= newest
        <4>1. dirs # {} /\ dirs \subseteq Nat /\ IsFiniteSet(dirs)
          BY <1>2, <2>3
        <4>2. s # <<>> /\ Max(dirs) = s[Len(s)] /\ \A d \in dirs : d <= s[Len(s)]
          BY ONLY <4>1, s \in Sorted(dirs), SortedFacts
        <4> QED BY <4>2
      <3> QED BY <3>1, <3>2
    <2>5. \A id \in DOMAIN blocks' : DirOf(id) = newest => id \in kept
      BY <1>5, <2>3 DEF InDir
    <2>6. \A id \in kept : id <= top
      BY <2>1, <2>2
    <2>7. cur' = Align(top + Scale)
      BY <1>1, <1>7, <2>2
    <2>8. DirOf(top) = newest
      BY <2>3
    <2> HIDE DEF kept, newest
    <2> QED BY <2>3, <2>4, <2>5, <2>6, <2>7, <2>8
  <1>8. (kept = {} => cur' = 0 /\ (~blind' => DOMAIN blocks = {})) /\ (blind => blind')
    BY <1>1
  <1>9. pq' = kept
    BY <1>1
  <1> HIDE DEF kept, gone
  <1> QED BY <1>4, <1>5, <1>6, <1>7, <1>8, <1>9

\* A posted task lengthens the queue by one; a handled one shortens it.
LEMMA PostType ==
    ASSUME ios \in Seq(Task), NEW t \in Task
    PROVE  Append(ios, t) \in Seq(Task)
  OBVIOUS

LEMMA TakeType ==
    ASSUME ios \in Seq(Task), ios # <<>>
    PROVE  Tail(ios) \in Seq(Task) /\ Head(ios) \in Task
  OBVIOUS

LEMMA StepType == TypeInv /\ [Next]_vars => TypeInv'
  <1> SUFFICES ASSUME TypeInv, [Next]_vars PROVE TypeInv'
    OBVIOUS
  <1> USE DEF reader, queue, flow, timeline, caches, error, disk, env, hist
  <1>1. TypeOK /\ IsFiniteSet(dirs) /\ Edge
    BY DEF TypeInv
  <1>2. /\ Scale \in Nat \ {0} /\ DirScale \in Nat \ {0} /\ MaxConn \in Nat \ {0}
        /\ MaxPost \in Nat /\ MaxCrash \in Nat /\ MaxFail \in Nat /\ MaxSweep \in Nat
    BY WriterAssumption
  <1>3. TypeOK'
    <2> USE <1>1, <1>2
    <2>1. ASSUME NEW kind \in {"head", "data"}, AsyncWritePiece(kind) PROVE TypeOK'
      <3>1. [kind |-> kind, conn |-> conn] \in Task
        BY DEF Task, TypeOK
      <3>2. ios' \in Seq(Task) /\ num' \in Int
        <4>1. \/ num' = num + 1 /\ ios' = Append(ios, [kind |-> kind, conn |-> conn])
              \/ num' = num /\ ios' = ios
          BY <2>1 DEF AsyncWritePiece, Post
        <4>2. ios \in Seq(Task) /\ num \in Int
          BY DEF TypeOK
        <4> QED BY ONLY <3>1, <4>1, <4>2, PostType
      <3>3. posts' \in 0..MaxPost /\ phase' \in {"head", "data"}
        BY <2>1 DEF AsyncWritePiece, TypeOK
      <3>4. dropped' \in BOOLEAN
        <4>1. dropped' = TRUE \/ dropped' = dropped
          BY <2>1 DEF AsyncWritePiece
        <4> QED BY <4>1, Zenon DEF TypeOK
      <3>5. UNCHANGED <<now, alarm, conn, seen, pc, flow, timeline, caches, error, disk,
                   env, stale, blind, razed>>
        BY <2>1 DEF AsyncWritePiece
      <3> QED BY <3>2, <3>3, <3>4, <3>5 DEF TypeOK
    <2>2. ASSUME ReaderError PROVE TypeOK'
      <3>1. [kind |-> "error", conn |-> conn] \in Task
        BY DEF Task, TypeOK
      <3>2. ios' \in Seq(Task) /\ conn' \in 1..MaxConn
        BY <2>2, <3>1, PostType DEF ReaderError, Post, TypeOK
      <3> QED BY <2>2, <3>2 DEF ReaderError, TypeOK
    <2>3. ASSUME AsyncUpdateHeader PROVE TypeOK'
      <3>1. PICK c \in {conn - 1, conn} \ {0} :
              Post([kind |-> "update", conn |-> c]) /\ stale' = (stale \/ c # conn)
        BY <2>3 DEF AsyncUpdateHeader
      <3>2. [kind |-> "update", conn |-> c] \in Task
        BY DEF Task, TypeOK
      <3>3. ios' \in Seq(Task) /\ stale' \in BOOLEAN
        BY <3>1, <3>2, PostType DEF Post, TypeOK
      <3>4. posts' \in 0..MaxPost
        BY <2>3 DEF AsyncUpdateHeader, TypeOK
      <3>5. UNCHANGED <<now, alarm, conn, phase, num, seen, pc, flow, timeline, caches,
                   error, disk, env, dropped, blind, razed>>
        BY <2>3 DEF AsyncUpdateHeader
      <3> QED BY <3>3, <3>4, <3>5 DEF TypeOK
    <2>4. ASSUME HandleReaderError PROVE TypeOK'
      <3>1. ios' \in Seq(Task)
        BY <2>4, TakeType DEF HandleReaderError, TypeOK
      <3> QED BY <2>4, <3>1 DEF HandleReaderError, TypeOK
    <2>5. ASSUME HandleUpdateHeader PROVE TypeOK'
      <3>1. ios' \in Seq(Task)
        BY <2>5, TakeType DEF HandleUpdateHeader, TypeOK
      <3>2. head' \in 0..MaxConn
        BY <2>5 DEF HandleUpdateHeader, TypeOK
      <3> QED BY <2>5, <3>1, <3>2 DEF HandleUpdateHeader, TypeOK
    <2>6. ASSUME HandleWritePiece PROVE TypeOK'
      <3>1. ios' \in Seq(Task) /\ task' \in Task
        BY <2>6, TakeType DEF HandleWritePiece, TypeOK
      <3> QED BY <2>6, <3>1 DEF HandleWritePiece, TypeOK
    <2>7. ASSUME Dispatch PROVE TypeOK'
      <3>1. num' \in Int
        <4>1. num' \in {seen - 1, num - 1, num}
          BY <2>7 DEF Dispatch, Decremented
        <4> QED BY <4>1 DEF TypeOK
      <3>2. head' \in 0..MaxConn
        <4>1. task.conn \in 0..MaxConn
          <5>1. CASE task \in Task
            BY <5>1 DEF Task
          <5>2. CASE task = NoTask
            BY <5>2 DEF NoTask
          <5> QED BY <5>1, <5>2 DEF TypeOK
        <4>2. head' \in {head, task.conn, 0}
          BY <2>7 DEF Dispatch
        <4> QED BY <4>1, <4>2 DEF TypeOK
      <3>3. cur' \in Nat
        <4>1. Align(now) \in Nat
          BY AlignFacts DEF TypeOK
        <4>2. cur' \in {cur, Align(now)}
          BY <2>7 DEF Dispatch
        <4> QED BY <4>1, <4>2 DEF TypeOK
      <3>4. /\ pc' \in {"idle", "pad", "normal"} /\ stat' \in {stat, "second", "normal"}
            /\ goal' \in {goal, "normal"}
        BY <2>7 DEF Dispatch
      <3>5. UNCHANGED <<now, alarm, reader, ios, seen, task, job, till, reader_ok, caches,
                   error, disk, env, hist>>
        BY <2>7 DEF Dispatch
      <3> QED BY <3>1, <3>2, <3>3, <3>4, <3>5 DEF TypeOK
    <2>8. ASSUME Normal PROVE TypeOK'
      <3>1. pc' \in {"idle", "pad", "dir"} /\ job' \in {job, "live"} /\ goal' \in {goal, "write"}
        BY <2>8 DEF Normal
      <3>2. UNCHANGED <<now, alarm, reader, queue, task, till, timeline, caches, error,
                   disk, env, hist>>
        BY <2>8 DEF Normal
      <3> QED BY <3>1, <3>2 DEF TypeOK
    <2>9. ASSUME Pad PROVE TypeOK'
      <3>1. /\ pc' \in {"idle", "normal", "dir"} /\ job' \in {job, "live", "pad"}
            /\ goal' \in {goal, "idle"} /\ stat' \in {stat, "normal"}
        BY <2>9 DEF Pad
      <3>2. UNCHANGED <<now, alarm, reader, queue, task, till, cur, reader_ok, head, caches,
                   error, disk, env, hist>>
        BY <2>9 DEF Pad
      <3> QED BY <3>1, <3>2 DEF TypeOK
    <2>10. ASSUME GetFilePathName PROVE TypeOK'
      <3>1. DirOf(cur) \in Nat
        BY DirOfNat DEF TypeOK
      <3>2. dirs' \in SUBSET Nat /\ dq' \in Seq(Nat) /\ pq' \in SUBSET Nat
        <4>1. CASE NewDir
          <5>1. dirs' = dirs \cup {DirOf(cur)} /\ dq' = Append(dq, DirOf(cur)) /\ pq' = {}
            BY <2>10, <4>1 DEF GetFilePathName
          <5>2. dirs \in SUBSET Nat /\ dq \in Seq(Nat)
            BY DEF TypeOK
          <5>3. Append(dq, DirOf(cur)) \in Seq(Nat)
            BY <3>1, <5>2, AppendProperties
          <5>5. dirs \cup {DirOf(cur)} \in SUBSET Nat
            BY <3>1, <5>2
          <5>4. {} \in SUBSET Nat
            OBVIOUS
          <5> QED BY ONLY <5>1, <5>3, <5>4, <5>5
        <4>2. CASE ~NewDir
          BY <2>10, <4>2 DEF GetFilePathName, TypeOK
        <4> QED BY <4>1, <4>2
      <3>3. pc' = "tmp" /\ UNCHANGED <<now, alarm, reader, queue, flow, timeline, error,
                                       blocks, tmps, env, hist>>
        BY <2>10 DEF GetFilePathName
      <3> QED BY <3>2, <3>3 DEF TypeOK
    <2>11. ASSUME WriteTmp \/ RemoveOld \/ Rename PROVE TypeOK'
      <3>1. DOMAIN blocks' \in SUBSET Nat
        <4>1. DOMAIN blocks' \subseteq DOMAIN blocks \cup {cur}
          BY <2>11 DEF WriteTmp, RemoveOld, Rename
        <4> QED BY <4>1 DEF TypeOK
      <3>2. tmps' \in SUBSET Nat
        <4>1. tmps' \subseteq tmps \cup {cur}
          BY <2>11 DEF WriteTmp, RemoveOld, Rename
        <4> QED BY <4>1 DEF TypeOK
      <3>3. pc' \in {"rename", "done"}
        BY <2>11 DEF WriteTmp, RemoveOld, Rename
      <3>4. UNCHANGED <<now, alarm, reader, queue, flow, timeline, caches, error, dirs,
                        env, hist>>
        BY <2>11 DEF WriteTmp, RemoveOld, Rename
      <3> QED BY <3>1, <3>2, <3>3, <3>4 DEF TypeOK
    <2>12. ASSUME Written PROVE TypeOK'
      <3>1. pq' \in SUBSET Nat /\ cur' \in Nat
        BY <2>12 DEF Written, TypeOK
      <3>2. pc' \in {"pad", "idle"} /\ rounds' = 0
        BY <2>12 DEF Written
      <3>3. UNCHANGED <<now, alarm, reader, queue, flow, stat, reader_ok, head, dq, err,
                        disk, env, hist>>
        BY <2>12 DEF Written
      <3> QED BY <3>1, <3>2, <3>3 DEF TypeOK
    <2>13. ASSUME Retry PROVE TypeOK'
      <3>1. pq' \subseteq pq /\ DOMAIN blocks' \subseteq DOMAIN blocks
        BY <2>13 DEF Retry, DecreasePiece
      <3>2. rounds' \in 0..2
        BY <2>13 DEF Retry, TypeOK
      <3>3. pc' = "dir" /\ UNCHANGED <<now, alarm, reader, queue, flow, timeline, dq, err,
                                       dirs, tmps, env, hist>>
        BY <2>13 DEF Retry
      <3>4. pq' \in SUBSET Nat /\ DOMAIN blocks' \in SUBSET Nat
        BY <3>1 DEF TypeOK
      <3> QED BY <3>2, <3>3, <3>4 DEF TypeOK
    <2>14. ASSUME DirGone \/ Fail PROVE TypeOK'
      <3>1. fails' \in 0..MaxFail
        BY <2>14 DEF DirGone, Fail, TypeOK
      <3>2. err' \in BOOLEAN
        BY <2>14, Zenon DEF DirGone, Fail
      <3>3. pc' = "done" /\ UNCHANGED <<now, alarm, reader, queue, flow, timeline, caches,
                                        rounds, disk, crashes, sweeps, hist>>
        BY <2>14 DEF DirGone, Fail
      <3> QED BY <3>1, <3>2, <3>3 DEF TypeOK
    <2>15. ASSUME Tick PROVE TypeOK'
      <3>1. now' \in Nat
        BY <2>15 DEF Tick, TypeOK
      <3>2. alarm' \in BOOLEAN
        BY <2>15, Zenon DEF Tick
      <3>3. UNCHANGED <<reader, queue, pc, flow, timeline, caches, error, disk, env, hist>>
        BY <2>15 DEF Tick
      <3> QED BY <3>1, <3>2, <3>3 DEF TypeOK
    <2>16. ASSUME OnClockAlarm PROVE TypeOK'
      <3>1. dq' = SubSeq(dq, Front + 1, Len(dq)) /\ dq \in Seq(Nat)
        BY <2>16 DEF OnClockAlarm, Front, TypeOK
      <3>2. dq' \in Seq(Nat)
        BY <3>1, FrontFacts
      <3>3. pq' \subseteq pq /\ DOMAIN blocks' \subseteq DOMAIN blocks
        BY <2>16 DEF OnClockAlarm
      <3>4. pc' \in {"idle", "pad"} /\ till' \in {till, now} /\ goal' \in {goal, "idle"}
        BY <2>16 DEF OnClockAlarm
      <3>5. alarm' \in BOOLEAN
        BY <2>16, Zenon DEF OnClockAlarm
      <3>6. UNCHANGED <<now, reader, queue, task, job, timeline, error, dirs, tmps, env, hist>>
        BY <2>16 DEF OnClockAlarm
      <3>7. pq' \in SUBSET Nat /\ DOMAIN blocks' \in SUBSET Nat
        BY <3>3 DEF TypeOK
      <3> QED BY <3>2, <3>4, <3>5, <3>6, <3>7 DEF TypeOK
    <2>17. ASSUME Crash PROVE TypeOK'
      <3>1. ios' \in Seq(Task) /\ dq' \in Seq(Nat)
        BY <2>17, EmptySeq DEF Crash
      <3>2. crashes' \in 0..MaxCrash /\ conn' \in 1..MaxConn
        BY <2>17 DEF Crash, TypeOK
      <3>3. alarm' \in BOOLEAN /\ reader_ok' \in BOOLEAN /\ err' \in BOOLEAN
        BY <2>17, Zenon DEF Crash
      <3>4. /\ num' \in Int /\ seen' \in Int /\ till' \in Nat /\ cur' \in Nat
            /\ head' \in 0..MaxConn /\ rounds' \in 0..2 /\ pq' \in SUBSET Nat
        BY <2>17 DEF Crash
      <3>5. /\ phase' = "head" /\ pc' = "init" /\ job' = "pad" /\ goal' = "idle"
            /\ stat' = "first" /\ task' \in Task \cup {NoTask}
        BY <2>17 DEF Crash
      <3>6. UNCHANGED <<now, posts, disk, fails, sweeps, hist>>
        BY <2>17 DEF Crash
      <3> QED BY <3>1, <3>2, <3>3, <3>4, <3>5, <3>6 DEF TypeOK
    <2>18. ASSUME Scan PROVE TypeOK'
      <3>1. dq' \in Seq(Nat) /\ tmps' \in SUBSET Nat /\ pq' \in SUBSET Nat
            /\ DOMAIN blocks' \in SUBSET Nat /\ cur' \in Nat
        <4>1. PICK kept \in SUBSET DOMAIN blocks, gone \in SUBSET DOMAIN blocks :
                 /\ pq' = kept /\ DOMAIN blocks' = DOMAIN blocks \ gone
                 /\ kept = {} => cur' = 0
                 /\ kept # {} => \E top \in kept : cur' = Align(top + Scale)
                 /\ dq' \in Seq(Nat) /\ tmps' \in SUBSET Nat
          <5>1. TypeInv /\ Scan
            BY <2>18
          <5> HIDE DEF TypeInv, Scan
          <5> QED BY ONLY <5>1, ScanFacts
        <4>2. DOMAIN blocks \subseteq Nat
          BY DEF TypeOK
        <4>3. \A top \in kept : Align(top + Scale) \in Nat
          <5> TAKE top \in kept
          <5>1. top + Scale \in Nat
            BY <4>2
          <5> QED BY ONLY <5>1, AlignFacts
        <4> QED BY <4>1, <4>2, <4>3
      <3>2. /\ till' = now /\ pc' \in {"idle", "pad"} /\ goal' \in {"idle", "boot"}
        BY <2>18 DEF Scan
      <3>3. blind' \in BOOLEAN
        BY <2>18 DEF Scan, TypeOK
      <3>4. UNCHANGED <<now, alarm, reader, queue, task, job, stat, reader_ok, head, error,
                   dirs, env, dropped, stale, razed>>
        BY <2>18 DEF Scan
      <3> QED BY <3>1, <3>2, <3>3, <3>4 DEF TypeOK
    <2>19. ASSUME NEW D, RemoveAll(D) PROVE TypeOK'
      <3>1. /\ dirs' \subseteq dirs /\ DOMAIN blocks' \subseteq DOMAIN blocks
            /\ tmps' \subseteq tmps
        BY <2>19 DEF RemoveAll
      <3>2. sweeps' \in 0..MaxSweep
        BY <2>19 DEF RemoveAll, TypeOK
      <3>3. razed' \in BOOLEAN
        <4>1. razed' = (razed \/ \E d \in D : d * DirScale > now \/ d \in Current)
          BY <2>19 DEF RemoveAll
        <4> QED BY <4>1
      <3>4. UNCHANGED <<now, alarm, reader, queue, pc, flow, timeline, caches, error,
                   crashes, fails, dropped, stale, blind>>
        BY <2>19 DEF RemoveAll
      <3>5. /\ dirs' \in SUBSET Nat /\ DOMAIN blocks' \in SUBSET Nat
            /\ tmps' \in SUBSET Nat
        BY <3>1 DEF TypeOK
      <3> QED BY <3>2, <3>3, <3>4, <3>5 DEF TypeOK
    <2>20. CASE UNCHANGED vars
      BY <2>20 DEF vars, TypeOK
    <2> QED BY <2>1, <2>2, <2>3, <2>4, <2>5, <2>6, <2>7, <2>8, <2>9, <2>10, <2>11, <2>12,
         <2>13, <2>14, <2>15, <2>16, <2>17, <2>18, <2>19, <2>20
         DEF Next, Reader, Writer, Sweep, SweepAtStart
  <1>4. IsFiniteSet(dirs')
    <2>1. ASSUME GetFilePathName PROVE IsFiniteSet(dirs')
      <3>1. dirs' = dirs \/ dirs' = dirs \cup {DirOf(cur)}
        BY <2>1 DEF GetFilePathName
      <3>2. IsFiniteSet(dirs \cup {DirOf(cur)})
        BY <1>1, FS_AddElement
      <3> QED BY <1>1, <3>1, <3>2
    <2>2. ASSUME NEW D, RemoveAll(D) PROVE IsFiniteSet(dirs')
      <3>1. dirs' = dirs \ D
        BY <2>2 DEF RemoveAll
      <3> QED BY <1>1, <3>1, FS_Subset
    <2>3. ASSUME GetFilePathName \/ (\E D : RemoveAll(D)) \/ dirs' = dirs PROVE IsFiniteSet(dirs')
      BY <1>1, <2>1, <2>2, <2>3
    <2>4. GetFilePathName \/ (\E D : RemoveAll(D)) \/ dirs' = dirs
      BY DEF Next, vars, Reader, Writer, Sweep, SweepAtStart, AsyncWritePiece, ReaderError,
             AsyncUpdateHeader, HandleReaderError, HandleUpdateHeader, HandleWritePiece,
             Dispatch, Normal, Pad, WriteTmp, RemoveOld, Rename, Written, Retry, DirGone, Fail,
             Tick, OnClockAlarm, Crash, Scan
    <2> QED BY <2>3, <2>4
  <1>5. Edge'
    <2>1. /\ cur \in Nat /\ now \in Nat /\ till \in Nat /\ DOMAIN blocks \subseteq Nat
          /\ job \in {"live", "pad"} /\ goal \in {"idle", "boot", "normal", "write"}
      BY <1>1 DEF TypeOK
    <2>2. /\ cur <= now + 2 * Scale /\ till <= now
          /\ Writing => cur <= now + Scale
          /\ Writing /\ job = "pad" => cur <= now
          /\ pc = "pad" /\ goal = "write" => cur <= now + Scale
          /\ \A id \in DOMAIN blocks : id <= now + Scale
      BY <1>1 DEF Edge
    <2> USE <1>2, <2>1
    <2>3. ASSUME UNCHANGED <<now, cur, till, job, goal, pc, blocks>> PROVE Edge'
      BY <2>2, <2>3 DEF Edge, Writing
    <2>4. ASSUME HandleReaderError PROVE Edge'
      BY <2>2, <2>4 DEF HandleReaderError, Edge, Writing
    <2>5. ASSUME HandleUpdateHeader \/ HandleWritePiece PROVE Edge'
      BY <2>2, <2>5 DEF HandleUpdateHeader, HandleWritePiece, Edge, Writing
    <2>6. ASSUME Dispatch PROVE Edge'
      <3>1. /\ cur' \in {cur, Align(now)} /\ pc' \in {"idle", "pad", "normal"}
            /\ pc' = "pad" => cur' = cur /\ cur <= now
        BY <2>6 DEF Dispatch
      <3>2. UNCHANGED <<now, till, blocks>>
        BY <2>6 DEF Dispatch
      <3>3. Align(now) \in Nat /\ Align(now) <= now
        BY AlignFacts
      <3>4. cur' <= now + 2 * Scale /\ (pc' = "pad" => cur' <= now + Scale)
        BY <2>2, <3>1, <3>3
      <3> QED BY <2>2, <3>1, <3>2, <3>4 DEF Edge, Writing
    <2>7. ASSUME Normal PROVE Edge'
      <3>1. /\ pc' \in {"idle", "pad", "dir"} /\ (pc' # "idle" => cur <= now + Scale)
            /\ pc' = "dir" => job' = "live"
        BY <2>7 DEF Normal
      <3>2. UNCHANGED <<now, cur, till, blocks>>
        BY <2>7 DEF Normal
      <3> QED BY <2>2, <3>1, <3>2 DEF Edge, Writing
    <2>8. ASSUME Pad PROVE Edge'
      <3>1. UNCHANGED <<now, cur, till, blocks>> /\ pc' \in {"idle", "normal", "dir"}
        BY <2>8 DEF Pad
      <3>2. CASE Lag(IF goal \in {"idle", "boot"} THEN till ELSE now, 1)
        <4>1. cur <= now
          BY <2>2, <3>2 DEF Lag
        <4> QED BY <2>2, <3>1, <4>1 DEF Edge, Writing
      <3>3. CASE ~Lag(IF goal \in {"idle", "boot"} THEN till ELSE now, 1)
        <4>1. pc' = "dir" => goal = "write" /\ job' = "live"
          BY <2>8, <3>3 DEF Pad
        <4>2. pc' = "dir" => cur <= now + Scale
          BY <2>2, <2>8, <4>1 DEF Pad
        <4> QED BY <2>2, <3>1, <4>1, <4>2 DEF Edge, Writing
      <3> QED BY <3>2, <3>3
    <2>9. ASSUME GetFilePathName \/ DirGone \/ Fail PROVE Edge'
      <3>1. Writing /\ UNCHANGED <<now, cur, till, job, goal, blocks>> /\ pc' # "pad"
        BY <2>9 DEF GetFilePathName, DirGone, Fail, Writing
      <3> QED BY <2>2, <3>1 DEF Edge, Writing
    <2>10. ASSUME WriteTmp \/ RemoveOld \/ Rename \/ Retry PROVE Edge'
      <3>1. Writing /\ UNCHANGED <<now, cur, till, job, goal>> /\ pc' # "pad"
        BY <2>10 DEF WriteTmp, RemoveOld, Rename, Retry, Writing
      <3>2. DOMAIN blocks' \subseteq DOMAIN blocks \cup {cur}
        BY <2>10 DEF WriteTmp, RemoveOld, Rename, Retry, DecreasePiece
      <3>3. \A id \in DOMAIN blocks' : id <= now + Scale
        BY <2>2, <3>1, <3>2
      <3> QED BY <2>2, <3>1, <3>3 DEF Edge, Writing
    <2>11. ASSUME Written PROVE Edge'
      <3>1. /\ Writing /\ UNCHANGED <<now, till, job, goal, blocks>> /\ cur' = cur + Scale
            /\ pc' = IF job = "pad" THEN "pad" ELSE "idle"
        BY <2>11 DEF Written, Writing
      <3>2. cur' <= now + 2 * Scale /\ (pc' = "pad" => cur' <= now + Scale)
        BY <2>2, <3>1
      <3> QED BY <2>2, <3>1, <3>2 DEF Edge, Writing
    <2>12. ASSUME Tick PROVE Edge'
      BY <2>2, <2>12 DEF Tick, Edge, Writing
    <2>13. ASSUME OnClockAlarm PROVE Edge'
      <3>1. /\ UNCHANGED <<now, cur>> /\ pc' \in {"idle", "pad"} /\ till' \in {till, now}
            /\ pc' = "pad" => goal' = "idle"
            /\ DOMAIN blocks' \subseteq DOMAIN blocks
        BY <2>13 DEF OnClockAlarm
      <3> QED BY <2>2, <3>1 DEF Edge, Writing
    <2>14. ASSUME Crash PROVE Edge'
      BY <2>2, <2>14 DEF Crash, Edge, Writing
    <2>15. ASSUME Scan PROVE Edge'
      <3>1. PICK kept \in SUBSET DOMAIN blocks :
              /\ DOMAIN blocks' \subseteq DOMAIN blocks
              /\ kept = {} => cur' = 0
              /\ kept # {} => \E top \in kept : cur' = Align(top + Scale)
        <4>1. TypeInv /\ Scan
          BY <2>15
        <4> QED BY ONLY <4>1, ScanFacts
      <3>2. cur' <= now + 2 * Scale
        <4>1. CASE kept = {}
          BY <3>1, <4>1
        <4>2. CASE kept # {}
          <5>1. PICK top \in kept : cur' = Align(top + Scale)
            BY <3>1, <4>2
          <5>2. top \in Nat /\ top <= now + Scale /\ top + Scale \in Nat
            BY <2>2
          <5>3. Align(top + Scale) \in Nat /\ Align(top + Scale) <= top + Scale
            BY <5>2, AlignFacts
          <5> QED BY <5>1, <5>2, <5>3
        <4> QED BY <4>1, <4>2
      <3>3. now' = now /\ till' = now /\ pc' \in {"idle", "pad"} /\ goal' \in {"idle", "boot"}
        BY <2>15 DEF Scan
      <3> QED BY <2>2, <3>1, <3>2, <3>3 DEF Edge, Writing
    <2>16. ASSUME NEW D, RemoveAll(D) PROVE Edge'
      <3>1. UNCHANGED <<now, cur, till, job, goal, pc>> /\ DOMAIN blocks' \subseteq DOMAIN blocks
        BY <2>16 DEF RemoveAll
      <3> QED BY <2>2, <3>1 DEF Edge, Writing
    <2>17. ASSUME Reader \/ UNCHANGED vars PROVE Edge'
      BY <2>3, <2>17 DEF Reader, AsyncWritePiece, ReaderError, AsyncUpdateHeader, vars
    <2> QED BY <2>4, <2>5, <2>6, <2>7, <2>8, <2>9, <2>10, <2>11, <2>12, <2>13, <2>14, <2>15,
         <2>16, <2>17 DEF Next, Writer, Sweep, SweepAtStart
  <1> HIDE DEF reader, queue, flow, timeline, caches, error, disk, env, hist
  <1> QED BY <1>3, <1>4, <1>5 DEF TypeInv

LEMMA TypeHolds == Spec => []TypeInv
  BY InitType, StepType, PTL DEF Spec

\* Type correctness of the writer.
THEOREM TypeCorrect == Spec => []TypeOK
  <1>1. TypeInv => TypeOK
    BY DEF TypeInv
  <1> QED BY <1>1, TypeHolds, PTL

\* The writer is never more than two blocks ahead of the clock, however fast
\* the stream delivers, whatever fails and wherever a restart resumes.
THEOREM AtLiveEdge == Spec => []LiveEdge
  <1>1. TypeInv => LiveEdge
    BY DEF TypeInv, Edge, LiveEdge
  <1> QED BY <1>1, TypeHolds, PTL

----------------------------------------------------------------------------
(* The header of a block belongs to its data.                              *)

\* The writer waits for the first piece of a connection.
Waiting == stat = "first" /\ pc # "dec"

\* The writer has the header of connection c, or is about to take it.
Serving(c) ==
    IF pc = "dec"
    THEN task.conn = c /\ IF stat = "first" THEN task.kind = "head" ELSE head = c
    ELSE stat # "first" /\ head = c

\* What is posted of a connection follows on its header, up to an error.
Following ==
    /\ \A i \in 1..Len(ios) : ios[i].kind \in {"data", "update"} =>
         IF i = 1 THEN Serving(ios[i].conn)
                  ELSE ios[i-1].kind # "error" /\ ios[i-1].conn = ios[i].conn
    /\ \A i \in 1..Len(ios) : ios[i].kind = "head" =>
         IF i = 1 THEN Waiting ELSE ios[i-1].kind = "error"
    /\ phase = "data" => IF ios = <<>> THEN Serving(conn)
                         ELSE ios[Len(ios)].kind # "error" /\ ios[Len(ios)].conn = conn
    /\ phase = "head" => IF ios = <<>> THEN Waiting ELSE ios[Len(ios)].kind = "error"

\* The piece at hand is on its way to a file, past the padding before it.
Live == \/ pc = "normal"
        \/ pc = "pad" /\ goal \in {"normal", "write"}
        \/ Writing /\ (job = "live" \/ goal \in {"normal", "write"})

Handled == /\ pc = "dec" => Serving(task.conn)
           /\ Live => stat # "first" /\ head = task.conn

Matched == \A id \in DOMAIN blocks : blocks[id].head = blocks[id].data

HeaderInv == ~dropped /\ ~stale => Following /\ Handled /\ Matched

LEMMA PostStep ==
    ASSUME ios \in Seq(Task), NEW t \in Task, Post(t)
    PROVE  /\ Len(ios) \in Nat /\ Len(ios') = Len(ios) + 1 /\ ios' # <<>>
           /\ \A i \in 1..Len(ios) : ios'[i] = ios[i]
           /\ ios'[Len(ios) + 1] = t
           /\ ios = <<>> <=> Len(ios) = 0
  BY DEF Post

LEMMA TakeStep ==
    ASSUME ios \in Seq(Task), ios # <<>>, ios' = Tail(ios)
    PROVE  /\ Len(ios) \in Nat /\ Len(ios) >= 1 /\ Len(ios') = Len(ios) - 1
           /\ ios' = <<>> <=> Len(ios) = 1
           /\ \A i \in 1..(Len(ios) - 1) : ios'[i] = ios[i+1]
           /\ Head(ios) = ios[1]
  <1>1. /\ Tail(ios) \in Seq(Task) /\ Len(Tail(ios)) = Len(ios) - 1 /\ Head(ios) = ios[1]
        /\ \A i \in 1..Len(Tail(ios)) : Tail(ios)[i] = ios[i+1]
    BY HeadTailProperties
  <1>2. Len(ios) \in Nat /\ Len(ios) >= 1
    BY EmptySeq
  <1>3. Tail(ios) = <<>> <=> Len(Tail(ios)) = 0
    BY <1>1, EmptySeq
  <1> QED BY <1>1, <1>2, <1>3

LEMMA StepHeader == TypeInv /\ HeaderInv /\ [Next]_vars => HeaderInv'
  <1> SUFFICES ASSUME TypeInv, HeaderInv, [Next]_vars, ~dropped', ~stale'
               PROVE  Following' /\ Handled' /\ Matched'
    BY DEF HeaderInv
  <1> USE DEF reader, queue, flow, timeline, caches, error, disk, env, hist
  <1>1. TypeOK
    BY DEF TypeInv
  <1>2. ~dropped /\ ~stale
    <2>1. ASSUME NEW kind, AsyncWritePiece(kind) PROVE ~dropped /\ ~stale
      <3>1. (dropped' = TRUE \/ dropped' = dropped) /\ stale' = stale
        BY <2>1 DEF AsyncWritePiece
      <3> QED BY <3>1
    <2>2. ASSUME AsyncUpdateHeader PROVE ~dropped /\ ~stale
      <3>1. dropped' = dropped /\ \E c : stale' = (stale \/ c # conn)
        BY <2>2 DEF AsyncUpdateHeader
      <3> QED BY <3>1
    <2>3. \/ \E kind \in {"head", "data"} : AsyncWritePiece(kind)
          \/ AsyncUpdateHeader \/ UNCHANGED <<dropped, stale>>
      BY DEF Next, vars, Reader, Writer, Sweep, SweepAtStart, RemoveAll, ReaderError,
             HandleReaderError, HandleUpdateHeader, HandleWritePiece, Dispatch, Normal, Pad,
             GetFilePathName, WriteTmp, RemoveOld, Rename, Written, Retry, DirGone, Fail, Tick,
             OnClockAlarm, Crash, Scan
    <2> QED BY <2>1, <2>2, <2>3
  <1>3. Following /\ Handled /\ Matched
    BY <1>2 DEF HeaderInv
  <1>4. /\ ios \in Seq(Task) /\ conn \in 1..MaxConn /\ phase \in {"head", "data"}
        /\ pc \in {"init", "idle", "dec", "normal", "pad", "dir", "tmp", "rename", "done"}
        /\ goal \in {"idle", "boot", "normal", "write"} /\ job \in {"live", "pad"}
        /\ stat \in {"first", "second", "normal"}
    BY <1>1 DEF TypeOK
  <1>5. ASSUME UNCHANGED <<ios, phase, conn>>, Waiting => Waiting',
               \A c : Serving(c) => Serving(c)'
        PROVE  Following'
    BY <1>3, <1>5 DEF Following
  <1>6. ASSUME UNCHANGED <<ios, phase, conn, stat, head, task>>,
               pc' = pc \/ (pc # "dec" /\ pc' # "dec")
        PROVE  Following'
    BY <1>5, <1>6 DEF Waiting, Serving
  <1>7. ASSUME UNCHANGED blocks \/ \E S \in SUBSET DOMAIN blocks : blocks' = [id \in S |-> blocks[id]]
        PROVE  Matched'
    BY <1>3, <1>7 DEF Matched
  <1>8. ASSUME NEW t \in Task, Post(t), UNCHANGED <<pc, stat, head, task>>,
               t.kind \in {"data", "update"} =>
                 IF ios = <<>> THEN Serving(t.conn)
                 ELSE ios[Len(ios)].kind # "error" /\ ios[Len(ios)].conn = t.conn,
               t.kind = "head" => IF ios = <<>> THEN Waiting ELSE ios[Len(ios)].kind = "error",
               phase' = "data" => t.kind # "error" /\ t.conn = conn',
               phase' = "head" => t.kind = "error"
        PROVE  Following'
    <2>1. /\ Len(ios) \in Nat /\ Len(ios') = Len(ios) + 1 /\ ios' # <<>>
          /\ \A i \in 1..Len(ios) : ios'[i] = ios[i]
          /\ ios'[Len(ios) + 1] = t
          /\ ios = <<>> <=> Len(ios) = 0
      BY <1>4, <1>8, PostStep
    <2>2. (Waiting => Waiting') /\ \A c : Serving(c) => Serving(c)'
      BY <1>8 DEF Waiting, Serving
    <2>3. ASSUME NEW i \in 1..Len(ios'), ios'[i].kind \in {"data", "update"}
          PROVE  IF i = 1 THEN \A c : c = ios'[i].conn => Serving(c)'
                 ELSE ios'[i-1].kind # "error" /\ ios'[i-1].conn = ios'[i].conn
      <3>1. CASE i = Len(ios) + 1
        BY <1>8, <2>1, <2>2, <2>3, <3>1
      <3>2. CASE i # Len(ios) + 1
        <4>1. i \in 1..Len(ios) /\ (i # 1 => i - 1 \in 1..Len(ios))
          BY <2>1, <3>2
        <4>2. IF i = 1 THEN Serving(ios[i].conn)
              ELSE ios[i-1].kind # "error" /\ ios[i-1].conn = ios[i].conn
          BY <1>3, <2>1, <2>3, <4>1 DEF Following
        <4> QED BY <2>1, <2>2, <4>1, <4>2
      <3> QED BY <3>1, <3>2
    <2>4. ASSUME NEW i \in 1..Len(ios'), ios'[i].kind = "head"
          PROVE  IF i = 1 THEN Waiting' ELSE ios'[i-1].kind = "error"
      <3>1. CASE i = Len(ios) + 1
        BY <1>8, <2>1, <2>2, <2>4, <3>1
      <3>2. CASE i # Len(ios) + 1
        <4>1. i \in 1..Len(ios) /\ (i # 1 => i - 1 \in 1..Len(ios))
          BY <2>1, <3>2
        <4>2. IF i = 1 THEN Waiting ELSE ios[i-1].kind = "error"
          BY <1>3, <2>1, <2>4, <4>1 DEF Following
        <4> QED BY <2>1, <2>2, <4>1, <4>2
      <3> QED BY <3>1, <3>2
    <2>5. ios'[Len(ios')] = t
      BY <2>1
    <2>6. phase' = "data" \/ phase' = "head" => ios' # <<>> /\ ios'[Len(ios')] = t
      BY <2>1, <2>5
    <2>7. \A i \in 1..Len(ios') : ios'[i].kind \in {"data", "update"} =>
            IF i = 1 THEN Serving(ios[i].conn)'
                     ELSE ios'[i-1].kind # "error" /\ ios'[i-1].conn = ios'[i].conn
      BY <2>3 DEF Serving
    <2> QED BY <1>8, <2>4, <2>6, <2>7 DEF Following
  <1>9. ASSUME ios # <<>>, ios' = Tail(ios), UNCHANGED <<phase, conn>>,
               \A c : Head(ios).kind # "error" /\ c = Head(ios).conn => Serving(c)',
               Head(ios).kind = "error" => Waiting'
        PROVE  Following'
    <2>1. /\ Len(ios) \in Nat /\ Len(ios) >= 1 /\ Len(ios') = Len(ios) - 1
          /\ ios' = <<>> <=> Len(ios) = 1
          /\ \A i \in 1..(Len(ios) - 1) : ios'[i] = ios[i+1]
          /\ Head(ios) = ios[1]
      BY <1>4, <1>9, TakeStep
    <2>2. ASSUME NEW i \in 1..Len(ios'), ios'[i].kind \in {"data", "update"}
          PROVE  IF i = 1 THEN \A c : c = ios'[i].conn => Serving(c)'
                 ELSE ios'[i-1].kind # "error" /\ ios'[i-1].conn = ios'[i].conn
      <3>1. /\ i + 1 \in 1..Len(ios) /\ i + 1 # 1 /\ (i + 1) - 1 = i /\ ios'[i] = ios[i+1]
            /\ i # 1 => i - 1 \in 1..(Len(ios) - 1) /\ (i - 1) + 1 = i
        BY <2>1
      <3>2. ios[i].kind # "error" /\ ios[i].conn = ios[i+1].conn
        BY <1>3, <2>2, <3>1 DEF Following
      <3>3. i # 1 => ios'[i-1] = ios[i]
        BY <2>1, <3>1
      <3> QED BY <1>9, <2>1, <3>1, <3>2, <3>3
    <2>3. ASSUME NEW i \in 1..Len(ios'), ios'[i].kind = "head"
          PROVE  IF i = 1 THEN Waiting' ELSE ios'[i-1].kind = "error"
      <3>1. /\ i + 1 \in 1..Len(ios) /\ i + 1 # 1 /\ (i + 1) - 1 = i /\ ios'[i] = ios[i+1]
            /\ i # 1 => i - 1 \in 1..(Len(ios) - 1) /\ (i - 1) + 1 = i
        BY <2>1
      <3>2. ios[i].kind = "error"
        BY <1>3, <2>3, <3>1 DEF Following
      <3>3. i # 1 => ios'[i-1] = ios[i]
        BY <2>1, <3>1
      <3> QED BY <1>9, <2>1, <3>1, <3>2, <3>3
    <2>4. ios' # <<>> => ios'[Len(ios')] = ios[Len(ios)]
      BY <2>1
    <2>5. ios' = <<>> => ios[Len(ios)] = Head(ios)
      BY <2>1
    <2>6. \A i \in 1..Len(ios') : ios'[i].kind \in {"data", "update"} =>
            IF i = 1 THEN Serving(ios[i].conn)'
                     ELSE ios'[i-1].kind # "error" /\ ios'[i-1].conn = ios'[i].conn
      BY <2>2 DEF Serving
    <2>7. phase' = "data" => IF ios' = <<>> THEN Serving(conn)'
                             ELSE ios'[Len(ios')].kind # "error" /\ ios'[Len(ios')].conn = conn'
      <3>1. ASSUME phase' = "data"
            PROVE  ios[Len(ios)].kind # "error" /\ ios[Len(ios)].conn = conn
        BY <1>3, <1>9, <3>1 DEF Following
      <3>2. ASSUME phase' = "data", ios' = <<>> PROVE Serving(conn)'
        <4>1. PICK c : c = conn /\ c = Head(ios).conn
          BY <2>5, <3>1, <3>2
        <4>2. Serving(c)' /\ conn' = c
          BY <1>9, <2>5, <3>1, <3>2, <4>1
        <4> QED BY <4>2 DEF Serving
      <3> QED BY <1>9, <2>4, <3>1, <3>2
    <2>8. phase' = "head" => IF ios' = <<>> THEN Waiting' ELSE ios'[Len(ios')].kind = "error"
      <3>1. ASSUME phase' = "head" PROVE ios[Len(ios)].kind = "error"
        BY <1>3, <1>9, <3>1 DEF Following
      <3> QED BY <1>9, <2>4, <2>5, <3>1
    <2> QED BY <2>3, <2>6, <2>7, <2>8 DEF Following
  <1> DEFINE Done == Following' /\ Handled' /\ Matched'
  <1>10. ASSUME UNCHANGED <<pc, stat, head, task, job, goal, blocks>> PROVE Handled' /\ Matched'
    BY <1>3, <1>10 DEF Handled, Matched, Live, Serving, Writing
  <1>11. ASSUME NEW kind \in {"head", "data"}, AsyncWritePiece(kind) PROVE Done
    <2>1. /\ UNCHANGED <<conn, pc, stat, head, task, blocks, job, goal>>
          /\ phase' = "data" /\ phase = kind
      BY <1>11 DEF AsyncWritePiece
    <2> DEFINE t == [kind |-> kind, conn |-> conn]
    <2>2. t \in Task /\ Post(t) /\ t.kind = kind /\ t.conn = conn
      BY <1>4, <1>11 DEF AsyncWritePiece, Task
    <2> HIDE DEF t
    <2>3. Following'
      BY <1>3, <1>8, <2>1, <2>2 DEF Following
    <2> QED BY <1>10, <2>1, <2>3
  <1>12. ASSUME ReaderError PROVE Done
    <2>1. UNCHANGED <<pc, stat, head, task, blocks, job, goal>> /\ phase' = "head"
      BY <1>12 DEF ReaderError
    <2> DEFINE t == [kind |-> "error", conn |-> conn]
    <2>2. t \in Task /\ Post(t) /\ t.kind = "error"
      BY <1>4, <1>12 DEF ReaderError, Task
    <2> HIDE DEF t
    <2>3. Following'
      BY <1>8, <2>1, <2>2
    <2> QED BY <1>10, <2>1, <2>3
  <1>13. ASSUME AsyncUpdateHeader PROVE Done
    <2>1. UNCHANGED <<conn, phase, pc, stat, head, task, blocks, job, goal>> /\ phase = "data"
      BY <1>13 DEF AsyncUpdateHeader
    <2>2. PICK c \in {conn - 1, conn} \ {0} :
            Post([kind |-> "update", conn |-> c]) /\ stale' = (stale \/ c # conn)
      BY <1>13 DEF AsyncUpdateHeader
    <2>3. c = conn
      BY <2>2
    <2> DEFINE t == [kind |-> "update", conn |-> conn]
    <2>4. t \in Task /\ Post(t) /\ t.kind = "update" /\ t.conn = conn
      BY <1>4, <2>2, <2>3 DEF Task
    <2> HIDE DEF t
    <2>5. Following'
      BY <1>3, <1>8, <2>1, <2>4 DEF Following
    <2> QED BY <1>10, <2>1, <2>5
  <1>14. ASSUME HandleReaderError PROVE Done
    <2>1. /\ ios # <<>> /\ ios' = Tail(ios) /\ Head(ios).kind = "error"
          /\ UNCHANGED <<phase, conn, blocks>> /\ stat' = "first" /\ goal' = "idle"
          /\ pc' \in {"pad", "idle"}
      BY <1>14 DEF HandleReaderError
    <2>2. Following'
      BY <1>9, <2>1 DEF Waiting
    <2>3. Handled' /\ Matched'
      BY <1>3, <2>1 DEF Handled, Matched, Live, Writing
    <2> QED BY <2>2, <2>3
  <1>15. ASSUME HandleUpdateHeader PROVE Done
    <2>1. /\ ios # <<>> /\ ios' = Tail(ios) /\ Head(ios).kind = "update" /\ pc = "idle"
          /\ UNCHANGED <<phase, conn, pc, stat, task, job, goal, blocks>>
          /\ head' = IF head = Head(ios).conn THEN head ELSE 0
      BY <1>15 DEF HandleUpdateHeader
    <2>2. Head(ios) = ios[1] /\ 1 \in 1..Len(ios)
      BY <1>4, <2>1, TakeStep
    <2>3. Serving(ios[1].conn)
      BY <1>3, <2>1, <2>2 DEF Following
    <2>4. stat # "first" /\ head = Head(ios).conn /\ head' = head
      BY <2>1, <2>2, <2>3 DEF Serving
    <2>5. Following'
      BY <1>9, <2>1, <2>4 DEF Serving
    <2> QED BY <1>10, <2>1, <2>4, <2>5
  <1>16. ASSUME HandleWritePiece PROVE Done
    <2>1. /\ ios # <<>> /\ ios' = Tail(ios) /\ Head(ios).kind \in {"head", "data"}
          /\ pc = "idle" /\ pc' = "dec" /\ task' = Head(ios)
          /\ UNCHANGED <<phase, conn, stat, head, job, goal, blocks>>
      BY <1>16 DEF HandleWritePiece
    <2>2. Head(ios) = ios[1] /\ 1 \in 1..Len(ios)
      BY <1>4, <2>1, TakeStep
    <2>3. /\ Head(ios).kind = "data" => Serving(ios[1].conn)
          /\ Head(ios).kind = "head" => Waiting
      BY <1>3, <2>1, <2>2 DEF Following
    <2>4. /\ Head(ios).kind = "data" => stat # "first" /\ head = Head(ios).conn
          /\ Head(ios).kind = "head" => stat = "first"
      BY <2>1, <2>2, <2>3 DEF Serving, Waiting
    <2>5. \A c : c = Head(ios).conn => Serving(c)'
      BY <2>1, <2>4 DEF Serving
    <2>6. Following'
      BY <1>9, <2>1, <2>5
    <2>7. Handled'
      BY <2>1, <2>4 DEF Handled, Serving, Live, Writing
    <2> QED BY <1>3, <2>1, <2>6, <2>7 DEF Matched
  <1>17. ASSUME Dispatch PROVE Done
    <2>1. /\ pc = "dec" /\ pc' \in {"idle", "pad", "normal"}
          /\ UNCHANGED <<ios, phase, conn, task, blocks>>
      BY <1>17 DEF Dispatch
    <2>2. /\ stat = "first" => /\ head' = (IF task.kind = "head" THEN task.conn ELSE 0)
                               /\ stat' = "second" /\ pc' = "idle"
          /\ stat # "first" => head' = head /\ stat' # "first"
      BY <1>4, <1>17 DEF Dispatch
    <2>3. IF stat = "first" THEN task.kind = "head" ELSE head = task.conn
      BY <1>3, <2>1 DEF Handled, Serving
    <2>4. head' = task.conn /\ stat' # "first"
      BY <2>2, <2>3
    <2>5. Following'
      BY <1>5, <2>1, <2>4 DEF Waiting, Serving
    <2>6. Handled' /\ Matched'
      BY <1>3, <2>1, <2>4 DEF Handled, Matched
    <2> QED BY <2>5, <2>6
  <1>18. ASSUME Normal PROVE Done
    <2>1. /\ pc = "normal" /\ pc' \in {"idle", "pad", "dir"}
          /\ UNCHANGED <<ios, phase, conn, task, head, stat, blocks>>
      BY <1>18 DEF Normal
    <2>2. stat # "first" /\ head = task.conn
      BY <1>3, <2>1 DEF Handled, Live
    <2> QED BY <1>3, <1>6, <2>1, <2>2 DEF Handled, Matched
  <1>19. ASSUME Pad PROVE Done
    <2>1. /\ pc = "pad" /\ pc' \in {"idle", "normal", "dir"}
          /\ UNCHANGED <<ios, phase, conn, task, head, blocks>>
          /\ stat' = stat \/ (goal = "normal" /\ stat' = "normal")
          /\ pc' = "normal" => goal = "normal"
          /\ pc' = "dir" => \/ job' = "pad" /\ goal' = goal
                            \/ goal = "write"
      BY <1>19 DEF Pad
    <2>2. Live => stat # "first" /\ head = task.conn /\ stat' # "first"
      BY <1>3, <2>1 DEF Handled
    <2>3. goal \in {"normal", "write"} => Live
      BY <2>1 DEF Live
    <2>4. Following'
      BY <1>5, <2>1, <2>2, <2>3 DEF Waiting, Serving
    <2>5. Live' => Live
      BY <2>1, <2>3 DEF Live, Writing
    <2>6. Handled' /\ Matched'
      BY <1>3, <2>1, <2>2, <2>5 DEF Handled, Matched
    <2> QED BY <2>4, <2>6
  <1>20. ASSUME GetFilePathName \/ WriteTmp \/ RemoveOld \/ Retry \/ DirGone \/ Fail PROVE Done
    <2>1. /\ Writing /\ pc' \in {"dir", "tmp", "rename", "done"}
          /\ UNCHANGED <<ios, phase, conn, task, head, stat, job, goal>>
      BY <1>20 DEF GetFilePathName, WriteTmp, RemoveOld, Retry, DirGone, Fail, Writing
    <2>2. UNCHANGED blocks \/ \E S \in SUBSET DOMAIN blocks : blocks' = [id \in S |-> blocks[id]]
      BY <1>20 DEF GetFilePathName, WriteTmp, RemoveOld, Retry, DecreasePiece, DirGone, Fail
    <2>3. Matched'
      BY <1>7, <2>2
    <2>4. Following'
      BY <1>6, <2>1 DEF Writing
    <2>5. Handled'
      BY <1>3, <2>1 DEF Handled, Live, Writing
    <2> QED BY <2>3, <2>4, <2>5
  <1>21. ASSUME Rename PROVE Done
    <2>1. /\ pc = "rename" /\ pc' = "done"
          /\ UNCHANGED <<ios, phase, conn, task, head, stat, job, goal>>
          /\ blocks' = [id \in DOMAIN blocks \cup {cur} |->
                          IF id = cur THEN Content ELSE blocks[id]]
      BY <1>21 DEF Rename
    <2>2. Following'
      BY <1>6, <2>1
    <2>3. Handled'
      BY <1>3, <2>1 DEF Handled, Live, Writing
    <2>4. Content.head = Content.data
      BY <1>3, <1>4, <2>1 DEF Handled, Live, Writing, Content
    <2>5. Matched'
      BY <1>3, <2>1, <2>4 DEF Matched
    <2> QED BY <2>2, <2>3, <2>5
  <1>22. ASSUME Written PROVE Done
    <2>1. /\ pc = "done" /\ pc' = IF job = "pad" THEN "pad" ELSE "idle"
          /\ UNCHANGED <<ios, phase, conn, task, head, stat, job, goal, blocks>>
      BY <1>22 DEF Written
    <2>2. Following'
      BY <1>6, <2>1
    <2> QED BY <1>3, <2>1, <2>2 DEF Handled, Live, Writing, Matched
  <1>23. ASSUME Tick \/ UNCHANGED vars PROVE Done
    BY <1>6, <1>10, <1>23 DEF Tick, vars
  <1>24. ASSUME OnClockAlarm PROVE Done
    <2>1. /\ pc = "idle" /\ pc' \in {"idle", "pad"} /\ (pc' = "pad" => goal' = "idle")
          /\ UNCHANGED <<ios, phase, conn, task, head, stat>>
      BY <1>24 DEF OnClockAlarm
    <2>2. \E S \in SUBSET DOMAIN blocks : blocks' = [id \in S |-> blocks[id]]
      <3>1. blocks' = [id \in DOMAIN blocks \ (pq \ pq') |-> blocks[id]]
        BY <1>24 DEF OnClockAlarm
      <3>2. DOMAIN blocks \ (pq \ pq') \in SUBSET DOMAIN blocks
        OBVIOUS
      <3> QED BY <3>1, <3>2
    <2>3. Following' /\ Matched'
      BY <1>6, <1>7, <2>1, <2>2
    <2> QED BY <2>1, <2>3 DEF Handled, Live, Writing
  <1>25. ASSUME Crash PROVE Done
    <2>1. /\ pc' = "init" /\ stat' = "first" /\ ios' = <<>> /\ phase' = "head"
          /\ UNCHANGED blocks
      BY <1>25 DEF Crash
    <2>2. Following'
      BY <2>1 DEF Following, Waiting
    <2> QED BY <1>7, <2>1, <2>2 DEF Handled, Live, Writing
  <1>26. ASSUME Scan PROVE Done
    <2>1. /\ pc = "init" /\ pc' \in {"idle", "pad"} /\ goal' \in {"idle", "boot"}
          /\ UNCHANGED <<ios, phase, conn, task, head, stat>>
      BY <1>26 DEF Scan
    <2>2. /\ DOMAIN blocks' \subseteq DOMAIN blocks
          /\ \A id \in DOMAIN blocks' : blocks'[id] = blocks[id]
      <3>1. TypeInv /\ Scan
        BY <1>26
      <3> QED BY ONLY <3>1, ScanFacts
    <2>3. Matched'
      BY <1>3, <2>2 DEF Matched
    <2>4. Following'
      BY <1>6, <2>1
    <2> QED BY <2>1, <2>3, <2>4 DEF Handled, Live, Writing
  <1>27. ASSUME NEW D, RemoveAll(D) PROVE Done
    <2>1. UNCHANGED <<ios, phase, conn, pc, task, head, stat, job, goal>>
      BY <1>27 DEF RemoveAll
    <2>2. \E S \in SUBSET DOMAIN blocks : blocks' = [id \in S |-> blocks[id]]
      BY <1>27 DEF RemoveAll
    <2>3. Following' /\ Matched'
      BY <1>6, <1>7, <2>1, <2>2
    <2> QED BY <1>3, <2>1, <2>3 DEF Handled, Live, Writing, Serving
  <1> HIDE DEF Done
  <1>28. Done
    BY <1>11, <1>12, <1>13, <1>14, <1>15, <1>16, <1>17, <1>18, <1>19, <1>20, <1>21, <1>22,
       <1>23, <1>24, <1>25, <1>26, <1>27 DEF Next, Reader, Writer, Sweep, SweepAtStart
  <1> QED BY <1>28 DEF Done

\* Unless AsyncWritePiece dropped a piece or the reader posted a sequence header
\* of an older connection, no block is a header of one connection with data of
\* another, across reconnects, kills and failing writes.
THEOREM HeadersMatch == Spec => []HeaderMatches
  <1>1. Init => HeaderInv
    <2> SUFFICES ASSUME Init PROVE Following /\ Handled /\ Matched
      BY DEF HeaderInv
    <2>1. DOMAIN blocks = {} /\ ios = <<>> /\ Len(ios) = 0
      BY DEF Init
    <2> QED BY <2>1 DEF Init, Following, Handled, Matched, Waiting, Live, Writing
  <1>2. HeaderInv => HeaderMatches
    BY DEF HeaderInv, HeaderMatches, Matched
  <1> QED BY <1>1, <1>2, StepHeader, TypeHolds, PTL DEF Spec

----------------------------------------------------------------------------
(* The queue of removable files and the disk.                              *)

\* GetFilePathName has made sure of the directory of cur.
Tied == pc \in {"tmp", "rename"} \/ (pc = "done" /\ ~err)

OnDisk   == ~razed => pq \subseteq DOMAIN blocks
OneDir   == /\ \A id \in pq, other \in pq : DirOf(id) = DirOf(other)
            /\ dq # <<>> => \A id \in pq : DirOf(id) = dq[Len(dq)]
Behind   == \A id \in pq : id < cur
LastDir  == Tied => dq # <<>> /\ dq[Len(dq)] = DirOf(cur)
JustDone == pc = "done" /\ ~err /\ ~razed => cur \in DOMAIN blocks

\* Blocks are queued in the order of their ids and only for the directory being
\* written, which is the last of dir_queue_ unless that has expired.
QueueInv == OnDisk /\ OneDir /\ Behind /\ LastDir /\ JustDone

LEMMA StepQueue == TypeInv /\ QueueInv /\ [Next]_vars => QueueInv'
  <1> SUFFICES ASSUME TypeInv, QueueInv, [Next]_vars PROVE QueueInv'
    OBVIOUS
  <1> USE DEF reader, queue, flow, timeline, caches, error, disk, env, hist
  <1>1. /\ cur \in Nat /\ now \in Nat /\ pq \subseteq Nat /\ DOMAIN blocks \subseteq Nat
        /\ dq \in Seq(Nat) /\ Scale \in Nat \ {0}
    BY WriterAssumption DEF TypeInv, TypeOK
  <1>2. OnDisk /\ OneDir /\ Behind /\ LastDir /\ JustDone
    BY DEF QueueInv
  <1>3. ASSUME UNCHANGED <<pq, dq, cur, blocks, razed>>,
               Tied' => Tied /\ err' = err, pc' = "done" /\ ~err' => pc = "done" /\ ~err
        PROVE  QueueInv'
    BY <1>2, <1>3 DEF QueueInv, OnDisk, OneDir, Behind, LastDir, JustDone
  <1>4. ASSUME Reader \/ HandleReaderError \/ HandleUpdateHeader \/ HandleWritePiece
               \/ Normal \/ Pad \/ WriteTmp \/ DirGone \/ Fail \/ Tick \/ UNCHANGED vars
        PROVE  QueueInv'
    BY <1>3, <1>4 DEF Tied, Reader, AsyncWritePiece, ReaderError, AsyncUpdateHeader,
         HandleReaderError, HandleUpdateHeader, HandleWritePiece, Normal, Pad, WriteTmp,
         DirGone, Fail, Tick, vars
  <1>5. ASSUME Dispatch PROVE QueueInv'
    <2>1. /\ UNCHANGED <<pq, dq, blocks, razed>> /\ pc' \in {"idle", "pad", "normal"}
          /\ cur' = cur \/ cur = 0
      BY <1>5 DEF Dispatch
    <2>2. cur = 0 => pq = {}
      BY <1>1, <1>2 DEF Behind
    <2> QED BY <1>2, <2>1, <2>2
         DEF QueueInv, OnDisk, OneDir, Behind, LastDir, JustDone, Tied
  <1>6. ASSUME GetFilePathName PROVE QueueInv'
    <2>1. UNCHANGED <<cur, blocks, razed>> /\ pc' = "tmp"
      BY <1>6 DEF GetFilePathName
    <2>2. CASE NewDir
      <3>1. dq' = Append(dq, DirOf(cur)) /\ pq' = {}
        BY <1>6, <2>2 DEF GetFilePathName
      <3>2. DirOf(cur) \in Nat
        BY <1>1, DirOfNat
      <3>3. PICK d \in Nat : d = DirOf(cur) /\ d = DirOf(cur')
        BY <2>1, <3>2
      <3>4. dq' # <<>> /\ dq'[Len(dq')] = d
        BY <1>1, <3>1, <3>3
      <3>5. LastDir'
        BY <3>3, <3>4 DEF LastDir, DirOf
      <3> QED BY <2>1, <3>1, <3>5 DEF QueueInv, OnDisk, OneDir, Behind, JustDone
    <2>3. CASE ~NewDir
      <3>1. UNCHANGED <<dq, pq>> /\ dq # <<>> /\ dq[Len(dq)] = DirOf(cur)
        BY <1>6, <2>3 DEF GetFilePathName, NewDir
      <3> QED BY <1>2, <2>1, <3>1
           DEF QueueInv, OnDisk, OneDir, Behind, LastDir, JustDone
    <2> QED BY <2>2, <2>3
  <1>7. ASSUME RemoveOld PROVE QueueInv'
    <2>1. /\ UNCHANGED <<pq, dq, cur, razed, pc, err>> /\ pc = "rename"
          /\ DOMAIN blocks' = DOMAIN blocks \ {cur}
      BY <1>7 DEF RemoveOld
    <2>2. cur \notin pq
      BY <1>1, <1>2 DEF Behind
    <2> QED BY <1>2, <2>1, <2>2
         DEF QueueInv, OnDisk, OneDir, Behind, LastDir, JustDone, Tied
  <1>8. ASSUME Rename PROVE QueueInv'
    <2>1. /\ UNCHANGED <<pq, dq, cur, razed, err>> /\ pc = "rename" /\ pc' = "done"
          /\ DOMAIN blocks' = DOMAIN blocks \cup {cur}
      BY <1>8 DEF Rename
    <2> QED BY <1>2, <2>1
         DEF QueueInv, OnDisk, OneDir, Behind, LastDir, JustDone, Tied
  <1>9. ASSUME Written PROVE QueueInv'
    <2>1. /\ UNCHANGED <<dq, blocks, razed, err>> /\ pc = "done" /\ ~err
          /\ pc' \in {"pad", "idle"} /\ pq' = pq \cup {cur} /\ cur' = cur + Scale
      BY <1>9 DEF Written
    <2>2. dq # <<>> /\ dq[Len(dq)] = DirOf(cur) /\ \A id \in pq' : DirOf(id) = dq[Len(dq)]
      BY <1>2, <2>1 DEF LastDir, OneDir, Tied
    <2>3. OneDir'
      BY <2>1, <2>2 DEF OneDir, DirOf
    <2>4. OnDisk'
      BY <1>2, <2>1 DEF OnDisk, JustDone
    <2>5. Behind'
      BY <1>1, <1>2, <2>1 DEF Behind
    <2> QED BY <2>1, <2>3, <2>4, <2>5 DEF QueueInv, LastDir, JustDone, Tied
  <1>10. ASSUME Retry PROVE QueueInv'
    <2>1. UNCHANGED <<dq, cur, razed>> /\ pc' = "dir"
      BY <1>10 DEF Retry
    <2>2. /\ pq' \subseteq pq
          /\ pq \subseteq DOMAIN blocks => pq' \subseteq DOMAIN blocks'
      BY <1>10 DEF Retry, DecreasePiece
    <2> QED BY <1>2, <2>1, <2>2
         DEF QueueInv, OnDisk, OneDir, Behind, LastDir, JustDone, Tied
  <1>11. ASSUME OnClockAlarm PROVE QueueInv'
    <2>1. /\ UNCHANGED <<cur, razed>> /\ pc' \in {"idle", "pad"} /\ pq' \subseteq pq
          /\ blocks' = [id \in DOMAIN blocks \ (pq \ pq') |-> blocks[id]]
          /\ dq' = SubSeq(dq, Front + 1, Len(dq))
      BY <1>11 DEF OnClockAlarm, Front
    <2>2. dq' # <<>> => dq # <<>> /\ dq'[Len(dq')] = dq[Len(dq)]
      <3>1. PICK rest : rest = SubSeq(dq, Front + 1, Len(dq))
        OBVIOUS
      <3>2. rest # <<>> => dq # <<>> /\ rest[Len(rest)] = dq[Len(dq)]
        BY <1>1, <3>1, FrontFacts
      <3> QED BY <2>1, <3>1, <3>2
    <2>3. OnDisk'
      <3>1. DOMAIN blocks' = DOMAIN blocks \ (pq \ pq')
        BY <2>1
      <3> QED BY <1>2, <2>1, <3>1 DEF OnDisk
    <2>4. OneDir'
      BY <1>2, <2>1, <2>2 DEF OneDir, DirOf
    <2>5. Behind'
      BY <1>2, <2>1 DEF Behind
    <2> QED BY <2>1, <2>3, <2>4, <2>5 DEF QueueInv, LastDir, JustDone, Tied
  <1>12. ASSUME Crash PROVE QueueInv'
    <2>1. pq' = {} /\ dq' = <<>> /\ pc' = "init"
      BY <1>12 DEF Crash
    <2> QED BY <2>1 DEF QueueInv, OnDisk, OneDir, Behind, LastDir, JustDone, Tied
  <1>13. ASSUME Scan PROVE QueueInv'
    <2>1. PICK kept \in SUBSET DOMAIN blocks, gone \in SUBSET DOMAIN blocks :
             /\ pq' = kept /\ kept \cap gone = {}
             /\ DOMAIN blocks' = DOMAIN blocks \ gone
             /\ kept # {} => \E top \in kept :
                  /\ cur' = Align(top + Scale) /\ \A id \in kept : id <= top
                  /\ dq' # <<>> /\ dq'[Len(dq')] = DirOf(top)
                  /\ \A id \in kept : DirOf(id) = DirOf(top)
      <3>1. TypeInv /\ Scan
        BY <1>13
      <3> QED BY ONLY <3>1, ScanFacts
    <2>2. pc' \in {"idle", "pad"}
      BY <1>13 DEF Scan
    <2>3. OnDisk'
      BY <2>1 DEF OnDisk
    <2>4. OneDir' /\ Behind'
      <3>1. CASE kept = {}
        BY <2>1, <3>1 DEF OneDir, Behind
      <3>2. CASE kept # {}
        <4>1. PICK top \in kept :
                  /\ cur' = Align(top + Scale) /\ \A id \in kept : id <= top
                  /\ dq' # <<>> /\ dq'[Len(dq')] = DirOf(top)
                  /\ \A id \in kept : DirOf(id) = DirOf(top)
          BY <2>1, <3>2
        <4>2. top \in Nat /\ top + Scale \in Nat /\ \A id \in kept : id \in Nat
          BY <1>1
        <4>3. Align(top + Scale) \in Nat /\ top + Scale < Align(top + Scale) + Scale
          BY <4>2, AlignFacts
        <4>4. \A id \in kept : id < cur'
          BY <1>1, <4>1, <4>2, <4>3
        <4>5. OneDir'
          BY <2>1, <4>1 DEF OneDir, DirOf
        <4> QED BY <2>1, <4>4, <4>5 DEF Behind
      <3> QED BY <3>1, <3>2
    <2> QED BY <2>2, <2>3, <2>4 DEF QueueInv, LastDir, JustDone, Tied
  <1>14. ASSUME NEW D, RemoveAll(D) PROVE QueueInv'
    <2>1. /\ UNCHANGED <<pq, dq, cur, pc, err>>
          /\ DOMAIN blocks' = {i \in DOMAIN blocks : DirOf(i) \notin D}
          /\ razed' = (razed \/ \E d \in D : d * DirScale > now \/ d \in Current)
      BY <1>14 DEF RemoveAll
    <2>2. ASSUME ~razed'
          PROVE  ~razed /\ (\A id \in pq : DirOf(id) \notin D) /\ (dq # <<>> => dq[Len(dq)] \notin D)
      <3>1. ~razed /\ \A d \in D : d \notin Current
        BY <2>1, <2>2
      <3> QED BY <3>1 DEF Current
    <2>3. OnDisk'
      BY <1>2, <2>1, <2>2 DEF OnDisk
    <2>4. JustDone'
      BY <1>2, <2>1, <2>2 DEF JustDone, LastDir, Tied
    <2> QED BY <1>2, <2>1, <2>3, <2>4 DEF QueueInv, OneDir, Behind, LastDir, Tied, DirOf
  <1> QED BY <1>4, <1>5, <1>6, <1>7, <1>8, <1>9, <1>10, <1>11, <1>12, <1>13, <1>14
       DEF Next, Writer, Sweep, SweepAtStart

LEMMA QueueHolds == Spec => []QueueInv
  <1>1. Init => QueueInv
    BY DEF Init, QueueInv, OnDisk, OneDir, Behind, LastDir, JustDone, Tied
  <1> QED BY <1>1, StepQueue, TypeHolds, PTL DEF Spec

\* piece_file_queue_, from which blocks are removed for age or for room, names
\* only blocks on disk in the directory being written, in every interleaving
\* with the other process's sweeps and whatever fails, unless a sweep took that
\* directory.
THEOREM QueueTrue == Spec => []QueueOnDisk
  <1>1. QueueInv => QueueOnDisk
    BY DEF QueueInv, QueueOnDisk, OnDisk, OneDir
  <1> QED BY <1>1, QueueHolds, PTL

----------------------------------------------------------------------------
(* No block is written twice.                                              *)

Placed == \A id \in DOMAIN blocks : DirOf(id) \in dirs

\* cur is past every block on disk, until its own is there.
Ahead == ~blind /\ pc # "init" =>
           \A id \in DOMAIN blocks : id < cur \/ (id = cur /\ (err \/ pc = "done"))

\* An error keeps the writer at its block.
Stuck == err => Writing

FreshInv == Placed /\ Ahead /\ Stuck

LEMMA StepFresh == TypeInv /\ FreshInv /\ [Next]_vars => FreshInv'
  <1> SUFFICES ASSUME TypeInv, FreshInv, [Next]_vars PROVE FreshInv'
    OBVIOUS
  <1> USE DEF reader, queue, flow, timeline, caches, error, disk, env, hist
  <1>1. /\ cur \in Nat /\ DOMAIN blocks \subseteq Nat /\ Scale \in Nat \ {0}
        /\ dirs \subseteq Nat
    BY WriterAssumption DEF TypeInv, TypeOK
  <1>2. Placed /\ Ahead /\ Stuck
    BY DEF FreshInv
  <1>3. ASSUME UNCHANGED <<dirs, cur, blind>>, DOMAIN blocks' \subseteq DOMAIN blocks,
               pc = "init" => pc' = "init",
               err \/ pc = "done" => err' \/ pc' = "done",
               err' => Writing'
        PROVE  FreshInv'
    BY <1>2, <1>3 DEF FreshInv, Placed, Ahead, Stuck, DirOf
  <1>4. ASSUME Reader \/ HandleReaderError \/ HandleUpdateHeader \/ HandleWritePiece
               \/ Normal \/ Pad \/ WriteTmp \/ DirGone \/ Fail \/ Tick \/ UNCHANGED vars
        PROVE  FreshInv'
    <2>1. /\ UNCHANGED <<dirs, cur, blind, blocks>> /\ (pc = "init" => pc' = "init")
          /\ err \/ pc = "done" => err' \/ pc' = "done"
      BY <1>4 DEF Reader, AsyncWritePiece, ReaderError, AsyncUpdateHeader,
         HandleReaderError, HandleUpdateHeader, HandleWritePiece, Normal, Pad, WriteTmp,
         DirGone, Fail, Tick, vars
    <2>2. err' => Writing'
      BY <1>2, <1>4 DEF Stuck, Writing, Reader, AsyncWritePiece, ReaderError,
         AsyncUpdateHeader, HandleReaderError, HandleUpdateHeader, HandleWritePiece, Normal,
         Pad, WriteTmp, DirGone, Fail, Tick, vars
    <2> QED BY <1>3, <2>1, <2>2
  <1>5. ASSUME RemoveOld \/ Retry \/ OnClockAlarm PROVE FreshInv'
    <2>1. DOMAIN blocks' \subseteq DOMAIN blocks
      BY <1>5 DEF RemoveOld, Retry, DecreasePiece, OnClockAlarm
    <2>2. /\ UNCHANGED <<dirs, cur, blind, err>> /\ (pc = "init" => pc' = "init")
          /\ pc = "done" => err
      BY <1>5 DEF RemoveOld, Retry, OnClockAlarm
    <2>3. err => Writing'
      <3>1. Writing => pc' = "rename" \/ pc' = "dir"
        BY <1>5 DEF RemoveOld, Retry, OnClockAlarm, Writing
      <3> QED BY <1>2, <3>1 DEF Stuck, Writing
    <2> QED BY <1>3, <2>1, <2>2, <2>3
  <1>6. ASSUME Dispatch PROVE FreshInv'
    <2>1. /\ UNCHANGED <<dirs, blocks, blind, err>> /\ pc = "dec"
          /\ cur' = cur \/ cur = 0
      BY <1>6 DEF Dispatch
    <2>2. ~err
      BY <1>2, <2>1 DEF Stuck, Writing
    <2>3. cur = 0 /\ ~blind => DOMAIN blocks = {}
      <3>1. ASSUME cur = 0, ~blind, NEW id \in DOMAIN blocks PROVE FALSE
        <4>1. id < 0 /\ id \in Nat
          BY <1>1, <1>2, <2>1, <2>2, <3>1 DEF Ahead
        <4> QED BY <4>1
      <3> QED BY <3>1
    <2>4. Ahead' /\ Stuck'
      BY <1>2, <2>1, <2>2, <2>3 DEF Ahead, Stuck
    <2> QED BY <1>2, <2>1, <2>4 DEF FreshInv, Placed, DirOf
  <1>7. ASSUME GetFilePathName PROVE FreshInv'
    <2>1. /\ UNCHANGED <<cur, blocks, blind, err>> /\ pc = "dir" /\ pc' = "tmp"
          /\ dirs \subseteq dirs'
      BY <1>7 DEF GetFilePathName
    <2> QED BY <1>2, <2>1 DEF FreshInv, Placed, Ahead, Stuck, Writing, DirOf
  <1>8. ASSUME Rename PROVE FreshInv'
    <2>1. /\ UNCHANGED <<cur, dirs, blind, err>> /\ pc = "rename" /\ pc' = "done"
          /\ DOMAIN blocks' = DOMAIN blocks \cup {cur} /\ DirOf(cur) \in dirs
      BY <1>8 DEF Rename
    <2> QED BY <1>2, <2>1 DEF FreshInv, Placed, Ahead, Stuck, Writing, DirOf
  <1>9. ASSUME Written PROVE FreshInv'
    <2>1. /\ UNCHANGED <<dirs, blocks, blind, err>> /\ ~err /\ pc = "done"
          /\ cur' = cur + Scale
      BY <1>9 DEF Written
    <2>2. Ahead'
      BY <1>1, <1>2, <2>1 DEF Ahead
    <2> QED BY <1>2, <2>1, <2>2 DEF FreshInv, Placed, Stuck, DirOf
  <1>10. ASSUME Crash PROVE FreshInv'
    <2>1. UNCHANGED <<dirs, blocks>> /\ pc' = "init" /\ err' = FALSE
      BY <1>10 DEF Crash
    <2> QED BY <1>2, <2>1 DEF FreshInv, Placed, Ahead, Stuck, DirOf
  <1>11. ASSUME Scan PROVE FreshInv'
    <2>1. PICK kept \in SUBSET DOMAIN blocks, gone \in SUBSET DOMAIN blocks :
             /\ DOMAIN blocks' = DOMAIN blocks \ gone
             /\ kept = {} => cur' = 0 /\ (~blind' => DOMAIN blocks = {})
             /\ kept # {} => \E top \in kept :
                  /\ cur' = Align(top + Scale) /\ \A id \in kept : id <= top
                  /\ \A d \in dirs : d <= DirOf(top)
                  /\ \A id \in DOMAIN blocks' : DirOf(id) = DirOf(top) => id \in kept
      <3>1. TypeInv /\ Scan
        BY <1>11
      <3> QED BY ONLY <3>1, ScanFacts
    <2>2. UNCHANGED <<dirs, err>> /\ pc = "init"
      BY <1>11 DEF Scan
    <2>3. ~err
      BY <1>2, <2>2 DEF Stuck, Writing
    <2>4. ASSUME ~blind', NEW id \in DOMAIN blocks' PROVE id < cur'
      <3>1. kept # {} /\ id \in DOMAIN blocks /\ id \in Nat
        BY <1>1, <2>1, <2>4
      <3>2. PICK top \in kept :
                  /\ cur' = Align(top + Scale) /\ \A k \in kept : k <= top
                  /\ \A d \in dirs : d <= DirOf(top)
                  /\ \A k \in DOMAIN blocks' : DirOf(k) = DirOf(top) => k \in kept
        BY <2>1, <3>1
      <3>3. top \in Nat /\ top + Scale \in Nat
        BY <1>1
      <3>4. Align(top + Scale) \in Nat /\ top + Scale < Align(top + Scale) + Scale
        BY <3>3, AlignFacts
      <3>5. id <= top
        <4>1. DirOf(id) <= DirOf(top) /\ DirOf(id) \in Nat /\ DirOf(top) \in Nat
          BY <1>2, <3>1, <3>2, <3>3, DirOfNat DEF Placed
        <4>2. CASE DirOf(id) = DirOf(top)
          BY <3>2, <4>2
        <4>3. CASE DirOf(id) < DirOf(top)
          <5>1. ASSUME top <= id PROVE FALSE
            BY <3>1, <3>3, <4>1, <4>3, <5>1, DirOfMonotonic
          <5> QED BY <3>1, <3>3, <5>1
        <4> QED BY <4>1, <4>2, <4>3
      <3> QED BY <1>1, <3>1, <3>2, <3>3, <3>4, <3>5
    <2>5. Placed'
      BY <1>2, <2>1, <2>2 DEF Placed, DirOf
    <2> QED BY <2>2, <2>3, <2>4, <2>5 DEF FreshInv, Ahead, Stuck
  <1>12. ASSUME NEW D, RemoveAll(D) PROVE FreshInv'
    <2>1. /\ UNCHANGED <<cur, pc, err, blind>> /\ dirs' = dirs \ D
          /\ DOMAIN blocks' = {i \in DOMAIN blocks : DirOf(i) \notin D}
      BY <1>12 DEF RemoveAll
    <2>2. Placed'
      BY <1>2, <2>1 DEF Placed, DirOf
    <2> QED BY <1>2, <2>1, <2>2 DEF FreshInv, Ahead, Stuck, Writing
  <1> QED BY <1>4, <1>5, <1>6, <1>7, <1>8, <1>9, <1>10, <1>11, <1>12
       DEF Next, Writer, Sweep, SweepAtStart

LEMMA FreshHolds == Spec => []FreshInv
  <1>1. Init => FreshInv
    <2> SUFFICES ASSUME Init PROVE FreshInv
      OBVIOUS
    <2>1. DOMAIN blocks = {} /\ pc = "init" /\ err = FALSE
      BY DEF Init
    <2> QED BY <2>1 DEF FreshInv, Placed, Ahead, Stuck
  <1> QED BY <1>1, StepFresh, TypeHolds, PTL DEF Spec

\* No id is used twice: what is published is never rewritten, across kills,
\* restarts, sweeps and padding, unless a restart found its newest directory
\* empty or a write failed.
THEOREM IdsFresh == Spec => []FreshId
  <1>1. FreshInv /\ TypeInv => FreshId
    <2> SUFFICES ASSUME FreshInv, TypeInv, pc = "rename", ~blind, ~err, cur \in DOMAIN blocks
                 PROVE  FALSE
      BY DEF FreshId
    <2>1. cur < cur
      BY DEF FreshInv, Ahead
    <2>2. cur \in Nat
      BY DEF TypeInv, TypeOK
    <2> QED BY <2>1, <2>2
  <1> QED BY <1>1, FreshHolds, TypeHolds, PTL

----------------------------------------------------------------------------
(* The timeline has no holes.                                              *)

Quiet == ~blind /\ ~razed /\ fails = 0

\* Without a failing operation and while the sweeps spare its directory, the
\* writer meets no error.
Sane == /\ ~razed /\ fails = 0 => ~err
        /\ ~razed /\ dq # <<>> => dq[Len(dq)] \in dirs

Aligned == cur % Scale = 0 /\ \A id \in DOMAIN blocks : id % Scale = 0

\* Between two blocks, and from every block up to cur, there is a block for
\* every length of a block, and every directory.
Filled(i, j)  == \A k \in i..j : k % Scale = 0 => k \in DOMAIN blocks \/ Expired(k)
DirRun(i, j)  == \A d \in DirOf(i)..DirOf(j) : d \in dirs
DirsUpTo(i)   == \A d \in DirOf(i)..(DirOf(cur) - 1) : d \in dirs

Between == Quiet => \A i, j \in DOMAIN blocks : Filled(i, j) /\ DirRun(i, j)
UpToCur == Quiet /\ pc # "init" => \A i \in DOMAIN blocks : Filled(i, cur - 1) /\ DirsUpTo(i)

WholeInv == Sane /\ Aligned /\ Between /\ UpToCur

LEMMA StepSane == TypeInv /\ QueueInv /\ Sane /\ [Next]_vars => Sane'
  <1> SUFFICES ASSUME TypeInv, QueueInv, Sane, [Next]_vars PROVE Sane'
    OBVIOUS
  <1> USE DEF reader, queue, flow, timeline, caches, error, disk, env, hist
  <1>1. fails \in Nat
    BY WriterAssumption DEF TypeInv, TypeOK
  <1>2. ASSUME UNCHANGED <<razed, fails, err, dirs>>,
               dq' = dq \/ dq' = <<>> \/ (dq # <<>> /\ dq'[Len(dq')] = dq[Len(dq)])
        PROVE  Sane'
    BY <1>2 DEF Sane
  <1>3. ASSUME Reader \/ HandleReaderError \/ HandleUpdateHeader \/ HandleWritePiece
               \/ Dispatch \/ Normal \/ Pad \/ WriteTmp \/ Tick \/ RemoveOld \/ Rename
               \/ Written \/ Retry \/ UNCHANGED vars
        PROVE  Sane'
    <2>1. UNCHANGED <<razed, fails, err, dirs, dq>>
      BY <1>3 DEF Reader, AsyncWritePiece, ReaderError, AsyncUpdateHeader,
         HandleReaderError, HandleUpdateHeader, HandleWritePiece, Dispatch, Normal, Pad,
         WriteTmp, Tick, RemoveOld, Rename, Written, Retry, vars
    <2> QED BY <1>2, <2>1
  <1>4. ASSUME OnClockAlarm PROVE Sane'
    <2>1. UNCHANGED <<razed, fails, err, dirs>> /\ dq' = SubSeq(dq, Front + 1, Len(dq))
      BY <1>4 DEF OnClockAlarm, Front
    <2>2. dq \in Seq(Nat)
      BY DEF TypeInv, TypeOK
    <2>3. PICK rest : rest = SubSeq(dq, Front + 1, Len(dq))
      OBVIOUS
    <2>4. rest # <<>> => dq # <<>> /\ rest[Len(rest)] = dq[Len(dq)]
      BY <2>2, <2>3, FrontFacts
    <2> QED BY <1>2, <2>1, <2>3, <2>4
  <1>5. ASSUME GetFilePathName PROVE Sane'
    <2>1. UNCHANGED <<razed, fails, err>>
      BY <1>5 DEF GetFilePathName
    <2>2. CASE NewDir
      <3>1. dq' = Append(dq, DirOf(cur)) /\ dirs' = dirs \cup {DirOf(cur)}
        BY <1>5, <2>2 DEF GetFilePathName
      <3>2. PICK d : d = DirOf(cur)
        OBVIOUS
      <3>3. dq \in Seq(Nat) /\ d \in Nat
        BY <3>2, DirOfNat DEF TypeInv, TypeOK
      <3>4. dq'[Len(dq')] = d
        BY <3>1, <3>2, <3>3
      <3> QED BY <2>1, <3>1, <3>2, <3>4 DEF Sane
    <2>3. CASE ~NewDir
      BY <1>2, <1>5, <2>1, <2>3 DEF GetFilePathName
    <2> QED BY <2>2, <2>3
  <1>6. ASSUME DirGone PROVE Sane'
    <2>1. /\ UNCHANGED <<razed, fails, dirs, dq>>
          /\ pc \in {"tmp", "rename"} /\ DirOf(cur) \notin dirs
      BY <1>6 DEF DirGone
    <2>2. razed
      BY <2>1 DEF Sane, QueueInv, LastDir, Tied
    <2> QED BY <2>1, <2>2 DEF Sane
  <1>7. ASSUME Fail PROVE Sane'
    <2>1. fails' = fails + 1 /\ UNCHANGED <<razed, dirs, dq>>
      BY <1>7 DEF Fail
    <2> QED BY <1>1, <2>1 DEF Sane
  <1>8. ASSUME Crash PROVE Sane'
    <2>1. err' = FALSE /\ dq' = <<>>
      BY <1>8 DEF Crash
    <2> QED BY <2>1 DEF Sane
  <1>9. ASSUME Scan PROVE Sane'
    <2>1. UNCHANGED <<razed, fails, err, dirs>> /\ dq' \in Sorted(dirs)
      BY <1>9 DEF Scan
    <2>2. PICK s \in Sorted(dirs) : dq' = s
      BY <2>1
    <2>3. s # <<>> => s[Len(s)] \in dirs
      BY SortedFacts DEF TypeInv, TypeOK
    <2> QED BY <2>1, <2>2, <2>3 DEF Sane
  <1>10. ASSUME NEW D, RemoveAll(D) PROVE Sane'
    <2>1. /\ UNCHANGED <<fails, err, dq>> /\ dirs' = dirs \ D
          /\ razed' = (razed \/ \E d \in D : d * DirScale > now \/ d \in Current)
      BY <1>10 DEF RemoveAll
    <2>2. ASSUME ~razed' PROVE ~razed /\ (dq # <<>> => dq[Len(dq)] \notin D)
      <3>1. ~razed /\ \A d \in D : d \notin Current
        BY <2>1, <2>2
      <3> QED BY <3>1 DEF Current
    <2> QED BY <2>1, <2>2 DEF Sane
  <1> QED BY <1>3, <1>4, <1>5, <1>6, <1>7, <1>8, <1>9, <1>10
       DEF Next, Writer, Sweep, SweepAtStart

LEMMA StepAligned == TypeInv /\ Aligned /\ [Next]_vars => Aligned'
  <1> SUFFICES ASSUME TypeInv, Aligned, [Next]_vars PROVE Aligned'
    OBVIOUS
  <1> USE DEF reader, queue, flow, timeline, caches, error, disk, env, hist
  <1>1. cur \in Nat /\ now \in Nat /\ DOMAIN blocks \subseteq Nat /\ Scale \in Nat \ {0}
    BY WriterAssumption DEF TypeInv, TypeOK
  <1>2. ASSUME DOMAIN blocks' \subseteq DOMAIN blocks \cup {cur}, cur' % Scale = 0
        PROVE  Aligned'
    BY <1>2 DEF Aligned
  <1>3. cur % Scale = 0 /\ (cur + Scale) % Scale = 0 /\ Align(now) % Scale = 0 /\ 0 % Scale = 0
    <2>1. cur % Scale = 0
      BY DEF Aligned
    <2>2. (cur + Scale) % Scale = 0
      BY <1>1, <2>1, NextAligned
    <2>3. Align(now) % Scale = 0
      BY <1>1, AlignFacts
    <2>4. 0 % Scale = 0
      BY <1>1
    <2> QED BY <2>1, <2>2, <2>3, <2>4
  <1>4. cur' \in {cur, cur + Scale, Align(now), 0} \/ Scan
    BY DEF Next, vars, Reader, Writer, Sweep, SweepAtStart, RemoveAll, AsyncWritePiece,
           ReaderError, AsyncUpdateHeader, HandleReaderError, HandleUpdateHeader,
           HandleWritePiece, Dispatch, Normal, Pad, GetFilePathName, WriteTmp, RemoveOld,
           Rename, Written, Retry, DirGone, Fail, Tick, OnClockAlarm, Crash
  <1>5. DOMAIN blocks' \subseteq DOMAIN blocks \cup {cur} \/ Scan
    BY DEF Next, vars, Reader, Writer, Sweep, SweepAtStart, RemoveAll, AsyncWritePiece,
           ReaderError, AsyncUpdateHeader, HandleReaderError, HandleUpdateHeader,
           HandleWritePiece, Dispatch, Normal, Pad, GetFilePathName, WriteTmp, RemoveOld,
           Rename, Written, Retry, DecreasePiece, DirGone, Fail, Tick, OnClockAlarm, Crash
  <1>6. ASSUME Scan PROVE Aligned'
    <2>1. PICK kept \in SUBSET DOMAIN blocks, gone \in SUBSET DOMAIN blocks :
             /\ DOMAIN blocks' = DOMAIN blocks \ gone
             /\ kept = {} => cur' = 0
             /\ kept # {} => \E top \in kept : cur' = Align(top + Scale)
      <3>1. TypeInv /\ Scan
        BY <1>6
      <3> QED BY ONLY <3>1, ScanFacts
    <2>2. \A top \in kept : Align(top + Scale) % Scale = 0
      BY <1>1, AlignFacts
    <2> QED BY <1>2, <1>3, <2>1, <2>2
  <1> QED BY <1>2, <1>3, <1>4, <1>5, <1>6

\* A sweep takes whole directories from the oldest end of every unbroken run of
\* them, and only such as are past the cache time.
Culled(D) ==
    /\ RemoveAll(D) /\ D \subseteq dirs
    /\ \A a \in dirs, b \in D : a <= b /\ (\A d \in a..b : d \in dirs) => a \in D
    /\ \A id \in Nat : DirOf(id) \in D => now - id > Cache

LEMMA SweepFacts ==
    ASSUME TypeInv, Sweep \/ SweepAtStart, ~razed'
    PROVE  \E D : Culled(D)
  <1>1. /\ dirs \subseteq Nat /\ now \in Nat /\ Cache \in Nat /\ DirScale \in Nat \ {0}
    BY WriterAssumption DEF TypeInv, TypeOK
  <1>2. ASSUME NEW a \in Nat, NEW b \in Nat, a <= b
        PROVE  /\ a * DirScale \in Nat /\ b * DirScale \in Nat /\ a * DirScale <= b * DirScale
    <2>1. PICK r \in Nat : b = a + r
      <3>1. b - a \in Nat /\ b = a + (b - a)
        BY <1>2
      <3> QED BY <3>1
    <2>2. b * DirScale = a * DirScale + r * DirScale
      BY <1>1, <2>1
    <2>3. a * DirScale \in Nat /\ r * DirScale \in Nat /\ b * DirScale \in Nat
      BY <1>1
    <2> QED BY <2>2, <2>3
  <1>3. ASSUME Sweep
        PROVE  \E D : Culled(D)
    <2> DEFINE D == {d \in dirs : d <= Top /\ Cardinality((d..Top) \ dirs) < Misses}
    <2>1. RemoveAll(D)
      BY <1>3 DEF Sweep
    <2> DEFINE q == (now - Cache) \div DirScale
    <2>2. q \in Int /\ DirScale * q <= now - Cache /\ DirScale * q \in Int
      <3>1. now - Cache \in Int
        BY <1>1
      <3>2. /\ q \in Int /\ (now - Cache) % DirScale \in 0..(DirScale - 1)
            /\ now - Cache = DirScale * q + ((now - Cache) % DirScale)
        BY <1>1, <3>1
      <3> HIDE DEF q
      <3> QED BY <1>1, <3>2
    <2>3. Top = q - 1
      BY DEF Top
    <2> HIDE DEF q
    <2>4. ASSUME NEW a \in dirs, NEW b \in D, a <= b, \A d \in a..b : d \in dirs
          PROVE  a \in D
      <3>1. /\ a \in Nat /\ b \in Nat /\ b <= Top /\ Cardinality((b..Top) \ dirs) < Misses
            /\ Top \in Int
        BY <1>1, <2>2, <2>3
      <3>2. (a..Top) \ dirs = (b..Top) \ dirs
        <4>1. \A x \in (a..Top) \ dirs : x \in b..Top
          BY <2>4, <3>1
        <4>2. \A x \in b..Top : x \in a..Top
          BY <2>4, <3>1
        <4> QED BY <4>1, <4>2
      <3>3. a <= Top
        BY <2>4, <3>1
      <3> QED BY <3>1, <3>2, <3>3
    <2>5. ASSUME NEW id \in Nat, DirOf(id) \in D PROVE now - id > Cache
      <3>1. PICK b \in Nat : b = DirOf(id) /\ b + 1 <= q
        <4>1. DirOf(id) \in Nat /\ DirOf(id) <= Top
          BY <1>1, <2>5
        <4> QED BY <2>2, <2>3, <4>1
      <3>2. id < b * DirScale + DirScale
        BY <3>1, DirOfBounds
      <3>3. PICK r \in Nat : q = b + 1 + r
        <4>1. q - (b + 1) \in Nat /\ q = b + 1 + (q - (b + 1))
          BY <2>2, <3>1
        <4> QED BY <4>1
      <3>4. DirScale * q = b * DirScale + DirScale + r * DirScale
        BY <1>1, <3>3
      <3>5. b * DirScale \in Nat /\ r * DirScale \in Nat
        BY <1>1
      <3> QED BY <1>1, <2>2, <3>2, <3>4, <3>5
    <2>6. D \subseteq dirs
      OBVIOUS
    <2> HIDE DEF D
    <2> QED BY <2>1, <2>4, <2>5, <2>6 DEF Culled
  <1>4. ASSUME SweepAtStart
        PROVE  \E D : Culled(D)
    <2> DEFINE D == {d \in dirs : LET age == now - d * DirScale
                                  IN age < 0 \/ age > Cache + DirScale}
    <2>1. RemoveAll(D)
      BY <1>4 DEF SweepAtStart
    <2>2. \A d \in D : ~(d * DirScale > now)
      BY <2>1 DEF RemoveAll
    <2>3. \A d \in D : /\ d \in Nat /\ d * DirScale \in Nat
                       /\ now - d * DirScale > Cache + DirScale
      <3> TAKE d \in D
      <3>1. d \in Nat /\ d * DirScale \in Nat
        BY <1>1, <1>2
      <3> QED BY <1>1, <2>2, <3>1
    <2>4. ASSUME NEW a \in dirs, NEW b \in D, a <= b PROVE a \in D
      <3>1. a \in Nat /\ b \in Nat /\ b * DirScale \in Nat /\ now - b * DirScale > Cache + DirScale
        BY <1>1, <2>3
      <3>2. a * DirScale \in Nat /\ a * DirScale <= b * DirScale
        BY <1>2, <2>4, <3>1
      <3>3. now - a * DirScale > Cache + DirScale
        BY <1>1, <3>1, <3>2
      <3> QED BY <3>3
    <2>5. ASSUME NEW id \in Nat, DirOf(id) \in D PROVE now - id > Cache
      <3>1. PICK b \in Nat : b = DirOf(id) /\ b * DirScale \in Nat
                             /\ now - b * DirScale > Cache + DirScale
        BY <2>3, <2>5
      <3>2. id < b * DirScale + DirScale
        BY <3>1, DirOfBounds
      <3> QED BY <1>1, <3>1, <3>2
    <2>6. D \subseteq dirs
      OBVIOUS
    <2> HIDE DEF D
    <2> QED BY <2>1, <2>4, <2>5, <2>6 DEF Culled
  <1> QED BY <1>3, <1>4


\* What Quiet says of the past.
LEMMA StepQuiet == TypeInv /\ [Next]_vars => (Quiet' => Quiet)
  <1> SUFFICES ASSUME TypeInv, [Next]_vars, Quiet' PROVE Quiet
    OBVIOUS
  <1> USE DEF reader, queue, flow, timeline, caches, error, disk, env, hist
  <1>1. fails \in Nat
    BY WriterAssumption DEF TypeInv, TypeOK
  <1>2. fails' = fails \/ fails' = fails + 1
    BY DEF Next, vars, Reader, Writer, Sweep, SweepAtStart, RemoveAll, AsyncWritePiece,
           ReaderError, AsyncUpdateHeader, HandleReaderError, HandleUpdateHeader,
           HandleWritePiece, Dispatch, Normal, Pad, GetFilePathName, WriteTmp, RemoveOld,
           Rename, Written, Retry, DirGone, Fail, Tick, OnClockAlarm, Crash, Scan
  <1>3. ASSUME NEW D, RemoveAll(D) PROVE (razed => razed') /\ blind' = blind
    BY <1>3 DEF RemoveAll
  <1>4. ASSUME Scan PROVE (blind => blind') /\ razed' = razed
    BY <1>4 DEF Scan
  <1>5. ASSUME Reader \/ HandleReaderError \/ HandleUpdateHeader \/ HandleWritePiece
               \/ Dispatch \/ Normal \/ Pad \/ GetFilePathName \/ WriteTmp \/ RemoveOld
               \/ Rename \/ Written \/ Retry \/ DirGone \/ OnClockAlarm \/ Fail \/ Tick
               \/ Crash \/ UNCHANGED vars
        PROVE  UNCHANGED <<razed, blind>>
    BY <1>5 DEF vars, Reader, AsyncWritePiece, ReaderError, AsyncUpdateHeader,
       HandleReaderError, HandleUpdateHeader, HandleWritePiece, Dispatch, Normal, Pad,
       GetFilePathName, WriteTmp, RemoveOld, Rename, Written, Retry, DirGone, Fail, Tick,
       OnClockAlarm, Crash
  <1>6. (razed => razed') /\ (blind => blind')
    BY <1>3, <1>4, <1>5 DEF Next, Writer, Sweep, SweepAtStart
  <1> QED BY <1>1, <1>2, <1>6 DEF Quiet

\* While the worker runs, what lies between two blocks lies between the older of
\* them and cur.
LEMMA RunsBetween == TypeInv /\ FreshInv /\ UpToCur /\ pc # "init" => Between
  <1> SUFFICES ASSUME TypeInv, FreshInv, UpToCur, pc # "init",
                      Quiet, NEW i \in DOMAIN blocks, NEW j \in DOMAIN blocks
               PROVE  Filled(i, j) /\ DirRun(i, j)
    BY DEF Between
  <1>1. cur \in Nat /\ i \in Nat /\ j \in Nat
    BY DEF TypeInv, TypeOK
  <1>2. /\ \A k \in i..(cur - 1) : k % Scale = 0 => k \in DOMAIN blocks \/ Expired(k)
        /\ \A d \in DirOf(i)..(DirOf(cur) - 1) : d \in dirs
    BY DEF UpToCur, Filled, DirsUpTo
  <1>3. j <= cur /\ DirOf(j) \in dirs
    BY <1>1 DEF FreshInv, Placed, Ahead, Quiet
  <1>4. Filled(i, j)
    <2> SUFFICES ASSUME NEW k \in i..j, k % Scale = 0 PROVE k \in DOMAIN blocks \/ Expired(k)
      BY DEF Filled
    <2>1. CASE k = j
      BY <2>1
    <2>2. CASE k # j
      <3>1. k \in i..(cur - 1)
        BY <1>1, <1>3, <2>2
      <3> QED BY <1>2, <3>1
    <2> QED BY <2>1, <2>2
  <1>5. DirRun(i, j)
    <2> SUFFICES ASSUME NEW d \in DirOf(i)..DirOf(j) PROVE d \in dirs
      BY DEF DirRun
    <2>1. DirOf(i) \in Nat /\ DirOf(j) \in Nat /\ DirOf(cur) \in Nat /\ DirOf(j) <= DirOf(cur)
      BY <1>1, <1>3, DirOfNat, DirOfMonotonic
    <2>2. CASE d = DirOf(j)
      BY <1>3, <2>2
    <2>3. CASE d # DirOf(j)
      <3>1. d \in DirOf(i)..(DirOf(cur) - 1)
        BY <2>1, <2>3
      <3> QED BY <1>2, <3>1
    <2> QED BY <2>2, <2>3
  <1> QED BY <1>4, <1>5

\* The timeline stays whole when only blocks at the end of their life go.
LEMMA StaysWhole ==
    ASSUME TypeInv, Between, UpToCur, now' \in Nat, now <= now', dirs \subseteq dirs',
           DOMAIN blocks' \subseteq DOMAIN blocks,
           \A k \in DOMAIN blocks : k \in DOMAIN blocks' \/ Expired(k)',
           Quiet' => Quiet
    PROVE  /\ Between'
           /\ cur' = cur /\ (pc' # "init" => pc # "init") => UpToCur'
  <1>1. /\ now \in Nat /\ Scale \in Nat /\ Life \in Nat /\ cur \in Nat
        /\ DOMAIN blocks \subseteq Nat
    BY WriterAssumption DEF TypeInv, TypeOK, Life
  <1>2. \A k \in Int : Expired(k) => Expired(k)'
    BY <1>1 DEF Expired, Life
  <1>3. ASSUME NEW i \in Nat, NEW j \in Int, Filled(i, j) PROVE Filled(i, j)'
    BY <1>2, <1>3 DEF Filled
  <1>4. ASSUME NEW i, NEW j, DirRun(i, j) PROVE DirRun(i, j)'
    BY <1>4 DEF DirRun, DirOf
  <1>5. Between'
    <2> SUFFICES ASSUME Quiet', NEW i \in DOMAIN blocks', NEW j \in DOMAIN blocks'
                 PROVE  Filled(i, j)' /\ DirRun(i, j)'
      BY DEF Between
    <2>1. Filled(i, j) /\ DirRun(i, j) /\ i \in Nat /\ j \in Nat
      BY <1>1 DEF Between
    <2> QED BY <1>3, <1>4, <2>1
  <1>6. ASSUME cur' = cur, pc' # "init" => pc # "init" PROVE UpToCur'
    <2>1. PICK c : c = cur
      OBVIOUS
    <2> SUFFICES ASSUME Quiet', pc' # "init", NEW i \in DOMAIN blocks'
                 PROVE  Filled(i, c - 1)' /\ DirsUpTo(i)'
      BY <1>6, <2>1 DEF UpToCur
    <2>2. Filled(i, c - 1) /\ DirsUpTo(i) /\ i \in Nat /\ c - 1 \in Int
      BY <1>1, <1>6, <2>1 DEF UpToCur
    <2>3. Filled(i, c - 1)'
      BY <1>3, <2>2
    <2>4. DirsUpTo(i)'
      BY <1>6, <2>2 DEF DirsUpTo, DirOf
    <2> QED BY <2>3, <2>4
  <1> QED BY <1>5, <1>6


\* The timeline stays whole: a block is at most one directory after the one
\* before it, which needs blocks that are no longer than a directory.
LEMMA StepWhole ==
    ASSUME Scale <= DirScale, TypeInv, QueueInv, FreshInv, WholeInv, [Next]_vars,
           TypeInv', FreshInv'
    PROVE  Between' /\ UpToCur'
  <1> USE DEF reader, queue, flow, timeline, caches, error, disk, env, hist
  <1>1. /\ cur \in Nat /\ now \in Nat /\ DOMAIN blocks \subseteq Nat /\ dirs \subseteq Nat
        /\ Scale \in Nat \ {0} /\ DirScale \in Nat \ {0} /\ now' \in Nat
    BY WriterAssumption DEF TypeInv, TypeOK
  <1>2. Sane /\ Aligned /\ Between /\ UpToCur
    BY DEF WholeInv
  <1>3. Quiet' => Quiet
    BY StepQuiet
  <1>4. ASSUME pc' # "init", UpToCur' PROVE Between' /\ UpToCur'
    <2>1. (TypeInv /\ FreshInv /\ UpToCur /\ pc # "init" => Between)'
      BY RunsBetween, PTL
    <2> QED BY <1>4, <2>1
  <1>5. ASSUME UNCHANGED <<cur, blocks>>, dirs \subseteq dirs', now <= now',
               pc' # "init" => pc # "init"
        PROVE  Between' /\ UpToCur'
    <2>1. \A k \in DOMAIN blocks : k \in DOMAIN blocks' \/ Expired(k)'
      BY <1>5
    <2>2. DOMAIN blocks' \subseteq DOMAIN blocks
      BY <1>5
    <2> QED BY <1>1, <1>2, <1>3, <1>5, <2>1, <2>2, StaysWhole
  <1>6. ASSUME Reader \/ HandleReaderError \/ HandleUpdateHeader \/ HandleWritePiece
               \/ Normal \/ Pad \/ GetFilePathName \/ WriteTmp \/ DirGone \/ Fail \/ Tick
               \/ UNCHANGED vars
        PROVE  Between' /\ UpToCur'
    <2>1. /\ UNCHANGED <<cur, blocks>> /\ dirs \subseteq dirs'
          /\ (now' = now \/ now' = now + 1) /\ (pc' # "init" => pc # "init")
      BY <1>6 DEF Reader, AsyncWritePiece, ReaderError, AsyncUpdateHeader,
         HandleReaderError, HandleUpdateHeader, HandleWritePiece, Normal, Pad,
         GetFilePathName, WriteTmp, DirGone, Fail, Tick, vars
    <2>2. now <= now'
      BY <1>1, <2>1
    <2> QED BY <1>5, <2>1, <2>2
  <1>7. ASSUME Dispatch PROVE Between' /\ UpToCur'
    <2>1. /\ UNCHANGED <<now, dirs, blocks, blind>> /\ pc = "dec" /\ pc' # "init"
          /\ cur' = cur \/ cur = 0
      BY <1>7 DEF Dispatch
    <2>2. CASE cur' = cur
      BY <1>1, <1>5, <2>1, <2>2
    <2>3. CASE cur = 0
      <3>1. ASSUME Quiet', NEW i \in DOMAIN blocks' PROVE FALSE
        <4>1. i \in DOMAIN blocks /\ ~blind /\ ~err
          BY <1>2, <1>3, <2>1, <3>1 DEF Quiet, Sane
        <4>2. i < 0 /\ i \in Nat
          BY <1>1, <2>1, <2>3, <4>1 DEF FreshInv, Ahead
        <4> QED BY <4>2
      <3>2. UpToCur'
        BY <3>1 DEF UpToCur
      <3> QED BY <1>4, <2>1, <3>2
    <2> QED BY <2>1, <2>2, <2>3
  <1>8. ASSUME RemoveOld \/ Retry PROVE Between' /\ UpToCur'
    <2>1. err \/ (pc = "rename" /\ cur \in DOMAIN blocks)
      BY <1>8 DEF RemoveOld, Retry
    <2>2. ASSUME Quiet PROVE FALSE
      <3>1. ~err /\ ~blind
        BY <1>2, <2>2 DEF Sane, Quiet
      <3>2. cur < cur
        BY <2>1, <3>1 DEF FreshInv, Ahead
      <3> QED BY <1>1, <3>2
    <2> QED BY <1>3, <2>2 DEF Between, UpToCur
  <1>9. ASSUME Rename PROVE Between' /\ UpToCur'
    <2>1. /\ UNCHANGED <<cur, now, dirs>> /\ pc = "rename" /\ pc' = "done"
          /\ DOMAIN blocks' = DOMAIN blocks \cup {cur}
      BY <1>9 DEF Rename
    <2>2. ASSUME Quiet', NEW i \in DOMAIN blocks'
          PROVE  Filled(i, cur - 1)' /\ DirsUpTo(i)'
      <3>1. CASE i = cur
        <4>1. i..(cur - 1) = {} /\ DirOf(i)..(DirOf(cur) - 1) = {}
          BY <1>1, <3>1, DirOfNat
        <4> QED BY <2>1, <4>1 DEF Filled, DirsUpTo, DirOf
      <3>2. CASE i \in DOMAIN blocks
        <4>1. Filled(i, cur - 1) /\ DirsUpTo(i)
          BY <1>2, <1>3, <2>1, <2>2, <3>2 DEF UpToCur
        <4> QED BY <2>1, <4>1 DEF Filled, DirsUpTo, DirOf, Expired, Life
      <3> QED BY <2>1, <2>2, <3>1, <3>2
    <2>3. UpToCur'
      BY <2>2 DEF UpToCur
    <2> QED BY <1>4, <2>1, <2>3
  <1>10. ASSUME Written PROVE Between' /\ UpToCur'
    <2>1. /\ UNCHANGED <<now, dirs, blocks, razed>> /\ pc = "done" /\ ~err
          /\ pc' \in {"pad", "idle"} /\ cur' = cur + Scale
      BY <1>10 DEF Written
    <2>2. ASSUME Quiet', NEW i \in DOMAIN blocks
          PROVE  Filled(i, cur - 1)' /\ DirsUpTo(i)'
      <3>1. /\ Filled(i, cur - 1) /\ DirsUpTo(i) /\ i \in Nat
        BY <1>1, <1>2, <1>3, <2>1, <2>2 DEF UpToCur
      <3>2. cur \in DOMAIN blocks /\ DirOf(cur) \in dirs
        BY <1>3, <2>1, <2>2 DEF QueueInv, JustDone, FreshInv, Placed, Quiet
      <3>3. PICK e \in Nat : e = cur + Scale
        BY <1>1
      <3>4. cur % Scale = 0
        BY <1>2 DEF Aligned
      <3>5. ASSUME NEW k \in i..(e - 1), k % Scale = 0
            PROVE  k \in DOMAIN blocks \/ Expired(k)
        <4>1. k \in Nat /\ k < cur + Scale
          BY <1>1, <3>1, <3>3
        <4>2. k <= cur
          BY <1>1, <3>4, <3>5, <4>1, NextMultiple
        <4>3. CASE k = cur
          BY <3>2, <4>3
        <4>4. CASE k # cur
          <5>1. k \in i..(cur - 1)
            BY <1>1, <3>1, <4>1, <4>2, <4>4
          <5> QED BY <3>1, <3>5, <5>1 DEF Filled
        <4> QED BY <4>3, <4>4
      <3>6. ASSUME NEW d \in DirOf(i)..(DirOf(e) - 1) PROVE d \in dirs
        <4>1. DirOf(i) \in Nat /\ DirOf(cur) \in Nat /\ DirOf(e) \in Nat
          BY <1>1, <3>1, DirOfNat
        <4>2. DirOf(e) <= DirOf(cur) + 1
          BY <1>1, <3>3, DivisionStep DEF DirOf
        <4>3. CASE d = DirOf(cur)
          BY <3>2, <4>3
        <4>4. CASE d # DirOf(cur)
          <5>1. d \in DirOf(i)..(DirOf(cur) - 1)
            BY <4>1, <4>2, <4>4
          <5> QED BY <3>1, <5>1 DEF DirsUpTo
        <4> QED BY <4>3, <4>4
      <3>7. cur' = e
        BY <2>1, <3>3
      <3> QED BY <2>1, <3>5, <3>6, <3>7 DEF Filled, DirsUpTo, DirOf, Expired, Life
    <2>3. UpToCur'
      BY <2>1, <2>2 DEF UpToCur
    <2> QED BY <1>4, <2>1, <2>3
  <1>11. ASSUME OnClockAlarm PROVE Between' /\ UpToCur'
    <2>1. /\ UNCHANGED <<cur, dirs, now>> /\ pc' # "init" /\ pc = "idle"
          /\ pq' = {id \in pq : ~Expired(id)}
          /\ DOMAIN blocks' = DOMAIN blocks \ (pq \ pq')
      BY <1>11 DEF OnClockAlarm
    <2>2. \A k \in DOMAIN blocks : k \in DOMAIN blocks' \/ Expired(k)
      BY <2>1
    <2>3. \A k \in DOMAIN blocks : k \in DOMAIN blocks' \/ Expired(k)'
      BY <2>1, <2>2 DEF Expired, Life
    <2>4. now <= now' /\ dirs \subseteq dirs' /\ DOMAIN blocks' \subseteq DOMAIN blocks
      BY <1>1, <2>1
    <2> QED BY <1>1, <1>2, <1>3, <2>1, <2>3, <2>4, StaysWhole
  <1>12. ASSUME Crash PROVE Between' /\ UpToCur'
    <2>1. UNCHANGED <<now, dirs, blocks>> /\ pc' = "init"
      BY <1>12 DEF Crash
    <2>2. now <= now' /\ dirs \subseteq dirs' /\ DOMAIN blocks' \subseteq DOMAIN blocks
          /\ \A k \in DOMAIN blocks : k \in DOMAIN blocks' \/ Expired(k)'
      BY <1>1, <2>1
    <2>3. Between'
      BY <1>1, <1>2, <1>3, <2>2, StaysWhole
    <2> QED BY <2>1, <2>3 DEF UpToCur
  <1>13. ASSUME Scan PROVE Between' /\ UpToCur'
    <2>1. PICK kept \in SUBSET DOMAIN blocks, gone \in SUBSET DOMAIN blocks :
             /\ DOMAIN blocks' = DOMAIN blocks \ gone
             /\ \A id \in gone : Expired(id)
             /\ kept = {} => cur' = 0 /\ (~blind' => DOMAIN blocks = {})
             /\ kept # {} => \E top \in kept : cur' = Align(top + Scale)
      <3>1. TypeInv /\ Scan
        BY <1>13
      <3> QED BY ONLY <3>1, ScanFacts
    <2>2. UNCHANGED <<dirs, now>> /\ pc' # "init"
      BY <1>13 DEF Scan
    <2>3. ASSUME Quiet', NEW i \in DOMAIN blocks'
          PROVE  Filled(i, cur - 1)' /\ DirsUpTo(i)'
      <3>1. PICK top \in kept : cur' = Align(top + Scale)
        BY <2>1, <2>3 DEF Quiet
      <3>2. /\ top \in DOMAIN blocks /\ i \in DOMAIN blocks /\ top \in Nat /\ i \in Nat
            /\ top % Scale = 0 /\ i % Scale = 0
        BY <1>1, <1>2, <2>1, <2>3 DEF Aligned
      <3>3. PICK e \in Nat : e = top + Scale
        BY <1>1, <3>2
      <3>4. cur' = e
        BY <3>1, <3>2, <3>3, NextAligned, AlignFacts
      <3>5. Filled(i, top) /\ DirRun(i, top)
        BY <1>2, <1>3, <2>3, <3>2 DEF Between
      <3>6. ASSUME NEW k \in i..(e - 1), k % Scale = 0
            PROVE  k \in DOMAIN blocks' \/ Expired(k)
        <4>1. k \in Nat /\ k < top + Scale
          BY <1>1, <3>2, <3>3
        <4>2. k <= top
          BY <3>2, <3>6, <4>1, NextMultiple
        <4>3. k \in i..top
          BY <3>2, <4>1, <4>2
        <4> QED BY <2>1, <3>5, <3>6, <4>3 DEF Filled
      <3>7. ASSUME NEW d \in DirOf(i)..(DirOf(e) - 1) PROVE d \in dirs
        <4>1. DirOf(i) \in Nat /\ DirOf(top) \in Nat /\ DirOf(e) \in Nat
          BY <3>2, DirOfNat
        <4>2. DirOf(e) <= DirOf(top) + 1
          BY <1>1, <3>2, <3>3, DivisionStep DEF DirOf
        <4>3. d \in DirOf(i)..DirOf(top)
          BY <4>1, <4>2
        <4> QED BY <3>5, <4>3 DEF DirRun
      <3> QED BY <2>2, <3>4, <3>6, <3>7 DEF Filled, DirsUpTo, DirOf, Expired, Life
    <2>4. UpToCur'
      BY <2>3 DEF UpToCur
    <2> QED BY <1>4, <2>2, <2>4
  <1>14. ASSUME Sweep \/ SweepAtStart PROVE Between' /\ UpToCur'
    <2> SUFFICES ASSUME Quiet' PROVE Between' /\ UpToCur'
      BY DEF Between, UpToCur
    <2>1. ~razed' /\ Quiet
      BY <1>3 DEF Quiet
    <2>2. PICK D : Culled(D)
      BY <1>14, <2>1, SweepFacts
    <2>3. /\ UNCHANGED <<now, cur, pc>> /\ dirs' = dirs \ D
          /\ DOMAIN blocks' = {id \in DOMAIN blocks : DirOf(id) \notin D}
      BY <2>2 DEF Culled, RemoveAll
    <2>4. ASSUME NEW i \in DOMAIN blocks', NEW b \in Nat, \A d \in DirOf(i)..b : d \in dirs
          PROVE  \A d \in DirOf(i)..b : d \notin D
      <3> SUFFICES ASSUME NEW d \in DirOf(i)..b, d \in D PROVE FALSE
        OBVIOUS
      <3>1. i \in DOMAIN blocks /\ DirOf(i) \notin D /\ DirOf(i) \in dirs /\ DirOf(i) \in Nat
        BY <1>1, <2>3, <2>4 DEF FreshInv, Placed
      <3>2. DirOf(i) <= d /\ \A x \in DirOf(i)..d : x \in dirs
        BY <2>4, <3>1
      <3> QED BY <2>2, <3>1, <3>2 DEF Culled
    <2>5. ASSUME NEW i \in DOMAIN blocks', NEW j \in Nat, Filled(i, j)
          PROVE  Filled(i, j)'
      <3>1. i \in DOMAIN blocks /\ i \in Nat
        BY <1>1, <2>3, <2>5
      <3>2. ASSUME NEW k \in i..j, k % Scale = 0 PROVE k \in DOMAIN blocks' \/ Expired(k)
        <4>1. CASE k \in DOMAIN blocks
          <5>1. DirRun(i, k)
            BY <1>2, <2>1, <3>1, <4>1 DEF Between
          <5>2. DirOf(k) \in Nat /\ DirOf(i) \in Nat /\ DirOf(i) <= DirOf(k)
            BY <3>1, DirOfNat, DirOfMonotonic
          <5>3. DirOf(k) \notin D
            BY <2>4, <5>1, <5>2 DEF DirRun
          <5> QED BY <2>3, <4>1, <5>3
        <4> QED BY <2>5, <3>2, <4>1 DEF Filled
      <3> QED BY <2>3, <3>2 DEF Filled, Expired, Life
    <2>6. Between'
      <3> SUFFICES ASSUME NEW i \in DOMAIN blocks', NEW j \in DOMAIN blocks'
                   PROVE  Filled(i, j)' /\ DirRun(i, j)'
        BY DEF Between
      <3>1. i \in DOMAIN blocks /\ j \in DOMAIN blocks /\ j \in Nat /\ DirOf(j) \in Nat
        BY <1>1, <2>3, DirOfNat
      <3>2. Filled(i, j) /\ DirRun(i, j)
        BY <1>2, <2>1, <3>1 DEF Between
      <3>3. \A d \in DirOf(i)..DirOf(j) : d \in dirs \ D
        BY <2>4, <3>1, <3>2 DEF DirRun
      <3>4. DirRun(i, j)'
        BY <2>3, <3>3 DEF DirRun, DirOf
      <3> QED BY <2>5, <3>1, <3>2, <3>4
    <2>7. ASSUME pc # "init", NEW i \in DOMAIN blocks'
          PROVE  Filled(i, cur - 1)' /\ DirsUpTo(i)'
      <3>1. i \in DOMAIN blocks
        BY <2>3, <2>7
      <3>2. Filled(i, cur - 1) /\ DirsUpTo(i)
        BY <1>2, <2>1, <2>7, <3>1 DEF UpToCur
      <3>3. i \in Nat /\ DirOf(i) \in Nat /\ DirOf(cur) \in Nat
        BY <1>1, <3>1, DirOfNat
      <3>4. ASSUME NEW d \in DirOf(i)..(DirOf(cur) - 1) PROVE d \in dirs \ D
        <4>1. d \in Nat /\ d \in DirOf(i)..d
          BY <3>3
        <4>2. \A x \in DirOf(i)..d : x \in dirs
          BY <3>2, <3>3 DEF DirsUpTo
        <4> QED BY <2>4, <4>1, <4>2
      <3>5. DirsUpTo(i)'
        BY <2>3, <3>4 DEF DirsUpTo, DirOf
      <3>6. Filled(i, cur - 1)'
        <4>1. CASE cur = 0
          <5>1. i..(cur - 1) = {}
            BY <3>3, <4>1
          <5> QED BY <2>3, <5>1 DEF Filled
        <4>2. CASE cur # 0
          <5>1. PICK c \in Nat : c = cur - 1
            BY <1>1, <4>2
          <5>2. Filled(i, c)'
            BY <2>5, <3>2, <5>1
          <5> QED BY <2>3, <5>1, <5>2 DEF Filled
        <4> QED BY <4>1, <4>2
      <3> QED BY <3>5, <3>6
    <2>8. UpToCur'
      BY <2>3, <2>7 DEF UpToCur
    <2> QED BY <2>6, <2>8
  <1> QED BY <1>6, <1>7, <1>8, <1>9, <1>10, <1>11, <1>12, <1>13, <1>14 DEF Next, Writer


LEMMA WholeHolds ==
    ASSUME Scale <= DirScale
    PROVE  Spec => []WholeInv
  <1>1. Init => WholeInv
    <2> SUFFICES ASSUME Init PROVE WholeInv
      OBVIOUS
    <2>1. DOMAIN blocks = {} /\ pc = "init" /\ err = FALSE /\ dq = <<>> /\ cur = 0
      BY DEF Init
    <2>2. 0 % Scale = 0
      BY WriterAssumption
    <2> QED BY <2>1, <2>2 DEF WholeInv, Sane, Aligned, Between, UpToCur
  <1>2. /\ TypeInv /\ QueueInv /\ FreshInv /\ WholeInv /\ [Next]_vars /\ TypeInv' /\ FreshInv'
        => WholeInv'
    BY StepSane, StepAligned, StepWhole DEF WholeInv
  <1> QED BY <1>1, <1>2, TypeHolds, QueueHolds, FreshHolds, PTL DEF Spec

\* The blocks on disk are one unbroken timeline but for those at the end of their
\* life: what the worker skips, pads, resumes and expires, what is lost with a
\* kill and what the cutter processor removes never leaves a hole between two
\* blocks, if blocks are no longer than directories (5 s and 1000 s), no file
\* operation failed, no restart found its newest directory empty and no sweep
\* took the directory being written.
THEOREM TimelineWhole ==
    ASSUME Scale <= DirScale
    PROVE  Spec => []NoHoles
  <1>1. TypeInv /\ WholeInv => NoHoles
    <2> SUFFICES ASSUME TypeInv, WholeInv, ~blind, ~razed, fails = 0,
                        NEW i \in DOMAIN blocks, NEW j \in DOMAIN blocks
                 PROVE  /\ i % Scale = 0
                        /\ \A k \in i..j : k % Scale = 0 => k \in DOMAIN blocks \/ Expired(k)
      BY DEF NoHoles, NoGap
    <2>1. i % Scale = 0
      BY DEF WholeInv, Aligned
    <2>2. Filled(i, j)
      BY DEF WholeInv, Between, Quiet
    <2> QED BY <2>1, <2>2 DEF Filled
  <1> QED BY <1>1, TypeHolds, WholeHolds, PTL

----------------------------------------------------------------------------
(* Blocks are removed for their age only.                                  *)

\* The body of NoEarlyRemoval.
AgedOnly ==
    ~blind /\ ~razed' /\ fails = 0 =>
      \A id \in DOMAIN blocks : id \notin DOMAIN blocks' =>
          now - id > IF dirs' # dirs THEN Cache ELSE Life

LEMMA StepAged == TypeInv /\ FreshInv /\ Sane /\ [Next]_vars => AgedOnly
  <1> SUFFICES ASSUME TypeInv, FreshInv, Sane, [Next]_vars, ~blind, ~razed', fails = 0,
                      NEW id \in DOMAIN blocks, id \notin DOMAIN blocks'
               PROVE  now - id > IF dirs' # dirs THEN Cache ELSE Life
    BY DEF AgedOnly
  <1> USE DEF reader, queue, flow, timeline, caches, error, disk, env, hist
  <1>1. /\ cur \in Nat /\ now \in Nat /\ id \in Nat /\ Scale \in Nat /\ Life \in Nat
        /\ Cache \in Nat /\ DirScale \in Nat
    BY WriterAssumption DEF TypeInv, TypeOK, Life
  <1>2. Expired(id) => now - id > Life
    BY <1>1 DEF Expired
  <1>3. ASSUME Reader \/ HandleReaderError \/ HandleUpdateHeader \/ HandleWritePiece
               \/ Dispatch \/ Normal \/ Pad \/ GetFilePathName \/ WriteTmp \/ Rename
               \/ Written \/ DirGone \/ Fail \/ Tick \/ Crash \/ UNCHANGED vars
        PROVE  FALSE
    <2>1. blocks' = blocks \/ DOMAIN blocks' = DOMAIN blocks \cup {cur}
      BY <1>3 DEF Reader, AsyncWritePiece, ReaderError, AsyncUpdateHeader,
         HandleReaderError, HandleUpdateHeader, HandleWritePiece, Dispatch, Normal, Pad,
         GetFilePathName, WriteTmp, Rename, Written, DirGone, Fail, Tick, Crash, vars
    <2> QED BY <2>1
  <1>4. ASSUME RemoveOld \/ Retry PROVE FALSE
    <2>1. (err \/ (pc = "rename" /\ cur \in DOMAIN blocks)) /\ razed' = razed
      BY <1>4 DEF RemoveOld, Retry
    <2>2. ~err
      BY <2>1 DEF Sane
    <2>3. cur < cur
      BY <2>1, <2>2 DEF FreshInv, Ahead
    <2> QED BY <1>1, <2>3
  <1>5. ASSUME OnClockAlarm PROVE Expired(id) /\ dirs' = dirs
    <2>1. /\ dirs' = dirs /\ pq' = {k \in pq : ~Expired(k)}
          /\ DOMAIN blocks' = DOMAIN blocks \ (pq \ pq')
      BY <1>5 DEF OnClockAlarm
    <2> QED BY <2>1
  <1>6. ASSUME Scan PROVE Expired(id) /\ dirs' = dirs
    <2>1. PICK gone \in SUBSET DOMAIN blocks :
             DOMAIN blocks' = DOMAIN blocks \ gone /\ \A k \in gone : Expired(k)
      <3>1. TypeInv /\ Scan
        BY <1>6
      <3> QED BY ONLY <3>1, ScanFacts
    <2> QED BY <1>6, <2>1 DEF Scan
  <1>7. ASSUME Sweep \/ SweepAtStart PROVE now - id > Cache /\ dirs' # dirs
    <2>1. PICK D : Culled(D)
      BY <1>7, SweepFacts
    <2>2. /\ dirs' = dirs \ D /\ D # {} /\ D \subseteq dirs
          /\ DOMAIN blocks' = {k \in DOMAIN blocks : DirOf(k) \notin D}
      BY <2>1 DEF Culled, RemoveAll
    <2>3. now - id > Cache
      BY <1>1, <2>1, <2>2 DEF Culled
    <2> QED BY <2>2, <2>3
  <1> QED BY <1>2, <1>3, <1>4, <1>5, <1>6, <1>7 DEF Next, Writer

\* No block is removed before its time: the worker waits for the life span of
\* the block, the cutter processor for the cache time, and blocks are made room
\* of or rewritten only after a file operation failed.
THEOREM RemovedForAge == Spec => NoEarlyRemoval
  <1>1. Init => Sane
    BY DEF Init, Sane
  <1>2. Spec => []Sane
    BY <1>1, StepSane, TypeHolds, QueueHolds, PTL DEF Spec
  <1>3. TypeInv /\ FreshInv /\ Sane /\ [Next]_vars => [AgedOnly]_vars
    BY StepAged
  <1>4. Spec => [][AgedOnly]_vars
    BY <1>2, <1>3, TypeHolds, FreshHolds, PTL DEF Spec
  <1> QED BY <1>4 DEF NoEarlyRemoval, AgedOnly

============================================================================
