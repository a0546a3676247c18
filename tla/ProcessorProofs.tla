-------------------------- MODULE ProcessorProofs --------------------------
(***************************************************************************)
(* Proofs about the cutter processor, for any channel lists, any number of *)
(* slots and pids, and any number of edits, deaths and failed forks.       *)
(***************************************************************************)
EXTENDS Processor, FiniteSetTheorems, TLAPS

Names  == DOMAIN workers
Idx(c) == workers[c].idx
n      == Cardinality(Names)
Child  == [cmd : Cmd, st : Status]

----------------------------------------------------------------------------
(* The inductive invariant. *)

TablesOK ==
    /\ Names \subseteq Cmd /\ IsFiniteSet(Names)
    /\ \A c \in Names : workers[c] \in [idx : Slot, guid : Guid]
    /\ hProcesses \in [Slot -> Pid \cup {None}]

ChildrenOK == DOMAIN procs \subseteq Pid /\ \A p \in DOMAIN procs : procs[p] \in Child

\* The workers hold the slots from 0 up, each its own, and no other is in use.
\* One slot is always left: the copy loop of a close stops at it.
Slots ==
    /\ n <= MaxProcess - 1
    /\ \A c \in Names : Idx(c) < n
    /\ \A c, d \in Names : Idx(c) = Idx(d) => c = d
    /\ \A i \in 0..n-1 : \E c \in Names : Idx(c) = i
    /\ \A i \in Slot : hProcesses[i] # None <=> i < n

\* Each of these slots has the pid of a child forked for the worker, which was
\* not killed and not reaped.
Held ==
    \A c \in Names : /\ hProcesses[Idx(c)] \in DOMAIN procs
                     /\ procs[hProcesses[Idx(c)]].cmd = c
                     /\ procs[hProcesses[Idx(c)]].st # "term"

\* Each child that runs and was not killed is in the slot of its worker.
Owned ==
    \A p \in DOMAIN procs : procs[p].st = "up" =>
        \E c \in Names : procs[p].cmd = c /\ hProcesses[Idx(c)] = p

Agreed == TablesOK /\ ChildrenOK /\ Slots /\ Held /\ Owned

\* While the list is read, processCount counts the listed workers.
Kept    == Names \cap channel_list
Counted == processCount = IF pc \in {"line", "close"} THEN Cardinality(Kept) ELSE n

LoopOK ==
    /\ file \in Lists \cup {None}
    /\ pc \in {"open", "line", "close", "watch", "wait"}
    /\ rest \in Seq(Line)
    /\ channel_list \subseteq Cmd /\ channel_id_set \subseteq Guid
    /\ ticks \in 0..WaitTicks /\ (pc = "wait" => ticks > 0)
    /\ edits \in 0..MaxEdit /\ deaths \in 0..MaxDeath /\ faults \in 0..MaxFault

Inv == Agreed /\ Counted /\ LoopOK

LEMMA Sizes ==
    ASSUME TablesOK
    PROVE  n \in Nat /\ IsFiniteSet(Kept) /\ Cardinality(Kept) \in Nat /\ Cardinality(Kept) <= n
  <1>1. Kept \subseteq Names /\ IsFiniteSet(Names)
    BY DEF TablesOK, Kept
  <1> QED BY <1>1, FS_Subset, FS_CardinalityType DEF n

LEMMA SlotFacts ==
    ASSUME TablesOK, NEW c \in Names
    PROVE  Idx(c) \in Slot /\ Idx(c) \in Nat /\ c \in Cmd /\ Slot \subseteq Nat
  BY ProcessorAssumption DEF TablesOK, Idx, Slot

LEMMA InvType == Inv => TypeOK
  <1> SUFFICES ASSUME Inv PROVE TypeOK
    OBVIOUS
  <1>1. processCount \in 0..MaxProcess - 1
    BY Sizes, ProcessorAssumption DEF Inv, Agreed, Slots, Counted
  <1> QED BY <1>1 DEF Inv, Agreed, TablesOK, ChildrenOK, LoopOK, TypeOK, Names, Child

LEMMA InvSlots == Inv => SlotsAgree /\ Managed
  <1> SUFFICES ASSUME Inv PROVE SlotsAgree
    BY DEF Inv, Agreed, Owned, Managed, Names, Idx
  <1>1. TablesOK /\ Slots /\ Held /\ Counted
    BY DEF Inv, Agreed
  <1>2. n \in Nat
    BY <1>1, Sizes
  <1>3. {Idx(c) : c \in Names} = 0..n-1
    <2>1. \A c \in Names : Idx(c) \in 0..n-1
      BY <1>1, <1>2, SlotFacts DEF Slots
    <2> QED BY <1>1, <2>1 DEF Slots
  <1>4. {i \in Slot : hProcesses[i] # None} = 0..n-1
    <2>1. \A i \in 0..n-1 : i \in Slot
      BY <1>1, <1>2, ProcessorAssumption DEF Slots, Slot
    <2>2. \A i \in Slot : i \in Nat
      BY ProcessorAssumption DEF Slot
    <2>3. \A i : i \in Slot /\ hProcesses[i] # None <=> i \in 0..n-1
      <3> SUFFICES ASSUME NEW i PROVE i \in Slot /\ hProcesses[i] # None <=> i \in 0..n-1
        OBVIOUS
      <3>1. CASE i \in Slot
        BY <1>1, <1>2, <2>2, <3>1 DEF Slots
      <3> QED BY <2>1, <3>1
    <2> QED BY <2>3
  <1>5. pc \in {"watch", "wait", "open"} => processCount = n
    BY <1>1 DEF Counted
  <1>6. \A c \in DOMAIN workers :
          LET p == hProcesses[workers[c].idx]
          IN p \in DOMAIN procs /\ procs[p].cmd = c /\ procs[p].st # "term"
    BY <1>1 DEF Held, Names, Idx
  <1> QED BY <1>3, <1>4, <1>5, <1>6 DEF SlotsAgree, n, Names, Idx

LEMMA InvInit == Init => Inv
  <1> SUFFICES ASSUME Init PROVE Inv
    OBVIOUS
  <1>1. Names = {} /\ DOMAIN procs = {}
    BY DEF Init, Names
  <1>2. IsFiniteSet(Names) /\ n = 0
    BY <1>1, FS_EmptySet DEF n
  <1>3. TablesOK /\ ChildrenOK
    BY <1>1, <1>2 DEF Init, TablesOK, ChildrenOK
  <1>4. Slots
    BY <1>1, <1>2, ProcessorAssumption DEF Init, Slots, Slot
  <1>5. Held /\ Owned
    BY <1>1 DEF Held, Owned
  <1>6. Counted
    BY <1>2 DEF Init, Counted
  <1>7. LoopOK
    BY ProcessorAssumption DEF Init, LoopOK
  <1> QED BY <1>3, <1>4, <1>5, <1>6, <1>7 DEF Inv, Agreed

----------------------------------------------------------------------------
(* The children. *)

\* A child changes its state.
LEMMA StatusSet ==
    ASSUME ChildrenOK, NEW p \in DOMAIN procs, NEW s \in Status,
           procs' = [procs EXCEPT ![p].st = s]
    PROVE  /\ ChildrenOK' /\ DOMAIN procs' = DOMAIN procs
           /\ procs'[p].cmd = procs[p].cmd /\ procs'[p].st = s
           /\ \A q \in DOMAIN procs : q # p => procs'[q] = procs[q]
  <1>1. DOMAIN procs' = DOMAIN procs
    OBVIOUS
  <1>2. procs'[p] = [procs[p] EXCEPT !.st = s]
    OBVIOUS
  <1>3. \A q \in DOMAIN procs : q # p => procs'[q] = procs[q]
    OBVIOUS
  <1>4. procs[p] \in Child
    BY DEF ChildrenOK
  <1>5. procs'[p] \in Child /\ procs'[p].cmd = procs[p].cmd /\ procs'[p].st = s
    BY ONLY <1>2, <1>4, s \in Status DEF Child
  <1> QED BY <1>1, <1>3, <1>5 DEF ChildrenOK

LEMMA ReapedIs ==
    ASSUME NEW p
    PROVE  /\ DOMAIN Reaped(p) = DOMAIN procs \ {p}
           /\ \A q \in DOMAIN procs \ {p} : Reaped(p)[q] = procs[q]
  BY DEF Reaped

\* The tables are untouched, and so are the pids in them and their owners.
LEMMA TablesStay ==
    ASSUME Agreed, workers' = workers, hProcesses' = hProcesses, ChildrenOK',
           Held', Owned'
    PROVE  Agreed' /\ Names' = Names /\ n' = n
  <1>1. Names' = Names /\ n' = n /\ \A c \in Names : Idx(c)' = Idx(c)
    BY DEF Names, n, Idx
  <1>2. TablesOK'
    BY <1>1 DEF Agreed, TablesOK
  <1>3. Slots'
    BY <1>1 DEF Agreed, Slots
  <1> QED BY <1>1, <1>2, <1>3 DEF Agreed

\* Die, Terminate.
LEMMA ChildEnds ==
    ASSUME Agreed, NEW p \in DOMAIN procs, procs' = [procs EXCEPT ![p].st = "dead"],
           workers' = workers, hProcesses' = hProcesses
    PROVE  Agreed' /\ Names' = Names /\ n' = n
  <1>1. /\ ChildrenOK' /\ DOMAIN procs' = DOMAIN procs
        /\ procs'[p].cmd = procs[p].cmd /\ procs'[p].st = "dead"
        /\ \A q \in DOMAIN procs : q # p => procs'[q] = procs[q]
    BY StatusSet DEF Agreed, Status
  <1>2. Held'
    BY <1>1 DEF Agreed, Held, Names, Idx
  <1>3. Owned'
    BY <1>1 DEF Agreed, Owned, Names, Idx
  <1> QED BY <1>1, <1>2, <1>3, TablesStay

\* TableFull.
LEMMA ChildKilled ==
    ASSUME Agreed, NEW p \in Pid \ DOMAIN procs, NEW c \in Cmd,
           procs' = [Forked(procs, p, c) EXCEPT ![p].st = "term"],
           workers' = workers, hProcesses' = hProcesses
    PROVE  Agreed' /\ Names' = Names /\ n' = n
  <1>1. PICK g : g = Forked(procs, p, c)
    OBVIOUS
  <1>2. /\ DOMAIN g = DOMAIN procs \cup {p} /\ g[p] = [cmd |-> c, st |-> "up"]
        /\ \A q \in DOMAIN procs : g[q] = procs[q]
    BY <1>1 DEF Forked
  <1>3. procs' = [g EXCEPT ![p].st = "term"]
    BY <1>1
  <1>4. /\ DOMAIN procs' = DOMAIN procs \cup {p} /\ procs'[p] = [g[p] EXCEPT !.st = "term"]
        /\ \A q \in DOMAIN procs : procs'[q] = procs[q]
    BY <1>2, <1>3
  <1>5. procs'[p] \in Child /\ procs'[p].st = "term"
    BY <1>2, <1>4 DEF Child, Status
  <1>6. ChildrenOK'
    BY <1>4, <1>5 DEF Agreed, ChildrenOK
  <1>7. Held'
    BY <1>4 DEF Agreed, Held, Names, Idx
  <1>8. Owned'
    BY <1>4, <1>5 DEF Agreed, Owned, Names, Idx
  <1> QED BY <1>6, <1>7, <1>8, TablesStay

\* StartWorker.
FirstFree == CHOOSE s \in FreeSlots : \A t \in FreeSlots : s <= t
Added(c, i, g) == [d \in DOMAIN workers \cup {c} |->
                      IF d = c THEN [idx |-> i, guid |-> g] ELSE workers[d]]

LEMMA WorkerStarted ==
    ASSUME Agreed, NEW c \in Cmd, c \notin Names, NEW p \in Pid \ DOMAIN procs,
           NEW g \in Guid, NEW i, FreeSlots # {},
           i = FirstFree, procs' = Forked(procs, p, c),
           hProcesses' = [hProcesses EXCEPT ![i] = p], workers' = Added(c, i, g)
    PROVE  Agreed' /\ Names' = Names \cup {c} /\ n' = n + 1
  <1> USE ProcessorAssumption
  <1>0. TablesOK /\ ChildrenOK /\ Slots /\ Held /\ Owned /\ n \in Nat
    BY Sizes DEF Agreed
  <1>1. \A s : s \in FreeSlots <=> s \in n..MaxProcess - 2
    BY <1>0, NoneAssumption DEF FreeSlots, Slots, Slot
  <1>2. i = n /\ n <= MaxProcess - 2
    <2>1. n \in FreeSlots /\ n <= MaxProcess - 2
      BY <1>0, <1>1
    <2>2. \A t \in FreeSlots : n <= t
      BY <1>0, <1>1
    <2>3. i \in FreeSlots /\ \A t \in FreeSlots : i <= t
      BY <2>1, <2>2 DEF FirstFree
    <2> QED BY <1>0, <1>1, <2>1, <2>2, <2>3
  <1>3. n \in Slot
    BY <1>0, <1>2 DEF Slot
  <1>4. /\ Names' = Names \cup {c} /\ Idx(c)' = n
        /\ workers'[c] = [idx |-> n, guid |-> g]
        /\ \A d \in Names : workers'[d] = workers[d]
        /\ \A d \in Names : Idx(d)' = Idx(d)
    BY <1>2 DEF Names, Idx, Added
  <1>5. n' = n + 1 /\ IsFiniteSet(Names')
    BY <1>0, <1>4, FS_AddElement DEF TablesOK, n
  <1>6. \A j \in Slot : hProcesses'[j] = IF j = n THEN p ELSE hProcesses[j]
    BY <1>0, <1>2 DEF TablesOK
  <1>7. TablesOK'
    <2>1. \A d \in Names' : workers'[d] \in [idx : Slot, guid : Guid]
      BY <1>0, <1>3, <1>4 DEF TablesOK
    <2>2. hProcesses' \in [Slot -> Pid \cup {None}]
      BY <1>0 DEF TablesOK
    <2> QED BY <1>0, <1>4, <1>5, <2>1, <2>2 DEF TablesOK
  <1>8. \A d \in Names : Idx(d) < n /\ Idx(d) \in Slot /\ Idx(d) \in Nat
    BY <1>0, SlotFacts DEF Slots
  <1>9. Slots'
    <2>1. ASSUME NEW d \in Names' PROVE Idx(d)' < n'
      <3>1. CASE d = c
        BY <1>0, <1>4, <1>5, <3>1
      <3>2. CASE d \in Names
        BY <1>0, <1>4, <1>5, <1>8, <3>2
      <3> QED BY <1>4, <3>1, <3>2
    <2>2. ASSUME NEW d \in Names', NEW e \in Names', Idx(d)' = Idx(e)' PROVE d = e
      <3>1. CASE d \in Names /\ e \in Names
        BY <1>0, <1>4, <2>2, <3>1 DEF Slots
      <3>2. CASE d = c /\ e \in Names
        BY <1>0, <1>4, <1>8, <2>2, <3>2
      <3>3. CASE d \in Names /\ e = c
        BY <1>0, <1>4, <1>8, <2>2, <3>3
      <3> QED BY <1>4, <3>1, <3>2, <3>3
    <2>3. ASSUME NEW j \in 0..n'-1 PROVE \E d \in Names' : Idx(d)' = j
      <3>1. CASE j = n
        BY <1>4, <3>1
      <3>2. CASE j \in 0..n-1
        <4>1. PICK d \in Names : Idx(d) = j
          BY <1>0, <3>2 DEF Slots
        <4>2. d \in Names' /\ Idx(d)' = j
          BY <1>4, <4>1
        <4> QED BY <4>2
      <3> QED BY <1>0, <1>5, <3>1, <3>2
    <2>4. ASSUME NEW j \in Slot PROVE hProcesses'[j] # None <=> j < n'
      BY <1>0, <1>5, <1>6, NoneAssumption DEF Slots, Slot
    <2> QED BY <1>0, <1>2, <1>5, <2>1, <2>2, <2>3, <2>4 DEF Slots
  <1>10. /\ DOMAIN procs' = DOMAIN procs \cup {p} /\ procs'[p] = [cmd |-> c, st |-> "up"]
         /\ \A q \in DOMAIN procs : procs'[q] = procs[q]
    BY DEF Forked
  <1>11. ChildrenOK'
    <2>1. procs'[p] \in Child
      BY <1>10 DEF Child, Status
    <2> QED BY <1>0, <1>10, <2>1 DEF ChildrenOK
  <1>12. Held'
    <2>1. ASSUME NEW d \in Names
          PROVE  /\ hProcesses'[Idx(d)'] \in DOMAIN procs'
                 /\ procs'[hProcesses'[Idx(d)']].cmd = d
                 /\ procs'[hProcesses'[Idx(d)']].st # "term"
      <3>1. Idx(d)' = Idx(d) /\ hProcesses'[Idx(d)] = hProcesses[Idx(d)]
        BY <1>4, <1>6, <1>8
      <3>2. PICK q \in DOMAIN procs : q = hProcesses[Idx(d)] /\ procs[q].cmd = d /\ procs[q].st # "term"
        BY <1>0 DEF Held
      <3>3. hProcesses'[Idx(d)'] = q /\ q \in DOMAIN procs' /\ procs'[q] = procs[q]
        BY <1>10, <3>1, <3>2
      <3> QED BY <3>2, <3>3
    <2>2. hProcesses'[Idx(c)'] = p
      BY <1>3, <1>4, <1>6
    <2>3. ASSUME NEW d \in Names'
          PROVE  /\ hProcesses'[Idx(d)'] \in DOMAIN procs'
                 /\ procs'[hProcesses'[Idx(d)']].cmd = d
                 /\ procs'[hProcesses'[Idx(d)']].st # "term"
      <3>1. CASE d = c
        BY <1>10, <2>2, <3>1
      <3>2. CASE d \in Names
        BY <2>1, <3>2
      <3> QED BY <1>4, <3>1, <3>2
    <2> QED BY <2>3 DEF Held
  <1>13. Owned'
    <2> SUFFICES ASSUME NEW q \in DOMAIN procs', procs'[q].st = "up"
                 PROVE  \E d \in Names' : procs'[q].cmd = d /\ hProcesses'[Idx(d)'] = q
      BY DEF Owned
    <2>1. CASE q = p
      BY <1>3, <1>4, <1>6, <1>10, <2>1
    <2>2. CASE q \in DOMAIN procs
      <3>1. PICK d \in Names : procs[q].cmd = d /\ hProcesses[Idx(d)] = q
        BY <1>0, <1>10, <2>2 DEF Owned
      <3>2. Idx(d)' = Idx(d) /\ hProcesses'[Idx(d)] = q /\ d \in Names'
        BY <1>4, <1>6, <1>8, <3>1
      <3>3. procs'[q].cmd = d /\ hProcesses'[Idx(d)'] = q
        BY <1>10, <2>2, <3>1, <3>2
      <3> QED BY <3>2, <3>3
    <2> QED BY <1>10, <2>1, <2>2
  <1> QED BY <1>4, <1>5, <1>7, <1>9, <1>11, <1>12, <1>13 DEF Agreed

----------------------------------------------------------------------------
(* Taking a worker out of the tables. *)

\* The copy loop moves every later slot down by one and stops at the first slot
\* that is not in use.
LEMMA ShiftedIs ==
    ASSUME TablesOK, Slots, NEW i \in 0..n-1
    PROVE  /\ Shifted(i) \in [Slot -> Pid \cup {None}]
           /\ \A j \in Slot : Shifted(i)[j] = IF j < i THEN hProcesses[j]
                                              ELSE IF j < n - 1 THEN hProcesses[j + 1] ELSE None
  <1> USE ProcessorAssumption
  <1>0. /\ n \in Nat /\ n <= MaxProcess - 1 /\ MaxProcess \in Nat
        /\ \A j \in Slot : hProcesses[j] # None <=> j < n
        /\ \A j \in Slot : hProcesses[j] \in Pid \cup {None}
    BY Sizes DEF Slots, TablesOK
  <1> DEFINE ends == {j \in i + 1..MaxProcess - 1 :
                         j = MaxProcess - 1 \/ hProcesses[j] = None}
             stop == CHOOSE j \in ends : \A k \in ends : j <= k
  <1>1. n \in ends
    BY <1>0 DEF Slot
  <1>2. \A k \in ends : n <= k /\ k \in Nat
    BY <1>0 DEF Slot
  <1>3. stop \in ends /\ \A k \in ends : stop <= k
    <2>1. \E j \in ends : \A k \in ends : j <= k
      BY <1>1, <1>2
    <2> HIDE DEF ends
    <2> QED BY <2>1
  <1>4. stop = n
    <2> HIDE DEF ends, stop
    <2> QED BY <1>0, <1>1, <1>2, <1>3
  <1>5. Shifted(i) = [j \in Slot |-> IF i <= j /\ j < stop THEN hProcesses[j + 1]
                                     ELSE IF j = stop /\ j = MaxProcess - 1 THEN None
                                     ELSE hProcesses[j]]
    BY DEF Shifted
  <1> HIDE DEF ends, stop
  <1>6. ASSUME NEW j \in Slot
        PROVE  Shifted(i)[j] = IF j < i THEN hProcesses[j]
                               ELSE IF j < n - 1 THEN hProcesses[j + 1] ELSE None
    <2>1. Shifted(i)[j] = IF i <= j /\ j < n THEN hProcesses[j + 1]
                          ELSE IF j = n /\ j = MaxProcess - 1 THEN None ELSE hProcesses[j]
      BY <1>4, <1>5
    <2>2. j \in Nat /\ i \in Nat /\ i < n /\ n \in Slot
      BY <1>0 DEF Slot
    <2>3. hProcesses[n] = None /\ (~(j < n) => hProcesses[j] = None)
      BY <1>0, <2>2
    <2>4. CASE j < i
      BY <1>0, <2>1, <2>2, <2>4
    <2>5. CASE ~(j < i) /\ j < n - 1
      BY <1>0, <2>1, <2>2, <2>5
    <2>6. CASE j = n - 1
      <3>1. j + 1 = n /\ ~(j < i) /\ j < n
        BY <1>0, <2>2, <2>6
      <3> QED BY <1>0, <2>1, <2>2, <2>3, <2>6, <3>1
    <2>7. CASE ~(j < n)
      BY <1>0, <2>1, <2>2, <2>3, <2>7
    <2> QED BY <1>0, <2>2, <2>4, <2>5, <2>6, <2>7
  <1>7. \A j \in Slot : Shifted(i)[j] \in Pid \cup {None}
    <2> SUFFICES ASSUME NEW j \in Slot PROVE Shifted(i)[j] \in Pid \cup {None}
      OBVIOUS
    <2>1. j < n - 1 => j + 1 \in Slot
      BY <1>0 DEF Slot
    <2> QED BY <1>0, <1>6, <2>1
  <1>8. Shifted(i) \in [Slot -> Pid \cup {None}]
    BY <1>5, <1>7
  <1> QED BY <1>6, <1>8

\* Both tables after the worker c is gone: the pids stay with their workers.
LEMMA WorkerRemoved ==
    ASSUME TablesOK, Slots, NEW c \in Names,
           workers' = Renumbered(c, Idx(c)), hProcesses' = Shifted(Idx(c))
    PROVE  /\ TablesOK' /\ Slots' /\ Names' = Names \ {c} /\ n' = n - 1
           /\ \A d \in Names' : hProcesses'[Idx(d)'] = hProcesses[Idx(d)]
  <1> USE ProcessorAssumption
  <1> DEFINE i == Idx(c)
  <1>0. /\ n \in Nat /\ n <= MaxProcess - 1
        /\ \A d \in Names : Idx(d) \in Nat /\ Idx(d) < n
    BY Sizes, SlotFacts DEF Slots
  <1>1. Names' = Names \ {c}
    BY DEF Renumbered, Names
  <1>2. n' = n - 1 /\ IsFiniteSet(Names')
    BY <1>1, FS_RemoveElement DEF TablesOK, n
  <1>3. ASSUME NEW d \in Names'
        PROVE  /\ workers'[d] \in [idx : Slot, guid : Guid]
               /\ Idx(d)' = IF Idx(d) > i THEN Idx(d) - 1 ELSE Idx(d)
    <2>1. workers'[d] = IF i < n - 1 /\ Idx(d) > i
                        THEN [workers[d] EXCEPT !.idx = @ - 1] ELSE workers[d]
      BY <1>1, <1>3 DEF Renumbered, n, Names, Idx
    <2>2. workers[d] \in [idx : Slot, guid : Guid] /\ Idx(d) = workers[d].idx
      BY <1>1 DEF TablesOK, Idx
    <2>3. Idx(d) > i => i < n - 1 /\ Idx(d) - 1 \in Slot
      BY <1>0, <1>1 DEF Slot
    <2>4. CASE Idx(d) > i
      <3>1. workers'[d] = [workers[d] EXCEPT !.idx = Idx(d) - 1]
        BY <2>1, <2>2, <2>3, <2>4
      <3>2. workers'[d] \in [idx : Slot, guid : Guid] /\ workers'[d].idx = Idx(d) - 1
        BY ONLY <2>2, <2>3, <2>4, <3>1
      <3> QED BY <2>4, <3>2 DEF Idx
    <2>5. CASE ~(Idx(d) > i)
      <3>1. workers'[d] = workers[d]
        BY <2>1, <2>5
      <3> QED BY <2>2, <2>5, <3>1 DEF Idx
    <2> QED BY <2>4, <2>5
  <1>4. /\ hProcesses' \in [Slot -> Pid \cup {None}]
        /\ \A j \in Slot : hProcesses'[j] = IF j < i THEN hProcesses[j]
                              ELSE IF j < n - 1 THEN hProcesses[j + 1] ELSE None
    <2>1. i \in 0..n-1
      BY <1>0
    <2> QED BY <2>1, ShiftedIs
  <1>5. TablesOK'
    BY <1>1, <1>2, <1>3, <1>4 DEF TablesOK
  \* Nobody else had the slot.
  <1>6. ASSUME NEW d \in Names'
        PROVE  /\ d \in Names /\ Idx(d) # i
               /\ \/ Idx(d) < i /\ Idx(d)' = Idx(d)
                  \/ Idx(d) > i /\ Idx(d)' = Idx(d) - 1
    <2>1. d \in Names /\ d # c
      BY <1>1
    <2>2. Idx(d) # i
      BY <2>1 DEF Slots
    <2> QED BY <1>0, <1>3, <2>1, <2>2
  <1>7. Slots'
    <2>1. ASSUME NEW d \in Names' PROVE Idx(d)' < n'
      BY <1>0, <1>2, <1>6
    <2>2. ASSUME NEW d \in Names', NEW e \in Names', Idx(d)' = Idx(e)' PROVE d = e
      <3>1. d \in Names /\ e \in Names /\ Idx(d) \in Nat /\ Idx(e) \in Nat /\ i \in Nat
        BY <1>0, <1>6
      <3>2. Idx(d) = Idx(e)
        BY <1>6, <2>2, <3>1
      <3> QED BY <3>1, <3>2 DEF Slots
    <2>3. ASSUME NEW j \in 0..n'-1 PROVE \E d \in Names' : Idx(d)' = j
      <3>1. CASE j < i
        <4>1. PICK d \in Names : Idx(d) = j
          BY <1>0, <1>2 DEF Slots
        <4>2. d \in Names'
          BY <1>0, <1>1, <3>1, <4>1
        <4> QED BY <1>0, <1>6, <3>1, <4>1, <4>2
      <3>2. CASE ~(j < i)
        <4>1. j + 1 \in 0..n-1
          BY <1>0, <1>2
        <4>2. PICK d \in Names : Idx(d) = j + 1
          BY <4>1 DEF Slots
        <4>3. d \in Names'
          BY <1>0, <1>1, <3>2, <4>2
        <4> QED BY <1>0, <1>2, <1>6, <3>2, <4>2, <4>3
      <3> QED BY <3>1, <3>2
    <2>4. ASSUME NEW j \in Slot PROVE hProcesses'[j] # None <=> j < n'
      <3>1. j \in Nat /\ i \in Nat /\ i < n /\ (j < n - 1 => j + 1 \in Slot)
        BY <1>0 DEF Slot
      <3>2. (hProcesses[j] # None <=> j < n)
            /\ (j + 1 \in Slot => (hProcesses[j + 1] # None <=> j + 1 < n))
        BY DEF Slots
      <3> QED BY <1>0, <1>2, <1>4, <3>1, <3>2
    <2> QED BY <1>0, <1>2, <2>1, <2>2, <2>3, <2>4 DEF Slots
  <1>8. ASSUME NEW d \in Names' PROVE hProcesses'[Idx(d)'] = hProcesses[Idx(d)]
    <2>1. d \in Names /\ Idx(d) \in Nat /\ Idx(d) < n /\ i \in Nat /\ i < n
      BY <1>0, <1>6
    <2>2. CASE Idx(d) < i /\ Idx(d)' = Idx(d)
      BY <1>0, <1>4, <2>1, <2>2 DEF Slot
    <2>3. CASE Idx(d) > i /\ Idx(d)' = Idx(d) - 1
      <3>1. PICK k \in Slot : k = Idx(d) - 1
        BY <1>0, <2>1, <2>3 DEF Slot
      <3>2. k + 1 = Idx(d) /\ ~(k < i) /\ k < n - 1
        BY <1>0, <2>1, <2>3, <3>1
      <3>3. hProcesses'[k] = hProcesses[k + 1]
        BY <1>4, <3>2
      <3> QED BY <2>3, <3>1, <3>2, <3>3
    <2> QED BY <1>6, <2>2, <2>3
  <1> QED BY <1>1, <1>2, <1>5, <1>7, <1>8

\* The children of a worker that is taken out: its own runs no longer, the
\* others are left alone.
LEMMA RemovedAgreed ==
    ASSUME Agreed, NEW c \in Names,
           workers' = Renumbered(c, Idx(c)), hProcesses' = Shifted(Idx(c)),
           ChildrenOK', DOMAIN procs' \subseteq DOMAIN procs,
           \A q \in DOMAIN procs : q # hProcesses[Idx(c)] =>
               q \in DOMAIN procs' /\ procs'[q] = procs[q],
           \A q \in DOMAIN procs' : q = hProcesses[Idx(c)] => procs'[q].st # "up"
    PROVE  Agreed' /\ Names' = Names \ {c} /\ n' = n - 1
  <1>0. TablesOK /\ Slots /\ Held /\ Owned
    BY DEF Agreed
  <1>1. /\ TablesOK' /\ Slots' /\ Names' = Names \ {c} /\ n' = n - 1
        /\ \A d \in Names' : hProcesses'[Idx(d)'] = hProcesses[Idx(d)]
    BY <1>0, WorkerRemoved
  <1>2. ASSUME NEW d \in Names'
        PROVE  \E q \in DOMAIN procs' : /\ hProcesses'[Idx(d)'] = q
                                        /\ procs'[q].cmd = d /\ procs'[q].st # "term"
    <2>1. d \in Names /\ d # c
      BY <1>1
    <2>2. PICK q \in DOMAIN procs :
             q = hProcesses[Idx(d)] /\ procs[q].cmd = d /\ procs[q].st # "term"
      BY <1>0, <2>1 DEF Held
    <2>3. q # hProcesses[Idx(c)]
      BY <1>0, <2>1, <2>2 DEF Held
    <2> QED BY <1>1, <2>2, <2>3
  <1>3. Held'
    BY <1>2 DEF Held
  <1>4. Owned'
    <2> SUFFICES ASSUME NEW q \in DOMAIN procs', procs'[q].st = "up"
                 PROVE  \E d \in Names' : procs'[q].cmd = d /\ hProcesses'[Idx(d)'] = q
      BY DEF Owned
    <2>1. q \in DOMAIN procs /\ q # hProcesses[Idx(c)] /\ procs'[q] = procs[q]
      OBVIOUS
    <2>2. PICK d \in Names : procs[q].cmd = d /\ hProcesses[Idx(d)] = q
      BY <1>0, <2>1 DEF Owned
    <2>3. d \in Names' /\ hProcesses'[Idx(d)'] = q
      BY <1>1, <2>1, <2>2
    <2> QED BY <2>1, <2>2, <2>3
  <1> QED BY <1>1, <1>3, <1>4 DEF Agreed

----------------------------------------------------------------------------
(* The steps. *)

\* CloseWorker.
LEMMA CloseAgreed ==
    ASSUME Agreed, NEW c \in Names, CloseWorker(c)
    PROVE  Agreed' /\ Names' = Names \ {c} /\ n' = n - 1
  <1> DEFINE p == hProcesses[Idx(c)]
  <1>1. /\ workers' = Renumbered(c, Idx(c)) /\ hProcesses' = Shifted(Idx(c))
        /\ procs' = IF p \in DOMAIN procs /\ procs[p].st = "up"
                    THEN [procs EXCEPT ![p].st = "term"] ELSE procs
    BY DEF CloseWorker, Idx
  <1>2. ChildrenOK /\ p \in DOMAIN procs
    BY DEF Agreed, Held
  <1>3. /\ ChildrenOK' /\ DOMAIN procs' = DOMAIN procs
        /\ \A q \in DOMAIN procs : q # p => procs'[q] = procs[q]
        /\ procs'[p].st # "up"
    <2>1. CASE procs[p].st = "up"
      <3>1. procs' = [procs EXCEPT ![p].st = "term"] /\ "term" \in Status
        BY <1>1, <1>2, <2>1 DEF Status
      <3> HIDE DEF p
      <3> QED BY <1>2, <3>1, StatusSet
    <2>2. CASE procs[p].st # "up"
      <3>1. procs' = procs
        BY <1>1, <2>2
      <3> QED BY <1>2, <2>2, <3>1 DEF ChildrenOK
    <2> QED BY <2>1, <2>2
  <1> QED BY <1>1, <1>3, RemovedAgreed

\* A pid that waitpid returned, in the slot of a worker.
LEMMA OwnerHolds ==
    ASSUME Agreed, processCount = n, NEW p
    PROVE  \A c : c \in Owner(p) <=> c \in Names /\ hProcesses[Idx(c)] = p
  <1>1. TablesOK /\ Slots /\ n \in Nat
    BY Sizes DEF Agreed
  <1>2. ASSUME NEW c \in Names PROVE Idx(c) \in 0..n-1
    BY <1>1, SlotFacts DEF Slots
  <1>3. \A i : i \in Found(p) <=> i \in 0..n-1 /\ hProcesses[i] = p
    BY DEF Found
  <1> QED BY <1>2, <1>3 DEF Owner, Names, Idx

\* ReapOther.
LEMMA ReapAgreed ==
    ASSUME Agreed, processCount = n, NEW p \in DOMAIN procs, ReapOther(p),
           procs[p].st = "dead"
    PROVE  Agreed' /\ Names' = Names /\ n' = n
  <1>1. workers' = workers /\ hProcesses' = hProcesses /\ procs' = Reaped(p)
    BY DEF ReapOther, tables
  <1>2. /\ DOMAIN procs' = DOMAIN procs \ {p}
        /\ \A q \in DOMAIN procs \ {p} : procs'[q] = procs[q]
    BY <1>1, ReapedIs
  <1>3. ChildrenOK'
    BY <1>2 DEF Agreed, ChildrenOK
  <1>4. Names' = Names /\ \A c \in Names : Idx(c)' = Idx(c)
    BY <1>1 DEF Names, Idx
  <1>5. \A c \in Names : hProcesses[Idx(c)] # p
    BY OwnerHolds DEF ReapOther
  <1>6. Held'
    BY <1>1, <1>2, <1>4, <1>5 DEF Agreed, Held
  <1>7. Owned'
    BY <1>1, <1>2, <1>4 DEF Agreed, Owned
  <1> QED BY <1>1, <1>3, <1>6, <1>7, TablesStay

\* ReStartProcess.
LEMMA ReStartAgreed ==
    ASSUME Agreed, processCount = n, NEW p \in DOMAIN procs, procs[p].st = "dead",
           ReStartProcess(p)
    PROVE  Agreed' /\ Names' = Names /\ n' = n
  <1>0. TablesOK /\ ChildrenOK /\ Slots /\ Held /\ Owned
    BY DEF Agreed
  <1>1. PICK c \in Owner(p), q \in Pid \ (DOMAIN procs \ {p}) :
           /\ procs' = Forked(Reaped(p), q, c)
           /\ hProcesses' = [hProcesses EXCEPT ![workers[c].idx] = q]
           /\ workers' = workers
    BY DEF ReStartProcess
  <1>2. c \in Names /\ hProcesses[Idx(c)] = p
    BY OwnerHolds
  <1>3. /\ DOMAIN procs' = (DOMAIN procs \ {p}) \cup {q}
        /\ procs'[q] = [cmd |-> c, st |-> "up"]
        /\ \A r \in DOMAIN procs \ {p} : procs'[r] = procs[r]
    <2>1. PICK f : f = Reaped(p)
      OBVIOUS
    <2>2. DOMAIN f = DOMAIN procs \ {p} /\ \A r \in DOMAIN procs \ {p} : f[r] = procs[r]
      BY <2>1, ReapedIs
    <2>3. procs' = Forked(f, q, c)
      BY <1>1, <2>1
    <2> QED BY <2>2, <2>3 DEF Forked
  <1>4. Names' = Names /\ n' = n /\ \A d \in Names : Idx(d)' = Idx(d)
    BY <1>1 DEF Names, n, Idx
  <1>5. \A d \in Names : Idx(d) \in Slot /\ d \in Cmd
    BY <1>0, SlotFacts
  <1>6. \A j \in Slot : hProcesses'[j] = IF j = Idx(c) THEN q ELSE hProcesses[j]
    BY <1>0, <1>1 DEF TablesOK, Idx
  <1>7. TablesOK'
    <2>1. hProcesses' \in [Slot -> Pid \cup {None}]
      BY <1>0, <1>1 DEF TablesOK
    <2>2. \A d \in Names : workers'[d] = workers[d]
      BY <1>1
    <2> QED BY <1>0, <1>4, <2>1, <2>2 DEF TablesOK
  <1>8. Slots'
    <2>1. ASSUME NEW j \in Slot PROVE hProcesses'[j] # None <=> j < n
      <3>1. CASE j = Idx(c)
        <4>1. j < n
          BY <1>0, <1>2, <3>1 DEF Slots
        <4> QED BY <1>1, <1>6, <3>1, <4>1, NoneAssumption
      <3>2. CASE j # Idx(c)
        BY <1>0, <1>6, <3>2 DEF Slots
      <3> QED BY <3>1, <3>2
    <2> QED BY <1>0, <1>4, <2>1 DEF Slots
  <1>9. ChildrenOK'
    <2>1. procs'[q] \in Child
      BY <1>2, <1>3, <1>5 DEF Child, Status
    <2> QED BY <1>0, <1>3, <2>1 DEF ChildrenOK
  <1>10. Held'
    <2>1. ASSUME NEW d \in Names
          PROVE  \E r \in DOMAIN procs' : /\ hProcesses'[Idx(d)] = r
                                          /\ procs'[r].cmd = d /\ procs'[r].st # "term"
      <3>1. CASE d = c
        BY <1>3, <1>5, <1>6, <3>1
      <3>2. CASE d # c
        <4>1. PICK r \in DOMAIN procs :
                 r = hProcesses[Idx(d)] /\ procs[r].cmd = d /\ procs[r].st # "term"
          BY <1>0 DEF Held
        <4>2. procs[p].cmd = c
          BY <1>0, <1>2 DEF Held
        <4>3. r # p /\ r # q
          BY <3>2, <4>1, <4>2
        <4>4. Idx(d) # Idx(c)
          BY <1>0, <1>2, <3>2 DEF Slots
        <4>5. hProcesses'[Idx(d)] = r
          BY <1>5, <1>6, <4>1, <4>4
        <4> QED BY <1>3, <4>1, <4>3, <4>5
      <3> QED BY <3>1, <3>2
    <2> QED BY <1>4, <2>1 DEF Held
  <1>11. Owned'
    <2> SUFFICES ASSUME NEW r \in DOMAIN procs', procs'[r].st = "up"
                 PROVE  \E d \in Names : procs'[r].cmd = d /\ hProcesses'[Idx(d)] = r
      BY <1>4 DEF Owned
    <2>1. CASE r = q
      BY <1>2, <1>3, <1>5, <1>6, <2>1
    <2>2. CASE r # q
      <3>1. r \in DOMAIN procs /\ r # p /\ procs'[r] = procs[r]
        BY <1>3, <2>2
      <3>2. PICK d \in Names : procs[r].cmd = d /\ hProcesses[Idx(d)] = r
        BY <1>0, <3>1 DEF Owned
      <3>3. hProcesses'[Idx(d)] = r
        BY <1>2, <1>5, <1>6, <3>1, <3>2
      <3> QED BY <3>1, <3>2, <3>3
    <2> QED BY <2>1, <2>2
  <1> QED BY <1>4, <1>7, <1>8, <1>9, <1>10, <1>11 DEF Agreed

\* ReStartFails.
LEMMA GiveUpAgreed ==
    ASSUME Agreed, processCount = n, NEW p \in DOMAIN procs, ReStartFails(p)
    PROVE  Agreed' /\ n' = n - 1
  <1>1. PICK c \in Owner(p) : /\ workers' = Renumbered(c, workers[c].idx)
                              /\ hProcesses' = Shifted(workers[c].idx)
    BY DEF ReStartFails
  <1>2. c \in Names /\ hProcesses[Idx(c)] = p
    BY OwnerHolds
  <1>3. workers' = Renumbered(c, Idx(c)) /\ hProcesses' = Shifted(Idx(c))
    BY <1>1 DEF Idx
  <1>4. /\ DOMAIN procs' = DOMAIN procs \ {p}
        /\ \A q \in DOMAIN procs \ {p} : procs'[q] = procs[q]
    BY ReapedIs DEF ReStartFails
  <1>5. ChildrenOK'
    BY <1>4 DEF Agreed, ChildrenOK
  <1> QED BY <1>2, <1>3, <1>4, <1>5, RemovedAgreed

LEMMA TablesFrame ==
    ASSUME Agreed, workers' = workers, hProcesses' = hProcesses, procs' = procs
    PROVE  Agreed' /\ Names' = Names /\ n' = n
  <1>1. ChildrenOK'
    BY DEF Agreed, ChildrenOK
  <1>2. Held' /\ Owned'
    BY DEF Agreed, Held, Owned, Names, Idx
  <1> QED BY <1>1, <1>2, TablesStay

LEMMA CmdLineType == \A l \in Line : CmdLine(l) \in Cmd /\ l.guid \in Guid
  BY DEF Line, CmdLine, Cmd

\* One line of the list.
LEMMA ReadLineInv ==
    ASSUME Inv, ReadLine
    PROVE  Inv'
  <1> USE DEF tables, env
  <1>0. /\ Agreed /\ LoopOK /\ TablesOK /\ pc = "line" /\ pc' = pc /\ processCount = Cardinality(Kept)
        /\ IsFiniteSet(Kept) /\ Cardinality(Kept) \in Nat
    BY Sizes DEF Inv, Agreed, Counted, ReadLine
  <1>1. Head(rest) \in Line /\ Tail(rest) \in Seq(Line)
    BY DEF ReadLine, Inv, LoopOK
  <1>2. PICK l \in Line : l = Head(rest)
    BY <1>1
  <1>3. PICK c \in Cmd : c = CmdLine(l)
    BY CmdLineType
  <1>4. l.guid \in Guid
    BY CmdLineType
  <1>5. /\ SkipLine(l) \/ KeepWorker(l) \/ ForkFails(l) \/ StartWorker(l) \/ TableFull(l)
        /\ rest' = Tail(rest) /\ file' = file /\ ticks' = ticks /\ edits' = edits /\ deaths' = deaths
    BY <1>2 DEF ReadLine
  \* The rest of the loop's state.
  <1>6. ASSUME channel_list' \subseteq Cmd, channel_id_set' \subseteq Guid,
               faults' \in 0..MaxFault
        PROVE  LoopOK'
    BY <1>0, <1>1, <1>5, <1>6 DEF LoopOK
  <1>7. \A d \in DOMAIN workers : d \in Names
    BY DEF Names
  <1>8. CASE SkipLine(l)
    <2>1. /\ workers' = workers /\ hProcesses' = hProcesses /\ procs' = procs
          /\ channel_list' = channel_list /\ channel_id_set' = channel_id_set
          /\ faults' = faults /\ processCount' = processCount
      BY <1>8 DEF SkipLine
    <2>2. Agreed' /\ Names' = Names
      BY <1>0, <2>1, TablesFrame
    <2>3. Counted'
      BY <1>0, <2>1, <2>2 DEF Counted, Kept
    <2>4. LoopOK'
      BY <1>0, <1>6, <2>1 DEF LoopOK
    <2> QED BY <2>2, <2>3, <2>4 DEF Inv
  <1>9. CASE KeepWorker(l)
    <2>1. /\ workers' = workers /\ hProcesses' = hProcesses /\ procs' = procs
          /\ channel_list' = channel_list \cup {c} /\ channel_id_set' = channel_id_set
          /\ faults' = faults /\ processCount' = processCount + 1
          /\ c \in Names /\ c \notin channel_list
      BY <1>3, <1>9 DEF KeepWorker, Repeated, Names
    <2>2. Agreed' /\ Names' = Names
      BY <1>0, <2>1, TablesFrame
    <2>3. Kept' = Kept \cup {c} /\ c \notin Kept
      BY <2>1, <2>2 DEF Kept
    <2>4. Cardinality(Kept') = Cardinality(Kept) + 1
      BY <1>0, <2>3, FS_AddElement
    <2>5. Counted'
      BY <1>0, <2>1, <2>4 DEF Counted
    <2>6. LoopOK'
      BY <1>0, <1>6, <2>1 DEF LoopOK
    <2> QED BY <2>2, <2>5, <2>6 DEF Inv
  <1>10. ASSUME Agreed', Names' = Names, c \notin Names, channel_list' = channel_list \cup {c},
                processCount' = processCount, channel_id_set' = channel_id_set,
                faults' \in 0..MaxFault
         PROVE  Inv'
    <2>1. Kept' = Kept
      BY <1>10 DEF Kept
    <2>2. Counted'
      BY <1>0, <1>10, <2>1 DEF Counted
    <2>3. LoopOK'
      BY <1>0, <1>6, <1>10 DEF LoopOK
    <2> QED BY <1>10, <2>2, <2>3 DEF Inv
  <1>11. CASE ForkFails(l)
    <2>1. /\ workers' = workers /\ hProcesses' = hProcesses /\ procs' = procs
          /\ channel_list' = channel_list \cup {c} /\ channel_id_set' = channel_id_set
          /\ processCount' = processCount /\ c \notin Names
      BY <1>3, <1>11 DEF ForkFails, Names
    <2>2. faults' \in 0..MaxFault
      BY <1>0, <1>11, ProcessorAssumption DEF ForkFails, LoopOK
    <2>3. Agreed' /\ Names' = Names
      BY <1>0, <2>1, TablesFrame
    <2> QED BY <1>10, <2>1, <2>2, <2>3
  <1>12. CASE StartWorker(l)
    <2>1. PICK p \in Pid \ DOMAIN procs :
             /\ procs' = Forked(procs, p, c)
             /\ hProcesses' = [hProcesses EXCEPT ![FirstFree] = p]
      BY <1>3, <1>12 DEF StartWorker, FirstFree
    <2>2. /\ workers' = Added(c, FirstFree, l.guid)
          /\ channel_list' = channel_list \cup {c}
          /\ channel_id_set' = channel_id_set \cup {l.guid}
          /\ processCount' = processCount + 1 /\ faults' = faults
          /\ FreeSlots # {} /\ c \notin Names /\ c \notin channel_list
      BY <1>3, <1>12 DEF StartWorker, Repeated, Names, Added, FirstFree
    <2>3. PICK i : i = FirstFree
      OBVIOUS
    <2>4. Agreed' /\ Names' = Names \cup {c}
      <3>1. PICK g \in Guid : g = l.guid
        BY <1>4
      <3>2. /\ workers' = Added(c, i, g)
            /\ hProcesses' = [hProcesses EXCEPT ![i] = p]
            /\ c \notin Names /\ FreeSlots # {}
        BY <2>1, <2>2, <2>3, <3>1
      <3>3. procs' = Forked(procs, p, c)
        BY <2>1
      <3> QED BY ONLY <1>0, <2>3, <3>2, <3>3, c \in Cmd, g \in Guid,
                      p \in Pid \ DOMAIN procs, WorkerStarted
    <2>5. Kept' = Kept \cup {c} /\ c \notin Kept
      BY <2>2, <2>4 DEF Kept
    <2>6. Cardinality(Kept') = Cardinality(Kept) + 1
      BY <1>0, <2>5, FS_AddElement
    <2>7. Counted'
      BY <1>0, <2>2, <2>6 DEF Counted
    <2>8. LoopOK'
      BY <1>0, <1>4, <1>6, <2>2 DEF LoopOK
    <2> QED BY <2>4, <2>7, <2>8 DEF Inv
  <1>13. CASE TableFull(l)
    <2>1. /\ workers' = workers /\ hProcesses' = hProcesses
          /\ channel_list' = channel_list \cup {c} /\ channel_id_set' = channel_id_set
          /\ processCount' = processCount /\ c \notin Names /\ faults' = faults
      BY <1>3, <1>13 DEF TableFull, Names
    <2>2. PICK p \in Pid \ DOMAIN procs :
             procs' = [Forked(procs, p, c) EXCEPT ![p].st = "term"]
      BY <1>3, <1>13 DEF TableFull
    <2>3. Agreed' /\ Names' = Names
      BY <1>0, <2>1, <2>2, ChildKilled
    <2>4. faults' \in 0..MaxFault
      BY <1>0, <2>1 DEF LoopOK
    <2> QED BY <1>10, <2>1, <2>3, <2>4
  <1> QED BY <1>5, <1>8, <1>9, <1>11, <1>12, <1>13

LEMMA InvNext == Inv /\ [Next]_vars => Inv'
  <1> SUFFICES ASSUME Inv, [Next]_vars PROVE Inv'
    OBVIOUS
  <1> USE DEF tables, env
  <1>0. Agreed /\ Counted /\ LoopOK /\ TablesOK
    BY DEF Inv, Agreed
  \* A step of the loop that leaves the tables and the children alone.
  <1>1. ASSUME workers' = workers, hProcesses' = hProcesses, procs' = procs,
               Names' = Names /\ n' = n => Counted' /\ LoopOK'
        PROVE  Inv'
    BY <1>0, <1>1, TablesFrame DEF Inv
  <1>2. ASSUME EditList PROVE Inv'
    <2>1. /\ workers' = workers /\ hProcesses' = hProcesses /\ procs' = procs
          /\ processCount' = processCount /\ pc' = pc /\ channel_list' = channel_list
      BY <1>2 DEF EditList
    <2>2. Names' = Names /\ n' = n => Counted'
      BY <1>0, <2>1 DEF Counted, Kept
    <2>3. LoopOK'
      BY <1>0, <1>2, ProcessorAssumption DEF EditList, LoopOK
    <2> QED BY <1>1, <2>1, <2>2, <2>3
  <1>3. ASSUME NEW p \in DOMAIN procs, Die(p) \/ Terminate(p) PROVE Inv'
    <2>1. Agreed' /\ Names' = Names /\ n' = n
      <3>1. /\ procs' = [procs EXCEPT ![p].st = "dead"]
            /\ workers' = workers /\ hProcesses' = hProcesses
        BY <1>3 DEF Die, Terminate
      <3> QED BY <1>0, <3>1, ChildEnds
    <2>2. pc' = pc /\ processCount' = processCount /\ channel_list' = channel_list
      BY <1>3 DEF Die, Terminate
    <2>3. Counted'
      BY <1>0, <2>1, <2>2 DEF Counted, Kept
    <2>4. LoopOK'
      BY <1>0, <1>3, ProcessorAssumption DEF Die, Terminate, LoopOK
    <2> QED BY <2>1, <2>3, <2>4 DEF Inv
  <1>4. ASSUME OpenList PROVE Inv'
    <2>1. /\ workers' = workers /\ hProcesses' = hProcesses /\ procs' = procs
          /\ channel_list' = {} /\ channel_id_set' = {} /\ processCount' = 0
          /\ pc' = "line" /\ rest' = file /\ file' = file /\ ticks' = ticks
          /\ edits' = edits /\ deaths' = deaths /\ faults' = faults /\ file # None
      BY <1>4 DEF OpenList
    <2>2. rest' \in Seq(Line)
      BY <1>0, <2>1, ProcessorAssumption DEF LoopOK
    <2>3. Kept' = {} /\ Cardinality({}) = 0
      BY <2>1, FS_EmptySet DEF Kept
    <2>4. Counted' /\ LoopOK'
      BY <1>0, <2>1, <2>2, <2>3 DEF Counted, LoopOK
    <2> QED BY <1>1, <2>1, <2>4
  <1>5. ASSUME OpenFails PROVE Inv'
    BY <1>0, <1>1, <1>5 DEF OpenFails, Counted, LoopOK
  <1>6. ASSUME ReadLine PROVE Inv'
    BY <1>6, ReadLineInv
  <1>7. ASSUME EndOfList PROVE Inv'
    BY <1>0, <1>1, <1>7 DEF EndOfList, Counted, Kept, LoopOK
  <1>8. ASSUME NEW c \in DOMAIN workers, CloseWorker(c) PROVE Inv'
    <2>1. Agreed' /\ Names' = Names \ {c}
      BY <1>0, <1>8, CloseAgreed DEF Names
    <2>2. c \notin channel_list /\ channel_list' = channel_list /\ pc' = pc /\ pc = "close"
          /\ processCount' = processCount
      BY <1>8 DEF CloseWorker, Deleted
    <2>3. Kept' = Kept
      BY <2>1, <2>2 DEF Kept
    <2>4. Counted'
      BY <1>0, <2>2, <2>3 DEF Counted
    <2>5. LoopOK'
      BY <1>0, <1>8 DEF CloseWorker, LoopOK
    <2> QED BY <2>1, <2>4, <2>5 DEF Inv
  <1>9. ASSUME CloseDone PROVE Inv'
    <2>1. Kept = Names /\ pc = "close" /\ pc' = "watch" /\ processCount' = processCount
      BY <1>9 DEF CloseDone, Deleted, Kept, Names
    <2>2. processCount = n
      BY <1>0, <2>1 DEF Counted, n
    <2>3. n' = n => Counted'
      BY <2>1, <2>2 DEF Counted
    <2>4. LoopOK'
      BY <1>0, <1>9 DEF CloseDone, LoopOK
    <2> QED BY <1>1, <1>9, <2>3, <2>4 DEF CloseDone
  <1>10. ASSUME Watch PROVE Inv'
    <2>1. pc = "watch" /\ pc' \in {"wait", "open"} /\ processCount' = processCount
      BY <1>10 DEF Watch
    <2>2. n' = n => Counted'
      BY <1>0, <2>1 DEF Counted
    <2>3. LoopOK'
      BY <1>0, <1>10, ProcessorAssumption DEF Watch, LoopOK
    <2> QED BY <1>1, <1>10, <2>2, <2>3 DEF Watch
  <1>11. ASSUME Tick PROVE Inv'
    <2>1. pc = "wait" /\ pc' \in {"wait", "open"} /\ processCount' = processCount
      BY <1>11 DEF Tick
    <2>2. n' = n => Counted'
      BY <1>0, <2>1 DEF Counted
    <2>3. LoopOK'
      BY <1>0, <1>11, ProcessorAssumption DEF Tick, LoopOK
    <2> QED BY <1>1, <1>11, <2>2, <2>3 DEF Tick
  <1>12. ASSUME NEW p \in DOMAIN procs, WaitPid(p) PROVE Inv'
    <2>1. pc = "wait" /\ pc' = pc /\ procs[p].st = "dead" /\ processCount = n
      BY <1>0, <1>12 DEF WaitPid, Counted
    <2>2. faults' \in 0..MaxFault
      BY <1>0, <1>12, ProcessorAssumption
      DEF WaitPid, ReapOther, ReStartProcess, ReStartFails, LoopOK
    <2>3. LoopOK'
      BY <1>0, <1>12, <2>2 DEF WaitPid, LoopOK
    <2>4. Agreed' /\ processCount' = n'
      <3>1. CASE ReapOther(p)
        BY <1>0, <2>1, <3>1, ReapAgreed DEF ReapOther
      <3>2. CASE ReStartProcess(p)
        <4>1. processCount' = processCount
          BY <3>2 DEF ReStartProcess
        <4> QED BY <1>0, <2>1, <3>2, <4>1, ReStartAgreed
      <3>3. CASE ReStartFails(p)
        <4>1. processCount' = processCount - 1
          BY <3>3 DEF ReStartFails
        <4> QED BY <1>0, <2>1, <3>3, <4>1, GiveUpAgreed
      <3> QED BY <1>12, <3>1, <3>2, <3>3 DEF WaitPid
    <2>5. Counted'
      BY <2>1, <2>4 DEF Counted
    <2> QED BY <2>3, <2>4, <2>5 DEF Inv
  <1>13. CASE UNCHANGED vars
    BY <1>0, <1>1, <1>13 DEF vars, Counted, Kept, LoopOK
  <1> QED
    BY <1>2, <1>3, <1>4, <1>5, <1>6, <1>7, <1>8, <1>9, <1>10, <1>11, <1>12, <1>13
    DEF Next, Loop

----------------------------------------------------------------------------
(* The theorems. *)

LEMMA InvAlways == Spec => []Inv
  BY InvInit, InvNext, PTL DEF Spec

\* Every variable of the loop keeps its type; in particular no slot number and
\* no processCount runs past the slot table, whatever the list file holds.
THEOREM TypeCorrect == Spec => []TypeOK
  BY InvAlways, InvType, PTL

\* The map of the workers, the slot table and processCount agree after every
\* start, close, restart and failed restart.
THEOREM TablesAgree == Spec => []SlotsAgree
  BY InvAlways, InvSlots, PTL

\* No worker runs twice and none is forgotten: a child that was not told to stop
\* is the one in its worker's slot.
THEOREM NoneForgotten == Spec => []Managed
  BY InvAlways, InvSlots, PTL

\* SIGTERM is sent to workers of deleted lines only.
THEOREM OnlyDeletedKilled == Spec => KillsDeleted
  <1>1. Inv /\ [Next]_vars =>
          [\A p \in DOMAIN procs \cap DOMAIN procs' :
              procs[p].st = "up" /\ procs'[p].st = "term"
                  => procs[p].cmd \notin channel_list]_vars
    <2> SUFFICES ASSUME Inv, Next, NEW p \in DOMAIN procs, p \in DOMAIN procs',
                        procs[p].st = "up", procs'[p].st = "term"
                 PROVE  procs[p].cmd \notin channel_list
      OBVIOUS
    <2> USE DEF tables, env
    <2>0. Agreed /\ ChildrenOK /\ Held
      BY DEF Inv, Agreed
    <2>1. procs' # procs
      OBVIOUS
    <2>2. ASSUME NEW q \in DOMAIN procs, procs' = [procs EXCEPT ![q].st = "dead"] PROVE FALSE
      BY <2>0, <2>2, StatusSet DEF Status
    <2>3. ASSUME NEW q, NEW c, q \notin DOMAIN procs,
                 procs' = [Forked(procs, q, c) EXCEPT ![q].st = "term"]
          PROVE  FALSE
      BY <2>3 DEF Forked
    <2>4. ASSUME NEW q, NEW c, NEW f, procs' = Forked(f, q, c),
                 \A r \in DOMAIN f : r \in DOMAIN procs /\ f[r] = procs[r]
          PROVE  FALSE
      BY <2>4 DEF Forked
    <2>5. ASSUME NEW q, procs' = Reaped(q) PROVE FALSE
      BY <2>5 DEF Reaped
    <2>6. ASSUME NEW l, StartWorker(l) PROVE FALSE
      BY <2>4, <2>6 DEF StartWorker
    <2>7. ASSUME NEW l, TableFull(l) PROVE FALSE
      BY <2>3, <2>7 DEF TableFull
    <2>8. ASSUME ReadLine PROVE FALSE
      BY <2>1, <2>6, <2>7, <2>8 DEF ReadLine, SkipLine, KeepWorker, ForkFails
    <2>9. ASSUME NEW q, WaitPid(q) PROVE FALSE
      <3>1. ~ReapOther(q) /\ ~ReStartFails(q)
        BY <2>5 DEF ReapOther, ReStartFails
      <3>2. ReStartProcess(q)
        BY <2>9, <3>1 DEF WaitPid
      <3>3. PICK c, r : procs' = Forked(Reaped(q), r, c)
        BY <3>2 DEF ReStartProcess
      <3>4. PICK f : f = Reaped(q)
        OBVIOUS
      <3>5. \A r1 \in DOMAIN f : r1 \in DOMAIN procs /\ f[r1] = procs[r1]
        BY <3>4 DEF Reaped
      <3> QED BY <2>4, <3>3, <3>4, <3>5
    <2>10. PICK c \in Names : CloseWorker(c)
      BY <2>1, <2>2, <2>8, <2>9
      DEF Next, Loop, EditList, Die, Terminate, OpenList, OpenFails, EndOfList, CloseDone,
          Watch, Tick, Names
    <2>11. c \notin channel_list
      BY <2>10 DEF CloseWorker, Deleted
    <2> DEFINE k == hProcesses[Idx(c)]
    <2>12. k \in DOMAIN procs /\ procs[k].cmd = c
      BY <2>0 DEF Held
    <2>13. procs' = [procs EXCEPT ![k].st = "term"]
      BY <2>1, <2>10 DEF CloseWorker, Idx
    <2>14. p = k
      <3> HIDE DEF k
      <3> QED BY <2>0, <2>12, <2>13, StatusSet DEF Status
    <2> QED BY <2>11, <2>12, <2>14
  <1> QED BY <1>1, InvAlways, PTL DEF Spec, KillsDeleted

============================================================================
