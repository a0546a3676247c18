----------------------------- MODULE LiveProofs -----------------------------
(***************************************************************************)
(* Proofs about the live part: first about the script that keeps the       *)
(* relays running (PushStreams), for any number of instances of it,        *)
(* channels and addresses; then about one relay (FlvRelay), for any number *)
(* of media servers, any size of the queues and any number of failures.    *)
(***************************************************************************)
EXTENDS PushStreams, FlvRelay, FiniteSetTheorems, TLAPS

LEMMA NoListType == NoList \in [Guid -> Addr] /\ None \in Addr
  BY DEF NoList, Addr

LEMMA TypeInit == Init => TypeOK
  <1> SUFFICES ASSUME Init PROVE TypeOK
    OBVIOUS
  <1>1. starts \in 0..MaxStart /\ edits \in 0..MaxEdit /\ faults \in 0..MaxFault
    BY PushAssumption DEF Init
  <1>2. relays \in [Guid \X Addr -> Nat]
    BY DEF Init
  <1>3. {clash, overlap, torn, served} \subseteq BOOLEAN
    BY DEF Init
  <1> QED BY <1>1, <1>2, <1>3, NoListType DEF Init, TypeOK

\* The end of an instance keeps the types of what it touches.
LEMMA GoneType ==
    ASSUME TypeOK, NEW r \in Run, Gone(r)
    PROVE  /\ pid_file' \in Run \cup {Empty, Dead} /\ lock' \in Run \cup {None}
           /\ pc' \in [Run -> {"idle", "open", "ps", "flock", "test", "stop", "fetch",
                               "compare", "write", "clear", "start"}]
           /\ cmd' \in [Run -> {"monitor", "stop"}] /\ in_proc' \in [Run -> BOOLEAN]
           /\ pid_curr' \in [Run -> Run \cup {Empty, Dead}] /\ todo' \in [Run -> SUBSET Guid]
           /\ channel_dict' \in [Run -> [Guid -> Addr]] /\ clash' \in BOOLEAN
  <1>1. clash' \in BOOLEAN
    BY DEF Gone, TypeOK
  <1>2. pid_curr' \in [Run -> Run \cup {Empty, Dead}]
    BY DEF Gone, TypeOK
  <1>3. in_proc' \in [Run -> BOOLEAN]
    BY DEF Gone, TypeOK
  <1> QED BY <1>1, <1>2, <1>3, NoListType DEF Gone, TypeOK

LEMMA KilledType ==
    ASSUME TypeOK, NEW G, Killed(G)
    PROVE  /\ relays' \in [Guid \X Addr -> Nat]
           /\ \A g \in Guid, u \in Addr :
                 relays'[<<g, u>>] = IF g \in G THEN 0 ELSE relays[<<g, u>>]
  BY DEF TypeOK, Killed

LEMMA TypeNext == TypeOK /\ [Next]_vars => TypeOK'
  <1> SUFFICES ASSUME TypeOK, [Next]_vars PROVE TypeOK'
    OBVIOUS
  <1> USE DEF Goto, conf, mutex, local, counts, history
  <1>b. clash \in BOOLEAN /\ overlap \in BOOLEAN /\ torn \in BOOLEAN /\ served \in BOOLEAN
    BY DEF TypeOK
  <1>f. Fault => faults' \in 0..MaxFault
    BY PushAssumption DEF Fault, TypeOK
  <1>1. ASSUME NEW l \in Lists, EditCms(l) PROVE TypeOK'
    <2>1. edits' \in 0..MaxEdit
      BY <1>1, PushAssumption DEF EditCms, TypeOK
    <2> QED BY <1>1, <2>1 DEF EditCms, TypeOK
  <1>2. ASSUME NEW g \in Guid, NEW u \in Addr, RelayDies(g, u) PROVE TypeOK'
    <2>1. relays' \in [Guid \X Addr -> Nat]
      BY <1>2 DEF RelayDies, TypeOK
    <2> QED BY <1>2, <1>b, <1>f, <2>1 DEF RelayDies, TypeOK
  <1>3. ASSUME NEW r \in Run, NEW c \in {"monitor", "stop"}, Start(r, c) PROVE TypeOK'
    <2>1. starts' \in 0..MaxStart
      BY <1>3, PushAssumption DEF Start, TypeOK
    <2>2. clash' \in BOOLEAN
      BY <1>3 DEF Start
    <2> QED BY <1>3, <1>b, <2>1, <2>2 DEF Start, TypeOK
  <1>4. ASSUME NEW r \in Run, Truncate(r) PROVE TypeOK'
    BY <1>4 DEF Truncate, TypeOK
  <1>5. ASSUME NEW r \in Run, Ps(r) PROVE TypeOK'
    BY <1>5 DEF Ps, TypeOK
  <1>6. ASSUME NEW r \in Run, Flock(r) PROVE TypeOK'
    <2>1. CASE lock = None
      BY <1>6, <2>1 DEF Flock, TypeOK
    <2>2. CASE lock # None
      BY <1>6, <2>2, <1>b, GoneType DEF Flock, TypeOK
    <2> QED BY <2>1, <2>2
  <1>7. ASSUME NEW r \in Run, Test(r) PROVE TypeOK'
    <2>1. CASE in_proc[r]
      BY <1>7, <2>1, <1>b, GoneType DEF Test, TypeOK
    <2>2. CASE ~in_proc[r]
      <3>1. overlap' \in BOOLEAN
        BY <1>7, <2>2 DEF Test
      <3> QED BY <1>7, <2>2, <1>b, <3>1 DEF Test, TypeOK
    <2> QED BY <2>1, <2>2
  <1>8. ASSUME NEW r \in Run, PushStop(r) PROVE TypeOK'
    BY <1>8, <1>b, GoneType, KilledType DEF PushStop, TypeOK
  <1>9. ASSUME NEW r \in Run, Fetch(r) PROVE TypeOK'
    <2>1. cms \in [Guid -> Addr]
      BY PushAssumption DEF TypeOK
    <2>2. xml' \in [urls : [Guid -> Addr], good : BOOLEAN]
      <3>1. ASSUME NEW G, xml' = [urls |-> [g \in Guid |-> IF g \in G THEN cms[g] ELSE None],
                                  good |-> FALSE]
            PROVE  xml' \in [urls : [Guid -> Addr], good : BOOLEAN]
        <4>1. [g \in Guid |-> IF g \in G THEN cms[g] ELSE None] \in [Guid -> Addr]
          BY <2>1, NoListType
        <4> QED BY <3>1, <4>1
      <3>2. CASE xml' = [urls |-> cms, good |-> TRUE]
        BY <2>1, <3>2
      <3>3. CASE xml' = xml
        BY <3>3 DEF TypeOK
      <3> QED BY <1>9, <3>1, <3>2, <3>3 DEF Fetch
    <2>3. faults' \in 0..MaxFault
      BY <1>9, <1>f DEF Fetch, TypeOK
    <2>4. served' \in BOOLEAN
      BY <1>9 DEF Fetch
    <2>5. todo' \in [Run -> SUBSET Guid]
      BY <1>9 DEF Fetch, Keys, TypeOK
    <2> QED BY <1>9, <1>b, <2>2, <2>3, <2>4, <2>5 DEF Fetch, TypeOK
  <1>10. ASSUME NEW r \in Run, NEW g \in Guid, Compare(r, g) PROVE TypeOK'
    BY <1>10, KilledType DEF Compare, TypeOK
  <1>11. ASSUME NEW r \in Run, ParseXml(r) PROVE TypeOK'
    <2>1. [g \in Guid |-> IF xml.good /\ g \in Proper THEN xml.urls[g] ELSE None]
             \in [Guid -> Addr]
      BY NoListType DEF TypeOK
    <2> QED BY <1>11, <2>1, NoListType DEF ParseXml, TypeOK
  <1>12. ASSUME NEW r \in Run, WriteIni(r) PROVE TypeOK'
    BY <1>12 DEF WriteIni, TypeOK
  <1>13. ASSUME NEW r \in Run, NEW g \in Guid, Clear(r, g) PROVE TypeOK'
    BY <1>13, KilledType DEF Clear, TypeOK
  <1>14. ASSUME NEW r \in Run, PushStart(r) PROVE TypeOK'
    BY <1>14 DEF PushStart, Keys, TypeOK
  <1>15. ASSUME NEW r \in Run, NEW g \in Guid, StartRelay(r, g) PROVE TypeOK'
    <2>1. relays' \in [Guid \X Addr -> Nat]
      BY <1>15 DEF StartRelay, TypeOK
    <2> QED BY <1>15, <2>1 DEF StartRelay, TypeOK
  <1>16. ASSUME NEW r \in Run, Finish(r) PROVE TypeOK'
    BY <1>16, <1>b, GoneType DEF Finish, TypeOK
  <1>17. ASSUME NEW r \in Run, Kill(r) PROVE TypeOK'
    <2>1. torn' \in BOOLEAN
      BY <1>17 DEF Kill
    <2> QED BY <1>17, <1>b, <1>f, <2>1, GoneType DEF Kill, TypeOK
  <1>18. CASE UNCHANGED vars
    BY <1>18 DEF vars, TypeOK
  <1> QED
    BY <1>1, <1>2, <1>3, <1>4, <1>5, <1>6, <1>7, <1>8, <1>9, <1>10, <1>11, <1>12,
       <1>13, <1>14, <1>15, <1>16, <1>17, <1>18 DEF Next, Script

\* Type correctness of the script and its files.
THEOREM TypeCorrect == Spec => []TypeOK
  BY TypeInit, TypeNext, PTL DEF Spec

----------------------------------------------------------------------------
(* One instance at a time. *)

OneAttempt == \A q, r \in Run : InMutex(q) /\ InMutex(r) => q = r
OneBody    == \A q, r \in Run : InBody(q) /\ InBody(r) => q = r

\* The pid of the instance b that has got in is in the pid file, and an attempt
\* that has emptied the file since remembers it, or that its process exists.
Noted(b) ==
    /\ (\A m \in Run : ~InMutex(m)) => pid_file = b
    /\ \A m \in Run : /\ pc[m] = "open" => pid_file = b
                      /\ pc[m] \in {"open", "ps"} => pid_curr[m] = b
                      /\ pc[m] \in {"flock", "test"} => in_proc[m]

Guarded == OneAttempt /\ OneBody /\ \A b \in Run : InBody(b) => Noted(b)

\* The end of an instance that was past the mutex, or of the last one.
LEMMA GoneGuarded ==
    ASSUME TypeOK, ~clash => Guarded, NEW r \in Run, pc[r] # "idle", Gone(r), ~clash'
    PROVE  Guarded'
  <1>1. /\ pc' = [pc EXCEPT ![r] = "idle"]
        /\ clash' = ((clash \/ InMutex(r)) /\ \E q \in Run \ {r} : pc[q] # "idle")
    BY DEF Gone
  <1>2. \A q \in Run : pc'[q] = IF q = r THEN "idle" ELSE pc[q]
    BY <1>1 DEF TypeOK
  <1>3. CASE \A q \in Run \ {r} : pc[q] = "idle"
    <2>1. \A q \in Run : ~InMutex(q)' /\ ~InBody(q)'
      BY <1>2, <1>3 DEF InMutex, InBody
    <2> QED BY <2>1 DEF Guarded, OneAttempt, OneBody
  <1>4. CASE \E q \in Run \ {r} : pc[q] # "idle"
    <2>1. ~clash /\ InBody(r)
      BY <1>1, <1>4 DEF InMutex, InBody
    <2>2. \A q \in Run : ~InBody(q)'
      BY <1>2, <2>1 DEF Guarded, OneBody, InBody
    <2>3. OneAttempt'
      BY <1>2, <2>1 DEF Guarded, OneAttempt, InMutex
    <2> QED BY <2>2, <2>3 DEF Guarded, OneBody
  <1> QED BY <1>3, <1>4

LEMMA GuardedNext ==
    ASSUME TypeOK, ~clash => Guarded, [Next]_vars, ~clash'
    PROVE  Guarded'
  <1> USE DEF Goto, conf, mutex, local, counts, history
  \* Steps within one part of the script.
  <1>q. ASSUME UNCHANGED <<pid_file, pid_curr, in_proc, clash>>,
               \A q \in Run : /\ InMutex(q)' => pc'[q] = pc[q]
                              /\ InMutex(q) => pc'[q] = pc[q]
                              /\ InBody(q)' => InBody(q)
        PROVE  Guarded'
    <2>1. Guarded /\ \A q \in Run : InMutex(q)' <=> InMutex(q)
      BY <1>q DEF InMutex
    <2>2. OneAttempt' /\ OneBody'
      BY <1>q, <2>1 DEF Guarded, OneAttempt, OneBody
    <2>3. ASSUME NEW b \in Run, InBody(b)' PROVE Noted(b)'
      BY <1>q, <2>1, <2>3 DEF Guarded, Noted, InMutex
    <2> QED BY <2>2, <2>3 DEF Guarded
  <1>1. ASSUME NEW l \in Lists, EditCms(l) PROVE Guarded'
    BY <1>1, <1>q DEF EditCms, InMutex, InBody
  <1>2. ASSUME NEW g \in Guid, NEW u \in Addr, RelayDies(g, u) PROVE Guarded'
    BY <1>2, <1>q DEF RelayDies, InMutex, InBody
  <1>3. ASSUME NEW r \in Run, NEW c \in {"monitor", "stop"}, Start(r, c) PROVE Guarded'
    <2>1. /\ Guarded /\ \A q \in Run : ~InMutex(q)
          /\ pid_file' = pid_file /\ pid_curr'[r] = pid_file
          /\ \A q \in Run : pc'[q] = IF q = r THEN "open" ELSE pc[q]
      BY <1>3 DEF Start, TypeOK
    <2>2. /\ \A q \in Run : InMutex(q)' => q = r
          /\ \A q \in Run : InBody(q)' => InBody(q)
      BY <2>1 DEF InMutex, InBody
    <2>3. ASSUME NEW b \in Run, InBody(b)' PROVE Noted(b)'
      BY <2>1, <2>2, <2>3 DEF Guarded, Noted, InMutex
    <2> QED BY <2>1, <2>2, <2>3 DEF Guarded, OneAttempt, OneBody
  <1>4. ASSUME NEW r \in Run, Truncate(r) PROVE Guarded'
    <2>1. /\ Guarded /\ pc[r] = "open" /\ UNCHANGED <<pid_curr, in_proc>>
          /\ \A q \in Run : pc'[q] = IF q = r THEN "ps" ELSE pc[q]
      BY <1>4 DEF Truncate, TypeOK
    <2>2. \A q \in Run : (InMutex(q)' <=> InMutex(q)) /\ (InBody(q)' <=> InBody(q))
      BY <2>1 DEF InMutex, InBody
    <2>3. \A q \in Run : InMutex(q) => q = r
      BY <2>1 DEF Guarded, OneAttempt, InMutex
    <2>4. ASSUME NEW b \in Run, InBody(b)' PROVE Noted(b)'
      BY <2>1, <2>2, <2>3, <2>4 DEF Guarded, Noted, InMutex
    <2> QED BY <2>1, <2>2, <2>4 DEF Guarded, OneAttempt, OneBody
  <1>5. ASSUME NEW r \in Run, Ps(r) PROVE Guarded'
    <2>1. /\ Guarded /\ pc[r] = "ps" /\ UNCHANGED <<pid_curr, pid_file>>
          /\ pid_curr[r] \in Run => in_proc'[r]
          /\ \A q \in Run : pc'[q] = IF q = r THEN "flock" ELSE pc[q]
      BY <1>5 DEF Ps, TypeOK
    <2>2. \A q \in Run : (InMutex(q)' <=> InMutex(q)) /\ (InBody(q)' <=> InBody(q))
      BY <2>1 DEF InMutex, InBody
    <2>3. \A q \in Run : InMutex(q) => q = r
      BY <2>1 DEF Guarded, OneAttempt, InMutex
    <2>4. ASSUME NEW b \in Run, InBody(b)' PROVE Noted(b)'
      <3>1. InMutex(r) /\ pid_curr[r] = b
        BY <2>1, <2>2, <2>4 DEF Guarded, Noted, InMutex
      <3>2. \A m \in Run : InMutex(m)' => m = r /\ pc'[m] = "flock"
        BY <2>1, <2>2, <2>3
      <3> QED BY <2>1, <2>2, <3>1, <3>2 DEF Noted, InMutex
    <2> QED BY <2>1, <2>2, <2>4 DEF Guarded, OneAttempt, OneBody
  <1>6. ASSUME NEW r \in Run, Flock(r) PROVE Guarded'
    <2>1. CASE lock = None
      <3>1. /\ Guarded /\ pc[r] = "flock" /\ UNCHANGED <<pid_curr, pid_file, in_proc>>
            /\ \A q \in Run : pc'[q] = IF q = r THEN "test" ELSE pc[q]
        BY <1>6, <2>1 DEF Flock, TypeOK
      <3>2. \A q \in Run : (InMutex(q)' <=> InMutex(q)) /\ (InBody(q)' <=> InBody(q))
        BY <3>1 DEF InMutex, InBody
      <3>3. ASSUME NEW b \in Run, InBody(b)' PROVE Noted(b)'
        BY <3>1, <3>2, <3>3 DEF Guarded, Noted, InMutex
      <3> QED BY <3>1, <3>2, <3>3 DEF Guarded, OneAttempt, OneBody
    <2>2. CASE lock # None
      BY <1>6, <2>2, GoneGuarded DEF Flock
    <2> QED BY <2>1, <2>2
  <1>7. ASSUME NEW r \in Run, Test(r) PROVE Guarded'
    <2>1. CASE in_proc[r]
      BY <1>7, <2>1, GoneGuarded DEF Test
    <2>2. CASE ~in_proc[r]
      <3>1. /\ Guarded /\ pc[r] = "test" /\ pid_file' = r
            /\ \A q \in Run : q # r => pc'[q] = pc[q]
            /\ pc'[r] \in {"stop", "fetch"}
        BY <1>7, <2>2 DEF Test, TypeOK
      <3>2. \A q \in Run : ~InBody(q)
        BY <2>2, <3>1 DEF Guarded, Noted
      <3>3. \A q \in Run : InMutex(q) => q = r
        BY <3>1 DEF Guarded, OneAttempt, InMutex
      <3>4. \A q \in Run : ~InMutex(q)' /\ (InBody(q)' => q = r)
        BY <3>1, <3>2, <3>3 DEF InMutex, InBody
      <3>5. ASSUME NEW b \in Run, InBody(b)' PROVE Noted(b)'
        BY <3>1, <3>4, <3>5 DEF Noted, InMutex
      <3> QED BY <3>4, <3>5 DEF Guarded, OneAttempt, OneBody
    <2> QED BY <2>1, <2>2
  <1>8. ASSUME NEW r \in Run, PushStop(r) \/ Finish(r) \/ Kill(r) PROVE Guarded'
    BY <1>8, GoneGuarded DEF PushStop, Finish, Kill, InBody
  <1>9. ASSUME NEW r \in Run, Fetch(r) \/ ParseXml(r) \/ WriteIni(r) \/ PushStart(r)
        PROVE  Guarded'
    BY <1>9, <1>q DEF Fetch, ParseXml, WriteIni, PushStart, InMutex, InBody, TypeOK
  <1>10. ASSUME NEW r \in Run, NEW g \in Guid, Compare(r, g) \/ Clear(r, g) \/ StartRelay(r, g)
         PROVE  Guarded'
    BY <1>10, <1>q DEF Compare, Clear, StartRelay, InMutex, InBody
  <1>11. CASE UNCHANGED vars
    BY <1>11, <1>q DEF vars, InMutex, InBody
  <1> QED
    BY <1>1, <1>2, <1>3, <1>4, <1>5, <1>6, <1>7, <1>8, <1>9, <1>10, <1>11
    DEF Next, Script

\* push_mutex lets in one instance at a time, for any number of instances and
\* whatever kills them, as long as no attempt met another or was refused.
THEOREM OneAtATime == Spec => []Exclusive
  <1>1. Spec => []TypeOK
    BY TypeCorrect
  <1>2. Init => (~clash => Guarded)
    BY DEF Init, Guarded, OneAttempt, OneBody, InMutex, InBody
  <1>3. TypeOK /\ (~clash => Guarded) /\ [Next]_vars => (~clash => Guarded)'
    BY GuardedNext
  <1>4. (~clash => Guarded) => Exclusive
    BY DEF Exclusive, Guarded, OneBody
  <1> QED BY <1>1, <1>2, <1>3, <1>4, PTL DEF Spec

----------------------------------------------------------------------------
(* The relays use the addresses of the list. *)

Relays(g, u)  == relays[<<g, u>>]
Relayed(g, u) == Relays(g, u) > 0
Some(g) == \E u \in Addr : Relayed(g, u)

\* No channel is relayed twice.
Single ==
    \A g \in Guid, u \in Addr :
        /\ Relays(g, u) <= 1
        /\ Relayed(g, u) => u # None /\ \A v \in Addr : Relayed(g, v) => u = v

\* Every relay uses the address of the ini file, except while the file is being
\* rewritten.
AtIni  == \A g \in Guid, u \in Addr : Relayed(g, u) => ini[g] = u
Steady == \A r \in Run : pc[r] \notin {"write", "clear"}

\* What an instance has established so far: first that the relays left use the
\* addresses of the list, which the file is rewritten from, and then that those
\* which are not in the file are gone.
Phases == {"compare", "write", "clear", "start"}
Established(r) ==
    /\ pc[r] = "compare" =>
          \A g \in Guid, u \in Addr : Relayed(g, u) /\ g \notin todo[r] => xml.urls[g] = u
    /\ pc[r] \in {"write", "clear"} =>
          \A g \in Guid, u \in Addr : Relayed(g, u) => xml.urls[g] = u
    /\ pc[r] = "write" => \A g \in Guid : channel_dict[r][g] \in {None, xml.urls[g]}
    /\ pc[r] = "clear" =>
          /\ \A g \in Guid : ini[g] \in {None, xml.urls[g]}
          /\ \A g \in Guid, u \in Addr : Relayed(g, u) /\ g \notin todo[r] => ini[g] = u
    /\ pc[r] = "start" => todo[r] \subseteq Keys(ini)

Current == Single /\ (Steady => AtIni) /\ \A r \in Run : Established(r)

LEMMA CountRelays ==
    ASSUME NEW g \in Guid, TypeOK
    PROVE  /\ Count(g) > 0 <=> Some(g)
           /\ Count(g) = 0 <=> ~Some(g)
           /\ Single => Count(g) <= 1
  <1> DEFINE S == {u \in Addr : relays[<<g, u>>] > 0}
  <1>1. IsFiniteSet(Addr)
    BY PushAssumption, FS_AddElement DEF Addr
  <1>2. IsFiniteSet(S) /\ Cardinality(S) \in Nat
    BY <1>1, FS_Subset, FS_CardinalityType
  <1>3. Cardinality(S) = 0 <=> S = {}
    BY <1>2, FS_EmptySet
  <1>4. S = {} <=> ~Some(g)
    BY DEF Some, Relayed, Relays
  <1>5. ASSUME Single PROVE S = {} \/ \E u : S = {u}
    <2>1. \A u, v \in S : u = v
      BY <1>5 DEF Single, Relayed, Relays
    <2> QED BY <2>1
  <1>6. Count(g) = Cardinality(S)
    BY DEF Count
  <1> HIDE DEF S
  <1>7. (\E u : S = {u}) => Cardinality(S) = 1
    BY FS_Singleton
  <1> QED BY <1>2, <1>3, <1>4, <1>5, <1>6, <1>7

LEMMA KilledRelays ==
    ASSUME TypeOK, NEW G, Killed(G)
    PROVE  /\ \A g \in Guid, u \in Addr :
                 Relays(g, u)' = IF g \in G THEN 0 ELSE Relays(g, u)
           /\ \A g \in Guid, u \in Addr : Relays(g, u)' \in Nat /\ Relays(g, u)' <= Relays(g, u)
  <1>1. ASSUME NEW g \in Guid, NEW u \in Addr
        PROVE  /\ Relays(g, u)' = IF g \in G THEN 0 ELSE Relays(g, u)
               /\ Relays(g, u) \in Nat
    BY KilledType DEF Relays, TypeOK
  <1> QED BY <1>1

\* Steps that end relays, or take an instance to or from the update.
LEMMA CurrentFrame ==
    ASSUME Current, UNCHANGED <<ini, xml>>,
           \A g \in Guid, u \in Addr :
               Relays(g, u) \in Nat /\ Relays(g, u)' \in Nat /\ Relays(g, u)' <= Relays(g, u),
           \A r \in Run : pc'[r] \in Phases =>
               pc'[r] = pc[r] /\ todo'[r] = todo[r] /\ channel_dict'[r] = channel_dict[r],
           Steady' => Steady
    PROVE  Current'
  <1>1. \A g \in Guid, u \in Addr : Relayed(g, u)' => Relayed(g, u)
    BY DEF Relayed
  <1>2. Single'
    <2>1. ASSUME NEW g \in Guid, NEW u \in Addr PROVE Relays(g, u)' <= 1
      BY DEF Current, Single
    <2> QED BY <1>1, <2>1 DEF Current, Single
  <1>3. Steady' => AtIni'
    BY <1>1 DEF Current, AtIni
  <1>4. ASSUME NEW r \in Run PROVE Established(r)'
    <2>1. CASE pc'[r] \in Phases
      <3>1. Established(r) /\ UNCHANGED <<ini, xml>> /\ pc'[r] = pc[r]
            /\ todo'[r] = todo[r] /\ channel_dict'[r] = channel_dict[r]
        BY <2>1 DEF Current
      <3> QED BY <1>1, <3>1 DEF Established, Keys
    <2>2. CASE pc'[r] \notin Phases
      BY <2>2 DEF Established, Phases
    <2> QED BY <2>1, <2>2
  <1> QED BY <1>2, <1>3, <1>4 DEF Current

\* The steps at which an instance can come to or leave the script.
LEMMA OneBodyNext ==
    ASSUME TypeOK, ~overlap => OneBody, [Next]_vars, ~overlap'
    PROVE  ~overlap /\ OneBody'
  <1> USE DEF Goto, conf, mutex, local, counts, history
  <1>1. ASSUME NEW r \in Run, Test(r) PROVE ~overlap /\ OneBody'
    <2>1. CASE in_proc[r]
      <3>1. overlap' = overlap /\ \A q \in Run : pc'[q] \in {pc[q], "idle"}
        BY <1>1, <2>1 DEF Test, Gone, TypeOK
      <3> QED BY <3>1 DEF OneBody, InBody
    <2>2. CASE ~in_proc[r]
      <3>1. ~overlap /\ \A q \in Run : ~InBody(q)
        BY <1>1, <2>2 DEF Test
      <3>2. \A q \in Run : q # r => pc'[q] = pc[q]
        BY <1>1, <2>2 DEF Test, TypeOK
      <3> QED BY <3>1, <3>2 DEF OneBody, InBody
    <2> QED BY <2>1, <2>2
  <1>2. ASSUME overlap' = overlap, \A q \in Run : InBody(q)' => InBody(q)
        PROVE  ~overlap /\ OneBody'
    BY <1>2 DEF OneBody
  <1>3. ASSUME NEW r \in Run, NEW c \in {"monitor", "stop"}, Start(r, c)
        PROVE  ~overlap /\ OneBody'
    BY <1>2, <1>3 DEF Start, TypeOK, InBody
  <1>4. ASSUME NEW r \in Run, Truncate(r) \/ Ps(r) PROVE ~overlap /\ OneBody'
    BY <1>2, <1>4 DEF Truncate, Ps, TypeOK, InBody
  <1>5. ASSUME NEW r \in Run, Flock(r) PROVE ~overlap /\ OneBody'
    BY <1>2, <1>5 DEF Flock, Gone, TypeOK, InBody
  <1>6. ASSUME NEW r \in Run, PushStop(r) \/ Finish(r) \/ Kill(r) PROVE ~overlap /\ OneBody'
    BY <1>2, <1>6 DEF PushStop, Finish, Kill, Gone, TypeOK, InBody
  <1>7. ASSUME NEW r \in Run, Fetch(r) \/ ParseXml(r) \/ WriteIni(r) \/ PushStart(r)
        PROVE  ~overlap /\ OneBody'
    BY <1>2, <1>7 DEF Fetch, ParseXml, WriteIni, PushStart, TypeOK, InBody
  <1>8. ASSUME NEW r \in Run, NEW g \in Guid, Compare(r, g) \/ Clear(r, g) \/ StartRelay(r, g)
        PROVE  ~overlap /\ OneBody'
    BY <1>2, <1>8 DEF Compare, Clear, StartRelay, InBody
  <1>9. ASSUME NEW l \in Lists, EditCms(l) PROVE ~overlap /\ OneBody'
    BY <1>2, <1>9 DEF EditCms, InBody
  <1>10. ASSUME NEW g \in Guid, NEW u \in Addr, RelayDies(g, u) PROVE ~overlap /\ OneBody'
    BY <1>2, <1>10 DEF RelayDies, InBody
  <1>11. CASE UNCHANGED vars
    BY <1>2, <1>11 DEF vars, InBody
  <1> QED
    BY <1>1, <1>3, <1>4, <1>5, <1>6, <1>7, <1>8, <1>9, <1>10, <1>11 DEF Next, Script

LEMMA CurrentNext ==
    ASSUME TypeOK, OneBody, Current, [Next]_vars, ~torn'
    PROVE  Current'
  <1> USE DEF Goto, conf, mutex, local, counts, history
  <1>r. \A g \in Guid, u \in Addr : Relays(g, u) \in Nat
    BY DEF TypeOK, Relays
  <1>s. relays' = relays => \A g \in Guid, u \in Addr : Relays(g, u)' = Relays(g, u)
    BY DEF Relays
  <1>0. Single /\ (Steady => AtIni) /\ \A r \in Run : Established(r)
    BY DEF Current
  \* The instance r is the only one that is past the mutex.
  <1>b. ASSUME NEW r \in Run, InBody(r), NEW q \in Run, q # r PROVE pc[q] \notin Phases
    BY <1>b DEF OneBody, InBody, Phases
  \* The end of an instance which is not rewriting the file.
  <1>g. ASSUME NEW r \in Run, Gone(r), pc[r] \notin {"write", "clear"}, UNCHANGED <<ini, xml>>,
               \A g \in Guid, u \in Addr :
                   Relays(g, u)' \in Nat /\ Relays(g, u)' <= Relays(g, u)
        PROVE  Current'
    <2>1. \A q \in Run : /\ q # r => pc'[q] = pc[q] /\ todo'[q] = todo[q]
                                     /\ channel_dict'[q] = channel_dict[q]
                         /\ pc'[r] = "idle"
      BY <1>g DEF Gone, TypeOK
    <2>2. Steady' => Steady
      BY <1>g, <2>1 DEF Steady
    <2>3. \A q \in Run : pc'[q] \in Phases =>
             pc'[q] = pc[q] /\ todo'[q] = todo[q] /\ channel_dict'[q] = channel_dict[q]
      BY <2>1 DEF Phases
    <2> QED BY <1>g, <1>r, <2>2, <2>3, CurrentFrame
  \* Steps that touch neither relays nor files.
  <1>q. ASSUME UNCHANGED <<relays, ini, xml, todo, channel_dict>>,
               \A q \in Run : pc'[q] = pc[q] \/ (pc[q] \notin Phases /\ pc'[q] \notin Phases)
        PROVE  Current'
    <2>1. Steady' => Steady
      BY <1>q DEF Steady, Phases
    <2> QED BY <1>q, <1>r, <1>s, <2>1, CurrentFrame
  <1>1. ASSUME NEW l \in Lists, EditCms(l) PROVE Current'
    BY <1>1, <1>q DEF EditCms
  <1>2. ASSUME NEW g \in Guid, NEW u \in Addr, RelayDies(g, u) PROVE Current'
    <2>1. ASSUME NEW h \in Guid, NEW v \in Addr
          PROVE  Relays(h, v)' \in Nat /\ Relays(h, v)' <= Relays(h, v)
      <3>1. relays' = [relays EXCEPT ![<<g, u>>] = relays[<<g, u>>] - 1] /\ relays[<<g, u>>] > 0
        BY <1>2 DEF RelayDies
      <3>2. relays'[<<h, v>>] = IF <<h, v>> = <<g, u>> THEN relays[<<g, u>>] - 1
                                ELSE relays[<<h, v>>]
        BY <3>1 DEF TypeOK
      <3>3. relays[<<h, v>>] \in Nat
        BY DEF TypeOK
      <3> QED BY <3>1, <3>2, <3>3 DEF Relays
    <2>2. UNCHANGED <<ini, xml, pc, todo, channel_dict>> /\ (Steady' => Steady)
      BY <1>2 DEF RelayDies, Steady
    <2> QED BY <1>r, <2>1, <2>2, CurrentFrame
  <1>3. ASSUME NEW r \in Run, NEW c \in {"monitor", "stop"}, Start(r, c) PROVE Current'
    BY <1>3, <1>q DEF Start, TypeOK, Phases
  <1>4. ASSUME NEW r \in Run, Truncate(r) \/ Ps(r) PROVE Current'
    BY <1>4, <1>q DEF Truncate, Ps, TypeOK, Phases
  <1>5. ASSUME NEW r \in Run, Flock(r) PROVE Current'
    <2>1. CASE lock = None
      BY <1>5, <1>q, <2>1 DEF Flock, TypeOK, Phases
    <2>2. CASE lock # None
      BY <1>5, <1>g, <1>r, <1>s, <2>2 DEF Flock
    <2> QED BY <2>1, <2>2
  <1>6. ASSUME NEW r \in Run, Test(r) PROVE Current'
    <2>1. CASE in_proc[r]
      BY <1>6, <1>g, <1>r, <1>s, <2>1 DEF Test
    <2>2. CASE ~in_proc[r]
      BY <1>6, <1>q, <2>2 DEF Test, TypeOK, Phases
    <2> QED BY <2>1, <2>2
  <1>7. ASSUME NEW r \in Run, PushStop(r) PROVE Current'
    BY <1>7, <1>g, <1>r, KilledRelays DEF PushStop
  <1>8. ASSUME NEW r \in Run, Finish(r) PROVE Current'
    BY <1>8, <1>g, <1>r, <1>s DEF Finish
  <1>9. ASSUME NEW r \in Run, Kill(r) PROVE Current'
    <2>1. pc[r] \notin {"write", "clear"}
      BY <1>9 DEF Kill
    <2> QED BY <1>9, <1>g, <1>r, <1>s, <2>1 DEF Kill
  <1>10. CASE UNCHANGED vars
    BY <1>10, <1>q DEF vars
  <1>11. ASSUME NEW r \in Run, Fetch(r) PROVE Current'
    <2>1. /\ pc[r] = "fetch" /\ UNCHANGED <<ini, relays>>
          /\ \A q \in Run : pc'[q] = IF q = r THEN "compare" ELSE pc[q]
          /\ todo'[r] = Keys(ini)
      BY <1>11 DEF Fetch, TypeOK
    <2>2. \A q \in Run : q # r => pc[q] \notin Phases
      BY <1>b, <2>1 DEF InBody
    <2>3. Steady
      BY <2>1, <2>2 DEF Steady, Phases
    <2>4. ASSUME NEW h \in Guid, NEW u \in Addr, Relayed(h, u)' PROVE h \in Keys(ini)
      BY <1>0, <2>1, <2>3, <2>4 DEF AtIni, Single, Relayed, Relays, Keys
    <2>5. \A q \in Run : Established(q)'
      BY <2>1, <2>2, <2>4 DEF Established, Phases
    <2>6. Single' /\ AtIni'
      BY <1>0, <2>1, <2>3 DEF Single, AtIni, Relayed, Relays
    <2> QED BY <2>5, <2>6 DEF Current
  <1>12. ASSUME NEW r \in Run, NEW g \in Guid, Compare(r, g) PROVE Current'
    <2>1. /\ pc[r] = "compare" /\ UNCHANGED <<ini, xml, pc>>
          /\ todo'[r] = todo[r] \ {g}
      BY <1>12 DEF Compare, TypeOK
    <2>2. \A q \in Run : q # r => pc[q] \notin Phases
      BY <1>b, <2>1 DEF InBody
    <2>3. Steady
      BY <2>1, <2>2 DEF Steady, Phases
    <2>4. \A h \in Guid, u \in Addr :
             Relays(h, u)' = IF h \in {x \in {g} : Changed(x)} THEN 0 ELSE Relays(h, u)
      BY <1>12, KilledRelays DEF Compare
    <2>5. \A h \in Guid, u \in Addr : Relayed(h, u)' => Relayed(h, u) /\ (h = g => ~Changed(g))
      BY <2>4 DEF Relayed
    <2>6. ASSUME NEW h \in Guid, NEW u \in Addr, Relayed(h, u)', h \notin todo'[r]
          PROVE  xml.urls[h] = u
      <3>1. Relayed(h, u) /\ u # None /\ ini[h] = u
        BY <1>0, <2>3, <2>5, <2>6 DEF Single, AtIni
      <3>2. CASE h = g
        BY <2>5, <2>6, <3>1, <3>2 DEF Changed
      <3>3. CASE h # g
        BY <1>0, <2>1, <2>6, <3>1, <3>3 DEF Established
      <3> QED BY <3>2, <3>3
    <2>7. \A q \in Run : Established(q)'
      BY <2>1, <2>2, <2>6 DEF Established, Phases
    <2>8. Single' /\ AtIni'
      <3>1. \A h \in Guid, u \in Addr : Relays(h, u)' <= 1
        BY <1>0, <2>4 DEF Single
      <3> QED BY <1>0, <2>1, <2>3, <2>5, <3>1 DEF Single, AtIni
    <2> QED BY <2>7, <2>8 DEF Current
  <1>13. ASSUME NEW r \in Run, ParseXml(r) PROVE Current'
    <2>1. /\ pc[r] = "compare" /\ todo[r] = {} /\ UNCHANGED <<relays, xml>>
          /\ \A q \in Run : pc'[q] = IF q = r THEN "write" ELSE pc[q]
          /\ \A g \in Guid : channel_dict'[r][g] \in {None, xml.urls[g]}
      BY <1>13 DEF ParseXml, TypeOK
    <2>2. \A q \in Run : q # r => pc[q] \notin Phases
      BY <1>b, <2>1 DEF InBody
    <2>3. \A g \in Guid, u \in Addr : Relayed(g, u)' => xml.urls[g] = u
      BY <1>0, <2>1 DEF Established, Relayed, Relays
    <2>4. \A q \in Run : Established(q)'
      BY <2>1, <2>2, <2>3 DEF Established, Phases
    <2>5. Single' /\ ~Steady'
      BY <1>0, <2>1 DEF Single, Relayed, Relays, Steady
    <2> QED BY <2>4, <2>5 DEF Current
  <1>14. ASSUME NEW r \in Run, WriteIni(r) PROVE Current'
    <2>1. /\ pc[r] = "write" /\ ini' = channel_dict[r] /\ UNCHANGED <<relays, xml>>
          /\ \A q \in Run : pc'[q] = IF q = r THEN "clear" ELSE pc[q]
          /\ todo'[r] = {g \in Guid : Count(g) > 0}
      BY <1>14 DEF WriteIni, TypeOK
    <2>2. \A q \in Run : q # r => pc[q] \notin Phases
      BY <1>b, <2>1 DEF InBody
    <2>3. \A g \in Guid, u \in Addr : Relayed(g, u)' => Relayed(g, u) /\ g \in todo'[r]
      BY <2>1, CountRelays DEF Relayed, Relays, Some
    <2>4. \A q \in Run : Established(q)'
      BY <1>0, <2>1, <2>2, <2>3 DEF Established, Phases
    <2>5. Single' /\ ~Steady'
      BY <1>0, <2>1 DEF Single, Relayed, Relays, Steady
    <2> QED BY <2>4, <2>5 DEF Current
  <1>15. ASSUME NEW r \in Run, NEW g \in Guid, Clear(r, g) PROVE Current'
    <2>1. /\ pc[r] = "clear" /\ UNCHANGED <<ini, xml, pc>>
          /\ todo'[r] = todo[r] \ {g}
      BY <1>15 DEF Clear, TypeOK
    <2>2. \A q \in Run : q # r => pc[q] \notin Phases
      BY <1>b, <2>1 DEF InBody
    <2>3. \A h \in Guid, u \in Addr :
             Relays(h, u)' = IF h \in {x \in {g} : ini[x] = None} THEN 0 ELSE Relays(h, u)
      BY <1>15, KilledRelays DEF Clear
    <2>4. \A h \in Guid, u \in Addr : Relayed(h, u)' => Relayed(h, u) /\ (h = g => ini[g] # None)
      BY <2>3 DEF Relayed
    <2>5. Established(r)
      BY <1>0
    <2>6. ASSUME NEW h \in Guid, NEW u \in Addr, Relayed(h, u)', h \notin todo'[r]
          PROVE  ini[h] = u
      BY <2>1, <2>4, <2>5, <2>6 DEF Established
    <2>7. Established(r)'
      BY <2>1, <2>4, <2>5, <2>6 DEF Established
    <2>8. \A q \in Run : Established(q)'
      BY <2>1, <2>2, <2>7 DEF Established, Phases
    <2>9. Single' /\ ~Steady'
      <3>1. \A h \in Guid, u \in Addr : Relays(h, u)' <= 1
        BY <1>0, <2>3 DEF Single
      <3> QED BY <1>0, <2>1, <2>4, <3>1 DEF Single, Steady
    <2> QED BY <2>8, <2>9 DEF Current
  <1>16. ASSUME NEW r \in Run, PushStart(r) PROVE Current'
    <2>1. /\ pc[r] = "clear" /\ todo[r] = {} /\ UNCHANGED <<ini, xml, relays>>
          /\ \A q \in Run : pc'[q] = IF q = r THEN "start" ELSE pc[q]
          /\ todo'[r] = Keys(ini)
      BY <1>16 DEF PushStart, TypeOK
    <2>2. \A q \in Run : q # r => pc[q] \notin Phases
      BY <1>b, <2>1 DEF InBody
    <2>3. AtIni' /\ Single'
      BY <1>0, <2>1 DEF AtIni, Single, Established, Relayed, Relays
    <2>4. \A q \in Run : Established(q)'
      BY <2>1, <2>2 DEF Established, Phases, Keys
    <2> QED BY <2>3, <2>4 DEF Current
  <1>17. ASSUME NEW r \in Run, NEW g \in Guid, StartRelay(r, g) PROVE Current'
    <2>1. /\ pc[r] = "start" /\ g \in todo[r] /\ UNCHANGED <<ini, xml, pc>>
          /\ todo'[r] = todo[r] \ {g}
      BY <1>17 DEF StartRelay, TypeOK
    <2>2. \A q \in Run : q # r => pc[q] \notin Phases
      BY <1>b, <2>1 DEF InBody
    <2>3. Steady /\ g \in Keys(ini)
      BY <1>0, <2>1, <2>2 DEF Steady, Phases, Established
    <2>4. ini[g] \in Addr /\ ini[g] # None
      BY <2>3 DEF TypeOK, Keys
    <2>5. \A q \in Run : Established(q)'
      BY <1>0, <2>1, <2>2 DEF Established, Phases, Keys
    <2>6. CASE Some(g)
      <3>1. relays' = relays
        BY <1>17, <2>6, CountRelays DEF StartRelay
      <3>2. Single' /\ AtIni'
        BY <1>0, <2>1, <2>3, <3>1 DEF Single, AtIni, Relayed, Relays
      <3> QED BY <2>5, <3>2 DEF Current
    <2>7. CASE ~Some(g)
      <3>1. relays' = [relays EXCEPT ![<<g, ini[g]>>] = relays[<<g, ini[g]>>] + 1]
        BY <1>17, <2>7, CountRelays DEF StartRelay
      <3>3. \A u \in Addr : Relays(g, u) = 0
        BY <1>r, <2>7 DEF Some, Relayed
      <3>4. ASSUME NEW h \in Guid, NEW u \in Addr
            PROVE  /\ h # g => Relays(h, u)' = Relays(h, u)
                   /\ h = g => Relays(h, u)' = IF u = ini[g] THEN 1 ELSE 0
        <4>1. relays'[<<h, u>>] = IF <<h, u>> = <<g, ini[g]>> THEN relays[<<h, u>>] + 1
                                  ELSE relays[<<h, u>>]
          BY <2>4, <3>1 DEF TypeOK
        <4>2. Relays(h, u)' = IF h = g /\ u = ini[g] THEN Relays(h, u) + 1 ELSE Relays(h, u)
          BY <4>1 DEF Relays
        <4> QED BY <3>3, <4>2
      <3>5. \A h \in Guid, u \in Addr :
               Relayed(h, u)' <=> IF h = g THEN u = ini[g] ELSE Relayed(h, u)
        BY <3>4 DEF Relayed
      <3>6. AtIni'
        BY <1>0, <2>1, <2>3, <3>5 DEF AtIni
      <3>7. ASSUME NEW h \in Guid, NEW u \in Addr
            PROVE  Relays(h, u)' <= 1 /\ (Relayed(h, u)' => u # None)
        BY <1>0, <2>4, <3>4, <3>5 DEF Single
      <3>8. Single'
        BY <2>1, <3>6, <3>7 DEF Single, AtIni
      <3> QED BY <2>5, <3>6, <3>8 DEF Current
    <2> QED BY <2>6, <2>7
  <1> QED
    BY <1>1, <1>2, <1>3, <1>4, <1>5, <1>6, <1>7, <1>8, <1>9, <1>10, <1>11, <1>12,
       <1>13, <1>14, <1>15, <1>16, <1>17 DEF Next, Script

CurrentInv == ~overlap => OneBody /\ (~torn => Current)

LEMMA TornStays == TypeOK /\ [Next]_vars /\ ~torn' => ~torn
  <1> SUFFICES ASSUME TypeOK, [Next]_vars, torn PROVE torn'
    BY DEF TypeOK
  <1> USE DEF conf, mutex, local, counts, history
  <1>1. ASSUME NEW r \in Run, Kill(r) PROVE torn'
    BY <1>1 DEF Kill
  <1>2. ASSUME torn' = torn PROVE torn'
    BY <1>2
  <1>3. CASE UNCHANGED vars
    BY <1>3, <1>2 DEF vars
  <1> QED BY <1>1, <1>2, <1>3 DEF Next, Script, EditCms, RelayDies, Start, Truncate, Ps, Flock, Test,
             PushStop, Fetch, Compare, ParseXml, WriteIni, Clear, PushStart, StartRelay, Finish

LEMMA CurrentHolds == Spec => [](TypeOK /\ CurrentInv)
  <1>1. Spec => []TypeOK
    BY TypeCorrect
  <1>2. Init => CurrentInv
    <2> SUFFICES ASSUME Init PROVE OneBody /\ Current
      BY DEF CurrentInv
    <2>1. OneBody /\ \A r \in Run : Established(r)
      BY DEF Init, OneBody, InBody, Established
    <2>2. \A g \in Guid, u \in Addr : Relays(g, u) = 0
      BY DEF Init, Relays
    <2>3. Single /\ AtIni
      BY <2>2 DEF Single, AtIni, Relayed
    <2> QED BY <2>1, <2>3 DEF Current
  <1>3. TypeOK /\ CurrentInv /\ [Next]_vars => CurrentInv'
    <2> SUFFICES ASSUME TypeOK, CurrentInv, [Next]_vars, ~overlap'
                 PROVE  OneBody' /\ (~torn' => Current')
      BY DEF CurrentInv
    <2>1. OneBody' /\ ~overlap
      BY OneBodyNext DEF CurrentInv
    <2> QED BY <2>1, CurrentNext, TornStays DEF CurrentInv
  <1> QED BY <1>1, <1>2, <1>3, PTL DEF Spec

\* No channel is relayed twice, and at rest every relay uses the address of the
\* ini file, after any edits, failed fetches, kills and stops, for any number of
\* instances that ran one after the other.
THEOREM RelaysCurrent == Spec => []NotStale
  <1>1. TypeOK /\ CurrentInv => NotStale
    <2> SUFFICES ASSUME TypeOK, CurrentInv, ~overlap, ~torn
                 PROVE  /\ \A g \in Guid : Count(g) <= 1 /\ \A u \in Addr : relays[<<g, u>>] <= 1
                        /\ Quiet => \A g \in Guid, u \in Addr :
                              relays[<<g, u>>] > 0 => u # None /\ ini[g] = u
      BY DEF NotStale
    <2>1. Single /\ (Steady => AtIni)
      BY DEF CurrentInv, Current
    <2>2. Quiet => Steady
      BY DEF Quiet, Steady
    <2> QED BY <2>1, <2>2, CountRelays DEF Single, AtIni, Relayed, Relays
  <1> QED BY <1>1, CurrentHolds, PTL

----------------------------------------------------------------------------
(* The list is served. *)

\* The address rtmp_channel.py takes for a channel from a list that is good.
Want(g) == IF g \in Proper THEN xml.urls[g] ELSE None
Updating(r) == pc[r] \in Phases

\* How far the last instance that fetched a list has come with it.
Progress(r) ==
    /\ pc[r] = "write" => \A g \in Guid : channel_dict[r][g] = Want(g)
    /\ pc[r] \in {"clear", "start"} => \A g \in Guid : ini[g] = Want(g)
    /\ pc[r] = "start" => \A g \in Keys(ini) \ todo[r] : Some(g)
Complete ==
    /\ xml.good
    /\ \A r \in Run : Progress(r)
    /\ (\A r \in Run : ~Updating(r)) =>
          \A g \in Guid : ini[g] = Want(g) /\ (ini[g] # None => Some(g))

LEMMA CompleteNext ==
    ASSUME TypeOK, OneBody, served => Complete, [Next]_vars, served'
    PROVE  Complete'
  <1> USE DEF Goto, conf, mutex, local, counts, history
  <1>b. ASSUME NEW r \in Run, InBody(r), NEW q \in Run, q # r PROVE pc[q] \notin Phases
    BY <1>b DEF OneBody, InBody, Phases
  \* Steps that touch neither relays nor files.
  <1>q. ASSUME served' = served, UNCHANGED <<relays, ini, xml>>,
               \A q \in Run : \/ pc[q] \notin Phases /\ pc'[q] \notin Phases
                              \/ UNCHANGED <<pc[q], todo[q], channel_dict[q]>>
        PROVE  Complete'
    <2>1. Complete
      BY <1>q
    <2>2. \A g \in Guid : Some(g)' <=> Some(g)
      BY <1>q DEF Some, Relayed, Relays
    <2>3. \A q \in Run : Updating(q)' <=> Updating(q)
      BY <1>q DEF Updating
    <2>4. \A g \in Guid : Want(g)' = Want(g)
      BY <1>q DEF Want
    <2>5. ASSUME NEW q \in Run PROVE Progress(q)'
      BY <1>q, <2>1, <2>2, <2>4 DEF Complete, Progress, Phases, Keys
    <2> QED BY <1>q, <2>1, <2>2, <2>3, <2>4, <2>5 DEF Complete
  <1>1. ASSUME NEW l \in Lists, EditCms(l) PROVE Complete'
    BY <1>1, <1>q DEF EditCms
  <1>2. ASSUME NEW g \in Guid, NEW u \in Addr, RelayDies(g, u) PROVE Complete'
    BY <1>2 DEF RelayDies
  <1>3. ASSUME NEW r \in Run, NEW c \in {"monitor", "stop"}, Start(r, c) PROVE Complete'
    BY <1>3, <1>q DEF Start, TypeOK, Phases
  <1>4. ASSUME NEW r \in Run, Truncate(r) \/ Ps(r) PROVE Complete'
    BY <1>4, <1>q DEF Truncate, Ps, TypeOK, Phases
  <1>5. ASSUME NEW r \in Run, Flock(r) PROVE Complete'
    <2>1. \A q \in Run : /\ q # r => UNCHANGED <<pc[q], todo[q], channel_dict[q]>>
                         /\ pc[r] \notin Phases /\ pc'[r] \notin Phases
      BY <1>5 DEF Flock, Gone, TypeOK, Phases
    <2> QED BY <1>5, <1>q, <2>1 DEF Flock
  <1>6. ASSUME NEW r \in Run, Test(r) PROVE Complete'
    <2>1. \A q \in Run : /\ q # r => UNCHANGED <<pc[q], todo[q], channel_dict[q]>>
                         /\ pc[r] \notin Phases /\ pc'[r] \notin Phases
      BY <1>6 DEF Test, Gone, TypeOK, Phases
    <2> QED BY <1>6, <1>q, <2>1 DEF Test
  <1>7. ASSUME NEW r \in Run, PushStop(r) \/ Kill(r) PROVE Complete'
    BY <1>7 DEF PushStop, Kill
  <1>8. ASSUME NEW r \in Run, Fetch(r) PROVE Complete'
    <2>1. /\ xml' = [urls |-> cms, good |-> TRUE] /\ pc[r] = "fetch"
          /\ \A q \in Run : pc'[q] = IF q = r THEN "compare" ELSE pc[q]
      BY <1>8 DEF Fetch, TypeOK
    <2>2. \A q \in Run : q # r => pc[q] \notin Phases
      BY <1>b, <2>1 DEF InBody
    <2>3. \A q \in Run : Progress(q)'
      BY <2>1, <2>2 DEF Progress, Phases
    <2>4. Updating(r)' /\ xml'.good
      BY <2>1 DEF Updating, Phases
    <2> QED BY <2>3, <2>4 DEF Complete
  <1>9. ASSUME NEW r \in Run, NEW g \in Guid, Compare(r, g) PROVE Complete'
    <2>1. Complete /\ pc[r] = "compare" /\ pc' = pc /\ xml' = xml
      BY <1>9 DEF Compare
    <2>2. \A q \in Run : q # r => pc[q] \notin Phases
      BY <1>b, <2>1 DEF InBody
    <2>3. \A q \in Run : Progress(q)'
      BY <2>1, <2>2 DEF Progress, Phases
    <2>4. Updating(r)'
      BY <2>1 DEF Updating, Phases
    <2> QED BY <2>1, <2>3, <2>4 DEF Complete
  <1>10. ASSUME NEW r \in Run, ParseXml(r) PROVE Complete'
    <2>1. /\ Complete /\ pc[r] = "compare" /\ xml' = xml
          /\ \A q \in Run : pc'[q] = IF q = r THEN "write" ELSE pc[q]
          /\ \A g \in Guid : channel_dict'[r][g] =
                IF xml.good /\ g \in Proper THEN xml.urls[g] ELSE None
      BY <1>10 DEF ParseXml, TypeOK
    <2>2. \A q \in Run : q # r => pc[q] \notin Phases
      BY <1>b, <2>1 DEF InBody
    <2>3. \A q \in Run : Progress(q)'
      BY <2>1, <2>2 DEF Progress, Phases, Complete, Want
    <2>4. Updating(r)'
      BY <2>1 DEF Updating, Phases
    <2> QED BY <2>1, <2>3, <2>4 DEF Complete
  <1>11. ASSUME NEW r \in Run, WriteIni(r) PROVE Complete'
    <2>1. /\ Complete /\ pc[r] = "write" /\ xml' = xml /\ ini' = channel_dict[r]
          /\ \A q \in Run : pc'[q] = IF q = r THEN "clear" ELSE pc[q]
      BY <1>11 DEF WriteIni, TypeOK
    <2>2. \A q \in Run : q # r => pc[q] \notin Phases
      BY <1>b, <2>1 DEF InBody
    <2>3. \A q \in Run : Progress(q)'
      BY <2>1, <2>2 DEF Progress, Phases, Complete, Want
    <2>4. Updating(r)'
      BY <2>1 DEF Updating, Phases
    <2> QED BY <2>1, <2>3, <2>4 DEF Complete
  <1>12. ASSUME NEW r \in Run, NEW g \in Guid, Clear(r, g) PROVE Complete'
    <2>1. Complete /\ pc[r] = "clear" /\ UNCHANGED <<pc, xml, ini>>
      BY <1>12 DEF Clear
    <2>2. \A q \in Run : q # r => pc[q] \notin Phases
      BY <1>b, <2>1 DEF InBody
    <2>3. \A q \in Run : Progress(q)'
      BY <2>1, <2>2 DEF Progress, Phases, Complete, Want
    <2>4. Updating(r)'
      BY <2>1 DEF Updating, Phases
    <2> QED BY <2>1, <2>3, <2>4 DEF Complete
  <1>13. ASSUME NEW r \in Run, PushStart(r) PROVE Complete'
    <2>1. /\ Complete /\ pc[r] = "clear" /\ UNCHANGED <<xml, ini>> /\ todo'[r] = Keys(ini)
          /\ \A q \in Run : pc'[q] = IF q = r THEN "start" ELSE pc[q]
      BY <1>13 DEF PushStart, TypeOK
    <2>2. \A q \in Run : q # r => pc[q] \notin Phases
      BY <1>b, <2>1 DEF InBody
    <2>3. \A q \in Run : Progress(q)'
      BY <2>1, <2>2 DEF Progress, Phases, Complete, Want, Keys
    <2>4. Updating(r)'
      BY <2>1 DEF Updating, Phases
    <2> QED BY <2>1, <2>3, <2>4 DEF Complete
  <1>14. ASSUME NEW r \in Run, NEW g \in Guid, StartRelay(r, g) PROVE Complete'
    <2>1. /\ Complete /\ pc[r] = "start" /\ UNCHANGED <<xml, ini, pc>> /\ todo'[r] = todo[r] \ {g}
      BY <1>14 DEF StartRelay, TypeOK
    <2>2. \A q \in Run : q # r => pc[q] \notin Phases
      BY <1>b, <2>1 DEF InBody
    <2>3. Some(g)' /\ \A h \in Guid : Some(h) => Some(h)'
      <3>1. CASE Some(g)
        <4>1. relays' = relays
          BY <1>14, <3>1, CountRelays DEF StartRelay
        <4> QED BY <3>1, <4>1 DEF Some, Relayed, Relays
      <3>2. CASE ~Some(g)
        <4>1. PICK x \in Addr : relays' = [relays EXCEPT ![<<g, x>>] = relays[<<g, x>>] + 1]
          BY <1>14, <3>2, CountRelays DEF StartRelay, TypeOK
        <4>2. ASSUME NEW h \in Guid, NEW u \in Addr
              PROVE  Relays(h, u)' \in {Relays(h, u), Relays(h, u) + 1} /\ Relays(h, u) \in Nat
          BY <4>1 DEF TypeOK, Relays
        <4>3. Relays(g, x)' = Relays(g, x) + 1
          BY <4>1 DEF TypeOK, Relays
        <4>4. Relayed(g, x)'
          BY <4>2, <4>3 DEF Relayed
        <4>5. \A h \in Guid, u \in Addr : Relayed(h, u) => Relayed(h, u)'
          BY <4>2 DEF Relayed
        <4> QED BY <4>4, <4>5 DEF Some
      <3> QED BY <3>1, <3>2
    <2>4. \A q \in Run : Progress(q)'
      BY <2>1, <2>2, <2>3 DEF Progress, Phases, Complete, Want, Keys
    <2>5. Updating(r)'
      BY <2>1 DEF Updating, Phases
    <2> QED BY <2>1, <2>4, <2>5 DEF Complete
  <1>15. ASSUME NEW r \in Run, Finish(r) PROVE Complete'
    <2>1. /\ Complete /\ pc[r] = "start" /\ todo[r] = {} /\ UNCHANGED <<xml, ini, relays>>
          /\ \A q \in Run : pc'[q] = IF q = r THEN "idle" ELSE pc[q]
      BY <1>15 DEF Finish, Gone, TypeOK
    <2>2. \A q \in Run : q # r => pc[q] \notin Phases
      BY <1>b, <2>1 DEF InBody
    <2>3. \A g \in Guid : ini'[g] = Want(g)' /\ (ini'[g] # None => Some(g)')
      BY <2>1 DEF Complete, Progress, Want, Keys, Some, Relayed, Relays
    <2>4. \A q \in Run : Progress(q)'
      BY <2>1, <2>2 DEF Progress, Phases
    <2> QED BY <2>1, <2>3, <2>4 DEF Complete
  <1>16. CASE UNCHANGED vars
    BY <1>16, <1>q DEF vars
  <1> QED
    BY <1>1, <1>2, <1>3, <1>4, <1>5, <1>6, <1>7, <1>8, <1>9, <1>10, <1>11, <1>12,
       <1>13, <1>14, <1>15, <1>16 DEF Next, Script

\* After an instance that got the list has ended, exactly the proper channels of
\* the list are relayed, each from its address, whatever relays and files it
\* found when it began.
THEOREM ListServed == Spec => []Served
  <1> DEFINE Inv == ~overlap /\ ~torn /\ served => Complete
  <1>1. Spec => [](TypeOK /\ CurrentInv)
    BY CurrentHolds
  <1>2. Init => Inv
    BY DEF Init
  <1>3. TypeOK /\ CurrentInv /\ Inv /\ [Next]_vars => Inv'
    <2> SUFFICES ASSUME TypeOK, CurrentInv, Inv, [Next]_vars, ~overlap', ~torn', served'
                 PROVE  Complete'
      OBVIOUS
    <2>1. ~overlap /\ ~torn
      BY OneBodyNext, TornStays DEF CurrentInv
    <2> QED BY <2>1, CompleteNext DEF CurrentInv
  <1>4. TypeOK /\ CurrentInv /\ Inv => Served
    <2> SUFFICES ASSUME TypeOK, CurrentInv, Inv, served, Quiet, ~overlap, ~torn,
                        NEW g \in Guid, NEW u \in Url
                 PROVE  relays[<<g, u>>] > 0 <=> g \in Proper /\ xml.urls[g] = u
      BY DEF Served
    <2>1. Single /\ AtIni /\ Complete
      BY DEF CurrentInv, Current, Quiet, Steady
    <2>2. ini[g] = Want(g) /\ (ini[g] # None => Some(g))
      BY <2>1 DEF Complete, Quiet, Updating, Phases
    <2>3. u \in Addr /\ u # None
      BY PushAssumption DEF Addr
    <2>4. Relayed(g, u) => ini[g] = u
      BY <2>1, <2>3 DEF AtIni
    <2>5. ini[g] = u => Relayed(g, u)
      BY <2>1, <2>2, <2>3 DEF AtIni, Some
    <2> QED BY <2>2, <2>3, <2>4, <2>5 DEF Want, Relayed, Relays
  <1> QED BY <1>1, <1>2, <1>3, <1>4, PTL DEF Spec

----------------------------------------------------------------------------
(* The relay.                                                              *)

Piece == {"head", "data"}

LEMMA TunnelFirst == 1 \in Tunnel /\ Tunnel \subseteq Nat
  BY RelayAssumption DEF Tunnel

\* A step of a loop over the tunnels stays within them.
LEMMA StepType ==
    ASSUME NEW l, NEW m, at \in Tunnel, Step(l, m)
    PROVE  at' \in Tunnel /\ pull' \in {l, m}
  BY RelayAssumption DEF Step, Tunnel

\* The two queue operations of the threads.
LEMMA PutQueue ==
    ASSUME queue \in [Tunnel -> Seq(Piece)], NEW t \in Tunnel, NEW k \in Piece, Put(t, k)
    PROVE  /\ queue' \in [Tunnel -> Seq(Piece)]
           /\ \A u \in Tunnel : u # t => queue'[u] = queue[u]
           /\ queue'[t] = Append(queue[t], k)
           /\ Len(queue[t]) \in Nat /\ Len(queue'[t]) = Len(queue[t]) + 1
  <1>1. queue[t] \in Seq(Piece)
    OBVIOUS
  <1>2. Append(queue[t], k) \in Seq(Piece) /\ Len(Append(queue[t], k)) = Len(queue[t]) + 1
        /\ Len(queue[t]) \in Nat
    BY <1>1
  <1>3. queue' = [queue EXCEPT ![t] = Append(queue[t], k)]
    BY DEF Put
  <1> QED BY <1>2, <1>3

LEMMA TakeQueue ==
    ASSUME queue \in [Tunnel -> Seq(Piece)], NEW t \in Tunnel, queue[t] # <<>>,
           queue' = [queue EXCEPT ![t] = Tail(@)]
    PROVE  /\ queue' \in [Tunnel -> Seq(Piece)]
           /\ \A u \in Tunnel : u # t => queue'[u] = queue[u]
           /\ queue'[t] = Tail(queue[t]) /\ Head(queue[t]) \in Piece
           /\ Len(queue[t]) \in Nat /\ Len(queue'[t]) = Len(queue[t]) - 1
  <1>1. queue[t] \in Seq(Piece)
    OBVIOUS
  <1>2. Tail(queue[t]) \in Seq(Piece) /\ Len(Tail(queue[t])) = Len(queue[t]) - 1
        /\ Len(queue[t]) \in Nat /\ Head(queue[t]) \in Piece
    BY <1>1
  <1> QED BY <1>2

\* Where the pull thread is while it may still append to a queue.
Room ==
    /\ pull \in {"error", "put"} => Len(queue[at]) < Cap
    /\ pull \in {"connect", "read"} => at = 1

\* The queues are empty when a stream begins: pull connects only after it has
\* emptied all of them, and no one but pull puts anything in.
Emptied(t) ==
    pull = "connect" \/ (pull = "header" /\ at <= t) \/ (pull = "clear" /\ t < at)
        => queue[t] = <<>>

\* sock_error is set only while the push thread is away, and then at most the
\* piece that pull was about to put arrives.
Outage(t) ==
    sock_error[t] =>
        /\ push[t] \in Away \cup {"drain", "drain_get", "dead"}
        /\ push[t] \in Away =>
              Len(queue[t]) <= (IF pull = "put" /\ at = t THEN 0 ELSE 1)

RelayTypes ==
    /\ queue \in [Tunnel -> Seq(Piece)]
    /\ sock_error \in [Tunnel -> BOOLEAN] /\ sock_renew \in [Tunnel -> BOOLEAN]
    /\ flv_header \in [Tunnel -> BOOLEAN]
    /\ pull \in PullLabels /\ at \in Tunnel /\ is_renew \in BOOLEAN
    /\ push \in [Tunnel -> PushLabels]
    /\ piece \in [Tunnel -> {"none", "head", "data"}]
    /\ sock \in [Tunnel -> {"none", "fresh", "started"}]
    /\ fails \in 0..MaxFail

Short(t) ==
    /\ Len(queue[t]) <= Cap
    /\ \A i \in DOMAIN queue[t] : queue[t][i] = "head" => i = 1

RelayInv == RelayTypes /\ Room /\ \A t \in Tunnel : Short(t) /\ Emptied(t) /\ Outage(t)

LEMMA RelayInvInit == RelayInit => RelayInv
  <1> SUFFICES ASSUME RelayInit PROVE RelayInv
    OBVIOUS
  <1>1. queue \in [Tunnel -> Seq(Piece)] /\ \A t \in Tunnel : queue[t] = <<>>
    BY DEF RelayInit
  <1>0. fails \in 0..MaxFail
    BY RelayAssumption DEF RelayInit
  <1>2. RelayTypes
    BY <1>0, <1>1, TunnelFirst DEF RelayInit, RelayTypes, PullLabels, PushLabels
  <1>3. Room
    BY DEF RelayInit, Room
  <1>4. \A t \in Tunnel : Short(t) /\ Emptied(t) /\ Outage(t)
    BY <1>1, RelayAssumption DEF RelayInit, Short, Emptied, Outage
  <1> QED BY <1>2, <1>3, <1>4 DEF RelayInv

\* A step of the pull thread that touches no queue.
LEMMA RelayTypesPull ==
    ASSUME RelayTypes, Pull \/ PullFails
    PROVE  RelayTypes'
  <1> USE DEF RelayTypes, tunnel, pusher
  <1>1. CASE PullConnect
    BY <1>1 DEF PullConnect, PullLabels
  <1>2. CASE PullFails
    BY <1>2, RelayAssumption DEF PullFails, Fails, PullLabels
  <1>3. CASE PullHeader
    <2>1. at' \in Tunnel /\ pull' \in PullLabels
      BY <1>3, StepType DEF PullHeader, PullLabels
    <2>2. queue' \in [Tunnel -> Seq(Piece)] /\ sock_renew' \in [Tunnel -> BOOLEAN]
      BY <1>3, PutQueue DEF PullHeader, Set, Piece
    <2> QED BY <1>3, <2>1, <2>2 DEF PullHeader
  <1>4. CASE PullCheck
    <2>1. at' \in Tunnel /\ pull' \in PullLabels
      BY <1>4, StepType DEF PullCheck, PullLabels
    <2>2. is_renew' \in BOOLEAN /\ sock_error' \in [Tunnel -> BOOLEAN]
      BY <1>4 DEF PullCheck
    <2> QED BY <1>4, <2>1, <2>2 DEF PullCheck
  <1>5. CASE PullRenew
    BY <1>5, StepType DEF PullRenew, Set, PullLabels
  <1>6. CASE PullRead
    BY <1>6 DEF PullRead, PullLabels
  <1>7. CASE PullFull
    BY <1>7, StepType DEF PullFull, Set, PullLabels
  <1>8. CASE PullError
    BY <1>8, StepType DEF PullError, PullLabels
  <1>9. CASE PullPut
    <2>1. at' \in Tunnel /\ pull' \in PullLabels
      BY <1>9, StepType DEF PullPut, PullLabels
    <2>2. queue' \in [Tunnel -> Seq(Piece)]
      BY <1>9, PutQueue DEF PullPut, Piece
    <2> QED BY <1>9, <2>1, <2>2 DEF PullPut
  <1>10. CASE PullClear
    <2>1. at' \in Tunnel /\ pull' \in PullLabels
      BY <1>10, StepType DEF PullClear, PullLabels
    <2>2. queue' \in [Tunnel -> Seq(Piece)]
      BY <1>10, TakeQueue DEF PullClear
    <2> QED BY <1>10, <2>1, <2>2 DEF PullClear
  <1> QED BY <1>1, <1>2, <1>3, <1>4, <1>5, <1>6, <1>7, <1>8, <1>9, <1>10 DEF Pull

LEMMA RelayTypesPush ==
    ASSUME RelayTypes, NEW t \in Tunnel, Push(t) \/ HeaderPartial(t) \/ PushFails(t)
    PROVE  RelayTypes'
  <1> USE DEF RelayTypes, tunnel, puller, PushGoto, PushLabels
  <1>1. CASE PushConnect(t) \/ ClearRenew(t) \/ TestError(t)
    BY <1>1 DEF PushConnect, ClearRenew, TestError
  <1>2. CASE HeaderOnly(t) \/ TestRenew(t) \/ GetEmpty(t) \/ PushSend(t) \/ DrainTest(t)
    BY <1>2 DEF HeaderOnly, TestRenew, GetEmpty, PushSend, DrainTest, Set
  <1>3. CASE PushGet(t)
    <2>1. queue' \in [Tunnel -> Seq(Piece)] /\ Head(queue[t]) \in Piece
      BY <1>3, TakeQueue DEF PushGet
    <2> QED BY <1>3, <2>1 DEF PushGet, Piece
  <1>4. CASE DrainGet(t)
    <2>1. queue' \in [Tunnel -> Seq(Piece)]
      BY <1>4, TakeQueue DEF DrainGet
    <2> QED BY <1>4, <2>1 DEF DrainGet
  <1>5. CASE HeaderPartial(t) \/ PushFails(t)
    <2>1. fails' \in 0..MaxFail
      BY <1>5, RelayAssumption DEF HeaderPartial, PushFails, Fails
    <2> QED BY <1>5, <2>1 DEF HeaderPartial, PushFails
  <1> QED BY <1>1, <1>2, <1>3, <1>4, <1>5 DEF Push

\* What the pull thread does to the queues and to where it is.
LEMMA RelayInvPull ==
    ASSUME RelayInv, Pull \/ PullFails
    PROVE  Room' /\ \A t \in Tunnel : Short(t)' /\ Emptied(t)' /\ Outage(t)'
  <1> USE RelayAssumption DEF tunnel, pusher, Tunnel
  <1>i. RelayTypes /\ Room /\ \A t \in Tunnel : Short(t) /\ Emptied(t) /\ Outage(t)
    BY DEF RelayInv
  <1>t. at \in 1..N /\ queue \in [Tunnel -> Seq(Piece)] /\ \A t \in Tunnel : Len(queue[t]) \in Nat
    BY <1>i DEF RelayTypes
  \* A step that leaves the queues alone and leads to none of the places where
  \* they are put to or have to be empty.
  <1>q. ASSUME UNCHANGED <<queue, push>>, pull' \notin {"error", "put", "connect", "header", "clear"},
               pull' = "read" => at' = 1,
               \A t \in Tunnel : sock_error'[t] => sock_error[t]
        PROVE  Room' /\ \A t \in Tunnel : Short(t)' /\ Emptied(t)' /\ Outage(t)'
    <2>1. \A t \in Tunnel : Outage(t)'
      BY <1>i, <1>q, <1>t DEF Outage
    <2> QED BY <1>i, <1>q, <2>1 DEF Room, Short, Emptied
  <1>1. CASE PullConnect
    <2>1. /\ UNCHANGED <<queue, push, sock_error, at>> /\ pull = "connect" /\ pull' = "header"
      BY <1>1 DEF PullConnect
    <2> QED BY <1>i, <2>1 DEF Room, Short, Emptied, Outage
  <1>2. CASE PullFails
    <2>1. /\ UNCHANGED <<queue, push, sock_error, at>> /\ pull \in {"connect", "read"} /\ pull' = "clear"
          /\ at = 1
      BY <1>2, <1>i DEF PullFails, Room
    <2> QED BY <1>i, <2>1 DEF Room, Short, Emptied, Outage
  <1>3. CASE PullHeader
    <2>1. queue[at] = <<>> /\ ~Full(at) /\ Len(queue[at]) = 0
      BY <1>3, <1>i, <1>t DEF PullHeader, Emptied, Full
    <2>2. /\ UNCHANGED <<push, sock_error>> /\ Put(at, "head") /\ pull = "header"
          /\ Step("header", "check")
      BY <1>3, <2>1 DEF PullHeader
    <2>a. /\ \A u \in Tunnel : u # at => queue'[u] = queue[u]
          /\ queue'[at] = Append(queue[at], "head")
      BY <1>t, <2>2, PutQueue DEF Piece
    <2>3. /\ \A u \in Tunnel : u # at => queue'[u] = queue[u]
          /\ Len(queue'[at]) = 1 /\ DOMAIN queue'[at] = {1}
      BY <2>1, <2>a
    <2>4. Room'
      BY <2>2 DEF Step, Room
    <2>5. ASSUME NEW t \in Tunnel PROVE Short(t)' /\ Emptied(t)' /\ Outage(t)'
      <3>1. CASE t = at
        <4>0. Len(queue'[t]) = 1 /\ DOMAIN queue'[t] = {1}
          BY ONLY <2>3, <3>1
        <4>a. \A i \in DOMAIN queue'[t] : queue'[t][i] = "head" => i = 1
          BY ONLY <4>0
        <4>b. Len(queue'[t]) <= Cap
          BY <4>0
        <4>1. Short(t)'
          BY <4>a, <4>b DEF Short
        <4>2. Emptied(t)' /\ Outage(t)'
          BY <1>i, <1>t, <2>2, <4>0, <3>1 DEF Emptied, Outage, Step
        <4> QED BY <4>1, <4>2
      <3>2. CASE t # at
        BY <1>i, <1>t, <2>2, <2>3, <3>2 DEF Short, Emptied, Outage, Step
      <3> QED BY <3>1, <3>2
    <2> QED BY <2>4, <2>5
  <1>4. CASE PullCheck
    <2>1. /\ UNCHANGED <<queue, push>> /\ \A t \in Tunnel : sock_error'[t] => sock_error[t]
      BY <1>4, <1>i, <1>t DEF PullCheck, RelayTypes
    <2>2. pull' \in {"check", "renew", "read"} /\ (pull' = "read" => at' = 1)
      BY <1>4, <1>t DEF PullCheck, Step
    <2> QED BY <1>q, <2>1, <2>2
  <1>5. CASE PullRenew
    <2>1. /\ UNCHANGED <<queue, push, sock_error>> /\ Step("renew", "clear") /\ pull = "renew"
      BY <1>5 DEF PullRenew
    <2> QED BY <1>i, <1>t, <2>1 DEF Step, Room, Short, Emptied, Outage
  <1>6. CASE PullRead
    BY <1>6, <1>q DEF PullRead
  <1>7. CASE PullFull
    <2>1. UNCHANGED <<queue, push, sock_error>> /\ pull = "full"
      BY <1>7 DEF PullFull
    <2>2. CASE Full(at)
      <3>1. pull' \in {"full", "check"}
        BY <1>7, <2>2 DEF PullFull, Step
      <3> QED BY <1>q, <2>1, <3>1
    <2>3. CASE ~Full(at)
      <3>1. at' = at /\ pull' = "error" /\ Len(queue[at]) < Cap
        BY <1>7, <1>i, <1>t, <2>3 DEF PullFull, Full, Short
      <3> QED BY <1>i, <2>1, <3>1 DEF Room, Short, Emptied, Outage
    <2> QED BY <2>2, <2>3
  <1>8. CASE PullError
    <2>1. UNCHANGED <<queue, push, sock_error>> /\ pull = "error"
      BY <1>8 DEF PullError
    <2>2. CASE sock_error[at]
      <3>1. pull' \in {"full", "check"}
        BY <1>8, <2>2 DEF PullError, Step
      <3> QED BY <1>q, <2>1, <3>1
    <2>3. CASE ~sock_error[at]
      <3>1. at' = at /\ pull' = "put"
        BY <1>8, <2>3 DEF PullError
      <3> QED BY <1>i, <2>1, <2>3, <3>1 DEF Room, Short, Emptied, Outage
    <2> QED BY <2>2, <2>3
  <1>9. CASE PullPut
    <2>1. /\ UNCHANGED <<push, sock_error>> /\ Put(at, "data") /\ pull = "put"
          /\ Step("full", "check")
      BY <1>9 DEF PullPut
    <2>2. /\ \A u \in Tunnel : u # at => queue'[u] = queue[u]
          /\ queue'[at] = Append(queue[at], "data") /\ Len(queue'[at]) = Len(queue[at]) + 1
      BY <1>t, <2>1, PutQueue DEF Piece
    <2>3. Len(queue[at]) < Cap
      BY <1>i, <2>1 DEF Room
    <2>4. pull' \in {"full", "check"}
      BY <2>1 DEF Step
    <2>5. Room' /\ \A t \in Tunnel : Emptied(t)'
      BY <2>4 DEF Room, Emptied
    <2>6. ASSUME NEW t \in Tunnel PROVE Short(t)' /\ Outage(t)'
      <3>1. CASE t = at
        <4>1. Short(t)'
          <5>1. queue[at] \in Seq(Piece)
            BY <1>t
          <5>2. \A i \in DOMAIN queue'[at] :
                   \/ i \in DOMAIN queue[at] /\ queue'[at][i] = queue[at][i]
                   \/ queue'[at][i] = "data"
            BY <2>2, <5>1
          <5>3. Len(queue'[at]) <= Cap
            BY <1>t, <2>2, <2>3
          <5>4. \A i \in DOMAIN queue'[at] : queue'[at][i] = "head" => i = 1
            BY <1>i, <1>t, <5>2 DEF Short
          <5> QED BY <3>1, <5>3, <5>4 DEF Short
        <4>2. Outage(t)'
          BY <1>i, <1>t, <2>1, <2>2, <2>4, <3>1 DEF Outage
        <4> QED BY <4>1, <4>2
      <3>2. CASE t # at
        BY <1>i, <1>t, <2>1, <2>2, <2>4, <3>2 DEF Short, Outage
      <3> QED BY <3>1, <3>2
    <2> QED BY <2>5, <2>6
  <1>10. CASE PullClear
    <2>1. UNCHANGED <<push, sock_error>> /\ pull = "clear"
      BY <1>10 DEF PullClear
    <2>2. CASE queue[at] = <<>>
      <3>1. queue' = queue /\ Step("clear", "connect")
        BY <1>10, <2>2 DEF PullClear
      <3>2. Room' /\ \A t \in Tunnel : Short(t)' /\ Outage(t)'
        BY <1>i, <1>t, <2>1, <3>1 DEF Step, Room, Short, Outage
      <3>3. \A t \in Tunnel : Emptied(t)'
        BY <1>i, <1>t, <2>1, <2>2, <3>1 DEF Step, Emptied
      <3> QED BY <3>2, <3>3
    <2>3. CASE queue[at] # <<>>
      <3>1. queue' = [queue EXCEPT ![at] = Tail(@)] /\ pull' = pull /\ at' = at
        BY <1>10, <2>3 DEF PullClear
      <3>2. /\ \A u \in Tunnel : u # at => queue'[u] = queue[u]
            /\ queue'[at] = Tail(queue[at]) /\ Len(queue'[at]) = Len(queue[at]) - 1
        BY <1>t, <2>3, <3>1, TakeQueue
      <3>3. Room' /\ \A t \in Tunnel : Emptied(t)'
        BY <1>i, <1>t, <2>1, <3>1, <3>2 DEF Room, Emptied
      <3>4. \A t \in Tunnel : Short(t)' /\ Outage(t)'
        BY <1>i, <1>t, <2>1, <3>1, <3>2 DEF Short, Outage
      <3> QED BY <3>3, <3>4
    <2> QED BY <2>2, <2>3
  <1> QED BY <1>1, <1>2, <1>3, <1>4, <1>5, <1>6, <1>7, <1>8, <1>9, <1>10 DEF Pull

LEMMA RelayInvPush ==
    ASSUME RelayInv, NEW p \in Tunnel, Push(p) \/ HeaderPartial(p) \/ PushFails(p)
    PROVE  Room' /\ \A t \in Tunnel : Short(t)' /\ Emptied(t)' /\ Outage(t)'
  <1> USE DEF tunnel, puller, PushGoto
  <1>i. RelayTypes /\ Room /\ \A t \in Tunnel : Short(t) /\ Emptied(t) /\ Outage(t)
    BY DEF RelayInv
  <1>t. at \in Tunnel /\ queue \in [Tunnel -> Seq(Piece)] /\ \A t \in Tunnel : Len(queue[t]) \in Nat
    BY <1>i DEF RelayTypes
  \* A step that leaves the queues alone: the push thread comes near its server
  \* only from there, or with its queue empty, or when no error is noted.
  <1>q. ASSUME UNCHANGED <<queue, pull, at>>,
               \A t \in Tunnel : sock_error'[t] /\ push'[t] \notin {"drain", "drain_get", "dead"} =>
                   /\ sock_error[t] /\ push'[t] \in Away
                   /\ push[t] \in Away \/ queue[t] = <<>>
        PROVE  Room' /\ \A t \in Tunnel : Short(t)' /\ Emptied(t)' /\ Outage(t)'
    <2>1. \A t \in Tunnel : queue[t] = <<>> => Len(queue[t]) = 0
      OBVIOUS
    <2>2. \A t \in Tunnel : Outage(t)'
      BY <1>i, <1>q, <1>t, <2>1 DEF Outage, Away
    <2> QED BY <1>i, <1>q, <2>2 DEF Room, Short, Emptied
  \* The push thread takes a piece.
  <1>g. ASSUME queue[p] # <<>>, queue' = [queue EXCEPT ![p] = Tail(@)],
               UNCHANGED <<pull, at, sock_error>>,
               \A t \in Tunnel : t # p => push'[t] = push[t],
               push[p] = "get" \/ push'[p] = "drain"
        PROVE  Room' /\ \A t \in Tunnel : Short(t)' /\ Emptied(t)' /\ Outage(t)'
    <2>1. /\ \A t \in Tunnel : t # p => queue'[t] = queue[t]
          /\ queue'[p] = Tail(queue[p]) /\ Len(queue'[p]) = Len(queue[p]) - 1
      BY <1>g, <1>t, TakeQueue
    <2>2. Room'
      BY <1>i, <1>g, <1>t, <2>1, RelayAssumption DEF Room
    <2>3. \A t \in Tunnel : Short(t)'
      BY <1>i, <1>g, <1>t, <2>1, RelayAssumption DEF Short
    <2>4. \A t \in Tunnel : Emptied(t)'
      BY <1>i, <1>g, <2>1 DEF Emptied
    <2>5. \A t \in Tunnel : Outage(t)'
      BY <1>i, <1>g, <2>1 DEF Outage, Away
    <2> QED BY <2>2, <2>3, <2>4, <2>5
  <1>p. push \in [Tunnel -> PushLabels] /\ sock_error \in [Tunnel -> BOOLEAN]
    BY <1>i DEF RelayTypes
  <1>e. \A t \in Tunnel : sock_error[t] => push[t] \in Away \cup {"drain", "drain_get", "dead"}
    BY <1>i DEF Outage
  <1>1. CASE PushConnect(p) \/ ClearRenew(p)
    BY <1>1, <1>q, <1>p, <1>e DEF PushConnect, ClearRenew, Away
  <1>2. CASE TestError(p)
    BY <1>2, <1>q, <1>p, <1>e DEF TestError, Away
  <1>3. CASE HeaderOnly(p) \/ HeaderPartial(p)
    BY <1>3, <1>q, <1>p, <1>e DEF HeaderOnly, HeaderPartial, Away
  <1>4. CASE TestRenew(p)
    BY <1>4, <1>q, <1>p, <1>e DEF TestRenew, Away
  <1>5. CASE PushGet(p)
    BY <1>5, <1>g, <1>p DEF PushGet
  <1>6. CASE GetEmpty(p) \/ PushSend(p)
    BY <1>6, <1>q, <1>p, <1>e DEF GetEmpty, PushSend, Away
  <1>7. CASE PushFails(p)
    BY <1>7, <1>q, <1>p, <1>e DEF PushFails, Away
  <1>8. CASE DrainTest(p)
    BY <1>8, <1>q, <1>p, <1>e DEF DrainTest, Away
  <1>9. CASE DrainGet(p)
    <2>1. CASE queue[p] = <<>>
      BY <1>9, <1>q, <1>p, <1>e, <2>1 DEF DrainGet, Away
    <2>2. CASE queue[p] # <<>>
      BY <1>9, <1>g, <1>p, <2>2 DEF DrainGet
    <2> QED BY <2>1, <2>2
  <1> QED BY <1>1, <1>2, <1>3, <1>4, <1>5, <1>6, <1>7, <1>8, <1>9 DEF Push

LEMMA RelayInvNext == RelayInv /\ [RelayNext]_relay_vars => RelayInv'
  <1> SUFFICES ASSUME RelayInv, [RelayNext]_relay_vars PROVE RelayInv'
    OBVIOUS
  <1>1. CASE Pull \/ PullFails
    BY <1>1, RelayInvPull, RelayTypesPull DEF RelayInv
  <1>2. ASSUME NEW t \in Tunnel, Push(t) \/ HeaderPartial(t) \/ PushFails(t) PROVE RelayInv'
    BY <1>2, RelayInvPush, RelayTypesPush DEF RelayInv
  <1>3. CASE UNCHANGED relay_vars
    BY <1>3 DEF relay_vars, tunnel, puller, pusher, RelayInv, RelayTypes, Room, Short, Emptied, Outage
  <1> QED BY <1>1, <1>2, <1>3 DEF RelayNext

LEMMA RelayInvHolds == RelaySpec => []RelayInv
  BY RelayInvInit, RelayInvNext, PTL DEF RelaySpec

\* Type correctness of the relay.
THEOREM RelayTypeCorrect == RelaySpec => []RelayTypeOK
  <1>1. RelayInv => RelayTypeOK
    BY DEF RelayInv, RelayTypes, Short, RelayTypeOK, Piece
  <1> QED BY <1>1, RelayInvHolds, PTL

\* The pull thread never meets a full queue when it puts, although it tests for
\* room one step earlier, and the outage of one server leaves at most one piece
\* in its queue, for any number of servers, failures and interleavings of the
\* push threads with the tests, puts and clears of the pull thread.
THEOREM RelayBounded == RelaySpec => []QueuesBounded
  <1>1. RelayInv => QueuesBounded
    <2> SUFFICES ASSUME RelayInv, NEW t \in Tunnel
                 PROVE  /\ Len(queue[t]) <= Cap
                        /\ sock_error[t] /\ push[t] \in Away => Len(queue[t]) <= 1
      BY DEF QueuesBounded
    <2>1. Short(t) /\ Outage(t) /\ Len(queue[t]) \in Nat
      BY DEF RelayInv, RelayTypes
    <2> QED BY <2>1 DEF Short, Outage
  <1> QED BY <1>1, RelayInvHolds, PTL

\* What was left of the last stream is gone when the next one begins.
THEOREM StreamsApart == RelaySpec => []HeadInFront
  <1>1. RelayInv => HeadInFront
    BY DEF RelayInv, Short, HeadInFront
  <1> QED BY <1>1, RelayInvHolds, PTL
=============================================================================
