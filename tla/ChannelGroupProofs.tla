------------------------- MODULE ChannelGroupProofs -------------------------
(***************************************************************************)
(* Proofs about the registry of the control server, for any number of      *)
(* channels, serial numbers and messages.                                  *)
(***************************************************************************)
EXTENDS ChannelGroup, FiniteSetTheorems, TLAPS

Registering == {"contains", "remove", "unlisten", "put", "listen"}
Ending      == {"notify", "drop", "done"}

\* Where the thread of a channel can be, given its state and attachment; every
\* registration of remover belongs to a message of its own.
Local(c) ==
    /\ listeners[c] + (IF pc[c] \in Registering THEN 1 ELSE 0) <= msgs[c]
    /\ attachment[c] \in SerialsOf[c] \cup {None}
    /\ pc[c] \in Registering => attachment[c] # None
    /\ state[c] = "closed" <=> pc[c] \in Ending
    /\ state[c] = "new" => pc[c] = "idle" /\ attachment[c] = None
    /\ old[c] # None <=> pc[c] \in {"unlisten", "drop"}
    /\ attachment[c] = None => listeners[c] = 0

\* Only channels that have registered are in the map or were taken out of it.
Known ==
    /\ \A s \in Serial : clientChannels[s] # None =>
          attachment[clientChannels[s]] # None /\ s \in SerialsOf[clientChannels[s]]
    /\ \A d \in Chan : old[d] # None => attachment[old[d]] # None

\* A request under way goes to a channel that has registered under its number.
Carried(c) ==
    /\ pc[c] \in {"forward", "sent", "failed"} => job[c].serial \in Serial /\ msgs[c] > 0
    /\ pc[c] \in {"forward", "sent"} =>
          /\ job[c].to \in Chan /\ attachment[job[c].to] # None
          /\ job[c].serial \in SerialsOf[job[c].to]

TypeInv == TypeOK /\ (\A c \in Chan : Local(c) /\ Carried(c)) /\ Known

LEMMA TypeInit == Init => TypeInv
  <1> SUFFICES ASSUME Init PROVE TypeInv
    OBVIOUS
  <1>1. /\ listeners \in [Chan -> 0..MaxMsg] /\ msgs \in [Chan -> 0..MaxMsg]
    BY GroupAssumption DEF Init
  <1>2. job \in [Chan -> [to : Chan \cup {None}, serial : Serial \cup {None}]]
    BY DEF Init, NoJob
  <1>3. TypeOK
    BY <1>1, <1>2 DEF Init, TypeOK, Labels
  <1>4. (\A c \in Chan : Local(c) /\ Carried(c)) /\ Known
    BY DEF Init, Local, Carried, Known, Registering, Ending
  <1> QED BY <1>3, <1>4 DEF TypeInv

\* A registration of remover is taken back at most once, and only then.
LEMMA UnlistenedType ==
    ASSUME TypeOK, NEW d \in Chan
    PROVE  /\ Unlistened(d) \in [Chan -> 0..MaxMsg]
           /\ \A c \in Chan : c # d => Unlistened(d)[c] = listeners[c]
           /\ \A c \in Chan : Unlistened(d)[c] <= listeners[c]
           /\ Unlistened(d)[d] = IF state[d] = "open" /\ listeners[d] > 0
                                 THEN listeners[d] - 1 ELSE listeners[d]
  BY GroupAssumption DEF TypeOK, Unlistened

LEMMA TypeNext == TypeInv /\ [Next]_vars => TypeInv'
  <1> SUFFICES ASSUME TypeInv, [Next]_vars PROVE TypeInv'
    OBVIOUS
  <1> USE GroupAssumption DEF Goto, reg, hist, Traffic
  <1>t. TypeOK /\ (\A c \in Chan : Local(c) /\ Carried(c)) /\ Known
    BY DEF TypeInv
  <1>1. ASSUME NEW c \in Chan, Accept(c) PROVE TypeInv'
    BY <1>1, <1>t DEF Accept, TypeInv, TypeOK, Local, Carried, Known, Registering, Ending, Labels
  <1>2. ASSUME NEW c \in Chan, NEW s \in SerialsOf[c], RegistAttach(c, s) PROVE TypeInv'
    BY <1>2, <1>t DEF RegistAttach, Receive, TypeInv, TypeOK, Local, Carried, Known, Registering, Ending, Labels
  <1>3. ASSUME NEW c \in Chan, ContainsKey(c) PROVE TypeInv'
    BY <1>3, <1>t DEF ContainsKey, TypeInv, TypeOK, Local, Carried, Known, Registering, Ending, Labels
  <1>4. ASSUME NEW c \in Chan, RegistRemove(c) PROVE TypeInv'
    BY <1>4, <1>t DEF RegistRemove, MapRemove, TypeInv, TypeOK, Local, Carried, Known, Registering, Ending, Labels
  <1>5. ASSUME NEW c \in Chan, RegistUnlisten(c) PROVE TypeInv'
    <2>1. old[c] \in Chan
      BY <1>5, <1>t DEF RegistUnlisten, TypeOK, Local
    <2>2. /\ listeners' \in [Chan -> 0..MaxMsg]
          /\ \A d \in Chan : listeners'[d] <= listeners[d]
      <3>1. listeners' = Unlistened(old[c])
        BY <1>5 DEF RegistUnlisten
      <3> QED BY <1>t, <2>1, <3>1, UnlistenedType
    <2>3. TypeOK'
      BY <1>5, <1>t, <2>2 DEF RegistUnlisten, TypeOK, Labels
    <2>4. \A d \in Chan : Local(d)'
      BY <1>5, <1>t, <2>2 DEF RegistUnlisten, TypeOK, Local, Registering, Ending
    <2>5. (\A d \in Chan : Carried(d)') /\ Known'
      BY <1>5, <1>t DEF RegistUnlisten, TypeOK, Carried, Known
    <2> QED BY <2>3, <2>4, <2>5 DEF TypeInv
  <1>6. ASSUME NEW c \in Chan, PutIfAbsent(c) PROVE TypeInv'
    <2>1. attachment[c] \in Serial
      BY <1>6, <1>t DEF PutIfAbsent, TypeOK, Local, Registering
    <2>2. CASE clientChannels[attachment[c]] = None
      <3>1. TypeOK'
        BY <1>6, <1>t, <2>1, <2>2 DEF PutIfAbsent, TypeOK, Labels
      <3>2. \A d \in Chan : Local(d)' /\ Carried(d)'
        BY <1>6, <1>t, <2>1, <2>2
        DEF PutIfAbsent, TypeOK, Local, Carried, Registering, Ending
      <3>3. Known'
        BY <1>6, <1>t, <2>1, <2>2 DEF PutIfAbsent, TypeOK, Local, Known
      <3> QED BY <3>1, <3>2, <3>3 DEF TypeInv
    <2>3. CASE clientChannels[attachment[c]] # None
      BY <1>6, <1>t, <2>1, <2>3 DEF PutIfAbsent, TypeInv, TypeOK, Local, Carried, Known, Registering, Ending, Labels
    <2> QED BY <2>2, <2>3
  <1>7. ASSUME NEW c \in Chan, AddListener(c) PROVE TypeInv'
    BY <1>7, <1>t DEF AddListener, TypeInv, TypeOK, Local, Carried, Known, Registering, Ending, Labels
  <1>8. ASSUME NEW c \in Chan, Close(c) PROVE TypeInv'
    BY <1>8, <1>t DEF Close, TypeInv, TypeOK, Local, Carried, Known, Registering, Ending, Labels
  <1>9. ASSUME NEW c \in Chan, OperationComplete(c) PROVE TypeInv'
    BY <1>9, <1>t DEF OperationComplete, MapRemove, TypeInv, TypeOK, Local, Carried, Known, Registering, Ending, Labels
  <1>10. ASSUME NEW c \in Chan, DropListener(c) PROVE TypeInv'
    BY <1>10, <1>t, UnlistenedType DEF DropListener, TypeInv, TypeOK, Local, Carried, Known, Registering, Ending, Labels
  <1>11. ASSUME NEW c \in Chan, Notified(c) PROVE TypeInv'
    BY <1>11, <1>t DEF Notified, TypeInv, TypeOK, Local, Carried, Known, Registering, Ending, Labels
  <1>12. ASSUME NEW c \in Chan, NEW s \in Serial, Find(c, s) PROVE TypeInv'
    BY <1>12, <1>t DEF Find, Receive, TypeInv, TypeOK, Local, Carried, Known, Registering, Ending, Labels
  <1>13. ASSUME NEW c \in Chan, Forward(c) PROVE TypeInv'
    <2>1. Pending(c) \in Request
      BY <1>13, <1>t DEF Forward, Pending, Request, TypeOK, Carried
    <2>2. got' \in [Chan -> SUBSET Request]
      BY <1>13, <1>t, <2>1 DEF Forward, TypeOK, Carried
    <2> QED BY <1>13, <1>t, <2>2 DEF Forward, TypeInv, TypeOK, Local, Carried, Known, Registering, Ending, Labels
  <1>14. ASSUME NEW c \in Chan, Reply(c) PROVE TypeInv'
    <2>1. Pending(c) \in Request
      BY <1>14, <1>t DEF Reply, Pending, Request, TypeOK, Carried
    <2>2. done' \subseteq Request
      BY <1>14, <1>t, <2>1 DEF Reply, TypeOK
    <2>3. NoJob \in [to : Chan \cup {None}, serial : Serial \cup {None}]
      BY DEF NoJob
    <2> QED BY <1>14, <1>t, <2>2, <2>3 DEF Reply, TypeInv, TypeOK, Local, Carried, Known, Registering, Ending, Labels
  <1>15. CASE UNCHANGED vars
    BY <1>15, <1>t DEF vars, TypeInv, TypeOK, Local, Carried, Known, Registering, Ending, Labels
  <1> QED
    BY <1>1, <1>2, <1>3, <1>4, <1>5, <1>6, <1>7, <1>8, <1>9, <1>10, <1>11, <1>12,
       <1>13, <1>14, <1>15 DEF Next, Handler

\* Type correctness of the registry: remover is registered with a close future
\* at most as often as its channel has sent a message.
THEOREM TypeCorrect == Spec => []TypeOK
  <1>1. Spec => []TypeInv
    BY TypeInit, TypeNext, PTL DEF Spec
  <1>2. TypeInv => TypeOK
    BY DEF TypeInv
  <1> QED BY <1>1, <1>2, PTL

----------------------------------------------------------------------------
(* No stale entry. *)

Mapped(c)   == \E s \in Serial : clientChannels[s] = c
Removing(c) == {d \in Chan : old[d] = c}
One(b)      == IF b THEN 1 ELSE 0

\* An open channel has a listener, or is about to add one, for its entry in the
\* map and for every thread that has taken the entry out and will now take a
\* listener back.  A closed one that is still in the map has a listener left.
Settled(c) ==
    /\ \A s \in Serial : clientChannels[s] = c => attachment[c] = s
    /\ state[c] = "open" =>
          listeners[c] + One(pc[c] = "listen")
              >= Cardinality(Removing(c)) + One(Mapped(c))
    /\ state[c] = "closed" /\ Mapped(c) => listeners[c] > 0
    /\ pc[c] = "done" => listeners[c] = 0

Counts == \A c \in Chan \ twofold : Settled(c)

LEMMA RemovingFinite ==
    ASSUME NEW c
    PROVE  IsFiniteSet(Removing(c)) /\ Cardinality(Removing(c)) \in Nat
  <1>1. Removing(c) \in SUBSET Chan /\ IsFiniteSet(Chan)
    BY GroupAssumption DEF Removing
  <1>2. IsFiniteSet(Removing(c))
    BY <1>1, FS_Subset
  <1> QED BY <1>2, FS_CardinalityType

\* A thread takes an entry out of the map: if it was that of c, one more thread
\* is about to take back a listener of c.
LEMMA MapRemoveCounts ==
    ASSUME TypeOK, NEW c \in Chan, NEW d \in Chan, MapRemove(d), old[d] = None,
           attachment[d] \in Serial,
           \A s \in Serial : clientChannels[s] = c => attachment[c] = s
    PROVE  /\ \A s \in Serial : clientChannels'[s] = c => clientChannels[s] = c
           /\ Cardinality(Removing(c)') + One(Mapped(c)')
                  = Cardinality(Removing(c)) + One(Mapped(c))
           /\ d = c /\ attachment[c] = attachment[d] => ~Mapped(c)'
  <1> USE GroupAssumption
  <1>1. PICK x \in Chan \cup {None} :
          /\ x = clientChannels[attachment[d]]
          /\ old' = [old EXCEPT ![d] = x]
          /\ clientChannels' = [clientChannels EXCEPT ![attachment[d]] = None]
    BY DEF MapRemove, TypeOK
  <1>2. \A s \in Serial : clientChannels'[s] =
                             IF s = attachment[d] THEN None ELSE clientChannels[s]
    BY <1>1 DEF TypeOK
  <1>3. CASE x = c
    <2>1. Removing(c)' = Removing(c) \cup {d} /\ d \notin Removing(c)
      BY <1>1, <1>3 DEF Removing, TypeOK
    <2>2. Cardinality(Removing(c)') = Cardinality(Removing(c)) + 1
      BY <2>1, RemovingFinite, FS_AddElement
    <2>3. Mapped(c) /\ ~Mapped(c)'
      BY <1>1, <1>2, <1>3 DEF Mapped
    <2> QED BY <1>2, <2>2, <2>3, RemovingFinite DEF One
  <1>4. CASE x # c
    <2>1. Removing(c)' = Removing(c)
      BY <1>1, <1>4 DEF Removing, TypeOK
    <2>2. Mapped(c)' = Mapped(c)
      BY <1>1, <1>2, <1>4 DEF Mapped
    <2>3. d = c => ~Mapped(c)'
      BY <1>1, <1>2, <1>4 DEF Mapped
    <2> QED BY <1>2, <2>1, <2>2, <2>3
  <1> QED BY <1>3, <1>4

\* A thread takes back a listener of the channel it took out.
LEMMA UnlistenCounts ==
    ASSUME TypeOK, NEW c \in Chan, NEW d \in Chan, old[d] \in Chan,
           listeners' = Unlistened(old[d]), old' = [old EXCEPT ![d] = None]
    PROVE  /\ listeners'[c] - Cardinality(Removing(c)')
                  >= listeners[c] - Cardinality(Removing(c))
           /\ listeners'[c] \in Nat /\ Cardinality(Removing(c)') \in Nat
           /\ state[c] # "open" => listeners'[c] = listeners[c]
  <1> USE GroupAssumption
  <1>1. listeners[c] \in Nat /\ listeners'[c] \in Nat
    BY UnlistenedType DEF TypeOK
  <1>2. CASE old[d] = c
    <2>1. Removing(c)' = Removing(c) \ {d} /\ d \in Removing(c)
      BY <1>2 DEF Removing, TypeOK
    <2>2. Cardinality(Removing(c)') = Cardinality(Removing(c)) - 1
      BY <2>1, RemovingFinite, FS_RemoveElement
    <2>3. listeners'[c] = IF state[c] = "open" /\ listeners[c] > 0
                          THEN listeners[c] - 1 ELSE listeners[c]
      BY <1>2, UnlistenedType
    <2>4. Cardinality(Removing(c)) \in Nat /\ Cardinality(Removing(c)) # 0
      BY <2>1, RemovingFinite, FS_EmptySet
    <2> QED BY <1>1, <2>2, <2>3, <2>4
  <1>3. CASE old[d] # c
    <2>1. Removing(c)' = Removing(c)
      BY <1>3 DEF Removing, TypeOK
    <2>2. listeners'[c] = listeners[c]
      BY <1>3, UnlistenedType
    <2> QED BY <1>1, <2>1, <2>2, RemovingFinite
  <1> QED BY <1>2, <1>3

LEMMA CountsNext ==
    ASSUME TypeInv, Counts, [Next]_vars
    PROVE  Counts'
  <1> USE GroupAssumption DEF Goto, reg, hist, Traffic
  <1>t. TypeOK /\ (\A c \in Chan : Local(c)) /\ Known
    BY DEF TypeInv
  <1> SUFFICES ASSUME NEW c \in Chan, c \notin twofold' PROVE Settled(c)'
    BY DEF Counts
  <1>0. c \notin twofold => Settled(c)
    BY DEF Counts
  <1> DEFINE n == Cardinality(Removing(c))
  <1>n. n \in Nat /\ listeners[c] \in Nat
    BY <1>t, RemovingFinite DEF TypeOK
  <1>a. ASSUME old' = old PROVE n' = n
    BY <1>a DEF Removing
  <1>b. ASSUME clientChannels' = clientChannels PROVE Mapped(c)' = Mapped(c)
    BY <1>b DEF Mapped
  <1> HIDE DEF n
  \* Steps that leave the map, the listeners and the removals under way alone.
  <1>q. ASSUME UNCHANGED <<clientChannels, listeners, old>>, twofold' = twofold,
               attachment'[c] = attachment[c],
               pc'[c] = "listen" <=> pc[c] = "listen",
               pc'[c] = "done" => pc[c] = "done", state'[c] = state[c]
        PROVE  Settled(c)'
    <2>1. n' = n /\ Mapped(c)' = Mapped(c)
      BY <1>q, <1>a, <1>b
    <2> QED BY <1>0, <1>q, <2>1 DEF Settled, n
  <1>1. ASSUME NEW d \in Chan, Accept(d) PROVE Settled(c)'
    <2>1. CASE d = c
      <3>1. attachment[c] = None /\ state'[c] = "open" /\ pc[c] = "idle"
        BY <1>1, <1>t, <2>1 DEF Accept, TypeOK, Local
      <3>2. ~Mapped(c) /\ Removing(c) = {}
        BY <1>t, <3>1 DEF Known, Mapped, Removing
      <3>3. n = 0
        BY <3>2, FS_EmptySet DEF n
      <3>4. n' = n /\ Mapped(c)' = Mapped(c)
        BY <1>1, <1>a, <1>b DEF Accept
      <3>5. UNCHANGED <<clientChannels, listeners, pc, attachment, twofold>>
        BY <1>1 DEF Accept
      <3> QED BY <1>0, <1>n, <3>1, <3>2, <3>3, <3>4, <3>5 DEF Settled, n, One, Mapped
    <2>2. CASE d # c
      BY <1>1, <1>t, <1>q, <2>2 DEF Accept, TypeOK
    <2> QED BY <2>1, <2>2
  <1>2. ASSUME NEW d \in Chan, NEW s \in SerialsOf[d], RegistAttach(d, s)
        PROVE  Settled(c)'
    <2>1. CASE d = c
      <3>1. c \notin twofold /\ (attachment[c] = None \/ attachment'[c] = attachment[c])
        BY <1>2, <1>t, <2>1 DEF RegistAttach, TypeOK
      <3>2. attachment[c] = None => ~Mapped(c)
        BY <1>t DEF Known, Mapped
      <3>3. n' = n /\ Mapped(c)' = Mapped(c)
        BY <1>2, <1>a, <1>b DEF RegistAttach
      <3>4. /\ UNCHANGED <<clientChannels, listeners, state>>
            /\ pc[c] = "idle" /\ pc'[c] = "contains"
        BY <1>2, <1>t, <2>1 DEF RegistAttach, Receive, TypeOK
      <3> QED BY <1>0, <3>1, <3>2, <3>3, <3>4 DEF Settled, n, Mapped
    <2>2. CASE d # c
      <3>1. c \notin twofold /\ pc'[c] = pc[c] /\ attachment'[c] = attachment[c]
        BY <1>2, <1>t, <2>2 DEF RegistAttach, TypeOK
      <3>2. n' = n /\ Mapped(c)' = Mapped(c)
        BY <1>2, <1>a, <1>b DEF RegistAttach
      <3>3. UNCHANGED <<clientChannels, listeners, state>>
        BY <1>2 DEF RegistAttach
      <3> QED BY <1>0, <3>1, <3>2, <3>3 DEF Settled, n
    <2> QED BY <2>1, <2>2
  <1>3. ASSUME NEW d \in Chan, ContainsKey(d) PROVE Settled(c)'
    BY <1>3, <1>t, <1>q DEF ContainsKey, TypeOK
  <1>4. ASSUME NEW d \in Chan, RegistRemove(d) PROVE Settled(c)'
    <2>1. /\ MapRemove(d) /\ old[d] = None /\ attachment[d] \in Serial
          /\ UNCHANGED <<state, attachment, listeners, twofold>>
          /\ pc'[c] = "listen" <=> pc[c] = "listen"
          /\ pc'[c] = "done" <=> pc[c] = "done"
      BY <1>4, <1>t DEF RegistRemove, TypeOK, Local, Registering
    <2>2. Settled(c)
      BY <1>0, <2>1
    <2>3. /\ \A t \in Serial : clientChannels'[t] = c => clientChannels[t] = c
          /\ n' + One(Mapped(c)') = n + One(Mapped(c))
      BY <1>t, <2>1, <2>2, MapRemoveCounts DEF Settled, n
    <2>4. Mapped(c)' => Mapped(c)
      BY <2>3 DEF Mapped
    <2> QED BY <2>1, <2>2, <2>3, <2>4 DEF Settled, n
  <1>5. ASSUME NEW d \in Chan, RegistUnlisten(d) \/ DropListener(d) PROVE Settled(c)'
    <2>1. /\ old[d] \in Chan /\ listeners' = Unlistened(old[d])
          /\ old' = [old EXCEPT ![d] = None]
          /\ UNCHANGED <<state, attachment, clientChannels, twofold>>
          /\ pc'[c] = "listen" <=> pc[c] = "listen"
          /\ pc'[c] = "done" <=> pc[c] = "done"
      BY <1>5, <1>t DEF RegistUnlisten, DropListener, TypeOK, Local
    <2>2. Settled(c)
      BY <1>0, <2>1
    <2>3. /\ listeners'[c] - n' >= listeners[c] - n
          /\ listeners'[c] \in Nat /\ n' \in Nat
          /\ state[c] # "open" => listeners'[c] = listeners[c]
      BY <1>t, <2>1, UnlistenCounts DEF n
    <2>4. Mapped(c)' = Mapped(c)
      BY <2>1, <1>b
    <2>5. pc[c] = "done" => state[c] = "closed"
      BY <1>t DEF Local, Ending
    <2>6. state[c] = "open" =>
            listeners'[c] + One(pc'[c] = "listen") >= n' + One(Mapped(c)')
      BY <1>n, <2>1, <2>2, <2>3, <2>4 DEF Settled, n, One
    <2> QED BY <2>1, <2>2, <2>3, <2>4, <2>5, <2>6 DEF Settled, n
  <1>6. ASSUME NEW d \in Chan, PutIfAbsent(d) PROVE Settled(c)'
    <2>1. attachment[d] \in Serial /\ state[d] = "open" /\ pc[d] = "put"
      BY <1>6, <1>t DEF PutIfAbsent, TypeOK, Local, Registering, Ending
    <2>2. CASE clientChannels[attachment[d]] # None \/ d # c
      <3>1. /\ UNCHANGED <<state, attachment, listeners, old, twofold>>
            /\ \A t \in Serial : clientChannels'[t] = c <=> clientChannels[t] = c
            /\ pc'[c] = "listen" <=> pc[c] = "listen"
            /\ pc'[c] = "done" <=> pc[c] = "done"
        BY <1>6, <1>t, <2>1, <2>2 DEF PutIfAbsent, TypeOK
      <3>2. n' = n /\ Mapped(c)' = Mapped(c)
        BY <1>a, <3>1 DEF Mapped
      <3> QED BY <1>0, <3>1, <3>2 DEF Settled, n
    <2>3. CASE clientChannels[attachment[d]] = None /\ d = c
      <3>1. /\ UNCHANGED <<state, attachment, listeners, old, twofold>>
            /\ clientChannels' = [clientChannels EXCEPT ![attachment[c]] = c]
            /\ pc'[c] = "listen"
        BY <1>6, <1>t, <2>1, <2>3 DEF PutIfAbsent, TypeOK
      <3>2. Settled(c)
        BY <1>0, <3>1
      <3>3. ~Mapped(c)
        BY <2>3, <3>2 DEF Mapped, Settled
      <3>4. \A t \in Serial : clientChannels'[t] = c => t = attachment[c]
        BY <1>t, <3>1, <3>3 DEF Mapped, TypeOK
      <3>5. n' = n
        BY <1>a, <3>1
      <3>6. state[c] = "open" /\ pc[c] = "put"
        BY <2>1, <2>3
      <3>7. listeners'[c] + One(pc'[c] = "listen") >= n' + One(Mapped(c)')
        BY <1>n, <3>1, <3>2, <3>3, <3>5, <3>6 DEF Settled, n, One
      <3> QED BY <3>1, <3>4, <3>6, <3>7 DEF Settled, n
    <2> QED BY <2>2, <2>3
  <1>7. ASSUME NEW d \in Chan, AddListener(d) PROVE Settled(c)'
    <2>1. CASE d = c
      <3>1. /\ UNCHANGED <<state, attachment, clientChannels, old, twofold>>
            /\ listeners'[c] = listeners[c] + 1 /\ pc[c] = "listen" /\ pc'[c] = "idle"
        BY <1>7, <1>t, <2>1 DEF AddListener, TypeOK
      <3>2. n' = n /\ Mapped(c)' = Mapped(c)
        BY <1>a, <1>b, <3>1
      <3>3. state[c] = "open" =>
              listeners'[c] + One(pc'[c] = "listen") >= n' + One(Mapped(c)')
        BY <1>0, <1>n, <3>1, <3>2 DEF Settled, n, One
      <3> QED BY <1>0, <1>n, <3>1, <3>2, <3>3 DEF Settled, n
    <2>2. CASE d # c
      <3>1. /\ UNCHANGED <<state, attachment, clientChannels, old, twofold>>
            /\ listeners'[c] = listeners[c] /\ pc'[c] = pc[c]
        BY <1>7, <1>t, <2>2 DEF AddListener, TypeOK
      <3>2. n' = n /\ Mapped(c)' = Mapped(c)
        BY <1>a, <1>b, <3>1
      <3> QED BY <1>0, <3>1, <3>2 DEF Settled, n
    <2> QED BY <2>1, <2>2
  <1>8. ASSUME NEW d \in Chan, Close(d) PROVE Settled(c)'
    <2>1. CASE d = c
      <3>1. /\ UNCHANGED <<attachment, clientChannels, listeners, old, twofold>>
            /\ state[c] = "open" /\ state'[c] = "closed"
            /\ pc[c] = "idle" /\ pc'[c] = "notify"
        BY <1>8, <1>t, <2>1 DEF Close, TypeOK
      <3>2. Mapped(c)' = Mapped(c)
        BY <1>b, <3>1
      <3>3. Mapped(c) => listeners[c] > 0
        BY <1>0, <1>n, <3>1 DEF Settled, n, One
      <3> QED BY <1>0, <3>1, <3>2, <3>3 DEF Settled
    <2>2. CASE d # c
      BY <1>8, <1>t, <1>q, <2>2 DEF Close, TypeOK
    <2> QED BY <2>1, <2>2
  <1>9. ASSUME NEW d \in Chan, OperationComplete(d) PROVE Settled(c)'
    <2>1. /\ MapRemove(d) /\ old[d] = None /\ attachment[d] \in Serial
          /\ state[d] = "closed"
          /\ UNCHANGED <<state, attachment, twofold>>
      BY <1>9, <1>t DEF OperationComplete, TypeOK, Local, Ending
    <2>2. Settled(c)
      BY <1>0, <2>1
    <2>3. /\ \A t \in Serial : clientChannels'[t] = c => clientChannels[t] = c
          /\ n' + One(Mapped(c)') = n + One(Mapped(c))
          /\ d = c => ~Mapped(c)'
      BY <1>t, <2>1, <2>2, MapRemoveCounts DEF Settled, n
    <2>4. CASE d = c
      <3>1. pc'[c] # "done"
        BY <1>9, <1>t, <2>4 DEF OperationComplete, TypeOK
      <3> QED BY <2>1, <2>2, <2>3, <2>4, <3>1 DEF Settled
    <2>5. CASE d # c
      <3>1. listeners'[c] = listeners[c] /\ pc'[c] = pc[c]
        BY <1>9, <1>t, <2>5 DEF OperationComplete, TypeOK
      <3>2. Mapped(c)' => Mapped(c)
        BY <2>3 DEF Mapped
      <3> QED BY <2>1, <2>2, <2>3, <3>1, <3>2 DEF Settled, n
    <2> QED BY <2>4, <2>5
  <1>10. ASSUME NEW d \in Chan, Notified(d) PROVE Settled(c)'
    <2>1. /\ UNCHANGED <<state, attachment, clientChannels, listeners, old, twofold>>
          /\ pc'[c] = "listen" <=> pc[c] = "listen"
          /\ pc'[c] = "done" => pc[c] = "done" \/ listeners[c] = 0
      BY <1>10, <1>t DEF Notified, TypeOK
    <2>2. n' = n /\ Mapped(c)' = Mapped(c)
      BY <1>a, <1>b, <2>1
    <2> QED BY <1>0, <2>1, <2>2 DEF Settled, n
  <1>11. ASSUME NEW d \in Chan, NEW s \in Serial, Find(d, s) PROVE Settled(c)'
    BY <1>11, <1>t, <1>q DEF Find, Receive, TypeOK
  <1>12. ASSUME NEW d \in Chan, Forward(d) \/ Reply(d) PROVE Settled(c)'
    BY <1>12, <1>t, <1>q DEF Forward, Reply, TypeOK
  <1>13. CASE UNCHANGED vars
    BY <1>13, <1>q DEF vars
  <1> QED
    BY <1>1, <1>2, <1>3, <1>4, <1>5, <1>6, <1>7, <1>8, <1>9, <1>10, <1>11, <1>12,
       <1>13 DEF Next, Handler

LEMMA CountsHold == Spec => [](TypeInv /\ Counts)
  <1>1. Init => Counts
    <2> SUFFICES ASSUME Init, NEW c \in Chan PROVE Settled(c)
      BY DEF Counts
    <2>1. ~Mapped(c) /\ Removing(c) = {}
      BY GroupAssumption DEF Init, Mapped, Removing
    <2> QED BY <2>1 DEF Init, Settled, Mapped
  <1>2. TypeInv /\ Counts /\ [Next]_vars => Counts'
    BY CountsNext
  <1> QED BY TypeInit, TypeNext, <1>1, <1>2, PTL DEF Spec

\* Every channel in the map has a listener that will take it out, and one whose
\* close has been handled is in the map under no number, in every interleaving
\* of the threads of any number of channels; except for a channel that
\* registered under two numbers.
THEOREM EntriesLeave == Spec => []NoStaleEntry
  <1>1. Spec => [](TypeInv /\ Counts)
    BY CountsHold
  <1>2. TypeInv /\ Counts => NoStaleEntry
    <2> SUFFICES ASSUME TypeInv, Counts, NEW s \in Serial
                 PROVE  /\ EntryHasListener(s)
                        /\ \A c \in Chan \ twofold :
                              pc[c] = "done" => clientChannels[s] # c
      BY DEF NoStaleEntry
    <2>1. ASSUME NEW c \in Chan, c \notin twofold, clientChannels[s] = c, pc[c] # "listen"
          PROVE  listeners[c] > 0 /\ pc[c] # "done"
      <3>1. Mapped(c) /\ Settled(c) /\ Local(c) /\ attachment[c] # None
        BY <2>1, GroupAssumption DEF Counts, TypeInv, Known, Mapped
      <3>2. state[c] \in {"open", "closed"} /\ listeners[c] \in Nat
        BY <3>1 DEF TypeInv, TypeOK, Local
      <3>3. Cardinality(Removing(c)) \in Nat
        BY RemovingFinite
      <3> QED BY <2>1, <3>1, <3>2, <3>3 DEF Settled, One
    <2>2. clientChannels[s] \in Chan \cup {None}
      BY DEF TypeInv, TypeOK
    <2> QED BY <2>1, <2>2 DEF EntryHasListener
  <1> QED BY <1>1, <1>2, PTL

----------------------------------------------------------------------------
(* Requests go to the camera they name. *)

\* A request that was written to a channel is with it, unless it is closed.
Delivered ==
    \A c \in Chan : pc[c] = "sent" =>
        Pending(c) \in got[job[c].to] \/ state[job[c].to] = "closed"

LEMMA RoutedNext ==
    ASSUME TypeInv, Delivered, RoutedToCamera, [Next]_vars
    PROVE  Delivered' /\ RoutedToCamera'
  <1> USE GroupAssumption DEF Goto, reg, hist, Traffic
  <1>t. TypeOK /\ (\A c \in Chan : Local(c) /\ Carried(c))
    BY DEF TypeInv
  <1>q. ASSUME UNCHANGED <<got, done>>,
               \A c \in Chan : state[c] = "closed" => state'[c] = "closed",
               \A c \in Chan : pc'[c] = "sent" =>
                   pc[c] = "sent" /\ job'[c] = job[c] /\ msgs'[c] = msgs[c]
        PROVE  Delivered' /\ RoutedToCamera'
    <2>1. Delivered'
      BY <1>t, <1>q DEF Delivered, Pending, Carried
    <2>2. RoutedToCamera'
      BY <1>q DEF RoutedToCamera
    <2> QED BY <2>1, <2>2
  <1>1. ASSUME NEW d \in Chan, \/ Accept(d) \/ Close(d) \/ ContainsKey(d) \/ RegistRemove(d)
                                \/ RegistUnlisten(d) \/ PutIfAbsent(d) \/ AddListener(d)
                                \/ OperationComplete(d) \/ DropListener(d) \/ Notified(d)
        PROVE  Delivered' /\ RoutedToCamera'
    BY <1>1, <1>q, <1>t
    DEF Accept, Close, ContainsKey, RegistRemove, RegistUnlisten, PutIfAbsent, AddListener,
        OperationComplete, DropListener, Notified, TypeOK
  <1>2. ASSUME NEW d \in Chan, NEW s \in SerialsOf[d], RegistAttach(d, s)
        PROVE  Delivered' /\ RoutedToCamera'
    BY <1>2, <1>q, <1>t DEF RegistAttach, Receive, TypeOK
  <1>3. ASSUME NEW d \in Chan, NEW s \in Serial, Find(d, s)
        PROVE  Delivered' /\ RoutedToCamera'
    BY <1>3, <1>q, <1>t DEF Find, Receive, TypeOK
  <1>4. ASSUME NEW d \in Chan, Forward(d) PROVE Delivered' /\ RoutedToCamera'
    <2> DEFINE x == job[d].to
    <2>1. /\ x \in Chan /\ job[d].serial \in SerialsOf[x] /\ state[x] \in {"open", "closed"}
      BY <1>4, <1>t DEF Forward, TypeOK, Local, Carried
    <2>2. /\ UNCHANGED <<state, msgs, job, done>>
          /\ pc' = [pc EXCEPT ![d] = "sent"]
          /\ got' = IF state[x] = "open"
                    THEN [got EXCEPT ![x] = @ \cup {Pending(d)}] ELSE got
      BY <1>4 DEF Forward
    <2> HIDE DEF x
    <2>3. \A c \in Chan : got[c] \subseteq got'[c]
      BY <1>t, <2>1, <2>2 DEF TypeOK
    <2>4. \A c \in Chan : \A r \in got'[c] : r \in got[c] \/ (c = x /\ r = Pending(d))
      BY <1>t, <2>1, <2>2 DEF TypeOK
    <2>5. Pending(d) \in got'[x] \/ state[x] = "closed"
      BY <1>t, <2>1, <2>2 DEF TypeOK
    <2>6. Delivered'
      <3>1. ASSUME NEW c \in Chan, pc'[c] = "sent"
            PROVE  Pending(c)' \in got'[job'[c].to] \/ state'[job'[c].to] = "closed"
        <4>1. Pending(c)' = Pending(c) /\ job' = job /\ state' = state
          BY <2>2 DEF Pending
        <4>2. CASE c = d
          BY <2>5, <4>1, <4>2 DEF x
        <4>3. CASE c # d
          <5>1. pc[c] = "sent"
            BY <1>t, <2>2, <3>1, <4>3 DEF TypeOK
          <5>2. job[c].to \in Chan
            BY <1>t, <5>1 DEF Carried
          <5> QED BY <2>3, <4>1, <5>1, <5>2 DEF Delivered
        <4> QED BY <4>2, <4>3
      <3> QED BY <3>1 DEF Delivered
    <2>7. \A c \in Chan : \A r \in got'[c] : r.serial \in SerialsOf[c]
      BY <2>1, <2>4 DEF RoutedToCamera, Pending
    <2>8. \A r \in done' : \E c \in Chan :
             r.serial \in SerialsOf[c] /\ (r \in got'[c] \/ state'[c] = "closed")
      BY <2>2, <2>3 DEF RoutedToCamera
    <2> QED BY <2>6, <2>7, <2>8 DEF RoutedToCamera
  <1>5. ASSUME NEW d \in Chan, Reply(d) PROVE Delivered' /\ RoutedToCamera'
    <2>1. /\ UNCHANGED <<state, msgs, got>> /\ pc' = [pc EXCEPT ![d] = "idle"]
          /\ job' = [job EXCEPT ![d] = NoJob]
          /\ done' = IF pc[d] = "sent" THEN done \cup {Pending(d)} ELSE done
      BY <1>5 DEF Reply
    <2>2. Delivered'
      BY <1>t, <2>1 DEF Delivered, Pending, TypeOK
    <2>3. pc[d] = "sent" => \E c \in Chan :
             /\ Pending(d).serial \in SerialsOf[c]
             /\ Pending(d) \in got[c] \/ state[c] = "closed"
      <3> SUFFICES ASSUME pc[d] = "sent" PROVE \E c \in Chan :
             /\ Pending(d).serial \in SerialsOf[c]
             /\ Pending(d) \in got[c] \/ state[c] = "closed"
        OBVIOUS
      <3>1. job[d].to \in Chan /\ job[d].serial \in SerialsOf[job[d].to]
        BY <1>t DEF Carried
      <3>2. Pending(d) \in got[job[d].to] \/ state[job[d].to] = "closed"
        BY DEF Delivered
      <3>3. Pending(d).serial = job[d].serial
        BY DEF Pending
      <3> QED BY <3>1, <3>2, <3>3
    <2>4. RoutedToCamera'
      BY <2>1, <2>3 DEF RoutedToCamera
    <2> QED BY <2>2, <2>4
  <1>6. CASE UNCHANGED vars
    BY <1>6, <1>q DEF vars
  <1> QED BY <1>1, <1>2, <1>3, <1>4, <1>5, <1>6 DEF Next, Handler

\* A device is sent only requests that name a number of its own, and a request
\* reported as sent is with such a device or went to one whose connection is
\* closed, however registrations, closes and requests interleave.
THEOREM Routed == Spec => []RoutedToCamera
  <1>1. Spec => []TypeInv
    BY TypeInit, TypeNext, PTL DEF Spec
  <1>2. Init => Delivered /\ RoutedToCamera
    BY DEF Init, Delivered, RoutedToCamera
  <1>3. TypeInv /\ Delivered /\ RoutedToCamera /\ [Next]_vars
            => Delivered' /\ RoutedToCamera'
    BY RoutedNext
  <1> QED BY <1>1, <1>2, <1>3, PTL DEF Spec

----------------------------------------------------------------------------
(* A registered camera is found. *)

\* The thread of c is registering or closing a channel of number s.
Active == Registering \cup {"notify", "drop"}
InTurn(c, s) == attachment[c] = s /\ pc[c] \in Active

\* The numbers of a channel that was taken out and of the thread that did it
\* are the same, unless both are numbers two handlers worked on at once.
Linked ==
    /\ \A c \in twofold : attachment[c] \in clash
    /\ \A c, d \in Chan :
          old[d] = c /\ (attachment[c] \notin clash \/ attachment[d] \notin clash)
              => attachment[c] = attachment[d]

Taken(c, s) == \E d \in Chan : attachment[d] = s /\ pc[d] = "unlisten" /\ old[d] = c

\* What holds of a channel of a number that handlers worked on in turn: its
\* listener is there exactly while the channel is in the map, or was taken out
\* of it a moment ago by a registration that has not finished.
Turn(c, s) ==
    /\ pc[c] \in {"unlisten", "put"} => clientChannels[s] = None
    /\ pc[c] = "unlisten" => state[old[c]] = "open"
    /\ pc[c] = "listen" => clientChannels[s] = c
    /\ pc[c] = "drop" => old[c] = c
    /\ listeners[c] = IF (clientChannels[s] = c /\ pc[c] # "listen") \/ Taken(c, s)
                      THEN 1 ELSE 0

Newest(s) ==
    /\ clientChannels[s] # None =>
          attachment[clientChannels[s]] = s /\ newest[s] = clientChannels[s]
    /\ newest[s] # None => attachment[newest[s]] = s
    /\ newest[s] # None /\ state[newest[s]] = "open" =>
          \/ clientChannels[s] = newest[s]
          \/ \E d \in Chan : attachment[d] = s /\ pc[d] \in {"unlisten", "put"}

Alone(s) ==
    /\ \A c, d \in Chan : InTurn(c, s) /\ InTurn(d, s) => c = d
    /\ \A c \in Chan : attachment[c] = s => Turn(c, s)
    /\ Newest(s)

LEMMA LinkedNext ==
    ASSUME TypeInv, Counts, Linked, \A s \in Serial \ clash : Newest(s), [Next]_vars
    PROVE  Linked' /\ clash \subseteq clash'
  <1> USE GroupAssumption DEF Goto, reg, hist, Traffic
  <1>t. TypeOK /\ (\A c \in Chan : Local(c)) /\ Known
    BY DEF TypeInv
  \* A thread takes out the entry of its number.
  <1>m. ASSUME NEW d \in Chan, MapRemove(d), attachment[d] \in Serial,
               UNCHANGED <<attachment, twofold, clash>>
        PROVE  Linked'
    <2> DEFINE x == clientChannels[attachment[d]]
    <2>1. x \in Chan /\ x \notin twofold => attachment[x] = attachment[d]
      BY <1>m DEF Counts, Settled
    <2>2. x \in Chan /\ attachment[d] \notin clash => attachment[x] = attachment[d]
      BY <1>m DEF Newest
    <2>3. x \in Chan /\ x \in twofold => attachment[x] \in clash
      BY DEF Linked
    <2>4. x \in Chan \cup {None} /\ old' = [old EXCEPT ![d] = x]
      BY <1>m, <1>t DEF MapRemove, TypeOK
    <2> HIDE DEF x
    <2> QED BY <1>m, <1>t, <2>1, <2>2, <2>3, <2>4 DEF Linked, TypeOK
  <1>1. ASSUME NEW d \in Chan, RegistRemove(d) \/ OperationComplete(d)
        PROVE  Linked' /\ clash \subseteq clash'
    <2>1. MapRemove(d) /\ attachment[d] \in Serial /\ UNCHANGED <<attachment, twofold, clash>>
      BY <1>1, <1>t DEF RegistRemove, OperationComplete, TypeOK, Local, Registering
    <2> QED BY <2>1, <1>m
  <1>2. ASSUME NEW d \in Chan, NEW s \in SerialsOf[d], RegistAttach(d, s)
        PROVE  Linked' /\ clash \subseteq clash'
    <2>1. /\ attachment' = [attachment EXCEPT ![d] = s] /\ old' = old
          /\ old[d] = None /\ clash \subseteq clash'
          /\ attachment[d] \notin {None, s} =>
                attachment[d] \in clash' /\ s \in clash' /\ twofold' = twofold \cup {d}
          /\ attachment[d] \in {None, s} => twofold' = twofold
      BY <1>2, <1>t DEF RegistAttach, Receive, TypeOK, Local
    <2>2. \A c \in twofold' : attachment'[c] \in clash'
      BY <1>t, <2>1 DEF Linked, TypeOK
    <2>3. ASSUME NEW c \in Chan, NEW e \in Chan, old'[e] = c,
                 attachment'[c] \notin clash' \/ attachment'[e] \notin clash'
          PROVE  attachment'[c] = attachment'[e]
      <3>1. e # d /\ attachment'[e] = attachment[e] /\ attachment[c] # None /\ old[e] = c
        BY <1>t, <2>1, <2>3 DEF TypeOK, Known
      <3>2. (attachment[c] \in clash /\ attachment[e] \in clash) \/ attachment[c] = attachment[e]
        BY <3>1 DEF Linked
      <3> QED BY <1>t, <2>1, <2>3, <3>1, <3>2 DEF TypeOK
    <2> QED BY <2>1, <2>2, <2>3 DEF Linked
  <1>3. ASSUME NEW d \in Chan, RegistUnlisten(d) \/ DropListener(d)
        PROVE  Linked' /\ clash \subseteq clash'
    BY <1>3, <1>t DEF RegistUnlisten, DropListener, Linked, TypeOK
  <1>4. ASSUME NEW d \in Chan, \/ Accept(d) \/ ContainsKey(d) \/ PutIfAbsent(d)
                                \/ AddListener(d) \/ Notified(d) \/ Forward(d) \/ Reply(d)
        PROVE  Linked' /\ clash \subseteq clash'
    BY <1>4 DEF Accept, ContainsKey, PutIfAbsent, AddListener, Notified, Forward, Reply, Linked
  <1>5. ASSUME NEW d \in Chan, Close(d) PROVE Linked' /\ clash \subseteq clash'
    <2>1. clash \subseteq clash' /\ UNCHANGED <<attachment, old, twofold>>
      BY <1>5 DEF Close
    <2> QED BY <2>1 DEF Linked
  <1>6. ASSUME NEW d \in Chan, NEW s \in Serial, Find(d, s)
        PROVE  Linked' /\ clash \subseteq clash'
    BY <1>6 DEF Find, Linked
  <1>7. CASE UNCHANGED vars
    BY <1>7 DEF vars, Linked
  <1> QED BY <1>1, <1>2, <1>3, <1>4, <1>5, <1>6, <1>7 DEF Next, Handler

Inert == {"idle", "forward", "sent", "failed"}

\* Steps that leave the channels of number s where they are, or only pass
\* requests on.
LEMMA AloneFrame ==
    ASSUME TypeInv, Linked, NEW s \in Serial, s \notin clash, Alone(s),
           \A c \in Chan : attachment'[c] = s <=> attachment[c] = s,
           \A c \in Chan : attachment[c] = s =>
               /\ listeners'[c] = listeners[c] /\ old'[c] = old[c] /\ state'[c] = state[c]
               /\ pc'[c] = pc[c] \/ (pc[c] \in Inert /\ pc'[c] \in Inert),
           clientChannels'[s] = clientChannels[s], newest'[s] = newest[s]
    PROVE  Alone(s)'
  <1>t. TypeOK /\ \A c \in Chan : Local(c)
    BY DEF TypeInv
  <1>1. \A c \in Chan : InTurn(c, s)' <=> InTurn(c, s)
    BY DEF InTurn, Active, Registering, Inert
  <1>2. ASSUME NEW c \in Chan, attachment'[c] = s PROVE Turn(c, s)'
    <2>1. Taken(c, s)' <=> Taken(c, s)
      BY DEF Taken, Inert
    <2>2. Turn(c, s) /\ attachment[c] = s
      BY <1>2 DEF Alone
    <2>3. pc[c] = "unlisten" => attachment[old[c]] = s /\ old[c] \in Chan
      BY <1>t, <2>2 DEF Linked, Local, TypeOK
    <2> QED BY <2>1, <2>2, <2>3 DEF Turn, Inert
  <1>3. Newest(s)'
    <2>1. newest[s] \in Chan \cup {None} /\ clientChannels[s] \in Chan \cup {None}
      BY <1>t DEF TypeOK
    <2> QED BY <2>1 DEF Alone, Newest, Inert
  <1> QED BY <1>1, <1>2, <1>3 DEF Alone

LEMMA AloneNext ==
    ASSUME TypeInv, Counts, Linked, [Next]_vars,
           NEW s \in Serial, s \notin clash', Alone(s), clash \subseteq clash'
    PROVE  Alone(s)'
  <1> USE GroupAssumption DEF Goto, reg, hist, Traffic
  <1>t. TypeOK /\ (\A c \in Chan : Local(c)) /\ Known
    BY DEF TypeInv
  <1>a. /\ \A c, d \in Chan : InTurn(c, s) /\ InTurn(d, s) => c = d
        /\ \A c \in Chan : attachment[c] = s => Turn(c, s)
        /\ Newest(s) /\ s \notin clash
    BY DEF Alone
  <1>b. \A c \in Chan : attachment[c] = s => c \notin twofold
    BY <1>a DEF Linked
  \* While the thread of d works on number s, no other one does.
  <1>c. ASSUME NEW d \in Chan, InTurn(d, s)
        PROVE  \A c \in Chan : Taken(c, s) <=> pc[d] = "unlisten" /\ old[d] = c
    BY <1>c, <1>a DEF Taken, InTurn, Active, Registering
  <1>1. ASSUME NEW d \in Chan, Accept(d) PROVE Alone(s)'
    <2>1. attachment[d] # s
      BY <1>1, <1>t DEF Accept, Local
    <2> QED BY <1>1, <1>a, <1>t, <2>1, AloneFrame DEF Accept, TypeOK
  <1>2. ASSUME NEW d \in Chan, NEW t \in Serial, Find(d, t) PROVE Alone(s)'
    BY <1>2, <1>a, <1>t, AloneFrame DEF Find, Receive, TypeOK, Inert
  <1>3. ASSUME NEW d \in Chan, Forward(d) \/ Reply(d) PROVE Alone(s)'
    BY <1>3, <1>a, <1>t, AloneFrame DEF Forward, Reply, TypeOK, Inert
  <1>4. CASE UNCHANGED vars
    BY <1>4, <1>a, <1>t, AloneFrame DEF vars
  <1>5. ASSUME NEW d \in Chan, attachment[d] # s, \/ ContainsKey(d) \/ PutIfAbsent(d)
               \/ RegistRemove(d) \/ AddListener(d) \/ OperationComplete(d) \/ Notified(d)
        PROVE  Alone(s)'
    BY <1>5, <1>a, <1>t, AloneFrame DEF ContainsKey, PutIfAbsent, RegistRemove,
       AddListener, OperationComplete, Notified, MapRemove, TypeOK
  <1>6. ASSUME NEW d \in Chan, attachment[d] # s, RegistUnlisten(d) \/ DropListener(d)
        PROVE  Alone(s)'
    <2>1. /\ old[d] \in Chan /\ listeners' = Unlistened(old[d]) /\ old' = [old EXCEPT ![d] = None]
          /\ UNCHANGED <<state, attachment, clientChannels, newest>>
          /\ \A c \in Chan : c # d => pc'[c] = pc[c]
      BY <1>6, <1>t DEF RegistUnlisten, DropListener, TypeOK, Local
    <2>2. attachment[old[d]] # s
      BY <1>6, <1>a, <2>1 DEF Linked
    <2>3. \A c \in Chan : attachment[c] = s => listeners'[c] = listeners[c] /\ old'[c] = old[c]
      BY <1>6, <1>t, <2>1, <2>2, UnlistenedType DEF TypeOK
    <2> QED BY <1>6, <1>a, <2>1, <2>3, AloneFrame
  <1>7. ASSUME NEW d \in Chan, attachment[d] # s, Close(d) PROVE Alone(s)'
    BY <1>7, <1>a, <1>t, AloneFrame DEF Close, TypeOK
  <1>8. ASSUME NEW d \in Chan, NEW t \in SerialsOf[d], RegistAttach(d, t), t # s
        PROVE  Alone(s)'
    <2>1. attachment[d] # s
      BY <1>8, <1>t DEF RegistAttach
    <2> QED BY <1>8, <1>a, <1>t, <2>1, AloneFrame DEF RegistAttach, Receive, TypeOK
  \* The thread of a channel of number s.
  <1>e. /\ clientChannels[s] \in Chan \cup {None} /\ newest[s] \in Chan \cup {None}
        /\ \A c \in Chan : pc[c] = "done" /\ attachment[c] = s => listeners[c] = 0
    BY <1>b, <1>t DEF TypeOK, Counts, Settled
  <1>9. ASSUME NEW d \in Chan, attachment[d] = s, ContainsKey(d) PROVE Alone(s)'
    <2>1. /\ UNCHANGED <<state, attachment, clientChannels, listeners, old, newest>>
          /\ \A c \in Chan : c # d => pc'[c] = pc[c]
          /\ pc[d] = "contains" /\ pc'[d] \in {"remove", "put"}
          /\ pc'[d] = "put" => clientChannels[s] = None
      BY <1>9, <1>t DEF ContainsKey, TypeOK
    <2>2. InTurn(d, s) /\ \A c \in Chan : InTurn(c, s)' => InTurn(c, s)
      BY <1>9, <2>1 DEF InTurn, Active, Registering
    <2>3. \A c \in Chan : Taken(c, s)' <=> Taken(c, s)
      BY <2>1 DEF Taken
    <2>4. \A c \in Chan : attachment'[c] = s => Turn(c, s)'
      BY <1>a, <2>1, <2>3 DEF Turn
    <2>5. Newest(s)'
      BY <1>a, <2>1 DEF Newest
    <2> QED BY <1>a, <2>2, <2>4, <2>5 DEF Alone
  <1>10. ASSUME NEW d \in Chan, attachment[d] = s, RegistRemove(d) PROVE Alone(s)'
    <2> DEFINE x == clientChannels[s]
    <2>1. /\ UNCHANGED <<state, attachment, listeners, newest>>
          /\ \A c \in Chan : c # d => pc'[c] = pc[c] /\ old'[c] = old[c]
          /\ pc[d] = "remove" /\ clientChannels'[s] = None /\ old'[d] = x
          /\ pc'[d] = IF x = None THEN "put" ELSE "unlisten"
      BY <1>10, <1>t DEF RegistRemove, MapRemove, TypeOK
    <2>2. InTurn(d, s) /\ \A c \in Chan : InTurn(c, s)' => InTurn(c, s)
      BY <1>10, <2>1 DEF InTurn, Active, Registering
    <2>3. \A c \in Chan : ~Taken(c, s) /\ (Taken(c, s)' <=> x = c)
      BY <1>10, <1>c, <1>e, <2>1, <2>2 DEF Taken, InTurn, Active, Registering
    <2>4. x # None => x \in Chan /\ attachment[x] = s /\ listeners[x] = 1 /\ pc[x] # "listen"
      <3> SUFFICES ASSUME x # None
                   PROVE  x \in Chan /\ attachment[x] = s /\ listeners[x] = 1 /\ pc[x] # "listen"
        OBVIOUS
      <3>1. x \in Chan /\ attachment[x] = s
        BY <1>a, <1>e DEF Newest
      <3>2. pc[x] # "listen"
        BY <1>a, <2>1, <2>2, <3>1 DEF InTurn, Active, Registering
      <3> QED BY <1>a, <3>1, <3>2 DEF Turn
    <2>5. x # None => state[x] = "open"
      <3> SUFFICES ASSUME x # None PROVE state[x] = "open"
        OBVIOUS
      <3>1. pc[x] # "done"
        BY <1>e, <2>4
      <3>2. pc[x] \notin {"notify", "drop"}
        BY <1>a, <2>1, <2>2, <2>4 DEF InTurn, Active, Registering
      <3> QED BY <1>t, <2>4, <3>1, <3>2 DEF Local, Ending, TypeOK
    <2>6. ASSUME NEW c \in Chan, attachment'[c] = s PROVE Turn(c, s)'
      <3>1. Turn(c, s)
        BY <1>a, <2>1, <2>6
      <3>2. c # d => pc[c] \notin Active
        BY <1>a, <2>1, <2>2, <2>6 DEF InTurn
      <3>3. listeners'[c] = IF x = c THEN 1 ELSE 0
        BY <2>1, <2>3, <2>4, <3>1 DEF Turn
      <3> QED BY <2>1, <2>3, <2>5, <3>2, <3>3 DEF Turn, Active, Registering
    <2>7. Newest(s)'
      BY <1>10, <1>a, <2>1 DEF Newest
    <2> QED BY <1>a, <2>2, <2>6, <2>7 DEF Alone
  <1>11. ASSUME NEW d \in Chan, attachment[d] = s, RegistUnlisten(d) PROVE Alone(s)'
    <2>1. /\ UNCHANGED <<state, attachment, clientChannels, newest>>
          /\ \A c \in Chan : c # d => pc'[c] = pc[c] /\ old'[c] = old[c]
          /\ pc[d] = "unlisten" /\ pc'[d] = "put" /\ old[d] \in Chan
          /\ listeners' = Unlistened(old[d])
      BY <1>11, <1>t DEF RegistUnlisten, TypeOK, Local
    <2>2. InTurn(d, s) /\ \A c \in Chan : InTurn(c, s)' => InTurn(c, s)
      BY <1>11, <2>1 DEF InTurn, Active, Registering
    <2>3. /\ \A c \in Chan : Taken(c, s) <=> old[d] = c
          /\ \A c \in Chan : ~Taken(c, s)'
      <3>1. \A c \in Chan : attachment[c] = s /\ pc[c] = "unlisten" => c = d
        BY <1>a, <2>2 DEF InTurn, Active, Registering
      <3> QED BY <1>c, <2>1, <2>2, <3>1 DEF Taken
    <2>4. clientChannels[s] = None /\ state[old[d]] = "open"
      BY <1>11, <1>a, <2>1 DEF Turn
    <2>5. ASSUME NEW c \in Chan, attachment'[c] = s PROVE Turn(c, s)'
      <3>1. Turn(c, s) /\ listeners[c] = IF old[d] = c THEN 1 ELSE 0
        BY <1>a, <2>1, <2>3, <2>4, <2>5 DEF Turn
      <3>2. listeners'[c] = 0
        BY <1>t, <2>1, <2>4, <3>1, UnlistenedType
      <3>3. c # d => pc[c] \notin Active
        BY <1>a, <2>1, <2>2, <2>5 DEF InTurn
      <3> QED BY <2>1, <2>3, <2>4, <3>2, <3>3 DEF Turn, Active, Registering
    <2>6. Newest(s)'
      BY <1>11, <1>a, <2>1, <2>4 DEF Newest
    <2> QED BY <1>a, <2>2, <2>5, <2>6 DEF Alone
  <1>12. ASSUME NEW d \in Chan, attachment[d] = s, PutIfAbsent(d) PROVE Alone(s)'
    <2>0. pc[d] = "put" /\ clientChannels[s] = None
      BY <1>12, <1>a DEF PutIfAbsent, Turn
    <2>1. /\ UNCHANGED <<state, attachment, listeners, old>>
          /\ \A c \in Chan : c # d => pc'[c] = pc[c]
          /\ pc'[d] = "listen" /\ clientChannels'[s] = d /\ newest'[s] = d
      BY <1>12, <1>t, <2>0 DEF PutIfAbsent, TypeOK
    <2>2. InTurn(d, s) /\ \A c \in Chan : InTurn(c, s)' => InTurn(c, s)
      BY <1>12, <2>0, <2>1 DEF InTurn, Active, Registering
    <2>3. \A c \in Chan : ~Taken(c, s) /\ ~Taken(c, s)'
      BY <1>c, <2>0, <2>1, <2>2 DEF Taken
    <2>4. ASSUME NEW c \in Chan, attachment'[c] = s PROVE Turn(c, s)'
      <3>1. listeners'[c] = 0
        BY <1>a, <2>0, <2>1, <2>3, <2>4 DEF Turn
      <3>2. c # d => pc[c] \notin Active
        BY <1>a, <2>1, <2>2, <2>4 DEF InTurn
      <3> QED BY <2>1, <2>3, <3>1, <3>2 DEF Turn, Active, Registering
    <2>5. Newest(s)'
      BY <1>12, <2>1 DEF Newest
    <2> QED BY <1>a, <2>2, <2>4, <2>5 DEF Alone
  <1>13. ASSUME NEW d \in Chan, attachment[d] = s, AddListener(d) PROVE Alone(s)'
    <2>1. /\ UNCHANGED <<state, attachment, clientChannels, old, newest>>
          /\ \A c \in Chan : c # d => pc'[c] = pc[c] /\ listeners'[c] = listeners[c]
          /\ pc[d] = "listen" /\ pc'[d] = "idle" /\ listeners'[d] = listeners[d] + 1
      BY <1>13, <1>t DEF AddListener, TypeOK
    <2>2. InTurn(d, s) /\ \A c \in Chan : InTurn(c, s)' => InTurn(c, s)
      BY <1>13, <2>1 DEF InTurn, Active, Registering
    <2>3. \A c \in Chan : ~Taken(c, s) /\ ~Taken(c, s)'
      BY <1>c, <2>1, <2>2 DEF Taken
    <2>4. clientChannels[s] = d /\ listeners[d] = 0
      BY <1>13, <1>a, <2>1, <2>3 DEF Turn
    <2>5. ASSUME NEW c \in Chan, attachment'[c] = s PROVE Turn(c, s)'
      BY <1>a, <2>1, <2>3, <2>4, <2>5 DEF Turn
    <2>6. Newest(s)'
      BY <1>a, <2>1 DEF Newest
    <2> QED BY <1>a, <2>2, <2>5, <2>6 DEF Alone
  <1>14. ASSUME NEW d \in Chan, attachment[d] = s, OperationComplete(d) PROVE Alone(s)'
    <2>0. pc[d] = "notify" /\ listeners[d] > 0 /\ state[d] = "closed"
      BY <1>14, <1>t DEF OperationComplete, Local, Ending
    <2>1. InTurn(d, s)
      BY <1>14, <2>0 DEF InTurn, Active
    <2>2. clientChannels[s] = d /\ listeners[d] = 1
      BY <1>14, <1>a, <1>c, <2>0, <2>1 DEF Turn
    <2>3. /\ UNCHANGED <<state, attachment, newest>>
          /\ \A c \in Chan : c # d =>
                pc'[c] = pc[c] /\ old'[c] = old[c] /\ listeners'[c] = listeners[c]
          /\ clientChannels'[s] = None /\ old'[d] = d /\ listeners'[d] = 0 /\ pc'[d] = "drop"
      BY <1>14, <1>t, <2>2 DEF OperationComplete, MapRemove, TypeOK
    <2>4. \A c \in Chan : InTurn(c, s)' => InTurn(c, s)
      BY <2>1, <2>3 DEF InTurn
    <2>5. \A c \in Chan : ~Taken(c, s) /\ ~Taken(c, s)'
      BY <1>c, <2>0, <2>1, <2>3 DEF Taken
    <2>6. ASSUME NEW c \in Chan, attachment'[c] = s PROVE Turn(c, s)'
      <3>1. c # d => pc[c] \notin Active
        BY <1>a, <2>1, <2>3, <2>6 DEF InTurn
      <3> QED BY <1>a, <2>2, <2>3, <2>5, <2>6, <3>1 DEF Turn, Active, Registering
    <2>7. Newest(s)'
      BY <1>a, <2>0, <2>2, <2>3 DEF Newest
    <2> QED BY <1>a, <2>4, <2>6, <2>7 DEF Alone
  <1>15. ASSUME NEW d \in Chan, attachment[d] = s, DropListener(d) PROVE Alone(s)'
    <2>1. pc[d] = "drop" /\ state[d] = "closed" /\ old[d] = d
      BY <1>15, <1>a, <1>t DEF DropListener, Local, Ending, Turn
    <2>2. /\ UNCHANGED <<state, attachment, clientChannels, newest>>
          /\ \A c \in Chan : c # d => pc'[c] = pc[c] /\ old'[c] = old[c]
          /\ pc'[d] = "notify"
          /\ \A c \in Chan : listeners'[c] = listeners[c]
      BY <1>15, <1>t, <2>1, UnlistenedType DEF DropListener, TypeOK
    <2>3. \A c \in Chan : InTurn(c, s)' => InTurn(c, s)
      BY <2>1, <2>2 DEF InTurn, Active
    <2>4. \A c \in Chan : Taken(c, s)' <=> Taken(c, s)
      BY <2>1, <2>2 DEF Taken
    <2>5. ASSUME NEW c \in Chan, attachment'[c] = s PROVE Turn(c, s)'
      <3>1. c # d => pc[c] # "unlisten"
        BY <1>15, <1>a, <2>1, <2>2, <2>5 DEF InTurn, Active, Registering
      <3> QED BY <1>a, <2>1, <2>2, <2>4, <2>5, <3>1 DEF Turn
    <2>6. Newest(s)'
      BY <1>a, <2>1, <2>2 DEF Newest
    <2> QED BY <1>a, <2>3, <2>5, <2>6 DEF Alone
  <1>16. ASSUME NEW d \in Chan, attachment[d] = s, Notified(d) PROVE Alone(s)'
    <2>1. /\ UNCHANGED <<state, attachment, clientChannels, listeners, old, newest>>
          /\ \A c \in Chan : c # d => pc'[c] = pc[c]
          /\ pc[d] = "notify" /\ pc'[d] = "done"
      BY <1>16, <1>t DEF Notified, TypeOK
    <2>2. \A c \in Chan : InTurn(c, s)' => InTurn(c, s)
      BY <2>1 DEF InTurn, Active, Registering
    <2>3. \A c \in Chan : Taken(c, s)' <=> Taken(c, s)
      BY <2>1 DEF Taken
    <2>4. \A c \in Chan : attachment'[c] = s => Turn(c, s)'
      BY <1>a, <2>1, <2>3 DEF Turn
    <2>5. Newest(s)'
      BY <1>a, <2>1 DEF Newest
    <2> QED BY <1>a, <2>2, <2>4, <2>5 DEF Alone
  <1>17. ASSUME NEW d \in Chan, attachment[d] = s, Close(d) PROVE Alone(s)'
    <2>1. /\ UNCHANGED <<attachment, clientChannels, listeners, old, newest>>
          /\ \A c \in Chan : c # d => pc'[c] = pc[c] /\ state'[c] = state[c]
          /\ pc[d] = "idle" /\ pc'[d] = "notify" /\ state'[d] = "closed" /\ ~Busy(d, s)
      BY <1>17, <1>t DEF Close, TypeOK
    <2>2. \A c \in Chan : ~InTurn(c, s)
      BY <2>1 DEF InTurn, Busy, Active, Registering
    <2>3. \A c \in Chan : InTurn(c, s)' => c = d
      BY <2>1, <2>2 DEF InTurn
    <2>4. \A c \in Chan : ~Taken(c, s) /\ ~Taken(c, s)'
      BY <2>1, <2>2 DEF Taken, InTurn, Active, Registering
    <2>5. ASSUME NEW c \in Chan, attachment'[c] = s PROVE Turn(c, s)'
      <3>1. Turn(c, s) /\ pc[c] \notin Active
        BY <1>a, <2>1, <2>2, <2>5 DEF InTurn
      <3> QED BY <2>1, <2>4, <3>1 DEF Turn, Active, Registering
    <2>6. Newest(s)'
      BY <1>a, <1>e, <2>1 DEF Newest
    <2> QED BY <2>3, <2>5, <2>6 DEF Alone
  <1>18. ASSUME NEW d \in Chan, s \in SerialsOf[d], RegistAttach(d, s) PROVE Alone(s)'
    <2>1. /\ UNCHANGED <<state, clientChannels, listeners, old, newest>>
          /\ \A c \in Chan : c # d => pc'[c] = pc[c] /\ attachment'[c] = attachment[c]
          /\ pc[d] = "idle" /\ pc'[d] = "contains" /\ attachment'[d] = s
          /\ ~Busy(d, s) /\ attachment[d] \in {None, s}
      BY <1>18, <1>t DEF RegistAttach, Receive, TypeOK
    <2>2. \A c \in Chan : ~InTurn(c, s)
      BY <2>1 DEF InTurn, Busy, Active, Registering
    <2>3. \A c \in Chan : InTurn(c, s)' => c = d
      BY <2>1, <2>2 DEF InTurn
    <2>4. \A c \in Chan : ~Taken(c, s) /\ ~Taken(c, s)'
      BY <2>1, <2>2 DEF Taken, InTurn, Active, Registering
    <2>5. attachment[d] = None => listeners[d] = 0 /\ clientChannels[s] # d
      BY <1>t DEF Local, Known
    <2>6. ASSUME NEW c \in Chan, attachment'[c] = s PROVE Turn(c, s)'
      <3>1. CASE attachment[c] = s
        BY <1>a, <2>1, <2>2, <2>4, <3>1 DEF Turn, InTurn, Active, Registering
      <3>2. CASE attachment[c] # s
        BY <2>1, <2>4, <2>5, <2>6, <3>2 DEF Turn
      <3> QED BY <3>1, <3>2
    <2>7. Newest(s)'
      <3>1. \A c \in Chan : attachment[c] = s => attachment'[c] = s
        BY <2>1
      <3> QED BY <1>a, <1>e, <2>1, <3>1 DEF Newest
    <2> QED BY <2>3, <2>6, <2>7 DEF Alone
  <1> QED
    BY <1>1, <1>2, <1>3, <1>4, <1>5, <1>6, <1>7, <1>8, <1>9, <1>10, <1>11, <1>12,
       <1>13, <1>14, <1>15, <1>16, <1>17, <1>18 DEF Next, Handler

\* The channel registered last under a number is found under it as long as it
\* is open and no thread is at work on the number, provided that no two ever
\* were at once: the close of an older connection of the camera then finds its
\* own listener gone and leaves the newer entry alone.
THEOREM CameraFound == Spec => []RegisteredFound
  <1> DEFINE Inv == Linked /\ \A s \in Serial \ clash : Alone(s)
  <1>1. Spec => [](TypeInv /\ Counts)
    BY CountsHold
  <1>2. Init => Inv
    BY GroupAssumption DEF Init, Linked, Alone, Turn, InTurn, Active, Registering, Newest, Taken
  <1>3. TypeInv /\ Counts /\ Inv /\ [Next]_vars => Inv'
    <2> SUFFICES ASSUME TypeInv, Counts, Inv, [Next]_vars PROVE Inv'
      OBVIOUS
    <2>1. Linked' /\ clash \subseteq clash'
      BY LinkedNext DEF Alone
    <2>2. ASSUME NEW s \in Serial, s \notin clash' PROVE Alone(s)'
      BY <2>1, <2>2, AloneNext
    <2> QED BY <2>1, <2>2
  <1>4. Inv => RegisteredFound
    BY DEF RegisteredFound, Quiet, Alone, Newest
  <1> QED BY <1>1, <1>2, <1>3, <1>4, PTL DEF Spec
=============================================================================
