----------------------------- MODULE PushStreams ----------------------------
(***************************************************************************)
(* The script that keeps the relays running (live/crtmpserver-717/scripts/ *)
(* push_streams.sh with rtmp_channel.py): it fetches the list of channels, *)
(* stops the relays (flv_stream.py) that are gone from it or have another  *)
(* address, rewrites the ini file and starts the relays that are missing.  *)
(* cron starts it, and so does every update request to sock_manage_rtmp.py *)
(* or http_manage_rtmp.py, so push_mutex is there to let one instance in   *)
(* at a time.  Instances, relays and files survive one another.            *)
(*                                                                         *)
(* One step is one command of the script.  A pid in the pid file or in     *)
(* pid_curr whose process has ended is Dead: no process has it.            *)
(***************************************************************************)
EXTENDS Integers, FiniteSets

CONSTANTS Run,       \* script instances that may exist at one time
          Guid, Url, None,
          Proper,    \* the guids whose first letter is in channel_index
          Lists,     \* lists of the CMS, [Guid -> Url \cup {None}]
          Empty, Dead,
          MaxStart, MaxEdit, MaxFault   \* bounds: instances, edits of the
                     \* list, failed fetches, deaths and kills

Addr == Url \cup {None}
NoList == [g \in Guid |-> None]

ASSUME PushAssumption ==
    /\ None \notin Url /\ {Empty, Dead, None} \cap Run = {} /\ Empty # Dead
    /\ Proper \subseteq Guid /\ IsFiniteSet(Url)
    /\ Lists \subseteq [Guid -> Addr] /\ Lists # {}
    /\ MaxStart \in Nat /\ MaxEdit \in Nat /\ MaxFault \in Nat

VARIABLES
    cms,       \* the list the CMS would answer with
    xml,       \* rtmp_channel.xml: [urls, good], good when it can be parsed
    ini,       \* rtmp_channel.ini
    relays,    \* how many relays of a guid run with an address
    pid_file, lock,
    pc, cmd, pid_curr, in_proc, todo, channel_dict,   \* of each instance
    starts, edits, faults,
    clash,     \* history: an attempt was refused or met another one, since
               \* the last time no instance was there
    overlap,   \* history: two instances have been past the mutex
    torn,      \* history: an instance was killed while it rewrote the ini file
    served     \* history: nothing happened since the last list was fetched

conf == <<cms, xml, ini>>
mutex == <<pid_file, lock, pid_curr, in_proc>>
local == <<cmd, todo, channel_dict>>
counts == <<starts, edits, faults>>
history == <<clash, overlap, torn, served>>
vars == <<conf, relays, mutex, pc, local, counts, history>>

Count(g) == Cardinality({u \in Addr : relays[<<g, u>>] > 0})
Keys(list) == {g \in Guid : list[g] # None}
InMutex(r) == pc[r] \in {"open", "ps", "flock", "test"}
InBody(r) == pc[r] \notin {"idle", "open", "ps", "flock", "test"}
Goto(r, l) == pc' = [pc EXCEPT ![r] = l]

Init ==
    /\ cms \in Lists
    /\ xml = [urls |-> NoList, good |-> FALSE] /\ ini = NoList
    /\ relays = [p \in Guid \X Addr |-> 0]
    /\ pid_file = Empty /\ lock = None
    /\ pc = [r \in Run |-> "idle"] /\ cmd = [r \in Run |-> "monitor"]
    /\ pid_curr = [r \in Run |-> Empty] /\ in_proc = [r \in Run |-> FALSE]
    /\ todo = [r \in Run |-> {}] /\ channel_dict = [r \in Run |-> NoList]
    /\ starts = 0 /\ edits = 0 /\ faults = 0
    /\ clash = FALSE /\ overlap = FALSE /\ torn = FALSE /\ served = FALSE

----------------------------------------------------------------------------
(* The environment.                                                        *)

Fault == faults < MaxFault /\ faults' = faults + 1

EditCms(l) ==
    /\ edits < MaxEdit /\ edits' = edits + 1
    /\ cms' = l
    /\ UNCHANGED <<xml, ini, relays, mutex, pc, local, starts, faults, history>>

RelayDies(g, u) ==
    /\ relays[<<g, u>>] > 0 /\ Fault
    /\ relays' = [relays EXCEPT ![<<g, u>>] = @ - 1]
    /\ served' = FALSE
    /\ UNCHANGED <<conf, mutex, pc, local, starts, edits, clash, overlap, torn>>

----------------------------------------------------------------------------
(* push_mutex.                                                             *)

\* cron or the management server starts the script, which reads the pid file.
Start(r, c) ==
    /\ pc[r] = "idle" /\ starts < MaxStart /\ starts' = starts + 1
    /\ cmd' = [cmd EXCEPT ![r] = c]
    /\ pid_curr' = [pid_curr EXCEPT ![r] = pid_file]
    /\ Goto(r, "open")
    /\ clash' = (clash \/ \E q \in Run : InMutex(q))
    /\ UNCHANGED <<conf, relays, pid_file, lock, in_proc, todo, channel_dict,
                   edits, faults, overlap, torn, served>>

\* The redirection of the subshell empties the pid file.
Truncate(r) ==
    /\ pc[r] = "open"
    /\ pid_file' = Empty
    /\ Goto(r, "ps")
    /\ UNCHANGED <<conf, relays, lock, pid_curr, in_proc, local, counts, history>>

\* Mutant: the process table is not asked.
Ps_None(r) ==
    /\ pc[r] = "ps"
    /\ in_proc' = [in_proc EXCEPT ![r] = FALSE]
    /\ Goto(r, "flock")
    /\ UNCHANGED <<conf, relays, pid_file, lock, pid_curr, local, counts, history>>

Ps(r) ==
    /\ pc[r] = "ps"
    /\ in_proc' = [in_proc EXCEPT ![r] = pid_curr[r] \in Run]
    /\ Goto(r, "flock")
    /\ UNCHANGED <<conf, relays, pid_file, lock, pid_curr, local, counts, history>>

\* The instance r is gone: its pid is that of no process.
Gone(r) ==
    /\ pc' = [pc EXCEPT ![r] = "idle"]
    /\ pid_curr' = [q \in Run |-> IF q = r THEN Empty
                                  ELSE IF pid_curr[q] = r THEN Dead ELSE pid_curr[q]]
    /\ in_proc' = [in_proc EXCEPT ![r] = FALSE]
    /\ todo' = [todo EXCEPT ![r] = {}]
    /\ channel_dict' = [channel_dict EXCEPT ![r] = NoList]
    /\ cmd' = [cmd EXCEPT ![r] = "monitor"]
    /\ pid_file' = IF pid_file = r THEN Dead ELSE pid_file
    /\ lock' = IF lock = r THEN None ELSE lock
    /\ clash' = ((clash \/ InMutex(r)) /\ \E q \in Run \ {r} : pc[q] # "idle")

Flock(r) ==
    /\ pc[r] = "flock"
    /\ IF lock = None
       THEN /\ lock' = r /\ Goto(r, "test")
            /\ UNCHANGED <<pid_file, pid_curr, in_proc, local, clash>>
       ELSE Gone(r)
    /\ UNCHANGED <<conf, relays, counts, overlap, torn, served>>

\* The pid is written, and the lock is released with the end of the subshell;
\* or the script ends: "push_streams.sh already running".
Test(r) ==
    /\ pc[r] = "test"
    /\ IF in_proc[r] THEN Gone(r) /\ UNCHANGED overlap
       ELSE /\ pid_file' = r /\ lock' = None
            /\ Goto(r, IF cmd[r] = "stop" THEN "stop" ELSE "fetch")
            /\ overlap' = (overlap \/ \E q \in Run : InBody(q))
            /\ UNCHANGED <<pid_curr, in_proc, local, clash>>
    /\ UNCHANGED <<conf, relays, counts, torn, served>>

----------------------------------------------------------------------------
(* push_update, push_start and push_stop.                                  *)

Killed(G) == relays' = [p \in Guid \X Addr |-> IF p[1] \in G THEN 0 ELSE relays[p]]

PushStop(r) ==
    /\ pc[r] = "stop"
    /\ Killed(Guid) /\ served' = FALSE
    /\ Gone(r)
    /\ UNCHANGED <<conf, counts, overlap, torn>>

\* The list is fetched; or nothing comes and the old file stays; or an error
\* page or a part of the list comes, which is no XML document.
Fetch(r) ==
    /\ pc[r] = "fetch"
    /\ \/ xml' = [urls |-> cms, good |-> TRUE] /\ served' = TRUE /\ UNCHANGED faults
       \/ Fault /\ served' = FALSE /\ UNCHANGED xml
       \/ Fault /\ served' = FALSE /\ \E G \in SUBSET Keys(cms) :
            xml' = [urls |-> [g \in Guid |-> IF g \in G THEN cms[g] ELSE None], good |-> FALSE]
    /\ todo' = [todo EXCEPT ![r] = Keys(ini)]
    /\ Goto(r, "compare")
    /\ UNCHANGED <<cms, ini, relays, mutex, cmd, channel_dict, starts, edits, clash, overlap, torn>>

\* Mutant: only removed channels are stopped.
Changed_Removed(g) == xml.urls[g] = None

\* The channel is gone from the list, or has another address.
Changed(g) == xml.urls[g] = None \/ (ini[g] # None /\ ini[g] # xml.urls[g])

Compare(r, g) ==
    /\ pc[r] = "compare" /\ g \in todo[r]
    /\ Killed({h \in {g} : Changed(h)})
    /\ todo' = [todo EXCEPT ![r] = @ \ {g}]
    /\ UNCHANGED <<conf, mutex, pc, cmd, channel_dict, counts, history>>

\* rtmp_channel.py: a file that cannot be parsed is an empty list; the ini
\* file is opened for writing, which empties it.
ParseXml(r) ==
    /\ pc[r] = "compare" /\ todo[r] = {}
    /\ channel_dict' = [channel_dict EXCEPT ![r] =
           [g \in Guid |-> IF xml.good /\ g \in Proper THEN xml.urls[g] ELSE None]]
    /\ ini' = NoList
    /\ Goto(r, "write")
    /\ UNCHANGED <<cms, xml, relays, mutex, cmd, todo, counts, history>>

WriteIni(r) ==
    /\ pc[r] = "write"
    /\ ini' = channel_dict[r]
    /\ todo' = [todo EXCEPT ![r] = {g \in Guid : Count(g) > 0}]
    /\ Goto(r, "clear")
    /\ UNCHANGED <<cms, xml, relays, mutex, cmd, channel_dict, counts, history>>

\* Mutant: relays of channels that are not listed go on.
Clear_None(r, g) ==
    /\ pc[r] = "clear" /\ g \in todo[r]
    /\ UNCHANGED relays
    /\ todo' = [todo EXCEPT ![r] = @ \ {g}]
    /\ UNCHANGED <<conf, mutex, pc, cmd, channel_dict, counts, history>>

Clear(r, g) ==
    /\ pc[r] = "clear" /\ g \in todo[r]
    /\ Killed({h \in {g} : ini[h] = None})
    /\ todo' = [todo EXCEPT ![r] = @ \ {g}]
    /\ UNCHANGED <<conf, mutex, pc, cmd, channel_dict, counts, history>>

PushStart(r) ==
    /\ pc[r] = "clear" /\ todo[r] = {}
    /\ todo' = [todo EXCEPT ![r] = Keys(ini)]
    /\ Goto(r, "start")
    /\ UNCHANGED <<conf, relays, mutex, cmd, channel_dict, counts, history>>

\* A relay is started if none of its guid runs; it takes its address from
\* the ini file.  If there is none the pull thread is missing, but the push
\* threads keep the process alive.
StartRelay(r, g) ==
    /\ pc[r] = "start" /\ g \in todo[r]
    /\ relays' = IF Count(g) = 0
                 THEN [relays EXCEPT ![<<g, ini[g]>>] = @ + 1] ELSE relays
    /\ todo' = [todo EXCEPT ![r] = @ \ {g}]
    /\ UNCHANGED <<conf, mutex, pc, cmd, channel_dict, counts, history>>

Finish(r) ==
    /\ pc[r] = "start" /\ todo[r] = {}
    /\ Gone(r)
    /\ UNCHANGED <<conf, relays, counts, overlap, torn, served>>

\* The instance is killed; its relays stay.
Kill(r) ==
    /\ InBody(r) /\ Fault
    /\ torn' = (torn \/ pc[r] \in {"write", "clear"})
    /\ served' = FALSE
    /\ Gone(r)
    /\ UNCHANGED <<conf, relays, starts, edits, overlap>>

----------------------------------------------------------------------------
Script(r) ==
    \/ Truncate(r) \/ Ps(r) \/ Flock(r) \/ Test(r) \/ PushStop(r) \/ Fetch(r)
    \/ ParseXml(r) \/ WriteIni(r) \/ PushStart(r) \/ Finish(r)
    \/ \E g \in Guid : Compare(r, g) \/ Clear(r, g) \/ StartRelay(r, g)

Next ==
    \/ \E l \in Lists : EditCms(l)
    \/ \E g \in Guid, u \in Addr : RelayDies(g, u)
    \/ \E r \in Run : Script(r) \/ Kill(r) \/ \E c \in {"monitor", "stop"} : Start(r, c)

Spec == Init /\ [][Next]_vars

----------------------------------------------------------------------------
(* Properties.                                                             *)

\* The types of the variables.
TypeOK ==
    /\ cms \in Lists /\ ini \in [Guid -> Addr]
    /\ xml \in [urls : [Guid -> Addr], good : BOOLEAN]
    /\ relays \in [Guid \X Addr -> Nat]
    /\ pid_file \in Run \cup {Empty, Dead} /\ lock \in Run \cup {None}
    /\ pc \in [Run -> {"idle", "open", "ps", "flock", "test", "stop", "fetch",
                       "compare", "write", "clear", "start"}]
    /\ cmd \in [Run -> {"monitor", "stop"}] /\ in_proc \in [Run -> BOOLEAN]
    /\ pid_curr \in [Run -> Run \cup {Empty, Dead}] /\ todo \in [Run -> SUBSET Guid]
    /\ channel_dict \in [Run -> [Guid -> Addr]]
    /\ starts \in 0..MaxStart /\ edits \in 0..MaxEdit /\ faults \in 0..MaxFault
    /\ {clash, overlap, torn, served} \subseteq BOOLEAN

\* push_mutex lets one instance in at a time, unless an attempt met another
\* attempt or was refused: a refused one has emptied the pid file, and the
\* next one gets in although the first still runs.
Exclusive ==
    ~clash => \A q, r \in Run : InBody(q) /\ InBody(r) => q = r

Quiet == \A r \in Run : pc[r] = "idle"

\* As long as no two instances were in the script at once and none was killed
\* while it wrote the ini file: no channel is relayed twice, and when no
\* instance is there every relay uses the address of the ini file, after any
\* number of edits, failed fetches, kills and stops.
NotStale ==
    ~overlap /\ ~torn =>
        /\ \A g \in Guid : Count(g) <= 1 /\ \A u \in Addr : relays[<<g, u>>] <= 1
        /\ Quiet => \A g \in Guid, u \in Addr : relays[<<g, u>>] > 0 => u # None /\ ini[g] = u

\* After an instance that got the list has ended, exactly the proper channels
\* of that list are relayed, each from its address.
Served ==
    served /\ Quiet /\ ~overlap /\ ~torn =>
        \A g \in Guid, u \in Url :
            relays[<<g, u>>] > 0 <=> g \in Proper /\ xml.urls[g] = u

=============================================================================
