----------------------------- MODULE Processor -----------------------------
(***************************************************************************)
(* The cutter processor (live/cutter/cutterprocessor/main.cpp, Linux       *)
(* build): one thread that keeps one cutterworker child per line of the    *)
(* file cutter_channel_list.  Each round it reads the list, forks workers  *)
(* for new lines, kills those whose line is gone and then, for a while,    *)
(* restarts the ones that die.  Three structures have to agree: the map    *)
(* workers from command lines to slot numbers, the slot table hProcesses   *)
(* of pids, and processCount, which bounds the search of the table.        *)
(*                                                                         *)
(* The list is edited, and workers die, between any two steps.  A pid is   *)
(* taken from a small set and may be used again as soon as waitpid has     *)
(* returned it, never before.  A killed worker runs on for a while.        *)
(***************************************************************************)
EXTENDS Integers, Sequences, FiniteSets

CONSTANTS Guid, Url,   \* channel ids and stream addresses
          RtmpUrl,     \* the addresses that start with "rtmp"
          Lists,       \* what the list file may hold: sequences of lines
          Pid,         \* process ids
          None,        \* an empty slot; a list file that cannot be opened
          MaxProcess,  \* csMaxProcessCount
          WaitTicks,   \* wait_ticks
          MaxEdit,     \* bound: how often the list file changes
          MaxDeath,    \* bound: workers that die by themselves
          MaxFault     \* bound: forks that fail

Line == [guid : Guid, url : Url]

ASSUME ProcessorAssumption ==
    /\ RtmpUrl \subseteq Url /\ Lists \subseteq Seq(Line)
    /\ MaxProcess \in Nat /\ MaxProcess > 1 /\ WaitTicks \in Nat \ {0}
    /\ MaxEdit \in Nat /\ MaxDeath \in Nat /\ MaxFault \in Nat

ASSUME NoneAssumption == None \notin Pid /\ None \notin Lists

VARIABLES
    file,           \* the list file
    pc,             \* where the loop is: "open", "line", "close",
                    \* "watch", "wait"
    rest,           \* lines of the list still to be read
    channel_list,   \* command lines accepted in this round
    channel_id_set, \* guids of the workers started in this round
    processCount, workers, hProcesses,
    ticks,          \* wait_ticks
    procs,          \* the children not yet reaped
    edits, deaths, faults

tables == <<processCount, workers, hProcesses>>
env == <<edits, deaths, faults>>
vars == <<file, pc, rest, channel_list, channel_id_set, tables, ticks, procs, env>>

Slot == 0..MaxProcess - 1

\* cmd_line: an rtmp address goes through the proxy, the guid names the
\* directory the worker writes to.
CmdLine(line) ==
    [guid |-> line.guid, url |-> line.url, proxy |-> line.url \in RtmpUrl]
Cmd == [guid : Guid, url : Url, proxy : BOOLEAN]

Init ==
    /\ file \in Lists \cup {None}
    /\ pc = "open" /\ rest = <<>> /\ channel_list = {} /\ channel_id_set = {}
    /\ processCount = 0 /\ workers = <<>>
    /\ hProcesses = [i \in Slot |-> None]
    /\ ticks = 0 /\ procs = <<>> /\ edits = 0 /\ deaths = 0 /\ faults = 0

----------------------------------------------------------------------------
(* The environment.                                                        *)

EditList ==
    /\ edits < MaxEdit
    /\ \E f \in (Lists \cup {None}) \ {file} : file' = f
    /\ edits' = edits + 1
    /\ UNCHANGED <<pc, rest, channel_list, channel_id_set, tables, ticks, procs,
                   deaths, faults>>

\* A worker ends by itself, or exec failed and the child left with exit(0).
Die(p) ==
    /\ procs[p].st = "up" /\ deaths < MaxDeath
    /\ procs' = [procs EXCEPT ![p].st = "dead"]
    /\ deaths' = deaths + 1
    /\ UNCHANGED <<file, pc, rest, channel_list, channel_id_set, tables, ticks,
                   edits, faults>>

\* A worker that was sent SIGTERM ends.
Terminate(p) ==
    /\ procs[p].st = "term"
    /\ procs' = [procs EXCEPT ![p].st = "dead"]
    /\ UNCHANGED <<file, pc, rest, channel_list, channel_id_set, tables, ticks, env>>

\* The children after fork returned p.
Forked(children, p, c) ==
    [q \in DOMAIN children \cup {p} |->
        IF q = p THEN [cmd |-> c, st |-> "up"] ELSE children[q]]

----------------------------------------------------------------------------
(* Reading the list.                                                       *)

OpenList ==
    /\ pc = "open" /\ file # None
    /\ pc' = "line" /\ rest' = file
    /\ channel_list' = {} /\ channel_id_set' = {} /\ processCount' = 0
    /\ UNCHANGED <<file, workers, hProcesses, ticks, procs, env>>

\* The list cannot be opened: goto watching, with everything as it was.
OpenFails ==
    /\ pc = "open" /\ file = None
    /\ pc' = "watch"
    /\ UNCHANGED <<file, rest, channel_list, channel_id_set, tables, ticks, procs, env>>

Repeated(l) == CmdLine(l) \in channel_list \/ l.guid \in channel_id_set

SkipLine(l) ==
    /\ Repeated(l)
    /\ UNCHANGED <<channel_list, channel_id_set, tables, procs, faults>>

KeepWorker(l) ==
    /\ ~Repeated(l) /\ CmdLine(l) \in DOMAIN workers
    /\ channel_list' = channel_list \cup {CmdLine(l)}
    /\ processCount' = processCount + 1
    /\ UNCHANGED <<channel_id_set, workers, hProcesses, procs, faults>>

\* fork fails for want of a pid or of memory.
ForkFails(l) ==
    /\ ~Repeated(l) /\ CmdLine(l) \notin DOMAIN workers
    /\ \/ Pid \subseteq DOMAIN procs /\ UNCHANGED faults
       \/ faults < MaxFault /\ faults' = faults + 1
    /\ channel_list' = channel_list \cup {CmdLine(l)}
    /\ UNCHANGED <<channel_id_set, tables, procs>>

FreeSlots == {i \in 0..MaxProcess - 2 : hProcesses[i] = None}

\* A new worker takes the first free slot.
StartWorker(l) ==
    /\ ~Repeated(l) /\ CmdLine(l) \notin DOMAIN workers /\ FreeSlots # {}
    /\ LET c == CmdLine(l)
           i == CHOOSE s \in FreeSlots : \A t \in FreeSlots : s <= t
       IN /\ channel_list' = channel_list \cup {c}
          /\ \E p \in Pid \ DOMAIN procs :
                /\ procs' = Forked(procs, p, c)
                /\ hProcesses' = [hProcesses EXCEPT ![i] = p]
          /\ workers' = [d \in DOMAIN workers \cup {c} |->
                            IF d = c THEN [idx |-> i, guid |-> l.guid]
                                     ELSE workers[d]]
    /\ channel_id_set' = channel_id_set \cup {l.guid}
    /\ processCount' = processCount + 1
    /\ UNCHANGED faults

\* No slot left: the child that was just forked is killed again.
TableFull(l) ==
    /\ ~Repeated(l) /\ CmdLine(l) \notin DOMAIN workers /\ FreeSlots = {}
    /\ channel_list' = channel_list \cup {CmdLine(l)}
    /\ \E p \in Pid \ DOMAIN procs :
          procs' = [Forked(procs, p, CmdLine(l)) EXCEPT ![p].st = "term"]
    /\ UNCHANGED <<channel_id_set, tables, faults>>

ReadLine ==
    /\ pc = "line" /\ rest # <<>>
    /\ rest' = Tail(rest)
    /\ LET l == Head(rest)
       IN SkipLine(l) \/ KeepWorker(l) \/ ForkFails(l) \/ StartWorker(l) \/ TableFull(l)
    /\ UNCHANGED <<file, pc, ticks, edits, deaths>>

EndOfList ==
    /\ pc = "line" /\ rest = <<>>
    /\ pc' = "close"
    /\ UNCHANGED <<file, rest, channel_list, channel_id_set, tables, ticks, procs, env>>

----------------------------------------------------------------------------
(* Closing deleted workers.                                                *)

\* Mutant: the slot numbers behind i are not changed.
Renumbered_Never(c, i) ==
    [d \in DOMAIN workers \ {c} |->
        IF i < 0 /\ workers[d].idx > i
        THEN [workers[d] EXCEPT !.idx = @ - 1]
        ELSE workers[d]]

\* The map and the table once the worker of c is gone from slot i: later
\* workers move down by one, if there are any.
Renumbered(c, i) ==
    [d \in DOMAIN workers \ {c} |->
        IF i < Cardinality(DOMAIN workers) - 1 /\ workers[d].idx > i
        THEN [workers[d] EXCEPT !.idx = @ - 1]
        ELSE workers[d]]

\* Mutant: the copy loop stops one slot early.
Shifted_Off(i) ==
    LET ends == {j \in i + 1..MaxProcess - 1 :
                    j = MaxProcess - 1 \/ hProcesses[j] = None}
        stop == CHOOSE j \in ends : \A k \in ends : j <= k
    IN [j \in Slot |-> IF i <= j /\ j < stop - 1 THEN hProcesses[j + 1]
                       ELSE IF j = stop /\ j = MaxProcess - 1 THEN None
                       ELSE hProcesses[j]]

\* The copy loop stops at the first empty slot behind i, or at the last slot.
Shifted(i) ==
    LET ends == {j \in i + 1..MaxProcess - 1 :
                    j = MaxProcess - 1 \/ hProcesses[j] = None}
        stop == CHOOSE j \in ends : \A k \in ends : j <= k
    IN [j \in Slot |-> IF i <= j /\ j < stop THEN hProcesses[j + 1]
                       ELSE IF j = stop /\ j = MaxProcess - 1 THEN None
                       ELSE hProcesses[j]]

Deleted == DOMAIN workers \ channel_list

\* Mutant: the worker is not killed.
CloseWorker_NoKill(c) ==
    /\ pc = "close" /\ c \in Deleted
    /\ LET i == workers[c].idx
           p == hProcesses[i]
       IN /\ procs' = IF p \in DOMAIN procs /\ procs[p].st = "up"
                      THEN procs ELSE procs
          /\ workers' = Renumbered(c, i)
          /\ hProcesses' = Shifted(i)
    /\ UNCHANGED <<file, pc, rest, channel_list, channel_id_set, processCount, ticks, env>>

CloseWorker(c) ==
    /\ pc = "close" /\ c \in Deleted
    /\ LET i == workers[c].idx
           p == hProcesses[i]
       IN /\ procs' = IF p \in DOMAIN procs /\ procs[p].st = "up"
                      THEN [procs EXCEPT ![p].st = "term"] ELSE procs
          /\ workers' = Renumbered(c, i)
          /\ hProcesses' = Shifted(i)
    /\ UNCHANGED <<file, pc, rest, channel_list, channel_id_set, processCount, ticks, env>>

CloseDone ==
    /\ pc = "close" /\ Deleted = {}
    /\ pc' = "watch"
    /\ UNCHANGED <<file, rest, channel_list, channel_id_set, tables, ticks, procs, env>>

----------------------------------------------------------------------------
(* Watching.                                                               *)

Reaped(p) == [q \in DOMAIN procs \ {p} |-> procs[q]]

\* Mutant: the last slot is not searched.
Found_Off(p) == {i \in 0..processCount - 2 : hProcesses[i] = p}

\* The slots searched for a pid that waitpid returned, and the workers found.
Found(p) == {i \in 0..processCount - 1 : hProcesses[i] = p}
Owner(p) == {c \in DOMAIN workers : workers[c].idx \in Found(p)}

\* waitpid returned a child that is in no slot that is searched.
ReapOther(p) ==
    /\ Owner(p) = {}
    /\ procs' = Reaped(p)
    /\ UNCHANGED <<tables, faults>>

ReStartProcess(p) ==
    \E c \in Owner(p), q \in Pid \ (DOMAIN procs \ {p}) :
        /\ procs' = Forked(Reaped(p), q, c)
        /\ hProcesses' = [hProcesses EXCEPT ![workers[c].idx] = q]
        /\ UNCHANGED <<processCount, workers, faults>>

ReStartFails(p) ==
    /\ faults < MaxFault /\ faults' = faults + 1
    /\ \E c \in Owner(p) :
          /\ workers' = Renumbered(c, workers[c].idx)
          /\ hProcesses' = Shifted(workers[c].idx)
    /\ procs' = Reaped(p)
    /\ processCount' = processCount - 1

WaitPid(p) ==
    /\ pc = "wait" /\ procs[p].st = "dead"
    /\ ReapOther(p) \/ ReStartProcess(p) \/ ReStartFails(p)
    /\ UNCHANGED <<file, pc, rest, channel_list, channel_id_set, ticks, edits, deaths>>

\* No child has ended: sleep(1).  After WaitTicks of these the list is due.
Tick ==
    /\ pc = "wait" /\ \A p \in DOMAIN procs : procs[p].st # "dead"
    /\ ticks' = ticks - 1
    /\ pc' = IF ticks' = 0 THEN "open" ELSE "wait"
    /\ UNCHANGED <<file, rest, channel_list, channel_id_set, tables, procs, env>>

Watch ==
    /\ pc = "watch"
    /\ IF processCount > 0 THEN pc' = "wait" /\ ticks' = WaitTicks
                           ELSE pc' = "open" /\ UNCHANGED ticks
    /\ UNCHANGED <<file, rest, channel_list, channel_id_set, tables, procs, env>>

----------------------------------------------------------------------------
Loop ==
    \/ OpenList \/ OpenFails \/ ReadLine \/ EndOfList
    \/ \E c \in DOMAIN workers : CloseWorker(c)
    \/ CloseDone \/ Watch \/ Tick
    \/ \E p \in DOMAIN procs : WaitPid(p)

Next ==
    \/ EditList
    \/ \E p \in DOMAIN procs : Die(p) \/ Terminate(p)
    \/ Loop

Spec == Init /\ [][Next]_vars

\* The loop never blocks, and a worker that was sent SIGTERM ends.
FairSpec ==
    /\ Spec /\ WF_vars(Loop)
    /\ \A p \in Pid : WF_vars(p \in DOMAIN procs /\ Terminate(p))

----------------------------------------------------------------------------
(* Properties.                                                             *)

Status == {"up", "term", "dead"}

\* Every variable of the loop keeps its type.
TypeOK ==
    /\ file \in Lists \cup {None}
    /\ pc \in {"open", "line", "close", "watch", "wait"}
    /\ rest \in Seq(Line)
    /\ channel_list \subseteq Cmd /\ channel_id_set \subseteq Guid
    /\ processCount \in 0..MaxProcess - 1
    /\ DOMAIN workers \subseteq Cmd
    /\ \A c \in DOMAIN workers : workers[c] \in [idx : Slot, guid : Guid]
    /\ hProcesses \in [Slot -> Pid \cup {None}]
    /\ ticks \in 0..WaitTicks
    /\ DOMAIN procs \subseteq Pid
    /\ \A p \in DOMAIN procs : procs[p] \in [cmd : Cmd, st : Status]
    /\ edits \in 0..MaxEdit /\ deaths \in 0..MaxDeath /\ faults \in 0..MaxFault

\* The map and the slot table agree through every start, close, restart and
\* failed restart: the workers hold the slots from 0 up without a gap, each
\* slot the pid of a child that was forked for that worker, was not killed
\* and has not been reaped.  When the loop waits for children, processCount,
\* counted anew from the list, covers exactly the slots in use, so no dead
\* worker is overlooked; also if the list could not be opened.
SlotsAgree ==
    /\ \A c \in DOMAIN workers :
          LET p == hProcesses[workers[c].idx]
          IN p \in DOMAIN procs /\ procs[p].cmd = c /\ procs[p].st # "term"
    /\ {workers[c].idx : c \in DOMAIN workers} = 0..Cardinality(DOMAIN workers) - 1
    /\ {i \in Slot : hProcesses[i] # None} = 0..Cardinality(DOMAIN workers) - 1
    /\ pc \in {"watch", "wait", "open"} => processCount = Cardinality(DOMAIN workers)

\* Every child that runs and was not told to stop is the one in its worker's
\* slot: no worker runs twice, and none is forgotten.
Managed ==
    \A p \in DOMAIN procs : procs[p].st = "up" =>
        /\ procs[p].cmd \in DOMAIN workers
        /\ hProcesses[workers[procs[p].cmd].idx] = p

\* SIGTERM goes to the worker of a deleted line, never, through a slot number
\* that is out of date, to one that is still listed.
KillsDeleted ==
    [][\A p \in DOMAIN procs \cap DOMAIN procs' :
          procs[p].st = "up" /\ procs'[p].st = "term"
              => procs[p].cmd \notin channel_list]_vars

Listed == IF file = None THEN {} ELSE {CmdLine(file[i]) : i \in DOMAIN file}
Running == {procs[p].cmd : p \in {q \in DOMAIN procs : procs[q].st = "up"}}

\* Once the list stays as it is and nothing fails any more, exactly the
\* listed channels have a running worker; after any mix of edits, deaths and
\* failed forks.
ListServed == <>[](file # None => Running = Listed)

=============================================================================
