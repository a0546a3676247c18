---------------------------- MODULE ChannelGroup ----------------------------
(***************************************************************************)
(* The registry of the control server (control/controller/trunk/           *)
(* XHomeTCPServer: ServerHandler and XHomeChannelGroup).  A camera         *)
(* registers its connection under its serial number; a request to rotate   *)
(* or to stop is forwarded to the connection found under the serial number *)
(* it names.  A camera whose connection broke comes back on a new one,     *)
(* often before the server has noticed the end of the old one.             *)
(*                                                                         *)
(* Netty runs the handlers of one channel, and the listeners of its close  *)
(* future, on one thread, and different channels on different threads.     *)
(* The map is concurrent: one call of it is one step.  The close future is *)
(* modelled by the number of times remover is registered with it: once it  *)
(* is done, removeListener changes nothing and every listener that was     *)
(* left is called in turn.  Reading and writing of sockets is external.    *)
(***************************************************************************)
EXTENDS Integers, Sequences, FiniteSets

CONSTANTS Chan,      \* channels, each accepted once
          Serial,    \* serial numbers of cameras
          SerialsOf, \* the numbers the device at the end of a channel may send
          None,
          MaxMsg     \* bound: messages received on a channel

ASSUME GroupAssumption ==
    /\ SerialsOf \in [Chan -> SUBSET Serial]
    /\ None \notin Chan \cup Serial /\ MaxMsg \in Nat /\ IsFiniteSet(Chan)

VARIABLES
    state,           \* of each channel: "new", "open" or "closed"
    attachment,      \* the DeviceMetadata attached to a channel
    clientChannels,  \* the map
    listeners,       \* how often remover is registered with the close future
    pc,              \* where the thread of each channel is
    old,             \* the channel its call of clientChannels.remove returned
    msgs,            \* messages received on each channel
    job,             \* the request a thread forwards: channel, serial number
    got,             \* requests that went out on each channel
    done,            \* requests answered with "Send done"
    newest,          \* history: the channel last registered under a number
    twofold,         \* history: channels that registered under two numbers
    clash            \* history: numbers that two handlers worked on at once,
                     \* or that belong to a twofold channel

reg == <<clientChannels, listeners>>
hist == <<newest, twofold, clash>>
vars == <<state, attachment, reg, pc, old, msgs, job, got, done, hist>>

Request == [from : Chan, n : 1..MaxMsg, serial : Serial]
NoJob == [to |-> None, serial |-> None]

Init ==
    /\ state = [c \in Chan |-> "new"]
    /\ attachment = [c \in Chan |-> None]
    /\ clientChannels = [s \in Serial |-> None]
    /\ listeners = [c \in Chan |-> 0]
    /\ pc = [c \in Chan |-> "idle"]
    /\ old = [c \in Chan |-> None]
    /\ msgs = [c \in Chan |-> 0]
    /\ job = [c \in Chan |-> NoJob]
    /\ got = [c \in Chan |-> {}] /\ done = {}
    /\ newest = [s \in Serial |-> None] /\ twofold = {} /\ clash = {}

Goto(c, l) == pc' = [pc EXCEPT ![c] = l]
Traffic == <<job, got, done>>

Accept(c) ==
    /\ state[c] = "new"
    /\ state' = [state EXCEPT ![c] = "open"]
    /\ UNCHANGED <<attachment, reg, pc, old, msgs, Traffic, hist>>

\* A message arrives on c and its handler is called.
Receive(c) ==
    /\ pc[c] = "idle" /\ state[c] = "open" /\ msgs[c] < MaxMsg
    /\ msgs' = [msgs EXCEPT ![c] = @ + 1]

----------------------------------------------------------------------------
(* REGIST.                                                                 *)

\* Another channel of number s is being registered or closed.
Busy(c, s) ==
    \E d \in Chan \ {c} :
        attachment[d] = s /\ pc[d] \in {"contains", "remove", "unlisten", "put",
                                        "listen", "notify", "drop"}

RegistAttach(c, s) ==
    /\ Receive(c) /\ Goto(c, "contains")
    /\ attachment' = [attachment EXCEPT ![c] = s]
    /\ LET two == attachment[c] \notin {None, s}
       IN /\ twofold' = IF two THEN twofold \cup {c} ELSE twofold
          /\ clash' = clash \cup (IF two THEN {s, attachment[c]} ELSE {})
                           \cup (IF Busy(c, s) THEN {s} ELSE {})
    /\ UNCHANGED <<state, reg, old, Traffic, newest>>

ContainsKey(c) ==
    /\ pc[c] = "contains"
    /\ Goto(c, IF clientChannels[attachment[c]] # None THEN "remove" ELSE "put")
    /\ UNCHANGED <<state, attachment, reg, old, msgs, Traffic, hist>>

\* XHomeChannelGroup.remove: the entry goes first, its listener afterwards.
MapRemove(c) ==
    /\ old' = [old EXCEPT ![c] = clientChannels[attachment[c]]]
    /\ clientChannels' = [clientChannels EXCEPT ![attachment[c]] = None]

RegistRemove(c) ==
    /\ pc[c] = "remove"
    /\ MapRemove(c)
    /\ Goto(c, IF old'[c] = None THEN "put" ELSE "unlisten")
    /\ UNCHANGED <<state, attachment, listeners, msgs, Traffic, hist>>

\* removeListener: one registration is taken back, if the future is not done.
Unlistened(d) ==
    [listeners EXCEPT ![d] = IF state[d] = "open" /\ @ > 0 THEN @ - 1 ELSE @]

\* Mutant: the replaced channel keeps its listener.
RegistUnlisten_Keep(c) ==
    /\ pc[c] = "unlisten"
    /\ listeners' = listeners
    /\ old' = [old EXCEPT ![c] = None]
    /\ Goto(c, "put")
    /\ UNCHANGED <<state, attachment, clientChannels, msgs, Traffic, hist>>

RegistUnlisten(c) ==
    /\ pc[c] = "unlisten"
    /\ listeners' = Unlistened(old[c])
    /\ old' = [old EXCEPT ![c] = None]
    /\ Goto(c, "put")
    /\ UNCHANGED <<state, attachment, clientChannels, msgs, Traffic, hist>>

\* XHomeChannelGroup.add: putIfAbsent, and the listener only if it was absent.
\* Either way the handler logs "Regist done".
PutIfAbsent(c) ==
    /\ pc[c] = "put"
    /\ LET s == attachment[c]
       IN IF clientChannels[s] = None
          THEN /\ clientChannels' = [clientChannels EXCEPT ![s] = c]
               /\ newest' = [newest EXCEPT ![s] = c]
               /\ Goto(c, "listen")
          ELSE /\ UNCHANGED <<clientChannels, newest>>
               /\ Goto(c, "idle")
    /\ UNCHANGED <<state, attachment, listeners, old, msgs, Traffic, twofold, clash>>

AddListener(c) ==
    /\ pc[c] = "listen"
    /\ listeners' = [listeners EXCEPT ![c] = @ + 1]
    /\ Goto(c, "idle")
    /\ UNCHANGED <<state, attachment, clientChannels, old, msgs, Traffic, hist>>

----------------------------------------------------------------------------
(* The end of a channel: its peer leaves, or a handler throws and          *)
(* exceptionCaught closes it.  The close future is done at once.           *)

Close(c) ==
    /\ pc[c] = "idle" /\ state[c] = "open"
    /\ state' = [state EXCEPT ![c] = "closed"]
    /\ Goto(c, "notify")
    /\ clash' = clash \cup {s \in {attachment[c]} \ {None} : Busy(c, s)}
    /\ UNCHANGED <<attachment, reg, old, msgs, Traffic, newest, twofold>>

\* Mutant: a closed channel stays in the map.
OperationComplete_Keep(c) ==
    /\ pc[c] = "notify" /\ listeners[c] > 0
    /\ listeners' = [listeners EXCEPT ![c] = @ - 1]
    /\ UNCHANGED <<clientChannels, old>>
    /\ Goto(c, IF old'[c] = None THEN "notify" ELSE "drop")
    /\ UNCHANGED <<state, attachment, msgs, Traffic, hist>>

\* operationComplete: remove(deviceData.getSerialNum()).
OperationComplete(c) ==
    /\ pc[c] = "notify" /\ listeners[c] > 0
    /\ listeners' = [listeners EXCEPT ![c] = @ - 1]
    /\ MapRemove(c)
    /\ Goto(c, IF old'[c] = None THEN "notify" ELSE "drop")
    /\ UNCHANGED <<state, attachment, msgs, Traffic, hist>>

DropListener(c) ==
    /\ pc[c] = "drop"
    /\ listeners' = Unlistened(old[c])
    /\ old' = [old EXCEPT ![c] = None]
    /\ Goto(c, "notify")
    /\ UNCHANGED <<state, attachment, clientChannels, msgs, Traffic, hist>>

Notified(c) ==
    /\ pc[c] = "notify" /\ listeners[c] = 0
    /\ Goto(c, "done")
    /\ UNCHANGED <<state, attachment, reg, old, msgs, Traffic, hist>>

----------------------------------------------------------------------------
(* ROTATE and STOP_ROTATE: find the camera, forward the message, report to *)
(* the sender.  The write encodes the message before it returns, so the    *)
(* later setData does not reach the camera.  A heartbeat and the replies   *)
(* of a camera change nothing.                                             *)

\* Mutant: falls back to another entry of the map.
Find_Any(c, s) ==
    /\ Receive(c)
    /\ job' = [job EXCEPT ![c] = [to |-> IF clientChannels[s] = None THEN None ELSE clientChannels[CHOOSE t \in Serial : clientChannels[t] # None], serial |-> s]]
    /\ Goto(c, IF clientChannels[s] = None THEN "failed" ELSE "forward")
    /\ UNCHANGED <<state, attachment, reg, old, got, done, hist>>

Find(c, s) ==
    /\ Receive(c)
    /\ job' = [job EXCEPT ![c] = [to |-> clientChannels[s], serial |-> s]]
    /\ Goto(c, IF clientChannels[s] = None THEN "failed" ELSE "forward")
    /\ UNCHANGED <<state, attachment, reg, old, got, done, hist>>

Pending(c) == [from |-> c, n |-> msgs[c], serial |-> job[c].serial]

\* A write to a channel that is closed fails, which nobody looks at.
Forward(c) ==
    /\ pc[c] = "forward"
    /\ got' = IF state[job[c].to] = "open"
              THEN [got EXCEPT ![job[c].to] = @ \cup {Pending(c)}] ELSE got
    /\ Goto(c, "sent")
    /\ UNCHANGED <<state, attachment, reg, old, msgs, job, done, hist>>

\* "Send done" or "Send failed" goes back to the sender.
Reply(c) ==
    /\ pc[c] \in {"sent", "failed"}
    /\ done' = IF pc[c] = "sent" THEN done \cup {Pending(c)} ELSE done
    /\ job' = [job EXCEPT ![c] = NoJob]
    /\ Goto(c, "idle")
    /\ UNCHANGED <<state, attachment, reg, old, msgs, got, hist>>

----------------------------------------------------------------------------
Handler(c) ==
    \/ ContainsKey(c) \/ RegistRemove(c) \/ RegistUnlisten(c)
    \/ PutIfAbsent(c) \/ AddListener(c)
    \/ OperationComplete(c) \/ DropListener(c) \/ Notified(c)
    \/ Forward(c) \/ Reply(c)

Next ==
    \E c \in Chan :
        \/ Accept(c) \/ Close(c) \/ Handler(c)
        \/ \E s \in SerialsOf[c] : RegistAttach(c, s)
        \/ \E s \in Serial : Find(c, s)

Spec == Init /\ [][Next]_vars

----------------------------------------------------------------------------
(* Properties.                                                             *)

Labels == {"idle", "contains", "remove", "unlisten", "put", "listen", "notify",
           "drop", "done", "forward", "sent", "failed"}

\* The types of the variables.
TypeOK ==
    /\ state \in [Chan -> {"new", "open", "closed"}]
    /\ attachment \in [Chan -> Serial \cup {None}]
    /\ clientChannels \in [Serial -> Chan \cup {None}]
    /\ listeners \in [Chan -> 0..MaxMsg]
    /\ pc \in [Chan -> Labels]
    /\ old \in [Chan -> Chan \cup {None}]
    /\ msgs \in [Chan -> 0..MaxMsg]
    /\ job \in [Chan -> [to : Chan \cup {None}, serial : Serial \cup {None}]]
    /\ got \in [Chan -> SUBSET Request] /\ done \subseteq Request
    /\ newest \in [Serial -> Chan \cup {None}]
    /\ twofold \subseteq Chan /\ clash \subseteq Serial

\* A channel in the map has a listener that will take it out, although the
\* map and the listeners change in separate steps of several threads.
EntryHasListener(s) ==
    LET c == clientChannels[s]
    IN c \notin twofold \cup {None} /\ pc[c] # "listen" => listeners[c] > 0

\* Every entry of the map has a listener that will take it out, and once the
\* close of a channel has been handled no request finds it again, whatever
\* other channels registered or removed in the meantime.  (The close takes
\* out the number of the attachment only: a channel that registered under two
\* numbers stays in the map under the first.)
NoStaleEntry ==
    \A s \in Serial : /\ EntryHasListener(s)
                      /\ \A c \in Chan \ twofold : pc[c] = "done" => clientChannels[s] # c

\* A device is only ever sent requests that name a number of its own, and a
\* request answered with "Send done" that no device got went to a connection
\* of that number which is closed.
RoutedToCamera ==
    /\ \A c \in Chan : \A r \in got[c] : r.serial \in SerialsOf[c]
    /\ \A r \in done : \E c \in Chan :
          r.serial \in SerialsOf[c] /\ (r \in got[c] \/ state[c] = "closed")

Quiet(s) == \A c \in Chan : attachment[c] = s => pc[c] \in {"idle", "done"}

\* "Regist done": the channel registered last under a number is found under
\* it as long as it is open, and the close of an older connection of the
\* camera does not take it out.  That holds for numbers no two handlers ever
\* worked on at once.  A close that overlaps a registration, or two
\* registrations that overlap, can leave remover with the older channel, and
\* operationComplete removes whatever is registered under the number.
RegisteredFound ==
    \A s \in Serial \ clash :
        LET c == newest[s]
        IN c # None /\ state[c] = "open" /\ Quiet(s) => clientChannels[s] = c

=============================================================================
