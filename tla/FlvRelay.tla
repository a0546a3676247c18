------------------------------ MODULE FlvRelay ------------------------------
(***************************************************************************)
(* The stream relay (live/crtmpserver-717/scripts/flv_stream.py): one pull *)
(* thread reads an FLV stream over HTTP and hands it, piece by piece, to   *)
(* one push thread per media server.  A ThreadTunnel between the two has a *)
(* bounded queue and two events: sock_error, set by the push thread when   *)
(* its server is away, and sock_renew, by which either side asks that all  *)
(* connections be made anew, since a stream must start with its header.    *)
(*                                                                         *)
(* Every operation on a queue or an event is a step.  A piece is its kind, *)
(* "head" for the FLV header with the stream name, "data" for the rest.    *)
(* The sleeps between attempts are left out: a thread may be delayed, or   *)
(* blocked in a read or a connect, for any time at any step.               *)
(*                                                                         *)
(* Names that PushStreams defines too begin with Relay here.               *)
(***************************************************************************)
EXTENDS Integers, Sequences, FiniteSets

CONSTANTS N,        \* media servers, hence tunnels
          Cap,      \* the size of a queue
          MaxFail   \* bound: connections, reads and sends that fail

ASSUME RelayAssumption == N \in Nat \ {0} /\ Cap \in Nat \ {0} /\ MaxFail \in Nat

Tunnel == 1..N

VARIABLES
    queue, sock_error, sock_renew,  \* the tunnels
    flv_header,     \* _flv_header_metadata of the push thread has been set
    pull, at,       \* where the pull thread is, and its current tunnel
    is_renew,
    push,           \* where each push thread is
    piece,          \* the piece it is about to send
    sock,           \* its connection: "none", "fresh" or "started"
    fails

tunnel == <<queue, sock_error, sock_renew, flv_header>>
puller == <<pull, at, is_renew>>
pusher == <<push, piece, sock>>
relay_vars == <<tunnel, puller, pusher, fails>>

RelayInit ==
    /\ queue = [t \in Tunnel |-> <<>>]
    /\ sock_error = [t \in Tunnel |-> FALSE]
    /\ sock_renew = [t \in Tunnel |-> FALSE]
    /\ flv_header = [t \in Tunnel |-> FALSE]
    /\ pull = "connect" /\ at = 1 /\ is_renew = FALSE
    /\ push = [t \in Tunnel |-> "connect"]
    /\ piece = [t \in Tunnel |-> "none"]
    /\ sock = [t \in Tunnel |-> "none"]
    /\ fails = 0

Fails == fails < MaxFail /\ fails' = fails + 1
Full(t) == Len(queue[t]) = Cap
Put(t, k) == queue' = [queue EXCEPT ![t] = Append(@, k)]
Set(t) == [sock_renew EXCEPT ![t] = TRUE]

----------------------------------------------------------------------------
(* The pull thread.                                                        *)

\* The next round of a loop over the tunnels that is at step l, or step m
\* when the loop has ended.
Step(l, m) ==
    /\ pull' = IF at < N THEN l ELSE m
    /\ at' = IF at < N THEN at + 1 ELSE 1

PullConnect ==
    /\ pull = "connect"
    /\ pull' = "header"
    /\ UNCHANGED <<tunnel, at, is_renew, pusher, fails>>

\* The connection, the status, the header or a read fails, or the stream ends.
PullFails ==
    /\ pull \in {"connect", "read"} /\ Fails
    /\ pull' = "clear"
    /\ UNCHANGED <<tunnel, at, is_renew, pusher>>

PullHeader ==
    /\ pull = "header"
    /\ flv_header' = [flv_header EXCEPT ![at] = TRUE]
    /\ IF Full(at) THEN sock_renew' = Set(at) /\ UNCHANGED queue
                   ELSE Put(at, "head") /\ UNCHANGED sock_renew
    /\ Step("header", "check")
    /\ is_renew' = FALSE
    /\ UNCHANGED <<sock_error, pusher, fails>>

PullCheck ==
    /\ pull = "check"
    /\ is_renew' = (is_renew \/ sock_renew[at])
    /\ sock_error' = [sock_error EXCEPT ![at] = @ /\ ~sock_renew[at]]
    /\ Step("check", IF is_renew' THEN "renew" ELSE "read")
    /\ UNCHANGED <<queue, sock_renew, flv_header, pusher, fails>>

PullRenew ==
    /\ pull = "renew"
    /\ sock_renew' = Set(at)
    /\ Step("renew", "clear")
    /\ UNCHANGED <<queue, sock_error, flv_header, is_renew, pusher, fails>>

PullRead ==
    /\ pull = "read"
    /\ pull' = "full"
    /\ UNCHANGED <<tunnel, at, is_renew, pusher, fails>>

PullFull ==
    /\ pull = "full"
    /\ IF Full(at) THEN sock_renew' = Set(at) /\ Step("full", "check")
                   ELSE UNCHANGED <<sock_renew, at>> /\ pull' = "error"
    /\ is_renew' = FALSE
    /\ UNCHANGED <<queue, sock_error, flv_header, pusher, fails>>

\* Mutant: pieces are queued for a server that is away.
PullError_NoTest ==
    /\ pull = "error"
    /\ IF FALSE THEN Step("full", "check") ELSE pull' = "put" /\ UNCHANGED at
    /\ UNCHANGED <<tunnel, is_renew, pusher, fails>>

PullError ==
    /\ pull = "error"
    /\ IF sock_error[at] THEN Step("full", "check") ELSE pull' = "put" /\ UNCHANGED at
    /\ UNCHANGED <<tunnel, is_renew, pusher, fails>>

PullPut ==
    /\ pull = "put"
    /\ Put(at, "data")
    /\ Step("full", "check")
    /\ UNCHANGED <<sock_error, sock_renew, flv_header, is_renew, pusher, fails>>

\* Mutant: only the first queue is emptied.
PullClear_First ==
    /\ pull = "clear"
    /\ IF queue[at] = <<>> THEN pull' = "connect" /\ at' = 1 /\ UNCHANGED queue
       ELSE queue' = [queue EXCEPT ![at] = Tail(@)] /\ UNCHANGED <<pull, at>>
    /\ UNCHANGED <<sock_error, sock_renew, flv_header, is_renew, pusher, fails>>

\* After an exception the queues are emptied; that the push thread was
\* faster is caught.
PullClear ==
    /\ pull = "clear"
    /\ IF queue[at] = <<>> THEN Step("clear", "connect") /\ UNCHANGED queue
       ELSE queue' = [queue EXCEPT ![at] = Tail(@)] /\ UNCHANGED <<pull, at>>
    /\ UNCHANGED <<sock_error, sock_renew, flv_header, is_renew, pusher, fails>>

----------------------------------------------------------------------------
(* The push thread of tunnel t.                                            *)

PushGoto(t, l) == push' = [push EXCEPT ![t] = l]

PushConnect(t) ==
    /\ push[t] = "connect"
    /\ sock' = [sock EXCEPT ![t] = "fresh"]
    /\ PushGoto(t, "clear_renew")
    /\ UNCHANGED <<tunnel, puller, piece, fails>>

ClearRenew(t) ==
    /\ push[t] = "clear_renew"
    /\ sock_renew' = [sock_renew EXCEPT ![t] = FALSE]
    /\ PushGoto(t, "test_error")
    /\ UNCHANGED <<queue, sock_error, flv_header, puller, piece, sock, fails>>

TestError(t) ==
    /\ push[t] = "test_error"
    /\ PushGoto(t, IF sock_error[t] THEN "header_only" ELSE "test_renew")
    /\ UNCHANGED <<tunnel, puller, piece, sock, fails>>

\* The server can be reached again: all connections are to be renewed.
HeaderOnly(t) ==
    /\ push[t] = "header_only" /\ flv_header[t]
    /\ sock_renew' = Set(t)
    /\ sock' = [sock EXCEPT ![t] = "none"]
    /\ PushGoto(t, "connect")
    /\ UNCHANGED <<queue, sock_error, flv_header, puller, piece, fails>>

\* Only a part of the header could be sent: try again.
HeaderPartial(t) ==
    /\ push[t] = "header_only" /\ flv_header[t] /\ Fails
    /\ sock' = [sock EXCEPT ![t] = "none"]
    /\ PushGoto(t, "connect")
    /\ UNCHANGED <<tunnel, puller, piece>>

TestRenew(t) ==
    /\ push[t] = "test_renew"
    /\ IF sock_renew[t]
       THEN sock' = [sock EXCEPT ![t] = "none"] /\ PushGoto(t, "connect")
       ELSE UNCHANGED sock /\ PushGoto(t, "get")
    /\ UNCHANGED <<tunnel, puller, piece, fails>>

PushGet(t) ==
    /\ push[t] = "get" /\ queue[t] # <<>>
    /\ piece' = [piece EXCEPT ![t] = Head(queue[t])]
    /\ queue' = [queue EXCEPT ![t] = Tail(@)]
    /\ PushGoto(t, "send")
    /\ UNCHANGED <<sock_error, sock_renew, flv_header, puller, sock, fails>>

\* Nothing in the queue for a second.
GetEmpty(t) ==
    /\ push[t] = "get" /\ queue[t] = <<>>
    /\ PushGoto(t, "test_renew")
    /\ UNCHANGED <<tunnel, puller, piece, sock, fails>>

PushSend(t) ==
    /\ push[t] = "send"
    /\ piece' = [piece EXCEPT ![t] = "none"]
    /\ sock' = [sock EXCEPT ![t] = "started"]
    /\ PushGoto(t, "test_renew")
    /\ UNCHANGED <<tunnel, puller, fails>>

\* connect or send fails, or there is no header yet to send.
PushFails(t) ==
    /\ \/ push[t] \in {"connect", "header_only", "send"} /\ Fails
       \/ push[t] = "header_only" /\ ~flv_header[t] /\ UNCHANGED fails
    /\ sock_error' = [sock_error EXCEPT ![t] = TRUE]
    /\ sock' = [sock EXCEPT ![t] = "none"]
    /\ piece' = [piece EXCEPT ![t] = "none"]
    /\ PushGoto(t, "drain")
    /\ UNCHANGED <<queue, sock_renew, flv_header, puller>>

DrainTest(t) ==
    /\ push[t] = "drain"
    /\ IF queue[t] = <<>> THEN PushGoto(t, "connect") ELSE PushGoto(t, "drain_get")
    /\ UNCHANGED <<tunnel, puller, piece, sock, fails>>

\* get_nowait raises Empty if the pull thread was faster; nothing catches it
\* and the thread ends.
DrainGet(t) ==
    /\ push[t] = "drain_get"
    /\ IF queue[t] = <<>> THEN PushGoto(t, "dead") /\ UNCHANGED queue
       ELSE PushGoto(t, "drain") /\ queue' = [queue EXCEPT ![t] = Tail(@)]
    /\ UNCHANGED <<sock_error, sock_renew, flv_header, puller, piece, sock, fails>>

----------------------------------------------------------------------------
Pull ==
    \/ PullConnect \/ PullHeader \/ PullCheck \/ PullRenew \/ PullRead
    \/ PullFull \/ PullError \/ PullPut \/ PullClear

Push(t) ==
    \/ PushConnect(t) \/ ClearRenew(t) \/ TestError(t) \/ HeaderOnly(t)
    \/ TestRenew(t) \/ PushGet(t) \/ GetEmpty(t) \/ PushSend(t)
    \/ DrainTest(t) \/ DrainGet(t)

RelayNext == Pull \/ PullFails \/ \E t \in Tunnel : Push(t) \/ HeaderPartial(t) \/ PushFails(t)

RelaySpec == RelayInit /\ [][RelayNext]_relay_vars

----------------------------------------------------------------------------
(* Properties.                                                             *)

PullLabels == {"connect", "header", "check", "renew", "read", "full", "error",
               "put", "clear"}
PushLabels == {"connect", "clear_renew", "test_error", "header_only",
               "test_renew", "get", "send", "drain", "drain_get", "dead"}

\* The types of the variables; no queue ever holds more than Cap pieces.
RelayTypeOK ==
    /\ queue \in [Tunnel -> Seq({"head", "data"})]
    /\ \A t \in Tunnel : Len(queue[t]) <= Cap
    /\ sock_error \in [Tunnel -> BOOLEAN] /\ sock_renew \in [Tunnel -> BOOLEAN]
    /\ flv_header \in [Tunnel -> BOOLEAN]
    /\ pull \in PullLabels /\ at \in Tunnel /\ is_renew \in BOOLEAN
    /\ push \in [Tunnel -> PushLabels]
    /\ piece \in [Tunnel -> {"none", "head", "data"}]
    /\ sock \in [Tunnel -> {"none", "fresh", "started"}]
    /\ fails \in 0..MaxFail

\* The push thread is at the connection to its server, its queue drained.
Away == {"connect", "clear_renew", "test_error", "header_only"}

\* No put meets a full queue.  While a server is away and its queue has been
\* drained, at most one piece is queued for it, the header of a new stream or
\* the piece that was under way when the connection broke: the outage of one
\* server does not fill its queue, which would restart the stream of all the
\* others.
QueuesBounded ==
    \A t \in Tunnel :
        /\ Len(queue[t]) <= Cap
        /\ sock_error[t] /\ push[t] \in Away => Len(queue[t]) <= 1

\* A queue holds at most one header, in front of the pieces that follow it:
\* what was left of the last stream is gone when the next one begins, also
\* while push threads take from the queues.
HeadInFront ==
    \A t \in Tunnel : \A i \in DOMAIN queue[t] : queue[t][i] = "head" => i = 1

=============================================================================
