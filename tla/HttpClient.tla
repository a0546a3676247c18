----------------------------- MODULE HttpClient -----------------------------
(***************************************************************************)
(* The HTTP client of the Android application (com.xhome.camera.http) and  *)
(* the screen that uses it (CameraShowActivity).  Each request runs on a   *)
(* thread of a pool and is repeated by two retry loops, one inside the     *)
(* Apache client and one around it, which ask the same RetryHandler.       *)
(* Whether a request was sent, and which one it was, is read from one      *)
(* HttpContext that all requests of a client share.  The outcome goes as   *)
(* messages to the thread of the user interface, where it shows and        *)
(* dismisses one progress dialog.                                          *)
(*                                                                         *)
(* What the Apache client does between execute and its answer is external; *)
(* it is modelled by the two context attributes RetryHandler reads.        *)
(***************************************************************************)
EXTENDS Integers, Sequences, FiniteSets

CONSTANTS Req,        \* requests
          Method,     \* [Req -> {"GET", "POST"}]
          Client,     \* [Req -> clients]
          NoReq,
          MaxRetries, MaxCancel

ASSUME HttpAssumption ==
    /\ Method \in [Req -> {"GET", "POST"}] /\ NoReq \notin Req
    /\ DOMAIN Client = Req
    /\ MaxRetries \in Nat /\ MaxCancel \in Nat

Clients == {Client[q] : q \in Req}
\* Exceptions on the white list, on the black list, and any other.
Exceptions == {"white", "black", "other"}

VARIABLES
    ctx,          \* httpContext: [req, sent]
    pc, inner, executionCount, exc, interrupted,   \* of each request's thread
    sent,         \* the thread's own knowledge of HTTP_REQ_SENT
    served,       \* how often the server has got the request: never, once, 2 for more
    queue,        \* messages to the user interface
    dialog,       \* mProgressDialog is shown
    cancels,
    results,      \* history: success and failure messages of a request
    broken, excused   \* history: requests whose body could not be read, or
                  \* that may have been repeated after they were sent

thread == <<pc, inner, executionCount, exc, interrupted, sent>>
ui == <<queue, dialog>>
history == <<results, broken, excused>>
vars == <<ctx, thread, served, ui, cancels, history>>

Init ==
    /\ ctx = [c \in Clients |-> [req |-> NoReq, sent |-> FALSE]]
    /\ pc = [q \in Req |-> "new"]
    /\ inner = [q \in Req |-> 0] /\ executionCount = [q \in Req |-> 0]
    /\ exc = [q \in Req |-> "none"] /\ interrupted = [q \in Req |-> FALSE]
    /\ sent = [q \in Req |-> FALSE] /\ served = [q \in Req |-> 0]
    /\ queue = <<>> /\ dialog = FALSE /\ cancels = 0
    /\ results = [q \in Req |-> 0] /\ broken = {} /\ excused = {}

Goto(q, l) == pc' = [pc EXCEPT ![q] = l]
Post(kinds) == queue' = queue \o kinds

----------------------------------------------------------------------------
(* AsyncHttpClient.                                                        *)

\* The task is handed to the pool.
SendRequest(q) ==
    /\ pc[q] = "new" /\ Goto(q, "start")
    /\ UNCHANGED <<ctx, inner, executionCount, exc, interrupted, sent, served, ui,
                   cancels, history>>

\* cancelRequests: a task that has not begun is dropped, a running one gets
\* an interrupt.
Cancel(q) ==
    /\ pc[q] \notin {"new", "done"} /\ ~interrupted[q]
    /\ cancels < MaxCancel /\ cancels' = cancels + 1
    /\ interrupted' = [interrupted EXCEPT ![q] = TRUE]
    /\ Goto(q, IF pc[q] = "start" THEN "done" ELSE pc[q])
    /\ UNCHANGED <<ctx, inner, executionCount, exc, sent, served, ui, history>>

----------------------------------------------------------------------------
(* AsyncHttpRequest.                                                       *)

Start(q) ==
    /\ pc[q] = "start"
    /\ Post(<<"START">>)
    /\ Goto(q, "try")
    /\ UNCHANGED <<ctx, inner, executionCount, exc, interrupted, sent, served, dialog,
                   cancels, history>>

MakeRequest(q) ==
    /\ pc[q] = "try"
    /\ Goto(q, IF interrupted[q] THEN "finish" ELSE "prepare")
    /\ inner' = [inner EXCEPT ![q] = 0]
    /\ UNCHANGED <<ctx, executionCount, exc, interrupted, sent, served, ui, cancels, history>>

\* The Apache client records the request in the context.
Prepare(q) ==
    /\ pc[q] = "prepare"
    /\ ctx' = [ctx EXCEPT ![Client[q]] = [req |-> q, sent |-> FALSE]]
    /\ sent' = [sent EXCEPT ![q] = FALSE]
    /\ Goto(q, "send")
    /\ UNCHANGED <<inner, executionCount, exc, interrupted, served, ui, cancels, history>>

\* The request is on its way in full, and reaches the server.
Transmit(q) ==
    /\ pc[q] = "send"
    /\ ctx' = [ctx EXCEPT ![Client[q]].sent = TRUE]
    /\ sent' = [sent EXCEPT ![q] = TRUE]
    /\ served' = [served EXCEPT ![q] = IF @ = 0 THEN 1 ELSE 2]
    /\ Goto(q, "wait")
    /\ UNCHANGED <<inner, executionCount, exc, interrupted, ui, cancels, history>>

\* Mutant: every method counts as idempotent.
RetryRequest_Any(q, e, n) ==
    /\ n <= MaxRetries
    /\ e # "black"
    /\ \/ e = "white"
       \/ TRUE

\* RetryHandler.retryRequest.
RetryRequest(q, e, n) ==
    /\ n <= MaxRetries
    /\ e # "black"
    /\ \/ e = "white"
       \/ ~ctx[Client[q]].sent
       \/ Method[ctx[Client[q]].req] # "POST"

\* A repetition after the request was sent that is no decision about this
\* request: the exception is white-listed, or the context is that of another.
Excuse(q, e, retry) ==
    excused' = IF retry /\ sent[q] /\ (e = "white" \/ ctx[Client[q]] # [req |-> q, sent |-> TRUE])
               THEN excused \cup {q} ELSE excused

\* The connection fails: the inner loop decides.
Break(q, e) ==
    /\ pc[q] \in {"send", "wait"}
    /\ LET retry == RetryRequest(q, e, inner[q] + 1)
       IN  /\ inner' = [inner EXCEPT ![q] = IF retry THEN @ + 1 ELSE 0]
           /\ exc' = [exc EXCEPT ![q] = IF retry THEN @ ELSE e]
           /\ Goto(q, IF retry THEN "prepare" ELSE "caught")
           /\ Excuse(q, e, retry)
    /\ UNCHANGED <<ctx, executionCount, interrupted, sent, served, ui, cancels, results, broken>>

\* A response without a body is a NullPointerException in the response
\* interceptor, which the inner loop does not catch.
NoBody(q) ==
    /\ pc[q] = "wait"
    /\ exc' = [exc EXCEPT ![q] = "other"]
    /\ Goto(q, "caught")
    /\ UNCHANGED <<ctx, inner, executionCount, interrupted, sent, served, ui, cancels, history>>

\* The outer loop decides; when it gives up, run sends finish and failure.
Caught(q) ==
    /\ pc[q] = "caught"
    /\ LET retry == RetryRequest(q, exc[q], executionCount[q] + 1)
       IN  /\ Excuse(q, exc[q], retry)
           /\ Goto(q, IF retry THEN "try" ELSE "fail")
    /\ executionCount' = [executionCount EXCEPT ![q] = @ + 1]
    /\ exc' = [exc EXCEPT ![q] = "none"]
    /\ UNCHANGED <<ctx, inner, interrupted, sent, served, ui, cancels, results, broken>>

\* The thread has returned from run.
End(q) ==
    /\ Goto(q, "done")
    /\ inner' = [inner EXCEPT ![q] = 0]
    /\ executionCount' = [executionCount EXCEPT ![q] = 0]
    /\ sent' = [sent EXCEPT ![q] = FALSE]

\* Mutant: only the end is reported.
Fail_Silent(q) ==
    /\ pc[q] = "fail"
    /\ Post(<<"FINISH">>)
    /\ results' = [results EXCEPT ![q] = @ + 1]
    /\ End(q)
    /\ UNCHANGED <<ctx, exc, interrupted, served, dialog, cancels, broken, excused>>

Fail(q) ==
    /\ pc[q] = "fail"
    /\ Post(<<"FINISH", "FAILURE">>)
    /\ results' = [results EXCEPT ![q] = @ + 1]
    /\ End(q)
    /\ UNCHANGED <<ctx, exc, interrupted, served, dialog, cancels, broken, excused>>

\* Mutant: no else after the test of the status.
Messages_Both(ok, whole) ==
    (IF whole THEN <<>> ELSE <<"FAILURE">>)
        \o (IF ok THEN <<"SUCCESS">> ELSE <<"FAILURE", "SUCCESS">>)

\* sendResponseMessage: a body that cannot be read is a failure, and then
\* the status is reported as well.
Messages(ok, whole) ==
    (IF whole THEN <<>> ELSE <<"FAILURE">>)
        \o (IF ok THEN <<"SUCCESS">> ELSE <<"FAILURE">>)

\* A response; after an interrupt it is ignored.
Respond(q, ok, whole) ==
    /\ pc[q] = "wait"
    /\ LET m == IF interrupted[q] THEN <<>> ELSE Messages(ok, whole)
       IN  /\ Post(m)
           /\ results' = [results EXCEPT ![q] = @ + Len(m)]
    /\ broken' = IF whole THEN broken ELSE broken \cup {q}
    /\ Goto(q, "finish")
    /\ UNCHANGED <<ctx, inner, executionCount, exc, interrupted, sent, served, dialog,
                   cancels, excused>>

Finish(q) ==
    /\ pc[q] = "finish"
    /\ Post(<<"FINISH">>)
    /\ End(q)
    /\ UNCHANGED <<ctx, exc, interrupted, served, dialog, cancels, history>>

----------------------------------------------------------------------------
(* The user interface: CameraHttpResponse.                                 *)

HandleMessage ==
    /\ queue # <<>>
    /\ dialog' = CASE Head(queue) = "START" -> TRUE
                   [] Head(queue) = "FINISH" -> dialog
                   [] OTHER -> FALSE
    /\ queue' = Tail(queue)
    /\ UNCHANGED <<ctx, thread, served, cancels, history>>

----------------------------------------------------------------------------
Thread(q) ==
    \/ Start(q) \/ MakeRequest(q) \/ Prepare(q) \/ Transmit(q) \/ NoBody(q)
    \/ Caught(q) \/ Fail(q) \/ Finish(q)
    \/ \E e \in Exceptions : Break(q, e)
    \/ \E ok, whole \in BOOLEAN : Respond(q, ok, whole)

Next ==
    \/ \E q \in Req : SendRequest(q) \/ Cancel(q) \/ Thread(q)
    \/ HandleMessage

\* The pool has a thread for every task, sockets have a time limit, and the
\* thread of the user interface handles its messages.
Spec == /\ Init /\ [][Next]_vars
        /\ WF_vars(HandleMessage) /\ \A q \in Req : WF_vars(Thread(q))

----------------------------------------------------------------------------
(* Properties.                                                             *)

\* The types of the variables.
TypeOK ==
    /\ ctx \in [Clients -> [req : Req \cup {NoReq}, sent : BOOLEAN]]
    /\ pc \in [Req -> {"new", "start", "try", "prepare", "send", "wait", "caught",
                       "fail", "finish", "done"}]
    /\ inner \in [Req -> 0..MaxRetries] /\ executionCount \in [Req -> 0..(MaxRetries + 1)]
    /\ exc \in [Req -> Exceptions \cup {"none"}]
    /\ interrupted \in [Req -> BOOLEAN] /\ sent \in [Req -> BOOLEAN]
    /\ served \in [Req -> 0..2]
    /\ dialog \in BOOLEAN /\ queue \in Seq({"START", "SUCCESS", "FAILURE", "FINISH"})

\* A POST reaches the server at most once, in every interleaving of two
\* requests and whatever fails, unless it was repeated for a white-listed
\* exception or because of what another request had left in the context.
PostOnce ==
    \A q \in Req : Method[q] = "POST" /\ q \notin excused => served[q] <= 1

\* A request that has ended has reported exactly one result, unless it was
\* cancelled or its body could not be read, however often it was repeated.
OneResult ==
    \A q \in Req : pc[q] = "done" /\ ~interrupted[q] /\ q \notin broken => results[q] = 1

\* The progress dialog goes away, also when requests overlap and fail, as
\* long as none is cancelled.
DialogEnds == dialog ~> (~dialog \/ \E q \in Req : interrupted[q])

=============================================================================
