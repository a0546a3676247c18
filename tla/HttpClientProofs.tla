-------------------------- MODULE HttpClientProofs --------------------------
(***************************************************************************)
(* Proofs about the HTTP client, for any number of requests and clients,   *)
(* any assignment of methods and any number of retries and cancellations.  *)
(***************************************************************************)
EXTENDS HttpClient, TLAPS

Labels == {"new", "start", "try", "prepare", "send", "wait", "caught", "fail",
           "finish", "done"}
Kinds == {"START", "SUCCESS", "FAILURE", "FINISH"}

\* The outer loop has counted past its limit only when it gives up, and a
\* request that has been sent is known to be by its own thread.
Counted ==
    /\ results \in [Req -> Nat]
    /\ \A q \in Req : pc[q] # "fail" => executionCount[q] <= MaxRetries

TypeInv == TypeOK /\ Counted

LEMMA MessageTypes ==
    ASSUME NEW ok \in BOOLEAN, NEW whole \in BOOLEAN
    PROVE  /\ Messages(ok, whole) \in Seq(Kinds)
           /\ Len(Messages(ok, whole)) \in Nat
           /\ whole => Len(Messages(ok, whole)) = 1
  <1>1. CASE ok /\ whole
    BY <1>1 DEF Messages, Kinds
  <1>2. CASE ok /\ ~whole
    BY <1>2 DEF Messages, Kinds
  <1>3. CASE ~ok /\ whole
    BY <1>3 DEF Messages, Kinds
  <1>4. CASE ~ok /\ ~whole
    BY <1>4 DEF Messages, Kinds
  <1> QED BY <1>1, <1>2, <1>3, <1>4

LEMMA TypeInit == Init => TypeInv
  <1> SUFFICES ASSUME Init PROVE TypeInv
    OBVIOUS
  <1>1. ctx \in [Clients -> [req : Req \cup {NoReq}, sent : BOOLEAN]]
    BY DEF Init
  <1>2. /\ inner \in [Req -> 0..MaxRetries]
        /\ executionCount \in [Req -> 0..(MaxRetries + 1)]
        /\ served \in [Req -> 0..2] /\ Counted
    BY HttpAssumption DEF Init, Counted
  <1>3. /\ pc \in [Req -> {"new", "start", "try", "prepare", "send", "wait", "caught",
                           "fail", "finish", "done"}]
        /\ exc \in [Req -> Exceptions \cup {"none"}]
        /\ queue \in Seq({"START", "SUCCESS", "FAILURE", "FINISH"})
    BY DEF Init
  <1>4. /\ interrupted \in [Req -> BOOLEAN] /\ sent \in [Req -> BOOLEAN]
        /\ dialog \in BOOLEAN
    BY DEF Init
  <1> QED BY <1>1, <1>2, <1>3, <1>4 DEF TypeInv, TypeOK

LEMMA TypeNext == TypeInv /\ [Next]_vars => TypeInv'
  <1> SUFFICES ASSUME TypeInv, [Next]_vars PROVE TypeInv'
    OBVIOUS
  <1> USE HttpAssumption DEF TypeInv, TypeOK, Counted, Goto, Post, Kinds, Exceptions,
                             thread, ui, history
  <1>1. ASSUME NEW q \in Req, SendRequest(q) PROVE TypeInv'
    BY <1>1 DEF SendRequest
  <1>2. ASSUME NEW q \in Req, Cancel(q) PROVE TypeInv'
    BY <1>2 DEF Cancel
  <1>3. ASSUME NEW q \in Req, Start(q) PROVE TypeInv'
    BY <1>3 DEF Start
  <1>4. ASSUME NEW q \in Req, MakeRequest(q) PROVE TypeInv'
    BY <1>4 DEF MakeRequest
  <1>5. ASSUME NEW q \in Req, Prepare(q) PROVE TypeInv'
    BY <1>5 DEF Prepare, Clients
  <1>6. ASSUME NEW q \in Req, Transmit(q) PROVE TypeInv'
    <2>1. Client[q] \in Clients
      BY DEF Clients
    <2>2. ctx' \in [Clients -> [req : Req \cup {NoReq}, sent : BOOLEAN]]
      <3> DEFINE c == Client[q]
                 Context == [req : Req \cup {NoReq}, sent : BOOLEAN]
      <3>1. [ctx[c] EXCEPT !.sent = TRUE] \in Context
        <4>1. ctx[c] \in Context
          BY <2>1
        <4> QED BY ONLY <4>1
      <3>2. ctx' = [ctx EXCEPT ![c] = [ctx[c] EXCEPT !.sent = TRUE]]
        BY <1>6 DEF Transmit
      <3> QED BY <2>1, <3>1, <3>2, Zenon
    <2>3. served' \in [Req -> 0..2]
      BY <1>6 DEF Transmit
    <2> QED BY <1>6, <2>2, <2>3 DEF Transmit
  <1>7. ASSUME NEW q \in Req, NEW e \in Exceptions, Break(q, e) PROVE TypeInv'
    BY <1>7 DEF Break, RetryRequest, Excuse
  <1>8. ASSUME NEW q \in Req, NoBody(q) PROVE TypeInv'
    BY <1>8 DEF NoBody
  <1>9. ASSUME NEW q \in Req, Caught(q) PROVE TypeInv'
    <2>1. executionCount' \in [Req -> 0..(MaxRetries + 1)]
      <3>1. executionCount[q] + 1 \in 0..(MaxRetries + 1)
        <4>1. pc[q] = "caught"
          BY <1>9 DEF Caught
        <4>2. executionCount[q] \in Nat /\ executionCount[q] <= MaxRetries
          BY <4>1
        <4> QED BY <4>2
      <3> QED BY <1>9, <3>1 DEF Caught
    <2>2. PICK l \in {"try", "fail"} :
            /\ pc' = [pc EXCEPT ![q] = l]
            /\ l = "try" => executionCount[q] + 1 <= MaxRetries
      BY <1>9 DEF Caught, RetryRequest
    <2>3. /\ pc' \in [Req -> {"new", "start", "try", "prepare", "send", "wait", "caught",
                              "fail", "finish", "done"}]
          /\ \A r \in Req : pc'[r] # "fail" => executionCount'[r] <= MaxRetries
      BY <1>9, <2>2 DEF Caught
    <2> QED BY <1>9, <2>1, <2>3 DEF Caught
  <1>10. ASSUME NEW q \in Req, Fail(q) PROVE TypeInv'
    BY <1>10 DEF Fail, End
  <1>11. ASSUME NEW q \in Req, NEW ok \in BOOLEAN, NEW whole \in BOOLEAN,
                Respond(q, ok, whole)
         PROVE  TypeInv'
    <2> DEFINE m == IF interrupted[q] THEN <<>> ELSE Messages(ok, whole)
    <2>1. m \in Seq(Kinds) /\ Len(m) \in Nat
      BY MessageTypes
    <2>2. queue' = queue \o m /\ results' = [results EXCEPT ![q] = @ + Len(m)]
      BY <1>11 DEF Respond
    <2> HIDE DEF m
    <2>3. queue' \in Seq({"START", "SUCCESS", "FAILURE", "FINISH"})
      BY <2>1, <2>2
    <2>4. results' \in [Req -> Nat]
      BY <2>1, <2>2
    <2> QED BY <1>11, <2>3, <2>4 DEF Respond
  <1>12. ASSUME NEW q \in Req, Finish(q) PROVE TypeInv'
    BY <1>12 DEF Finish, End
  <1>13. ASSUME HandleMessage PROVE TypeInv'
    <2>1. queue' \in Seq({"START", "SUCCESS", "FAILURE", "FINISH"})
      BY <1>13 DEF HandleMessage
    <2>2. dialog' \in BOOLEAN
      BY <1>13 DEF HandleMessage
    <2> QED BY <1>13, <2>1, <2>2 DEF HandleMessage
  <1>14. CASE UNCHANGED vars
    BY <1>14 DEF vars
  <1> HIDE DEF TypeInv
  <1> QED
    BY <1>1, <1>2, <1>3, <1>4, <1>5, <1>6, <1>7, <1>8, <1>9, <1>10, <1>11, <1>12,
       <1>13, <1>14 DEF Next, Thread

\* Type correctness of the client: neither loop counts past MaxRetries.
THEOREM TypeCorrect == Spec => []TypeOK
  <1>1. Spec => []TypeInv
    BY TypeInit, TypeNext, PTL DEF Spec
  <1>2. TypeInv => TypeOK
    BY DEF TypeInv
  <1> QED BY <1>1, <1>2, PTL

----------------------------------------------------------------------------
(* A POST is not repeated. *)

\* Until it has reached the server the request may be anywhere.  From then on
\* its thread knows that it was sent and decides on a failure, or has ended.
SentOnce ==
    \A q \in Req : Method[q] = "POST" /\ q \notin excused =>
        \/ served[q] = 0
        \/ served[q] = 1 /\ pc[q] \in {"wait", "caught"} /\ sent[q]
        \/ served[q] = 1 /\ pc[q] \in {"fail", "finish", "done"}

\* Both loops refuse to repeat a POST that was sent, unless that is excused.
LEMMA NoRepeat ==
    ASSUME NEW q \in Req, NEW e, NEW n, Method[q] = "POST", sent[q],
           NEW retry, retry = RetryRequest(q, e, n), Excuse(q, e, retry),
           q \notin excused'
    PROVE  ~retry
  <1> SUFFICES ASSUME retry PROVE FALSE
    OBVIOUS
  <1>1. e # "white" /\ ctx[Client[q]] = [req |-> q, sent |-> TRUE]
    BY DEF Excuse
  <1>2. RetryRequest(q, e, n)
    OBVIOUS
  <1> QED BY <1>1, <1>2 DEF RetryRequest

LEMMA SentOnceNext ==
    ASSUME TypeInv, SentOnce, [Next]_vars
    PROVE  SentOnce'
  <1> USE DEF Goto, thread, ui, history
  <1>t. /\ pc \in [Req -> Labels] /\ sent \in [Req -> BOOLEAN]
        /\ served \in [Req -> 0..2]
    BY DEF TypeInv, TypeOK, Labels
  <1> SUFFICES ASSUME NEW q \in Req, Method[q] = "POST", q \notin excused'
               PROVE  \/ served'[q] = 0
                      \/ served'[q] = 1 /\ pc'[q] \in {"wait", "caught"} /\ sent'[q]
                      \/ served'[q] = 1 /\ pc'[q] \in {"fail", "finish", "done"}
    BY DEF SentOnce
  <1> DEFINE Now  == \/ served[q] = 0
                     \/ served[q] = 1 /\ pc[q] \in {"wait", "caught"} /\ sent[q]
                     \/ served[q] = 1 /\ pc[q] \in {"fail", "finish", "done"}
  <1>0. q \notin excused => Now
    BY DEF SentOnce
  <1> HIDE DEF SentOnce
  <1>1. ASSUME NEW r \in Req, SendRequest(r) \/ Cancel(r) \/ Start(r) \/ MakeRequest(r)
                                \/ Prepare(r) \/ NoBody(r) \/ Fail(r) \/ Finish(r)
        PROVE  Now'
    <2>1. excused' = excused /\ served' = served
      BY <1>1 DEF SendRequest, Cancel, Start, MakeRequest, Prepare, NoBody, Fail, Finish
    <2>2. CASE r # q
      BY <1>t, <1>0, <1>1, <2>1, <2>2
      DEF SendRequest, Cancel, Start, MakeRequest, Prepare, NoBody, Fail, Finish, End
    <2>3. CASE r = q
      <3>1. Now
        BY <1>0, <2>1
      <3>2. CASE served[q] = 0
        BY <2>1, <3>2
      <3>3. CASE served[q] # 0
        BY <1>t, <1>1, <2>1, <2>3, <3>1, <3>3
        DEF SendRequest, Cancel, Start, MakeRequest, Prepare, NoBody, Fail, Finish, End
      <3> QED BY <3>2, <3>3
    <2> QED BY <2>2, <2>3
  <1>2. ASSUME NEW r \in Req, Transmit(r) PROVE Now'
    BY <1>t, <1>0, <1>2 DEF Transmit
  <1>3. ASSUME NEW r \in Req, NEW e \in Exceptions, Break(r, e) PROVE Now'
    <2> DEFINE retry == RetryRequest(r, e, inner[r] + 1)
    <2>1. /\ excused \subseteq excused' /\ served' = served /\ sent' = sent
          /\ pc[r] \in {"send", "wait"}
          /\ pc' = [pc EXCEPT ![r] = IF retry THEN "prepare" ELSE "caught"]
          /\ Excuse(r, e, retry)
      BY <1>3 DEF Break, Excuse
    <2>2. Now
      BY <1>0, <2>1
    <2>3. r = q /\ sent[q] => ~retry
      BY <2>1, NoRepeat
    <2> HIDE DEF retry
    <2> QED BY <1>t, <2>1, <2>2, <2>3
  <1>4. ASSUME NEW r \in Req, Caught(r) PROVE Now'
    <2> DEFINE retry == RetryRequest(r, exc[r], executionCount[r] + 1)
    <2>1. /\ excused \subseteq excused' /\ served' = served /\ sent' = sent
          /\ pc[r] = "caught"
          /\ pc' = [pc EXCEPT ![r] = IF retry THEN "try" ELSE "fail"]
          /\ Excuse(r, exc[r], retry)
      BY <1>4 DEF Caught, Excuse
    <2>2. Now
      BY <1>0, <2>1
    <2>3. r = q /\ sent[q] => ~retry
      BY <2>1, NoRepeat
    <2> HIDE DEF retry
    <2> QED BY <1>t, <2>1, <2>2, <2>3
  <1>5. ASSUME NEW r \in Req, NEW ok \in BOOLEAN, NEW whole \in BOOLEAN,
               Respond(r, ok, whole)
        PROVE  Now'
    BY <1>t, <1>0, <1>5 DEF Respond
  <1>6. ASSUME HandleMessage \/ UNCHANGED vars PROVE Now'
    BY <1>0, <1>6 DEF HandleMessage, vars
  <1> HIDE DEF Now
  <1>7. Now'
    BY <1>1, <1>2, <1>3, <1>4, <1>5, <1>6 DEF Next, Thread
  <1> QED BY <1>7 DEF Now

\* A POST reaches the server at most once, in every interleaving of any number
\* of requests on one context and whatever fails, unless it was repeated for a
\* white-listed exception or for what another request left in the context.
THEOREM PostedOnce == Spec => []PostOnce
  <1>1. Spec => []TypeInv
    BY TypeInit, TypeNext, PTL DEF Spec
  <1>2. Init => SentOnce
    BY DEF Init, SentOnce
  <1>3. TypeInv /\ SentOnce /\ [Next]_vars => SentOnce'
    BY SentOnceNext
  <1>4. SentOnce => PostOnce
    BY DEF SentOnce, PostOnce
  <1> QED BY <1>1, <1>2, <1>3, <1>4, PTL DEF Spec

----------------------------------------------------------------------------
(* A request reports one result. *)

\* Nothing is reported before the request ends.
Reported ==
    \A q \in Req :
        /\ pc[q] \notin {"finish", "done"} => results[q] = 0
        /\ pc[q] \in {"finish", "done"} =>
               interrupted[q] \/ q \in broken \/ results[q] = 1

LEMMA ReportedNext ==
    ASSUME TypeInv, Reported, [Next]_vars
    PROVE  Reported'
  <1> USE DEF Goto, thread, ui, history
  <1>t. /\ pc \in [Req -> Labels] /\ interrupted \in [Req -> BOOLEAN]
        /\ results \in [Req -> Nat]
    BY DEF TypeInv, TypeOK, Counted, Labels
  <1>1. ASSUME NEW q \in Req, SendRequest(q) \/ Start(q) \/ MakeRequest(q) \/ Prepare(q)
                                \/ Transmit(q) \/ NoBody(q)
        PROVE  Reported'
    BY <1>1, <1>t DEF Reported, SendRequest, Start, MakeRequest, Prepare, Transmit, NoBody
  <1>2. ASSUME NEW q \in Req, Cancel(q) PROVE Reported'
    BY <1>2, <1>t DEF Reported, Cancel
  <1>3. ASSUME NEW q \in Req, NEW e \in Exceptions, Break(q, e) PROVE Reported'
    BY <1>3, <1>t DEF Reported, Break
  <1>4. ASSUME NEW q \in Req, Caught(q) PROVE Reported'
    BY <1>4, <1>t DEF Reported, Caught
  <1>5. ASSUME NEW q \in Req, Fail(q) PROVE Reported'
    BY <1>5, <1>t DEF Reported, Fail, End
  <1>6. ASSUME NEW q \in Req, NEW ok \in BOOLEAN, NEW whole \in BOOLEAN,
               Respond(q, ok, whole)
        PROVE  Reported'
    <2> DEFINE m == IF interrupted[q] THEN <<>> ELSE Messages(ok, whole)
    <2>1. Len(m) \in Nat /\ (~interrupted[q] /\ whole => Len(m) = 1)
      BY MessageTypes
    <2>2. results' = [results EXCEPT ![q] = @ + Len(m)]
      BY <1>6 DEF Respond
    <2> HIDE DEF m
    <2>3. ASSUME NEW r \in Req, r # q
          PROVE  /\ pc'[r] = pc[r] /\ results'[r] = results[r]
                 /\ r \in broken => r \in broken'
      BY <1>6, <1>t, <2>2, <2>3 DEF Respond
    <2>4. results[q] = 0 /\ results'[q] = Len(m) /\ pc'[q] = "finish"
      BY <1>6, <1>t, <2>1, <2>2 DEF Reported, Respond
    <2>5. interrupted' = interrupted /\ (~whole => q \in broken')
      BY <1>6 DEF Respond
    <2> QED BY <2>1, <2>3, <2>4, <2>5 DEF Reported
  <1>7. ASSUME NEW q \in Req, Finish(q) PROVE Reported'
    BY <1>7, <1>t DEF Reported, Finish, End
  <1>8. ASSUME HandleMessage \/ UNCHANGED vars PROVE Reported'
    BY <1>8 DEF Reported, HandleMessage, vars
  <1> QED BY <1>1, <1>2, <1>3, <1>4, <1>5, <1>6, <1>7, <1>8 DEF Next, Thread

\* A request that has ended, was not cancelled and whose body could be read has
\* sent exactly one success or failure to the screen, after any number of
\* repetitions by the two loops.
THEOREM OneResultEach == Spec => []OneResult
  <1>1. Spec => []TypeInv
    BY TypeInit, TypeNext, PTL DEF Spec
  <1>2. Init => Reported
    BY DEF Init, Reported
  <1>3. TypeInv /\ Reported /\ [Next]_vars => Reported'
    BY ReportedNext
  <1>4. Reported => OneResult
    BY DEF Reported, OneResult
  <1> QED BY <1>1, <1>2, <1>3, <1>4, PTL DEF Spec
=============================================================================
