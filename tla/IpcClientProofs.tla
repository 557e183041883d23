--------------------------- MODULE IpcClientProofs ---------------------------
(***************************************************************************)
(* Proofs about IpcClient for any number of calls: a call only returns the *)
(* answer to its own request, a reusable stream is quiet, and the backoff  *)
(* table is never overrun.                                                 *)
(*                                                                         *)
(* AnswerIsOwn is not inductive: it needs that nothing but the exchange of *)
(* the current call is on a stream in use (OneExchange), which in turn     *)
(* needs that a stream is only put back when that exchange is over         *)
(* (ReusableIsQuiet).                                                      *)
(***************************************************************************)
EXTENDS IpcClient, SequenceTheorems, TLAPS

\* What is on the wire of a call in flight is its request or its answer.
OneExchange ==
  client = "waiting" =>
    /\ Len(up) <= 1 /\ Len(down) <= 1 /\ (up = <<>> \/ down = <<>>)
    /\ \A i \in 1..Len(up) : up[i].call = request.call
    /\ \A i \in 1..Len(down) : down[i].call = request.call

\* The daemon handles a request it has read.
HandlesOne == server = "handle" => up # <<>>

\* A call in flight has taken the stream out of the client.
TakenInFlight == client = "waiting" => stream = "gone"

\* The attempts stay within the retries.
AttemptsBounded ==
  /\ client = "connecting" => attempt <= MaxRetries
  /\ client = "backoff" => attempt < MaxRetries

IInv == /\ TypeOK /\ OneExchange /\ HandlesOne /\ TakenInFlight
        /\ AttemptsBounded /\ AnswerIsOwn /\ ReusableIsQuiet

-----------------------------------------------------------------------------
\* A sequence of one element, named by its first.
LEMMA Singleton ==
  ASSUME NEW S, NEW q \in Seq(S), q # <<>>, Len(q) <= 1
  PROVE  Len(q) = 1 /\ Head(q) = q[1] /\ q[1] \in S
  <1>1. Len(q) \in Nat /\ Len(q) # 0
    BY EmptySeq
  <1>2. \A n \in Nat : n # 0 /\ n <= 1 => n = 1
    OBVIOUS
  <1>3. Len(q) = 1
    BY <1>1, <1>2
  <1>4. Head(q) = q[1]
    BY <1>3
  <1> QED BY <1>3, <1>4

\* The client starts unconnected, without a request.
LEMMA InitClient == Init => IInv
  <1>1. <<>> \in Seq(Requests) /\ <<>> \in Seq(Replies)
    BY EmptySeq
  <1>2. /\ NoRequest \in Requests
        /\ Pending \in [state : {"pending", "error", "answered"}, answers : Nat]
    BY DEF NoRequest, Requests, Pending, Outcome
  <1>3. Init => TypeOK
    BY <1>1, <1>2 DEF Init, TypeOK, ClientStates, ServerStates
  <1>4. Init => OneExchange /\ HandlesOne /\ TakenInFlight /\ AttemptsBounded
                  /\ AnswerIsOwn /\ ReusableIsQuiet
    BY DEF Init, OneExchange, HandlesOne, TakenInFlight, AttemptsBounded,
           AnswerIsOwn, ReusableIsQuiet, Pending, Outcome
  <1> QED BY <1>3, <1>4 DEF IInv

\* The steps that touch neither the wire nor the call.
LEMMA ConnectStep ==
  ASSUME IInv,
         StartConnect \/ Connected \/ ConnectRefused \/ ConnectFails
           \/ BackoffElapses \/ DropClient
  PROVE  IInv'
  <1> USE ClientConstants
  <1>0. <<>> \in Seq(Requests) /\ <<>> \in Seq(Replies)
    BY EmptySeq
  <1>1. TypeOK'
    <2>1. CASE Connected
      BY <1>0, <2>1 DEF Connected, IInv, TypeOK, ClientStates, ServerStates
    <2>2. CASE ~Connected
      BY <2>2 DEF StartConnect, ConnectRefused, ConnectFails, BackoffElapses,
             DropClient, callVars, wire, IInv, TypeOK, ClientStates
    <2> QED BY <2>1, <2>2
  <1>2. AttemptsBounded'
    BY DEF StartConnect, Connected, ConnectRefused, ConnectFails, BackoffElapses,
           DropClient, callVars, wire, IInv, TypeOK, AttemptsBounded
  <1>3. /\ OneExchange' /\ HandlesOne' /\ TakenInFlight'
        /\ AnswerIsOwn' /\ ReusableIsQuiet'
    BY DEF StartConnect, Connected, ConnectRefused, ConnectFails, BackoffElapses,
           DropClient, callVars, wire, IInv, TypeOK, OneExchange, HandlesOne,
           TakenInFlight, AnswerIsOwn, ReusableIsQuiet
  <1> QED BY <1>1, <1>2, <1>3 DEF IInv

\* A call starts on a quiet stream, so its request is all there is.
LEMMA CallStep == ASSUME IInv, Call PROVE IInv'
  <1>1. up = <<>> /\ down = <<>>
    BY DEF Call, IInv, ReusableIsQuiet
  <1>2. PICK id \in Ids : request' = [id |-> id, call |-> calls + 1]
                          /\ up' = Append(up, request')
                          /\ nextId' = IF id = 0 THEN nextId ELSE nextId + 1
    BY DEF Call
  <1>3. request' \in Requests
    BY <1>2 DEF Ids, Requests, IInv, TypeOK
  <1>4. up' = <<request'>> /\ up' \in Seq(Requests) /\ Len(up') = 1
    BY <1>1, <1>2, <1>3
  <1>a. nextId' \in Nat
    BY <1>2 DEF Ids, IInv, TypeOK
  <1>b. outcome' \in [state : {"pending", "error", "answered"}, answers : Nat]
    BY DEF Call, Pending, Outcome
  <1>5. TypeOK'
    <2>1. /\ client' = "waiting" /\ stream' = "gone" /\ calls' = calls + 1
          /\ UNCHANGED <<attempt, down, server>>
      BY DEF Call
    <2> QED BY <1>3, <1>4, <1>a, <1>b, <2>1 DEF IInv, TypeOK, ClientStates
  <1>6. OneExchange'
    BY <1>1, <1>4 DEF Call, OneExchange
  <1>7. HandlesOne' /\ TakenInFlight' /\ AttemptsBounded' /\ AnswerIsOwn'
        /\ ReusableIsQuiet'
    BY <1>1, <1>4 DEF Call, IInv, HandlesOne, TakenInFlight, AttemptsBounded,
         AnswerIsOwn,
           ReusableIsQuiet, Pending, Outcome
  <1> QED BY <1>5, <1>6, <1>7 DEF IInv

\* A call ends: with the one reply there was, or without the stream.
LEMMA ReturnStep ==
  ASSUME IInv, CallInterrupted \/ CallFails \/ Receive
  PROVE  IInv'
  <1>1. CASE CallInterrupted
    BY <1>1 DEF CallInterrupted, wire, IInv, TypeOK, Requests, Outcome, OneExchange,
         HandlesOne,
           TakenInFlight, AttemptsBounded, AnswerIsOwn, ReusableIsQuiet
  <1>2. CASE CallFails
    BY <1>2 DEF CallFails, wire, IInv, TypeOK, ClientStates, Outcome, OneExchange,
         HandlesOne,
           TakenInFlight, AttemptsBounded, AnswerIsOwn, ReusableIsQuiet
  <1>3. CASE Receive
    <2>0. up = <<>> /\ down # <<>> /\ Len(down) <= 1
      BY <1>3 DEF Receive, IInv, OneExchange
    <2>1. Len(down) = 1 /\ Head(down) = down[1]
      BY <2>0, Singleton DEF IInv, TypeOK
    <2>2. up = <<>> /\ Tail(down) = <<>>
      <3>1. Tail(down) \in Seq(Replies) /\ Len(Tail(down)) = 0
        BY <1>3, <2>1, HeadTailProperties DEF Receive, IInv, TypeOK
      <3> QED BY <2>0, <3>1, EmptySeq
    <2>3. down[1] \in Replies /\ down[1].call = request.call
      BY <1>3, <2>1 DEF Receive, IInv, TypeOK, OneExchange
    <2>a. outcome' \in [state : {"pending", "error", "answered"}, answers : Nat]
      BY <1>3, <2>1, <2>3 DEF Receive, Outcome, Replies
    <2>b. down' \in Seq(Replies)
      BY <1>3, <2>2, EmptySeq DEF Receive
    <2>4. TypeOK'
      BY <1>3, <2>a, <2>b DEF Receive, IInv, TypeOK, ClientStates
    <2>5. AnswerIsOwn'
      BY <1>3, <2>1, <2>3 DEF Receive, AnswerIsOwn, Outcome
    <2>6. OneExchange' /\ HandlesOne' /\ TakenInFlight' /\ AttemptsBounded'
          /\ ReusableIsQuiet'
      BY <1>3, <2>2 DEF Receive, IInv, OneExchange, HandlesOne, TakenInFlight,
           AttemptsBounded,
             ReusableIsQuiet
    <2> QED BY <2>4, <2>5, <2>6 DEF IInv
  <1> QED BY <1>1, <1>2, <1>3

\* The daemon moves a request to the other direction, or drops it.
LEMMA ServerStep == ASSUME IInv, ServerSteps PROVE IInv'
  <1>1. CASE ServerReads \/ ServerCloses
    BY <1>1 DEF ServerReads, ServerCloses, callVars, IInv, TypeOK, ServerStates,
         OneExchange,
           HandlesOne, TakenInFlight, AttemptsBounded, AnswerIsOwn, ReusableIsQuiet
  <1>2. CASE ServerAnswers \/ ServerRejects
    <2>1. up # <<>> /\ ~(client = "idle" /\ stream = "kept")
      BY <1>2 DEF ServerAnswers, ServerRejects, IInv, HandlesOne, ReusableIsQuiet
    <2>2. up[1] \in Requests /\ Head(up) = up[1] /\ Len(up) \in Nat /\ Len(up) >= 1
      BY <2>1 DEF IInv, TypeOK
    <2>3. PICK r \in Replies : down' = Append(down, r) /\ r.call = up[1].call
      <3>1. CASE ServerAnswers
        <4> DEFINE r == [id |-> up[1].id, call |-> up[1].call, garbled |-> FALSE]
        <4>1. r \in Replies /\ r.call = up[1].call
          BY <2>2 DEF Replies, Requests
        <4>2. down' = Append(down, r)
          BY <2>2, <3>1 DEF ServerAnswers
        <4> QED BY <4>1, <4>2
      <3>2. CASE ServerRejects
        BY <2>2, <3>2 DEF ServerRejects, Replies, Requests
      <3> QED BY <1>2, <3>1, <3>2
    <2>4. up' = Tail(up) /\ UNCHANGED <<client, attempt, stream, callVars>>
          /\ server' \in {"frame", "closed"}
      BY <1>2 DEF ServerAnswers, ServerRejects
    <2>5. /\ up' \in Seq(Requests) /\ Len(up') = Len(up) - 1
          /\ down' \in Seq(Replies) /\ Len(down') = Len(down) + 1
      BY <2>1, <2>3, <2>4 DEF IInv, TypeOK
    <2>6. TypeOK'
      BY <2>4, <2>5 DEF callVars, IInv, TypeOK, ServerStates
    <2>7. OneExchange'
      <3> SUFFICES ASSUME client = "waiting" PROVE OneExchange'
        BY <2>4 DEF OneExchange
      <3>1. Len(up) = 1 /\ Len(down) = 0 /\ up[1].call = request.call
        <4>1. down = <<>> /\ Len(up) <= 1
          BY <2>1 DEF IInv, OneExchange
        <4>2. \A i \in 1..Len(up) : up[i].call = request.call
          BY DEF IInv, OneExchange
        <4>3. Len(up) = 1 /\ Len(down) = 0
          BY <2>1, <4>1, Singleton, EmptySeq DEF IInv, TypeOK
        <4>4. 1 \in 1..Len(up)
          BY <4>3
        <4> QED BY <4>2, <4>3, <4>4
      <3>2. Len(up') = 0 /\ Len(down') = 1
        BY <2>5, <3>1
      <3>3. down'[1] = r
        BY <2>3, <3>1 DEF IInv, TypeOK
      <3> QED BY <2>3, <2>4, <3>1, <3>2, <3>3 DEF OneExchange, callVars
    <2>8. HandlesOne' /\ TakenInFlight' /\ AttemptsBounded' /\ AnswerIsOwn'
          /\ ReusableIsQuiet'
      BY <2>1, <2>4 DEF callVars, IInv, HandlesOne, TakenInFlight, AttemptsBounded,
             AnswerIsOwn, ReusableIsQuiet
    <2> QED BY <2>6, <2>7, <2>8 DEF IInv
  <1> QED BY <1>1, <1>2 DEF ServerSteps

\* Every step keeps the invariant.
LEMMA StepClient == IInv /\ [Next]_vars => IInv'
  <1>1. ASSUME IInv, UNCHANGED vars PROVE IInv'
    BY <1>1 DEF vars, callVars, wire, IInv, TypeOK, OneExchange, HandlesOne,
           TakenInFlight, AttemptsBounded, AnswerIsOwn, ReusableIsQuiet
  <1> QED
    BY <1>1, ConnectStep, CallStep, ReturnStep, ServerStep DEF Next, ClientSteps

-----------------------------------------------------------------------------
\* The invariant holds throughout.
THEOREM ClientInvariant == Spec => []IInv
  BY InitClient, StepClient, PTL DEF Spec

\* A call never returns the answer to another request, however late answers
\* come and however often ids repeat (DaemonClient::call).
THEOREM AnswersAreOwn == Spec => []AnswerIsOwn
  <1>1. IInv => AnswerIsOwn
    BY DEF IInv
  <1> QED BY <1>1, ClientInvariant, PTL

\* A stream the client may use again has nothing left on it.
THEOREM ReusableStreamsAreQuiet == Spec => []ReusableIsQuiet
  <1>1. IInv => ReusableIsQuiet
    BY DEF IInv
  <1> QED BY <1>1, ClientInvariant, PTL

\* connect_to never reads past the end of CONNECT_BACKOFF_MS.
THEOREM BackoffTableSuffices == Spec => []BackoffInBounds
  <1>1. IInv => BackoffInBounds
    BY ClientConstants DEF IInv, TypeOK, AttemptsBounded, BackoffInBounds
  <1> QED BY <1>1, ClientInvariant, PTL

=============================================================================
