------------------------------ MODULE IpcClient ------------------------------
(***************************************************************************)
(* One DaemonClient (or SyncDaemonClient) and the connection behind it:    *)
(* connecting with retries, calls that own the stream while in flight, and *)
(* a daemon that answers late, garbled, with the error envelope, or not at *)
(* all (core/client.rs, the framing of protocol.rs, the loop of            *)
(* handle_client).                                                         *)
(*                                                                         *)
(* Request ids do not identify requests: the typed methods count from 1,   *)
(* but several commands build their requests with id 0, more than one on   *)
(* the same client (cli/daemon_status.rs).  A request is therefore a pair  *)
(* of its id and of the call that sent it, which the wire does not carry.  *)
(***************************************************************************)
EXTENDS Naturals, Sequences

CONSTANTS
  MaxRetries,  \* MAX_CONNECT_RETRIES
  Backoffs,    \* length of CONNECT_BACKOFF_MS
  MaxCalls     \* bound: calls in all

ASSUME ClientConstants ==
  /\ MaxRetries \in Nat /\ Backoffs \in Nat /\ MaxRetries <= Backoffs
  /\ MaxCalls \in Nat

VARIABLES
  client,   \* "none", "connecting", "backoff", "idle", "waiting"
  attempt,  \* connect attempts that failed
  stream,   \* self.framed: "kept" for Some, "gone" for None
  nextId,   \* request_id
  calls,    \* calls made so far
  request,  \* the request of the last call
  outcome,  \* how the last call ended
  up, down, \* frames on their way to the daemon and back
  server    \* the daemon's task for this connection

wire == <<up, down, server>>
callVars == <<nextId, calls, request, outcome>>
vars == <<client, attempt, stream, callVars, wire>>

ClientStates == {"none", "connecting", "backoff", "idle", "waiting"}
ServerStates == {"frame", "handle", "closed"}
Requests == [id : Nat, call : Nat]
NoRequest == [id |-> 0, call |-> 0]

\* A reply: the id it carries and the call it answers; garbled frames fail
\* split_frame or do not deserialize.
Replies == [id : Nat, call : Nat, garbled : BOOLEAN]
Outcome(s, c) == [state |-> s, answers |-> c]
Pending == Outcome("pending", 0)

Init ==
  /\ client = "none" /\ attempt = 0 /\ stream = "gone"
  /\ nextId = 1 /\ calls = 0 /\ request = NoRequest /\ outcome = Pending
  /\ up = <<>> /\ down = <<>> /\ server = "closed"

-----------------------------------------------------------------------------
(* connect_to.                                                             *)

StartConnect ==
  /\ client = "none" /\ calls < MaxCalls
  /\ client' = "connecting" /\ attempt' = 0
  /\ UNCHANGED <<stream, callVars, wire>>

\* A new client has a new connection and counts its ids from 1.
Connected ==
  /\ client = "connecting"
  /\ client' = "idle" /\ stream' = "kept" /\ nextId' = 1
  /\ up' = <<>> /\ down' = <<>> /\ server' = "frame"
  /\ UNCHANGED <<attempt, calls, request, outcome>>

\* ECONNREFUSED and EAGAIN are retried.
ConnectRefused ==
  /\ client = "connecting"
  /\ client' = IF attempt >= MaxRetries THEN "none" ELSE "backoff"
  /\ UNCHANGED <<attempt, stream, callVars, wire>>

\* ENOENT, EACCES, or an unsafe socket directory.
ConnectFails ==
  /\ client = "connecting" /\ client' = "none"
  /\ UNCHANGED <<attempt, stream, callVars, wire>>

BackoffElapses ==
  /\ client = "backoff"
  /\ client' = "connecting" /\ attempt' = attempt + 1
  /\ UNCHANGED <<stream, callVars, wire>>

\* The caller drops the client between calls and closes the connection.
DropClient ==
  /\ client = "idle"
  /\ client' = "none" /\ stream' = "gone"
  /\ UNCHANGED <<attempt, callVars, wire>>

-----------------------------------------------------------------------------
(* call.                                                                   *)

\* The ids a caller may use: the counter, or 0.
Ids == {nextId, 0}

\* The stream is taken out of the client before anything is sent.
Call ==
  /\ client = "idle" /\ stream = "kept" /\ calls < MaxCalls
  /\ \E id \in Ids :
       /\ request' = [id |-> id, call |-> calls + 1]
       /\ nextId' = IF id = 0 THEN nextId ELSE nextId + 1
       /\ up' = Append(up, request')
  /\ calls' = calls + 1 /\ outcome' = Pending
  /\ client' = "waiting" /\ stream' = "gone"
  /\ UNCHANGED <<attempt, down, server>>

\* "Daemon connection interrupted; reconnect before another request"
CallInterrupted ==
  /\ client = "idle" /\ stream = "gone" /\ calls < MaxCalls
  /\ calls' = calls + 1
  /\ request' = [id |-> nextId, call |-> calls + 1] /\ nextId' = nextId + 1
  /\ outcome' = Outcome("error", 0)
  /\ UNCHANGED <<client, attempt, stream, wire>>

\* decode_correlated_response
Correlated(r) == ~r.garbled /\ r.id = request.id

\* Only a correlated reply puts the stream back; otherwise it is dropped, and
\* with it the connection.
Receive ==
  /\ client = "waiting" /\ down # <<>>
  /\ client' = "idle" /\ down' = Tail(down)
  /\ IF Correlated(Head(down))
     THEN stream' = "kept" /\ outcome' = Outcome("answered", Head(down).call)
     ELSE stream' = "gone" /\ outcome' = Outcome("error", 0)
  /\ UNCHANGED <<attempt, nextId, calls, request, up, server>>

\* Mutation: a timed-out call gives the stream back.
CallFailsKeepingStream ==
  /\ client = "waiting"
  /\ client' = "idle" /\ stream' = "kept" /\ outcome' = Outcome("error", 0)
  /\ UNCHANGED <<attempt, nextId, calls, request, wire>>

\* REQUEST_TIMEOUT on the send or on the read, an I/O error, or the caller
\* dropping the future.
CallFails ==
  /\ client = "waiting"
  /\ client' = "idle" /\ outcome' = Outcome("error", 0)
  /\ UNCHANGED <<attempt, stream, nextId, calls, request, wire>>

-----------------------------------------------------------------------------
(* The daemon: one request at a time, in order (handle_client).            *)

ServerReads ==
  /\ server = "frame" /\ up # <<>>
  /\ server' = "handle"
  /\ UNCHANGED <<client, attempt, stream, callVars, up, down>>

\* Mutation: a request that timed out is answered again when it is done.
ServerAnswersTwice ==
  /\ server = "handle"
  /\ \E again \in BOOLEAN :
       /\ up' = IF again THEN up ELSE Tail(up)
       /\ server' = IF again THEN "handle" ELSE "frame"
  /\ down' = Append(down, [id |-> Head(up).id, call |-> Head(up).call,
                           garbled |-> FALSE])
  /\ Len(down) < 2
  /\ UNCHANGED <<client, attempt, stream, callVars>>

\* The answer, a rate-limit error or a timeout error, under the request's id.
ServerAnswers ==
  /\ server = "handle"
  /\ down' = Append(down, [id |-> Head(up).id, call |-> Head(up).call,
                           garbled |-> FALSE])
  /\ up' = Tail(up) /\ server' = "frame"
  /\ UNCHANGED <<client, attempt, stream, callVars>>

\* A request that does not decode, or a daemon of another version: one answer
\* under id 0, then the connection is closed.
ServerRejects ==
  /\ server = "handle"
  /\ \E g \in BOOLEAN :
       down' = Append(down, [id |-> 0, call |-> Head(up).call, garbled |-> g])
  /\ up' = Tail(up) /\ server' = "closed"
  /\ UNCHANGED <<client, attempt, stream, callVars>>

\* Idle timeout, end of stream, write timeout, abort or crash.
ServerCloses ==
  /\ server \in {"frame", "handle"}
  /\ server' = "closed"
  /\ UNCHANGED <<client, attempt, stream, callVars, up, down>>

-----------------------------------------------------------------------------
ClientSteps ==
  \/ StartConnect \/ Connected \/ ConnectRefused \/ ConnectFails
  \/ BackoffElapses \/ DropClient \/ Call \/ CallInterrupted \/ Receive \/ CallFails

ServerSteps == ServerReads \/ ServerAnswers \/ ServerRejects \/ ServerCloses

Next == ClientSteps \/ ServerSteps

Spec == Init /\ [][Next]_vars

-----------------------------------------------------------------------------
(* Properties.                                                             *)

TypeOK ==
  /\ client \in ClientStates /\ server \in ServerStates
  /\ attempt \in Nat /\ stream \in {"kept", "gone"} /\ nextId \in Nat /\ calls \in Nat
  /\ request \in Requests
  /\ outcome \in [state : {"pending", "error", "answered"}, answers : Nat]
  /\ up \in Seq(Requests) /\ down \in Seq(Replies)

\* A call that returns an answer returns the one to its own request, although
\* ids repeat on a connection and a daemon may answer after the caller gave
\* up: the call in flight owns the stream and drops it with itself.
AnswerIsOwn == outcome.state = "answered" => outcome.answers = request.call

\* "Only a decoded, correlated reply makes this connection reusable": a stream
\* the client can use again has nothing left in either direction.
ReusableIsQuiet == client = "idle" /\ stream = "kept" => up = <<>> /\ down = <<>>

\* Every sleep between two attempts has its entry in CONNECT_BACKOFF_MS.
BackoffInBounds == client = "backoff" => attempt < Backoffs

=============================================================================
