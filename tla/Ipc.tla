-------------------------------- MODULE Ipc --------------------------------
(***************************************************************************)
(* The request/response protocol of muzon-ipc over a Unix socket:          *)
(* IpcClient::call (client.rs) against serve and handle_connection         *)
(* (server.rs).  A value of Client is one connection, for an IpcClient     *)
(* owns one stream and the server has one task per stream.                 *)
(*                                                                         *)
(* A frame is two items on the stream, a length and a body; each carries   *)
(* the number of the call it belongs to, which the code's messages do not: *)
(* the pairing of answers with calls rests on their order alone.  A socket *)
(* buffer holds BufCap items.  Items are written whole, and read whole as  *)
(* long as the reader is in step; a reader that takes other bytes for a    *)
(* length may stop anywhere, and leaves the rest of an item (kind "rest"). *)
(*                                                                         *)
(* Every wait of the client ends by itself after five seconds.  Time is    *)
(* not modelled: a timeout may come at any point of a wait.                *)
(***************************************************************************)
EXTENDS Integers, SequencesExt

CONSTANTS
    Client,
    MaxCalls,   \* bound of the model: calls each client makes
    BufCap,     \* items a socket buffer holds, in each direction
    Slow        \* connections the server need not get on with

ASSUME BoundAssumption == MaxCalls \in [Client -> Nat] /\ BufCap \in Nat
ASSUME SlowAssumption == Slow \subseteq Client

Junk == 0        \* what a request decoded from misaligned bytes asks for
NoAnswer == -1   \* the call returned an error, or there was no call

VARIABLES
    end,       \* the client's end of the connection
    phase,     \* where the client is in `call`
    call,      \* number of the client's last call
    answer,    \* which call the last returned response answers
    strayed,   \* a call on this connection has timed out
    up, down,  \* the stream to the server and back
    task,      \* where the connection's task is in handle_connection
    job,       \* the request in the task's hands
    handled    \* the requests the handler has executed, in order

clientVars == <<end, phase, call, answer, strayed>>
serverVars == <<task, job, handled>>
vars == <<end, phase, call, answer, strayed, up, down, task, job, handled>>

CallNo == Nat
Item == {"len", "body", "rest"} \X CallNo

(* What may be left of a stream once at least one byte is taken from it. *)
Swallow(s) ==
    {SubSeq(s, n + 1, Len(s)) : n \in 1 .. Len(s)}
        \cup {<< <<"rest", s[n][2]>> >> \o SubSeq(s, n + 1, Len(s)) : n \in 1 .. Len(s)}

TypeOK ==
    /\ end \in [Client -> {"none", "up", "gone"}]
    /\ phase \in [Client -> {"idle", "send_len", "send_body", "recv_len", "recv_body", "recv_junk"}]
    /\ call \in [Client -> Nat]
    /\ \A c \in Client : call[c] <= MaxCalls[c]
    /\ answer \in [Client -> CallNo \cup {NoAnswer}]
    /\ strayed \in [Client -> BOOLEAN]
    /\ up \in [Client -> Seq(Item)] /\ down \in [Client -> Seq(Item)]
    /\ \A c \in Client : Len(up[c]) <= BufCap /\ Len(down[c]) <= BufCap
    /\ \A c \in Client : phase[c] # "idle" => end[c] = "up"
    /\ task \in [Client -> {"none", "read_len", "read_body", "handle", "write_len",
                            "write_body", "read_junk", "ended"}]
    /\ job \in [Client -> CallNo]
    /\ handled \in [Client -> Seq(CallNo)]

Init ==
    /\ end = [c \in Client |-> "none"]
    /\ phase = [c \in Client |-> "idle"]
    /\ call = [c \in Client |-> 0]
    /\ answer = [c \in Client |-> NoAnswer]
    /\ strayed = [c \in Client |-> FALSE]
    /\ up = [c \in Client |-> <<>>]
    /\ down = [c \in Client |-> <<>>]
    /\ task = [c \in Client |-> "none"]
    /\ job = [c \in Client |-> Junk]
    /\ handled = [c \in Client |-> <<>>]

-----------------------------------------------------------------------------
(* The client *)

(* IpcClient::connect succeeds once the listener's backlog has the stream. *)
Connect(c) ==
    /\ end[c] = "none"
    /\ end' = [end EXCEPT ![c] = "up"]
    /\ UNCHANGED <<phase, call, answer, strayed, up, down, serverVars>>

(* The client is dropped, or its process dies in the middle of a call. *)
Disconnect(c) ==
    /\ end[c] = "up"
    /\ end' = [end EXCEPT ![c] = "gone"]
    /\ phase' = [phase EXCEPT ![c] = "idle"]
    /\ answer' = [answer EXCEPT ![c] = NoAnswer]
    /\ UNCHANGED <<call, strayed, up, down, serverVars>>

StartCall(c) ==
    /\ end[c] = "up" /\ phase[c] = "idle" /\ call[c] < MaxCalls[c]
    /\ call' = [call EXCEPT ![c] = @ + 1]
    /\ phase' = [phase EXCEPT ![c] = "send_len"]
    /\ answer' = [answer EXCEPT ![c] = NoAnswer]
    /\ UNCHANGED <<end, strayed, up, down, serverVars>>

(* write_all of the length and of the payload; both wait for room. *)
Send(c, part, from, to) ==
    /\ phase[c] = from /\ task[c] # "ended"
    /\ Len(up[c]) < BufCap
    /\ up' = [up EXCEPT ![c] = Append(@, <<part, call[c]>>)]
    /\ phase' = [phase EXCEPT ![c] = to]
    /\ UNCHANGED <<end, call, answer, strayed, down, serverVars>>

SendLen(c) == Send(c, "len", "send_len", "send_body")
SendBody(c) == Send(c, "body", "send_body", "recv_len")

(* The four bytes of a length; those of a body left behind by an earlier call
   give a length that means nothing. *)
RecvLen(c) ==
    /\ phase[c] = "recv_len" /\ down[c] # <<>>
    /\ \/ /\ Head(down[c])[1] = "len"
          /\ down' = [down EXCEPT ![c] = Tail(@)]
          /\ phase' = [phase EXCEPT ![c] = "recv_body"]
       \/ /\ Head(down[c])[1] # "len"
          /\ \E s \in Swallow(down[c]) : down' = [down EXCEPT ![c] = s]
          /\ phase' = [phase EXCEPT ![c] = "recv_junk"]
    /\ UNCHANGED <<end, call, answer, strayed, up, serverVars>>

(* The response is returned without being compared with the request. *)
RecvBody(c) ==
    /\ phase[c] = "recv_body" /\ down[c] # <<>>
    /\ answer' = [answer EXCEPT ![c] = Head(down[c])[2]]
    /\ down' = [down EXCEPT ![c] = Tail(@)]
    /\ phase' = [phase EXCEPT ![c] = "idle"]
    /\ UNCHANGED <<end, call, strayed, up, serverVars>>

(* A meaningless length takes any part of the stream; decoding it fails, or by
   accident gives a response nobody sent. *)
RecvJunk(c) ==
    /\ phase[c] = "recv_junk"
    /\ \E s \in {down[c]} \cup Swallow(down[c]) : down' = [down EXCEPT ![c] = s]
    /\ \E a \in {NoAnswer, Junk} : answer' = [answer EXCEPT ![c] = a]
    /\ phase' = [phase EXCEPT ![c] = "idle"]
    /\ UNCHANGED <<end, call, strayed, up, serverVars>>

(* EPIPE on a write, or end of stream on a read. *)
ConnectionLost(c) ==
    /\ task[c] = "ended"
    /\ \/ phase[c] \in {"send_len", "send_body"}
       \/ phase[c] \in {"recv_len", "recv_body", "recv_junk"} /\ down[c] = <<>>
    /\ phase' = [phase EXCEPT ![c] = "idle"]
    /\ UNCHANGED <<end, call, answer, strayed, up, down, serverVars>>

(* Mutations of Timeout: the body is read without a time limit; the request
   is sent again. *)
TimeoutExceptBody(c) ==
    /\ phase[c] \notin {"idle", "recv_body", "recv_junk"}
    /\ phase' = [phase EXCEPT ![c] = "idle"]
    /\ strayed' = [strayed EXCEPT ![c] = TRUE]
    /\ UNCHANGED <<end, call, answer, up, down, serverVars>>
TimeoutAndResend(c) ==
    /\ phase[c] = "recv_len"
    /\ phase' = [phase EXCEPT ![c] = "send_len"]
    /\ strayed' = [strayed EXCEPT ![c] = TRUE]
    /\ UNCHANGED <<end, call, answer, up, down, serverVars>>

(* The call gives up where it is: what it wrote stays written, what it did
   not read stays in the stream, and the client stays usable.  A body of which
   a part was written, or read, is to the other end, or to the next call, what
   no part of it or the whole of it is: bytes out of step. *)
Timeout(c) ==
    /\ phase[c] # "idle"
    /\ phase' = [phase EXCEPT ![c] = "idle"]
    /\ strayed' = [strayed EXCEPT ![c] = TRUE]
    /\ UNCHANGED <<end, call, answer, up, down, serverVars>>

-----------------------------------------------------------------------------
(* The server *)

(* Mutations of Accept: connections are served one after the other; the
   server greets. *)
AcceptOneByOne(c) ==
    /\ end[c] # "none" /\ task[c] = "none"
    /\ \A d \in Client : task[d] \in {"none", "ended"}
    /\ task' = [task EXCEPT ![c] = "read_len"]
    /\ UNCHANGED <<clientVars, up, down, job, handled>>
AcceptWithGreeting(c) ==
    /\ end[c] # "none" /\ task[c] = "none"
    /\ task' = [task EXCEPT ![c] = "read_len"]
    /\ down' = [down EXCEPT ![c] = << <<"len", Junk>>, <<"body", Junk>> >>]
    /\ UNCHANGED <<clientVars, up, job, handled>>

(* serve's loop: a task for each accepted stream. *)
Accept(c) ==
    /\ end[c] # "none" /\ task[c] = "none"
    /\ task' = [task EXCEPT ![c] = "read_len"]
    /\ UNCHANGED <<clientVars, up, down, job, handled>>

(* Bytes out of step that are read as a length give one that means nothing, or
   zero, and an empty payload decodes to no request.  Bound of the model: what
   is left of an item is not cut again by the read of a length. *)
ReadLen(c) ==
    /\ task[c] = "read_len" /\ up[c] # <<>>
    /\ \/ /\ Head(up[c])[1] = "len"
          /\ up' = [up EXCEPT ![c] = Tail(@)]
          /\ task' = [task EXCEPT ![c] = "read_body"]
       \/ /\ Head(up[c])[1] # "len"
          /\ \E s \in Swallow(up[c]) \ {up[c]} : up' = [up EXCEPT ![c] = s]
          /\ \E t \in {"read_junk", "ended"} : task' = [task EXCEPT ![c] = t]
    /\ UNCHANGED <<clientVars, down, job, handled>>

(* Mutation of ReadBody: the request is answered without being handled. *)
ReadBodyAndAnswer(c) ==
    /\ task[c] = "read_body" /\ up[c] # <<>>
    /\ up' = [up EXCEPT ![c] = Tail(@)]
    /\ task' = [task EXCEPT ![c] = "write_len"]
    /\ job' = [job EXCEPT ![c] = Head(up[c])[2]]
    /\ UNCHANGED <<clientVars, down, handled>>

(* A payload that is made up of bytes of any frames: all there is and not yet
   enough, or as many as the length says.  Decoding it ends the task, or gives
   a request nobody made (what is left over is ignored), after which the task
   may or may not be in step again. *)
ReadAny(c) ==
    /\ up[c] # <<>>
    /\ \/ /\ up' = [up EXCEPT ![c] = <<>>]
          /\ task' = [task EXCEPT ![c] = "read_junk"]
          /\ job' = job
       \/ /\ \E s \in Swallow(up[c]) : up' = [up EXCEPT ![c] = s]
          /\ \/ task' = [task EXCEPT ![c] = "ended"] /\ job' = job
             \/ task' = [task EXCEPT ![c] = "handle"] /\ job' = [job EXCEPT ![c] = Junk]
    /\ UNCHANGED <<clientVars, down, handled>>

ReadJunk(c) == task[c] = "read_junk" /\ ReadAny(c)

(* The payload of the length just read; that of a request whose writer gave up
   after its length is the beginning of later frames. *)
ReadBody(c) ==
    /\ task[c] = "read_body" /\ up[c] # <<>>
    /\ \/ /\ Head(up[c])[1] = "body"
          /\ up' = [up EXCEPT ![c] = Tail(@)]
          /\ task' = [task EXCEPT ![c] = "handle"]
          /\ job' = [job EXCEPT ![c] = Head(up[c])[2]]
          /\ UNCHANGED <<clientVars, down, handled>>
       \/ Head(up[c])[1] # "body" /\ ReadAny(c)

(* End of stream while waiting for a request, or inside one. *)
ReadEof(c) ==
    /\ task[c] \in {"read_len", "read_body", "read_junk"}
    /\ end[c] = "gone" /\ up[c] = <<>>
    /\ task' = [task EXCEPT ![c] = "ended"]
    /\ UNCHANGED <<clientVars, up, down, job, handled>>

Handle(c) ==
    /\ task[c] = "handle"
    /\ handled' = [handled EXCEPT ![c] = Append(@, job[c])]
    /\ task' = [task EXCEPT ![c] = "write_len"]
    /\ UNCHANGED <<clientVars, up, down, job>>

(* The handler panics: the task dies and its stream is closed. *)
HandlerPanics(c) ==
    /\ task[c] = "handle"
    /\ task' = [task EXCEPT ![c] = "ended"]
    /\ UNCHANGED <<clientVars, up, down, job, handled>>

(* write_all of the two parts of the response; to a client that has gone it
   fails and ends the task. *)
Write(c, part, from, to) ==
    /\ task[c] = from
    /\ \/ /\ end[c] = "up" /\ Len(down[c]) < BufCap
          /\ down' = [down EXCEPT ![c] = Append(@, <<part, job[c]>>)]
          /\ task' = [task EXCEPT ![c] = to]
       \/ /\ end[c] = "gone"
          /\ task' = [task EXCEPT ![c] = "ended"]
          /\ down' = down
    /\ UNCHANGED <<clientVars, up, job, handled>>

WriteLen(c) == Write(c, "len", "write_len", "write_body")
WriteBody(c) == Write(c, "body", "write_body", "read_len")

-----------------------------------------------------------------------------
ClientStep(c) ==
    \/ SendLen(c) \/ SendBody(c)
    \/ RecvLen(c) \/ RecvBody(c) \/ RecvJunk(c)
    \/ ConnectionLost(c)

ServerStep(c) ==
    \/ ReadLen(c) \/ ReadBody(c) \/ ReadJunk(c) \/ ReadEof(c)
    \/ WriteLen(c) \/ WriteBody(c)

Next == \E c \in Client :
    \/ Connect(c) \/ Disconnect(c) \/ StartCall(c)
    \/ ClientStep(c) \/ Timeout(c)
    \/ Accept(c) \/ ServerStep(c)
    \/ Handle(c) \/ HandlerPanics(c)

Spec == Init /\ [][Next]_vars

(* The client's runtime polls its future, so a wait that is not answered is
   ended by its timer.  The server's runtime polls the accept loop and the
   tasks, except that a connection in Slow may be left alone for ever at any
   point, in its handler most likely. *)
Fairness ==
    /\ \A c \in Client : WF_vars(Timeout(c))
    /\ \A c \in Client \ Slow : WF_vars(Accept(c)) /\ WF_vars(ServerStep(c)) /\ WF_vars(Handle(c))

-----------------------------------------------------------------------------
(* Properties *)

(* As long as no call on the connection has timed out, a returned response is
   the one to the call that returned it.  Nothing in the frames says so: it
   follows from one task per connection and one frame at a time. *)
AnswersOwnCall ==
    \A c \in Client : answer[c] # NoAnswer /\ ~strayed[c] => answer[c] = call[c]

(* A request is executed at most once and in the order of the calls, also
   when its caller has given up or died. *)
HandledInOrder ==
    \A c \in Client : \A i, j \in DOMAIN handled[c] :
        i < j /\ handled[c][i] # Junk /\ handled[c][j] # Junk => handled[c][i] < handled[c][j]

(* A response that was not made up from misaligned bytes answers a request that
   was executed. *)
AnsweredWasHandled ==
    \A c \in Client : answer[c] \notin {NoAnswer, Junk} => answer[c] \in Range(handled[c])

(* The timeouts keep a stuck server or handler from blocking a caller: every
   call ends, whatever the server does. *)
CallEnds == \A c \in Client : phase[c] # "idle" ~> phase[c] = "idle"

(* The task is about to read, or in the middle of, a frame that was sent whole,
   and nothing but whole frames follow it. *)
WholeFrames(c) ==
    /\ task[c] # "read_junk"
    /\ \A i \in DOMAIN up[c] :
           up[c][i][1] = IF (i % 2 = 1) = (task[c] = "read_body") THEN "body" ELSE "len"

(* A request that has been sent, by a connection whose frames have not fallen
   apart or have by luck come right again, is executed, unless its task ends or
   the connection stays full of responses its client does not read: a handler that
   never returns on another connection does not hold it up, and neither does
   its caller's giving up, then or in the middle of a later frame. *)
SentIsHandled ==
    \A c \in Client \ Slow : \A k \in 1 .. MaxCalls[c] :
        (<<"body", k>> \in Range(up[c]) /\ WholeFrames(c))
            ~> \/ k \in Range(handled[c])
               \/ task[c] = "ended"
               \/ [](Len(down[c]) = BufCap)
=============================================================================
