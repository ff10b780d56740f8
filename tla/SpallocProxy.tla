----------------------------- MODULE SpallocProxy -----------------------------
(***************************************************************************)
(* Connections to boards proxied over one websocket (spalloc_client.py).    *)
(* Each _ProxiedConnection has a thread that opens it and closes it with    *)
(* synchronous calls (_call), and a thread that receives its messages; a    *)
(* _ProxyReceiver thread reads the websocket and hands the replies of calls *)
(* and the messages on channels to the connections.  destroy() of the job   *)
(* closes the websocket from yet another thread.                            *)
(*                                                                          *)
(* The websocket is ordered and lossless until the link drops.  The proxy   *)
(* server is external.  Each connection makes one call to open and one to   *)
(* close.                                                                   *)
(***************************************************************************)
EXTENDS Integers, Sequences, FiniteSets

CONSTANTS
  Conns,        \* the proxied connections of the job
  Nobody,       \* no connection
  AtomicDraw,   \* FALSE where a thread switch can split expect_return
  CanDrop,      \* the link to the server may fail
  CanDestroy,   \* destroy() may be called while the connections are in use
  MaxMessages,  \* bound: messages the server sends on each channel
  MaxFaults     \* bound: exceptions from recv_data with the websocket still up

ASSUME ProxyAssumption ==
  /\ IsFiniteSet(Conns) /\ Nobody \notin Conns
  /\ {AtomicDraw, CanDrop, CanDestroy} \subseteq BOOLEAN
  /\ MaxMessages \in Nat /\ MaxFaults \in Nat

VARIABLES
  connected,       \* ws.connected
  link,            \* network: whether the server can still be reached
  receiver,        \* where the _ProxyReceiver thread is
  closed,          \* its __closed
  correlation_id,  \* its __correlation_id
  returns,         \* its __returns: correlation id -> connection
  handlers,        \* its __handlers: channel -> connection
  frame,           \* its local variable frame
  todo,            \* keys of the dictionary it is going through, still to notify
  size,            \* the number of keys of that dictionary when it began
  pc,              \* connection -> where the thread that opens and closes it is
  op,              \* connection -> the call in progress or made last
  drawn,           \* connection -> the correlation id it has read
  handle,          \* connection -> its channel, 0 until it is open
  call_queue,      \* connection -> its queue of replies, which holds one
  result,          \* connection -> how its last call ended
  msgs,            \* connection -> its queue of messages
  current,         \* connection -> its __current_msg
  peeking,         \* connection -> is_ready_to_receive is waiting for a message
  received,        \* history: connection -> messages receive has returned
  wire,            \* requests on their way to the server
  frames,          \* frames on their way from the server
  owner,           \* server: channel -> the connection that asked to open it
  open,            \* server: open channels
  sent,            \* server: channel -> messages sent on it
  faults           \* exceptions from recv_data so far

socket == <<connected, link, closed>>
reader == <<receiver, frame, todo, size, faults>>
tables == <<correlation_id, returns, handlers>>
calls == <<pc, op, drawn, handle, result>>
inbox == <<msgs, current, peeking, received>>
server == <<owner, open, sent>>
around == <<socket, reader, inbox, frames, server>>        \* what calls leave alone
outside == <<socket, reader, tables, calls, call_queue, wire, frames, server>>
users == <<tables, calls, call_queue, inbox>>
vars == <<socket, reader, tables, calls, call_queue, inbox, wire, frames, server>>

Channels == 1 .. Cardinality(Conns)
Ids == 0 .. 2 * Cardinality(Conns)
NoFrame == [kind |-> "none"]
Null == [kind |-> "null"]          \* None, put into a queue on disconnection
Message(ch, n) == [kind |-> "msg", ch |-> ch, n |-> n]
Return(id, ch, to) == [kind |-> "return", id |-> id, ch |-> ch, to |-> to]
Error(id, to) == [kind |-> "error", id |-> id, to |-> to]
MessageFrames == {Message(ch, n) : ch \in Channels, n \in 1 .. MaxMessages}
ReplyFrames == {Return(id, ch, to) : id \in Ids, ch \in Channels, to \in Conns}
               \union {Error(id, to) : id \in Ids, to \in Conns}

Awaited == {id \in Ids : returns[id] # Nobody}
Handled == {ch \in Channels : handlers[ch] # Nobody}

Init ==
  /\ connected = TRUE /\ link = "up" /\ closed = FALSE
  /\ receiver = "running" /\ frame = NoFrame /\ todo = {} /\ size = 0
  /\ faults = 0
  /\ correlation_id = 0
  /\ returns = [id \in Ids |-> Nobody]
  /\ handlers = [ch \in Channels |-> Nobody]
  /\ pc = [c \in Conns |-> "new"]
  /\ op = [c \in Conns |-> "none"]
  /\ drawn = [c \in Conns |-> 0]
  /\ handle = [c \in Conns |-> 0]
  /\ call_queue = [c \in Conns |-> <<>>]
  /\ result = [c \in Conns |-> "none"]
  /\ msgs = [c \in Conns |-> <<>>]
  /\ current = [c \in Conns |-> NoFrame]
  /\ peeking = [c \in Conns |-> FALSE]
  /\ received = [c \in Conns |-> <<>>]
  /\ wire = <<>> /\ frames = <<>>
  /\ owner = [ch \in Channels |-> Nobody]
  /\ open = {}
  /\ sent = [ch \in Channels |-> 0]

-----------------------------------------------------------------------------
(* A connection's calls.                                                    *)

Goto(c, place) == pc' = [pc EXCEPT ![c] = place]
CallEnds(c, how) ==
  /\ result' = [result EXCEPT ![c] = how]
  /\ Goto(c, IF how # "ok" THEN "failed"
             ELSE IF op[c] = "open" THEN "listen" ELSE "unlisten")

OpenAgain(c) ==
  /\ pc[c] \in {"new", "failed"}
  /\ op' = [op EXCEPT ![c] = "open"]
  /\ \/ connected /\ Goto(c, "draw") /\ UNCHANGED result
     \/ ~connected /\ Goto(c, "failed") /\ result' = [result EXCEPT ![c] = "ioerror"]
  /\ UNCHANGED <<around, tables, drawn, handle, call_queue, wire>>

\* The constructor opens the connection.
BeginOpen(c) ==
  /\ pc[c] = "new"
  /\ op' = [op EXCEPT ![c] = "open"]
  /\ \/ connected /\ Goto(c, "draw") /\ UNCHANGED result
     \/ ~connected /\ Goto(c, "failed") /\ result' = [result EXCEPT ![c] = "ioerror"]
  /\ UNCHANGED <<around, tables, drawn, handle, call_queue, wire>>

\* _close() makes a call only while the websocket is up.
BeginClose(c) ==
  /\ pc[c] = "open"
  /\ op' = [op EXCEPT ![c] = "close"]
  /\ Goto(c, IF connected THEN "draw" ELSE "unlisten")
  /\ UNCHANGED <<around, tables, drawn, handle, result, call_queue, wire>>

\* expect_return reads the correlation id ...
DrawId(c) ==
  /\ pc[c] = "draw" /\ ~AtomicDraw
  /\ drawn' = [drawn EXCEPT ![c] = correlation_id]
  /\ Goto(c, "register")
  /\ UNCHANGED <<around, tables, op, handle, result, call_queue, wire>>

ExpectReturnUncounted(c) ==
  /\ pc[c] \in {"register", "draw"}
  /\ drawn' = [drawn EXCEPT ![c] = correlation_id]
  /\ returns' = [returns EXCEPT ![correlation_id] = c]
  /\ Goto(c, "send")
  /\ UNCHANGED <<around, correlation_id, handlers, op, handle, result, call_queue, wire>>

\* ... and counts it up and registers the handler, with no lock.
ExpectReturn(c) ==
  /\ \/ pc[c] = "register" /\ UNCHANGED drawn
     \/ /\ pc[c] = "draw" /\ AtomicDraw
        /\ drawn' = [drawn EXCEPT ![c] = correlation_id]
  /\ correlation_id' = correlation_id + 1
  /\ returns' = [returns EXCEPT ![drawn'[c]] = c]
  /\ Goto(c, "send")
  /\ UNCHANGED <<around, handlers, op, handle, result, call_queue, wire>>

\* The request goes out, into the void if the link has dropped unnoticed.  A
\* websocket that is known to be closed raises an error of its own library.
SendCall(c) ==
  /\ pc[c] = "send"
  /\ \/ /\ connected
        /\ Goto(c, "check")
        /\ wire' = IF link = "up"
                   THEN Append(wire, [op |-> op[c], id |-> drawn[c], ch |-> handle[c],
                                      from |-> c])
                   ELSE wire
        /\ UNCHANGED result
     \/ /\ ~connected
        /\ CallEnds(c, "wserror")
        /\ UNCHANGED wire
  /\ UNCHANGED <<around, tables, op, drawn, handle, call_queue>>

CheckAfterSend(c) ==
  /\ pc[c] = "check"
  /\ \/ connected /\ Goto(c, "await") /\ UNCHANGED result
     \/ ~connected /\ CallEnds(c, "ioerror")
  /\ UNCHANGED <<around, tables, op, drawn, handle, call_queue, wire>>

\* The reply is taken from the queue, with no timeout.  None is not a reply
\* that can be unpacked.
GetReply(c) ==
  /\ pc[c] = "await" /\ call_queue[c] # <<>>
  /\ call_queue' = [call_queue EXCEPT ![c] = Tail(@)]
  /\ LET reply == Head(call_queue[c]) IN
       \/ /\ reply.kind = "null"
          /\ CallEnds(c, "typeerror")
          /\ UNCHANGED handle
       \/ /\ reply.kind = "error"
          /\ CallEnds(c, "serviceerror")
          /\ UNCHANGED handle
       \/ /\ reply.kind = "return" /\ op[c] = "open"
          /\ CallEnds(c, "ok")
          /\ handle' = [handle EXCEPT ![c] = reply.ch]
       \/ /\ reply.kind = "return" /\ op[c] = "close"
          /\ CallEnds(c, IF reply.ch = handle[c] THEN "ok" ELSE "ioerror")
          /\ UNCHANGED handle
  /\ UNCHANGED <<around, tables, op, drawn, wire>>

Listen(c) ==
  /\ pc[c] = "listen"
  /\ handlers' = [handlers EXCEPT ![handle[c]] = c]
  /\ Goto(c, "open")
  /\ UNCHANGED <<around, correlation_id, returns, op, drawn, handle, result,
                 call_queue, wire>>

UnlistenLater(c) ==
  /\ pc[c] = "unlisten"
  /\ Goto(c, "closed")
  /\ UNCHANGED <<around, tables, op, drawn, handle, result, call_queue, wire>>

Unlisten(c) ==
  /\ pc[c] = "unlisten"
  /\ handlers' = [handlers EXCEPT ![handle[c]] = Nobody]
  /\ Goto(c, "closed")
  /\ UNCHANGED <<around, correlation_id, returns, op, drawn, handle, result,
                 call_queue, wire>>

-----------------------------------------------------------------------------
(* A connection's messages.                                                 *)

Receivable(c) == handle[c] # 0 /\ pc[c] \notin {"listen", "failed"} /\ ~peeking[c]
Take(c) == msgs' = [msgs EXCEPT ![c] = Tail(@)]
Deliver(c, m) == received' = [received EXCEPT ![c] = Append(@, m)]

\* _receive: what is_ready_to_receive has taken comes first.
Receive(c) ==
  /\ Receivable(c)
  /\ \/ /\ current[c] # NoFrame
        /\ Deliver(c, current[c])
        /\ current' = [current EXCEPT ![c] = NoFrame]
        /\ UNCHANGED msgs
     \/ /\ current[c] = NoFrame /\ msgs[c] # <<>>
        /\ Take(c)
        /\ IF Head(msgs[c]) = Null THEN UNCHANGED received ELSE Deliver(c, Head(msgs[c]))
        /\ UNCHANGED current
  /\ UNCHANGED <<outside, peeking>>

\* _is_ready_to_receive: nothing there, so wait for a message up to a timeout
\* and keep it.
IsReadyToReceive(c) ==
  /\ Receivable(c) /\ current[c] = NoFrame /\ msgs[c] = <<>>
  /\ peeking' = [peeking EXCEPT ![c] = TRUE]
  /\ UNCHANGED <<outside, msgs, current, received>>

ReadyLeavesMessage(c) ==
  /\ peeking[c]
  /\ peeking' = [peeking EXCEPT ![c] = FALSE]
  /\ msgs[c] # <<>>
  /\ current' = [current EXCEPT ![c] = Head(msgs[c])]
  /\ UNCHANGED <<outside, msgs, received>>

ReadyOrNot(c) ==
  /\ peeking[c]
  /\ peeking' = [peeking EXCEPT ![c] = FALSE]
  /\ \/ /\ msgs[c] # <<>>
        /\ Take(c)
        /\ current' = [current EXCEPT ![c] =
             IF Head(msgs[c]) = Null THEN NoFrame ELSE Head(msgs[c])]
     \/ msgs[c] = <<>> /\ UNCHANGED <<msgs, current>>
  /\ UNCHANGED <<outside, received>>

-----------------------------------------------------------------------------
(* The _ProxyReceiver thread.                                               *)

RedispatchReturn(f) ==
  LET c == returns[f.id] IN
  /\ f.kind \in {"return", "error"}
  /\ \/ c = Nobody /\ UNCHANGED call_queue
     \/ /\ c # Nobody /\ call_queue[c] = <<>>
        /\ call_queue' = [call_queue EXCEPT ![c] = <<f>>]
  /\ UNCHANGED <<returns, msgs>>
\* A reply goes to the call that waits for it, once; putting it blocks while
\* the connection's queue is full.  A message goes to the channel's handler;
\* with no handler it is dropped.
DispatchReturn(f) ==
  LET c == returns[f.id] IN
  /\ f.kind \in {"return", "error"}
  /\ returns' = [returns EXCEPT ![f.id] = Nobody]
  /\ \/ c = Nobody /\ UNCHANGED call_queue
     \/ /\ c # Nobody /\ call_queue[c] = <<>>
        /\ call_queue' = [call_queue EXCEPT ![c] = <<f>>]
  /\ UNCHANGED msgs
DispatchMessage(f) ==
  LET c == handlers[f.ch] IN
  /\ f.kind = "msg"
  /\ msgs' = IF c = Nobody THEN msgs ELSE [msgs EXCEPT ![c] = Append(@, f)]
  /\ UNCHANGED <<returns, call_queue>>
Dispatch(f) == DispatchReturn(f) \/ DispatchMessage(f)

ReceiveFrame ==
  /\ receiver = "running" /\ connected /\ frames # <<>>
  /\ frame' = Head(frames)
  /\ frames' = Tail(frames)
  /\ Dispatch(Head(frames))
  /\ UNCHANGED <<socket, receiver, todo, size, faults, correlation_id, handlers,
                 calls, current, peeking, received, wire, server>>

\* recv_data raises though the websocket stays up: after the logging the code
\* goes on to dispatch the frame it still holds from the time before.
ReceiveRaises ==
  /\ receiver = "running" /\ connected /\ faults < MaxFaults
  /\ faults' = faults + 1
  /\ \/ /\ closed
        /\ receiver' = "stopped"
        /\ UNCHANGED <<returns, call_queue, msgs>>
     \/ /\ ~closed /\ frame = NoFrame
        /\ receiver' = "died"
        /\ UNCHANGED <<returns, call_queue, msgs>>
     \/ /\ ~closed /\ frame # NoFrame
        /\ Dispatch(frame)
        /\ UNCHANGED receiver
  /\ UNCHANGED <<socket, frame, todo, size, correlation_id, handlers, calls, current,
                 peeking, received, wire, frames, server>>

\* Going through a dictionary fails when it has got or lost keys under way.
GoThrough(keys) == todo' = keys /\ size' = Cardinality(keys)
ChangedUnderWay(keys) ==
  /\ Cardinality(keys) # size
  /\ receiver' = "died"
  /\ UNCHANGED <<todo, size>>

\* The websocket turns out to be disconnected.  If nobody has closed it, every
\* call and every handler is to be told, the calls first.
ReceiveDisconnected ==
  /\ receiver = "running" /\ connected /\ link = "down" /\ frames = <<>>
  /\ connected' = FALSE
  /\ IF closed
     THEN receiver' = "stopped" /\ UNCHANGED <<todo, size>>
     ELSE receiver' = "returns" /\ GoThrough(Awaited)
  /\ UNCHANGED <<users, link, closed, frame, faults, wire, frames, server>>

NotifyHandlersOnly ==
  /\ receiver = "returns"
  /\ receiver' = "handlers"
  /\ GoThrough(Handled)
  /\ UNCHANGED <<socket, frame, faults, users, wire, frames, server>>

NotifyReturns ==
  /\ receiver = "returns"
  /\ \/ ChangedUnderWay(Awaited) /\ UNCHANGED call_queue
     \/ /\ Cardinality(Awaited) = size /\ todo # {}
        /\ \E id \in todo :
             /\ call_queue[returns[id]] = <<>>
             /\ call_queue' = [call_queue EXCEPT ![returns[id]] = <<Null>>]
             /\ todo' = todo \ {id}
        /\ UNCHANGED <<receiver, size>>
     \/ /\ Cardinality(Awaited) = size /\ todo = {}
        /\ receiver' = "handlers"
        /\ GoThrough(Handled)
        /\ UNCHANGED call_queue
  /\ UNCHANGED <<socket, frame, faults, tables, calls, inbox, wire, frames, server>>

NotifyHandlers ==
  /\ receiver = "handlers"
  /\ \/ ChangedUnderWay(Handled) /\ UNCHANGED msgs
     \/ /\ Cardinality(Handled) = size /\ todo # {}
        /\ \E ch \in todo :
             /\ msgs' = [msgs EXCEPT ![handlers[ch]] = Append(@, Null)]
             /\ todo' = todo \ {ch}
        /\ UNCHANGED <<receiver, size>>
     \/ /\ Cardinality(Handled) = size /\ todo = {}
        /\ receiver' = "stopped"
        /\ UNCHANGED <<msgs, todo, size>>
  /\ UNCHANGED <<socket, frame, faults, tables, calls, call_queue, current, peeking,
                 received, wire, frames, server>>

\* The loop finds the websocket closed by destroy(), or recv_data raises for it.
ReceiverStops ==
  /\ receiver = "running" /\ ~connected
  /\ receiver' = "stopped"
  /\ UNCHANGED <<users, socket, frame, todo, size, faults, wire, frames, server>>

-----------------------------------------------------------------------------
(* destroy() of the job.                                                    *)

DestroyMarks ==
  /\ CanDestroy /\ ~closed
  /\ closed' = TRUE
  /\ UNCHANGED <<users, connected, link, reader, wire, frames, server>>

DestroyCloses ==
  /\ closed /\ (connected \/ link = "up")
  /\ connected' = FALSE /\ link' = "down"
  /\ frames' = <<>>
  /\ UNCHANGED <<users, closed, reader, wire, server>>

-----------------------------------------------------------------------------
(* The proxy server and the network.                                        *)

NextChannel == Cardinality({ch \in Channels : owner[ch] # Nobody}) + 1

ServeOpen ==
  /\ link = "up" /\ wire # <<>> /\ Head(wire).op = "open"
  /\ wire' = Tail(wire)
  /\ \/ /\ owner' = [owner EXCEPT ![NextChannel] = Head(wire).from]
        /\ open' = open \union {NextChannel}
        /\ frames' = Append(frames, Return(Head(wire).id, NextChannel, Head(wire).from))
     \/ /\ frames' = Append(frames, Error(Head(wire).id, Head(wire).from))
        /\ UNCHANGED <<owner, open>>
  /\ UNCHANGED <<users, socket, reader, sent>>

ServeClose ==
  /\ link = "up" /\ wire # <<>> /\ Head(wire).op = "close"
  /\ wire' = Tail(wire)
  /\ \/ /\ Head(wire).ch \in open
        /\ open' = open \ {Head(wire).ch}
        /\ frames' = Append(frames, Return(Head(wire).id, Head(wire).ch, Head(wire).from))
     \/ /\ frames' = Append(frames, Error(Head(wire).id, Head(wire).from))
        /\ UNCHANGED open
  /\ UNCHANGED <<users, socket, reader, owner, sent>>

ServeMessage ==
  /\ link = "up"
  /\ \E ch \in open :
       /\ sent[ch] < MaxMessages
       /\ sent' = [sent EXCEPT ![ch] = @ + 1]
       /\ frames' = Append(frames, Message(ch, sent[ch] + 1))
  /\ UNCHANGED <<users, socket, reader, wire, owner, open>>

\* What the server sent before the link dropped may still arrive, up to a point.
DropLink ==
  /\ CanDrop /\ link = "up"
  /\ link' = "down" /\ wire' = <<>>
  /\ \E n \in 0 .. Len(frames) : frames' = SubSeq(frames, 1, n)
  /\ UNCHANGED <<users, connected, closed, reader, server>>

-----------------------------------------------------------------------------

Calling(c) ==
  \/ DrawId(c) \/ ExpectReturn(c) \/ SendCall(c) \/ CheckAfterSend(c) \/ GetReply(c)
  \/ Listen(c) \/ Unlisten(c)
Receiving(c) == Receive(c) \/ IsReadyToReceive(c) \/ ReadyOrNot(c)
Receiver ==
  \/ ReceiveFrame \/ ReceiveDisconnected \/ NotifyReturns \/ NotifyHandlers
  \/ ReceiverStops
Serve == ServeOpen \/ ServeClose

Next ==
  \/ \E c \in Conns : BeginOpen(c) \/ BeginClose(c) \/ Calling(c) \/ Receiving(c)
  \/ Receiver \/ ReceiveRaises
  \/ DestroyMarks \/ DestroyCloses
  \/ Serve \/ ServeMessage \/ DropLink

Spec == Init /\ [][Next]_vars

\* Threads run on, the server answers what reaches it, and destroy() once begun
\* closes the websocket.
FairSpec ==
  /\ Spec
  /\ \A c \in Conns : WF_vars(Calling(c))
  /\ WF_vars(Receiver) /\ WF_vars(Serve) /\ WF_vars(DestroyCloses)

-----------------------------------------------------------------------------
(* Properties.                                                              *)

TypeOK ==
  /\ connected \in BOOLEAN /\ closed \in BOOLEAN /\ link \in {"up", "down"}
  /\ receiver \in {"running", "returns", "handlers", "stopped", "died"}
  /\ correlation_id \in Ids
  /\ returns \in [Ids -> Conns \union {Nobody}]
  /\ handlers \in [Channels -> Conns \union {Nobody}]
  /\ frame \in {NoFrame} \union MessageFrames \union ReplyFrames
  /\ todo \subseteq Ids /\ size \in Nat
  /\ pc \in [Conns -> {"new", "draw", "register", "send", "check", "await", "listen", "open",
                       "unlisten", "closed", "failed"}]
  /\ op \in [Conns -> {"none", "open", "close"}]
  /\ drawn \in [Conns -> Ids]
  /\ handle \in [Conns -> {0} \union Channels]
  /\ call_queue \in [Conns -> Seq(ReplyFrames \union {Null})]
  /\ result \in [Conns -> {"none", "ok", "ioerror", "serviceerror", "wserror", "typeerror"}]
  /\ msgs \in [Conns -> Seq(MessageFrames \union {Null})]
  /\ current \in [Conns -> MessageFrames \union {NoFrame}]
  /\ peeking \in [Conns -> BOOLEAN]
  /\ received \in [Conns -> Seq(MessageFrames)]
  /\ frames \in Seq(MessageFrames \union ReplyFrames)
  /\ owner \in [Channels -> Conns \union {Nobody}]
  /\ open \subseteq Channels
  /\ sent \in [Channels -> 0 .. MaxMessages]
  /\ faults \in 0 .. MaxFaults

\* The listener a call registers gets that call's return: a connection is given
\* the channel that was opened for it, and no other connection's.
OwnChannel == \A c \in Conns : handle[c] # 0 => owner[handle[c]] = c

\* Receiving returns the messages of the connection's own channel, each once, in
\* the order sent and with no gap, whether or not is_ready_to_receive looked
\* first.
ReceivedInOrder ==
  \A c \in Conns : \A i \in 1 .. Len(received[c]) :
    /\ received[c][i].ch = handle[c]
    /\ i > 1 => received[c][i].n = received[c][i - 1].n + 1

\* The receiver thread never blocks on a connection's queue of replies, which
\* would stop it for all the others.
QueueHasRoom ==
  \A c \in Conns :
    receiver = "running" /\ call_queue[c] # <<>> => \A id \in Ids : returns[id] # c

\* A channel's messages stop going to a connection once it is closed.
HandlersAreOpen ==
  \A ch \in Handled : handle[handlers[ch]] = ch /\ pc[handlers[ch]] # "closed"

\* A call that is told of a disconnection raises an IOError.
CallsRaiseIOError == \A c \in Conns : result[c] # "typeerror"

\* A call comes back, with a result or with an exception.
CallsEnd == \A c \in Conns : pc[c] = "await" ~> pc[c] # "await"
===============================================================================
