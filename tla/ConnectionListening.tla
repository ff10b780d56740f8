-------------------------- MODULE ConnectionListening --------------------------
(* ConnectionListener: a thread that takes the messages of a connection one by  *)
(* one and hands each of them to every callback, which a pool of threads calls. *)
(* The owner starts and closes the listener, adds callbacks and may close the   *)
(* connection, at any time.  A datagram is numbered as it arrives: the network  *)
(* may lose, repeat and reorder what is sent.                                   *)
EXTENDS EIEIOMessages

CONSTANTS
  Traffics,      \* what may arrive on a connection: sequences of [kind |-> "eieio" | "sdp",
                 \* message], with the sender's chip for SDP, or [kind, bytes]
  Given, Late,   \* callbacks added before the listener starts, and at any time after
  Readers,       \* the callbacks that read the elements of a data message
  Raising,       \* the callbacks that raise
  PoolSize,      \* _POOL_SIZE
  MaxDatagrams   \* how many datagrams arrive

ASSUME SizeAssumption == PoolSize \in Nat \ {0} /\ MaxDatagrams \in Nat

\* A callable that is added twice is two callbacks: it is called twice for a message.
ASSUME GivenAssumption ==
  /\ Given \in Seq({Given[i] : i \in DOMAIN Given})
  /\ \A i, j \in DOMAIN Given : Given[i] = Given[j] => i = j

(* Which messages a receiver can read back as they were meant: the numbers fit   *)
(* their fields, the bits of a prefix or a base are not used by what they are    *)
(* added to, and what a message cannot carry is not in it.                       *)
Byte == 0..255
Fitting(type) == {n \in Nat : n <= MaxValue(type)}
DataHeaders ==
  [type : 0..3, tag : 0..3, prefix : Fitting(0) \cup {NoneSet}, upper : BOOLEAN,
   base : Fitting(2) \cup {NoneSet}, is_time : BOOLEAN, count : {0}]
DataReadsBack(m) ==
  LET h == m.header
      ofPrefix == IF h.upper THEN Shl(Bits(h.prefix), 16) ELSE Bits(h.prefix)
  IN  /\ h \in DataHeaders /\ h.base \in Fitting(h.type) \cup {NoneSet}
      /\ h.prefix # NoneSet => ofPrefix \subseteq 0..30
      /\ m.elements \in Seq([key : Fitting(h.type), payload : Fitting(h.type) \cup {NoneSet}])
      /\ Len(m.elements) <= 255
      /\ \A i \in 1 .. Len(m.elements) :
           LET e == m.elements[i]
           IN  /\ CanAdd(h, e)
               /\ h.prefix # NoneSet => Bits(e.key) \cap ofPrefix = {}
               /\ h.base # NoneSet /\ e.payload # NoneSet => Bits(e.payload) \cap Bits(h.base) = {}

\* The count of a read request or an acknowledgement has three bits, all requests
\* have one start, and x is sent as y (RequestReadDataFrom): x = y.
RequestBuffersMessages ==
  [kind : {"command"}, command : {SPINNAKER_REQUEST_BUFFERS}, x : Byte, y : Byte, p : 0..31,
   region : 0..15, sequence : Byte, space : Fitting(2)]
RequestReadDataMessages ==
  [kind : {"command"}, command : {SPINNAKER_REQUEST_READ_DATA}, x : Byte, y : Byte, p : 0..31,
   sequence : Byte,
   requests : Seq([channel : Byte, region : Byte, start : Fitting(2), space : Fitting(2)])]
HostDataReadMessages ==
  [kind : {"command"}, command : {HOST_DATA_READ}, sequence : Byte,
   acks : Seq([channel : Byte, region : Byte, space : Fitting(2)])]
CommandReadsBack(c) ==
  \/ c \in {PaddingRequest, EventStopRequest, StopRequests, StartRequests,
            NotificationProtocolDatabaseLocation(<<>>),
            NotificationProtocolPauseStop, NotificationProtocolStartResume}
  \/ \E sequence \in Byte : c = HostDataReadAck(sequence)
  \/ c \in RequestBuffersMessages
  \/ /\ c \in RequestReadDataMessages /\ c.x = c.y /\ Len(c.requests) \in 1..7
     /\ \A i \in 1 .. Len(c.requests) : c.requests[i].start = c.requests[1].start
  \/ c \in HostDataReadMessages /\ Len(c.acks) <= 7

SDPReadsBack(m, chip) ==
  LET h == m.header
  IN  /\ h.flags \in SDPFlag /\ h.destination_port \in 0..7 /\ h.destination_cpu \in 0..31
      /\ h.destination_chip_x \in Byte /\ h.destination_chip_y \in Byte
      /\ h = SDPHeader(h.flags, h.destination_port, h.destination_cpu,
                       h.destination_chip_x, h.destination_chip_y)
      /\ m.data \in Seq(Byte) /\ m.offset \in 0 .. Len(m.data)
      /\ m = [header |-> h, data |-> m.data, offset |-> m.offset]
      /\ chip \in Byte \X Byte

\* What arrives besides such messages is bytes, and these may be anything.
ASSUME MessageAssumption ==
  \A k \in DOMAIN Traffics : \A i \in DOMAIN Traffics[k] :
    LET s == Traffics[k][i]
    IN  "message" \in DOMAIN s =>
          /\ "bytes" \notin DOMAIN s
          /\ \/ s.kind = "eieio" /\ s.message.kind = "data" /\ DataReadsBack(s.message)
             \/ s.kind = "eieio" /\ s.message.kind = "command" /\ CommandReadsBack(s.message)
             \/ s.kind = "sdp" /\ SDPReadsBack(s.message, s.chip)

Workers == 1..PoolSize
VARIABLES
  traffic,    \* what arrives on this connection
  open,       \* its socket is not closed
  arrived,    \* arrived[n]: which of the traffic datagram n is
  socket,     \* the datagrams that wait in the socket
  callbacks, done,          \* __callbacks and __done
  pc, current, next,        \* the thread: where it is, its message and whose turn it is
  heap,                     \* the messages read, by datagram, with the cursor of their reader
  due,                      \* for checking: who was a callback when a message was read
  tasks,      \* the pool's queue: <<callback, datagram>>
  running,    \* the task of each worker, with what its callback has read of the message
  called,     \* for checking: the calls that have ended
  closing     \* close() of the owner: "no", "joining", "raised" or "returned"

thread == <<pc, current, next>>
pool == <<tasks, running, called>>
vars == <<traffic, open, arrived, socket, callbacks, done, pc, current, next, heap, due,
          tasks, running, called, closing>>

Idle == [callback |-> "none", datagram |-> 0, got |-> <<>>]

Init ==
  /\ traffic \in DOMAIN Traffics /\ open = TRUE
  /\ arrived = <<>> /\ socket = <<>>
  /\ callbacks = Given /\ done = FALSE
  /\ pc = "new" /\ current = 0 /\ next = 1
  /\ heap = <<>> /\ due = <<>>
  /\ tasks = <<>> /\ running = [w \in Workers |-> Idle] /\ called = {}
  /\ closing = "no"

BytesOf(s) ==
  CASE "bytes" \in DOMAIN s -> s.bytes
    [] s.kind = "eieio" -> EIEIOBytes(s.message)
    [] OTHER -> SDPBytes(s.message, s.chip)
SentBytes == [k \in DOMAIN Traffics |-> [i \in DOMAIN Traffics[k] |-> BytesOf(Traffics[k][i])]]
Decoded == [k \in DOMAIN Traffics |-> [i \in DOMAIN Traffics[k] |->
  IF Traffics[k][i].kind = "eieio" THEN ReceiveEIEIO(SentBytes[k][i]) ELSE ReceiveSDP(SentBytes[k][i])]]
Sent(n) == Traffics[traffic][arrived[n]]
Received(n) == Decoded[traffic][arrived[n]]
IsMessage(n) == "message" \in DOMAIN Sent(n)

\* The network brings a datagram.
Arrive ==
  /\ open /\ Len(arrived) < MaxDatagrams
  /\ \E i \in DOMAIN Traffics[traffic] : arrived' = Append(arrived, i)
  /\ socket' = Append(socket, Len(arrived) + 1)
  /\ UNCHANGED <<traffic, open, callbacks, done, thread, heap, due, pool, closing>>

(* The owner.                                                                   *)
Start ==
  /\ pc = "new" /\ pc' = "check"
  /\ UNCHANGED <<traffic, open, arrived, socket, callbacks, done, current, next, heap, due, pool, closing>>

AddCallback ==
  /\ \E c \in Late : (\A i \in 1 .. Len(callbacks) : callbacks[i] # c) /\ callbacks' = Append(callbacks, c)
  /\ UNCHANGED <<traffic, open, arrived, socket, done, thread, heap, due, pool, closing>>

CloseConnection ==
  /\ open /\ open' = FALSE /\ socket' = <<>>
  /\ UNCHANGED <<traffic, arrived, callbacks, done, thread, heap, due, pool, closing>>

\* A thread that has not been started cannot be joined.
Close ==
  /\ closing \in {"no", "raised"}
  /\ done' = TRUE
  /\ closing' = IF pc = "new" THEN "raised" ELSE "joining"
  /\ UNCHANGED <<traffic, open, arrived, socket, callbacks, thread, heap, due, pool>>
Join ==
  /\ closing = "joining" /\ pc = "ended"
  /\ closing' = "returned"
  /\ UNCHANGED <<traffic, open, arrived, socket, callbacks, done, thread, heap, due, pool>>

(* The thread: run and __run_step.                                              *)
At(from, to) == pc = from /\ pc' = to
Check ==
  /\ pc = "check" /\ pc' = (IF done THEN "shutdown" ELSE "select")
  /\ UNCHANGED <<traffic, open, arrived, socket, callbacks, done, current, next, heap, due, pool, closing>>

\* A closed connection is ready at once; a wait on a socket that is closed during
\* it raises, which goes on like the timeout.
Ready ==
  /\ At("select", "receive") /\ (socket # <<>> \/ ~open)
  /\ UNCHANGED <<traffic, open, arrived, socket, callbacks, done, current, next, heap, due, pool, closing>>
TimeoutNever ==
  /\ At("select", "check") /\ socket = <<>> /\ ~open
  /\ UNCHANGED <<traffic, open, arrived, socket, callbacks, done, current, next, heap, due, pool, closing>>
Timeout ==
  /\ At("select", "check") /\ socket = <<>>
  /\ UNCHANGED <<traffic, open, arrived, socket, callbacks, done, current, next, heap, due, pool, closing>>

ReceiveEOF ==
  /\ At("receive", "check") /\ ~open /\ done' = TRUE
  /\ UNCHANGED <<traffic, open, arrived, socket, callbacks, current, next, heap, due, pool, closing>>

\* A datagram that cannot be read raises: the message is gone, the thread goes on.
ReceiveAndStop ==
  /\ pc = "receive" /\ open
  /\ LET n == Head(socket)
         message == Received(n)
     IN  IF message = Raised
         THEN pc' = "shutdown" /\ UNCHANGED <<current, next, heap, due>>
         ELSE /\ pc' = "dispatch" /\ current' = n /\ next' = 1
              /\ heap' = [m \in DOMAIN heap \cup {n} |-> IF m = n THEN message ELSE heap[m]]
              /\ due' = [m \in DOMAIN due \cup {n} |-> IF m = n THEN callbacks ELSE due[m]]
  /\ socket' = Tail(socket)
  /\ UNCHANGED <<traffic, open, arrived, callbacks, done, pool, closing>>
Receive ==
  /\ pc = "receive" /\ open
  /\ LET n == Head(socket)
         message == Received(n)
     IN  IF message = Raised
         THEN pc' = "check" /\ UNCHANGED <<current, next, heap, due>>
         ELSE /\ pc' = "dispatch" /\ current' = n /\ next' = 1
              /\ heap' = [m \in DOMAIN heap \cup {n} |-> IF m = n THEN message ELSE heap[m]]
              /\ due' = [m \in DOMAIN due \cup {n} |-> IF m = n THEN callbacks ELSE due[m]]
  /\ socket' = Tail(socket)
  /\ UNCHANGED <<traffic, open, arrived, callbacks, done, pool, closing>>

\* One turn of the loop over the callbacks, of which there may be more by now.
DispatchButLast ==
  /\ pc = "dispatch"
  /\ IF next < Len(callbacks)
     THEN /\ tasks' = Append(tasks, <<callbacks[next], current>>)
          /\ next' = next + 1 /\ UNCHANGED <<pc, current>>
     ELSE pc' = "check" /\ current' = 0 /\ next' = 1 /\ UNCHANGED tasks
  /\ UNCHANGED <<traffic, open, arrived, socket, callbacks, done, heap, due, running, called, closing>>
Dispatch ==
  /\ pc = "dispatch"
  /\ IF next <= Len(callbacks)
     THEN /\ tasks' = Append(tasks, <<callbacks[next], current>>)
          /\ next' = next + 1 /\ UNCHANGED <<pc, current>>
     ELSE pc' = "check" /\ current' = 0 /\ next' = 1 /\ UNCHANGED tasks
  /\ UNCHANGED <<traffic, open, arrived, socket, callbacks, done, heap, due, running, called, closing>>

\* The end of `with self.__callback_pool`: every task that was given to it is done.
ShutdownAtOnce ==
  /\ At("shutdown", "ended")
  /\ tasks = <<>>
  /\ UNCHANGED <<traffic, open, arrived, socket, callbacks, done, current, next, heap, due, pool, closing>>
Shutdown ==
  /\ At("shutdown", "ended")
  /\ tasks = <<>> /\ \A w \in Workers : running[w] = Idle
  /\ UNCHANGED <<traffic, open, arrived, socket, callbacks, done, current, next, heap, due, pool, closing>>

Thread == Check \/ Ready \/ Timeout \/ ReceiveEOF \/ Receive \/ Dispatch \/ Shutdown

(* A worker: it calls callback(message).  One read takes one element.           *)
StartTask(w) ==
  /\ running[w] = Idle /\ tasks # <<>>
  /\ running' = [running EXCEPT ![w] =
       [callback |-> Head(tasks)[1], datagram |-> Head(tasks)[2], got |-> <<>>]]
  /\ tasks' = Tail(tasks)
  /\ UNCHANGED <<traffic, open, arrived, socket, callbacks, done, thread, heap, due, called, closing>>

HasElement(w) ==
  LET t == running[w]
  IN  /\ t.callback \in Readers \ Raising
      /\ heap[t.datagram].kind = "data" /\ IsNextElement(heap[t.datagram])
ReadElement(w) ==
  /\ running[w] # Idle /\ HasElement(w)
  /\ LET n == running[w].datagram
     IN  /\ NextElementReads(heap[n])
         /\ running' = [running EXCEPT ![w].got = Append(@, NextElement(heap[n]))]
         /\ heap' = [heap EXCEPT ![n] = AfterElement(@)]
  /\ UNCHANGED <<traffic, open, arrived, socket, callbacks, done, thread, due, tasks, called, closing>>

\* A callback returns, raises, or meets the end of the bytes: __done_callback logs it.
EndTask(w) ==
  /\ running[w] # Idle
  /\ HasElement(w) => ~NextElementReads(heap[running[w].datagram])
  /\ called' = called \cup {running[w]}
  /\ running' = [running EXCEPT ![w] = Idle]
  /\ UNCHANGED <<traffic, open, arrived, socket, callbacks, done, thread, heap, due, tasks, closing>>

Work(w) == StartTask(w) \/ ReadElement(w) \/ EndTask(w)
Next ==
  \/ Arrive \/ Start \/ AddCallback \/ CloseConnection \/ Close \/ Join
  \/ Thread \/ \E w \in Workers : Work(w)

\* The threads run; nobody has to start or close, and nothing has to arrive.
Spec ==
  /\ Init /\ [][Next]_vars
  /\ WF_vars(Thread) /\ WF_vars(Join) /\ \A w \in Workers : WF_vars(Work(w))

(* What the listener promises.                                                  *)
Tasks == {tasks[i] : i \in 1 .. Len(tasks)}
Running == {w \in Workers : running[w] # Idle}
TaskOf(t) == <<t.callback, t.datagram>>
Called == {TaskOf(t) : t \in called}

\* Every callback that there was when a message came is handed this message, once,
\* and a callback that is added while the message is handed out at most once.
HandedOnce ==
  LET now == {TaskOf(running[w]) : w \in Running}
  IN  /\ Cardinality(Tasks) = Len(tasks) /\ Cardinality(now) = Cardinality(Running)
      /\ Tasks \cap now = {} /\ (Tasks \cup now) \cap Called = {}
      /\ \A n \in DOMAIN due : \A i \in 1 .. Len(due[n]) :
           (n = current => i < next) => <<due[n][i], n>> \in Tasks \cup now \cup Called

\* The elements of a data message as its sender meant them: the key with its prefix
\* in its half of the word, the payload added to its base.
MeantKey(h, e) ==
  e.key + (IF h.prefix = NoneSet THEN 0 ELSE h.prefix * (IF h.upper THEN 65536 ELSE 1))
MeantPayload(h, e) ==
  IF h.base = NoneSet THEN e.payload
  ELSE IF e.payload = NoneSet THEN h.base ELSE h.base + e.payload
MeantElement(h, e) ==
  [key |-> MeantKey(h, e), payload |-> MeantPayload(h, e),
   is_time |-> MeantPayload(h, e) # NoneSet /\ h.is_time]
Meant(m) == [i \in 1 .. Len(m.elements) |-> MeantElement(m.header, m.elements[i])]
SameSDP(m, r) ==
  /\ \A f \in {"flags", "destination_port", "destination_cpu", "destination_chip_x", "destination_chip_y"} :
       m.header[f] = r.header[f]
  /\ SubSeq(m.data, m.offset + 1, Len(m.data)) = SubSeq(r.data, r.offset + 1, Len(r.data))

\* What a callback is given is what was sent: a command with its fields, the data
\* of an SDP message, and from a data message its elements, all and in order.
ReadsBack ==
  /\ \A n \in DOMAIN heap : IsMessage(n) =>
       LET message == Sent(n).message
       IN  CASE heap[n].kind = "command" -> heap[n] = message
             [] heap[n].kind = "sdp" -> SameSDP(message, heap[n])
             [] OTHER -> \A t \in called :
                  t.datagram = n /\ t.callback \in Readers \ Raising => t.got = Meant(message)
  /\ \A n \in 1 .. Len(arrived) : IsMessage(n) => Received(n) # Raised

\* When close() has returned no callback runs or will run, and each message that
\* was taken from the connection has been handled by every callback there was.
QuietWhenClosed ==
  closing = "returned" =>
    /\ tasks = <<>> /\ Running = {}
    /\ \A n \in DOMAIN due : \A i \in 1 .. Len(due[n]) : <<due[n][i], n>> \in Called

\* A message that has arrived is handled by every callback that there was from the
\* start, whatever datagrams come before it and whatever callbacks raise, unless
\* the listener or the connection is closed.
MessagesHandled ==
  \A n \in 1..MaxDatagrams :
    (n <= Len(arrived) /\ IsMessage(n) /\ pc # "new")
      ~> (done \/ ~open \/ \A i \in 1 .. Len(Given) : <<Given[i], n>> \in Called)

\* close() returns.
CloseReturns == closing = "joining" ~> closing = "returned"
================================================================================
