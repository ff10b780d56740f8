--------------------------- MODULE SpallocProxyProofs ---------------------------
(* Theorems about SpallocProxy for every number of connections and messages.     *)
(* Each proxied connection gets its own channel, and the receiver thread never   *)
(* blocks on a queue of replies, if drawing an id cannot be split.  Messages are *)
(* received in order, if recv_data raises no exception.                          *)
EXTENDS SpallocProxy, FiniteSetTheorems, SequenceTheorems, TLAPS

-----------------------------------------------------------------------------
(* The invariant.                                                           *)

\* The call that a connection has drawn an id for may still get a reply.
Waiting == {"send", "check", "await", "failed"}
Reply(f) == f.kind \in {"return", "error"}
Calls == [op : {"open", "close"}, id : Ids, ch : {0} \union Channels, from : Conns]
AnyFrame == {NoFrame} \union MessageFrames \union ReplyFrames

Types ==
  /\ correlation_id \in Nat
  /\ returns \in [Ids -> Conns \union {Nobody}]
  /\ pc \in [Conns -> {"new", "draw", "listen", "open", "unlisten", "closed"} \union Waiting]
  /\ op \in [Conns -> {"none", "open", "close"}]
  /\ drawn \in [Conns -> Ids]
  /\ handle \in [Conns -> {0} \union Channels]
  /\ call_queue \in [Conns -> Seq(ReplyFrames \union {Null})]
  /\ wire \in Seq(Calls)
  /\ frames \in Seq(MessageFrames \union ReplyFrames)
  /\ frame \in AnyFrame
  /\ owner \in [Channels -> Conns \union {Nobody}]
  /\ open \subseteq Channels
  /\ sent \in [Channels -> 0 .. MaxMessages]

\* Where a connection is tells which of its two calls it makes.
CallOf(c) ==
  /\ pc[c] = "new" => op[c] = "none"
  /\ pc[c] \in {"listen", "open"} => op[c] = "open"
  /\ pc[c] \in {"draw", "send", "check", "await"} => op[c] \in {"open", "close"}
  /\ op[c] = "none" => pc[c] = "new"

\* Each call draws one id, so there are enough of them.
DrewToOpen == {c \in Conns : pc[c] # "new" /\ ~(pc[c] = "draw" /\ op[c] = "open")}
DrewToClose == {c \in Conns : op[c] = "close" /\ pc[c] # "draw"}
Draws == correlation_id <= Cardinality(DrewToOpen) + Cardinality(DrewToClose)

\* An id that is waited for was drawn by the one connection that waits for it.
Registered(id) ==
  /\ id >= correlation_id => returns[id] = Nobody
  /\ returns[id] # Nobody => drawn[returns[id]] = id /\ pc[returns[id]] \in Waiting
DrawnBefore(c) == pc[c] = "send" => drawn[c] < correlation_id /\ returns[drawn[c]] \in {Nobody, c}

\* A queue holds at most the reply of the call in progress, or word of the end.
QueueHolds(c) ==
  \/ call_queue[c] = <<>>
  \/ /\ Len(call_queue[c]) = 1 /\ pc[c] \in Waiting
     /\ LET reply == call_queue[c][1] IN
          \/ reply.kind = "null" /\ receiver # "running"
          \/ /\ Reply(reply) /\ \A id \in Ids : returns[id] # c
             /\ reply.kind = "return" => reply.ch \in Channels /\ owner[reply.ch] = c

\* Requests and replies name the connection whose id they carry, and channels that
\* are its own; a request to open comes from a connection that has none.
Request(w) ==
  /\ w.id < correlation_id /\ returns[w.id] \in {Nobody, w.from}
  /\ w.op = "close" /\ w.ch # 0 => owner[w.ch] = w.from
  /\ w.op = "open" => /\ \A ch \in Channels : owner[ch] # w.from
                      /\ pc[w.from] \in {"check", "await", "failed"} /\ op[w.from] = "open"
Requests ==
  /\ \A i \in 1 .. Len(wire) : Request(wire[i])
  /\ \A i, j \in 1 .. Len(wire) :
       wire[i].op = "open" /\ wire[j].op = "open" /\ wire[i].from = wire[j].from => i = j
Answer(f) ==
  Reply(f) => /\ f.id < correlation_id /\ returns[f.id] \in {Nobody, f.to}
              /\ f.kind = "return" => owner[f.ch] = f.to
Answers == Answer(frame) /\ \A i \in 1 .. Len(frames) : Answer(frames[i])

\* The server numbers the channels one by one, and opens one for each connection.
Channeling ==
  /\ \A ch \in Channels : owner[ch] # Nobody <=> ch < NextChannel
  /\ \A ch, d \in Channels : owner[ch] = owner[d] /\ owner[ch] # Nobody => ch = d
Unopened(c) ==
  pc[c] = "new" \/ (pc[c] \in {"draw", "send"} /\ op[c] = "open") =>
    /\ \A ch \in Channels : owner[ch] # c
    /\ \A i \in 1 .. Len(wire) : wire[i].op = "open" => wire[i].from # c

Ordered ==
  /\ Types /\ Draws /\ OwnChannel /\ Requests /\ Answers /\ Channeling
  /\ \A c \in Conns : CallOf(c) /\ DrawnBefore(c) /\ QueueHolds(c) /\ Unopened(c)
  /\ \A id \in Ids : Registered(id)

-----------------------------------------------------------------------------
(* Sizes.                                                                   *)

\* There are finitely many connections, and so of ids and channels.
LEMMA ConnsFinite == IsFiniteSet(Conns) /\ Cardinality(Conns) \in Nat
  BY ProxyAssumption, FS_CardinalityType

\* The next channel is one of those the server has, as long as a connection has none.
LEMMA ChannelLeft ==
  ASSUME owner \in [Channels -> Conns \union {Nobody}], Channeling,
         NEW c \in Conns, \A ch \in Channels : owner[ch] # c
  PROVE  NextChannel \in Channels
<1>. DEFINE Owned == {ch \in Channels : owner[ch] # Nobody}
            other == Conns \ {c}
<1>1. /\ IsFiniteSet(other) /\ Cardinality(other) = Cardinality(Conns) - 1
  BY ConnsFinite, FS_RemoveElement
<1>2. [ch \in Owned |-> owner[ch]] \in Injection(Owned, other)
  BY DEF Injection, IsInjective, Channeling
<1>3. IsFiniteSet(Owned) /\ Cardinality(Owned) <= Cardinality(other)
  BY <1>1, <1>2, FS_Injection
<1>4. Cardinality(Owned) \in Nat
  BY <1>3, FS_CardinalityType
<1>. QED  BY <1>1, <1>3, <1>4, ConnsFinite DEF NextChannel, Channels

\* With one more channel opened the server goes on to the next.
LEMMA ChannelOpened ==
  ASSUME owner \in [Channels -> Conns \union {Nobody}], Channeling,
         NEW c \in Conns, \A ch \in Channels : owner[ch] # c,
         owner' = [owner EXCEPT ![NextChannel] = c]
  PROVE  Channeling' /\ NextChannel \in Channels /\ owner[NextChannel] = Nobody
<1>. DEFINE Owned == {ch \in Channels : owner[ch] # Nobody}
<1>1. NextChannel \in Channels
  BY ChannelLeft
<1>2. IsFiniteSet(Channels) /\ NextChannel = Cardinality(Owned) + 1
  BY ConnsFinite, FS_Interval DEF Channels, NextChannel
<1>3. IsFiniteSet(Owned) /\ Cardinality(Owned) \in Nat
  BY <1>2, FS_Subset, FS_CardinalityType
<1>4. owner[NextChannel] = Nobody /\ NextChannel \notin Owned
  BY <1>1, <1>2, <1>3 DEF Channeling, Channels
<1>5. Owned' = Owned \union {NextChannel}
  BY <1>1, ProxyAssumption
<1>6. NextChannel' = NextChannel + 1
  <2>1. Cardinality(Owned \union {NextChannel}) = Cardinality(Owned) + 1
    BY <1>3, <1>4, FS_AddElement
  <2>2. NextChannel' = Cardinality(Owned') + 1
    BY DEF NextChannel, Channels
  <2>. HIDE DEF Owned
  <2>. QED  BY <1>2, <1>5, <2>1, <2>2
<1>7. \A ch \in Channels : owner'[ch] # Nobody <=> ch < NextChannel'
  BY <1>1, <1>2, <1>3, <1>6, ProxyAssumption DEF Channeling, Channels
<1>8. \A ch, d \in Channels : owner'[ch] = owner'[d] /\ owner'[ch] # Nobody => ch = d
  BY <1>1 DEF Channeling
<1>. QED  BY <1>1, <1>4, <1>7, <1>8 DEF Channeling

\* A call that has not drawn its id finds one left.
LEMMA IdLeft ==
  ASSUME Types, Draws, NEW c \in Conns, c \notin DrewToOpen \/ c \notin DrewToClose
  PROVE  correlation_id \in Ids /\ correlation_id + 1 \in Nat
<1>1. /\ IsFiniteSet(DrewToOpen) /\ Cardinality(DrewToOpen) <= Cardinality(Conns)
      /\ IsFiniteSet(DrewToClose) /\ Cardinality(DrewToClose) <= Cardinality(Conns)
  BY ConnsFinite, FS_Subset DEF DrewToOpen, DrewToClose
<1>2. Cardinality(DrewToOpen) \in Nat /\ Cardinality(DrewToClose) \in Nat
  BY <1>1, FS_CardinalityType
<1>. QED  BY <1>1, <1>2, ConnsFinite DEF Draws, Types, Ids

\* Who has drawn stays one who has.
LEMMA DrawsKept ==
  ASSUME Draws, UNCHANGED correlation_id, correlation_id \in Nat,
         DrewToOpen \subseteq DrewToOpen', DrewToClose \subseteq DrewToClose'
  PROVE  Draws'
<1>1. DrewToOpen' \subseteq Conns /\ DrewToClose' \subseteq Conns
  BY DEF DrewToOpen, DrewToClose
<1>2. IsFiniteSet(DrewToOpen') /\ IsFiniteSet(DrewToClose')
  BY <1>1, ConnsFinite, FS_Subset
<1>3. /\ Cardinality(DrewToOpen) <= Cardinality(DrewToOpen') /\ IsFiniteSet(DrewToOpen)
      /\ Cardinality(DrewToClose) <= Cardinality(DrewToClose') /\ IsFiniteSet(DrewToClose)
  BY <1>2, FS_Subset
<1>4. /\ Cardinality(DrewToOpen) \in Nat /\ Cardinality(DrewToOpen') \in Nat
      /\ Cardinality(DrewToClose) \in Nat /\ Cardinality(DrewToClose') \in Nat
  BY <1>2, <1>3, FS_CardinalityType
<1>. QED  BY <1>3, <1>4 DEF Draws

\* One more has drawn: one more id is gone.
LEMMA DrawsCounted ==
  ASSUME Types, Draws, correlation_id' = correlation_id + 1, NEW c \in Conns,
         \/ /\ c \notin DrewToOpen /\ DrewToOpen' = DrewToOpen \union {c}
            /\ DrewToClose' = DrewToClose
         \/ /\ c \notin DrewToClose /\ DrewToClose' = DrewToClose \union {c}
            /\ DrewToOpen' = DrewToOpen
  PROVE  Draws'
<1>1. IsFiniteSet(DrewToOpen) /\ IsFiniteSet(DrewToClose)
  BY ConnsFinite, FS_Subset DEF DrewToOpen, DrewToClose
<1>2. Cardinality(DrewToOpen) \in Nat /\ Cardinality(DrewToClose) \in Nat
  BY <1>1, FS_CardinalityType
<1>3. CASE DrewToOpen' = DrewToOpen \union {c} /\ c \notin DrewToOpen /\ DrewToClose' = DrewToClose
  <2>1. Cardinality(DrewToOpen') = Cardinality(DrewToOpen) + 1
    BY <1>1, <1>3, FS_AddElement
  <2>. QED  BY <1>2, <1>3, <2>1 DEF Draws, Types
<1>4. CASE DrewToClose' = DrewToClose \union {c} /\ c \notin DrewToClose /\ DrewToOpen' = DrewToOpen
  <2>1. Cardinality(DrewToClose') = Cardinality(DrewToClose) + 1
    BY <1>1, <1>4, FS_AddElement
  <2>. QED  BY <1>2, <1>4, <2>1 DEF Draws, Types
<1>. QED  BY <1>3, <1>4

-----------------------------------------------------------------------------
(* The initial states, and what the invariant is for.                       *)

\* The invariant holds to begin with.
LEMMA InitOrdered == Init => Ordered
<1>. SUFFICES ASSUME Init PROVE Ordered
  OBVIOUS
<1>1. Types
  BY ConnsFinite, ProxyAssumption DEF Init, Types, AnyFrame, Ids, Channels, NoFrame
<1>2. Draws
  <2>1. DrewToOpen = {} /\ DrewToClose = {}
    BY DEF Init, DrewToOpen, DrewToClose
  <2>. QED  BY <2>1, FS_EmptySet DEF Init, Draws
<1>3. OwnChannel /\ Requests /\ Answers
  BY DEF Init, OwnChannel, Requests, Answers, Answer, Reply, NoFrame
<1>4. Channeling
  <2>1. {ch \in Channels : owner[ch] # Nobody} = {}
    BY DEF Init
  <2>2. NextChannel = 1
    BY <2>1, FS_EmptySet DEF NextChannel
  <2>. QED  BY <2>2 DEF Init, Channeling, Channels
<1>5. \A c \in Conns : CallOf(c) /\ DrawnBefore(c) /\ QueueHolds(c) /\ Unopened(c)
  BY ProxyAssumption DEF Init, CallOf, DrawnBefore, QueueHolds, Unopened
<1>6. \A id \in Ids : Registered(id)
  BY DEF Init, Registered
<1>. QED  BY <1>1, <1>2, <1>3, <1>4, <1>5, <1>6 DEF Ordered

\* With a reply in its queue, a connection waits for no id.
LEMMA OrderedHasRoom == Ordered => QueueHasRoom
<1>. SUFFICES ASSUME Ordered, NEW c \in Conns, receiver = "running", call_queue[c] # <<>>
              PROVE  \A id \in Ids : returns[id] # c
  BY DEF QueueHasRoom
<1>. QED  BY DEF Ordered, QueueHolds

-----------------------------------------------------------------------------
(* The steps of a connection.                                               *)

\* What a request carries.
LEMMA CallsTyped ==
  ASSUME NEW w \in Calls
  PROVE  /\ w.op \in {"open", "close"} /\ w.id \in Ids /\ w.id \in Int
         /\ w.ch \in {0} \union Channels /\ w.from \in Conns
  BY DEF Calls, Ids

\* What holds of the requests under way goes on to hold if it does for any request.
LEMMA RequestsKept ==
  ASSUME Ordered, wire' = wire, \A w \in Calls : Request(w) => Request(w)'
  PROVE  Requests'
<1>1. wire \in Seq(Calls)
  BY DEF Ordered, Types
<1>2. \A i \in 1 .. Len(wire) : wire[i] \in Calls
  BY <1>1
<1>3. ASSUME NEW i \in 1 .. Len(wire') PROVE Request(wire[i])'
  <2>. DEFINE w == wire[i]
  <2>1. w \in Calls /\ Request(w)
    BY <1>2 DEF Ordered, Requests
  <2>2. \A v \in Calls : Request(v) => Request(v)'
    OBVIOUS
  <2>. QED  BY <2>1, <2>2 DEF Request
<1>. QED  BY <1>3 DEF Ordered, Requests

\* The same for the frames, of which only the replies say anything.
LEMMA AnswersKept ==
  ASSUME Ordered, frame' = frame, frames' = frames,
         \A f \in ReplyFrames : Answer(f) => Answer(f)'
  PROVE  Answers'
<1>1. frame \in AnyFrame /\ frames \in Seq(MessageFrames \union ReplyFrames)
  BY DEF Ordered, Types
<1>2. \A i \in 1 .. Len(frames) : frames[i] \in AnyFrame
  BY <1>1 DEF AnyFrame
<1>3. \A f \in AnyFrame \ ReplyFrames : ~Reply(f)
  BY DEF AnyFrame, Reply, NoFrame, MessageFrames, Message
<1>4. \A f \in AnyFrame : Answer(f) => Answer(f)'
  BY <1>3 DEF Answer
<1>5. Answer(frame)'
  BY <1>1, <1>4 DEF Ordered, Answers, Answer
<1>6. ASSUME NEW i \in 1 .. Len(frames') PROVE Answer(frames[i])'
  BY <1>2, <1>4 DEF Ordered, Answers, Answer
<1>. QED  BY <1>5, <1>6 DEF Answers

\* Steps that touch nothing the invariant is about.
LEMMA Aside ==
  ASSUME Ordered, receiver' = "running" => receiver = "running",
         UNCHANGED <<correlation_id, returns, pc, op, drawn, handle, call_queue, wire, frames,
                     frame, owner, open, sent>>
  PROVE  Ordered'
<1>1. Types' /\ Draws' /\ OwnChannel' /\ Requests' /\ Channeling'
  BY DEF Ordered, Types, Draws, DrewToOpen, DrewToClose, OwnChannel, Requests, Request,
         Channeling, NextChannel
<1>2. Answers'
  BY DEF Ordered, Answers, Answer
<1>3. \A c \in Conns : CallOf(c)' /\ DrawnBefore(c)' /\ Unopened(c)'
  BY DEF Ordered, CallOf, DrawnBefore, Unopened
<1>4. \A c \in Conns : QueueHolds(c)'
  BY DEF Ordered, QueueHolds
<1>5. \A id \in Ids : Registered(id)'
  BY DEF Ordered, Registered
<1>. QED  BY <1>1, <1>2, <1>3, <1>4, <1>5 DEF Ordered

\* Steps that move one connection from a place where it does not wait for a reply
\* to another such place, or to the end, with no id drawn.
LEMMA Moves ==
  ASSUME Ordered, NEW c \in Conns,
         pc[c] \notin Waiting,
         UNCHANGED <<receiver, correlation_id, returns, drawn, handle, call_queue, wire, frames,
                     frame, owner, open, sent>>,
         NEW place \in {"draw", "listen", "open", "unlisten", "closed", "failed"},
         NEW call \in {"open", "close"},
         pc' = [pc EXCEPT ![c] = place], op' = [op EXCEPT ![c] = call],
         pc[c] \notin {"new", "draw"} => call = "close" \/ op[c] = "open",
         op[c] = "close" => call = "close" /\ pc[c] # "draw" /\ place # "draw",
         place = "draw" /\ call = "open" => pc[c] = "new",
         pc[c] = "draw" => place = "draw",
         place \in {"listen", "open"} => call = "open"
  PROVE  Ordered'
<1>0. /\ Types /\ CallOf(c) /\ Unopened(c) /\ QueueHolds(c)
      /\ pc \in [Conns -> {"new", "draw", "listen", "open", "unlisten", "closed"} \union Waiting]
      /\ op \in [Conns -> {"none", "open", "close"}]
  BY DEF Ordered, Types
<1>1. /\ pc'[c] = place /\ op'[c] = call
      /\ \A d \in Conns \ {c} : pc'[d] = pc[d] /\ op'[d] = op[d]
  BY <1>0
<1>2. Types'
  BY <1>0 DEF Types, Waiting
<1>3. Draws'
  <2>1. DrewToOpen \subseteq DrewToOpen' /\ DrewToClose \subseteq DrewToClose'
    BY <1>0, <1>1 DEF DrewToOpen, DrewToClose, CallOf
  <2>. QED  BY <2>1, DrawsKept DEF Ordered, Types
<1>4. OwnChannel' /\ Channeling'
  BY DEF Ordered, OwnChannel, Channeling, NextChannel
<1>5. Requests'
  <2>1. ASSUME NEW i \in 1 .. Len(wire) PROVE Request(wire[i])'
    BY <1>0, <1>1, <2>1 DEF Ordered, Requests, Request, Types, Waiting
  <2>. QED  BY <2>1 DEF Ordered, Requests
<1>6. Answers'
  BY DEF Ordered, Answers, Answer
<1>7. \A d \in Conns : CallOf(d)' /\ DrawnBefore(d)' /\ Unopened(d)'
  BY <1>0, <1>1 DEF Ordered, CallOf, DrawnBefore, Unopened
<1>8. \A d \in Conns : QueueHolds(d)'
  BY <1>0, <1>1 DEF Ordered, QueueHolds
<1>9. \A id \in Ids : Registered(id)'
  BY <1>0, <1>1 DEF Ordered, Registered
<1>. QED  BY <1>2, <1>3, <1>4, <1>5, <1>6, <1>7, <1>8, <1>9 DEF Ordered

\* A call draws its id and registers for the reply.
LEMMA Registers ==
  ASSUME Ordered, AtomicDraw, NEW c \in Conns, ExpectReturn(c)
  PROVE  Ordered'
<1>. USE DEF around, socket, reader, tables, inbox, server
<1>0. /\ Types /\ CallOf(c) /\ Unopened(c) /\ QueueHolds(c) /\ pc[c] = "draw"
      /\ pc \in [Conns -> {"new", "draw", "listen", "open", "unlisten", "closed"} \union Waiting]
      /\ drawn \in [Conns -> Ids] /\ returns \in [Ids -> Conns \union {Nobody}]
      /\ op[c] \in {"open", "close"}
  BY DEF Ordered, Types, ExpectReturn, Waiting, CallOf
<1>1. c \notin DrewToOpen \/ c \notin DrewToClose
  BY <1>0 DEF DrewToOpen, DrewToClose
<1>2. correlation_id \in Ids /\ correlation_id \in Nat /\ correlation_id + 1 \in Nat
  BY <1>1, IdLeft DEF Ordered, Types
<1>3. /\ correlation_id' = correlation_id + 1
      /\ drawn' = [drawn EXCEPT ![c] = correlation_id]
      /\ returns' = [returns EXCEPT ![correlation_id] = c]
      /\ pc' = [pc EXCEPT ![c] = "send"]
      /\ UNCHANGED <<receiver, op, handle, call_queue, wire, frames, frame, owner, open, sent>>
  <2>1. drawn'[c] = correlation_id
    BY <1>0 DEF ExpectReturn
  <2>. QED  BY <1>0, <2>1 DEF ExpectReturn, Goto
<1>4. Types'
  BY <1>0, <1>2, <1>3 DEF Types, Waiting
<1>5. Draws'
  <2>1. CASE op[c] = "open"
    <3>1. /\ c \notin DrewToOpen /\ DrewToOpen' = DrewToOpen \union {c}
          /\ DrewToClose' = DrewToClose
      BY <1>0, <1>3, <2>1 DEF DrewToOpen, DrewToClose
    <3>. QED  BY <1>3, <3>1, DrawsCounted DEF Ordered
  <2>2. CASE op[c] = "close"
    <3>1. /\ c \notin DrewToClose /\ DrewToClose' = DrewToClose \union {c}
          /\ DrewToOpen' = DrewToOpen
      BY <1>0, <1>3, <2>2 DEF DrewToOpen, DrewToClose
    <3>. QED  BY <1>3, <3>1, DrawsCounted DEF Ordered
  <2>. QED  BY <1>0, <2>1, <2>2
<1>6. OwnChannel' /\ Channeling'
  BY <1>3 DEF Ordered, OwnChannel, Channeling, NextChannel
<1>7. Requests'
  <2>1. ASSUME NEW w \in Calls, Request(w) PROVE Request(w)'
    <3>1. w.id < correlation_id /\ returns[w.id] \in {Nobody, w.from}
      BY <2>1 DEF Request
    <3>2. returns'[w.id] = returns[w.id] /\ w.id < correlation_id'
      BY <1>0, <1>2, <1>3, <3>1, CallsTyped
    <3>3. w.op = "open" => w.from # c
      BY <1>0, <2>1 DEF Request
    <3>4. w.op = "open" => pc'[w.from] = pc[w.from]
      BY <1>0, <1>3, <3>3, CallsTyped
    <3>. QED  BY <1>3, <2>1, <3>2, <3>4 DEF Request
  <2>. QED  BY <1>3, <2>1, RequestsKept
<1>8. Answers'
  <2>1. ASSUME NEW f \in ReplyFrames, Answer(f) PROVE Answer(f)'
    <3>1. f.id \in Ids /\ Reply(f)
      BY DEF ReplyFrames, Return, Error, Reply
    <3>2. f.id < correlation_id /\ f.id \in Int
      BY <2>1, <3>1 DEF Answer, Ids
    <3>3. returns'[f.id] = returns[f.id]
      BY <1>0, <1>2, <1>3, <3>1, <3>2
    <3>. QED  BY <1>2, <1>3, <2>1, <3>1, <3>2, <3>3 DEF Answer
  <2>. QED  BY <1>3, <2>1, AnswersKept
<1>9. \A d \in Conns : CallOf(d)' /\ Unopened(d)'
  BY <1>0, <1>3 DEF Ordered, CallOf, Unopened
<1>10. \A d \in Conns : DrawnBefore(d)'
  <2>1. ASSUME NEW d \in Conns \ {c}, pc[d] = "send"
        PROVE  drawn[d] < correlation_id /\ returns[drawn[d]] \in {Nobody, d} /\ drawn[d] \in Int
    BY <1>0, <2>1 DEF Ordered, DrawnBefore, Ids
  <2>. QED  BY <1>0, <1>2, <1>3, <2>1 DEF DrawnBefore
<1>11. \A d \in Conns : QueueHolds(d)'
  <2>1. QueueHolds(c)'
    BY <1>0, <1>3 DEF QueueHolds, Waiting
  <2>2. ASSUME NEW d \in Conns \ {c} PROVE QueueHolds(d)'
    BY <1>0, <1>2, <1>3, <2>2 DEF Ordered, QueueHolds
  <2>. QED  BY <2>1, <2>2
<1>12. \A id \in Ids : Registered(id)'
  <2>1. \A id \in Ids : returns[id] # c
    <3>1. c # Nobody /\ pc[c] \notin Waiting
      BY <1>0, ProxyAssumption DEF Waiting
    <3>. QED  BY <3>1 DEF Ordered, Registered
  <2>2. ASSUME NEW id \in Ids, id = correlation_id PROVE Registered(id)'
    <3>1. returns'[id] = c /\ drawn'[c] = id /\ pc'[c] = "send" /\ ~(id >= correlation_id')
      BY <1>0, <1>2, <1>3, <2>2
    <3>. QED  BY <3>1 DEF Registered, Waiting
  <2>3. ASSUME NEW id \in Ids, id # correlation_id PROVE Registered(id)'
    <3>1. returns'[id] = returns[id] /\ returns[id] # c /\ Registered(id) /\ id \in Int
      BY <1>0, <1>2, <1>3, <2>1, <2>3 DEF Ordered, Ids
    <3>2. id >= correlation_id' => id >= correlation_id
      BY <1>2, <1>3, <3>1
    <3>3. returns[id] # Nobody => returns[id] \in Conns \ {c}
      BY <1>0, <3>1
    <3>4. \A d \in Conns \ {c} : drawn'[d] = drawn[d] /\ pc'[d] = pc[d]
      BY <1>0, <1>3
    <3>. QED  BY <3>1, <3>2, <3>3, <3>4 DEF Registered
  <2>. QED  BY <2>2, <2>3
<1>. QED  BY <1>4, <1>5, <1>6, <1>7, <1>8, <1>9, <1>10, <1>11, <1>12 DEF Ordered

\* A call that waits goes on waiting, or fails.
LEMMA Waits ==
  ASSUME Ordered, NEW c \in Conns,
         UNCHANGED <<receiver, correlation_id, returns, op, drawn, handle, call_queue, frames,
                     frame, owner, open, sent>>,
         NEW place \in {"check", "await", "failed"}, pc' = [pc EXCEPT ![c] = place],
         \/ pc[c] = "send" /\ wire' = wire
         \/ /\ pc[c] = "send" /\ place = "check"
            /\ wire' = Append(wire, [op |-> op[c], id |-> drawn[c], ch |-> handle[c], from |-> c])
         \/ pc[c] = "check" /\ wire' = wire
  PROVE  Ordered'
<1>0. /\ Types /\ CallOf(c) /\ Unopened(c) /\ DrawnBefore(c) /\ OwnChannel
      /\ pc \in [Conns -> {"new", "draw", "listen", "open", "unlisten", "closed"} \union Waiting]
      /\ op[c] \in {"open", "close"} /\ drawn[c] \in Ids /\ handle[c] \in {0} \union Channels
      /\ wire \in Seq(Calls)
  BY DEF Ordered, Types, CallOf
<1>1. /\ pc'[c] = place /\ pc[c] \in {"send", "check"}
      /\ \A d \in Conns \ {c} : pc'[d] = pc[d]
  BY <1>0
<1>. DEFINE w == [op |-> op[c], id |-> drawn[c], ch |-> handle[c], from |-> c]
<1>2. Types'
  <2>1. pc' \in [Conns -> {"new", "draw", "listen", "open", "unlisten", "closed"} \union Waiting]
    BY <1>0 DEF Waiting
  <2>2. w \in Calls
    BY <1>0 DEF Calls
  <2>3. wire' \in Seq(Calls)
    BY <1>0, <2>2
  <2>. QED  BY <1>0, <2>1, <2>3 DEF Types
<1>3. Draws'
  <2>1. DrewToOpen \subseteq DrewToOpen' /\ DrewToClose \subseteq DrewToClose'
    BY <1>1 DEF DrewToOpen, DrewToClose
  <2>. QED  BY <2>1, DrawsKept DEF Ordered, Types
<1>4. OwnChannel' /\ Channeling'
  BY DEF Ordered, OwnChannel, Channeling, NextChannel
<1>5. Answers'
  BY DEF Ordered, Answers, Answer
<1>6. \A d \in Conns : QueueHolds(d)'
  BY <1>1 DEF Ordered, QueueHolds, Waiting
<1>7. \A id \in Ids : Registered(id)'
  BY <1>1 DEF Ordered, Registered, Waiting
<1>8. \A d \in Conns : CallOf(d)' /\ DrawnBefore(d)'
  BY <1>1 DEF Ordered, CallOf, DrawnBefore
<1>9. ASSUME NEW v \in Calls, Request(v) PROVE Request(v)'
  <2>1. v.op = "open" => pc[v.from] # "send" /\ v.from \in Conns
    BY <1>9, CallsTyped DEF Request
  <2>2. v.op = "open" => pc'[v.from] \in {"check", "await", "failed"}
    BY <1>1, <1>9, <2>1 DEF Request
  <2>. QED  BY <1>9, <2>2 DEF Request
<1>10. CASE wire' = wire
  <2>1. Requests'
    BY <1>9, <1>10, RequestsKept
  <2>2. \A d \in Conns : Unopened(d)'
    BY <1>1, <1>10 DEF Ordered, Unopened
  <2>. QED  BY <1>2, <1>3, <1>4, <1>5, <1>6, <1>7, <1>8, <2>1, <2>2 DEF Ordered
<1>11. CASE pc[c] = "send" /\ place = "check" /\ wire' = Append(wire, w)
  <2>1. /\ Len(wire') = Len(wire) + 1 /\ wire'[Len(wire) + 1] = w
        /\ \A i \in 1 .. Len(wire) : wire'[i] = wire[i]
    BY <1>0, <1>11
  <2>2. w.id < correlation_id /\ returns[w.id] \in {Nobody, w.from}
    BY <1>11 DEF Ordered, DrawnBefore
  <2>3. w.op = "close" /\ w.ch # 0 => owner[w.ch] = w.from
    BY <1>0 DEF OwnChannel
  <2>4. w.op = "open" => (\A ch \in Channels : owner[ch] # w.from) /\ pc'[w.from] = "check"
    BY <1>0, <1>1, <1>11 DEF Unopened
  <2>5. w.op = "open" => \A i \in 1 .. Len(wire) : wire[i].op = "open" => wire[i].from # c
    BY <1>0, <1>11 DEF Unopened
  <2>6. Requests'
    <3>1. ASSUME NEW i \in 1 .. Len(wire') PROVE Request(wire[i])'
      <4>1. CASE i = Len(wire) + 1
        BY <2>1, <2>2, <2>3, <2>4, <4>1 DEF Request
      <4>2. CASE i \in 1 .. Len(wire)
        <5>1. wire[i] \in Calls /\ Request(wire[i]) /\ wire'[i] = wire[i]
          BY <1>0, <2>1, <4>2 DEF Ordered, Requests
        <5>. QED  BY <1>9, <5>1 DEF Request
      <4>. QED  BY <1>0, <2>1, <4>1, <4>2
    <3>2. ASSUME NEW i \in 1 .. Len(wire'), NEW j \in 1 .. Len(wire'), wire'[i].op = "open",
                 wire'[j].op = "open", wire'[i].from = wire'[j].from
          PROVE  i = j
      BY <1>0, <2>1, <2>5, <3>2 DEF Ordered, Requests
    <3>. QED  BY <3>1, <3>2 DEF Requests
  <2>7. \A d \in Conns : Unopened(d)'
    BY <1>0, <1>1, <1>11, <2>1 DEF Ordered, Unopened
  <2>. QED  BY <1>2, <1>3, <1>4, <1>5, <1>6, <1>7, <1>8, <2>6, <2>7 DEF Ordered
<1>. QED  BY <1>10, <1>11

\* A call takes the reply that it is given: if it was to open, its channel.
LEMMA TakesReply ==
  ASSUME Ordered, NEW c \in Conns, GetReply(c)
  PROVE  Ordered'
<1>. USE DEF around, socket, reader, tables, inbox, server
<1>0. /\ Types /\ CallOf(c) /\ QueueHolds(c) /\ OwnChannel /\ pc[c] = "await"
      /\ pc \in [Conns -> {"new", "draw", "listen", "open", "unlisten", "closed"} \union Waiting]
      /\ handle \in [Conns -> {0} \union Channels]
      /\ call_queue \in [Conns -> Seq(ReplyFrames \union {Null})]
      /\ op[c] \in {"open", "close"} /\ call_queue[c] # <<>>
  BY DEF Ordered, Types, GetReply, CallOf
<1>. DEFINE reply == call_queue[c][1]
<1>1. /\ Head(call_queue[c]) = reply /\ Tail(call_queue[c]) = <<>>
      /\ reply.kind = "null" \/ (/\ Reply(reply) /\ \A id \in Ids : returns[id] # c
                                 /\ reply.kind = "return" =>
                                      reply.ch \in Channels /\ owner[reply.ch] = c)
  <2>1. Len(call_queue[c]) = 1 /\ call_queue[c] \in Seq(ReplyFrames \union {Null})
    BY <1>0 DEF QueueHolds
  <2>2. Tail(call_queue[c]) = <<>> /\ Head(call_queue[c]) = reply
    <3>1. Tail(call_queue[c]) \in Seq(ReplyFrames \union {Null}) /\ Len(Tail(call_queue[c])) = 0
      BY <1>0, <2>1, HeadTailProperties
    <3>2. Tail(call_queue[c]) = <<>>
      BY <3>1, EmptySeq
    <3>3. Head(call_queue[c]) = call_queue[c][1]
      BY <2>1
    <3>. QED  BY <3>2, <3>3
  <2>. QED  BY <1>0, <2>2 DEF QueueHolds
<1>2. /\ UNCHANGED <<receiver, correlation_id, returns, op, drawn, wire, frames, frame, owner,
                     open, sent>>
      /\ call_queue' = [call_queue EXCEPT ![c] = <<>>]
  BY <1>1 DEF GetReply
<1>. DEFINE ok == /\ reply.kind = "return"
                  /\ pc' = [pc EXCEPT ![c] = IF op[c] = "open" THEN "listen" ELSE "unlisten"]
<1>3. /\ ok \/ pc' = [pc EXCEPT ![c] = "failed"]
      /\ handle' = handle \/ (ok /\ handle' = [handle EXCEPT ![c] = reply.ch])
  BY <1>0, <1>1 DEF GetReply, CallEnds, Goto
<1>4. /\ \A d \in Conns \ {c} :
           pc'[d] = pc[d] /\ handle'[d] = handle[d] /\ call_queue'[d] = call_queue[d]
      /\ call_queue'[c] = <<>> /\ pc'[c] \in {"failed", "listen", "unlisten"}
      /\ pc'[c] # "failed" => /\ \A id \in Ids : returns[id] # c
                              /\ reply.ch \in Channels /\ owner[reply.ch] = c
      /\ pc'[c] = "listen" => op[c] = "open"
  <2>1. pc'[c] # "failed" => reply.kind = "return"
    BY <1>0, <1>3
  <2>. QED  BY <1>0, <1>1, <1>2, <1>3, <2>1
<1>5. Types'
  <2>1. pc' \in [Conns -> {"new", "draw", "listen", "open", "unlisten", "closed"} \union Waiting]
    BY <1>0, <1>3 DEF Waiting
  <2>2. handle' \in [Conns -> {0} \union Channels]
    BY <1>0, <1>1, <1>3
  <2>3. call_queue' \in [Conns -> Seq(ReplyFrames \union {Null})]
    BY <1>0, <1>2
  <2>. QED  BY <1>0, <1>2, <2>1, <2>2, <2>3 DEF Types
<1>6. Draws'
  <2>1. DrewToOpen \subseteq DrewToOpen' /\ DrewToClose \subseteq DrewToClose'
    BY <1>0, <1>2, <1>4 DEF DrewToOpen, DrewToClose
  <2>. QED  BY <1>2, <2>1, DrawsKept DEF Ordered, Types
<1>7. OwnChannel' /\ Channeling'
  <2>1. OwnChannel'
    BY <1>0, <1>1, <1>2, <1>3 DEF OwnChannel
  <2>. QED  BY <1>2, <2>1 DEF Ordered, Channeling, NextChannel
<1>8. Requests'
  <2>1. ASSUME NEW w \in Calls, Request(w) PROVE Request(w)'
    <3>1. w.op = "open" => w.from # c \/ pc'[c] = "failed"
      BY <1>0, <1>4, <2>1 DEF Request
    <3>. QED  BY <1>2, <1>4, <2>1, <3>1, CallsTyped DEF Request
  <2>. QED  BY <1>2, <2>1, RequestsKept
<1>9. Answers'
  BY <1>2 DEF Ordered, Answers, Answer
<1>10. \A d \in Conns : CallOf(d)' /\ DrawnBefore(d)' /\ Unopened(d)'
  BY <1>0, <1>2, <1>4 DEF Ordered, CallOf, DrawnBefore, Unopened
<1>11. \A d \in Conns : QueueHolds(d)'
  BY <1>2, <1>4 DEF Ordered, QueueHolds
<1>12. ASSUME NEW id \in Ids PROVE Registered(id)'
  <2>1. returns' = returns /\ drawn' = drawn /\ correlation_id' = correlation_id /\ Registered(id)
    BY <1>2 DEF Ordered
  <2>2. returns[id] # Nobody => returns[id] \in Conns
    BY <1>0 DEF Types
  <2>3. returns[id] = c => pc'[c] = "failed"
    BY <1>4
  <2>. QED  BY <1>4, <2>1, <2>2, <2>3 DEF Registered, Waiting
<1>. QED  BY <1>5, <1>6, <1>7, <1>8, <1>9, <1>10, <1>11, <1>12 DEF Ordered

-----------------------------------------------------------------------------
(* The steps of the receiver.                                               *)

\* A reply goes to the call that drew its id, and no other is waiting for that id.
LEMMA Dispatched ==
  ASSUME Ordered, receiver = "running", NEW f \in AnyFrame, Answer(f), Dispatch(f),
         UNCHANGED <<receiver, correlation_id, pc, op, drawn, handle, wire, owner, open, sent>>,
         frame' = frame \/ frame' = f,
         frames' = frames \/ (frames # <<>> /\ frames' = Tail(frames))
  PROVE  Ordered'
<1>0. /\ Types /\ returns \in [Ids -> Conns \union {Nobody}]
      /\ call_queue \in [Conns -> Seq(ReplyFrames \union {Null})]
      /\ frame \in AnyFrame /\ frames \in Seq(MessageFrames \union ReplyFrames)
  BY DEF Ordered, Types
<1>1. f.kind \in {"return", "error"} => f \in ReplyFrames
  BY DEF AnyFrame, NoFrame, MessageFrames, Message
<1>2. f \in ReplyFrames => /\ f.id \in Ids /\ f.to \in Conns /\ Reply(f)
                           /\ f.kind = "return" => f.ch \in Channels
  BY DEF ReplyFrames, Return, Error, Reply
<1>3. \A id \in Ids : returns'[id] = returns[id] \/ returns'[id] = Nobody
  BY <1>0 DEF Dispatch, DispatchReturn, DispatchMessage
<1>4. returns' \in [Ids -> Conns \union {Nobody}]
  BY <1>0 DEF Dispatch, DispatchReturn, DispatchMessage
<1>5. \A d \in Conns :
        \/ call_queue'[d] = call_queue[d]
        \/ /\ call_queue'[d] = <<f>> /\ f \in ReplyFrames
           /\ returns[f.id] = d /\ returns'[f.id] = Nobody
  BY <1>0, <1>1, <1>2 DEF Dispatch, DispatchReturn, DispatchMessage
<1>6. call_queue' \in [Conns -> Seq(ReplyFrames \union {Null})]
  <2>1. f \in ReplyFrames => <<f>> \in Seq(ReplyFrames \union {Null})
    OBVIOUS
  <2>. QED  BY <1>0, <1>1, <2>1 DEF Dispatch, DispatchReturn, DispatchMessage
<1>7. /\ frame' \in AnyFrame /\ frames' \in Seq(MessageFrames \union ReplyFrames)
  BY <1>0, HeadTailProperties
<1>8. Types'
  BY <1>0, <1>4, <1>6, <1>7 DEF Types
<1>9. Draws' /\ OwnChannel' /\ Channeling'
  BY DEF Ordered, Draws, DrewToOpen, DrewToClose, OwnChannel, Channeling, NextChannel
<1>10. Requests'
  <2>1. ASSUME NEW w \in Calls, Request(w) PROVE Request(w)'
    BY <1>3, <2>1, CallsTyped DEF Request
  <2>. QED  BY <2>1, RequestsKept
<1>11. Answers'
  <2>1. ASSUME NEW g \in ReplyFrames, Answer(g) PROVE Answer(g)'
    <3>1. g.id \in Ids /\ Reply(g)
      BY DEF ReplyFrames, Return, Error, Reply
    <3>. QED  BY <1>3, <2>1, <3>1 DEF Answer
  <2>2. ASSUME NEW g \in AnyFrame, Answer(g) PROVE Answer(g)'
    <3>1. Reply(g) => g \in ReplyFrames
      BY DEF AnyFrame, NoFrame, MessageFrames, Message, Reply
    <3>. QED  BY <2>1, <2>2, <3>1 DEF Answer
  <2>3. Answer(frame)'
    <3>1. Answer(frame)
      BY DEF Ordered, Answers
    <3>2. CASE frame' = frame
      BY <1>0, <2>2, <3>1, <3>2 DEF Answer
    <3>3. CASE frame' = f
      BY <2>2, <3>3 DEF Answer
    <3>. QED  BY <3>2, <3>3
  <2>4. ASSUME NEW i \in 1 .. Len(frames') PROVE Answer(frames[i])'
    <3>1. PICK j \in 1 .. Len(frames) : frames'[i] = frames[j]
      <4>1. CASE frames' = frames
        BY <2>4, <4>1
      <4>2. CASE frames # <<>> /\ frames' = Tail(frames)
        <5>1. Len(frames') = Len(frames) - 1 /\ frames'[i] = frames[i + 1]
          BY <1>0, <2>4, <4>2, HeadTailProperties
        <5>2. Len(frames) \in Nat /\ i + 1 \in 1 .. Len(frames)
          BY <1>0, <2>4, <5>1
        <5>. QED  BY <5>1, <5>2
      <4>. QED  BY <4>1, <4>2
    <3>2. frames[j] \in AnyFrame /\ Answer(frames[j])
      BY <1>0, <3>1 DEF AnyFrame, Ordered, Answers
    <3>. QED  BY <2>2, <3>1, <3>2 DEF Answer
  <2>. QED  BY <2>3, <2>4 DEF Answers
<1>12. \A d \in Conns : CallOf(d)' /\ Unopened(d)'
  BY DEF Ordered, CallOf, Unopened
<1>13. ASSUME NEW d \in Conns PROVE DrawnBefore(d)'
  BY <1>0, <1>3, <1>13 DEF Ordered, DrawnBefore, Types
<1>14. ASSUME NEW d \in Conns PROVE QueueHolds(d)'
  <2>1. CASE call_queue'[d] = call_queue[d]
    <3>1. d # Nobody
      BY ProxyAssumption
    <3>. QED  BY <1>3, <2>1, <3>1 DEF Ordered, QueueHolds
  <2>2. CASE /\ call_queue'[d] = <<f>> /\ f \in ReplyFrames
             /\ returns[f.id] = d /\ returns'[f.id] = Nobody
    <3>1. d # Nobody /\ f.id \in Ids /\ Reply(f)
      BY <1>2, <2>2, ProxyAssumption
    <3>2. pc[d] \in Waiting /\ drawn[d] = f.id
      BY <2>2, <3>1 DEF Ordered, Registered
    <3>3. \A id \in Ids : returns'[id] # d
      BY <1>3, <2>2, <3>1, <3>2 DEF Ordered, Registered
    <3>4. f.kind = "return" => f.ch \in Channels /\ owner[f.ch] = d
      BY <1>2, <2>2, <3>1 DEF Answer
    <3>. QED  BY <2>2, <3>1, <3>2, <3>3, <3>4 DEF QueueHolds
  <2>. QED  BY <1>5, <2>1, <2>2
<1>15. ASSUME NEW id \in Ids PROVE Registered(id)'
  BY <1>3, <1>15 DEF Ordered, Registered
<1>. QED  BY <1>8, <1>9, <1>10, <1>11, <1>12, <1>13, <1>14, <1>15 DEF Ordered

\* What is still to be told of the end are calls that wait.
Noted == receiver = "returns" => todo \subseteq Ids

\* Word of the end goes to calls that wait.
LEMMA Notifies ==
  ASSUME Ordered, Noted, NotifyReturns
  PROVE  Ordered'
<1>. USE DEF socket, tables, calls, inbox, server
<1>1. CASE UNCHANGED call_queue
  BY <1>1, Aside DEF NotifyReturns, ChangedUnderWay, GoThrough
<1>2. CASE \E id \in todo : /\ call_queue[returns[id]] = <<>>
                            /\ call_queue' = [call_queue EXCEPT ![returns[id]] = <<Null>>]
                            /\ receiver' = receiver
  <2>1. PICK id \in todo : /\ call_queue[returns[id]] = <<>>
                           /\ call_queue' = [call_queue EXCEPT ![returns[id]] = <<Null>>]
    BY <1>2
  <2>2. /\ receiver = "returns" /\ receiver' = "returns" /\ id \in Ids
        /\ UNCHANGED <<correlation_id, returns, pc, op, drawn, handle, wire, frames, frame,
                       owner, open, sent>>
    BY <1>2, <2>1 DEF NotifyReturns, Noted
  <2>3. call_queue \in [Conns -> Seq(ReplyFrames \union {Null})]
    BY DEF Ordered, Types
  <2>4. Types'
    <3>1. call_queue' \in [Conns -> Seq(ReplyFrames \union {Null})]
      <4>1. <<Null>> \in Seq(ReplyFrames \union {Null})
        OBVIOUS
      <4>. QED  BY <2>1, <2>3, <4>1
    <3>. QED  BY <2>2, <3>1 DEF Ordered, Types
  <2>5. Draws' /\ OwnChannel' /\ Requests' /\ Channeling'
    BY <2>2 DEF Ordered, Draws, DrewToOpen, DrewToClose, OwnChannel, Requests, Request,
                Channeling, NextChannel
  <2>6. Answers'
    BY <2>2 DEF Ordered, Answers, Answer
  <2>7. \A c \in Conns : CallOf(c)' /\ DrawnBefore(c)' /\ Unopened(c)'
    BY <2>2 DEF Ordered, CallOf, DrawnBefore, Unopened
  <2>8. ASSUME NEW c \in Conns PROVE QueueHolds(c)'
    <3>1. CASE returns[id] = c
      <4>1. call_queue'[c] = <<Null>>
        BY <2>1, <2>3, <3>1
      <4>2. pc[c] \in Waiting
        BY <2>2, <3>1, ProxyAssumption DEF Ordered, Registered
      <4>. QED  BY <2>2, <4>1, <4>2 DEF QueueHolds, Null
    <3>2. CASE returns[id] # c
      <4>1. call_queue'[c] = call_queue[c]
        BY <2>1, <2>3, <3>2
      <4>. QED  BY <2>2, <4>1 DEF Ordered, QueueHolds
    <3>. QED  BY <3>1, <3>2
  <2>9. \A i \in Ids : Registered(i)'
    BY <2>2 DEF Ordered, Registered
  <2>. QED  BY <2>4, <2>5, <2>6, <2>7, <2>8, <2>9 DEF Ordered
<1>. QED  BY <1>1, <1>2 DEF NotifyReturns

-----------------------------------------------------------------------------
(* The steps of the server and of the network.                              *)

\* What is lost on the way leaves less to be true of the rest.
LEMMA Loses ==
  ASSUME Ordered,
         UNCHANGED <<receiver, correlation_id, returns, pc, op, drawn, handle, call_queue, frame,
                     owner, open, sent>>,
         wire' = wire \/ wire' = <<>>,
         NEW n \in 0 .. Len(frames), frames' = SubSeq(frames, 1, n)
  PROVE  Ordered'
<1>0. /\ Types /\ wire \in Seq(Calls) /\ frames \in Seq(MessageFrames \union ReplyFrames)
  BY DEF Ordered, Types
<1>1. /\ frames' \in Seq(MessageFrames \union ReplyFrames) /\ Len(frames') = n
      /\ \A i \in 1 .. n : frames'[i] = frames[i]
  <2>1. Len(frames) \in Nat /\ \A i \in 1 .. n : frames[i] \in MessageFrames \union ReplyFrames
    BY <1>0
  <2>2. n \in Nat /\ n - 1 + 1 = n /\ \A i \in 1 .. n : 1 + i - 1 = i
    BY <2>1
  <2>3. /\ frames' \in Seq(MessageFrames \union ReplyFrames)
        /\ Len(frames') = IF 1 <= n THEN n - 1 + 1 ELSE 0
        /\ \A i \in 1 .. n - 1 + 1 : frames'[i] = frames[1 + i - 1]
    BY <2>1, <2>2, SubSeqProperties
  <2>4. Len(frames') = n
    BY <2>2, <2>3
  <2>5. ASSUME NEW i \in 1 .. n PROVE frames'[i] = frames[i]
    <3>1. i \in 1 .. n - 1 + 1 /\ 1 + i - 1 = i
      BY <2>2
    <3>2. frames'[i] = frames[1 + i - 1]
      BY <2>3, <3>1
    <3>. QED  BY <3>1, <3>2
  <2>. QED  BY <2>3, <2>4, <2>5
<1>2. /\ wire' \in Seq(Calls)
      /\ \A i \in 1 .. Len(wire') : i \in 1 .. Len(wire) /\ wire'[i] = wire[i]
  <2>1. CASE wire' = wire
    BY <1>0, <2>1
  <2>2. CASE wire' = <<>>
    BY <2>2
  <2>. QED  BY <2>1, <2>2
<1>3. Types'
  BY <1>0, <1>1, <1>2 DEF Types
<1>4. Draws' /\ OwnChannel' /\ Channeling'
  BY DEF Ordered, Draws, DrewToOpen, DrewToClose, OwnChannel, Channeling, NextChannel
<1>5. Requests'
  <2>1. \A i \in 1 .. Len(wire') : Request(wire[i])'
    BY <1>2 DEF Ordered, Requests, Request
  <2>2. \A i, j \in 1 .. Len(wire') :
          wire'[i].op = "open" /\ wire'[j].op = "open" /\ wire'[i].from = wire'[j].from => i = j
    BY <1>2 DEF Ordered, Requests
  <2>. QED  BY <2>1, <2>2 DEF Requests
<1>6. Answers'
  <2>1. Answer(frame)'
    BY DEF Ordered, Answers, Answer
  <2>2. ASSUME NEW i \in 1 .. Len(frames') PROVE Answer(frames[i])'
    <3>1. i \in 1 .. Len(frames) /\ frames'[i] = frames[i]
      BY <1>0, <1>1, <2>2
    <3>. QED  BY <3>1 DEF Ordered, Answers, Answer
  <2>. QED  BY <2>1, <2>2 DEF Answers
<1>7. \A c \in Conns : CallOf(c)' /\ DrawnBefore(c)' /\ QueueHolds(c)'
  BY DEF Ordered, CallOf, DrawnBefore, QueueHolds
<1>8. \A c \in Conns : Unopened(c)'
  BY <1>2 DEF Ordered, Unopened
<1>9. \A id \in Ids : Registered(id)'
  BY DEF Ordered, Registered
<1>. QED  BY <1>3, <1>4, <1>5, <1>6, <1>7, <1>8, <1>9 DEF Ordered

\* The server answers a request with nothing opened, or just sends a message.
LEMMA Answered ==
  ASSUME Ordered,
         UNCHANGED <<receiver, correlation_id, returns, pc, op, drawn, handle, call_queue, frame,
                     owner>>,
         open' \subseteq Channels, sent' \in [Channels -> 0 .. MaxMessages],
         wire' = wire \/ (wire # <<>> /\ wire' = Tail(wire)),
         NEW f \in MessageFrames \union ReplyFrames, Answer(f), frames' = Append(frames, f)
  PROVE  Ordered'
<1>0. /\ Types /\ wire \in Seq(Calls) /\ frames \in Seq(MessageFrames \union ReplyFrames)
  BY DEF Ordered, Types
<1>1. /\ frames' \in Seq(MessageFrames \union ReplyFrames)
      /\ \A i \in 1 .. Len(frames') :
           frames'[i] = f \/ (i \in 1 .. Len(frames) /\ frames'[i] = frames[i])
  BY <1>0
<1>2. wire' \in Seq(Calls)
  BY <1>0, HeadTailProperties
<1>3. PICK k \in {0, 1} :
        \A i \in 1 .. Len(wire') : i + k \in 1 .. Len(wire) /\ wire'[i] = wire[i + k]
  <2>1. CASE wire' = wire
    BY <1>0, <2>1
  <2>2. CASE wire # <<>> /\ wire' = Tail(wire)
    <3>1. Len(wire') = Len(wire) - 1 /\ Len(wire) \in Nat
      BY <1>0, <2>2, HeadTailProperties
    <3>2. \A i \in 1 .. Len(wire') : wire'[i] = wire[i + 1]
      BY <1>0, <2>2, HeadTailProperties
    <3>3. \A i \in 1 .. Len(wire') : i + 1 \in 1 .. Len(wire)
      BY <3>1
    <3>. QED  BY <3>2, <3>3
  <2>. QED  BY <2>1, <2>2
<1>4. Types'
  BY <1>0, <1>1, <1>2 DEF Types
<1>5. Draws' /\ OwnChannel' /\ Channeling'
  BY DEF Ordered, Draws, DrewToOpen, DrewToClose, OwnChannel, Channeling, NextChannel
<1>6. Requests'
  <2>1. ASSUME NEW i \in 1 .. Len(wire') PROVE Request(wire[i])'
    <3>1. Request(wire[i + k]) /\ wire'[i] = wire[i + k]
      BY <1>3 DEF Ordered, Requests
    <3>. QED  BY <3>1 DEF Request
  <2>2. ASSUME NEW i \in 1 .. Len(wire'), NEW j \in 1 .. Len(wire'), wire'[i].op = "open",
               wire'[j].op = "open", wire'[i].from = wire'[j].from
        PROVE  i = j
    <3>1. i + k = j + k
      BY <1>3, <2>2 DEF Ordered, Requests
    <3>. QED  BY <3>1
  <2>. QED  BY <2>1, <2>2 DEF Requests
<1>7. Answers'
  <2>1. Answer(frame)'
    BY DEF Ordered, Answers, Answer
  <2>2. ASSUME NEW i \in 1 .. Len(frames') PROVE Answer(frames[i])'
    BY <1>1 DEF Ordered, Answers, Answer
  <2>. QED  BY <2>1, <2>2 DEF Answers
<1>8. \A c \in Conns : CallOf(c)' /\ DrawnBefore(c)' /\ QueueHolds(c)'
  BY DEF Ordered, CallOf, DrawnBefore, QueueHolds
<1>9. \A c \in Conns : Unopened(c)'
  BY <1>3 DEF Ordered, Unopened
<1>10. \A id \in Ids : Registered(id)'
  BY DEF Ordered, Registered
<1>. QED  BY <1>4, <1>5, <1>6, <1>7, <1>8, <1>9, <1>10 DEF Ordered

\* The server opens one more channel, for a connection that has none.
LEMMA Opened ==
  ASSUME Ordered, wire # <<>>, wire' = Tail(wire), NEW w \in Calls, w = Head(wire), w.op = "open",
         UNCHANGED <<receiver, correlation_id, returns, pc, op, drawn, handle, call_queue, frame,
                     sent>>,
         owner' = [owner EXCEPT ![NextChannel] = w.from],
         open' = open \union {NextChannel},
         frames' = Append(frames, Return(w.id, NextChannel, w.from))
  PROVE  Ordered'
<1>. DEFINE f == Return(w.id, NextChannel, w.from)
<1>0. /\ Types /\ wire \in Seq(Calls) /\ frames \in Seq(MessageFrames \union ReplyFrames)
      /\ owner \in [Channels -> Conns \union {Nobody}] /\ Channeling
      /\ Len(wire) \in Nat \ {0} /\ w = wire[1] /\ w.from \in Conns /\ w.id \in Ids
  BY EmptySeq, CallsTyped DEF Ordered, Types
<1>1. Request(w) /\ \A ch \in Channels : owner[ch] # w.from
  <2>1. Request(wire[1])
    BY <1>0 DEF Ordered, Requests
  <2>. QED  BY <1>0, <2>1 DEF Request
<1>2. Channeling' /\ NextChannel \in Channels /\ owner[NextChannel] = Nobody
  BY <1>0, <1>1, ChannelOpened
<1>3. \A ch \in Channels : owner[ch] # Nobody => ch # NextChannel /\ owner'[ch] = owner[ch]
  BY <1>0, <1>2
<1>4. f \in ReplyFrames /\ f.id = w.id /\ f.ch = NextChannel /\ f.to = w.from
  BY <1>0, <1>2 DEF ReplyFrames, Return
<1>5. /\ Len(wire') = Len(wire) - 1 /\ wire' \in Seq(Calls)
      /\ \A i \in 1 .. Len(wire') : wire'[i] = wire[i + 1]
  BY <1>0, HeadTailProperties
<1>6. \A i \in 1 .. Len(wire') : i + 1 \in 2 .. Len(wire) /\ i + 1 \in 1 .. Len(wire)
  BY <1>0, <1>5
<1>7. ASSUME NEW i \in 1 .. Len(wire') PROVE wire'[i].op = "open" => wire'[i].from # w.from
  BY <1>0, <1>5, <1>6 DEF Ordered, Requests
<1>8. Types'
  <2>1. frames' \in Seq(MessageFrames \union ReplyFrames)
    BY <1>0, <1>4
  <2>2. owner' \in [Channels -> Conns \union {Nobody}] /\ open' \subseteq Channels
    BY <1>0, <1>2 DEF Types
  <2>. QED  BY <1>0, <1>5, <2>1, <2>2 DEF Types
<1>9. Draws' /\ OwnChannel'
  <2>1. Draws'
    BY DEF Ordered, Draws, DrewToOpen, DrewToClose
  <2>2. OwnChannel'
    BY <1>0, <1>3, ProxyAssumption DEF Ordered, OwnChannel, Types
  <2>. QED  BY <2>1, <2>2
<1>10. Requests'
  <2>1. ASSUME NEW i \in 1 .. Len(wire') PROVE Request(wire[i])'
    <3>. DEFINE v == wire[i + 1]
    <3>1. v \in Calls /\ Request(v) /\ wire'[i] = v
      BY <1>0, <1>5, <1>6 DEF Ordered, Requests
    <3>2. v.from \in Conns /\ v.ch \in {0} \union Channels /\ v.from # Nobody
      BY <3>1, CallsTyped, ProxyAssumption
    <3>3. v.op = "close" /\ v.ch # 0 => owner'[v.ch] = v.from
      BY <1>3, <3>1, <3>2 DEF Request
    <3>4. v.op = "open" => \A ch \in Channels : owner'[ch] # v.from
      <4>1. v.op = "open" => v.from # w.from
        BY <1>7, <3>1
      <4>2. v.op = "open" => \A ch \in Channels : owner[ch] # v.from
        BY <3>1 DEF Request
      <4>. QED  BY <1>0, <4>1, <4>2
    <3>. QED  BY <3>1, <3>3, <3>4 DEF Request
  <2>2. ASSUME NEW i \in 1 .. Len(wire'), NEW j \in 1 .. Len(wire'), wire'[i].op = "open",
               wire'[j].op = "open", wire'[i].from = wire'[j].from
        PROVE  i = j
    <3>1. i + 1 = j + 1
      BY <1>5, <1>6, <2>2 DEF Ordered, Requests
    <3>. QED  BY <3>1
  <2>. QED  BY <2>1, <2>2 DEF Requests
<1>11. Answers'
  <2>1. ASSUME NEW g \in ReplyFrames, Answer(g) PROVE Answer(g)'
    <3>1. g.to \in Conns /\ g.to # Nobody /\ (g.kind = "return" => g.ch \in Channels)
      BY ProxyAssumption DEF ReplyFrames, Return, Error
    <3>. QED  BY <1>3, <2>1, <3>1 DEF Answer
  <2>2. ASSUME NEW g \in AnyFrame, Answer(g) PROVE Answer(g)'
    <3>1. Reply(g) => g \in ReplyFrames
      BY DEF AnyFrame, NoFrame, MessageFrames, Message, Reply
    <3>. QED  BY <2>1, <2>2, <3>1 DEF Answer
  <2>3. Answer(frame)'
    <3>1. frame \in AnyFrame /\ Answer(frame)
      BY <1>0 DEF Types, Ordered, Answers
    <3>. QED  BY <2>2, <3>1 DEF Answer
  <2>4. f.id < correlation_id' /\ returns'[f.id] \in {Nobody, f.to} /\ owner'[f.ch] = f.to
    BY <1>0, <1>1, <1>2, <1>4 DEF Request
  <2>5. ASSUME NEW i \in 1 .. Len(frames') PROVE Answer(frames[i])'
    <3>1. frames'[i] = f \/ (i \in 1 .. Len(frames) /\ frames'[i] = frames[i])
      BY <1>0, <1>4
    <3>2. CASE frames'[i] = f
      BY <2>4, <3>2 DEF Answer
    <3>3. CASE i \in 1 .. Len(frames) /\ frames'[i] = frames[i]
      <4>1. frames[i] \in AnyFrame /\ Answer(frames[i])
        BY <1>0, <3>3 DEF AnyFrame, Ordered, Answers
      <4>. QED  BY <2>2, <3>3, <4>1 DEF Answer
    <3>. QED  BY <3>1, <3>2, <3>3
  <2>. QED  BY <2>3, <2>5 DEF Answers
<1>12. \A c \in Conns : CallOf(c)' /\ DrawnBefore(c)'
  BY DEF Ordered, CallOf, DrawnBefore
<1>13. ASSUME NEW c \in Conns PROVE QueueHolds(c)'
  BY <1>3, <1>13, ProxyAssumption DEF Ordered, QueueHolds
<1>14. ASSUME NEW c \in Conns PROVE Unopened(c)'
  <2>1. pc[w.from] \in {"check", "await", "failed"}
    BY <1>0, <1>1 DEF Request
  <2>2. CASE c = w.from
    BY <2>1, <2>2 DEF Unopened
  <2>3. CASE c # w.from
    <3>1. \A ch \in Channels : owner[ch] # c => owner'[ch] # c
      BY <1>0, <2>3
    <3>. QED  BY <1>5, <1>6, <3>1 DEF Ordered, Unopened
  <2>. QED  BY <2>2, <2>3
<1>15. \A id \in Ids : Registered(id)'
  BY DEF Ordered, Registered
<1>. QED  BY <1>2, <1>8, <1>9, <1>10, <1>11, <1>12, <1>13, <1>14, <1>15 DEF Ordered

-----------------------------------------------------------------------------
(* The theorems.                                                            *)

\* The invariant is kept by the thread that opens and closes a connection ...
LEMMA OrderedCalls ==
  ASSUME Ordered, AtomicDraw, NEW c \in Conns, BeginOpen(c) \/ BeginClose(c) \/ Calling(c)
  PROVE  Ordered'
<1>. USE DEF around, socket, reader, tables, inbox, server
<1>0. /\ Types /\ CallOf(c)
      /\ pc \in [Conns -> {"new", "draw", "listen", "open", "unlisten", "closed"} \union Waiting]
      /\ op \in [Conns -> {"none", "open", "close"}]
  BY DEF Ordered, Types
<1>1. CASE BeginOpen(c)
  <2>1. PICK place \in {"draw", "failed"} : pc' = [pc EXCEPT ![c] = place]
    BY <1>1 DEF BeginOpen, Goto
  <2>. QED  BY <1>0, <1>1, <2>1, Moves DEF BeginOpen, CallOf, Waiting
<1>2. CASE BeginClose(c)
  <2>1. PICK place \in {"draw", "unlisten"} : pc' = [pc EXCEPT ![c] = place]
    BY <1>2 DEF BeginClose, Goto
  <2>. QED  BY <1>0, <1>2, <2>1, Moves DEF BeginClose, CallOf, Waiting
<1>3. CASE Calling(c)
  <2>1. CASE DrawId(c)
    BY <2>1 DEF DrawId
  <2>2. CASE ExpectReturn(c)
    BY <2>2, Registers
  <2>3. CASE SendCall(c)
    <3>1. CASE connected
      BY <2>3, <3>1, Waits DEF SendCall, Goto
    <3>2. CASE ~connected
      BY <2>3, <3>2, Waits DEF SendCall, Goto, CallEnds
    <3>. QED  BY <3>1, <3>2
  <2>4. CASE CheckAfterSend(c)
    <3>1. CASE connected
      BY <2>4, <3>1, Waits DEF CheckAfterSend, Goto
    <3>2. CASE ~connected
      BY <2>4, <3>2, Waits DEF CheckAfterSend, Goto, CallEnds
    <3>. QED  BY <3>1, <3>2
  <2>5. CASE GetReply(c)
    BY <2>5, TakesReply
  <2>6. CASE Listen(c)
    <3>1. op' = [op EXCEPT ![c] = "open"] /\ pc' = [pc EXCEPT ![c] = "open"]
      BY <1>0, <2>6 DEF Listen, Goto, CallOf
    <3>. QED  BY <1>0, <2>6, <3>1, Moves DEF Listen, CallOf, Waiting
  <2>7. CASE Unlisten(c)
    <3>1. op[c] \in {"open", "close"} /\ pc' = [pc EXCEPT ![c] = "closed"]
      BY <1>0, <2>7 DEF Unlisten, Goto, CallOf
    <3>2. op' = [op EXCEPT ![c] = op[c]]
      BY <1>0, <2>7 DEF Unlisten
    <3>. QED  BY <1>0, <2>7, <3>1, <3>2, Moves DEF Unlisten, CallOf, Waiting
  <2>. QED  BY <1>3, <2>1, <2>2, <2>3, <2>4, <2>5, <2>6, <2>7 DEF Calling
<1>. QED  BY <1>1, <1>2, <1>3

\* ... by the receiver thread ...
LEMMA OrderedReceiver ==
  ASSUME Ordered, Noted, Receiver \/ ReceiveRaises
  PROVE  Ordered'
<1>. USE DEF socket, reader, tables, calls, inbox, server, users
<1>0. /\ Answer(frame) /\ frame \in AnyFrame /\ frames \in Seq(MessageFrames \union ReplyFrames)
      /\ \A i \in 1 .. Len(frames) : Answer(frames[i])
  BY DEF Ordered, Types, Answers
<1>1. CASE ReceiveFrame
  <2>1. Head(frames) \in AnyFrame /\ Answer(Head(frames))
    <3>1. Len(frames) \in Nat \ {0} /\ Head(frames) = frames[1]
      BY <1>0, <1>1, EmptySeq DEF ReceiveFrame
    <3>. QED  BY <1>0, <3>1 DEF AnyFrame
  <2>. QED  BY <1>1, <2>1, Dispatched DEF ReceiveFrame
<1>2. CASE ReceiveRaises
  <2>1. CASE receiver' = "running"
    BY <1>0, <1>2, <2>1, Dispatched DEF ReceiveRaises
  <2>2. CASE receiver' # "running"
    BY <1>2, <2>2, Aside DEF ReceiveRaises
  <2>. QED  BY <2>1, <2>2
<1>3. CASE ReceiveDisconnected
  BY <1>3, Aside DEF ReceiveDisconnected
<1>4. CASE NotifyReturns
  BY <1>4, Notifies
<1>5. CASE NotifyHandlers
  BY <1>5, Aside DEF NotifyHandlers, ChangedUnderWay
<1>6. CASE ReceiverStops
  BY <1>6, Aside DEF ReceiverStops
<1>. QED  BY <1>1, <1>2, <1>3, <1>4, <1>5, <1>6 DEF Receiver

\* ... and by destroy(), the server and the network.
LEMMA OrderedServer ==
  ASSUME Ordered, DestroyMarks \/ DestroyCloses \/ Serve \/ ServeMessage \/ DropLink
  PROVE  Ordered'
<1>. USE DEF socket, reader, tables, calls, inbox, server, users
<1>0. /\ Types /\ frames \in Seq(MessageFrames \union ReplyFrames) /\ wire \in Seq(Calls)
      /\ open \subseteq Channels /\ sent \in [Channels -> 0 .. MaxMessages]
  BY DEF Ordered, Types
<1>. DEFINE w == Head(wire)
<1>1. ASSUME wire # <<>>
      PROVE  w \in Calls /\ Request(w) /\ w.id \in Ids /\ w.from \in Conns
  <2>1. Len(wire) \in Nat \ {0} /\ w = wire[1] /\ w \in Calls
    BY <1>0, <1>1, EmptySeq
  <2>. QED  BY <2>1, CallsTyped DEF Ordered, Requests
<1>2. ASSUME wire # <<>> PROVE Error(w.id, w.from) \in ReplyFrames /\ Answer(Error(w.id, w.from))
  BY <1>1, <1>2 DEF ReplyFrames, Error, Answer, Request
<1>3. CASE DestroyMarks
  BY <1>3, Aside DEF DestroyMarks
<1>4. CASE DestroyCloses
  <2>1. 0 \in 0 .. Len(frames) /\ frames' = SubSeq(frames, 1, 0)
    BY <1>0, <1>4, SubSeqEmpty DEF DestroyCloses
  <2>. QED  BY <1>4, <2>1, Loses DEF DestroyCloses
<1>5. CASE ServeOpen
  <2>1. CASE frames' = Append(frames, Error(w.id, w.from)) /\ UNCHANGED <<owner, open>>
    BY <1>0, <1>2, <1>5, <2>1, Answered DEF ServeOpen
  <2>2. CASE /\ owner' = [owner EXCEPT ![NextChannel] = w.from]
             /\ open' = open \union {NextChannel}
             /\ frames' = Append(frames, Return(w.id, NextChannel, w.from))
    BY <1>1, <1>5, <2>2, Opened DEF ServeOpen
  <2>. QED  BY <1>5, <2>1, <2>2 DEF ServeOpen
<1>6. CASE ServeClose
  <2>1. CASE frames' = Append(frames, Error(w.id, w.from)) /\ UNCHANGED open
    BY <1>0, <1>2, <1>6, <2>1, Answered DEF ServeClose
  <2>2. CASE /\ w.ch \in open /\ open' = open \ {w.ch}
             /\ frames' = Append(frames, Return(w.id, w.ch, w.from))
    <3>1. w.ch \in Channels /\ w.ch # 0
      <4>1. w.ch \in Channels
        BY <1>0, <2>2
      <4>2. \A ch \in Channels : ch # 0
        BY ConnsFinite DEF Channels
      <4>. QED  BY <4>1, <4>2
    <3>2. Return(w.id, w.ch, w.from) \in ReplyFrames /\ Answer(Return(w.id, w.ch, w.from))
      BY <1>1, <1>6, <3>1 DEF ServeClose, ReplyFrames, Return, Answer, Request
    <3>. QED  BY <1>0, <1>6, <2>2, <3>2, Answered DEF ServeClose
  <2>. QED  BY <1>6, <2>1, <2>2 DEF ServeClose
<1>7. CASE ServeMessage
  <2>1. PICK ch \in open : /\ sent[ch] < MaxMessages /\ sent' = [sent EXCEPT ![ch] = @ + 1]
                           /\ frames' = Append(frames, Message(ch, sent[ch] + 1))
    BY <1>7 DEF ServeMessage
  <2>2. ch \in Channels /\ sent[ch] + 1 \in 1 .. MaxMessages
    BY <1>0, <2>1, ProxyAssumption
  <2>3. sent' \in [Channels -> 0 .. MaxMessages]
    BY <1>0, <2>1, <2>2
  <2>4. Message(ch, sent[ch] + 1) \in MessageFrames /\ Answer(Message(ch, sent[ch] + 1))
    BY <2>2 DEF MessageFrames, Message, Answer, Reply
  <2>. QED  BY <1>0, <1>7, <2>1, <2>3, <2>4, Answered DEF ServeMessage
<1>8. CASE DropLink
  BY <1>8, Loses DEF DropLink
<1>. QED  BY <1>3, <1>4, <1>5, <1>6, <1>7, <1>8 DEF Serve

\* The receiver only ever tells of the end those whose ids it found waited for.
LEMMA NotedStep == Noted /\ [Next]_vars => Noted'
<1>. SUFFICES ASSUME Noted, [Next]_vars PROVE Noted'
  OBVIOUS
<1>. USE DEF Noted, around, outside, users, socket, reader, tables, calls, inbox, server
<1>1. CASE UNCHANGED vars
  BY <1>1 DEF vars
<1>2. ASSUME NEW c \in Conns, BeginOpen(c) \/ BeginClose(c) \/ Calling(c) PROVE Noted'
  BY <1>2 DEF BeginOpen, BeginClose, Calling, DrawId, ExpectReturn, SendCall, CheckAfterSend,
              GetReply, Listen, Unlisten
<1>3. ASSUME NEW c \in Conns, Receiving(c) PROVE Noted'
  BY <1>3 DEF Receiving, Receive, IsReadyToReceive, ReadyOrNot
<1>4. CASE Receiver \/ ReceiveRaises
  <2>1. CASE ReceiveFrame \/ ReceiveRaises \/ NotifyHandlers \/ ReceiverStops
    BY <2>1 DEF ReceiveFrame, ReceiveRaises, NotifyHandlers, ReceiverStops, ChangedUnderWay
  <2>2. CASE ReceiveDisconnected
    BY <2>2 DEF ReceiveDisconnected, GoThrough, Awaited
  <2>3. CASE NotifyReturns
    BY <2>3 DEF NotifyReturns, ChangedUnderWay
  <2>. QED  BY <1>4, <2>1, <2>2, <2>3 DEF Receiver
<1>5. CASE DestroyMarks \/ DestroyCloses \/ Serve \/ ServeMessage \/ DropLink
  BY <1>5 DEF DestroyMarks, DestroyCloses, Serve, ServeOpen, ServeClose, ServeMessage, DropLink
<1>. QED  BY <1>1, <1>2, <1>3, <1>4, <1>5 DEF Next

\* Every step keeps the invariant.
LEMMA OrderedStep ==
  ASSUME Ordered, Noted, AtomicDraw, [Next]_vars
  PROVE  Ordered'
<1>1. CASE UNCHANGED vars
  BY <1>1, Aside DEF vars, reader, tables, calls, server
<1>2. CASE \E c \in Conns : BeginOpen(c) \/ BeginClose(c) \/ Calling(c)
  BY <1>2, OrderedCalls
<1>3. CASE \E c \in Conns : Receiving(c)
  BY <1>3, Aside DEF Receiving, Receive, IsReadyToReceive, ReadyOrNot, outside, reader, tables,
                    calls, server
<1>4. CASE Receiver \/ ReceiveRaises
  BY <1>4, OrderedReceiver
<1>5. CASE DestroyMarks \/ DestroyCloses \/ Serve \/ ServeMessage \/ DropLink
  BY <1>5, OrderedServer
<1>. QED  BY <1>1, <1>2, <1>3, <1>4, <1>5 DEF Next

\* So it always holds.
LEMMA AlwaysOrdered == ASSUME AtomicDraw PROVE Spec => [](Ordered /\ Noted)
<1>1. Init => Ordered /\ Noted
  BY InitOrdered DEF Init, Noted
<1>2. (Ordered /\ Noted) /\ [Next]_vars => (Ordered /\ Noted)'
  BY OrderedStep, NotedStep
<1>. QED  BY <1>1, <1>2, PTL DEF Spec

\* Where expect_return is not split by a thread switch, the listener of a call
\* gets the return of that call, however many connections call at once.
THEOREM OwnReturn == ASSUME AtomicDraw PROVE Spec => []OwnChannel
<1>1. Ordered => OwnChannel
  BY DEF Ordered
<1>. QED  BY <1>1, AlwaysOrdered, PTL

\* Where expect_return is not split, the receiver thread never blocks on the queue of
\* replies of a connection while it reads the websocket.
THEOREM ReceiverHasRoom == ASSUME AtomicDraw PROVE Spec => []QueueHasRoom
  BY AlwaysOrdered, OrderedHasRoom, PTL

-----------------------------------------------------------------------------
(* The order of messages: the invariant.                                    *)

\* Where a connection may be, whether drawing an id is split or not.
Places == {"new", "draw", "register", "send", "check", "await", "listen", "open", "unlisten",
           "closed", "failed"}
\* Replies, and requests, with whatever id a call has read.
Returns == {Return(id, ch, to) : id \in Nat, ch \in Channels, to \in Conns}
           \union {Error(id, to) : id \in Nat, to \in Conns}
Asking == [op : {"none", "open", "close"}, id : Nat, ch : {0} \union Channels, from : Conns]

Typed ==
  /\ correlation_id \in Nat
  /\ handlers \in [Channels -> Conns \union {Nobody}]
  /\ pc \in [Conns -> Places]
  /\ op \in [Conns -> {"none", "open", "close"}]
  /\ drawn \in [Conns -> Nat]
  /\ handle \in [Conns -> {0} \union Channels]
  /\ call_queue \in [Conns -> Seq(Returns \union {Null})]
  /\ msgs \in [Conns -> Seq(MessageFrames \union {Null})]
  /\ current \in [Conns -> MessageFrames \union {NoFrame}]
  /\ peeking \in [Conns -> BOOLEAN]
  /\ received \in [Conns -> Seq(MessageFrames)]
  /\ wire \in Seq(Asking)
  /\ frames \in Seq(MessageFrames \union Returns)
  /\ owner \in [Channels -> Conns \union {Nobody}]
  /\ open \subseteq Channels
  /\ sent \in [Channels -> 0 .. MaxMessages]

\* The server opens at most one channel for a connection: it has been asked for none
\* before the request goes out, and while the request is under way it has opened none.
Unserved(c) == \A ch \in Channels : owner[ch] # c
Fresh(c) == pc[c] = "new" \/ (pc[c] \in {"draw", "register", "send"} /\ op[c] = "open")
Opens(w) == w.op = "open"
AskedOnce ==
  /\ \A c \in Conns : Fresh(c) =>
       Unserved(c) /\ \A i \in 1 .. Len(wire) : Opens(wire[i]) => wire[i].from # c
  /\ \A i \in 1 .. Len(wire) : Opens(wire[i]) => Unserved(wire[i].from)
  /\ \A i, j \in 1 .. Len(wire) :
       Opens(wire[i]) /\ Opens(wire[j]) /\ wire[i].from = wire[j].from => i = j

\* A connection has its channel once its call to open has come back, and a handler for
\* no other.
Placed(c) ==
  /\ pc[c] = "new" => op[c] = "none"
  /\ pc[c] \in {"listen", "open"} => op[c] = "open"
  /\ handle[c] # 0 => op[c] = "close" \/ pc[c] \in {"listen", "open"}
  /\ \A ch \in Channels : handlers[ch] = c =>
       handle[c] = ch /\ (op[c] = "close" \/ pc[c] = "open")
  /\ peeking[c] => current[c] = NoFrame

\* The messages of a channel under way from the server are numbered from d on, without
\* a gap, up to the last one sent if the link is up.
Of(f, ch) == f.kind = "msg" /\ f.ch = ch
Flow(ch, d) ==
  /\ \A i \in 1 .. Len(frames) : Of(frames[i], ch) =>
       /\ frames[i].n >= d
       /\ frames[i].n # d => \E j \in 1 .. i - 1 : frames[j] = Message(ch, frames[i].n - 1)
  /\ \A i, j \in 1 .. Len(frames) :
       i < j /\ Of(frames[i], ch) /\ Of(frames[j], ch) => frames[i].n < frames[j].n
  /\ link = "up" =>
       /\ \A i \in 1 .. Len(frames) : Of(frames[i], ch) => frames[i].n <= sent[ch]
       /\ d # sent[ch] + 1 => \E i \in 1 .. Len(frames) : frames[i] = Message(ch, sent[ch])
Flows == \A ch \in Channels : \E d \in 1 .. MaxMessages + 1 : Flow(ch, d)

\* What a connection has received, what is_ready_to_receive holds, what its queue holds
\* and what is under way follow each other, from the first message after number b.
Held(c) == IF current[c] = NoFrame THEN 0 ELSE 1
Got(c) == Len(received[c]) + Held(c) + Len(msgs[c])
Line(c, b) ==
  /\ \A i \in 1 .. Len(received[c]) : received[c][i] = Message(handle[c], b + i)
  /\ current[c] # NoFrame => current[c] = Message(handle[c], b + Len(received[c]) + 1)
  /\ \A i \in 1 .. Len(msgs[c]) : msgs[c][i] # Null =>
       msgs[c][i] = Message(handle[c], b + Len(received[c]) + Held(c) + i)
Follows(c, b) ==
  receiver = "running" =>
    \A ch \in Channels : handlers[ch] = c =>
      \E d \in 1 .. MaxMessages + 1 : d = b + Got(c) + 1 /\ Flow(ch, d)
InLine(c) == \E b \in 0 .. MaxMessages : Line(c, b) /\ Follows(c, b)

\* Before it listens a connection is given no message, and word of the end comes last.
Silent(c) ==
  handle[c] = 0 \/ pc[c] = "listen" =>
    /\ received[c] = <<>> /\ current[c] = NoFrame
    /\ \A i \in 1 .. Len(msgs[c]) : msgs[c][i] = Null
EndsLast(c) ==
  \A i \in 1 .. Len(msgs[c]) : msgs[c][i] = Null =>
    /\ receiver # "running"
    /\ \A j \in i .. Len(msgs[c]) : msgs[c][j] = Null

\* The server's part, and the whole.
Served == Typed /\ Channeling /\ AskedOnce
InOrder ==
  /\ Served /\ Flows
  /\ \A c \in Conns : Placed(c) /\ Silent(c) /\ EndsLast(c) /\ InLine(c)

-----------------------------------------------------------------------------
(* The order of messages: what the server opens.                            *)

\* A sequence without its first element, and the first part of a sequence.
LEMMA Rest ==
  ASSUME NEW S, NEW s \in Seq(S), s # <<>>
  PROVE  /\ Head(s) = s[1] /\ s[1] \in S /\ Tail(s) \in Seq(S)
         /\ Len(s) \in Nat \ {0} /\ Len(Tail(s)) = Len(s) - 1
         /\ \A i \in 1 .. Len(Tail(s)) : i + 1 \in 1 .. Len(s) /\ Tail(s)[i] = s[i + 1]
<1>1. Len(s) \in Nat \ {0} /\ Head(s) = s[1] /\ s[1] \in S
  BY EmptySeq
<1>2. /\ Tail(s) \in Seq(S) /\ Len(Tail(s)) = Len(s) - 1
      /\ \A i \in 1 .. Len(Tail(s)) : Tail(s)[i] = s[i + 1]
  BY HeadTailProperties
<1>3. \A i \in 1 .. Len(Tail(s)) : i + 1 \in 1 .. Len(s)
  BY <1>1, <1>2
<1>. QED  BY <1>1, <1>2, <1>3
LEMMA FirstPart ==
  ASSUME NEW S, NEW s \in Seq(S), NEW n \in 0 .. Len(s)
  PROVE  /\ SubSeq(s, 1, n) \in Seq(S) /\ Len(SubSeq(s, 1, n)) = n
         /\ \A i \in 1 .. n : i \in 1 .. Len(s) /\ SubSeq(s, 1, n)[i] = s[i]
<1>1. n \in Nat /\ n - 1 + 1 = n /\ \A i \in 1 .. n : i \in 1 .. Len(s) /\ s[i] \in S
  OBVIOUS
<1>2. /\ SubSeq(s, 1, n) \in Seq(S)
      /\ Len(SubSeq(s, 1, n)) = IF 1 <= n THEN n - 1 + 1 ELSE 0
      /\ \A i \in 1 .. n - 1 + 1 : SubSeq(s, 1, n)[i] = s[1 + i - 1]
  BY <1>1, SubSeqProperties
<1>3. ASSUME NEW i \in 1 .. n PROVE SubSeq(s, 1, n)[i] = s[i]
  <2>1. i \in 1 .. n - 1 + 1 /\ 1 + i - 1 = i
    BY <1>1
  <2>. QED  BY <1>2, <2>1
<1>. QED  BY <1>1, <1>2, <1>3

\* A step that opens nothing and asks for nothing.
LEMMA ServedStill ==
  ASSUME AskedOnce, Channeling, wire \in Seq(Asking), UNCHANGED owner,
         \A c \in Conns : Fresh(c)' => Fresh(c),
         wire' = wire \/ wire' = <<>> \/ (wire # <<>> /\ wire' = Tail(wire))
  PROVE  AskedOnce' /\ Channeling'
<1>1. Channeling'
  BY DEF Channeling, NextChannel
<1>2. PICK k \in {0, 1} :
        \A i \in 1 .. Len(wire') : i + k \in 1 .. Len(wire) /\ wire'[i] = wire[i + k]
  <2>1. CASE wire' = wire
    BY <2>1
  <2>2. CASE wire' = <<>>
    BY <2>2
  <2>3. CASE wire # <<>> /\ wire' = Tail(wire)
    BY <2>3, Rest
  <2>. QED  BY <2>1, <2>2, <2>3
<1>3. \A c \in Conns : Fresh(c)' =>
        Unserved(c)' /\ \A i \in 1 .. Len(wire') : Opens(wire'[i]) => wire'[i].from # c
  BY <1>2 DEF AskedOnce, Unserved
<1>4. \A i \in 1 .. Len(wire') : Opens(wire'[i]) => Unserved(wire[i].from)'
  BY <1>2 DEF AskedOnce, Unserved
<1>5. ASSUME NEW i \in 1 .. Len(wire'), NEW j \in 1 .. Len(wire'), Opens(wire'[i]),
             Opens(wire'[j]), wire'[i].from = wire'[j].from
      PROVE  i = j
  <2>1. i + k = j + k
    BY <1>2, <1>5 DEF AskedOnce
  <2>. QED  BY <2>1
<1>. QED  BY <1>1, <1>3, <1>4, <1>5 DEF AskedOnce, Opens

\* A request goes out.
LEMMA ServedSend ==
  ASSUME Served, NEW c \in Conns, SendCall(c)
  PROVE  Served'
<1>. DEFINE w == [op |-> op[c], id |-> drawn[c], ch |-> handle[c], from |-> c]
<1>0. Typed /\ wire \in Seq(Asking) /\ w \in Asking /\ pc \in [Conns -> Places]
  BY DEF Served, Typed, Asking
<1>1. Typed'
  <2>1. wire' \in Seq(Asking)
    BY <1>0 DEF SendCall
  <2>2. pc' \in [Conns -> Places]
    BY <1>0 DEF SendCall, CallEnds, Goto, Places
  <2>. QED  BY <1>0, <2>1, <2>2 DEF SendCall, Typed, around, tables, inbox, server
<1>2. \A d \in Conns : Fresh(d)' => Fresh(d) /\ d # c
  BY <1>0 DEF SendCall, CallEnds, Goto, Fresh
<1>3. UNCHANGED owner
  BY DEF SendCall, around, server
<1>4. CASE wire' = wire
  BY <1>0, <1>1, <1>2, <1>3, <1>4, ServedStill DEF Served
<1>5. CASE wire' = Append(wire, w)
  <2>1. /\ Len(wire') = Len(wire) + 1 /\ Len(wire) \in Nat /\ wire'[Len(wire) + 1] = w
        /\ \A i \in 1 .. Len(wire) : wire'[i] = wire[i]
    BY <1>0, <1>5
  <2>. DEFINE n == Len(wire) + 1
  <2>2. \A i \in 1 .. Len(wire') : i = n \/ i \in 1 .. Len(wire)
    BY <2>1
  <2>3. Opens(w) => Fresh(c)
    BY <1>0 DEF Opens, SendCall, Fresh
  <2>4. Opens(w) => Unserved(c) /\ \A i \in 1 .. Len(wire) : Opens(wire[i]) => wire[i].from # c
    BY <2>3 DEF Served, AskedOnce
  <2>5. \A d \in Conns : Fresh(d)' =>
          Unserved(d)' /\ \A i \in 1 .. Len(wire') : Opens(wire'[i]) => wire'[i].from # d
    BY <1>2, <1>3, <2>1, <2>2 DEF Served, AskedOnce, Unserved
  <2>6. ASSUME NEW i \in 1 .. Len(wire'), Opens(wire'[i]) PROVE Unserved(wire[i].from)'
    <3>1. CASE i = n
      BY <1>3, <2>1, <2>4, <2>6, <3>1 DEF Unserved
    <3>2. CASE i \in 1 .. Len(wire)
      BY <1>3, <2>1, <2>6, <3>2 DEF Served, AskedOnce, Unserved
    <3>. QED  BY <2>2, <3>1, <3>2
  <2>7. ASSUME NEW i \in 1 .. Len(wire'), NEW j \in 1 .. Len(wire'), Opens(wire'[i]),
               Opens(wire'[j]), wire'[i].from = wire'[j].from
        PROVE  i = j
    <3>1. CASE i = n /\ j = n
      BY <3>1
    <3>2. CASE i = n /\ j \in 1 .. Len(wire)
      BY <2>1, <2>4, <2>7, <3>2
    <3>3. CASE j = n /\ i \in 1 .. Len(wire)
      BY <2>1, <2>4, <2>7, <3>3
    <3>4. CASE i \in 1 .. Len(wire) /\ j \in 1 .. Len(wire)
      BY <2>1, <2>7, <3>4 DEF Served, AskedOnce
    <3>. QED  BY <2>2, <3>1, <3>2, <3>3, <3>4
  <2>8. Channeling'
    BY <1>3 DEF Served, Channeling, NextChannel
  <2>. QED  BY <1>1, <2>5, <2>6, <2>7, <2>8 DEF Served, AskedOnce, Opens
<1>. QED  BY <1>4, <1>5 DEF SendCall

\* The server opens a channel, for a connection that has none, or refuses to.
LEMMA ServedOpen ==
  ASSUME Served, ServeOpen
  PROVE  Served'
<1>. USE DEF users, tables, calls, inbox, socket, reader
<1>. DEFINE w == Head(wire)
<1>0. /\ Typed /\ wire \in Seq(Asking) /\ frames \in Seq(MessageFrames \union Returns)
      /\ owner \in [Channels -> Conns \union {Nobody}] /\ open \subseteq Channels
  BY DEF Served, Typed
<1>1. /\ w = wire[1] /\ w \in Asking /\ wire' \in Seq(Asking) /\ Len(wire) \in Nat \ {0}
      /\ Len(wire') = Len(wire) - 1
      /\ \A i \in 1 .. Len(wire') : i + 1 \in 1 .. Len(wire) /\ wire'[i] = wire[i + 1]
  BY <1>0, Rest DEF ServeOpen
<1>2. w.id \in Nat /\ w.from \in Conns /\ Opens(w)
  BY <1>1 DEF Asking, ServeOpen, Opens
<1>3. Unserved(w.from)
  BY <1>1, <1>2 DEF Served, AskedOnce
<1>4. \A c \in Conns : Fresh(c)' = Fresh(c)
  BY DEF ServeOpen, Fresh
<1>5. CASE owner' = owner /\ open' = open /\ frames' = Append(frames, Error(w.id, w.from))
  <2>1. Error(w.id, w.from) \in Returns
    BY <1>2 DEF Returns
  <2>2. frames' \in Seq(MessageFrames \union Returns)
    BY <1>0, <1>5, <2>1
  <2>3. Typed'
    BY <1>0, <1>1, <1>5, <2>2 DEF ServeOpen, Typed
  <2>. QED  BY <1>0, <1>4, <1>5, <2>3, ServedStill DEF ServeOpen, Served
<1>6. CASE /\ owner' = [owner EXCEPT ![NextChannel] = w.from]
           /\ open' = open \union {NextChannel}
           /\ frames' = Append(frames, Return(w.id, NextChannel, w.from))
  <2>1. Channeling' /\ NextChannel \in Channels /\ owner[NextChannel] = Nobody
    BY <1>0, <1>2, <1>3, <1>6, ChannelOpened DEF Served, Unserved
  <2>2. Return(w.id, NextChannel, w.from) \in Returns
    BY <1>2, <2>1 DEF Returns
  <2>3. frames' \in Seq(MessageFrames \union Returns)
    BY <1>0, <1>6, <2>2
  <2>4. Typed'
    BY <1>0, <1>1, <1>2, <1>6, <2>1, <2>3 DEF ServeOpen, Typed
  <2>5. ASSUME NEW c \in Conns, c # w.from, Unserved(c) PROVE Unserved(c)'
    BY <1>0, <1>6, <2>5 DEF Unserved
  <2>6. ~Fresh(w.from)
    BY <1>1, <1>2 DEF Served, AskedOnce
  <2>7. ASSUME NEW c \in Conns, Fresh(c)'
        PROVE  Unserved(c)' /\ \A i \in 1 .. Len(wire') : Opens(wire'[i]) => wire'[i].from # c
    <3>1. Fresh(c) /\ c # w.from
      BY <1>4, <2>6, <2>7
    <3>. QED  BY <1>1, <2>5, <3>1 DEF Served, AskedOnce
  <2>8. ASSUME NEW i \in 1 .. Len(wire'), Opens(wire'[i]) PROVE Unserved(wire[i].from)'
    <3>1. i + 1 \in 1 .. Len(wire) /\ wire'[i] = wire[i + 1] /\ i + 1 # 1 /\ 1 \in 1 .. Len(wire)
      BY <1>1
    <3>2. wire'[i].from \in Conns
      <4>1. wire'[i] \in Asking
        BY <1>1
      <4>. QED  BY <4>1 DEF Asking
    <3>3. wire'[i].from # w.from /\ Unserved(wire[i + 1].from)
      BY <1>1, <1>2, <2>8, <3>1 DEF Served, AskedOnce
    <3>. QED  BY <2>5, <3>1, <3>2, <3>3 DEF Unserved
  <2>9. ASSUME NEW i \in 1 .. Len(wire'), NEW j \in 1 .. Len(wire'), Opens(wire'[i]),
               Opens(wire'[j]), wire'[i].from = wire'[j].from
        PROVE  i = j
    <3>1. i + 1 = j + 1
      BY <1>1, <2>9 DEF Served, AskedOnce
    <3>. QED  BY <3>1
  <2>. QED  BY <2>1, <2>4, <2>7, <2>8, <2>9 DEF Served, AskedOnce, Opens
<1>. QED  BY <1>5, <1>6 DEF ServeOpen

\* The types of the calls of a connection,
LEMMA TypedCalls ==
  ASSUME Typed, NEW c \in Conns,
         \/ BeginOpen(c) \/ BeginClose(c) \/ DrawId(c) \/ ExpectReturn(c) \/ CheckAfterSend(c)
         \/ GetReply(c) \/ Listen(c) \/ Unlisten(c)
  PROVE  Typed' /\ wire' = wire /\ owner' = owner
<1>. USE DEF around, socket, reader, tables, inbox, server, Goto
<1>0. /\ pc \in [Conns -> Places] /\ op \in [Conns -> {"none", "open", "close"}]
      /\ handlers \in [Channels -> Conns \union {Nobody}] /\ drawn \in [Conns -> Nat]
      /\ correlation_id \in Nat /\ handle \in [Conns -> {0} \union Channels]
      /\ call_queue \in [Conns -> Seq(Returns \union {Null})]
  BY DEF Typed
<1>1. CASE BeginOpen(c) \/ BeginClose(c)
  <2>1. pc' \in [Conns -> Places] /\ op' \in [Conns -> {"none", "open", "close"}]
    BY <1>0, <1>1 DEF BeginOpen, BeginClose, Places
  <2>. QED  BY <1>1, <2>1 DEF BeginOpen, BeginClose, Typed
<1>2. CASE DrawId(c) \/ ExpectReturn(c)
  <2>1. pc' \in [Conns -> Places]
    BY <1>0, <1>2 DEF DrawId, ExpectReturn, Places
  <2>2. drawn' = drawn \/ drawn' = [drawn EXCEPT ![c] = correlation_id]
    BY <1>2 DEF DrawId, ExpectReturn
  <2>3. drawn' \in [Conns -> Nat]
    BY <1>0, <2>2
  <2>4. correlation_id' \in Nat
    BY <1>0, <1>2 DEF DrawId, ExpectReturn
  <2>. QED  BY <1>2, <2>1, <2>3, <2>4 DEF DrawId, ExpectReturn, Typed
<1>3. CASE CheckAfterSend(c)
  <2>1. pc' \in [Conns -> Places]
    BY <1>0, <1>3 DEF CheckAfterSend, CallEnds, Places
  <2>. QED  BY <1>3, <2>1 DEF CheckAfterSend, Typed
<1>4. CASE GetReply(c)
  <2>. DEFINE reply == Head(call_queue[c])
  <2>1. call_queue[c] \in Seq(Returns \union {Null}) /\ call_queue[c] # <<>>
    BY <1>0, <1>4 DEF GetReply
  <2>2. /\ reply \in Returns \union {Null}
        /\ call_queue' \in [Conns -> Seq(Returns \union {Null})]
    BY <1>0, <1>4, <2>1, Rest DEF GetReply
  <2>3. reply.kind = "return" => reply.ch \in Channels
    BY <2>2 DEF Returns, Return, Error, Null
  <2>4. pc' \in [Conns -> Places]
    BY <1>0, <1>4 DEF GetReply, CallEnds, Places
  <2>5. handle' \in [Conns -> {0} \union Channels]
    BY <1>0, <1>4, <2>3 DEF GetReply
  <2>. QED  BY <1>4, <2>2, <2>4, <2>5 DEF GetReply, Typed
<1>5. CASE Listen(c) \/ Unlisten(c)
  <2>1. pc' \in [Conns -> Places]
    BY <1>0, <1>5 DEF Listen, Unlisten, Places
  <2>2. handlers' \in [Channels -> Conns \union {Nobody}]
    BY <1>0, <1>5 DEF Listen, Unlisten
  <2>. QED  BY <1>5, <2>1, <2>2 DEF Listen, Unlisten, Typed
<1>. QED  BY <1>1, <1>2, <1>3, <1>4, <1>5

\* ... of its receiving,
LEMMA TypedReceiving ==
  ASSUME Typed, NEW c \in Conns, Receiving(c)
  PROVE  Typed'
<1>. USE DEF outside, socket, reader, tables, calls, server
<1>0. /\ msgs \in [Conns -> Seq(MessageFrames \union {Null})]
      /\ current \in [Conns -> MessageFrames \union {NoFrame}]
      /\ received \in [Conns -> Seq(MessageFrames)]
  BY DEF Typed
<1>1. msgs[c] # <<>> =>
        /\ Head(msgs[c]) \in MessageFrames \union {Null}
        /\ Tail(msgs[c]) \in Seq(MessageFrames \union {Null})
  BY <1>0, Rest
<1>2. CASE Receive(c)
  <2>1. msgs' \in [Conns -> Seq(MessageFrames \union {Null})]
    BY <1>0, <1>1, <1>2 DEF Receive, Take
  <2>2. current' \in [Conns -> MessageFrames \union {NoFrame}]
    BY <1>0, <1>2 DEF Receive
  <2>3. received' \in [Conns -> Seq(MessageFrames)]
    <3>1. ASSUME NEW m \in MessageFrames, Deliver(c, m)
          PROVE  received' \in [Conns -> Seq(MessageFrames)]
      <4>1. Append(received[c], m) \in Seq(MessageFrames)
        BY <1>0
      <4>. QED  BY <1>0, <3>1, <4>1 DEF Deliver
    <3>. QED  BY <1>0, <1>1, <1>2, <3>1 DEF Receive
  <2>. QED  BY <1>2, <2>1, <2>2, <2>3 DEF Receive, Typed
<1>3. CASE IsReadyToReceive(c)
  BY <1>3 DEF IsReadyToReceive, Typed
<1>4. CASE ReadyOrNot(c)
  <2>1. /\ msgs' \in [Conns -> Seq(MessageFrames \union {Null})]
        /\ current' \in [Conns -> MessageFrames \union {NoFrame}]
    BY <1>0, <1>1, <1>4 DEF ReadyOrNot, Take
  <2>. QED  BY <1>4, <2>1 DEF ReadyOrNot, Typed
<1>. QED  BY <1>2, <1>3, <1>4 DEF Receiving

\* ... of the receiver thread,
LEMMA TypedReceiver ==
  ASSUME Typed, Receiver
  PROVE  Typed' /\ wire' = wire /\ owner' = owner
<1>. USE DEF socket, tables, calls, inbox, server, users
<1>0. /\ frames \in Seq(MessageFrames \union Returns)
      /\ msgs \in [Conns -> Seq(MessageFrames \union {Null})]
      /\ call_queue \in [Conns -> Seq(Returns \union {Null})]
  BY DEF Typed
<1>1. CASE ReceiveFrame
  <2>. DEFINE f == Head(frames)
  <2>1. f \in MessageFrames \union Returns /\ frames' \in Seq(MessageFrames \union Returns)
    BY <1>0, <1>1, Rest DEF ReceiveFrame
  <2>2. CASE DispatchReturn(f)
    <3>1. f \in Returns
      BY <2>1, <2>2 DEF DispatchReturn, MessageFrames, Message
    <3>2. call_queue' \in [Conns -> Seq(Returns \union {Null})]
      <4>1. <<f>> \in Seq(Returns \union {Null})
        BY <3>1
      <4>. HIDE DEF f
      <4>. QED  BY <1>0, <2>2, <4>1 DEF DispatchReturn
    <3>. QED  BY <1>1, <2>1, <2>2, <3>2 DEF ReceiveFrame, DispatchReturn, Typed
  <2>3. CASE DispatchMessage(f)
    <3>1. f \in MessageFrames
      BY <2>1, <2>3 DEF DispatchMessage, Returns, Return, Error
    <3>2. msgs' \in [Conns -> Seq(MessageFrames \union {Null})]
      <4>1. CASE handlers[f.ch] \in Conns
        <5>1. Append(msgs[handlers[f.ch]], f) \in Seq(MessageFrames \union {Null})
          BY <1>0, <3>1, <4>1
        <5>. QED  BY <1>0, <2>3, <5>1 DEF DispatchMessage
      <4>2. CASE handlers[f.ch] \notin Conns
        BY <1>0, <2>3, <4>2 DEF DispatchMessage
      <4>. QED  BY <4>1, <4>2
    <3>. QED  BY <1>1, <2>1, <2>3, <3>2 DEF ReceiveFrame, DispatchMessage, Typed
  <2>. QED  BY <1>1, <2>2, <2>3 DEF ReceiveFrame, Dispatch
<1>2. CASE ReceiveDisconnected \/ ReceiverStops
  BY <1>2 DEF ReceiveDisconnected, ReceiverStops, Typed
<1>3. CASE NotifyReturns
  <2>1. call_queue' \in [Conns -> Seq(Returns \union {Null})]
    <3>1. <<Null>> \in Seq(Returns \union {Null})
      OBVIOUS
    <3>. QED  BY <1>0, <1>3, <3>1 DEF NotifyReturns
  <2>. QED  BY <1>3, <2>1 DEF NotifyReturns, Typed
<1>4. CASE NotifyHandlers
  <2>1. msgs' \in [Conns -> Seq(MessageFrames \union {Null})]
    <3>1. CASE msgs' = msgs
      BY <1>0, <3>1
    <3>2. ASSUME NEW ch, msgs' = [msgs EXCEPT ![handlers[ch]] = Append(@, Null)]
          PROVE  msgs' \in [Conns -> Seq(MessageFrames \union {Null})]
      <4>1. CASE handlers[ch] \in Conns
        <5>1. Append(msgs[handlers[ch]], Null) \in Seq(MessageFrames \union {Null})
          BY <1>0, <4>1
        <5>. QED  BY <1>0, <3>2, <5>1
      <4>2. CASE handlers[ch] \notin Conns
        BY <1>0, <3>2, <4>2
      <4>. QED  BY <4>1, <4>2
    <3>. QED  BY <1>4, <3>1, <3>2 DEF NotifyHandlers
  <2>. QED  BY <1>4, <2>1 DEF NotifyHandlers, Typed
<1>. QED  BY <1>1, <1>2, <1>3, <1>4 DEF Receiver

\* ... and of destroy(), the server and the network.
LEMMA TypedServer ==
  ASSUME Typed, DestroyMarks \/ DestroyCloses \/ ServeClose \/ ServeMessage \/ DropLink
  PROVE  /\ Typed' /\ owner' = owner
         /\ wire' = wire \/ wire' = <<>> \/ (wire # <<>> /\ wire' = Tail(wire))
<1>. USE DEF users, tables, calls, inbox, socket, reader, server
<1>0. /\ frames \in Seq(MessageFrames \union Returns) /\ wire \in Seq(Asking)
      /\ open \subseteq Channels /\ sent \in [Channels -> 0 .. MaxMessages]
  BY DEF Typed
<1>1. CASE DestroyMarks \/ DestroyCloses
  <2>1. frames' = frames \/ frames' = <<>>
    BY <1>1 DEF DestroyMarks, DestroyCloses
  <2>2. frames' \in Seq(MessageFrames \union Returns)
    <3>1. <<>> \in Seq(MessageFrames \union Returns)
      OBVIOUS
    <3>. QED  BY <1>0, <2>1, <3>1
  <2>. QED  BY <1>1, <2>2 DEF DestroyMarks, DestroyCloses, Typed
<1>2. CASE ServeClose
  <2>. DEFINE w == Head(wire)
  <2>1. w \in Asking /\ wire' \in Seq(Asking)
    BY <1>0, <1>2, Rest DEF ServeClose
  <2>2. ASSUME w.ch \in open PROVE Return(w.id, w.ch, w.from) \in Returns
    BY <1>0, <2>1, <2>2 DEF Asking, Returns
  <2>3. Error(w.id, w.from) \in Returns
    BY <2>1 DEF Asking, Returns
  <2>4. PICK f \in Returns : frames' = Append(frames, f)
    BY <1>2, <2>2, <2>3 DEF ServeClose
  <2>5. frames' \in Seq(MessageFrames \union Returns)
    BY <1>0, <2>4
  <2>6. open' \subseteq Channels
    BY <1>0, <1>2 DEF ServeClose
  <2>. QED  BY <1>2, <2>1, <2>5, <2>6 DEF ServeClose, Typed
<1>3. CASE ServeMessage
  <2>1. PICK ch \in open : /\ sent[ch] < MaxMessages /\ sent' = [sent EXCEPT ![ch] = @ + 1]
                           /\ frames' = Append(frames, Message(ch, sent[ch] + 1))
    BY <1>3 DEF ServeMessage
  <2>2. ch \in Channels /\ sent[ch] + 1 \in 1 .. MaxMessages
    BY <1>0, <2>1, ProxyAssumption
  <2>3. sent' \in [Channels -> 0 .. MaxMessages]
    BY <1>0, <2>1, <2>2
  <2>4. Message(ch, sent[ch] + 1) \in MessageFrames
    BY <2>2 DEF MessageFrames
  <2>5. frames' \in Seq(MessageFrames \union Returns)
    BY <1>0, <2>1, <2>4
  <2>. QED  BY <1>3, <2>3, <2>5 DEF ServeMessage, Typed
<1>4. CASE DropLink
  <2>1. frames' \in Seq(MessageFrames \union Returns)
    BY <1>0, <1>4, FirstPart DEF DropLink
  <2>2. wire' = <<>> /\ wire' \in Seq(Asking)
    BY <1>4 DEF DropLink
  <2>. QED  BY <1>4, <2>1, <2>2 DEF DropLink, Typed
<1>. QED  BY <1>1, <1>2, <1>3, <1>4

\* Every step keeps that the server opens one channel for a connection at most.
LEMMA ServedStep ==
  ASSUME Served, MaxFaults = 0, faults = 0, [Next]_vars
  PROVE  Served'
<1>. USE DEF around, outside, users, tables, calls, inbox, socket, reader, server
<1>0. Typed /\ AskedOnce /\ Channeling /\ wire \in Seq(Asking) /\ pc \in [Conns -> Places]
  BY DEF Served, Typed
<1>1. CASE UNCHANGED vars
  <2>1. Typed' /\ \A c \in Conns : Fresh(c)' => Fresh(c)
    BY <1>0, <1>1 DEF vars, Typed, Fresh
  <2>. QED  BY <1>0, <1>1, <2>1, ServedStill DEF vars, Served
<1>2. ASSUME NEW c \in Conns,
             \/ BeginOpen(c) \/ BeginClose(c) \/ DrawId(c) \/ ExpectReturn(c)
             \/ CheckAfterSend(c) \/ GetReply(c) \/ Listen(c) \/ Unlisten(c)
      PROVE  Served'
  <2>1. Typed' /\ wire' = wire /\ owner' = owner
    BY <1>0, <1>2, TypedCalls
  <2>2. \A d \in Conns : Fresh(d)' => Fresh(d)
    <3>0. op \in [Conns -> {"none", "open", "close"}]
      BY <1>0 DEF Typed
    <3>1. ASSUME BeginOpen(c) \/ BeginClose(c), NEW d \in Conns, Fresh(d)' PROVE Fresh(d)
      BY <1>0, <3>0, <3>1 DEF BeginOpen, BeginClose, Fresh, Goto
    <3>2. ASSUME DrawId(c) \/ ExpectReturn(c), NEW d \in Conns, Fresh(d)' PROVE Fresh(d)
      BY <1>0, <3>2 DEF DrawId, ExpectReturn, Fresh, Goto
    <3>3. ASSUME CheckAfterSend(c) \/ GetReply(c), NEW d \in Conns, Fresh(d)' PROVE Fresh(d)
      BY <1>0, <3>3 DEF CheckAfterSend, GetReply, CallEnds, Fresh, Goto
    <3>4. ASSUME Listen(c) \/ Unlisten(c), NEW d \in Conns, Fresh(d)' PROVE Fresh(d)
      BY <1>0, <3>4 DEF Listen, Unlisten, Fresh, Goto
    <3>. QED  BY <1>2, <3>1, <3>2, <3>3, <3>4
  <2>. QED  BY <1>0, <2>1, <2>2, ServedStill DEF Served
<1>3. ASSUME NEW c \in Conns, Receiving(c) PROVE Served'
  <2>1. Typed'
    BY <1>0, <1>3, TypedReceiving
  <2>2. wire' = wire /\ owner' = owner /\ pc' = pc /\ op' = op
    BY <1>3 DEF Receiving, Receive, IsReadyToReceive, ReadyOrNot
  <2>3. \A d \in Conns : Fresh(d)' => Fresh(d)
    BY <2>2 DEF Fresh
  <2>. QED  BY <1>0, <2>1, <2>2, <2>3, ServedStill DEF Served
<1>4. CASE Receiver
  <2>1. Typed' /\ wire' = wire /\ owner' = owner
    BY <1>0, <1>4, TypedReceiver
  <2>2. pc' = pc /\ op' = op
    BY <1>4 DEF Receiver, ReceiveFrame, ReceiveDisconnected, NotifyReturns, NotifyHandlers,
                ReceiverStops
  <2>3. \A d \in Conns : Fresh(d)' => Fresh(d)
    BY <2>2 DEF Fresh
  <2>. QED  BY <1>0, <2>1, <2>2, <2>3, ServedStill DEF Served
<1>5. CASE DestroyMarks \/ DestroyCloses \/ ServeClose \/ ServeMessage \/ DropLink
  <2>1. /\ Typed' /\ owner' = owner
        /\ wire' = wire \/ wire' = <<>> \/ (wire # <<>> /\ wire' = Tail(wire))
    BY <1>0, <1>5, TypedServer
  <2>2. pc' = pc /\ op' = op
    BY <1>5 DEF DestroyMarks, DestroyCloses, ServeClose, ServeMessage, DropLink
  <2>3. \A d \in Conns : Fresh(d)' => Fresh(d)
    BY <2>2 DEF Fresh
  <2>. QED  BY <1>0, <2>1, <2>2, <2>3, ServedStill DEF Served
<1>6. ~ReceiveRaises
  BY DEF ReceiveRaises
<1>. QED  BY <1>1, <1>2, <1>3, <1>4, <1>5, <1>6, ServedSend, ServedOpen DEF Next, Calling, Serve

-----------------------------------------------------------------------------
(* The order of messages: under way from the server.                        *)

AFrame == MessageFrames \union Returns

\* A message of a channel is told by its number.
LEMMA MessageOf ==
  /\ \A f \in AFrame : \A ch : Of(f, ch) =>
       ch \in Channels /\ f.n \in 1 .. MaxMessages /\ f = Message(ch, f.n) /\ f \in MessageFrames
  /\ \A ch, n : Message(ch, n).n = n /\ \A e : Of(Message(ch, n), e) <=> e = ch
  BY DEF AFrame, Of, MessageFrames, Message, Returns, Return, Error

\* Nothing comes in and nothing is taken out, though the link may drop ...
LEMMA FlowStill ==
  ASSUME NEW ch \in Channels, NEW d \in Nat, Flow(ch, d), UNCHANGED <<frames, sent>>,
         link' = link \/ link' = "down"
  PROVE  Flow(ch, d)'
  BY DEF Flow

\* ... and with it what was on its way, from some point on.
LEMMA FlowLost ==
  ASSUME NEW ch \in Channels, NEW d \in Nat, Flow(ch, d), frames \in Seq(AFrame),
         link' = "down", NEW n \in 0 .. Len(frames), frames' = SubSeq(frames, 1, n)
  PROVE  Flow(ch, d)'
<1>1. Len(frames') = n /\ \A i \in 1 .. n : i \in 1 .. Len(frames) /\ frames'[i] = frames[i]
  BY FirstPart
<1>2. ASSUME NEW i \in 1 .. Len(frames'), Of(frames'[i], ch)
      PROVE  /\ frames'[i].n >= d
             /\ frames'[i].n # d => \E j \in 1 .. i - 1 : frames'[j] = Message(ch, frames'[i].n - 1)
  <2>1. i \in 1 .. Len(frames) /\ frames'[i] = frames[i]
    BY <1>1
  <2>2. \A j \in 1 .. i - 1 : j \in 1 .. n
    BY <1>1
  <2>. QED  BY <1>1, <1>2, <2>1, <2>2 DEF Flow
<1>3. \A i, j \in 1 .. Len(frames') :
        i < j /\ Of(frames'[i], ch) /\ Of(frames'[j], ch) => frames'[i].n < frames'[j].n
  BY <1>1 DEF Flow
<1>. QED  BY <1>2, <1>3 DEF Flow, Of

\* The first of what is under way is taken out.
LEMMA FlowOut ==
  ASSUME NEW ch \in Channels, NEW d \in Nat, Flow(ch, d), frames \in Seq(AFrame),
         frames # <<>>, frames' = Tail(frames), UNCHANGED <<link, sent>>, sent[ch] \in Nat
  PROVE  /\ ~Of(Head(frames), ch) => Flow(ch, d)'
         /\ Of(Head(frames), ch) =>
              Head(frames) = Message(ch, d) /\ d \in 1 .. MaxMessages /\ Flow(ch, d + 1)'
<1>. DEFINE f == frames[1]
<1>1. /\ Head(frames) = f /\ f \in AFrame /\ Len(frames) \in Nat \ {0}
      /\ Len(frames') = Len(frames) - 1
      /\ \A i \in 1 .. Len(frames') : i + 1 \in 1 .. Len(frames) /\ frames'[i] = frames[i + 1]
  BY Rest
<1>2. 1 \in 1 .. Len(frames) /\ \A j : j \notin 1 .. 1 - 1
  BY <1>1
<1>3. ASSUME NEW i \in 1 .. Len(frames'), NEW j \in 1 .. Len(frames'), i < j,
             Of(frames'[i], ch), Of(frames'[j], ch)
      PROVE  frames'[i].n < frames'[j].n
  <2>1. i + 1 < j + 1
    BY <1>3
  <2>. QED  BY <1>1, <1>3, <2>1 DEF Flow
<1>4. link = "up" => \A i \in 1 .. Len(frames') : Of(frames'[i], ch) => frames'[i].n <= sent'[ch]
  BY <1>1 DEF Flow
<1>5. \A i \in 1 .. Len(frames) : i = 1 \/ (i - 1 \in 1 .. Len(frames') /\ i - 1 + 1 = i)
  BY <1>1
<1>6. \A i \in 1 .. Len(frames) :
        frames[i] = f \/ \E k \in 1 .. Len(frames') : frames'[k] = frames[i]
  BY <1>1, <1>5
<1>7. \A i \in 1 .. Len(frames') : \A j \in 1 .. i + 1 - 1 :
        frames[j] = f \/ \E k \in 1 .. i - 1 : frames'[k] = frames[j]
  <2>. SUFFICES ASSUME NEW i \in 1 .. Len(frames'), NEW j \in 1 .. i + 1 - 1, j # 1
                PROVE  \E k \in 1 .. i - 1 : frames'[k] = frames[j]
    OBVIOUS
  <2>1. j - 1 \in 1 .. i - 1 /\ j - 1 \in 1 .. Len(frames') /\ j - 1 + 1 = j
    BY <1>1
  <2>. QED  BY <1>1, <2>1
<1>8. CASE ~Of(f, ch)
  <2>1. \A n : Message(ch, n) # f
    BY <1>8, MessageOf
  <2>2. ASSUME NEW i \in 1 .. Len(frames'), Of(frames'[i], ch)
        PROVE  /\ frames'[i].n >= d
               /\ frames'[i].n # d =>
                    \E j \in 1 .. i - 1 : frames'[j] = Message(ch, frames'[i].n - 1)
    <3>1. i + 1 \in 1 .. Len(frames) /\ frames'[i] = frames[i + 1]
      BY <1>1
    <3>2. /\ frames'[i].n >= d
          /\ frames'[i].n # d => \E j \in 1 .. i + 1 - 1 : frames[j] = Message(ch, frames'[i].n - 1)
      BY <2>2, <3>1 DEF Flow
    <3>. QED  BY <1>7, <2>1, <3>2
  <2>3. link' = "up" /\ d # sent'[ch] + 1 =>
          \E i \in 1 .. Len(frames') : frames'[i] = Message(ch, sent'[ch])
    BY <1>6, <2>1 DEF Flow
  <2>. QED  BY <1>1, <1>3, <1>4, <1>8, <2>2, <2>3 DEF Flow, Of
<1>9. CASE Of(f, ch)
  <2>1. f.n >= d /\ f.n = d /\ f = Message(ch, d) /\ d \in 1 .. MaxMessages
    BY <1>1, <1>2, <1>9, MessageOf DEF Flow
  <2>2. ASSUME NEW i \in 1 .. Len(frames'), Of(frames'[i], ch)
        PROVE  /\ frames'[i].n >= d + 1
               /\ frames'[i].n # d + 1 =>
                    \E j \in 1 .. i - 1 : frames'[j] = Message(ch, frames'[i].n - 1)
    <3>1. i + 1 \in 1 .. Len(frames) /\ frames'[i] = frames[i + 1] /\ 1 < i + 1
      BY <1>1
    <3>2. frames'[i].n > d /\ frames'[i].n \in Nat
      <4>1. frames[i + 1] \in AFrame
        BY <3>1
      <4>. QED  BY <1>2, <1>9, <2>1, <2>2, <3>1, <4>1, MessageOf DEF Flow
    <3>3. \E j \in 1 .. i + 1 - 1 : frames[j] = Message(ch, frames'[i].n - 1)
      BY <2>2, <3>1, <3>2 DEF Flow
    <3>4. frames'[i].n # d + 1 => f # Message(ch, frames'[i].n - 1)
      <4>1. f.n = d /\ Message(ch, frames'[i].n - 1).n = frames'[i].n - 1
        BY <2>1, MessageOf
      <4>. QED  BY <3>2, <4>1
    <3>5. PICK j \in 1 .. i + 1 - 1 : frames[j] = Message(ch, frames'[i].n - 1)
      BY <3>3
    <3>6. frames[j] = f \/ \E k \in 1 .. i - 1 : frames'[k] = frames[j]
      BY <1>7
    <3>7. frames'[i].n >= d + 1
      BY <3>2
    <3>. QED  BY <3>4, <3>5, <3>6, <3>7
  <2>3. link' = "up" /\ d + 1 # sent'[ch] + 1 =>
          \E i \in 1 .. Len(frames') : frames'[i] = Message(ch, sent'[ch])
    <3>1. SUFFICES ASSUME link = "up", d # sent[ch]
                   PROVE  \E i \in 1 .. Len(frames') : frames'[i] = Message(ch, sent[ch])
      OBVIOUS
    <3>2. f.n <= sent[ch]
      BY <1>2, <1>9, <3>1 DEF Flow
    <3>3. PICK i \in 1 .. Len(frames) : frames[i] = Message(ch, sent[ch])
      BY <2>1, <3>1, <3>2 DEF Flow
    <3>4. f # Message(ch, sent[ch])
      BY <2>1, <3>1, MessageOf
    <3>. QED  BY <1>6, <3>3, <3>4
  <2>. QED  BY <1>1, <1>3, <1>4, <1>9, <2>1, <2>2, <2>3 DEF Flow, Of
<1>. QED  BY <1>1, <1>8, <1>9

\* The server sends something: not on the channel, or its next message.
LEMMA FlowIn ==
  ASSUME NEW ch \in Channels, NEW d \in Nat, Flow(ch, d), frames \in Seq(AFrame),
         NEW f \in AFrame, frames' = Append(frames, f), link' = link, sent[ch] \in Nat,
         \/ ~Of(f, ch) /\ sent'[ch] = sent[ch]
         \/ f = Message(ch, sent[ch] + 1) /\ sent'[ch] = sent[ch] + 1 /\ link = "up"
  PROVE  Flow(ch, d)'
<1>. DEFINE k == Len(frames) + 1
<1>1. /\ Len(frames) \in Nat /\ Len(frames') = k /\ frames'[k] = f
      /\ \A i \in 1 .. Len(frames) : frames'[i] = frames[i] /\ frames[i] \in AFrame
  OBVIOUS
<1>2. \A i \in 1 .. Len(frames') : i = k \/ (i \in 1 .. Len(frames) /\ i < k)
  BY <1>1
<1>3. ASSUME NEW i \in 1 .. Len(frames), Of(frames'[i], ch)
      PROVE  /\ frames'[i].n >= d
             /\ frames'[i].n # d => \E j \in 1 .. i - 1 : frames'[j] = Message(ch, frames'[i].n - 1)
  <2>1. \A j \in 1 .. i - 1 : j \in 1 .. Len(frames)
    BY <1>1
  <2>. QED  BY <1>1, <1>3, <2>1 DEF Flow
<1>4. \A i, j \in 1 .. Len(frames) :
        i < j /\ Of(frames'[i], ch) /\ Of(frames'[j], ch) => frames'[i].n < frames'[j].n
  BY <1>1 DEF Flow
<1>5. CASE ~Of(f, ch) /\ sent'[ch] = sent[ch]
  <2>1. \A i \in 1 .. Len(frames') : Of(frames'[i], ch) => i \in 1 .. Len(frames)
    BY <1>1, <1>2, <1>5
  <2>2. link' = "up" =>
          /\ \A i \in 1 .. Len(frames') : Of(frames'[i], ch) => frames'[i].n <= sent'[ch]
          /\ d # sent'[ch] + 1 => \E i \in 1 .. Len(frames') : frames'[i] = Message(ch, sent'[ch])
    BY <1>1, <1>5, <2>1 DEF Flow
  <2>. QED  BY <1>3, <1>4, <2>1, <2>2 DEF Flow, Of
<1>6. CASE f = Message(ch, sent[ch] + 1) /\ sent'[ch] = sent[ch] + 1 /\ link = "up"
  <2>1. f.n = sent[ch] + 1
    BY <1>6, MessageOf
  <2>2. \A i \in 1 .. Len(frames) :
          Of(frames'[i], ch) => frames'[i].n <= sent[ch] /\ frames'[i].n \in Nat
    BY <1>1, <1>6, MessageOf DEF Flow
  <2>3. /\ f.n >= d
        /\ f.n # d => \E j \in 1 .. k - 1 : frames'[j] = Message(ch, f.n - 1)
    <3>1. CASE d = sent[ch] + 1
      BY <2>1, <3>1
    <3>2. CASE d # sent[ch] + 1
      <4>1. PICK j \in 1 .. Len(frames) : frames[j] = Message(ch, sent[ch])
        BY <1>6, <3>2 DEF Flow
      <4>2. Of(frames[j], ch) /\ frames[j].n = sent[ch]
        BY <4>1, MessageOf
      <4>3. sent[ch] >= d
        BY <4>2 DEF Flow
      <4>4. f.n - 1 = sent[ch] /\ j \in 1 .. k - 1
        BY <1>1, <2>1
      <4>. QED  BY <1>1, <2>1, <4>1, <4>3, <4>4
    <3>. QED  BY <3>1, <3>2
  <2>4. ASSUME NEW i \in 1 .. Len(frames'), Of(frames'[i], ch)
        PROVE  /\ frames'[i].n >= d
               /\ frames'[i].n # d =>
                    \E j \in 1 .. i - 1 : frames'[j] = Message(ch, frames'[i].n - 1)
    BY <1>1, <1>2, <1>3, <2>3, <2>4
  <2>5. ASSUME NEW i \in 1 .. Len(frames'), NEW j \in 1 .. Len(frames'), i < j,
               Of(frames'[i], ch), Of(frames'[j], ch)
        PROVE  frames'[i].n < frames'[j].n
    <3>1. i \in 1 .. Len(frames)
      BY <1>1, <1>2, <2>5
    <3>2. CASE j = k
      BY <1>1, <2>1, <2>2, <2>5, <3>1, <3>2
    <3>3. CASE j \in 1 .. Len(frames)
      BY <1>4, <2>5, <3>1, <3>3
    <3>. QED  BY <1>2, <3>2, <3>3
  <2>6. \A i \in 1 .. Len(frames') : Of(frames'[i], ch) => frames'[i].n <= sent'[ch]
    BY <1>1, <1>2, <1>6, <2>1, <2>2
  <2>7. \E i \in 1 .. Len(frames') : frames'[i] = Message(ch, sent'[ch])
    BY <1>1, <1>6
  <2>. QED  BY <2>4, <2>5, <2>6, <2>7 DEF Flow, Of
<1>. QED  BY <1>5, <1>6

-----------------------------------------------------------------------------
(* The order of messages: the steps.                                        *)

\* A connection whose messages stay where they are.
LEMMA LineStill ==
  ASSUME NEW c \in Conns, InLine(c),
         received'[c] = received[c], current'[c] = current[c], msgs'[c] = msgs[c],
         handle'[c] = handle[c],
         receiver' = "running" => receiver = "running",
         \A ch \in Channels : handlers'[ch] = c => handlers[ch] = c,
         \A ch \in Channels, d \in 1 .. MaxMessages + 1 :
           handlers[ch] = c /\ Flow(ch, d) => Flow(ch, d)'
  PROVE  InLine(c)'
<1>1. PICK b \in 0 .. MaxMessages : Line(c, b) /\ Follows(c, b)
  BY DEF InLine
<1>2. Held(c)' = Held(c) /\ Got(c)' = Got(c)
  BY DEF Held, Got
<1>3. Line(c, b)'
  BY <1>1, <1>2 DEF Line
<1>4. Follows(c, b)'
  BY <1>1, <1>2 DEF Follows
<1>. QED  BY <1>3, <1>4 DEF InLine

\* Steps of the receiver thread, of the server and of the network.
LEMMA OrderStill ==
  ASSUME InOrder, Served',
         UNCHANGED <<handle, msgs, current, peeking, received, op, pc, handlers>>,
         receiver' = "running" => receiver = "running",
         \A ch \in Channels, d \in 1 .. MaxMessages + 1 : Flow(ch, d) => Flow(ch, d)'
  PROVE  InOrder'
<1>1. Flows'
  BY DEF InOrder, Flows
<1>2. ASSUME NEW c \in Conns PROVE Placed(c)' /\ Silent(c)' /\ EndsLast(c)' /\ InLine(c)'
  <2>1. Placed(c) /\ Silent(c) /\ EndsLast(c) /\ InLine(c)
    BY DEF InOrder
  <2>2. InLine(c)'
    BY <2>1, LineStill
  <2>. QED  BY <2>1, <2>2 DEF Placed, Silent, EndsLast
<1>. QED  BY <1>1, <1>2 DEF InOrder

\* Calls that give a connection no channel and no handler.
LEMMA OrderCalls ==
  ASSUME InOrder, Served',
         UNCHANGED <<receiver, frames, link, sent, handle, msgs, current, peeking, received>>,
         \A c \in Conns : Placed(c)' /\ (pc'[c] = "listen" => pc[c] = "listen"),
         \A c \in Conns, ch \in Channels : handlers'[ch] = c => handlers[ch] = c
  PROVE  InOrder'
<1>1. \A ch \in Channels, d \in 1 .. MaxMessages + 1 : Flow(ch, d) => Flow(ch, d)'
  BY DEF Flow
<1>2. Flows'
  BY <1>1 DEF InOrder, Flows
<1>3. ASSUME NEW c \in Conns PROVE Silent(c)' /\ EndsLast(c)' /\ InLine(c)'
  <2>1. Silent(c) /\ EndsLast(c) /\ InLine(c)
    BY DEF InOrder
  <2>2. InLine(c)'
    BY <1>1, <2>1, LineStill
  <2>. QED  BY <2>1, <2>2 DEF Silent, EndsLast
<1>. QED  BY <1>2, <1>3 DEF InOrder

\* What a connection moves inside touches neither its place nor the others.
LEMMA OrderInbox ==
  ASSUME InOrder, Served', NEW c \in Conns,
         UNCHANGED <<frames, link, sent, handle, op, pc, handlers>>,
         receiver' = "running" => receiver = "running",
         \A e \in Conns \ {c} : /\ received'[e] = received[e] /\ current'[e] = current[e]
                                /\ msgs'[e] = msgs[e] /\ peeking'[e] = peeking[e],
         peeking'[c] => current'[c] = NoFrame,
         Silent(c)', EndsLast(c)', InLine(c)'
  PROVE  InOrder'
<1>1. \A ch \in Channels, d \in 1 .. MaxMessages + 1 : Flow(ch, d) => Flow(ch, d)'
  BY DEF Flow
<1>2. Flows'
  BY <1>1 DEF InOrder, Flows
<1>3. Placed(c)'
  BY DEF InOrder, Placed
<1>4. ASSUME NEW e \in Conns \ {c}
      PROVE  Placed(e)' /\ Silent(e)' /\ EndsLast(e)' /\ InLine(e)'
  <2>1. Placed(e) /\ Silent(e) /\ EndsLast(e) /\ InLine(e)
    BY DEF InOrder
  <2>2. InLine(e)'
    BY <1>1, <2>1, LineStill
  <2>. QED  BY <2>1, <2>2 DEF Placed, Silent, EndsLast
<1>. QED  BY <1>2, <1>3, <1>4 DEF InOrder

\* What the queue, the message held and those received of a connection are.
LEMMA InboxTyped ==
  ASSUME Typed, NEW c \in Conns
  PROVE  /\ msgs[c] \in Seq(MessageFrames \union {Null}) /\ Len(msgs[c]) \in Nat
         /\ received[c] \in Seq(MessageFrames) /\ Len(received[c]) \in Nat
         /\ current[c] \in MessageFrames \union {NoFrame} /\ Held(c) \in {0, 1}
         /\ Null \notin MessageFrames /\ NoFrame \notin MessageFrames
         /\ \A f \in MessageFrames : f.kind = "msg"
<1>1. \A f \in MessageFrames : f.kind = "msg"
  BY DEF MessageFrames, Message
<1>. QED  BY <1>1 DEF Typed, Held, Null, NoFrame

\* Receiving hands out what follows.
LEMMA OrderReceive ==
  ASSUME InOrder, Served', NEW c \in Conns, Receive(c)
  PROVE  InOrder'
<1>. USE DEF outside, socket, reader, tables, calls, server
<1>0. /\ Typed /\ Placed(c) /\ Silent(c) /\ EndsLast(c) /\ InLine(c)
      /\ msgs \in [Conns -> Seq(MessageFrames \union {Null})]
      /\ current \in [Conns -> MessageFrames \union {NoFrame}]
      /\ received \in [Conns -> Seq(MessageFrames)]
  BY DEF InOrder, Served, Typed
<1>1. PICK b \in 0 .. MaxMessages : Line(c, b) /\ Follows(c, b)
  BY <1>0 DEF InLine
<1>2. /\ handle[c] # 0 /\ pc[c] # "listen" /\ ~peeking[c]
      /\ UNCHANGED <<frames, link, sent, handle, op, pc, handlers, receiver, peeking>>
  BY DEF Receive, Receivable
<1>3. Silent(c)'
  BY <1>2 DEF Silent
<1>4. ASSUME NEW m \in MessageFrames, Deliver(c, m)
      PROVE  /\ Len(received'[c]) = Len(received[c]) + 1
             /\ received'[c][Len(received[c]) + 1] = m
             /\ \A i \in 1 .. Len(received[c]) : received'[c][i] = received[c][i]
  <2>1. received'[c] = Append(received[c], m)
    BY <1>0, <1>4 DEF Deliver
  <2>. QED  BY <1>0, <2>1
<1>5. CASE current[c] # NoFrame
  <2>1. /\ Deliver(c, current[c]) /\ current'[c] = NoFrame /\ msgs' = msgs
        /\ \A e \in Conns \ {c} : received'[e] = received[e] /\ current'[e] = current[e]
    BY <1>0, <1>5 DEF Receive, Deliver
  <2>2. current[c] = Message(handle[c], b + Len(received[c]) + 1) /\ current[c] \in MessageFrames
    BY <1>0, <1>1, <1>5 DEF Line
  <2>3. Held(c) = 1 /\ Held(c)' = 0 /\ Len(received'[c]) = Len(received[c]) + 1
    BY <1>4, <1>5, <2>1, <2>2 DEF Held
  <2>4. Got(c)' = Got(c)
    BY <1>0, <2>1, <2>3, InboxTyped DEF Got
  <2>5. Line(c, b)'
    <3>1. \A i \in 1 .. Len(received'[c]) : received'[c][i] = Message(handle[c], b + i)
      <4>1. \A i \in 1 .. Len(received'[c]) :
              i = Len(received[c]) + 1 \/ i \in 1 .. Len(received[c])
        BY <1>0, <2>3, InboxTyped
      <4>2. Message(handle[c], b + Len(received[c]) + 1)
              = Message(handle[c], b + (Len(received[c]) + 1))
        BY <1>0, InboxTyped
      <4>. QED  BY <1>1, <1>4, <2>1, <2>2, <4>1, <4>2 DEF Line
    <3>2. ASSUME NEW i \in 1 .. Len(msgs[c]), msgs[c][i] # Null
          PROVE  msgs[c][i] = Message(handle[c], b + Len(received'[c]) + Held(c)' + i)
      <4>1. b + Len(received'[c]) + Held(c)' + i = b + Len(received[c]) + Held(c) + i
        BY <1>0, <2>3, InboxTyped
      <4>2. msgs[c][i] = Message(handle[c], b + Len(received[c]) + Held(c) + i)
        BY <1>1, <3>2 DEF Line
      <4>. QED  BY <4>1, <4>2
    <3>. QED  BY <1>2, <2>1, <3>1, <3>2 DEF Line
  <2>6. Follows(c, b)'
    BY <1>1, <1>2, <2>4 DEF Follows, Flow
  <2>7. InLine(c)' /\ EndsLast(c)'
    BY <1>0, <1>2, <2>1, <2>5, <2>6 DEF InLine, EndsLast
  <2>. QED  BY <1>2, <1>3, <2>1, <2>7, OrderInbox
<1>6. CASE current[c] = NoFrame
  <2>. DEFINE m == Head(msgs[c])
  <2>1. /\ msgs[c] # <<>> /\ current' = current /\ msgs'[c] = Tail(msgs[c])
        /\ IF m = Null THEN received' = received ELSE Deliver(c, m)
        /\ \A e \in Conns \ {c} : received'[e] = received[e] /\ msgs'[e] = msgs[e]
    BY <1>0, <1>6 DEF Receive, Take, Deliver
  <2>2. /\ m = msgs[c][1] /\ m \in MessageFrames \union {Null} /\ Len(msgs[c]) \in Nat \ {0}
        /\ Len(msgs'[c]) = Len(msgs[c]) - 1
        /\ \A i \in 1 .. Len(msgs'[c]) : i + 1 \in 1 .. Len(msgs[c]) /\ msgs'[c][i] = msgs[c][i + 1]
    BY <1>0, <2>1, Rest
  <2>3. Held(c) = 0 /\ Held(c)' = 0
    BY <1>6, <2>1 DEF Held
  <2>4. EndsLast(c)'
    <3>1. ASSUME NEW i \in 1 .. Len(msgs'[c]), msgs'[c][i] = Null
          PROVE  receiver # "running" /\ \A j \in i .. Len(msgs'[c]) : msgs'[c][j] = Null
      <4>1. /\ i + 1 \in 1 .. Len(msgs[c]) /\ msgs[c][i + 1] = Null
            /\ \A j \in i .. Len(msgs'[c]) :
                 j + 1 \in i + 1 .. Len(msgs[c]) /\ j \in 1 .. Len(msgs'[c])
        <5>1. \A l \in Nat \ {0} : \A k \in 1 .. l - 1 : \A j \in k .. l - 1 :
                j + 1 \in k + 1 .. l /\ j \in 1 .. l - 1
          OBVIOUS
        <5>2. i + 1 \in 1 .. Len(msgs[c]) /\ msgs[c][i + 1] = Null
          BY <2>2, <3>1, Zenon
        <5>3. Len(msgs[c]) \in Nat \ {0} /\ Len(msgs'[c]) = Len(msgs[c]) - 1
          BY <2>2, Zenon
        <5>. QED  BY <3>1, <5>1, <5>2, <5>3, Zenon
      <4>. QED  BY <1>0, <2>2, <4>1 DEF EndsLast
    <3>. QED  BY <1>2, <3>1 DEF EndsLast
  <2>5. CASE m = Null
    <3>1. receiver # "running" /\ \A i \in 1 .. Len(msgs[c]) : msgs[c][i] = Null
      BY <1>0, <2>2, <2>5 DEF EndsLast
    <3>2. \A i \in 1 .. Len(msgs'[c]) : msgs'[c][i] = Null
      BY <2>2, <3>1
    <3>3. Line(c, b)' /\ Follows(c, b)'
      BY <1>1, <1>2, <2>1, <2>5, <3>1, <3>2 DEF Line, Follows
    <3>4. InLine(c)'
      BY <3>3 DEF InLine
    <3>. QED  BY <1>2, <1>3, <2>1, <2>4, <2>5, <3>4, OrderInbox
  <2>6. CASE m # Null
    <3>1. m \in MessageFrames /\ Deliver(c, m) /\ Len(received'[c]) = Len(received[c]) + 1
      BY <1>4, <2>1, <2>2, <2>6
    <3>2. m = Message(handle[c], b + Len(received[c]) + Held(c) + 1)
      BY <1>1, <2>2, <2>6 DEF Line
    <3>3. m = Message(handle[c], b + (Len(received[c]) + 1))
      BY <1>0, <2>3, <3>2, InboxTyped
    <3>4. Got(c)' = Got(c)
      BY <1>0, <2>1, <2>2, <2>3, <3>1, InboxTyped DEF Got
    <3>5. \A i \in 1 .. Len(received'[c]) : received'[c][i] = Message(handle[c], b + i)
      <4>1. \A i \in 1 .. Len(received'[c]) :
              i = Len(received[c]) + 1 \/ i \in 1 .. Len(received[c])
        BY <1>0, <3>1, InboxTyped
      <4>. QED  BY <1>1, <1>4, <3>1, <3>3, <4>1 DEF Line
    <3>6. ASSUME NEW i \in 1 .. Len(msgs'[c]), msgs'[c][i] # Null
          PROVE  msgs'[c][i] = Message(handle[c], b + Len(received'[c]) + Held(c)' + i)
      <4>1. i + 1 \in 1 .. Len(msgs[c]) /\ msgs'[c][i] = msgs[c][i + 1]
        BY <2>2
      <4>2. b + Len(received'[c]) + Held(c)' + i = b + Len(received[c]) + Held(c) + (i + 1)
        BY <1>0, <2>3, <3>1, InboxTyped
      <4>. QED  BY <1>1, <3>6, <4>1, <4>2 DEF Line
    <3>7. Line(c, b)'
      BY <1>2, <1>6, <2>1, <3>5, <3>6 DEF Line
    <3>8. Follows(c, b)'
      BY <1>1, <1>2, <3>4 DEF Follows, Flow
    <3>9. InLine(c)'
      BY <3>7, <3>8 DEF InLine
    <3>. QED  BY <1>2, <1>3, <2>1, <2>4, <3>9, OrderInbox
  <2>. QED  BY <2>5, <2>6
<1>. QED  BY <1>5, <1>6

\* is_ready_to_receive looks, and keeps the first of what is there.
LEMMA OrderReady ==
  ASSUME InOrder, Served', NEW c \in Conns, IsReadyToReceive(c) \/ ReadyOrNot(c)
  PROVE  InOrder'
<1>. USE DEF outside, socket, reader, tables, calls, server
<1>0. /\ Typed /\ Placed(c) /\ Silent(c) /\ EndsLast(c) /\ InLine(c)
      /\ msgs \in [Conns -> Seq(MessageFrames \union {Null})]
      /\ current \in [Conns -> MessageFrames \union {NoFrame}]
      /\ received \in [Conns -> Seq(MessageFrames)]
      /\ peeking \in [Conns -> BOOLEAN]
  BY DEF InOrder, Served, Typed
<1>1. PICK b \in 0 .. MaxMessages : Line(c, b) /\ Follows(c, b)
  BY <1>0 DEF InLine
<1>2. /\ UNCHANGED <<frames, link, sent, handle, op, pc, handlers, receiver, received>>
      /\ \A e \in Conns \ {c} : peeking'[e] = peeking[e]
  BY <1>0 DEF IsReadyToReceive, ReadyOrNot
<1>3. CASE msgs' = msgs /\ current' = current
  <2>1. Silent(c)' /\ EndsLast(c)'
    BY <1>0, <1>2, <1>3 DEF Silent, EndsLast
  <2>2. Line(c, b)'
    BY <1>1, <1>2, <1>3 DEF Line, Held
  <2>5. Follows(c, b)'
    <3>1. Got(c)' = Got(c)
      BY <1>2, <1>3 DEF Got, Held
    <3>. QED  BY <1>1, <1>2, <3>1 DEF Follows, Flow
  <2>3. InLine(c)'
    BY <2>2, <2>5 DEF InLine
  <2>4. peeking'[c] => current'[c] = NoFrame
    BY <1>0, <1>3 DEF IsReadyToReceive, ReadyOrNot, Placed
  <2>. QED  BY <1>2, <1>3, <2>1, <2>3, <2>4, OrderInbox
<1>4. CASE ReadyOrNot(c) /\ msgs[c] # <<>>
  <2>. DEFINE m == Head(msgs[c])
  <2>1. /\ current[c] = NoFrame /\ msgs' = [msgs EXCEPT ![c] = Tail(msgs[c])]
        /\ current' = [current EXCEPT ![c] = IF m = Null THEN NoFrame ELSE m]
        /\ peeking' = [peeking EXCEPT ![c] = FALSE]
    BY <1>0, <1>4 DEF ReadyOrNot, Take, Placed
  <2>2. /\ m = msgs[c][1] /\ m \in MessageFrames \union {Null} /\ Len(msgs[c]) \in Nat \ {0}
        /\ msgs'[c] = Tail(msgs[c]) /\ Len(msgs'[c]) = Len(msgs[c]) - 1
        /\ \A i \in 1 .. Len(msgs'[c]) : i + 1 \in 1 .. Len(msgs[c]) /\ msgs'[c][i] = msgs[c][i + 1]
    BY <1>0, <1>4, <2>1, Rest
  <2>3. current'[c] = IF m = Null THEN NoFrame ELSE m
    BY <1>0, <2>1
  <2>4. \A e \in Conns \ {c} : current'[e] = current[e] /\ msgs'[e] = msgs[e]
    BY <1>0, <2>1
  <2>5. ~peeking'[c]
    BY <1>0, <2>1
  <2>6. EndsLast(c)'
    <3>1. ASSUME NEW i \in 1 .. Len(msgs'[c]), msgs'[c][i] = Null
          PROVE  receiver # "running" /\ \A j \in i .. Len(msgs'[c]) : msgs'[c][j] = Null
      <4>1. /\ i + 1 \in 1 .. Len(msgs[c]) /\ msgs[c][i + 1] = Null
            /\ \A j \in i .. Len(msgs'[c]) :
                 j + 1 \in i + 1 .. Len(msgs[c]) /\ j \in 1 .. Len(msgs'[c])
        <5>1. \A l \in Nat \ {0} : \A k \in 1 .. l - 1 : \A j \in k .. l - 1 :
                j + 1 \in k + 1 .. l /\ j \in 1 .. l - 1
          OBVIOUS
        <5>2. i + 1 \in 1 .. Len(msgs[c]) /\ msgs[c][i + 1] = Null
          BY <2>2, <3>1, Zenon
        <5>3. Len(msgs[c]) \in Nat \ {0} /\ Len(msgs'[c]) = Len(msgs[c]) - 1
          BY <2>2, Zenon
        <5>. QED  BY <3>1, <5>1, <5>2, <5>3, Zenon
      <4>. QED  BY <1>0, <2>2, <4>1 DEF EndsLast
    <3>. QED  BY <1>2, <3>1 DEF EndsLast
  <2>7. Silent(c)'
    <3>1. ASSUME handle[c] = 0 \/ pc[c] = "listen"
          PROVE  m = Null /\ \A i \in 1 .. Len(msgs'[c]) : msgs'[c][i] = Null
      BY <1>0, <2>2, <3>1 DEF Silent
    <3>. QED  BY <1>0, <1>2, <2>3, <3>1 DEF Silent
  <2>8. CASE m = Null
    <3>1. receiver # "running" /\ \A i \in 1 .. Len(msgs[c]) : msgs[c][i] = Null
      BY <1>0, <2>2, <2>8 DEF EndsLast
    <3>2. \A i \in 1 .. Len(msgs'[c]) : msgs'[c][i] = Null
      BY <2>2, <3>1
    <3>3. Line(c, b)' /\ Follows(c, b)'
      BY <1>1, <1>2, <2>3, <2>8, <3>1, <3>2 DEF Line, Follows
    <3>4. InLine(c)'
      BY <3>3 DEF InLine
    <3>. QED  BY <1>2, <2>4, <2>5, <2>6, <2>7, <3>4, OrderInbox
  <2>9. CASE m # Null
    <3>1. m \in MessageFrames /\ current'[c] = m /\ m # NoFrame
      BY <1>0, <2>2, <2>3, <2>9, InboxTyped
    <3>2. Held(c) = 0 /\ Held(c)' = 1
      BY <2>1, <3>1 DEF Held
    <3>3. m = Message(handle[c], b + Len(received[c]) + Held(c) + 1)
      BY <1>1, <2>2, <2>9 DEF Line
    <3>4. m = Message(handle[c], b + Len(received[c]) + 1)
      BY <1>0, <3>2, <3>3, InboxTyped
    <3>5. Got(c)' = Got(c)
      BY <1>0, <1>2, <2>2, <3>2, InboxTyped DEF Got
    <3>6. ASSUME NEW i \in 1 .. Len(msgs'[c]), msgs'[c][i] # Null
          PROVE  msgs'[c][i] = Message(handle[c], b + Len(received[c]) + Held(c)' + i)
      <4>1. i + 1 \in 1 .. Len(msgs[c]) /\ msgs'[c][i] = msgs[c][i + 1]
        BY <2>2
      <4>2. b + Len(received[c]) + Held(c)' + i = b + Len(received[c]) + Held(c) + (i + 1)
        BY <1>0, <3>2, InboxTyped
      <4>. QED  BY <1>1, <3>6, <4>1, <4>2 DEF Line
    <3>7. Line(c, b)'
      BY <1>1, <1>2, <3>1, <3>4, <3>6 DEF Line
    <3>8. Follows(c, b)'
      BY <1>1, <1>2, <3>5 DEF Follows, Flow
    <3>9. InLine(c)'
      BY <3>7, <3>8 DEF InLine
    <3>. QED  BY <1>2, <2>4, <2>5, <2>6, <2>7, <3>9, OrderInbox
  <2>. QED  BY <2>8, <2>9
<1>. QED  BY <1>3, <1>4 DEF IsReadyToReceive, ReadyOrNot

\* The word of the end is put behind everything, once the receiver has stopped reading.
LEMMA OrderEnd ==
  ASSUME InOrder, Served', NotifyHandlers
  PROVE  InOrder'
<1>. USE DEF socket, tables, calls, server
<1>1. /\ receiver # "running" /\ receiver' # "running"
      /\ UNCHANGED <<frames, link, sent, handle, op, pc, handlers, received, current, peeking>>
  BY DEF NotifyHandlers, ChangedUnderWay
<1>2. \A ch \in Channels, d \in 1 .. MaxMessages + 1 : Flow(ch, d) => Flow(ch, d)'
  BY <1>1 DEF Flow
<1>3. CASE msgs' = msgs
  BY <1>1, <1>2, <1>3, OrderStill
<1>4. ASSUME NEW e, msgs' = [msgs EXCEPT ![e] = Append(@, Null)] PROVE InOrder'
  <2>0. msgs \in [Conns -> Seq(MessageFrames \union {Null})]
    BY DEF InOrder, Served, Typed
  <2>1. CASE e \notin Conns
    <3>1. msgs' = msgs
      BY <1>4, <2>0, <2>1
    <3>. QED  BY <1>1, <1>2, <3>1, OrderStill
  <2>2. CASE e \in Conns
    <3>0. /\ Typed /\ Silent(e) /\ EndsLast(e) /\ InLine(e) /\ Placed(e)
      BY <2>2 DEF InOrder, Served
    <3>1. /\ msgs[e] \in Seq(MessageFrames \union {Null}) /\ msgs'[e] = Append(msgs[e], Null)
          /\ \A c \in Conns \ {e} : msgs'[c] = msgs[c]
      BY <1>4, <2>0, <2>2
    <3>2. /\ Len(msgs'[e]) = Len(msgs[e]) + 1 /\ Len(msgs[e]) \in Nat
          /\ \A i \in 1 .. Len(msgs'[e]) :
               msgs'[e][i] = Null \/ (i \in 1 .. Len(msgs[e]) /\ msgs'[e][i] = msgs[e][i])
          /\ \A i \in 1 .. Len(msgs[e]) : msgs'[e][i] = msgs[e][i]
          /\ msgs'[e][Len(msgs[e]) + 1] = Null
      BY <3>1
    <3>3. Silent(e)'
      BY <1>1, <3>0, <3>2 DEF Silent
    <3>4. EndsLast(e)'
      <4>1. ASSUME NEW i \in 1 .. Len(msgs'[e]), msgs'[e][i] = Null, NEW j \in i .. Len(msgs'[e])
            PROVE  msgs'[e][j] = Null
        <5>1. CASE j = Len(msgs[e]) + 1
          BY <3>2, <5>1
        <5>2. CASE j # Len(msgs[e]) + 1
          <6>1. i \in 1 .. Len(msgs[e]) /\ j \in i .. Len(msgs[e]) /\ j \in 1 .. Len(msgs[e])
            BY <3>2, <5>2
          <6>. QED  BY <3>0, <3>2, <4>1, <6>1 DEF EndsLast
        <5>. QED  BY <5>1, <5>2
      <4>. QED  BY <1>1, <4>1 DEF EndsLast
    <3>5. PICK b \in 0 .. MaxMessages : Line(e, b)
      BY <3>0 DEF InLine
    <3>6. Line(e, b)' /\ Follows(e, b)'
      BY <1>1, <3>2, <3>5 DEF Line, Follows, Held
    <3>7. InLine(e)'
      BY <3>6 DEF InLine
    <3>8. peeking'[e] => current'[e] = NoFrame
      BY <1>1, <3>0 DEF Placed
    <3>. QED  BY <1>1, <2>2, <3>1, <3>3, <3>4, <3>7, <3>8, OrderInbox
  <2>. QED  BY <2>1, <2>2
<1>. QED  BY <1>3, <1>4 DEF NotifyHandlers

\* A message goes to the end of the queue of its channel's handler.
LEMMA OrderFrame ==
  ASSUME InOrder, Served', ReceiveFrame
  PROVE  InOrder'
<1>. USE DEF socket, calls, server
<1>. DEFINE f == Head(frames)
<1>0. /\ Typed /\ frames \in Seq(AFrame) /\ frames # <<>> /\ frames' = Tail(frames)
      /\ msgs \in [Conns -> Seq(MessageFrames \union {Null})]
      /\ \A ch \in Channels : sent[ch] \in Nat /\ handlers[ch] \in Conns \union {Nobody} /\ ch # 0
      /\ f \in AFrame
  <2>1. Typed /\ \A ch \in Channels : ch # 0
    BY ConnsFinite DEF InOrder, Served, Channels
  <2>2. frames \in Seq(AFrame) /\ frames # <<>> /\ frames' = Tail(frames)
    BY <2>1 DEF ReceiveFrame, Typed, AFrame
  <2>3. f \in AFrame
    BY <2>2, Rest
  <2>4. \A ch \in Channels : sent[ch] \in Nat /\ handlers[ch] \in Conns \union {Nobody}
    BY <2>1 DEF Typed
  <2>. QED  BY <2>1, <2>2, <2>3, <2>4 DEF Typed
<1>1. /\ receiver = "running" /\ receiver' = "running"
      /\ UNCHANGED <<link, sent, handle, op, pc, handlers, received, current, peeking>>
  BY DEF ReceiveFrame
<1>2. ASSUME NEW ch \in Channels, NEW d \in 1 .. MaxMessages + 1, Flow(ch, d)
      PROVE  /\ ~Of(f, ch) => Flow(ch, d)'
             /\ Of(f, ch) => /\ f = Message(ch, d) /\ d + 1 \in 1 .. MaxMessages + 1
                             /\ Flow(ch, d + 1)'
  <2>1. d \in Nat
    OBVIOUS
  <2>2. /\ ~Of(f, ch) => Flow(ch, d)'
        /\ Of(f, ch) => f = Message(ch, d) /\ d \in 1 .. MaxMessages /\ Flow(ch, d + 1)'
    BY <1>0, <1>1, <1>2, <2>1, FlowOut
  <2>. QED  BY <2>2, ProxyAssumption
<1>3. Flows'
  <2>1. ASSUME NEW ch \in Channels PROVE \E d \in 1 .. MaxMessages + 1 : Flow(ch, d)'
    <3>1. PICK d \in 1 .. MaxMessages + 1 : Flow(ch, d)
      BY DEF InOrder, Flows
    <3>. QED  BY <1>2, <3>1
  <2>. QED  BY <2>1 DEF Flows
<1>4. ASSUME NEW c \in Conns, msgs'[c] = msgs[c],
             \A ch \in Channels : handlers[ch] = c => ~Of(f, ch)
      PROVE  Placed(c)' /\ Silent(c)' /\ EndsLast(c)' /\ InLine(c)'
  <2>1. Placed(c) /\ Silent(c) /\ EndsLast(c) /\ InLine(c)
    BY DEF InOrder
  <2>2. \A ch \in Channels, d \in 1 .. MaxMessages + 1 :
          handlers[ch] = c /\ Flow(ch, d) => Flow(ch, d)'
    BY <1>2, <1>4
  <2>3. InLine(c)'
    BY <1>1, <1>4, <2>1, <2>2, LineStill
  <2>. QED  BY <1>1, <1>4, <2>1, <2>3 DEF Placed, Silent, EndsLast
<1>5. CASE msgs' = msgs /\ \A ch \in Channels : Of(f, ch) => handlers[ch] \notin Conns
  <2>1. \A c \in Conns : Placed(c)' /\ Silent(c)' /\ EndsLast(c)' /\ InLine(c)'
    BY <1>4, <1>5
  <2>. QED  BY <1>3, <2>1 DEF InOrder
<1>6. ASSUME NEW h \in Channels, NEW c \in Conns, Of(f, h), handlers[h] = c,
             msgs' = [msgs EXCEPT ![c] = Append(@, f)]
      PROVE  InOrder'
  <2>0. /\ Placed(c) /\ Silent(c) /\ EndsLast(c) /\ InLine(c)
    BY <1>6 DEF InOrder
  <2>1. /\ msgs[c] \in Seq(MessageFrames \union {Null}) /\ f \in MessageFrames
        /\ msgs'[c] = Append(msgs[c], f) /\ \A e \in Conns \ {c} : msgs'[e] = msgs[e]
    BY <1>0, <1>6, MessageOf
  <2>2. /\ Len(msgs[c]) \in Nat /\ Len(msgs'[c]) = Len(msgs[c]) + 1 /\ f # Null
        /\ \A i \in 1 .. Len(msgs[c]) : msgs'[c][i] = msgs[c][i]
        /\ msgs'[c][Len(msgs[c]) + 1] = f
        /\ \A i \in 1 .. Len(msgs'[c]) : i = Len(msgs[c]) + 1 \/ i \in 1 .. Len(msgs[c])
    BY <1>0, <1>6, <2>0, <2>1, InboxTyped
  <2>3. handle[c] = h /\ handle[c] # 0 /\ pc[c] # "listen"
    BY <1>0, <1>6, <2>0 DEF Placed
  <2>4. \A e \in Conns \ {c} : Placed(e)' /\ Silent(e)' /\ EndsLast(e)' /\ InLine(e)'
    <3>1. \A ch \in Channels : Of(f, ch) => ch = h
      BY <1>6 DEF Of
    <3>. QED  BY <1>4, <1>6, <2>1, <3>1
  <2>5. Placed(c)' /\ Silent(c)'
    BY <1>1, <2>0, <2>3 DEF Placed, Silent
  <2>6. EndsLast(c)'
    <3>1. \A i \in 1 .. Len(msgs'[c]) : msgs'[c][i] # Null
      BY <1>1, <2>0, <2>2 DEF EndsLast
    <3>. QED  BY <1>1, <3>1 DEF EndsLast
  <2>7. PICK b \in 0 .. MaxMessages : Line(c, b) /\ Follows(c, b)
    BY <2>0 DEF InLine
  <2>8. PICK d \in 1 .. MaxMessages + 1 : d = b + Got(c) + 1 /\ Flow(h, d)
    BY <1>1, <1>6, <2>7 DEF Follows
  <2>9. f = Message(h, d) /\ d + 1 \in 1 .. MaxMessages + 1 /\ Flow(h, d + 1)'
    BY <1>2, <1>6, <2>8
  <2>10. Line(c, b)'
    <3>1. d = b + Len(received[c]) + Held(c) + (Len(msgs[c]) + 1)
      <4>1. Len(received[c]) \in Int /\ Held(c) \in Int /\ Len(msgs[c]) \in Int /\ b \in Int
        BY <1>0, <1>6, InboxTyped
      <4>2. PICK x, y, z \in Int : x = Len(received[c]) /\ y = Held(c) /\ z = Len(msgs[c])
        BY <4>1
      <4>3. b + (x + y + z) + 1 = b + x + y + (z + 1)
        BY <4>1
      <4>4. d = b + (x + y + z) + 1
        BY <2>8, <4>2 DEF Got
      <4>. QED  BY <4>2, <4>3, <4>4
    <3>2. ASSUME NEW i \in 1 .. Len(msgs'[c]), msgs'[c][i] # Null
          PROVE  msgs'[c][i] = Message(handle[c], b + Len(received[c]) + Held(c) + i)
      BY <2>2, <2>3, <2>7, <2>9, <3>1, <3>2 DEF Line
    <3>. QED  BY <1>1, <2>7, <3>2 DEF Line, Held
  <2>11. Follows(c, b)'
    <3>1. d + 1 = b + Got(c)' + 1
      <4>1. Len(received[c]) \in Nat /\ Held(c) \in {0, 1} /\ b \in Int /\ d \in Int
        BY <1>0, <1>6, InboxTyped
      <4>2. Held(c)' = Held(c) /\ Len(msgs'[c]) = Len(msgs[c]) + 1
        BY <1>1, <2>2 DEF Held
      <4>3. Got(c)' = Got(c) + 1 /\ Got(c) \in Int
        <5>1. Len(received'[c]) = Len(received[c]) /\ Len(msgs[c]) \in Int
          BY <1>1, <2>2
        <5>2. Got(c)' = Len(received[c]) + Held(c) + (Len(msgs[c]) + 1)
          BY <4>2, <5>1 DEF Got
        <5>3. Got(c) = Len(received[c]) + Held(c) + Len(msgs[c])
          BY DEF Got
        <5>4. Len(received[c]) \in Int /\ Held(c) \in Int
          BY <4>1
        <5>5. /\ Len(received[c]) + Held(c) + (Len(msgs[c]) + 1)
                   = Len(received[c]) + Held(c) + Len(msgs[c]) + 1
              /\ Len(received[c]) + Held(c) + Len(msgs[c]) \in Int
          BY <5>1, <5>4
        <5>. QED  BY <5>2, <5>3, <5>5, Zenon
      <4>. QED  BY <2>8, <4>1, <4>3
    <3>2. \A ch \in Channels : handlers[ch] = c => ch = h
      BY <2>0, <2>3 DEF Placed
    <3>. QED  BY <1>1, <2>9, <3>1, <3>2 DEF Follows
  <2>12. InLine(c)'
    BY <2>10, <2>11 DEF InLine
  <2>. QED  BY <1>3, <2>4, <2>5, <2>6, <2>12 DEF InOrder
<1>7. CASE DispatchReturn(f)
  BY <1>5, <1>7 DEF DispatchReturn, Of
<1>8. CASE DispatchMessage(f)
  <2>1. Of(f, f.ch) /\ f.ch \in Channels
    BY <1>0, <1>8, MessageOf DEF DispatchMessage, Of
  <2>2. CASE handlers[f.ch] = Nobody
    <3>1. \A ch \in Channels : Of(f, ch) => handlers[ch] \notin Conns
      BY <2>2, ProxyAssumption DEF Of
    <3>. QED  BY <1>5, <1>8, <2>2, <3>1 DEF DispatchMessage
  <2>3. CASE handlers[f.ch] # Nobody
    BY <1>0, <1>6, <1>8, <2>1, <2>3 DEF DispatchMessage
  <2>. QED  BY <2>2, <2>3
<1>. QED  BY <1>7, <1>8 DEF ReceiveFrame, Dispatch

\* A connection that opens is given its channel, and nothing yet.
LEMMA OrderReply ==
  ASSUME InOrder, Served', NEW c \in Conns, GetReply(c)
  PROVE  InOrder'
<1>. USE DEF around, socket, reader, tables, inbox, server
<1>0. /\ Typed /\ Placed(c) /\ pc \in [Conns -> Places]
      /\ handle \in [Conns -> {0} \union Channels]
      /\ \A e \in Conns : Placed(e) /\ Silent(e) /\ EndsLast(e) /\ InLine(e)
  BY DEF InOrder, Served, Typed
<1>1. /\ UNCHANGED <<receiver, frames, link, sent, msgs, current, peeking, received, handlers, op>>
      /\ pc[c] = "await"
  BY DEF GetReply
<1>2. \A e \in Conns \ {c} : pc'[e] = pc[e] /\ handle'[e] = handle[e]
  BY <1>0 DEF GetReply, CallEnds, Goto
<1>3. pc'[c] \in {"failed", "unlisten", "listen"} /\ (pc'[c] = "listen" => op[c] = "open")
  <2>1. \/ op[c] \in {"open", "close"} /\ (CallEnds(c, "ok") \/ CallEnds(c, "ioerror"))
        \/ CallEnds(c, "typeerror") \/ CallEnds(c, "serviceerror")
    BY DEF GetReply
  <2>. QED  BY <1>0, <2>1 DEF CallEnds, Goto
<1>4. \A ch \in Channels, d \in 1 .. MaxMessages + 1 : Flow(ch, d) => Flow(ch, d)'
  BY <1>1 DEF Flow
<1>5. Flows'
  BY <1>4 DEF InOrder, Flows
<1>6. ASSUME NEW e \in Conns \ {c} PROVE Placed(e)' /\ Silent(e)' /\ EndsLast(e)' /\ InLine(e)'
  <2>1. InLine(e)'
    BY <1>0, <1>1, <1>2, <1>4, LineStill
  <2>. QED  BY <1>0, <1>1, <1>2, <2>1 DEF Placed, Silent, EndsLast
<1>7. EndsLast(c)'
  BY <1>0, <1>1 DEF EndsLast
<1>8. CASE handle' = handle /\ pc'[c] # "listen"
  <2>1. InLine(c)'
    BY <1>0, <1>1, <1>4, <1>8, LineStill
  <2>2. Placed(c)' /\ Silent(c)'
    BY <1>0, <1>1, <1>3, <1>8 DEF Placed, Silent
  <2>. QED  BY <1>5, <1>6, <1>7, <2>1, <2>2 DEF InOrder
<1>9. CASE pc'[c] = "listen" /\ op[c] = "open"
  <2>1. /\ received[c] = <<>> /\ current[c] = NoFrame
        /\ \A i \in 1 .. Len(msgs[c]) : msgs[c][i] = Null
        /\ \A ch \in Channels : handlers[ch] # c
    BY <1>0, <1>1, <1>9 DEF Placed, Silent
  <2>2. Silent(c)' /\ Placed(c)'
    BY <1>0, <1>1, <1>9, <2>1 DEF Silent, Placed
  <2>3. Line(c, 0)' /\ Follows(c, 0)'
    BY <1>1, <2>1 DEF Line, Follows
  <2>4. InLine(c)'
    <3>1. 0 \in 0 .. MaxMessages
      BY ProxyAssumption
    <3>. QED  BY <2>3, <3>1 DEF InLine
  <2>. QED  BY <1>5, <1>6, <1>7, <2>2, <2>4 DEF InOrder
<1>10. \/ handle' = handle /\ pc'[c] # "listen"
       \/ pc'[c] = "listen" /\ op[c] = "open"
  <2>1. pc'[c] = "listen" \/ handle' = handle
    <3>1. CASE CallEnds(c, "ok") /\ op[c] = "open"
      BY <1>0, <3>1 DEF CallEnds, Goto
    <3>2. CASE handle' = handle
      BY <3>2
    <3>. QED  BY <3>1, <3>2 DEF GetReply
  <2>. QED  BY <1>3, <2>1
<1>. QED  BY <1>8, <1>9, <1>10

\* A connection that starts to listen waits for whatever comes next on its channel.
LEMMA OrderListen ==
  ASSUME InOrder, Served', NEW c \in Conns, Listen(c)
  PROVE  InOrder'
<1>. USE DEF around, socket, reader, tables, inbox, server, Goto
<1>0. /\ Typed /\ Placed(c) /\ pc \in [Conns -> Places]
      /\ handle \in [Conns -> {0} \union Channels]
      /\ handlers \in [Channels -> Conns \union {Nobody}]
      /\ \A e \in Conns : Placed(e) /\ Silent(e) /\ EndsLast(e) /\ InLine(e)
  BY DEF InOrder, Served, Typed
<1>1. /\ UNCHANGED <<receiver, frames, link, sent, msgs, current, peeking, received, handle, op>>
      /\ pc[c] = "listen" /\ pc'[c] = "open" /\ op[c] = "open"
      /\ \A e \in Conns \ {c} : pc'[e] = pc[e]
  BY <1>0 DEF Listen, Placed
<1>2. \A ch \in Channels : handlers'[ch] = (IF ch = handle[c] THEN c ELSE handlers[ch])
  BY <1>0 DEF Listen
<1>3. \A ch \in Channels, d \in 1 .. MaxMessages + 1 : Flow(ch, d) => Flow(ch, d)'
  BY <1>1 DEF Flow
<1>4. Flows'
  BY <1>3 DEF InOrder, Flows
<1>5. ASSUME NEW e \in Conns \ {c} PROVE Placed(e)' /\ Silent(e)' /\ EndsLast(e)' /\ InLine(e)'
  <2>1. \A ch \in Channels : handlers'[ch] = e => handlers[ch] = e
    BY <1>2, <1>5
  <2>2. InLine(e)'
    BY <1>0, <1>1, <1>3, <2>1, LineStill
  <2>. QED  BY <1>0, <1>1, <2>1, <2>2 DEF Placed, Silent, EndsLast
<1>6. EndsLast(c)' /\ Placed(c)' /\ Silent(c)'
  BY <1>0, <1>1, <1>2 DEF EndsLast, Placed, Silent
<1>7. /\ received[c] = <<>> /\ current[c] = NoFrame
      /\ \A i \in 1 .. Len(msgs[c]) : msgs[c][i] = Null
      /\ \A ch \in Channels : handlers[ch] # c
  BY <1>0, <1>1 DEF Silent, Placed
<1>8. CASE handle[c] \in Channels
  <2>1. PICK d \in 1 .. MaxMessages + 1 : Flow(handle[c], d)
    BY <1>8 DEF InOrder, Flows
  <2>. DEFINE b == d - 1
  <2>2. b \in 0 .. MaxMessages /\ d \in Int
    BY ProxyAssumption
  <2>3. Line(c, b)'
    BY <1>1, <1>7 DEF Line
  <2>4. Follows(c, b)'
    <3>1. SUFFICES ASSUME receiver = "running"
                   PROVE  \A ch \in Channels : handlers'[ch] = c =>
                            \E e \in 1 .. MaxMessages + 1 : e = b + Got(c)' + 1 /\ Flow(ch, e)'
      BY <1>1 DEF Follows
    <3>2. Len(msgs[c]) = 0
      <4>1. Len(msgs[c]) \in Nat
        BY <1>0, InboxTyped
      <4>2. 1 \notin 1 .. Len(msgs[c])
        BY <1>0, <1>7, <3>1 DEF EndsLast
      <4>. QED  BY <4>1, <4>2
    <3>3. Got(c)' = 0
      BY <1>1, <1>7, <3>2 DEF Got, Held
    <3>4. d = b + Got(c)' + 1
      BY <2>2, <3>3
    <3>5. \A ch \in Channels : handlers'[ch] = c => ch = handle[c]
      BY <1>2, <1>7
    <3>. QED  BY <1>3, <2>1, <3>4, <3>5
  <2>5. InLine(c)'
    BY <2>2, <2>3, <2>4 DEF InLine
  <2>. QED  BY <1>4, <1>5, <1>6, <2>5 DEF InOrder
<1>9. CASE handle[c] \notin Channels
  <2>1. \A ch \in Channels : handlers'[ch] = c => handlers[ch] = c
    BY <1>2, <1>9
  <2>2. InLine(c)'
    BY <1>0, <1>1, <1>3, <2>1, LineStill
  <2>. QED  BY <1>4, <1>5, <1>6, <2>2 DEF InOrder
<1>. QED  BY <1>8, <1>9

\* The other steps of a call.
LEMMA OrderCall ==
  ASSUME InOrder, Served', NEW c \in Conns,
         \/ BeginOpen(c) \/ BeginClose(c) \/ DrawId(c) \/ ExpectReturn(c) \/ SendCall(c)
         \/ CheckAfterSend(c) \/ Unlisten(c)
  PROVE  InOrder'
<1>. USE DEF around, socket, reader, tables, inbox, server, Goto
<1>0. /\ pc \in [Conns -> Places] /\ op \in [Conns -> {"none", "open", "close"}]
      /\ handlers \in [Channels -> Conns \union {Nobody}]
      /\ \A e \in Conns : Placed(e)
  BY DEF InOrder, Served, Typed
<1>1. UNCHANGED <<receiver, frames, link, sent, handle, msgs, current, peeking, received>>
  BY DEF BeginOpen, BeginClose, DrawId, ExpectReturn, SendCall, CheckAfterSend, Unlisten
<1>2. \A e \in Conns \ {c} : pc'[e] = pc[e] /\ op'[e] = op[e]
  <2>1. CASE BeginOpen(c) \/ BeginClose(c)
    BY <1>0, <2>1 DEF BeginOpen, BeginClose
  <2>2. CASE DrawId(c) \/ ExpectReturn(c) \/ Unlisten(c)
    BY <1>0, <2>2 DEF DrawId, ExpectReturn, Unlisten
  <2>3. CASE SendCall(c) \/ CheckAfterSend(c)
    BY <1>0, <2>3 DEF SendCall, CheckAfterSend, CallEnds
  <2>. QED  BY <2>1, <2>2, <2>3
<1>3. \A e \in Conns, ch \in Channels : handlers'[ch] = e => handlers[ch] = e
  <2>1. CASE Unlisten(c)
    <3>1. \A ch \in Channels : handlers'[ch] = handlers[ch] \/ handlers'[ch] = Nobody
      BY <1>0, <2>1 DEF Unlisten
    <3>. QED  BY <3>1, ProxyAssumption
  <2>2. CASE handlers' = handlers
    BY <2>2
  <2>. QED  BY <2>1, <2>2 DEF BeginOpen, BeginClose, DrawId, ExpectReturn, SendCall, CheckAfterSend
<1>4. \/ pc[c] = "new" /\ op'[c] = "open" /\ pc'[c] \in {"draw", "failed"}
      \/ pc[c] = "open" /\ op'[c] = "close" /\ pc'[c] \in {"draw", "unlisten"}
      \/ /\ pc[c] \in {"draw", "register", "send", "check", "unlisten"} /\ op'[c] = op[c]
         /\ pc'[c] \in {"register", "send", "check", "await", "failed", "closed"}
  <2>1. CASE BeginOpen(c) \/ BeginClose(c)
    BY <1>0, <2>1 DEF BeginOpen, BeginClose
  <2>2. CASE DrawId(c) \/ ExpectReturn(c) \/ Unlisten(c)
    BY <1>0, <2>2 DEF DrawId, ExpectReturn, Unlisten
  <2>3. CASE SendCall(c)
    BY <1>0, <2>3 DEF SendCall, CallEnds
  <2>4. CASE CheckAfterSend(c)
    BY <1>0, <2>4 DEF CheckAfterSend, CallEnds
  <2>. QED  BY <2>1, <2>2, <2>3, <2>4
<1>5. Placed(c)' /\ pc'[c] # "listen"
  BY <1>0, <1>1, <1>3, <1>4 DEF Placed
<1>6. \A e \in Conns : Placed(e)' /\ (pc'[e] = "listen" => pc[e] = "listen")
  BY <1>0, <1>1, <1>2, <1>3, <1>5 DEF Placed
<1>. QED  BY <1>1, <1>3, <1>6, OrderCalls

\* The steps of the receiver thread that hand out nothing, and those around it.
LEMMA OrderOutside ==
  ASSUME InOrder, Served',
         \/ ReceiveDisconnected \/ NotifyReturns \/ ReceiverStops
         \/ DestroyMarks \/ DestroyCloses \/ Serve \/ ServeMessage \/ DropLink
  PROVE  InOrder'
<1>. USE DEF users, tables, calls, inbox, socket, reader, server
<1>0. /\ Typed /\ frames \in Seq(AFrame) /\ open \subseteq Channels
      /\ sent \in [Channels -> 0 .. MaxMessages] /\ \A ch \in Channels : sent[ch] \in Nat
  <2>1. Typed
    BY DEF InOrder, Served
  <2>2. /\ frames \in Seq(AFrame) /\ open \subseteq Channels
        /\ sent \in [Channels -> 0 .. MaxMessages]
    BY <2>1, Zenon DEF Typed, AFrame
  <2>3. \A ch \in Channels : sent[ch] \in Nat
    BY <2>2
  <2>. QED BY <2>1, <2>2, <2>3
<1>1. UNCHANGED <<handle, msgs, current, peeking, received, op, pc, handlers>>
  BY DEF ReceiveDisconnected, NotifyReturns, ReceiverStops, DestroyMarks, DestroyCloses, Serve,
         ServeOpen, ServeClose, ServeMessage, DropLink
<1>2. receiver' = "running" => receiver = "running"
  BY DEF ReceiveDisconnected, NotifyReturns, ReceiverStops, DestroyMarks, DestroyCloses, Serve,
         ServeOpen, ServeClose, ServeMessage, DropLink, ChangedUnderWay
<1>3. ASSUME NEW ch \in Channels, NEW d \in 1 .. MaxMessages + 1, Flow(ch, d) PROVE Flow(ch, d)'
  <2>0. d \in Nat
    OBVIOUS
  <2>1. CASE ReceiveDisconnected \/ NotifyReturns \/ ReceiverStops \/ DestroyMarks
    <3>1. UNCHANGED <<frames, sent, link>>
      BY <2>1 DEF ReceiveDisconnected, NotifyReturns, ReceiverStops, DestroyMarks
    <3>. QED  BY <1>3, <2>0, <3>1, FlowStill
  <2>2. CASE DestroyCloses
    <3>1. 0 \in 0 .. Len(frames) /\ frames' = SubSeq(frames, 1, 0) /\ link' = "down"
      BY <1>0, <2>2, SubSeqEmpty DEF DestroyCloses
    <3>. QED  BY <1>0, <1>3, <2>0, <3>1, FlowLost
  <2>3. CASE DropLink
    BY <1>0, <1>3, <2>0, <2>3, FlowLost DEF DropLink
  <2>4. ASSUME NEW f \in Returns, frames' = Append(frames, f), sent' = sent, link' = link
        PROVE  Flow(ch, d)'
    <3>1. f \in AFrame /\ ~Of(f, ch)
      BY DEF AFrame, Of, Returns, Return, Error
    <3>. QED  BY <1>0, <1>3, <2>0, <2>4, <3>1, FlowIn
  <2>5. CASE ServeMessage
    <3>1. PICK e \in open : /\ sent[e] < MaxMessages /\ sent' = [sent EXCEPT ![e] = @ + 1]
                            /\ frames' = Append(frames, Message(e, sent[e] + 1))
      BY <2>5 DEF ServeMessage
    <3>2. e \in Channels /\ sent[e] + 1 \in 1 .. MaxMessages
      BY <1>0, <3>1, ProxyAssumption
    <3>3. Message(e, sent[e] + 1) \in AFrame
      BY <3>2 DEF AFrame, MessageFrames
    <3>4. link' = link /\ link = "up"
      BY <2>5 DEF ServeMessage
    <3>5. CASE e = ch
      <4>1. sent'[ch] = sent[ch] + 1
        BY <1>0, <3>1, <3>2, <3>5
      <4>. QED  BY <1>0, <1>3, <2>0, <3>1, <3>3, <3>4, <3>5, <4>1, FlowIn
    <3>6. CASE e # ch
      <4>1. sent'[ch] = sent[ch] /\ ~Of(Message(e, sent[e] + 1), ch)
        BY <1>0, <3>1, <3>2, <3>6, MessageOf
      <4>. QED  BY <1>0, <1>3, <2>0, <3>1, <3>3, <3>4, <4>1, FlowIn
    <3>. QED  BY <3>5, <3>6
  <2>6. CASE Serve
    <3>1. PICK f : frames' = Append(frames, f) /\ f.kind # "msg"
      BY <2>6 DEF Serve, ServeOpen, ServeClose, Return, Error
    <3>2. sent' = sent /\ link' = link
      BY <2>6 DEF Serve, ServeOpen, ServeClose
    <3>3. f \in Returns
      <4>1. frames' \in Seq(MessageFrames \union Returns)
        BY DEF Served, Typed
      <4>2. frames'[Len(frames) + 1] = f /\ Len(frames) + 1 \in 1 .. Len(frames')
        BY <1>0, <3>1
      <4>3. f \in MessageFrames \union Returns
        BY <4>1, <4>2
      <4>. QED  BY <3>1, <4>3 DEF MessageFrames, Message
    <3>. QED  BY <2>4, <3>1, <3>2, <3>3
  <2>. QED  BY <2>1, <2>2, <2>3, <2>5, <2>6
<1>. QED  BY <1>1, <1>2, <1>3, OrderStill

\* The order holds to begin with.
LEMMA InitInOrder == Init => InOrder
<1>. SUFFICES ASSUME Init PROVE InOrder
  OBVIOUS
<1>0. MaxMessages \in Nat /\ 0 \in 0 .. MaxMessages /\ 1 \in 1 .. MaxMessages + 1
  BY ProxyAssumption
<1>1. Typed
  BY <1>0 DEF Init, Typed, Places
<1>2. Channeling
  <2>1. {ch \in Channels : owner[ch] # Nobody} = {}
    BY DEF Init
  <2>2. NextChannel = 1
    BY <2>1, FS_EmptySet DEF NextChannel
  <2>. QED  BY <2>2 DEF Init, Channeling, Channels
<1>3. AskedOnce
  BY ProxyAssumption DEF Init, AskedOnce, Unserved
<1>4. Flows
  <2>1. \A ch \in Channels : Flow(ch, 1)
    BY DEF Init, Flow
  <2>. QED  BY <1>0, <2>1 DEF Flows
<1>5. ASSUME NEW c \in Conns PROVE Placed(c) /\ Silent(c) /\ EndsLast(c) /\ InLine(c)
  <2>1. Placed(c) /\ Silent(c) /\ EndsLast(c)
    BY ProxyAssumption DEF Init, Placed, Silent, EndsLast
  <2>2. Line(c, 0) /\ Follows(c, 0)
    BY ProxyAssumption DEF Init, Line, Follows
  <2>. QED  BY <1>0, <2>1, <2>2 DEF InLine
<1>. QED  BY <1>1, <1>2, <1>3, <1>4, <1>5 DEF InOrder, Served

\* Every step keeps the order, if recv_data does not raise.
LEMMA InOrderStep ==
  ASSUME InOrder, faults = 0, MaxFaults = 0, [Next]_vars
  PROVE  InOrder' /\ faults' = 0
<1>1. Served'
  BY ServedStep DEF InOrder
<1>2. ~ReceiveRaises
  BY DEF ReceiveRaises
<1>3. InOrder'
  <2>1. CASE UNCHANGED vars
    <3>1. \A ch \in Channels, d \in 1 .. MaxMessages + 1 : Flow(ch, d) => Flow(ch, d)'
      BY <2>1 DEF Flow, vars, socket, server
    <3>2. /\ UNCHANGED <<handle, msgs, current, peeking, received, op, pc, handlers>>
          /\ receiver' = receiver
      BY <2>1 DEF vars, tables, calls, inbox, reader
    <3>. QED  BY <1>1, <3>1, <3>2, OrderStill
  <2>2. ASSUME NEW c \in Conns, BeginOpen(c) \/ BeginClose(c) \/ Calling(c) PROVE InOrder'
    BY <1>1, <2>2, OrderCall, OrderReply, OrderListen DEF Calling
  <2>3. ASSUME NEW c \in Conns, Receiving(c) PROVE InOrder'
    BY <1>1, <2>3, OrderReceive, OrderReady DEF Receiving
  <2>4. CASE Receiver
    BY <1>1, <2>4, OrderFrame, OrderEnd, OrderOutside DEF Receiver
  <2>5. CASE DestroyMarks \/ DestroyCloses \/ Serve \/ ServeMessage \/ DropLink
    BY <1>1, <2>5, OrderOutside
  <2>. QED  BY <1>2, <2>1, <2>2, <2>3, <2>4, <2>5 DEF Next
<1>4. faults' = 0
  <2>. USE DEF around, outside, users, socket, reader, tables, calls, inbox, server
  <2>1. CASE UNCHANGED vars
    BY <2>1 DEF vars
  <2>2. ASSUME NEW c \in Conns, BeginOpen(c) \/ BeginClose(c) \/ Calling(c) PROVE faults' = 0
    BY <2>2 DEF BeginOpen, BeginClose, Calling, DrawId, ExpectReturn, SendCall, CheckAfterSend,
                GetReply, Listen, Unlisten
  <2>3. ASSUME NEW c \in Conns, Receiving(c) PROVE faults' = 0
    BY <2>3 DEF Receiving, Receive, IsReadyToReceive, ReadyOrNot
  <2>4. CASE Receiver
    BY <2>4 DEF Receiver, ReceiveFrame, ReceiveDisconnected, NotifyReturns, NotifyHandlers,
                ReceiverStops
  <2>5. CASE DestroyMarks \/ DestroyCloses \/ Serve \/ ServeMessage \/ DropLink
    BY <2>5 DEF DestroyMarks, DestroyCloses, Serve, ServeOpen, ServeClose, ServeMessage, DropLink
  <2>. QED  BY <1>2, <2>1, <2>2, <2>3, <2>4, <2>5 DEF Next
<1>. QED  BY <1>3, <1>4

\* As long as recv_data raises no exception, receiving on a proxied connection returns the
\* messages of its own channel, each once, in the order sent and with no gap, for every
\* number of connections and messages, whether or not drawing an id can be split, the
\* link drops or the job is destroyed.
THEOREM OrderKept == ASSUME MaxFaults = 0 PROVE Spec => []ReceivedInOrder
<1>1. Init => InOrder /\ faults = 0
  BY InitInOrder DEF Init
<1>2. (InOrder /\ faults = 0) /\ [Next]_vars => (InOrder /\ faults = 0)'
  BY InOrderStep
<1>3. InOrder => ReceivedInOrder
  <2>. SUFFICES ASSUME InOrder, NEW c \in Conns, NEW i \in 1 .. Len(received[c])
                PROVE  /\ received[c][i].ch = handle[c]
                       /\ i > 1 => received[c][i].n = received[c][i - 1].n + 1
    BY DEF ReceivedInOrder
  <2>1. PICK b \in 0 .. MaxMessages : Line(c, b)
    BY DEF InOrder, InLine
  <2>2. Len(received[c]) \in Nat
    BY InboxTyped DEF InOrder, Served
  <2>3. received[c][i] = Message(handle[c], b + i)
    BY <2>1 DEF Line
  <2>4. i > 1 => received[c][i - 1] = Message(handle[c], b + (i - 1))
    <3>1. i > 1 => i - 1 \in 1 .. Len(received[c])
      BY <2>2
    <3>. QED  BY <2>1, <3>1 DEF Line
  <2>5. b + i = (b + (i - 1)) + 1
    OBVIOUS
  <2>. QED  BY <2>3, <2>4, <2>5 DEF Message
<1>. QED  BY <1>1, <1>2, <1>3, PTL DEF Spec

===============================================================================
