---------------------- MODULE ConnectionListeningProofs ----------------------
(* Theorems about ConnectionListening: what the listener hands to its callbacks,*)
(* what holds after close(), and that a callback is given what was sent.  The   *)
(* last rests on theorems about the messages: what is read of the bytes of a    *)
(* message is the message.  The recursive functions that make these bytes (the  *)
(* bits of a number, parts put together) are reasoned about by induction, for   *)
(* a set of numbers (NatInductive), and by their equations (Recursion).         *)
EXTENDS ConnectionListening, FiniteSetTheorems, SequenceTheorems, WellFoundedInduction, TLAPS

-----------------------------------------------------------------------------
(* The invariant                                                           *)

\* the callbacks that there may be, the numbers of datagrams, and the tasks of the pool
Callback == {Given[i] : i \in DOMAIN Given} \cup Late
Datagram == Nat \ {0}
Task == Callback \X Datagram

IsRunning(t) ==
  /\ DOMAIN t = {"callback", "datagram", "got"}
  /\ t.callback \in Callback /\ t.datagram \in Datagram

Types ==
  /\ arrived \in Seq(DOMAIN Traffics[traffic])
  /\ socket \in Seq(Datagram)
  /\ callbacks \in Seq(Callback)
  /\ current \in Nat /\ next \in Nat \ {0}
  /\ tasks \in Seq(Task)
  /\ DOMAIN running = Workers
  /\ \A w \in Workers : running[w] = Idle \/ IsRunning(running[w])
  /\ pc \in {"new", "check", "select", "receive", "dispatch", "shutdown", "ended"}

Distinct(s) == \A i, j \in 1 .. Len(s) : s[i] = s[j] => i = j

\* datagrams are numbered as they come; those in the socket have not been taken
Numbered ==
  /\ DOMAIN due \subseteq 1 .. Len(arrived)
  /\ \A i \in 1 .. Len(socket) : socket[i] <= Len(arrived) /\ socket[i] \notin DOMAIN due
  /\ Distinct(socket)

\* the thread receives only what is there, unless the connection is closed
Waiting == pc = "receive" /\ open => socket # <<>>

\* callbacks are added at the end, and only once; those that there were when a
\* message was taken are the first of those that there are
Registered ==
  /\ Distinct(callbacks)
  /\ \A n \in DOMAIN due :
       /\ due[n] \in Seq(Callback) /\ Len(due[n]) <= Len(callbacks)
       /\ \A i \in 1 .. Len(due[n]) : due[n][i] = callbacks[i]

\* the loop over the callbacks, or no message
Turn ==
  IF pc = "dispatch" THEN current \in DOMAIN due /\ next <= Len(callbacks) + 1
  ELSE current = 0

\* the tasks that are run, and all that have been handed out so far
Now == {TaskOf(running[w]) : w \in Running}
Handed == Tasks \cup Now \cup Called

\* what has been handed out was: messages that were taken, for callbacks that there
\* are, in the loop under way only for those that had their turn
Turns ==
  \A t \in Handed :
    /\ t[2] \in DOMAIN due
    /\ \E i \in 1 .. Len(callbacks) : t[1] = callbacks[i] /\ (t[2] = current => i < next)

\* and everything that had its turn has been handed out
AllHanded ==
  \A n \in DOMAIN due : \A i \in 1 .. Len(due[n]) :
    (n = current => i < next) => <<due[n][i], n>> \in Handed

\* no task is in two places, or twice in one
Once ==
  /\ Distinct(tasks)
  /\ \A v, w \in Running : TaskOf(running[v]) = TaskOf(running[w]) => v = w
  /\ Tasks \cap Now = {}
  /\ (Tasks \cup Now) \cap Called = {}

\* the pool is empty when the thread has ended, and close() returns after that
Ended ==
  /\ pc = "ended" => tasks = <<>> /\ Running = {}
  /\ closing = "returned" => pc = "ended"

\* The inductive invariant.
IInv ==
  /\ Types /\ Numbered /\ Waiting /\ Registered /\ Turn
  /\ Turns /\ AllHanded /\ Once /\ Ended

-----------------------------------------------------------------------------
(* Sequences and cardinalities                                             *)

\* the set of the elements of a sequence
Elements(s) == {s[i] : i \in 1 .. Len(s)}

\* What Append adds to a sequence.
LEMMA AppendFacts ==
  ASSUME NEW S, NEW s \in Seq(S), NEW x \in S
  PROVE  /\ Append(s, x) \in Seq(S) /\ Len(Append(s, x)) = Len(s) + 1 /\ Len(s) \in Nat
         /\ \A i \in 1 .. Len(s) : Append(s, x)[i] = s[i]
         /\ Append(s, x)[Len(s) + 1] = x
         /\ Elements(Append(s, x)) = Elements(s) \cup {x}
         /\ Distinct(s) /\ x \notin Elements(s) => Distinct(Append(s, x))
<1>. DEFINE l == Len(s)
            a == Append(s, x)
<1>1. /\ a \in Seq(S) /\ Len(a) = l + 1 /\ l \in Nat
      /\ \A i \in 1 .. l : a[i] = s[i]
      /\ a[l + 1] = x
  OBVIOUS
<1>. HIDE DEF a, l
<1>2. \A i \in 1 .. l + 1 : i \in 1 .. l \/ i = l + 1
  BY <1>1
<1>3. \A i \in 1 .. l : i \in 1 .. l + 1
  BY <1>1
<1>3a. l + 1 \in 1 .. l + 1
  BY <1>1
<1>4. Elements(a) = {s[i] : i \in 1 .. l} \cup {x}
  BY <1>1, <1>2, <1>3, <1>3a DEF Elements
<1>5. ASSUME Distinct(s), x \notin Elements(s)
      PROVE  Distinct(a)
  <2>. SUFFICES ASSUME NEW i \in 1 .. l + 1, NEW j \in 1 .. l + 1, a[i] = a[j]
                PROVE  i = j
    BY <1>1 DEF Distinct
  <2>1. \A m \in 1 .. l : s[m] # x
    BY <1>5 DEF Elements, l
  <2>2. \A m, n \in 1 .. l : s[m] = s[n] => m = n
    BY <1>5 DEF Distinct, l
  <2>. QED BY <1>1, <1>2, <2>1, <2>2
<1>. QED BY <1>1, <1>4, <1>5 DEF a, l, Elements

\* What Head and Tail take apart.
LEMMA TailFacts ==
  ASSUME NEW S, NEW s \in Seq(S), s # <<>>
  PROVE  /\ Head(s) \in S /\ Tail(s) \in Seq(S) /\ Len(Tail(s)) = Len(s) - 1 /\ Len(s) \in Nat \ {0}
         /\ Head(s) = s[1]
         /\ \A i \in 1 .. Len(s) - 1 : Tail(s)[i] = s[i + 1]
         /\ Elements(s) = Elements(Tail(s)) \cup {Head(s)}
         /\ Distinct(s) => Distinct(Tail(s)) /\ Head(s) \notin Elements(Tail(s))
<1>. DEFINE l == Len(s)
            t == Tail(s)
            h == Head(s)
<1>1. /\ h \in S /\ t \in Seq(S) /\ Len(t) = l - 1 /\ l \in Nat \ {0}
      /\ h = s[1]
      /\ \A i \in 1 .. l - 1 : t[i] = s[i + 1]
  OBVIOUS
<1>. HIDE DEF l, t, h
<1>2. \A i \in 1 .. l : i = 1 \/ (i - 1 \in 1 .. l - 1 /\ (i - 1) + 1 = i)
  BY <1>1
<1>3. 1 \in 1 .. l /\ \A i \in 1 .. l - 1 : i + 1 \in 1 .. l /\ i + 1 # 1
  BY <1>1
<1>4. Elements(t) \cup {h} = {s[i] : i \in 1 .. l}
  <2>1. \A i \in 1 .. l : s[i] \in Elements(t) \cup {h}
    <3>. SUFFICES ASSUME NEW i \in 1 .. l PROVE s[i] \in Elements(t) \cup {h}
      OBVIOUS
    <3>1. CASE i = 1
      BY <1>1, <3>1
    <3>2. CASE i - 1 \in 1 .. l - 1 /\ (i - 1) + 1 = i
      <4>1. t[i - 1] = s[i]
        BY <1>1, <3>2
      <4>. QED BY <1>1, <3>2, <4>1 DEF Elements
    <3>. QED BY <1>2, <3>1, <3>2
  <2>2. \A i \in 1 .. l - 1 : t[i] \in {s[j] : j \in 1 .. l}
    BY <1>1, <1>3
  <2>3. h \in {s[j] : j \in 1 .. l}
    BY <1>1, <1>3
  <2>4. Elements(t) \subseteq {s[j] : j \in 1 .. l}
    BY <1>1, <2>2 DEF Elements
  <2>. QED BY <2>1, <2>3, <2>4
<1>5. ASSUME Distinct(s)
      PROVE  Distinct(t) /\ h \notin Elements(t)
  <2>1. \A i, j \in 1 .. l : s[i] = s[j] => i = j
    BY <1>5 DEF Distinct, l
  <2>2. ASSUME NEW i \in 1 .. l - 1, NEW j \in 1 .. l - 1, t[i] = t[j]
        PROVE  i = j
    <3>1. i + 1 = j + 1
      BY <1>1, <1>3, <2>1, <2>2
    <3>. QED BY <1>1, <3>1
  <2>3. \A i \in 1 .. l - 1 : t[i] # h
    BY <1>1, <1>3, <2>1
  <2>. QED BY <1>1, <2>2, <2>3 DEF Distinct, Elements
<1>. QED BY <1>1, <1>4, <1>5 DEF h, l, t, Elements

\* A sequence without repetitions is as long as the set of its elements is large.
LEMMA DistinctCardinality ==
  ASSUME NEW S, NEW s \in Seq(S), Distinct(s)
  PROVE  Cardinality(Elements(s)) = Len(s)
<1>. DEFINE f == [i \in 1 .. Len(s) |-> s[i]]
<1>0. Len(s) \in Nat
  OBVIOUS
<1>1. f \in Bijection(1 .. Len(s), Elements(s))
  <2>1. f \in [1 .. Len(s) -> Elements(s)]
    BY DEF Elements
  <2>2. \A i, j \in 1 .. Len(s) : f[i] = f[j] => i = j
    BY DEF Distinct
  <2>3. \A x \in Elements(s) : \E i \in 1 .. Len(s) : f[i] = x
    BY DEF Elements
  <2>. HIDE DEF f
  <2>. QED BY <2>1, <2>2, <2>3 DEF Bijection, Injection, Surjection, IsInjective
<1>. HIDE DEF f
<1>2. ExistsBijection(1 .. Len(s), Elements(s))
  BY <1>1 DEF ExistsBijection
<1>. QED BY <1>0, <1>2, FS_CountingElements

\* As many workers are busy as there are tasks being run.
LEMMA RunningCardinality ==
  ASSUME \A v, w \in Running : TaskOf(running[v]) = TaskOf(running[w]) => v = w
  PROVE  Cardinality(Now) = Cardinality(Running)
<1>. DEFINE f == [w \in Running |-> TaskOf(running[w])]
<1>1. IsFiniteSet(Running)
  <2>1. IsFiniteSet(Workers) /\ Running \subseteq Workers
    BY SizeAssumption, FS_Interval DEF Workers, Running
  <2>. QED BY <2>1, FS_Subset
<1>2. f \in Bijection(Running, Now)
  <2>1. f \in [Running -> Now]
    BY DEF Now
  <2>2. \A v, w \in Running : f[v] = f[w] => v = w
    OBVIOUS
  <2>3. \A x \in Now : \E w \in Running : f[w] = x
    BY DEF Now
  <2>. HIDE DEF f
  <2>. QED BY <2>1, <2>2, <2>3 DEF Bijection, Injection, Surjection, IsInjective
<1>. HIDE DEF f
<1>3. ExistsBijection(Running, Now)
  BY <1>2 DEF ExistsBijection
<1>. QED BY <1>1, <1>3, FS_Bijection

-----------------------------------------------------------------------------
(* What the invariant says of the properties                               *)

\* The invariant implies HandedOnce.
LEMMA IInvHandedOnce == IInv => HandedOnce
<1>. SUFFICES ASSUME IInv PROVE HandedOnce
  OBVIOUS
<1>1. Tasks = Elements(tasks)
  BY DEF Tasks, Elements
<1>2. Cardinality(Tasks) = Len(tasks)
  BY <1>1, DistinctCardinality DEF IInv, Once, Types
<1>3. Cardinality(Now) = Cardinality(Running)
  BY RunningCardinality DEF IInv, Once
<1>4. /\ Tasks \cap Now = {} /\ (Tasks \cup Now) \cap Called = {}
      /\ \A n \in DOMAIN due : \A i \in 1 .. Len(due[n]) :
           (n = current => i < next) => <<due[n][i], n>> \in Tasks \cup Now \cup Called
  BY DEF IInv, Once, AllHanded, Handed
<1>. QED BY <1>2, <1>3, <1>4 DEF HandedOnce, Now

\* The invariant implies QuietWhenClosed: the thread has ended, so no message is
\* being handed out, and nothing waits or runs.
LEMMA IInvQuietWhenClosed == IInv => QuietWhenClosed
<1>. SUFFICES ASSUME IInv, closing = "returned"
              PROVE  /\ tasks = <<>> /\ Running = {}
                     /\ \A n \in DOMAIN due : \A i \in 1 .. Len(due[n])
                               : <<due[n][i], n>> \in Called
  BY DEF QuietWhenClosed
<1>1. pc = "ended" /\ tasks = <<>> /\ Running = {}
  BY DEF IInv, Ended
<1>2. Handed = Called
  BY <1>1 DEF Handed, Tasks, Now
<1>3. current = 0 /\ 0 \notin DOMAIN due
  BY <1>1 DEF IInv, Turn, Numbered
<1>. QED BY <1>1, <1>2, <1>3 DEF IInv, AllHanded

-----------------------------------------------------------------------------
(* The steps                                                               *)

\* the part of the invariant about what is handed out, and what it depends on
HandingInv == Turns /\ AllHanded /\ Once

handing == <<due, callbacks, current, next, tasks, running, called>>

\* Initially.
LEMMA InitIInv == Init => IInv
<1>. SUFFICES ASSUME Init PROVE IInv
  OBVIOUS
<1>1. Types
  <2>1. <<>> \in Seq(DOMAIN Traffics[traffic]) /\ <<>> \in Seq(Datagram) /\ <<>> \in Seq(Task)
    OBVIOUS
  <2>2. Given \in Seq(Callback)
    BY GivenAssumption DEF Callback
  <2>. QED BY <2>1, <2>2 DEF Init, Types, Idle
<1>2. Distinct(Given)
  BY GivenAssumption DEF Distinct
<1>3. Len(<<>>) = 0 /\ DOMAIN <<>> = {}
  OBVIOUS
<1>4. Numbered /\ Waiting /\ Registered /\ Turn
  BY <1>2, <1>3 DEF Init, Numbered, Waiting, Registered, Turn, Distinct
<1>5. Tasks = {} /\ Now = {} /\ Called = {} /\ Running = {}
  BY <1>3 DEF Init, Tasks, Now, Called, Running
<1>6. Turns /\ AllHanded /\ Once /\ Ended
  BY <1>3, <1>5 DEF Init, Turns, AllHanded, Once, Ended, Handed, Distinct
<1>. QED BY <1>1, <1>4, <1>6 DEF IInv

\* A worker that is not idle runs a task.
LEMMA NotIdle ==
  ASSUME Types, NEW w \in Workers
  PROVE  /\ running[w] # Idle <=> IsRunning(running[w])
         /\ IsRunning(running[w]) => TaskOf(running[w]) \in Task
  BY DEF Types, IsRunning, Idle, Datagram, TaskOf, Task

\* Nothing changes in what is handed out.
LEMMA HandingSteady ==
  ASSUME HandingInv, UNCHANGED handing
  PROVE  HandingInv'
<1>. USE DEF handing
<1>1. Tasks' = Tasks /\ Running' = Running
  BY DEF Tasks, Running
<1>2. Now' = Now /\ Called' = Called
  BY <1>1 DEF Now, Called
<1>3. Handed' = Handed
  BY <1>1, <1>2 DEF Handed
<1>. QED BY <1>1, <1>2, <1>3 DEF HandingInv, Turns, AllHanded, Once

\* A datagram arrives, with a number of its own.
LEMMA ArriveStep ==
  ASSUME IInv, Arrive
  PROVE  IInv'
<1>. USE DEF IInv
<1>1. UNCHANGED handing /\ UNCHANGED <<pc, open, closing, running, tasks, traffic>>
  BY DEF Arrive, handing, thread, pool
<1>2. HandingInv'
  BY <1>1, HandingSteady DEF HandingInv
<1>. DEFINE l == Len(arrived)
<1>3. PICK k \in DOMAIN Traffics[traffic] : arrived' = Append(arrived, k)
  BY DEF Arrive
<1>4. /\ l \in Nat /\ Len(arrived') = l + 1 /\ l + 1 \in Datagram
      /\ arrived' \in Seq(DOMAIN Traffics[traffic])
  BY <1>3, AppendFacts DEF Types, Datagram
<1>. HIDE DEF l
<1>5. socket' = Append(socket, l + 1)
  BY DEF Arrive, l
<1>6. /\ socket' \in Seq(Datagram) /\ Len(socket') = Len(socket) + 1 /\ Len(socket) \in Nat
      /\ \A i \in 1 .. Len(socket) : socket'[i] = socket[i]
      /\ socket'[Len(socket) + 1] = l + 1
      /\ Distinct(socket) /\ l + 1 \notin Elements(socket) => Distinct(socket')
  BY <1>4, <1>5, AppendFacts DEF Types
<1>7. Types'
  BY <1>1, <1>4, <1>6 DEF Types, handing
<1>8. l + 1 \notin Elements(socket) /\ l + 1 \notin DOMAIN due
  BY <1>4 DEF Numbered, Elements, l
<1>9. Numbered'
  <2>1. DOMAIN due' \subseteq 1 .. Len(arrived')
    BY <1>1, <1>4 DEF Numbered, handing, l
  <2>2. ASSUME NEW i \in 1 .. Len(socket')
        PROVE  socket'[i] <= Len(arrived') /\ socket'[i] \notin DOMAIN due'
    <3>1. CASE i \in 1 .. Len(socket)
      <4>1. socket'[i] = socket[i] /\ socket[i] <= l /\ socket[i] \notin DOMAIN due
        BY <1>6, <3>1 DEF Numbered, l
      <4>2. socket[i] \in Nat
        BY <3>1 DEF Types, Datagram
      <4>. QED BY <1>1, <1>4, <4>1, <4>2 DEF handing
    <3>2. CASE i = Len(socket) + 1
      BY <1>1, <1>4, <1>6, <1>8, <3>2 DEF handing
    <3>. QED BY <1>6, <3>1, <3>2
  <2>3. Distinct(socket')
    BY <1>6, <1>8 DEF Numbered
  <2>. QED BY <2>1, <2>2, <2>3 DEF Numbered
<1>10. Waiting'
  BY <1>6, <1>1 DEF Waiting
<1>11. Registered' /\ Turn' /\ Ended'
  BY <1>1 DEF handing, Registered, Turn, Ended, Running
<1>. QED BY <1>2, <1>7, <1>9, <1>10, <1>11 DEF HandingInv

\* A step that neither hands anything out nor takes anything from the connection.
LEMMA QuietStep ==
  ASSUME IInv, UNCHANGED handing, UNCHANGED <<traffic, arrived>>,
         socket' = socket \/ (socket' = <<>> /\ ~open'),
         open' => open,
         pc' \in {"new", "check", "select", "receive", "dispatch", "shutdown", "ended"},
         pc' = "dispatch" <=> pc = "dispatch",
         pc = "ended" => pc' = "ended",
         pc' = "receive" /\ pc # "receive" => socket # <<>> \/ ~open',
         pc' = "ended" /\ pc # "ended" => tasks = <<>> /\ Running = {},
         closing' = "returned" => closing = "returned" \/ pc = "ended"
  PROVE  IInv'
<1>. USE DEF IInv
<1>1. HandingInv'
  BY HandingSteady DEF HandingInv
<1>2. Types'
  <2>1. <<>> \in Seq(Datagram)
    OBVIOUS
  <2>2. socket' \in Seq(Datagram)
    BY <2>1 DEF Types
  <2>. QED BY <2>2 DEF Types, handing
<1>3. Numbered'
  <2>1. CASE socket' = socket
    BY <2>1 DEF Numbered, handing
  <2>2. CASE socket' = <<>>
    <3>1. 1 .. Len(<<>>) = {}
      OBVIOUS
    <3>. QED BY <2>2, <3>1 DEF Numbered, handing, Distinct
  <2>. QED BY <2>1, <2>2
<1>4. Waiting'
  BY DEF Waiting
<1>5. Registered' /\ Turn'
  BY DEF Registered, Turn, handing
<1>6. Ended'
  BY DEF Ended, handing, Running
<1>. QED BY <1>1, <1>2, <1>3, <1>4, <1>5, <1>6 DEF HandingInv

\* There is one more callback, after the others: a loop that is under way will come
\* to it.
LEMMA AddCallbackStep ==
  ASSUME IInv, AddCallback
  PROVE  IInv'
<1>. USE DEF IInv
<1>1. PICK c \in Late : (\A i \in 1 .. Len(callbacks) : callbacks[i] # c)
          /\ callbacks' = Append(callbacks, c)
  BY DEF AddCallback
<1>2. UNCHANGED <<traffic, open, arrived, socket, pc, current, next, due, tasks, running,
          called, closing>>
  BY DEF AddCallback, thread, pool
<1>3. /\ callbacks' \in Seq(Callback) /\ Len(callbacks') = Len(callbacks) + 1
          /\ Len(callbacks) \in Nat
      /\ \A i \in 1 .. Len(callbacks) : callbacks'[i] = callbacks[i]
      /\ Distinct(callbacks')
  <2>1. c \in Callback /\ c \notin Elements(callbacks)
    BY <1>1 DEF Callback, Elements
  <2>. QED BY <1>1, <2>1, AppendFacts DEF Types, Registered
<1>4. Types'
  BY <1>2, <1>3 DEF Types
<1>5. Numbered' /\ Waiting' /\ Ended'
  BY <1>2 DEF Numbered, Waiting, Ended, Running
<1>6. Registered'
  <2>1. ASSUME NEW n \in DOMAIN due
        PROVE  /\ due[n] \in Seq(Callback) /\ Len(due[n]) <= Len(callbacks')
               /\ \A i \in 1 .. Len(due[n]) : due[n][i] = callbacks'[i]
    <3>1. /\ due[n] \in Seq(Callback) /\ Len(due[n]) <= Len(callbacks) /\ Len(due[n]) \in Nat
          /\ \A i \in 1 .. Len(due[n]) : due[n][i] = callbacks[i]
      BY DEF Registered
    <3>. QED BY <1>3, <3>1
  <2>. QED BY <1>2, <1>3, <2>1 DEF Registered
<1>7. Turn'
  BY <1>2, <1>3 DEF Turn, Types
<1>8. Tasks' = Tasks /\ Running' = Running /\ Now' = Now /\ Called' = Called /\ Handed' = Handed
  BY <1>2 DEF Tasks, Running, Now, Called, Handed
<1>9. Turns'
  <2>1. ASSUME NEW t \in Handed
        PROVE  t[2] \in DOMAIN due /\ \E i \in 1 .. Len(callbacks') : t[1] = callbacks'[i]
                  /\ (t[2] = current => i < next)
    <3>1. t[2] \in DOMAIN due
      BY DEF Turns
    <3>2. PICK i \in 1 .. Len(callbacks) : t[1] = callbacks[i] /\ (t[2] = current => i < next)
      BY DEF Turns
    <3>3. i \in 1 .. Len(callbacks') /\ callbacks'[i] = callbacks[i]
      BY <1>3
    <3>. QED BY <3>1, <3>2, <3>3
  <2>. QED BY <1>2, <1>8, <2>1 DEF Turns
<1>10. AllHanded' /\ Once'
  BY <1>2, <1>8 DEF AllHanded, Once
<1>. QED BY <1>4, <1>5, <1>6, <1>7, <1>9, <1>10

\* The thread takes a message, or gives a datagram up that it cannot read.
LEMMA ReceiveStep ==
  ASSUME IInv, Receive
  PROVE  IInv'
<1>. USE DEF IInv
<1>. DEFINE n == Head(socket)
<1>0. socket # <<>>
  BY DEF Receive, Waiting
<1>1. /\ n \in Datagram /\ socket' = Tail(socket) /\ socket' \in Seq(Datagram)
      /\ Len(socket') = Len(socket) - 1 /\ Len(socket) \in Nat \ {0} /\ n = socket[1]
      /\ \A i \in 1 .. Len(socket) - 1 : socket'[i] = socket[i + 1]
      /\ Distinct(socket') /\ n \notin Elements(socket')
  BY <1>0, TailFacts DEF Types, Numbered, Receive
<1>2. UNCHANGED <<traffic, open, arrived, callbacks, tasks, running, called, closing>>
          /\ pc = "receive"
  BY DEF Receive, pool
<1>3. /\ n <= Len(arrived) /\ n \notin DOMAIN due
      /\ \A i \in 1 .. Len(socket') : /\ socket'[i] <= Len(arrived) /\ socket'[i] \notin DOMAIN due
                                      /\ socket'[i] # n
  <2>1. 1 \in 1 .. Len(socket) /\ \A i \in 1 .. Len(socket') : i + 1 \in 1 .. Len(socket)
            /\ i \in 1 .. Len(socket) - 1
    BY <1>1
  <2>2. \A i \in 1 .. Len(socket') : socket'[i] # n
    BY <1>1 DEF Elements
  <2>. QED BY <1>1, <2>1, <2>2 DEF Numbered
<1>4. \/ pc' = "check" /\ UNCHANGED <<current, next, heap, due>>
      \/ pc' = "dispatch" /\ current' = n /\ next' = 1 /\ due' = [m \in DOMAIN due \cup {n} |->
                IF m = n THEN callbacks ELSE due[m]]
  BY DEF Receive
<1>. HIDE DEF n
<1>5. CASE pc' = "check" /\ UNCHANGED <<current, next, heap, due>>
  <2>1. HandingInv'
    BY <1>2, <1>5, HandingSteady DEF handing, HandingInv
  <2>2. Types' /\ Waiting'
    BY <1>1, <1>2, <1>5 DEF Types, Waiting
  <2>3. Numbered'
    BY <1>1, <1>2, <1>3, <1>5 DEF Numbered
  <2>4. Registered' /\ Turn' /\ Ended'
    BY <1>2, <1>5 DEF Registered, Turn, Ended, Running
  <2>. QED BY <2>1, <2>2, <2>3, <2>4 DEF HandingInv
<1>6. CASE pc' = "dispatch" /\ current' = n /\ next' = 1
          /\ due' = [m \in DOMAIN due \cup {n} |-> IF m = n THEN callbacks ELSE due[m]]
  <2>1. /\ DOMAIN due' = DOMAIN due \cup {n}
        /\ due'[n] = callbacks /\ \A m \in DOMAIN due : due'[m] = due[m]
    BY <1>3, <1>6
  <2>2. Types' /\ Waiting'
    BY <1>1, <1>2, <1>6 DEF Types, Waiting, Datagram
  <2>3. Numbered'
    <3>1. n \in 1 .. Len(arrived)
      BY <1>1, <1>3 DEF Types, Datagram
    <3>. QED BY <1>1, <1>2, <1>3, <2>1, <3>1 DEF Numbered
  <2>4. Registered'
    <3>1. callbacks \in Seq(Callback) /\ Len(callbacks) \in Nat
      BY DEF Types
    <3>. QED BY <1>2, <2>1, <3>1 DEF Registered
  <2>5. Turn' /\ Ended'
    <3>1. Len(callbacks) \in Nat
      BY DEF Types
    <3>. QED BY <1>2, <1>6, <2>1, <3>1 DEF Turn, Ended, Running
  <2>6. Tasks' = Tasks /\ Running' = Running /\ Now' = Now /\ Called' = Called /\ Handed' = Handed
    BY <1>2 DEF Tasks, Running, Now, Called, Handed
  <2>7. Turns'
    <3>1. \A t \in Handed : t[2] \in DOMAIN due /\ t[2] # n /\ \E i \in 1 .. Len(callbacks)
              : t[1] = callbacks[i]
      BY <1>3 DEF Turns
    <3>. QED BY <1>2, <1>6, <2>1, <2>6, <3>1 DEF Turns
  <2>8. AllHanded'
    <3>1. current = 0 /\ 0 \notin DOMAIN due
      BY <1>2 DEF Turn, Numbered
    <3>2. ASSUME NEW m \in DOMAIN due', NEW i \in 1 .. Len(due'[m]), m = n => i < 1
          PROVE  <<due'[m][i], m>> \in Handed
      <4>1. CASE m = n
        <5>1. callbacks \in Seq(Callback) /\ due'[m] = callbacks
          BY <2>1, <4>1 DEF Types
        <5>. QED BY <3>2, <4>1, <5>1
      <4>2. CASE m # n
        <5>1. m \in DOMAIN due /\ due'[m] = due[m] /\ m # current
          BY <2>1, <3>1, <4>2
        <5>. QED BY <5>1 DEF AllHanded
      <4>. QED BY <4>1, <4>2
    <3>. QED BY <1>6, <2>6, <3>2 DEF AllHanded
  <2>9. Once'
    BY <1>2, <2>6 DEF Once
  <2>. QED BY <2>2, <2>3, <2>4, <2>5, <2>7, <2>8, <2>9
<1>. QED BY <1>4, <1>5, <1>6

\* A turn of the loop over the callbacks.
LEMMA DispatchStep ==
  ASSUME IInv, Dispatch
  PROVE  IInv'
<1>. USE DEF IInv
<1>1. /\ pc = "dispatch" /\ current \in DOMAIN due /\ next <= Len(callbacks) + 1
      /\ next \in Nat \ {0} /\ current \in Datagram /\ Len(callbacks) \in Nat
      /\ callbacks \in Seq(Callback)
  BY DEF Dispatch, Turn, Types, Numbered, Datagram
<1>2. UNCHANGED <<traffic, open, arrived, socket, callbacks, heap, due, running, called, closing>>
  BY DEF Dispatch
<1>3. Running' = Running /\ Now' = Now /\ Called' = Called
  BY <1>2 DEF Running, Now, Called
<1>4. Numbered' /\ Registered'
  BY <1>2 DEF Numbered, Registered
<1>5. CASE next <= Len(callbacks)
  <2>. DEFINE t == <<callbacks[next], current>>
  <2>1. tasks' = Append(tasks, t) /\ next' = next + 1 /\ UNCHANGED <<pc, current>>
    BY <1>5 DEF Dispatch
  <2>2. next \in 1 .. Len(callbacks) /\ t \in Task /\ t[1] = callbacks[next] /\ t[2] = current
    BY <1>1, <1>5 DEF Task
  <2>. HIDE DEF t
  <2>3. t \notin Handed
    <3>. SUFFICES ASSUME t \in Handed PROVE FALSE
      OBVIOUS
    <3>1. PICK i \in 1 .. Len(callbacks) : t[1] = callbacks[i] /\ i < next
      BY <2>2 DEF Turns
    <3>2. i = next
      BY <2>2, <3>1 DEF Registered, Distinct
    <3>. QED BY <1>1, <3>1, <3>2
  <2>4. Tasks = Elements(tasks) /\ Tasks' = Elements(tasks')
    BY DEF Tasks, Elements
  <2>5. tasks' \in Seq(Task) /\ Tasks' = Tasks \cup {t} /\ Distinct(tasks')
    BY <2>1, <2>2, <2>3, <2>4, AppendFacts DEF Types, Once, Handed
  <2>6. Handed' = Handed \cup {t}
    BY <1>3, <2>5 DEF Handed
  <2>7. Types' /\ Waiting' /\ Turn' /\ Ended'
    BY <1>1, <1>2, <1>5, <2>1, <2>5 DEF Types, Waiting, Turn, Ended, Running
  <2>8. Turns'
    <3>1. ASSUME NEW s \in Handed
          PROVE  s[2] \in DOMAIN due /\ \E i \in 1 .. Len(callbacks) : s[1] = callbacks[i]
                    /\ (s[2] = current => i < next + 1)
      <4>1. PICK i \in 1 .. Len(callbacks) : s[1] = callbacks[i] /\ (s[2] = current => i < next)
        BY DEF Turns
      <4>2. i < next => i < next + 1
        BY <1>1
      <4>. QED BY <4>1, <4>2 DEF Turns
    <3>2. t[2] \in DOMAIN due /\ \E i \in 1 .. Len(callbacks) : t[1] = callbacks[i]
              /\ (t[2] = current => i < next + 1)
      BY <1>1, <2>2
    <3>. QED BY <1>2, <2>1, <2>6, <3>1, <3>2 DEF Turns
  <2>9. AllHanded'
    <3>1. ASSUME NEW m \in DOMAIN due, NEW i \in 1 .. Len(due[m]), m = current => i < next + 1
          PROVE  <<due[m][i], m>> \in Handed \cup {t}
      <4>1. CASE m = current /\ i = next
        <5>1. due[m][i] = callbacks[i]
          BY DEF Registered
        <5>. QED BY <4>1, <5>1 DEF t
      <4>2. CASE ~(m = current /\ i = next)
        <5>1. i \in Nat
          BY DEF Registered
        <5>2. m = current => i < next
          BY <1>1, <3>1, <4>2, <5>1
        <5>. QED BY <5>2 DEF AllHanded
      <4>. QED BY <4>1, <4>2
    <3>. QED BY <1>2, <2>1, <2>6, <3>1 DEF AllHanded
  <2>10. Once'
    BY <1>2, <1>3, <2>3, <2>5 DEF Once, Handed
  <2>. QED BY <1>4, <2>7, <2>8, <2>9, <2>10
<1>6. CASE next > Len(callbacks)
  <2>1. pc' = "check" /\ current' = 0 /\ next' = 1 /\ UNCHANGED tasks
    BY <1>1, <1>6 DEF Dispatch
  <2>2. Tasks' = Tasks /\ Handed' = Handed
    BY <1>3, <2>1 DEF Tasks, Handed
  <2>3. Types' /\ Waiting' /\ Turn' /\ Ended'
    BY <1>1, <1>2, <2>1 DEF Types, Waiting, Turn, Ended, Running
  <2>4. 0 \notin DOMAIN due
    BY DEF Numbered
  <2>5. Turns'
    BY <1>2, <2>1, <2>2, <2>4 DEF Turns
  <2>6. AllHanded'
    <3>1. ASSUME NEW m \in DOMAIN due, NEW i \in 1 .. Len(due[m])
          PROVE  <<due[m][i], m>> \in Handed
      <4>1. i \in Nat /\ i <= Len(callbacks)
        BY <1>1 DEF Registered
      <4>2. i < next
        BY <1>1, <1>6, <4>1
      <4>. QED BY <4>2 DEF AllHanded
    <3>. QED BY <1>2, <2>2, <3>1 DEF AllHanded
  <2>7. Once'
    BY <1>2, <1>3, <2>1, <2>2 DEF Once
  <2>. QED BY <1>4, <2>3, <2>5, <2>6, <2>7
<1>. QED BY <1>1, <1>5, <1>6

\* A task goes on in the pool; the connection and the thread stay as they are.
LEMMA TaskSteady ==
  ASSUME IInv, UNCHANGED <<traffic, open, arrived, socket, callbacks, pc, current, next, due,
            closing>>,
         tasks' \in Seq(Task), DOMAIN running' = Workers,
         \A w \in Workers : running'[w] = Idle \/ IsRunning(running'[w]),
         pc = "ended" => tasks' = <<>> /\ Running' = {},
         Handed' = Handed, Once'
  PROVE  IInv'
<1>. USE DEF IInv
<1>1. Types' /\ Numbered' /\ Waiting' /\ Registered' /\ Turn' /\ Ended'
  BY DEF Types, Numbered, Waiting, Registered, Turn, Ended
<1>2. Turns' /\ AllHanded'
  BY DEF Turns, AllHanded
<1>. QED BY <1>1, <1>2

\* A worker takes a task.
LEMMA StartTaskStep ==
  ASSUME IInv, NEW w \in Workers, StartTask(w)
  PROVE  IInv'
<1>. USE DEF IInv
<1>. DEFINE t == Head(tasks)
            r == [callback |-> Head(tasks)[1], datagram |-> Head(tasks)[2], got |-> <<>>]
<1>1. /\ tasks # <<>> /\ running[w] = Idle /\ tasks' = Tail(tasks)
      /\ running' = [running EXCEPT ![w] = r]
      /\ UNCHANGED <<traffic, open, arrived, socket, callbacks, done, pc, current, next, due,
                called, closing>>
  BY DEF StartTask, thread
<1>2. /\ t \in Task /\ tasks' \in Seq(Task)
      /\ Elements(tasks) = Elements(tasks') \cup {t}
      /\ Distinct(tasks') /\ t \notin Elements(tasks')
  BY <1>1, TailFacts DEF Types, Once
<1>3. IsRunning(r) /\ TaskOf(r) = t
  BY <1>2 DEF IsRunning, TaskOf, Task
<1>4. r # Idle
  BY <1>2 DEF Idle, Task, Datagram
<1>. HIDE DEF t, r
<1>5. Tasks = Elements(tasks) /\ Tasks' = Elements(tasks')
  BY DEF Tasks, Elements
<1>6. /\ w \notin Running /\ Running' = Running \cup {w} /\ DOMAIN running' = Workers
      /\ running'[w] = r /\ \A v \in Running : running'[v] = running[v]
      /\ \A v \in Workers : v # w => running'[v] = running[v]
  BY <1>1, <1>4 DEF Types, Running
<1>7. Now' = Now \cup {t}
  BY <1>3, <1>6 DEF Now
<1>8. Called' = Called
  BY <1>1 DEF Called
<1>9. Handed' = Handed /\ t \in Tasks
  BY <1>2, <1>5, <1>7, <1>8 DEF Handed
<1>10. Once'
  <2>1. t \notin Now /\ t \notin Called
    BY <1>9 DEF Once
  <2>2. ASSUME NEW u \in Running', NEW v \in Running', TaskOf(running'[u]) = TaskOf(running'[v])
        PROVE  u = v
    <3>1. \A x \in Running : TaskOf(running'[x]) \in Now
      BY <1>6 DEF Now
    <3>. QED BY <1>3, <1>6, <2>1, <2>2, <3>1 DEF Once
  <2>3. Tasks' \cap Now' = {} /\ (Tasks' \cup Now') \cap Called' = {}
    BY <1>2, <1>5, <1>7, <1>8, <1>9, <2>1 DEF Once
  <2>. QED BY <1>2, <2>2, <2>3 DEF Once
<1>11. pc # "ended"
  BY <1>1 DEF Ended
<1>12. \A v \in Workers : running'[v] = Idle \/ IsRunning(running'[v])
  BY <1>3, <1>6 DEF Types
<1>. QED BY <1>1, <1>2, <1>6, <1>9, <1>10, <1>11, <1>12, TaskSteady

\* A callback reads an element.
LEMMA ReadElementStep ==
  ASSUME IInv, NEW w \in Workers, ReadElement(w)
  PROVE  IInv'
<1>. USE DEF IInv
<1>1. PICK g : running' = [running EXCEPT ![w].got = g]
  BY DEF ReadElement
<1>2. /\ running[w] # Idle
      /\ UNCHANGED <<traffic, open, arrived, socket, callbacks, done, pc, current, next, due,
                tasks, called, closing>>
  BY DEF ReadElement, thread
<1>3. IsRunning(running[w])
  BY <1>2, NotIdle
<1>4. /\ DOMAIN running' = Workers /\ \A v \in Workers : v # w => running'[v] = running[v]
      /\ running'[w] = [running[w] EXCEPT !.got = g]
  BY <1>1 DEF Types
<1>5. IsRunning(running'[w]) /\ TaskOf(running'[w]) = TaskOf(running[w])
  BY <1>3, <1>4 DEF IsRunning, TaskOf
<1>6. running'[w] # Idle
  BY <1>5 DEF IsRunning, Idle, Datagram
<1>7. Running' = Running /\ \A v \in Running : TaskOf(running'[v]) = TaskOf(running[v])
  BY <1>2, <1>4, <1>5, <1>6 DEF Running
<1>8. Now' = Now
  BY <1>7 DEF Now
<1>9. Tasks' = Tasks /\ Called' = Called /\ Handed' = Handed
  BY <1>2, <1>8 DEF Tasks, Called, Handed
<1>10. Once'
  BY <1>2, <1>7, <1>8, <1>9 DEF Once
<1>11. \A v \in Workers : running'[v] = Idle \/ IsRunning(running'[v])
  BY <1>4, <1>5 DEF Types
<1>12. tasks' \in Seq(Task) /\ (pc = "ended" => tasks' = <<>> /\ Running' = {})
  BY <1>2, <1>7 DEF Types, Ended
<1>. QED BY <1>2, <1>4, <1>9, <1>10, <1>11, <1>12, TaskSteady

\* A callback ends.
LEMMA EndTaskStep ==
  ASSUME IInv, NEW w \in Workers, EndTask(w)
  PROVE  IInv'
<1>. USE DEF IInv
<1>. DEFINE t == TaskOf(running[w])
<1>1. /\ running[w] # Idle /\ called' = called \cup {running[w]}
      /\ running' = [running EXCEPT ![w] = Idle]
      /\ UNCHANGED <<traffic, open, arrived, socket, callbacks, done, pc, current, next, due,
                tasks, closing>>
  BY DEF EndTask, thread
<1>2. /\ DOMAIN running' = Workers /\ running'[w] = Idle
      /\ \A v \in Workers : v # w => running'[v] = running[v]
  BY <1>1 DEF Types
<1>3. w \in Running /\ Running' = Running \ {w}
  BY <1>1, <1>2 DEF Running
<1>4. Called' = Called \cup {t}
  BY <1>1 DEF Called
<1>5. /\ \A v \in Running : TaskOf(running[v]) = t => v = w
      /\ \A v \in Running' : v \in Workers /\ v # w /\ running'[v] = running[v]
  BY <1>2, <1>3 DEF Once, Running
<1>. HIDE DEF t
<1>6. Now' = Now \ {t} /\ t \in Now
  <2>1. t \in Now
    BY <1>3 DEF Now, t
  <2>2. ASSUME NEW x \in Now, x # t PROVE x \in Now'
    <3>1. PICK v \in Running : x = TaskOf(running[v])
      BY DEF Now
    <3>2. v # w
      BY <2>2, <3>1 DEF t
    <3>. QED BY <1>3, <1>5, <3>1, <3>2 DEF Now
  <2>3. ASSUME NEW x \in Now' PROVE x \in Now \ {t}
    <3>1. PICK v \in Running' : x = TaskOf(running'[v])
      BY DEF Now
    <3>2. v \in Running /\ v # w /\ x = TaskOf(running[v])
      BY <1>3, <1>5, <3>1
    <3>. QED BY <1>5, <3>2 DEF Now
  <2>. QED BY <2>1, <2>2, <2>3
<1>7. Tasks' = Tasks
  BY <1>1 DEF Tasks
<1>8. Handed' = Handed
  BY <1>4, <1>6, <1>7 DEF Handed
<1>9. Once'
  <2>1. \A u, v \in Running' : TaskOf(running'[u]) = TaskOf(running'[v]) => u = v
    BY <1>3, <1>5 DEF Once
  <2>2. Tasks' \cap Now' = {} /\ (Tasks' \cup Now') \cap Called' = {}
    BY <1>4, <1>6, <1>7 DEF Once
  <2>. QED BY <1>1, <2>1, <2>2 DEF Once
<1>10. \A v \in Workers : running'[v] = Idle \/ IsRunning(running'[v])
  BY <1>2 DEF Types
<1>11. tasks' \in Seq(Task) /\ (pc = "ended" => tasks' = <<>> /\ Running' = {})
  BY <1>1, <1>3 DEF Types, Ended
<1>. QED BY <1>1, <1>2, <1>8, <1>9, <1>10, <1>11, TaskSteady

\* Every step preserves the invariant.
LEMMA NextIInv == IInv /\ [Next]_vars => IInv'
<1>. SUFFICES ASSUME IInv, [Next]_vars PROVE IInv'
  OBVIOUS
<1>1. CASE Arrive
  BY <1>1, ArriveStep
<1>2. CASE AddCallback
  BY <1>2, AddCallbackStep
<1>3. CASE Receive
  BY <1>3, ReceiveStep
<1>4. CASE Dispatch
  BY <1>4, DispatchStep
<1>5. ASSUME NEW w \in Workers, Work(w) PROVE IInv'
  BY <1>5, StartTaskStep, ReadElementStep, EndTaskStep DEF Work
<1>. USE DEF handing, thread, pool, At
<1>6. pc \in {"new", "check", "select", "receive", "dispatch", "shutdown", "ended"}
  BY DEF IInv, Types
<1>7. CASE Start
  BY <1>7, QuietStep DEF Start
<1>8. CASE CloseConnection
  BY <1>6, <1>8, QuietStep DEF CloseConnection
<1>9. CASE Close
  BY <1>6, <1>9, QuietStep DEF Close
<1>10. CASE Join
  BY <1>6, <1>10, QuietStep DEF Join
<1>11. CASE Check
  BY <1>11, QuietStep DEF Check
<1>12. CASE Ready
  BY <1>12, QuietStep DEF Ready
<1>13. CASE Timeout
  BY <1>13, QuietStep DEF Timeout
<1>14. CASE ReceiveEOF
  BY <1>14, QuietStep DEF ReceiveEOF
<1>15. CASE Shutdown
  <2>1. Running = {}
    BY <1>15 DEF Shutdown, Running
  <2>. QED BY <1>15, <2>1, QuietStep DEF Shutdown
<1>16. CASE UNCHANGED vars
  BY <1>6, <1>16, QuietStep DEF vars
<1>. QED BY <1>1, <1>2, <1>3, <1>4, <1>5, <1>7, <1>8, <1>9, <1>10, <1>11, <1>12, <1>13,
            <1>14, <1>15, <1>16 DEF Next, Thread

-----------------------------------------------------------------------------
(* The theorems                                                            *)

\* However many callbacks, workers and datagrams there are, and whoever adds callbacks
\* or closes at what moment: every callback that there was when a message came is
\* handed it once, and one added meanwhile at most once (__run_step).
THEOREM HandedOnceAlways == Spec => []HandedOnce
<1>1. Spec => []IInv
  BY InitIInv, NextIInv, PTL DEF Spec
<1>. QED BY <1>1, IInvHandedOnce, PTL

\* After close() no callback runs or waits to run, and every message taken from the
\* connection has been handled by every callback there was (close, run).
THEOREM QuietWhenClosedAlways == Spec => []QuietWhenClosed
<1>1. Spec => []IInv
  BY InitIInv, NextIInv, PTL DEF Spec
<1>. QED BY <1>1, IInvQuietWhenClosed, PTL


-----------------------------------------------------------------------------
(* Functions and words: a word is the set of its bits                      *)

\* Induction over the naturals, for a set T of them: the theorem of the library
\* takes an operator, this one is the well-foundedness of < applied to Nat \ T.
LEMMA NatInductive ==
  ASSUME NEW T, 0 \in T, \A n \in Nat : n \in T => n + 1 \in T
  PROVE  Nat \subseteq T
<1>. SUFFICES ASSUME Nat \ T # {} PROVE FALSE
  OBVIOUS
<1>. DEFINE Less == {ss \in Nat \X Nat : ss[1] < ss[2]}
            Rest == Nat \ T
<1>1. IsWellFoundedOn(Less, Nat)
  BY NatLessThanWellFounded, Zenon DEF OpToRel
<1>2. Rest \subseteq Nat /\ Rest # {}
  OBVIOUS
<1>3. PICK x \in Rest : \A y \in Rest : ~(<<y, x>> \in Less)
  <2>. HIDE DEF Less, Rest
  <2>. QED BY <1>1, <1>2, WFMin
<1>4. x \in Nat /\ x # 0 /\ x - 1 \in Nat /\ <<x - 1, x>> \in Less
  OBVIOUS
<1>5. x - 1 \in T
  BY <1>3, <1>4
<1>6. (x - 1) + 1 = x
  BY <1>4
<1>. QED  BY <1>4, <1>5, <1>6

\* A function that starts with a and goes on with H.
LEMMA Recursion ==
  ASSUME NEW S, NEW a \in S, NEW N \in Nat, NEW H \in [1 .. N -> [S -> S]]
  PROVE  \E f \in [0 .. N -> S] : f[0] = a /\ \A n \in 1 .. N : f[n] = H[n][f[n - 1]]
<1>. DEFINE Good(n, f) == f[0] = a /\ \A k \in 1 .. n : f[k] = H[k][f[k - 1]]
            T == {n \in Nat : n <= N => \E f \in [0 .. n -> S] : Good(n, f)}
<1>1. 0 \in T
  <2>. DEFINE f == [k \in 0 .. 0 |-> a]
  <2>1. f \in [0 .. 0 -> S] /\ f[0] = a /\ 1 .. 0 = {}
    OBVIOUS
  <2>. HIDE DEF f
  <2>. QED BY <2>1
<1>2. ASSUME NEW n \in Nat, n \in T
      PROVE  n + 1 \in T
  <2>. SUFFICES ASSUME n + 1 <= N
                PROVE  \E f \in [0 .. n + 1 -> S] : Good(n + 1, f)
    OBVIOUS
  <2>1. PICK g \in [0 .. n -> S] : Good(n, g)
    BY <1>2
  <2>. DEFINE f == [k \in 0 .. n + 1 |-> IF k = n + 1 THEN H[n + 1][g[n]] ELSE g[k]]
  <2>2. g[n] \in S /\ n + 1 \in 1 .. N /\ H[n + 1] \in [S -> S]
    BY <2>1
  <2>3. H[n + 1][g[n]] \in S
    BY <2>2
  <2>4. f \in [0 .. n + 1 -> S] /\ f[n + 1] = H[n + 1][g[n]] /\ \A k \in 0 .. n : f[k] = g[k]
    BY <2>3
  <2>. HIDE DEF f
  <2>5. Good(n + 1, f)
    <3>1. f[0] = a
      BY <2>1, <2>4
    <3>2. ASSUME NEW k \in 1 .. n + 1
          PROVE  f[k] = H[k][f[k - 1]]
      <4>1. CASE k = n + 1
        <5>1. k - 1 = n /\ n \in 0 .. n
          BY <4>1
        <5>. QED BY <2>4, <4>1, <5>1
      <4>2. CASE k # n + 1
        <5>1. k \in 1 .. n /\ k \in 0 .. n /\ k - 1 \in 0 .. n
          BY <4>2
        <5>. QED BY <2>1, <2>4, <5>1
      <4>. QED BY <4>1, <4>2
    <3>. QED BY <3>1, <3>2
  <2>. QED BY <2>4, <2>5
<1>. HIDE DEF T
<1>3. Nat \subseteq T
  BY <1>1, <1>2, NatInductive
<1>4. N \in T
  BY <1>3
<1>. QED BY <1>4 DEF T

\* The powers of two that a word needs: SMT works them out one by one.
LEMMA TwoPowers ==
  /\ 2^0 = 1
  /\ \A i \in 0 .. 30 : 2^i \in Nat /\ 2^i > 0 /\ 2^(i + 1) = 2 * 2^i
OBVIOUS

\* the sums of the first 0, 1, 2, ... bits of a word
IsSums(w, s) ==
  /\ s \in [0 .. 31 -> Nat] /\ s[0] = 0
  /\ \A n \in 1 .. 31 : s[n] = s[n - 1] + (IF n - 1 \in w THEN 2^(n - 1) ELSE 0)
Sums(w) == CHOOSE s : IsSums(w, s)
Total(w) == Sums(w)[31]

\* Every word has its sums.
LEMMA SumsOf ==
  ASSUME NEW w
  PROVE  IsSums(w, Sums(w)) /\ Total(w) \in Nat
<1>. DEFINE bit(n) == IF n - 1 \in w THEN 2^(n - 1) ELSE 0
            H == [n \in 1 .. 31 |-> [x \in Nat |-> x + bit(n)]]
<1>1. \A n \in 1 .. 31 : bit(n) \in Nat
  <2>. SUFFICES ASSUME NEW n \in 1 .. 31 PROVE bit(n) \in Nat
    OBVIOUS
  <2>1. n - 1 \in 0 .. 30
    OBVIOUS
  <2>2. 2^(n - 1) \in Nat
    BY <2>1, TwoPowers
  <2>. QED BY <2>2
<1>. HIDE DEF bit
<1>2. H \in [1 .. 31 -> [Nat -> Nat]] /\ \A n \in 1 .. 31 : \A x \in Nat : H[n][x] = x + bit(n)
  BY <1>1
<1>. HIDE DEF H
<1>3. 0 \in Nat /\ 31 \in Nat
  OBVIOUS
<1>4. \E f \in [0 .. 31 -> Nat] : f[0] = 0 /\ \A n \in 1 .. 31 : f[n] = H[n][f[n - 1]]
  <2>. DEFINE N == 31
              S == Nat
              a == 0
  <2>1. a \in S /\ N \in Nat /\ H \in [1 .. N -> [S -> S]]
    BY <1>2, <1>3
  <2>. HIDE DEF N, S, a
  <2>2. \E f \in [0 .. N -> S] : f[0] = a /\ \A n \in 1 .. N : f[n] = H[n][f[n - 1]]
    BY <2>1, Recursion
  <2>. QED BY <2>2 DEF N, S, a
<1>5. PICK f \in [0 .. 31 -> Nat] : f[0] = 0 /\ \A n \in 1 .. 31 : f[n] = H[n][f[n - 1]]
  BY <1>4
<1>6. \A n \in 1 .. 31 : f[n] = f[n - 1] + bit(n)
  <2>. SUFFICES ASSUME NEW n \in 1 .. 31 PROVE f[n] = f[n - 1] + bit(n)
    OBVIOUS
  <2>1. n - 1 \in 0 .. 31
    OBVIOUS
  <2>2. f[n - 1] \in Nat
    BY <1>5, <2>1
  <2>. QED BY <1>2, <1>5, <2>2
<1>7. IsSums(w, f)
  BY <1>5, <1>6 DEF IsSums, bit
<1>8. IsSums(w, Sums(w))
  BY <1>7 DEF Sums
<1>. QED BY <1>8 DEF IsSums, Total

\* Induction over the bits of a word.
LEMMA BitInduction ==
  ASSUME NEW T, 0 \in T, \A n \in 0 .. 30 : n \in T => n + 1 \in T
  PROVE  0 .. 31 \subseteq T
<1>. DEFINE V == {n \in Nat : n \in 0 .. 31 => n \in T}
<1>1. 0 \in V
  OBVIOUS
<1>2. \A n \in Nat : n \in V => n + 1 \in V
  OBVIOUS
<1>. HIDE DEF V
<1>3. Nat \subseteq V
  BY <1>1, <1>2, NatInductive
<1>. QED BY <1>3 DEF V

\* A sum and the next one.
LEMMA NextSum ==
  ASSUME NEW w, NEW n \in 0 .. 30
  PROVE  /\ Sums(w)[0] = 0 /\ Sums(w)[n] \in Nat /\ Sums(w)[n + 1] \in Nat
         /\ n \in w => Sums(w)[n + 1] = Sums(w)[n] + 2^n
         /\ n \notin w => Sums(w)[n + 1] = Sums(w)[n]
<1>1. n + 1 \in 1 .. 31 /\ (n + 1) - 1 = n /\ n \in 0 .. 31 /\ n + 1 \in 0 .. 31
  OBVIOUS
<1>2. IsSums(w, Sums(w))
  BY SumsOf
<1>3. Sums(w)[n + 1] = Sums(w)[n] + (IF n \in w THEN 2^n ELSE 0)
  BY <1>1, <1>2 DEF IsSums
<1>4. Sums(w)[0] = 0 /\ Sums(w)[n] \in Nat /\ Sums(w)[n + 1] \in Nat
  BY <1>1, <1>2 DEF IsSums
<1>. QED BY <1>3, <1>4

\* Words without a bit in common are added.
LEMMA SumOfUnion ==
  ASSUME NEW a, NEW b, a \cap b = {}
  PROVE  Total(a \cup b) = Total(a) + Total(b)
<1>. DEFINE u == Sums(a \cup b)
            s == Sums(a)
            t == Sums(b)
            T == {n \in 0 .. 31 : u[n] = s[n] + t[n]}
<1>1. u[0] = 0 /\ s[0] = 0 /\ t[0] = 0
  BY SumsOf DEF IsSums
<1>2. 0 \in T
  BY <1>1
<1>3. ASSUME NEW n \in 0 .. 30, n \in T
      PROVE  n + 1 \in T
  <2>1. /\ u[n] \in Nat /\ s[n] \in Nat /\ t[n] \in Nat /\ u[n] = s[n] + t[n]
        /\ n \in a \cup b => u[n + 1] = u[n] + 2^n
        /\ n \notin a \cup b => u[n + 1] = u[n]
        /\ n \in a => s[n + 1] = s[n] + 2^n
        /\ n \notin a => s[n + 1] = s[n]
        /\ n \in b => t[n + 1] = t[n] + 2^n
        /\ n \notin b => t[n + 1] = t[n]
    BY <1>3, NextSum
  <2>2. 2^n \in Nat
    BY TwoPowers
  <2>. HIDE DEF u, s, t
  <2>3. u[n + 1] = s[n + 1] + t[n + 1]
    <3>1. CASE n \in a
      BY <2>1, <2>2, <3>1
    <3>2. CASE n \notin a
      BY <2>1, <2>2, <3>2
    <3>. QED BY <3>1, <3>2
  <2>. QED BY <2>3
<1>. HIDE DEF T
<1>4. 31 \in T
  BY <1>2, <1>3, BitInduction
<1>. QED BY <1>4 DEF T, Total

\* A word below bit k is less than 2^k; its later sums stay the same.
LEMMA SumBound ==
  ASSUME NEW w, NEW k \in 0 .. 31, w \cap (0 .. 30) \subseteq 0 .. k - 1
  PROVE  Total(w) < 2^k
<1>. DEFINE s == Sums(w)
            T == {n \in 0 .. 31 : s[n] \in Nat /\ s[n] < 2^n}
            V == {n \in 0 .. 31 : n >= k => s[n] = s[k]}
<1>1. s[0] = 0
  BY SumsOf DEF IsSums
<1>2. 0 \in T
  BY <1>1, TwoPowers
<1>3. ASSUME NEW n \in 0 .. 30, n \in T
      PROVE  n + 1 \in T
  <2>1. /\ s[n] \in Nat /\ s[n] < 2^n
        /\ n \in w => s[n + 1] = s[n] + 2^n
        /\ n \notin w => s[n + 1] = s[n]
    BY <1>3, NextSum
  <2>2. 2^n \in Nat /\ 2^(n + 1) = 2 * 2^n
    BY TwoPowers
  <2>. HIDE DEF s
  <2>. QED BY <2>1, <2>2
<1>. HIDE DEF T
<1>4. k \in T
  BY <1>2, <1>3, BitInduction
<1>5. 0 \in V
  BY <1>1
<1>6. ASSUME NEW n \in 0 .. 30, n \in V
      PROVE  n + 1 \in V
  <2>1. CASE n + 1 <= k
    BY <2>1
  <2>2. CASE n >= k
    <3>1. n \notin w
      BY <2>2
    <3>2. s[n + 1] = s[n]
      BY <3>1, NextSum
    <3>. HIDE DEF s
    <3>. QED BY <1>6, <2>2, <3>2
  <2>. QED BY <2>1, <2>2
<1>. HIDE DEF V
<1>7. 31 \in V
  BY <1>5, <1>6, BitInduction
<1>. QED BY <1>4, <1>7 DEF T, V, Total

\* A word is known by its number.
LEMMA SameNumber ==
  ASSUME NEW a \in SUBSET (0 .. 30), NEW b \in SUBSET (0 .. 30), Total(a) = Total(b)
  PROVE  a = b
<1>. DEFINE s == Sums(a)
            t == Sums(b)
            T == {n \in 0 .. 31 : s[n] < 2^n /\ t[n] < 2^n
                                  /\ (s[n] = t[n] => \A i \in 0 .. n - 1 : i \in a <=> i \in b)}
<1>1. 0 \in T
  <2>1. s[0] = 0 /\ t[0] = 0
    BY SumsOf DEF IsSums
  <2>2. 0 .. 0 - 1 = {} /\ 0 \in 0 .. 31
    OBVIOUS
  <2>. HIDE DEF s, t
  <2>. QED BY <2>1, <2>2, TwoPowers
<1>2. ASSUME NEW n \in 0 .. 30, n \in T
      PROVE  n + 1 \in T
  <2>1. /\ s[n] \in Nat /\ t[n] \in Nat
        /\ n \in a => s[n + 1] = s[n] + 2^n
        /\ n \notin a => s[n + 1] = s[n]
        /\ n \in b => t[n + 1] = t[n] + 2^n
        /\ n \notin b => t[n + 1] = t[n]
    BY NextSum
  <2>2. s[n] < 2^n /\ t[n] < 2^n /\ (s[n] = t[n] => \A i \in 0 .. n - 1 : i \in a <=> i \in b)
    BY <1>2
  <2>3. 2^n \in Nat /\ 2^(n + 1) = 2 * 2^n
    BY TwoPowers
  <2>. HIDE DEF s, t
  <2>4. s[n + 1] < 2^(n + 1) /\ t[n + 1] < 2^(n + 1)
    BY <2>1, <2>2, <2>3
  <2>5. ASSUME s[n + 1] = t[n + 1]
        PROVE  s[n] = t[n] /\ (n \in a <=> n \in b)
    BY <2>1, <2>2, <2>3, <2>5
  <2>6. ASSUME s[n + 1] = t[n + 1], NEW i \in 0 .. (n + 1) - 1
        PROVE  i \in a <=> i \in b
    <3>1. i \in 0 .. n - 1 \/ i = n
      OBVIOUS
    <3>. QED BY <2>2, <2>5, <2>6, <3>1
  <2>. QED BY <2>4, <2>6
<1>. HIDE DEF T
<1>3. 31 \in T
  BY <1>1, <1>2, BitInduction
<1>4. \A i \in 0 .. 30 : i \in a <=> i \in b
  BY <1>3 DEF T, Total
<1>. QED BY <1>4

\* The number of a word with one bit.
LEMMA OneBit ==
  ASSUME NEW i \in 0 .. 30
  PROVE  Total({i}) = 2^i
<1>. DEFINE s == Sums({i})
            T == {n \in 0 .. 31 : (n <= i => s[n] = 0) /\ (n > i => s[n] = 2^i)}
<1>1. s[0] = 0
  BY SumsOf DEF IsSums
<1>2. 0 \in T
  BY <1>1
<1>3. ASSUME NEW n \in 0 .. 30, n \in T
      PROVE  n + 1 \in T
  <2>1. n = i => s[n + 1] = s[n] + 2^n
    BY NextSum
  <2>2. n # i => s[n + 1] = s[n]
    BY NextSum
  <2>3. 2^i \in Nat /\ 2^n \in Nat
    BY TwoPowers
  <2>. HIDE DEF s
  <2>. QED BY <1>3, <2>1, <2>2, <2>3
<1>. HIDE DEF T
<1>4. 31 \in T
  BY <1>2, <1>3, BitInduction
<1>. QED BY <1>4 DEF T, Total

\* No bits are nothing.
LEMMA NoBits == Total({}) = 0
<1>1. {} \cap {} = {} /\ {} \cup {} = {}
  OBVIOUS
<1>2. Total({}) = Total({}) + Total({}) /\ Total({}) \in Nat
  BY <1>1, SumOfUnion, SumsOf, Zenon
<1>3. \A x \in Nat : x = x + x => x = 0
  OBVIOUS
<1>. HIDE DEF Total
<1>. QED BY <1>2, <1>3, Zenon

\* A word that is moved up by k bits is F times as large.
LEMMA ShiftedTotal ==
  ASSUME NEW k \in 1 .. 30, NEW F \in Nat, \A i \in 0 .. 30 - k : 2^(i + k) = F * 2^i,
         NEW w \in SUBSET (0 .. 30 - k)
  PROVE  Total(Shl(w, k)) = F * Total(w)
<1>. DEFINE s == Sums(w)
            t == Sums(Shl(w, k))
            T == {n \in 0 .. 31 : (n <= k => t[n] = 0) /\ (n >= k => t[n] = F * s[n - k])}
            V == {n \in 0 .. 31 : n >= 31 - k => s[n] = s[31 - k]}
<1>1. s[0] = 0 /\ t[0] = 0
  BY SumsOf DEF IsSums
<1>2. 0 \in T
  BY <1>1
<1>3. ASSUME NEW n \in 0 .. 30, n \in T
      PROVE  n + 1 \in T
  <2>1. n \in Shl(w, k) => t[n + 1] = t[n] + 2^n
    BY NextSum
  <2>2. n \notin Shl(w, k) => t[n + 1] = t[n]
    BY NextSum
  <2>3. CASE n < k
    <3>1. n \notin Shl(w, k)
      BY <2>3 DEF Shl
    <3>2. n + 1 = k => (n + 1) - k = 0
      OBVIOUS
    <3>. HIDE DEF s, t
    <3>. QED BY <1>1, <1>3, <2>2, <2>3, <3>1, <3>2
  <2>4. CASE n >= k
    <3>. DEFINE m == n - k
    <3>1. m \in 0 .. 30 /\ m \in 0 .. 30 - k /\ m + k = n /\ (n + 1) - k = m + 1
      BY <2>4
    <3>2. n \in Shl(w, k) <=> m \in w
      BY <3>1 DEF Shl
    <3>3. /\ s[m] \in Nat
          /\ m \in w => s[m + 1] = s[m] + 2^m
          /\ m \notin w => s[m + 1] = s[m]
      BY <3>1, NextSum
    <3>4. 2^n = F * 2^m /\ 2^m \in Nat
      BY <3>1, TwoPowers
    <3>5. t[n] = F * s[m]
      BY <1>3, <2>4
    <3>. HIDE DEF s, t, m
    <3>6. t[n + 1] = F * s[m + 1]
      <4>1. CASE m \in w
        <5>1. F * (s[m] + 2^m) = F * s[m] + F * 2^m
          BY <3>3, <3>4
        <5>. QED BY <2>1, <3>2, <3>3, <3>4, <3>5, <4>1, <5>1
      <4>2. CASE m \notin w
        BY <2>2, <3>2, <3>3, <3>5, <4>2
      <4>. QED BY <4>1, <4>2
    <3>7. n + 1 >= k /\ n + 1 > k
      BY <2>4
    <3>. QED BY <3>1, <3>6, <3>7
  <2>. QED BY <2>3, <2>4
<1>. HIDE DEF T
<1>4. 31 \in T
  BY <1>2, <1>3, BitInduction
<1>5. 0 \in V
  BY <1>1
<1>6. ASSUME NEW n \in 0 .. 30, n \in V
      PROVE  n + 1 \in V
  <2>1. n >= 31 - k => n \notin w
    OBVIOUS
  <2>2. n \notin w => s[n + 1] = s[n]
    BY NextSum
  <2>. HIDE DEF s
  <2>3. CASE n + 1 < 31 - k
    BY <2>3
  <2>4. CASE n + 1 = 31 - k
    BY <2>4
  <2>5. CASE n >= 31 - k
    BY <1>6, <2>1, <2>2, <2>5
  <2>. QED BY <2>3, <2>4, <2>5
<1>. HIDE DEF V
<1>7. 31 \in V
  BY <1>5, <1>6, BitInduction
<1>. QED BY <1>4, <1>7 DEF T, V, Total

\* Num adds the bits of a word.
LEMMA NumIsTotal ==
  ASSUME NEW w
  PROVE  Num(w) = Total(w \cap (0 .. 30)) /\ Num(w) \in Nat
<1>. DEFINE Words == SUBSET (0 .. 30)
            step(g, s) == IF s = {} THEN 0
                          ELSE LET i == CHOOSE i \in s : TRUE IN 2^i + g[s \ {i}]
            IsNum(g) == g = [s \in Words |-> step(g, s)]
            sum == CHOOSE g : IsNum(g)
            W == [s \in Words |-> Total(s)]
<1>1. \A s \in Words : Total(s) \in Nat
  BY SumsOf
<1>2. ASSUME NEW s \in Words, s # {}, NEW i \in s
      PROVE  /\ Total(s) = 2^i + Total(s \ {i}) /\ 2^i \in Nat /\ 2^i > 0
             /\ s \ {i} \in Words
  <2>1. {i} \cap (s \ {i}) = {} /\ {i} \cup (s \ {i}) = s /\ i \in 0 .. 30 /\ s \ {i} \in Words
    BY <1>2
  <2>2. Total({i} \cup (s \ {i})) = Total({i}) + Total(s \ {i})
    BY <2>1, SumOfUnion
  <2>. QED BY <2>1, <2>2, OneBit, TwoPowers
<1>3. \A s \in Words : W[s] = step(W, s)
  <2>. SUFFICES ASSUME NEW s \in Words PROVE W[s] = step(W, s)
    OBVIOUS
  <2>1. CASE s = {}
    BY <2>1, NoBits
  <2>2. CASE s # {}
    <3>. DEFINE i == CHOOSE i \in s : TRUE
    <3>1. i \in s
      BY <2>2
    <3>2. Total(s) = 2^i + Total(s \ {i}) /\ s \ {i} \in Words
      BY <2>2, <3>1, <1>2
    <3>. QED BY <2>2, <3>2
  <2>. QED BY <2>1, <2>2
<1>4. IsNum(W)
  BY <1>3
<1>5. IsNum(sum)
  BY <1>4
<1>6. \A s \in Words : sum[s] = step(sum, s)
  BY <1>5
<1>. DEFINE T == {n \in Nat : \A s \in Words : Total(s) <= n => sum[s] = Total(s)}
<1>. HIDE DEF W, sum
<1>7. ASSUME NEW s \in Words, s # {}
      PROVE  \E i \in s : /\ sum[s] = 2^i + sum[s \ {i}]
                          /\ Total(s) = 2^i + Total(s \ {i}) /\ 2^i \in Nat /\ 2^i > 0
                          /\ s \ {i} \in Words /\ Total(s \ {i}) \in Nat
  <2>. DEFINE i == CHOOSE i \in s : TRUE
  <2>1. i \in s
    BY <1>7
  <2>2. sum[s] = 2^i + sum[s \ {i}]
    BY <1>6, <1>7
  <2>3. Total(s) = 2^i + Total(s \ {i}) /\ 2^i \in Nat /\ 2^i > 0 /\ s \ {i} \in Words
    BY <1>2, <1>7, <2>1
  <2>4. Total(s \ {i}) \in Nat
    BY <1>1, <2>3
  <2>. HIDE DEF i
  <2>. QED BY <2>1, <2>2, <2>3, <2>4
<1>8. sum[{}] = 0 /\ {} \in Words
  BY <1>6
<1>9. 0 \in T
  <2>. SUFFICES ASSUME NEW s \in Words, Total(s) <= 0 PROVE sum[s] = Total(s)
    OBVIOUS
  <2>1. CASE s = {}
    BY <1>8, <2>1, NoBits
  <2>2. CASE s # {}
    <3>1. PICK i \in s : Total(s) = 2^i + Total(s \ {i}) /\ 2^i \in Nat /\ 2^i > 0
                         /\ Total(s \ {i}) \in Nat
      BY <1>7, <2>2
    <3>2. Total(s) \in Nat
      BY <1>1
    <3>. QED BY <3>1, <3>2
  <2>. QED BY <2>1, <2>2
<1>10. \A n \in Nat : n \in T => n + 1 \in T
  <2>. SUFFICES ASSUME NEW n \in Nat, n \in T, NEW s \in Words, Total(s) <= n + 1
                PROVE  sum[s] = Total(s)
    OBVIOUS
  <2>1. CASE s = {}
    BY <1>8, <2>1, NoBits
  <2>2. CASE s # {}
    <3>1. PICK i \in s : /\ sum[s] = 2^i + sum[s \ {i}]
                         /\ Total(s) = 2^i + Total(s \ {i}) /\ 2^i \in Nat /\ 2^i > 0
                         /\ s \ {i} \in Words /\ Total(s \ {i}) \in Nat
      BY <1>7, <2>2
    <3>2. Total(s) \in Nat
      BY <1>1
    <3>3. Total(s \ {i}) <= n
      BY <3>1, <3>2
    <3>4. sum[s \ {i}] = Total(s \ {i})
      BY <3>1, <3>3
    <3>. QED BY <3>1, <3>4
  <2>. QED BY <2>1, <2>2
<1>. HIDE DEF T
<1>11. Nat \subseteq T
  BY <1>9, <1>10, NatInductive
<1>12. w \cap (0 .. 30) \in Words /\ Total(w \cap (0 .. 30)) \in Nat
  BY <1>1
<1>13. Total(w \cap (0 .. 30)) \in T
  BY <1>11, <1>12
<1>14. sum[w \cap (0 .. 30)] = Total(w \cap (0 .. 30))
  BY <1>12, <1>13 DEF T
<1>15. Num(w) = sum[w \cap (0 .. 30)]
  BY Zenon DEF Num, sum
<1>. QED BY <1>12, <1>14, <1>15

-----------------------------------------------------------------------------
(* The bits of a number                                                    *)

\* n, n \div 2, n \div 4, ...: what is left of n after each bit but the last i
Halved(n, i, h) ==
  h \in [0 .. i -> Nat \ {0}] /\ h[0] = n /\ \A k \in 1 .. i : h[k] = h[k - 1] \div 2
OddAfter(n) == {i \in Nat : \E h : Halved(n, i, h) /\ h[i] % 2 = 1}

\* The bits of a number are the last one and those of its half, moved up by one.
LEMMA OddOfHalf ==
  ASSUME NEW n \in Nat, n # 0
  PROVE  OddAfter(n) =
           (IF n % 2 = 1 THEN {0} ELSE {}) \cup {i + 1 : i \in OddAfter(n \div 2)}
<1>0. n \div 2 \in Nat
  OBVIOUS
<1>1. 0 \in OddAfter(n) <=> n % 2 = 1
  <2>1. ASSUME n % 2 = 1 PROVE 0 \in OddAfter(n)
    <3>. DEFINE h == [k \in 0 .. 0 |-> n]
    <3>1. h \in [0 .. 0 -> Nat \ {0}] /\ h[0] = n /\ 1 .. 0 = {}
      OBVIOUS
    <3>. HIDE DEF h
    <3>2. Halved(n, 0, h)
      BY <3>1 DEF Halved
    <3>3. h[0] % 2 = 1
      BY <2>1, <3>1
    <3>. QED BY <3>2, <3>3 DEF OddAfter
  <2>2. ASSUME 0 \in OddAfter(n) PROVE n % 2 = 1
    BY <2>2 DEF OddAfter, Halved
  <2>. QED BY <2>1, <2>2
<1>2. ASSUME NEW i \in OddAfter(n \div 2)
      PROVE  i \in Nat /\ i + 1 \in OddAfter(n)
  <2>1. i \in Nat
    BY DEF OddAfter
  <2>2. PICK g : Halved(n \div 2, i, g) /\ g[i] % 2 = 1
    BY DEF OddAfter
  <2>3. /\ g \in [0 .. i -> Nat \ {0}] /\ g[0] = n \div 2
        /\ \A k \in 1 .. i : g[k] = g[k - 1] \div 2
    BY <2>2 DEF Halved
  <2>. DEFINE h == [k \in 0 .. i + 1 |-> IF k = 0 THEN n ELSE g[k - 1]]
  <2>4. \A k \in 0 .. i + 1 : k # 0 => k - 1 \in 0 .. i /\ g[k - 1] \in Nat \ {0}
    BY <2>1, <2>3
  <2>5. h \in [0 .. i + 1 -> Nat \ {0}]
    BY <2>4
  <2>6. 0 \in 0 .. i + 1 /\ h[0] = n /\ \A k \in 1 .. i + 1 : h[k] = g[k - 1]
    BY <2>1
  <2>. HIDE DEF h
  <2>7. ASSUME NEW k \in 1 .. i + 1
        PROVE  h[k] = h[k - 1] \div 2
    <3>1. CASE k = 1
      BY <2>3, <2>6, <3>1
    <3>2. CASE k # 1
      <4>. DEFINE j == k - 1
      <4>1. j \in 1 .. i /\ j \in 1 .. i + 1 /\ k = j + 1
        BY <2>1, <3>2
      <4>2. h[k] = g[j] /\ h[j] = g[j - 1] /\ g[j] = g[j - 1] \div 2
        BY <2>3, <2>6, <4>1
      <4>. QED BY <4>2
    <3>. QED BY <3>1, <3>2
  <2>8. i + 1 \in Nat /\ i + 1 \in 1 .. i + 1 /\ (i + 1) - 1 = i
    BY <2>1
  <2>9. h[i + 1] % 2 = 1
    <3>1. h[i + 1] = g[i]
      BY <2>6, <2>8
    <3>. QED BY <3>1, <2>2
  <2>10. Halved(n, i + 1, h)
    BY <2>5, <2>6, <2>7 DEF Halved
  <2>. QED BY <2>1, <2>8, <2>9, <2>10 DEF OddAfter
<1>3. ASSUME NEW i \in OddAfter(n), i # 0
      PROVE  i \in Nat /\ i - 1 \in OddAfter(n \div 2)
  <2>1. i \in Nat /\ i - 1 \in Nat
    BY <1>3 DEF OddAfter
  <2>2. PICK g : Halved(n, i, g) /\ g[i] % 2 = 1
    BY DEF OddAfter
  <2>3. /\ g \in [0 .. i -> Nat \ {0}] /\ g[0] = n
        /\ \A k \in 1 .. i : g[k] = g[k - 1] \div 2
    BY <2>2 DEF Halved
  <2>. DEFINE h == [k \in 0 .. i - 1 |-> g[k + 1]]
  <2>4. \A k \in 0 .. i - 1 : k + 1 \in 0 .. i /\ k + 1 \in 1 .. i /\ g[k + 1] \in Nat \ {0}
    BY <2>1, <2>3
  <2>5. h \in [0 .. i - 1 -> Nat \ {0}]
    BY <2>4
  <2>6. \A k \in 0 .. i - 1 : h[k] = g[k + 1]
    OBVIOUS
  <2>. HIDE DEF h
  <2>7. 0 \in 0 .. i - 1 /\ 0 + 1 = 1 /\ 1 - 1 = 0
    BY <2>1
  <2>8. h[0] = n \div 2
    <3>1. h[0] = g[1] /\ 1 \in 1 .. i
      BY <2>4, <2>6, <2>7
    <3>. QED BY <2>3, <2>7, <3>1
  <2>9. ASSUME NEW k \in 1 .. i - 1
        PROVE  h[k] = h[k - 1] \div 2
    <3>. DEFINE j == k + 1
    <3>1. j \in 1 .. i /\ j - 1 = k /\ k - 1 \in 0 .. i - 1 /\ k \in 0 .. i - 1 /\ (k - 1) + 1 = k
      BY <2>1
    <3>2. h[k] = g[j] /\ h[k - 1] = g[k] /\ g[j] = g[k] \div 2
      BY <2>3, <2>6, <3>1
    <3>. QED BY <3>2
  <2>10. h[i - 1] % 2 = 1
    <3>1. i - 1 \in 0 .. i - 1 /\ (i - 1) + 1 = i
      BY <2>1
    <3>2. h[i - 1] = g[i]
      BY <2>6, <3>1
    <3>. QED BY <2>2, <3>2
  <2>11. Halved(n \div 2, i - 1, h)
    BY <2>5, <2>8, <2>9 DEF Halved
  <2>. QED BY <2>1, <2>10, <2>11 DEF OddAfter
<1>4. \A i \in OddAfter(n) : i = 0 \/ \E j \in OddAfter(n \div 2) : i = j + 1
  <2>. SUFFICES ASSUME NEW i \in OddAfter(n), i # 0
                PROVE  \E j \in OddAfter(n \div 2) : i = j + 1
    OBVIOUS
  <2>1. i \in Nat /\ i - 1 \in OddAfter(n \div 2)
    BY <1>3
  <2>2. i = (i - 1) + 1
    BY <2>1
  <2>. QED BY <2>1, <2>2
<1>. QED BY <1>1, <1>2, <1>4

\* Zero has no bits.
LEMMA OddOfZero == OddAfter(0) = {}
<1>. SUFFICES ASSUME NEW i \in Nat, NEW h, Halved(0, i, h) PROVE FALSE
  BY DEF OddAfter
<1>1. 0 \in 0 .. i
  OBVIOUS
<1>. QED BY <1>1 DEF Halved

\* Bits takes the bits of a number from the last to the first.
LEMMA BitsOf ==
  ASSUME NEW v \in Nat
  PROVE  Bits(v) = IF v = 0 THEN {}
                   ELSE (IF v % 2 = 1 THEN {0} ELSE {}) \cup Shl(Bits(v \div 2), 1)
<1>. DEFINE step(g, n) ==
              IF n < 0 THEN {-1} ELSE IF n = 0 THEN {}
              ELSE (IF n % 2 = 1 THEN {0} ELSE {}) \cup {i + 1 : i \in g[n \div 2]}
            IsBits(g) == g = [n \in Int |-> step(g, n)]
            bits == CHOOSE g : IsBits(g)
            W == [n \in Int |-> IF n < 0 THEN {-1} ELSE OddAfter(n)]
<1>1. \A n \in Int : W[n] = step(W, n)
  <2>. SUFFICES ASSUME NEW n \in Int PROVE W[n] = step(W, n)
    OBVIOUS
  <2>1. CASE n < 0
    BY <2>1
  <2>2. CASE n = 0
    BY <2>2, OddOfZero
  <2>3. CASE n > 0
    <3>1. n \in Nat /\ n # 0 /\ n \div 2 \in Int /\ ~(n \div 2 < 0) /\ ~(n < 0)
      BY <2>3
    <3>2. W[n] = OddAfter(n) /\ W[n \div 2] = OddAfter(n \div 2)
      BY <3>1
    <3>. HIDE DEF W
    <3>. QED BY <3>1, <3>2, OddOfHalf
  <2>. QED BY <2>1, <2>2, <2>3
<1>2. IsBits(W)
  BY <1>1
<1>3. IsBits(bits)
  BY <1>2
<1>4. \A n \in Int : bits[n] = step(bits, n)
  BY <1>3
<1>. HIDE DEF W, bits
<1>5. \A n \in Int : Bits(n) = bits[n]
  BY Zenon DEF Bits, bits
<1>6. v \in Int /\ ~(v < 0) /\ v \div 2 \in Int
  OBVIOUS
<1>7. Bits(v) = step(bits, v) /\ Bits(v \div 2) = bits[v \div 2]
  BY <1>4, <1>5, <1>6
<1>. QED BY <1>6, <1>7 DEF Shl

\* A number below 2^k has k bits, and is what they add up to.
LEMMA TotalBits ==
  ASSUME NEW k \in 0 .. 31, NEW v \in Nat, v < 2^k
  PROVE  Bits(v) \subseteq 0 .. k - 1 /\ Total(Bits(v)) = v
<1>. DEFINE T == {n \in 0 .. 31 : \A x \in Nat :
                    x < 2^n => Bits(x) \subseteq 0 .. n - 1 /\ Total(Bits(x)) = x}
<1>1. 0 \in T
  <2>1. \A x \in Nat : x < 2^0 => x = 0
    BY TwoPowers
  <2>2. Bits(0) = {}
    BY BitsOf
  <2>. QED BY <2>1, <2>2, NoBits
<1>2. ASSUME NEW n \in 0 .. 30, n \in T
      PROVE  n + 1 \in T
  <2>. SUFFICES ASSUME NEW x \in Nat, x < 2^(n + 1)
                PROVE  Bits(x) \subseteq 0 .. (n + 1) - 1 /\ Total(Bits(x)) = x
    OBVIOUS
  <2>1. CASE x = 0
    <3>1. Bits(x) = {}
      BY <2>1, BitsOf
    <3>. QED BY <2>1, <3>1, NoBits
  <2>2. CASE x # 0
    <3>. DEFINE m == x \div 2
                low == IF x % 2 = 1 THEN {0} ELSE {}
                high == Shl(Bits(m), 1)
    <3>1. m \in Nat /\ x = 2 * m + (x % 2) /\ x % 2 \in {0, 1}
      OBVIOUS
    <3>2. 2^(n + 1) = 2 * 2^n /\ 2^n \in Nat
      BY TwoPowers
    <3>. HIDE DEF m
    <3>3. m < 2^n
      BY <3>1, <3>2
    <3>4. Bits(m) \subseteq 0 .. n - 1 /\ Total(Bits(m)) = m
      BY <1>2, <3>1, <3>3
    <3>5. Bits(x) = low \cup high
      BY <2>2, BitsOf DEF m
    <3>6. high \subseteq 1 .. n
      BY <3>4 DEF Shl
    <3>7. Total(high) = 2 * m
      <4>1. Bits(m) \in SUBSET (0 .. 30 - 1)
        BY <3>4
      <4>2. \A i \in 0 .. 30 - 1 : 2^(i + 1) = 2 * 2^i
        <5>1. \A i \in 0 .. 30 - 1 : i \in 0 .. 30
          OBVIOUS
        <5>. QED BY <5>1, TwoPowers
      <4>. QED BY <3>4, <4>1, <4>2, ShiftedTotal
    <3>8. Total(low) = x % 2
      <4>1. Total({0}) = 1 /\ Total({}) = 0
        BY OneBit, TwoPowers, NoBits
      <4>. QED BY <3>1, <4>1
    <3>9. low \cap high = {}
      BY <3>6
    <3>10. Total(Bits(x)) = (x % 2) + 2 * m
      BY <3>5, <3>7, <3>8, <3>9, SumOfUnion
    <3>11. Bits(x) \subseteq 0 .. (n + 1) - 1
      BY <3>5, <3>6
    <3>. QED BY <3>1, <3>10, <3>11
  <2>. QED BY <2>1, <2>2
<1>. HIDE DEF T
<1>3. k \in T
  BY <1>1, <1>2, BitInduction
<1>. QED BY <1>3 DEF T

\* the numbers that the model can count, of 31 bits
Numbers == {n \in Nat : n <= 2147483647}

\* The powers of two in the model, as numerals.
LEMMA SomePowers ==
  /\ 2^1 = 2 /\ 2^2 = 4 /\ 2^3 = 8 /\ 2^4 = 16 /\ 2^5 = 32
  /\ 2^8 = 256
  /\ 2^15 = 32768
  /\ 2^16 = 65536
  /\ 2^31 = 2147483648
<1>1. 2^1 = 2 /\ 2^2 = 4 /\ 2^3 = 8 /\ 2^4 = 16 /\ 2^5 = 32 /\ 2^8 = 256
  BY SMT
<1>2. 2^15 = 32768
  BY SMT
<1>3. 2^16 = 65536
  BY SMT
<1>4. 2^31 = 2147483648
  BY SMT
<1>. QED BY <1>1, <1>2, <1>3, <1>4, SMT

\* What a word of 31 bits can be.
LEMMA NumbersAre == \A v : v \in Numbers <=> v \in Nat /\ v < 2^31
<1>1. \A v : v \in Numbers <=> v \in Nat /\ v < 2147483648
  BY SMT DEF Numbers
<1>. QED BY <1>1, SomePowers, SMT

\* Bits and Num are inverse to each other.
LEMMA NumOfBits ==
  ASSUME NEW v \in Numbers
  PROVE  v \in Nat /\ Bits(v) \subseteq 0 .. 30 /\ Total(Bits(v)) = v /\ Num(Bits(v)) = v
<1>1. v \in Nat /\ v < 2^31 /\ 31 \in 0 .. 31 /\ 31 - 1 = 30
  BY NumbersAre
<1>2. Bits(v) \subseteq 0 .. 31 - 1 /\ Total(Bits(v)) = v
  BY <1>1, TotalBits, Zenon
<1>3. Bits(v) \cap (0 .. 30) = Bits(v)
  BY <1>1, <1>2
<1>. QED BY <1>1, <1>2, <1>3, NumIsTotal

\* The bits of the number of a word are the word.
LEMMA BitsOfNum ==
  ASSUME NEW w \in SUBSET (0 .. 30)
  PROVE  Num(w) = Total(w) /\ Num(w) \in Numbers /\ Bits(Num(w)) = w
<1>0. 31 \in 0 .. 31 /\ 31 - 1 = 30
  OBVIOUS
<1>1. w \cap (0 .. 30) = w
  OBVIOUS
<1>2. Num(w) = Total(w) /\ Total(w) \in Nat
  BY <1>1, NumIsTotal
<1>3. Total(w) < 2^31
  <2>1. w \cap (0 .. 30) \subseteq 0 .. 31 - 1
    BY <1>0, <1>1
  <2>. QED BY <2>1, <1>0, SumBound
<1>4. Num(w) \in Numbers
  BY <1>2, <1>3, NumbersAre
<1>5. Bits(Num(w)) \in SUBSET (0 .. 30) /\ Total(Bits(Num(w))) = Total(w)
  BY <1>2, <1>4, NumOfBits
<1>. QED BY <1>2, <1>4, <1>5, SameNumber

\* A number below 2^k has bits below k, and the other way round.
LEMMA BitsBelow ==
  ASSUME NEW k \in 0 .. 31, NEW v \in Nat, v < 2^k
  PROVE  v \in Numbers /\ Bits(v) \subseteq 0 .. k - 1
<1>1. Bits(v) \subseteq 0 .. k - 1 /\ Total(Bits(v)) = v
  BY TotalBits
<1>2. Bits(v) \in SUBSET (0 .. 30)
  BY <1>1
<1>. QED BY <1>1, <1>2, BitsOfNum

\* A word of k bits has a number below 2^k.
LEMMA NumBelow ==
  ASSUME NEW k \in 0 .. 31, NEW w \in SUBSET (0 .. k - 1)
  PROVE  Num(w) \in Nat /\ Num(w) < 2^k /\ Num(w) = Total(w) /\ Bits(Num(w)) = w
<1>1. w \in SUBSET (0 .. 30) /\ w \cap (0 .. 30) \subseteq 0 .. k - 1
  OBVIOUS
<1>2. Num(w) = Total(w) /\ Num(w) \in Nat /\ Bits(Num(w)) = w
  BY <1>1, BitsOfNum, NumbersAre
<1>3. Total(w) < 2^k
  BY <1>1, SumBound
<1>. QED BY <1>2, <1>3

\* Numbers without a bit in common: `|` adds them.
LEMMA OrAdds ==
  ASSUME NEW a \in Numbers, NEW c \in Numbers, Bits(a) \cap Bits(c) = {}
  PROVE  Or(a, c) = a + c
<1>1. /\ Bits(a) \in SUBSET (0 .. 30) /\ Total(Bits(a)) = a
      /\ Bits(c) \in SUBSET (0 .. 30) /\ Total(Bits(c)) = c
  BY NumOfBits
<1>2. Total(Bits(a) \cup Bits(c)) = a + c
  BY <1>1, SumOfUnion
<1>3. Bits(a) \cup Bits(c) \in SUBSET (0 .. 30)
  BY <1>1
<1>. QED BY <1>2, <1>3, BitsOfNum DEF Or

\* 2^(i + k) is 2^k times 2^i.
LEMMA HighPower ==
  ASSUME NEW k \in 1 .. 30
  PROVE  \A i \in 0 .. 30 - k : 2^(i + k) = 2^k * 2^i
<1>. DEFINE T == {i \in Nat : i \in 0 .. 30 - k => 2^(i + k) = 2^k * 2^i}
<1>0. 2^k \in Nat
  <2>1. k \in 0 .. 30
    OBVIOUS
  <2>. QED BY <2>1, TwoPowers
<1>1. 0 \in T
  <2>1. 0 + k = k /\ 2^k * 1 = 2^k
    BY <1>0
  <2>. QED BY <2>1, TwoPowers
<1>2. ASSUME NEW i \in Nat, i \in T, i + 1 \in 0 .. 30 - k
      PROVE  2^((i + 1) + k) = 2^k * 2^(i + 1)
  <2>1. i \in 0 .. 30 - k /\ i \in 0 .. 30 /\ i + k \in 0 .. 30 /\ (i + 1) + k = (i + k) + 1
    BY <1>2
  <2>2. 2^(i + k) = 2^k * 2^i
    BY <1>2, <2>1
  <2>3. 2^((i + k) + 1) = 2 * 2^(i + k) /\ 2^(i + 1) = 2 * 2^i /\ 2^i \in Nat
    BY <2>1, TwoPowers
  <2>4. 2 * (2^k * 2^i) = 2^k * (2 * 2^i)
    BY <1>0, <2>3
  <2>. QED BY <2>1, <2>2, <2>3, <2>4
<1>3. \A i \in Nat : i \in T => i + 1 \in T
  BY <1>2
<1>. HIDE DEF T
<1>4. Nat \subseteq T
  BY <1>1, <1>3, NatInductive
<1>. QED BY <1>4 DEF T

\* A shift by k multiplies by 2^k.
LEMMA ShiftedBy ==
  ASSUME NEW k \in 1 .. 30, NEW w \in SUBSET (0 .. 30 - k)
  PROVE  Total(Shl(w, k)) = 2^k * Total(w)
<1>. DEFINE F == 2^k
<1>1. F \in Nat
  <2>1. k \in 0 .. 30
    OBVIOUS
  <2>. QED BY <2>1, TwoPowers
<1>2. \A i \in 0 .. 30 - k : 2^(i + k) = F * 2^i
  BY HighPower
<1>. HIDE DEF F
<1>3. Total(Shl(w, k)) = F * Total(w)
  BY <1>1, <1>2, ShiftedTotal
<1>. QED BY <1>3 DEF F

\* `|` of a key and a prefix of the upper half of the word.
LEMMA UpperAdds ==
  ASSUME NEW key \in Numbers, NEW prefix \in Nat, prefix < 2^15,
         Bits(key) \cap Shl(Bits(prefix), 16) = {}
  PROVE  Num(Bits(key) \cup Shl(Bits(prefix), 16)) = key + 65536 * prefix
<1>1. 15 \in 0 .. 31 /\ 15 - 1 = 14 /\ 30 - 16 = 14
  BY SMT
<1>2. Bits(prefix) \subseteq 0 .. 15 - 1 /\ Total(Bits(prefix)) = prefix
  BY <1>1, TotalBits
<1>3. Total(Shl(Bits(prefix), 16)) = 65536 * prefix
  <2>1. 16 \in 1 .. 30 /\ Bits(prefix) \in SUBSET (0 .. 30 - 16)
    BY <1>1, <1>2
  <2>2. Total(Shl(Bits(prefix), 16)) = 2^16 * Total(Bits(prefix))
    BY <2>1, ShiftedBy
  <2>. QED BY <1>2, <2>2, SomePowers
<1>4. Shl(Bits(prefix), 16) \in SUBSET (0 .. 30)
  BY <1>1, <1>2 DEF Shl
<1>5. Bits(key) \in SUBSET (0 .. 30) /\ Total(Bits(key)) = key
  BY NumOfBits
<1>6. Total(Bits(key) \cup Shl(Bits(prefix), 16)) = key + 65536 * prefix
  BY <1>3, <1>5, SumOfUnion
<1>7. Bits(key) \cup Shl(Bits(prefix), 16) \in SUBSET (0 .. 30)
  BY <1>4, <1>5
<1>. QED BY <1>6, <1>7, BitsOfNum

\* The bits of two bytes.
LEMMA BitsOfPair ==
  ASSUME NEW a \in Byte, NEW c \in Byte
  PROVE  Bits(a + c * 256) = Bits(a) \cup Shl(Bits(c), 8) /\ Bits(a) \subseteq 0 .. 7
         /\ Bits(c) \subseteq 0 .. 7
<1>1. a \in Nat /\ a < 2^8 /\ c \in Nat /\ c < 2^8 /\ 8 \in 0 .. 31 /\ 8 - 1 = 7
  BY SomePowers DEF Byte
<1>2. /\ Bits(a) \subseteq 0 .. 7 /\ Total(Bits(a)) = a
      /\ Bits(c) \subseteq 0 .. 7 /\ Total(Bits(c)) = c
  BY <1>1, TotalBits
<1>3. Total(Shl(Bits(c), 8)) = 256 * c
  <2>1. 8 \in 1 .. 30 /\ Bits(c) \in SUBSET (0 .. 30 - 8)
    BY <1>1, <1>2
  <2>2. Total(Shl(Bits(c), 8)) = 2^8 * Total(Bits(c))
    BY <2>1, ShiftedBy
  <2>. QED BY <1>2, <2>2, SomePowers
<1>4. Shl(Bits(c), 8) \subseteq 8 .. 15
  BY <1>2 DEF Shl
<1>. DEFINE w == Bits(a) \cup Shl(Bits(c), 8)
<1>5. Bits(a) \cap Shl(Bits(c), 8) = {} /\ w \in SUBSET (0 .. 30)
  BY <1>2, <1>4
<1>6. Total(w) = a + 256 * c
  BY <1>2, <1>3, <1>5, SumOfUnion
<1>7. Num(w) = Total(w) /\ Bits(Num(w)) = w
  BY <1>5, BitsOfNum
<1>8. a + c * 256 = a + 256 * c
  BY <1>1
<1>. QED BY <1>2, <1>6, <1>7, <1>8

-----------------------------------------------------------------------------
(* The bytes of a number                                                   *)

\* the weight of the byte i of a number
Weight(i) == 256^(i - 1)

\* The weights of the four bytes.
LEMMA Weights ==
  Weight(1) = 1 /\ Weight(2) = 256 /\ Weight(3) = 65536 /\ Weight(4) = 16777216
<1>1. 1 - 1 = 0 /\ 2 - 1 = 1 /\ 3 - 1 = 2 /\ 4 - 1 = 3
  OBVIOUS
<1>2. Weight(1) = 256^0 /\ Weight(2) = 256^1 /\ Weight(3) = 256^2 /\ Weight(4) = 256^3
  BY <1>1, Zenon DEF Weight
<1>3. 256^0 = 1 /\ 256^1 = 256
  BY SMT
<1>4. 256^2 = 65536
  BY SMT
<1>5. 256^3 = 16777216
  BY SMT
<1>. QED BY <1>2, <1>3, <1>4, <1>5, SMT

\* Number adds bytes with their weights.
LEMMA NumberIs ==
  ASSUME NEW b, NEW at \in Nat, NEW n \in {2, 4}, \A i \in 1 .. n : b[at + i] \in Nat
  PROVE  /\ n = 2 => Number(b, at, n) = b[at + 2] * 256 + b[at + 1]
         /\ n = 4 => Number(b, at, n) = b[at + 4] * Weight(4) + b[at + 3] * Weight(3)
                                         + b[at + 2] * 256 + b[at + 1]
<1>. DEFINE step(g, i) == IF i = 0 THEN 0 ELSE b[at + i] * Weight(i) + g[i - 1]
            IsSum(g) == g = [i \in 0 .. n |-> step(g, i)]
            sum == CHOOSE g : IsSum(g)
            w1 == b[at + 1] * Weight(1) + 0
            w2 == b[at + 2] * Weight(2) + w1
            w3 == b[at + 3] * Weight(3) + w2
            w4 == b[at + 4] * Weight(4) + w3
            W == [i \in 0 .. n |-> IF i = 0 THEN 0 ELSE IF i = 1 THEN w1 ELSE IF i = 2 THEN w2
                                   ELSE IF i = 3 THEN w3 ELSE w4]
<1>1. n = 2 => 0 .. n = {0, 1, 2}
  OBVIOUS
<1>2. n = 4 => 0 .. n = {0, 1, 2, 3, 4}
  OBVIOUS
<1>3. \A i \in 0 .. n : W[i] = step(W, i)
  <2>. HIDE DEF w1, w2, w3, w4
  <2>1. /\ W[0] = 0 /\ W[1] = w1 /\ W[2] = w2
        /\ n = 4 => W[3] = w3 /\ W[4] = w4
    BY <1>1, <1>2
  <2>. HIDE DEF W
  <2>2. 1 - 1 = 0 /\ 2 - 1 = 1 /\ 3 - 1 = 2 /\ 4 - 1 = 3
    OBVIOUS
  <2>3. w1 = b[at + 1] * Weight(1) + 0 /\ w2 = b[at + 2] * Weight(2) + w1
    BY Zenon DEF w1, w2
  <2>4. w3 = b[at + 3] * Weight(3) + w2 /\ w4 = b[at + 4] * Weight(4) + w3
    BY Zenon DEF w3, w4
  <2>5. W[0] = step(W, 0)
    BY <2>1
  <2>6. W[1] = step(W, 1)
    BY <2>1, <2>2, <2>3
  <2>7. W[2] = step(W, 2)
    BY <2>1, <2>2, <2>3
  <2>8. n = 4 => W[3] = step(W, 3)
    BY <2>1, <2>2, <2>4
  <2>9. n = 4 => W[4] = step(W, 4)
    BY <2>1, <2>2, <2>4
  <2>. HIDE DEF step
  <2>. QED BY <1>1, <1>2, <2>5, <2>6, <2>7, <2>8, <2>9
<1>4. W = [i \in 0 .. n |-> W[i]]
  OBVIOUS
<1>5. IsSum(W)
  <2>. HIDE DEF W, step
  <2>. QED BY <1>3, <1>4
<1>6. IsSum(sum)
  BY <1>5, Zenon
<1>. HIDE DEF W, sum
<1>7. Number(b, at, n) = sum[n]
  BY Zenon DEF Number, sum, Weight
<1>8. \A i \in 0 .. n : sum[i] = step(sum, i)
  <2>. HIDE DEF step
  <2>. QED BY <1>6
<1>9. /\ n = 2 => b[at + 1] \in Nat /\ b[at + 2] \in Nat
      /\ n = 4 => b[at + 1] \in Nat /\ b[at + 2] \in Nat /\ b[at + 3] \in Nat /\ b[at + 4] \in Nat
  <2>1. n = 2 => 1 \in 1 .. n /\ 2 \in 1 .. n
    OBVIOUS
  <2>2. n = 4 => 1 \in 1 .. n /\ 2 \in 1 .. n /\ 3 \in 1 .. n /\ 4 \in 1 .. n
    OBVIOUS
  <2>. QED BY <2>1, <2>2
<1>10. ASSUME n = 2
       PROVE  Number(b, at, n) = b[at + 2] * 256 + b[at + 1]
  <2>1. 0 \in 0 .. n /\ 1 \in 0 .. n /\ 2 \in 0 .. n
    BY <1>10
  <2>2. sum[0] = 0
    BY <1>8, <2>1
  <2>3. sum[1] = b[at + 1] * Weight(1) + sum[1 - 1]
    BY <1>8, <2>1
  <2>4. sum[2] = b[at + 2] * Weight(2) + sum[2 - 1]
    BY <1>8, <2>1
  <2>. QED BY <1>7, <1>9, <1>10, <2>2, <2>3, <2>4, Weights, SMT
<1>11. ASSUME n = 4
       PROVE  Number(b, at, n) =
          b[at + 4] * Weight(4) + b[at + 3] * Weight(3) + b[at + 2] * 256
                                  + b[at + 1]
  <2>1. 0 \in 0 .. n /\ 1 \in 0 .. n /\ 2 \in 0 .. n /\ 3 \in 0 .. n /\ 4 \in 0 .. n
    BY <1>11
  <2>2. sum[0] = 0
    BY <1>8, <2>1
  <2>3. sum[1] = b[at + 1] * Weight(1) + sum[1 - 1]
    BY <1>8, <2>1
  <2>4. sum[2] = b[at + 2] * Weight(2) + sum[2 - 1]
    BY <1>8, <2>1
  <2>5. sum[3] = b[at + 3] * Weight(3) + sum[3 - 1]
    BY <1>8, <2>1
  <2>6. sum[4] = b[at + 4] * Weight(4) + sum[4 - 1]
    BY <1>8, <2>1
  <2>7. 1 - 1 = 0 /\ 2 - 1 = 1 /\ 3 - 1 = 2 /\ 4 - 1 = 3
    OBVIOUS
  <2>8. sum[1] = b[at + 1] /\ sum[2] = b[at + 2] * 256 + b[at + 1]
    BY <1>9, <1>11, <2>2, <2>3, <2>4, <2>7, Weights, SMT
  <2>9. sum[3] = b[at + 3] * Weight(3) + (b[at + 2] * 256 + b[at + 1])
    BY <2>5, <2>7, <2>8, Weights, SMT
  <2>10. sum[4] = b[at + 4] * Weight(4) + (b[at + 3] * Weight(3) + (b[at + 2] * 256 + b[at + 1]))
    BY <2>6, <2>7, <2>9, Weights, SMT
  <2>. QED BY <1>7, <1>9, <1>11, <2>10, Weights, SMT
<1>. QED BY <1>10, <1>11

\* Dividing by d.
LEMMA DivMod ==
  ASSUME NEW v \in Nat, NEW d \in Nat, d > 0
  PROVE  v \div d \in Nat /\ v % d \in Nat /\ v % d < d /\ v = d * (v \div d) + (v % d)
BY SMT

\* A quotient and a remainder are known by their sum.
LEMMA DivIs ==
  ASSUME NEW v \in Nat, NEW d \in Nat, d > 0, NEW q \in Nat, NEW r \in Nat, r < d, v = d * q + r
  PROVE  v \div d = q /\ v % d = r
BY SMT

\* the byte i of a number
Digit(v, i) == (v \div Weight(i)) % 256

\* the numbers of two bytes
Halves == {n \in Nat : n <= 65535}

\* The bytes of a number add up to it, and two are enough for a short one.
LEMMA Digits ==
  ASSUME NEW v \in Numbers
  PROVE  \E s, r, q, p \in Nat :
           /\ v = s * Weight(4) + r * Weight(3) + q * 256 + p
           /\ Digit(v, 1) = p /\ Digit(v, 2) = q /\ Digit(v, 3) = r /\ Digit(v, 4) = s
           /\ p < 256 /\ q < 256 /\ r < 256 /\ s < 128
           /\ v \in Halves => s = 0 /\ r = 0
<1>. DEFINE v1 == v \div 256
            v2 == v1 \div 256
            v3 == v2 \div 256
            p == v % 256
            q == v1 % 256
            r == v2 % 256
<1>0. v \in Nat
  BY SMT DEF Numbers
<1>1. v1 \in Nat /\ p \in Nat /\ p < 256 /\ v = 256 * v1 + p
  BY <1>0, DivMod
<1>. HIDE DEF v1, p
<1>2. v2 \in Nat /\ q \in Nat /\ q < 256 /\ v1 = 256 * v2 + q
  BY <1>1, DivMod
<1>. HIDE DEF v2, q
<1>3. v3 \in Nat /\ r \in Nat /\ r < 256 /\ v2 = 256 * v3 + r
  BY <1>2, DivMod
<1>. HIDE DEF v3, r
<1>4. v3 < 128
  BY <1>1, <1>2, <1>3, SMT DEF Numbers
<1>5. v \in Halves => v2 = 0
  BY <1>1, <1>2, SMT DEF Halves
<1>6. v \in Halves => v3 = 0 /\ r = 0
  BY <1>3, <1>5, SMT
<1>7. Digit(v, 1) = p
  <2>1. v \div Weight(1) = v
    BY <1>0, Weights, SMT
  <2>. QED BY <2>1 DEF Digit, p
<1>8. Digit(v, 2) = q
  <2>1. v \div Weight(2) = v1
    BY <1>0, Weights, SMT DEF v1
  <2>. QED BY <2>1 DEF Digit, q
<1>9. Digit(v, 3) = r
  <2>1. v = 65536 * v2 + (256 * q + p) /\ 256 * q + p < 65536
    BY <1>1, <1>2, SMT
  <2>2. v \div 65536 = v2
    BY <1>0, <1>1, <1>2, <2>1, SMT
  <2>3. v \div Weight(3) = v2
    BY <2>2, Weights, SMT
  <2>. QED BY <2>3 DEF Digit, r
<1>10. Digit(v, 4) = v3
  <2>1. v = 16777216 * v3 + (65536 * r + 256 * q + p) /\ 65536 * r + 256 * q + p < 16777216
    BY <1>1, <1>2, <1>3, SMT
  <2>2. v \div 16777216 = v3
    BY <1>0, <1>1, <1>2, <1>3, <2>1, SMT
  <2>3. v \div Weight(4) = v3
    BY <2>2, Weights, SMT
  <2>4. v3 % 256 = v3
    BY <1>3, <1>4, SMT
  <2>. QED BY <2>3, <2>4 DEF Digit
<1>11. v = v3 * Weight(4) + r * Weight(3) + q * 256 + p
  BY <1>1, <1>2, <1>3, Weights, SMT
<1>. QED BY <1>1, <1>2, <1>3, <1>4, <1>6, <1>7, <1>8, <1>9, <1>10, <1>11

\* n bytes hold the number
Holds(n, v) == v \in Numbers /\ (n = 2 => v \in Halves)

\* Bytes are the digits of a number.
LEMMA BytesAre ==
  ASSUME NEW n \in {0, 2, 4}, NEW v \in Int
  PROVE  Bytes(v, n) \in Seq(Byte) /\ Len(Bytes(v, n)) = n
         /\ \A i \in 1 .. n : Bytes(v, n)[i] = Digit(v, i)
<1>1. \A i \in 1 .. n : Weight(i) \in Nat /\ Weight(i) > 0
  <2>1. 1 - 1 = 0 /\ 2 - 1 = 1 /\ 3 - 1 = 2 /\ 4 - 1 = 3
    OBVIOUS
  <2>2. \A i \in 1 .. n : i \in {1, 2, 3, 4}
    OBVIOUS
  <2>. QED BY <2>1, <2>2, Weights, SMT
<1>2. \A i \in 1 .. n : Digit(v, i) \in Byte
  <2>. SUFFICES ASSUME NEW i \in 1 .. n PROVE Digit(v, i) \in Byte
    OBVIOUS
  <2>. DEFINE q == v \div Weight(i)
  <2>1. q \in Int
    BY <1>1
  <2>. HIDE DEF q
  <2>2. q % 256 \in Byte
    BY <2>1 DEF Byte
  <2>. QED BY <2>2 DEF q, Digit
<1>3. n \in Nat
  OBVIOUS
<1>4. Bytes(v, n) = [i \in 1 .. n |-> Digit(v, i)]
  BY DEF Bytes, Weight, Digit
<1>6. /\ Bytes(v, n) \in Seq(Byte) /\ Len(Bytes(v, n)) = n
      /\ \A i \in 1 .. n : Bytes(v, n)[i] = Digit(v, i)
  BY <1>2, <1>3, <1>4
<1>. QED BY <1>6

\* Number reads what Bytes has written.
LEMMA NumberOfBytes ==
  ASSUME NEW n \in {2, 4}, NEW v, Holds(n, v), NEW b, NEW at \in Nat,
         \A i \in 1 .. n : b[at + i] = Bytes(v, n)[i]
  PROVE  Number(b, at, n) = v
<1>0. v \in Numbers /\ (n = 2 => v \in Halves)
  BY DEF Holds
<1>0a. v \in Int /\ n \in {0, 2, 4}
  BY <1>0, SMT DEF Numbers
<1>1. /\ Bytes(v, n) \in Seq(Byte) /\ Len(Bytes(v, n)) = n
      /\ \A i \in 1 .. n : Bytes(v, n)[i] = Digit(v, i)
  BY <1>0a, BytesAre
<1>2. \A i \in 1 .. n : b[at + i] = Digit(v, i) /\ b[at + i] \in Nat
  <2>1. \A i \in 1 .. n : Bytes(v, n)[i] \in Byte
    BY <1>1
  <2>2. \A i \in 1 .. n : b[at + i] = Digit(v, i) /\ b[at + i] = Bytes(v, n)[i]
    BY <1>1
  <2>3. \A x \in Byte : x \in Nat
    BY DEF Byte
  <2>. QED BY <2>1, <2>2, <2>3
<1>3. PICK s, r, q, p \in Nat :
           /\ v = s * Weight(4) + r * Weight(3) + q * 256 + p
           /\ Digit(v, 1) = p /\ Digit(v, 2) = q /\ Digit(v, 3) = r /\ Digit(v, 4) = s
           /\ p < 256 /\ q < 256 /\ r < 256 /\ s < 128
           /\ v \in Halves => s = 0 /\ r = 0
  BY <1>0, Digits
<1>4. CASE n = 2
  <2>1. 1 \in 1 .. n /\ 2 \in 1 .. n
    BY <1>4
  <2>2. b[at + 1] = p /\ b[at + 2] = q
    BY <1>2, <1>3, <2>1
  <2>3. v = q * 256 + p
    BY <1>0, <1>3, <1>4, Weights, SMT
  <2>4. Number(b, at, n) = b[at + 2] * 256 + b[at + 1]
    BY <1>2, <1>4, NumberIs
  <2>. QED BY <2>2, <2>3, <2>4
<1>5. CASE n = 4
  <2>1. 1 \in 1 .. n /\ 2 \in 1 .. n /\ 3 \in 1 .. n /\ 4 \in 1 .. n
    BY <1>5
  <2>2. b[at + 1] = p /\ b[at + 2] = q /\ b[at + 3] = r /\ b[at + 4] = s
    BY <1>2, <1>3, <2>1
  <2>3. Number(b, at, n) =
          b[at + 4] * Weight(4) + b[at + 3] * Weight(3) + b[at + 2] * 256 + b[at + 1]
    BY <1>2, <1>5, NumberIs
  <2>. QED BY <1>3, <2>2, <2>3
<1>. QED BY <1>4, <1>5

-----------------------------------------------------------------------------
(* Bytes, one after the other                                              *)

\* the bytes s are at a place of the bytes b
Has(b, at, s) == at + Len(s) <= Len(b) /\ \A i \in 1 .. Len(s) : b[at + i] = s[i]

\* What is in a part is in the whole.
LEMMA HasConcat ==
  ASSUME NEW s \in Seq(Byte), NEW t \in Seq(Byte), NEW u \in Seq(Byte), NEW at \in Nat
  PROVE  /\ s \o t \in Seq(Byte) /\ Len(s \o t) = Len(s) + Len(t)
         /\ Len(s) \in Nat /\ Len(t) \in Nat
         /\ Has(s, at, u) => Has(s \o t, at, u)
         /\ Has(t, at, u) => Has(s \o t, Len(s) + at, u)
<1>1. /\ s \o t \in Seq(Byte) /\ Len(s \o t) = Len(s) + Len(t)
      /\ \A i \in 1 .. Len(s) + Len(t) : (s \o t)[i] = IF i <= Len(s) THEN s[i] ELSE t[i - Len(s)]
  BY ConcatProperties
<1>2. Len(s) \in Nat /\ Len(t) \in Nat /\ Len(u) \in Nat
  BY LenProperties
<1>. DEFINE w == s \o t
<1>3. ASSUME Has(s, at, u) PROVE Has(w, at, u)
  <2>. HIDE DEF w
  <2>. SUFFICES ASSUME NEW i \in 1 .. Len(u) PROVE w[at + i] = u[i]
    BY <1>1, <1>2, <1>3 DEF Has, w
  <2>1. at + i \in 1 .. Len(s) + Len(t) /\ at + i <= Len(s) /\ s[at + i] = u[i]
    BY <1>2, <1>3 DEF Has
  <2>. QED BY <1>1, <2>1 DEF w
<1>4. ASSUME Has(t, at, u) PROVE Has(w, Len(s) + at, u)
  <2>. HIDE DEF w
  <2>. SUFFICES ASSUME NEW i \in 1 .. Len(u) PROVE w[(Len(s) + at) + i] = u[i]
    BY <1>1, <1>2, <1>4 DEF Has, w
  <2>. DEFINE k == (Len(s) + at) + i
  <2>1. k \in 1 .. Len(s) + Len(t) /\ ~(k <= Len(s)) /\ k - Len(s) = at + i /\ t[at + i] = u[i]
    BY <1>2, <1>4 DEF Has
  <2>. HIDE DEF k
  <2>2. w[k] = t[k - Len(s)]
    BY <1>1, <2>1 DEF w
  <2>3. w[k] = u[i]
    BY <2>1, <2>2
  <2>. QED BY <2>3 DEF k
<1>. QED BY <1>1, <1>2, <1>3, <1>4

\* Everything is there of itself.
LEMMA HasSelf ==
  ASSUME NEW s \in Seq(Byte)
  PROVE  Has(s, 0, s)
<1>1. Len(s) \in Nat
  BY LenProperties
<1>2. \A i \in 1 .. Len(s) : 0 + i = i
  OBVIOUS
<1>. QED BY <1>1, <1>2 DEF Has

\* What is there of a whole is there of its parts.
LEMMA HasParts ==
  ASSUME NEW b, NEW at \in Nat, NEW s \in Seq(Byte), NEW t \in Seq(Byte), Has(b, at, s \o t),
         Len(b) \in Nat
  PROVE  Has(b, at, s) /\ Has(b, at + Len(s), t)
<1>1. /\ Len(s \o t) = Len(s) + Len(t)
      /\ \A i \in 1 .. Len(s) + Len(t) : (s \o t)[i] = IF i <= Len(s) THEN s[i] ELSE t[i - Len(s)]
  BY ConcatProperties
<1>2. Len(s) \in Nat /\ Len(t) \in Nat
  BY LenProperties
<1>. DEFINE w == s \o t
<1>3. at + Len(w) <= Len(b) /\ \A i \in 1 .. Len(w) : b[at + i] = w[i]
  BY DEF Has
<1>. HIDE DEF w
<1>4. Has(b, at, s)
  <2>1. at + Len(s) <= Len(b)
    BY <1>1, <1>2, <1>3 DEF w
  <2>2. ASSUME NEW i \in 1 .. Len(s) PROVE b[at + i] = s[i]
    <3>1. i \in 1 .. Len(s) + Len(t) /\ i <= Len(s)
      BY <1>2
    <3>. QED BY <1>1, <1>3, <3>1 DEF w
  <2>. QED BY <2>1, <2>2 DEF Has
<1>5. Has(b, at + Len(s), t)
  <2>1. (at + Len(s)) + Len(t) <= Len(b)
    BY <1>1, <1>2, <1>3 DEF w
  <2>2. ASSUME NEW i \in 1 .. Len(t) PROVE b[(at + Len(s)) + i] = t[i]
    <3>. DEFINE k == Len(s) + i
    <3>1. k \in 1 .. Len(s) + Len(t) /\ ~(k <= Len(s)) /\ k - Len(s) = i
          /\ (at + Len(s)) + i = at + k
      BY <1>2
    <3>. HIDE DEF k
    <3>2. w[k] = t[i] /\ b[at + k] = w[k]
      BY <1>1, <1>3, <3>1 DEF w
    <3>. QED BY <3>1, <3>2
  <2>. QED BY <2>1, <2>2 DEF Has
<1>. QED BY <1>4, <1>5

\* A number that is there is read.
LEMMA HasNumber ==
  ASSUME NEW b, NEW at \in Nat, NEW n \in {2, 4}, NEW v, Holds(n, v), Has(b, at, Bytes(v, n))
  PROVE  Number(b, at, n) = v
<1>1. v \in Int /\ n \in {0, 2, 4}
  BY SMT DEF Holds, Numbers
<1>2. Len(Bytes(v, n)) = n
  BY <1>1, BytesAre
<1>3. \A i \in 1 .. n : b[at + i] = Bytes(v, n)[i]
  BY <1>2 DEF Has
<1>. QED BY <1>3, NumberOfBytes

\* Parts of the same length, one after the other.
LEMMA Chunks ==
  ASSUME NEW L \in Nat, NEW N \in Nat, NEW f, NEW c, f[0] = <<>>,
         \A i \in 1 .. N : c[i] \in Seq(Byte) /\ Len(c[i]) = L /\ f[i] = f[i - 1] \o c[i]
  PROVE  \A i \in 0 .. N : /\ f[i] \in Seq(Byte) /\ Len(f[i]) = i * L
                           /\ \A j \in 1 .. i : Has(f[i], (j - 1) * L, c[j])
<1>. DEFINE Good(i) == /\ f[i] \in Seq(Byte) /\ Len(f[i]) = i * L
                       /\ \A j \in 1 .. i : Has(f[i], (j - 1) * L, c[j])
            T == {i \in Nat : i <= N => Good(i)}
<1>1. 0 \in T
  <2>1. <<>> \in Seq(Byte) /\ Len(<<>>) = 0 /\ 0 * L = 0 /\ 1 .. 0 = {}
    OBVIOUS
  <2>. QED BY <2>1
<1>2. ASSUME NEW i \in Nat, i \in T, i + 1 <= N
      PROVE  Good(i + 1)
  <2>1. Good(i)
    BY <1>2
  <2>2. i + 1 \in 1 .. N /\ (i + 1) - 1 = i
    BY <1>2
  <2>3. c[i + 1] \in Seq(Byte) /\ Len(c[i + 1]) = L /\ f[i + 1] = f[i] \o c[i + 1]
    BY <2>2
  <2>4. f[i + 1] \in Seq(Byte) /\ Len(f[i + 1]) = i * L + L
    BY <2>1, <2>3, HasConcat
  <2>5. (i + 1) * L = i * L + L /\ i * L \in Nat /\ i * L + 0 = i * L
    OBVIOUS
  <2>6. ASSUME NEW j \in 1 .. i
        PROVE  Has(f[i + 1], (j - 1) * L, c[j])
    <3>1. c[j] \in Seq(Byte) /\ (j - 1) * L \in Nat
      <4>. DEFINE m == j - 1
      <4>1. j \in 1 .. N /\ m \in Nat
        BY <1>2
      <4>. HIDE DEF m
      <4>2. m * L \in Nat
        BY <4>1
      <4>. QED BY <4>1, <4>2 DEF m
    <3>. QED BY <2>1, <2>3, <2>6, <3>1, HasConcat
  <2>7. Has(f[i + 1], i * L, c[i + 1])
    <3>1. Has(c[i + 1], 0, c[i + 1])
      BY <2>3, HasSelf
    <3>2. 0 \in Nat
      OBVIOUS
    <3>3. Has(f[i] \o c[i + 1], Len(f[i]) + 0, c[i + 1])
      BY <2>1, <2>3, <3>1, <3>2, HasConcat
    <3>. QED BY <2>1, <2>3, <2>5, <3>3
  <2>8. \A j \in 1 .. i + 1 : j \in 1 .. i \/ j = i + 1
    OBVIOUS
  <2>. QED BY <2>2, <2>4, <2>5, <2>6, <2>7, <2>8
<1>3. \A i \in Nat : i \in T => i + 1 \in T
  BY <1>2
<1>. HIDE DEF T
<1>4. Nat \subseteq T
  BY <1>1, <1>3, NatInductive
<1>. QED BY <1>4 DEF T

\* All parts are there, each at its place.
LEMMA JoinedParts ==
  ASSUME NEW L \in Nat, NEW N \in Nat, NEW c, Len(c) = N,
         \A i \in 1 .. N : c[i] \in Seq(Byte) /\ Len(c[i]) = L
  PROVE  /\ Joined(c) \in Seq(Byte) /\ Len(Joined(c)) = N * L
         /\ \A j \in 1 .. N : Has(Joined(c), (j - 1) * L, c[j])
<1>. DEFINE step(g, i) == IF i = 0 THEN <<>> ELSE g[i - 1] \o c[i]
            IsJoin(g) == g = [i \in 0 .. Len(c) |-> step(g, i)]
            join == CHOOSE g : IsJoin(g)
            S == Seq(Byte)
            a == <<>>
            H == [n \in 1 .. N |-> [x \in S |-> x \o c[n]]]
<1>1. a \in S
  OBVIOUS
<1>2. \A n \in 1 .. N : \A x \in S : x \o c[n] \in S
  BY ConcatProperties
<1>3. \A n \in 1 .. N : \A x \in S : H[n][x] = x \o c[n]
  BY <1>2
<1>3a. H \in [1 .. N -> [S -> S]]
  BY <1>2
<1>. HIDE DEF S, a, H
<1>4a. \E f \in [0 .. N -> S] : f[0] = a /\ \A n \in 1 .. N : f[n] = H[n][f[n - 1]]
  BY <1>1, <1>3a, Recursion
<1>4. PICK f \in [0 .. N -> S] : f[0] = a /\ \A n \in 1 .. N : f[n] = H[n][f[n - 1]]
  BY <1>4a
<1>5. \A n \in 1 .. N : f[n] = f[n - 1] \o c[n]
  <2>. SUFFICES ASSUME NEW n \in 1 .. N PROVE f[n] = f[n - 1] \o c[n]
    OBVIOUS
  <2>1. n - 1 \in 0 .. N
    OBVIOUS
  <2>. QED BY <1>3, <1>4, <2>1
<1>6. \A i \in 0 .. N : f[i] = step(f, i)
  <2>1. \A i \in 0 .. N : i = 0 \/ i \in 1 .. N
    OBVIOUS
  <2>. QED BY <1>4, <1>5, <2>1 DEF a
<1>7. IsJoin(f)
  <2>1. f = [i \in 0 .. N |-> f[i]]
    BY <1>4
  <2>. HIDE DEF step
  <2>. QED BY <1>6, <2>1
<1>8. IsJoin(join)
  BY <1>7, Zenon
<1>. HIDE DEF join
<1>9. Joined(c) = join[N]
  BY Zenon DEF Joined, join
<1>10. join[0] = <<>> /\ \A i \in 1 .. N : join[i] = join[i - 1] \o c[i]
  <2>1. \A i \in 0 .. N : join[i] = step(join, i)
    <3>. HIDE DEF step
    <3>. QED BY <1>8
  <2>2. 0 \in 0 .. N /\ \A i \in 1 .. N : i \in 0 .. N /\ i # 0
    OBVIOUS
  <2>. QED BY <2>1, <2>2
<1>11. N \in 0 .. N
  OBVIOUS
<1>12. \A i \in 0 .. N : /\ join[i] \in Seq(Byte) /\ Len(join[i]) = i * L
                         /\ \A j \in 1 .. i : Has(join[i], (j - 1) * L, c[j])
  <2>1. \A i \in 1 .. N : /\ c[i] \in Seq(Byte) /\ Len(c[i]) = L
                          /\ join[i] = join[i - 1] \o c[i]
    BY <1>10, Zenon
  <2>2. N \in Nat /\ L \in Nat /\ join[0] = <<>>
    BY <1>10, Zenon
  <2>. QED BY <2>1, <2>2, Chunks, Zenon
<1>. QED BY <1>9, <1>11, <1>12

-----------------------------------------------------------------------------
(* Data messages of EIEIO                                                  *)

\* The sizes of a type.
LEMMA Sizes ==
  ASSUME NEW type \in 0 .. 3
  PROVE  /\ KeyBytes(type) \in {2, 4} /\ PayloadBytes(type) \in {0, KeyBytes(type)}
         /\ ElementBytes(type) = KeyBytes(type) + PayloadBytes(type)
         /\ ElementBytes(type) \in 2 .. 8
         /\ \A v : v \in Fitting(type) <=> Holds(KeyBytes(type), v)
         /\ \A v \in Fitting(type) : v \in Numbers
<1>1. type \in {0, 1, 2, 3} /\ 0 % 2 = 0 /\ 1 % 2 = 1 /\ 2 % 2 = 0 /\ 3 % 2 = 1
  OBVIOUS
<1>2. KeyBytes(type) = (IF type < 2 THEN 2 ELSE 4)
  BY DEF KeyBytes
<1>3. /\ type = 0 => PayloadBytes(type) = 0
      /\ type = 1 => PayloadBytes(type) = 2
      /\ type = 2 => PayloadBytes(type) = 0
      /\ type = 3 => PayloadBytes(type) = 4
  BY <1>1, <1>2 DEF PayloadBytes
<1>4. KeyBytes(type) \in {2, 4} /\ PayloadBytes(type) \in {0, KeyBytes(type)}
      /\ ElementBytes(type) = KeyBytes(type) + PayloadBytes(type)
         /\ ElementBytes(type) \in 2 .. 8
  BY <1>1, <1>2, <1>3 DEF ElementBytes
<1>5. \A v : v \in Fitting(type) <=> Holds(KeyBytes(type), v)
  <2>1. CASE KeyBytes(type) = 2
    <3>1. MaxValue(type) = 65535
      BY <2>1, SMT DEF MaxValue
    <3>. QED BY <2>1, <3>1, SMT DEF Fitting, Holds, Numbers, Halves
  <2>2. CASE KeyBytes(type) = 4
    <3>1. MaxValue(type) = 2147483647
      BY <2>2, SMT DEF MaxValue
    <3>. QED BY <2>2, <3>1, SMT DEF Fitting, Holds, Numbers, Halves
  <2>. QED BY <1>4, <2>1, <2>2
<1>6. \A v \in Fitting(type) : v \in Numbers
  BY <1>5 DEF Holds
<1>. QED BY <1>4, <1>5, <1>6

\* the bytes of an element, and a header with a count
Chunk(h, e) == Bytes(e.key, KeyBytes(h.type)) \o Bytes(e.payload, PayloadBytes(h.type))
Counting(h, n) ==
  [type |-> h.type, tag |-> h.tag, prefix |-> h.prefix, upper |-> h.upper, base |-> h.base,
   is_time |-> h.is_time, count |-> n]

\* The elements of a message and their bytes.
LEMMA GoodElement ==
  ASSUME NEW m, DataReadsBack(m), NEW i \in 1 .. Len(m.elements)
  PROVE  LET h == m.header
             e == m.elements[i]
             k == KeyBytes(h.type)
             p == PayloadBytes(h.type)
         IN  /\ Holds(k, e.key) /\ (p = 0 => e.payload = NoneSet)
             /\ p # 0 => p = k /\ Holds(k, e.payload) /\ e.payload # NoneSet
             /\ CanAdd(h, e)
             /\ Bytes(e.key, k) \in Seq(Byte) /\ Len(Bytes(e.key, k)) = k
             /\ Bytes(e.payload, p) \in Seq(Byte) /\ Len(Bytes(e.payload, p)) = p
             /\ Chunk(h, e) \in Seq(Byte) /\ Len(Chunk(h, e)) = ElementBytes(h.type)
<1>. DEFINE h == m.header
            e == m.elements[i]
            k == KeyBytes(h.type)
            p == PayloadBytes(h.type)
<1>1. h.type \in 0 .. 3 /\ CanAdd(h, e)
      /\ e \in [key : Fitting(h.type), payload : Fitting(h.type) \cup {NoneSet}]
  <2>1. h \in DataHeaders /\ CanAdd(h, e)
        /\ m.elements \in Seq([key : Fitting(h.type), payload : Fitting(h.type) \cup {NoneSet}])
    BY Zenon DEF DataReadsBack
  <2>2. h.type \in 0 .. 3
    BY <2>1 DEF DataHeaders
  <2>. HIDE DEF h
  <2>3. e \in [key : Fitting(h.type), payload : Fitting(h.type) \cup {NoneSet}]
    BY <2>1, ElementOfSeq
  <2>. QED BY <2>1, <2>2, <2>3
<1>2. e.key \in Fitting(h.type) /\ e.payload \in Fitting(h.type) \cup {NoneSet}
      /\ ((e.payload = NoneSet) = (p = 0))
  BY <1>1 DEF CanAdd
<1>3. /\ k \in {2, 4} /\ p \in {0, k} /\ ElementBytes(h.type) = k + p
      /\ Holds(k, e.key) /\ (e.payload # NoneSet => Holds(k, e.payload))
  BY <1>1, <1>2, Sizes
<1>. HIDE DEF e, h, k, p
<1>4. e.key \in Int /\ e.payload \in Int /\ k \in {0, 2, 4} /\ p \in {0, 2, 4}
  <2>1. \A v \in Numbers : v \in Int
    BY SMT DEF Numbers
  <2>2. NoneSet \in Int
    BY DEF NoneSet
  <2>. QED BY <1>2, <1>3, <2>1, <2>2 DEF Holds
<1>5. Bytes(e.key, k) \in Seq(Byte) /\ Len(Bytes(e.key, k)) = k
      /\ Bytes(e.payload, p) \in Seq(Byte) /\ Len(Bytes(e.payload, p)) = p
  BY <1>4, BytesAre
<1>6. Chunk(h, e) \in Seq(Byte) /\ Len(Chunk(h, e)) = k + p
  <2>. DEFINE x == Bytes(e.key, k)
              y == Bytes(e.payload, p)
  <2>1. Chunk(h, e) = x \o y
    BY Zenon DEF Chunk, k, p
  <2>. HIDE DEF x, y
  <2>2. x \in Seq(Byte) /\ Len(x) = k /\ y \in Seq(Byte) /\ Len(y) = p
    BY <1>5, Zenon DEF x, y
  <2>3. x \o y \in Seq(Byte) /\ Len(x \o y) = Len(x) + Len(y)
    BY <2>2, ConcatProperties, Zenon
  <2>. QED BY <2>1, <2>2, <2>3, Zenon
<1>. QED BY <1>1, <1>2, <1>3, <1>5, <1>6 DEF h, e, k, p

\* What AddElement makes of a message, a message of two fields, and a header that counts one more.
With(x, A, B) == [x EXCEPT !.header.count = @ + 1, !.elements = @ \o A \o B]
OfFields(hc, g) == [header |-> hc, elements |-> g]
OneMore(hc) == [hc EXCEPT !.count = @ + 1]

\* The order in which three strings of bytes are joined does not matter.
LEMMA BytesAssociate ==
  \A s, t, u \in Seq(Byte) : (s \o t) \o u = s \o (t \o u)
<1>. DEFINE S == Seq(Byte)
<1>. SUFFICES ASSUME NEW s \in S, NEW t \in S, NEW u \in S
             PROVE  (s \o t) \o u = s \o (t \o u)
  OBVIOUS
<1>. QED BY ConcatAssociative

\* Both fields of a message, changed at once.
LEMMA AddedRecord ==
  \A hc, g, A, B : With(OfFields(hc, g), A, B) = OfFields(OneMore(hc), (g \o A) \o B)
<1>. SUFFICES ASSUME NEW hc, NEW g, NEW A, NEW B
             PROVE  With(OfFields(hc, g), A, B) = OfFields(OneMore(hc), (g \o A) \o B)
  OBVIOUS
<1>. DEFINE y == (g \o A) \o B
            z == [hc EXCEPT !.count = @ + 1]
            r == [header |-> hc, elements |-> g]
<1>0. [r EXCEPT !.header.count = @ + 1, !.elements = @ \o A \o B] =
        [r EXCEPT !.header.count = @ + 1, !.elements = y]
  BY Zenon
<1>1. \A u : [r EXCEPT !.header.count = @ + 1, !.elements = u] =
             [[r EXCEPT !.header.count = @ + 1] EXCEPT !.elements = u]
  OBVIOUS
<1>2. [r EXCEPT !.header.count = @ + 1] = [header |-> z, elements |-> g]
  OBVIOUS
<1>3. \A u, v : [[header |-> v, elements |-> g] EXCEPT !.elements = u] =
                [header |-> v, elements |-> u]
  OBVIOUS
<1>. HIDE DEF y, z
<1>4. [[header |-> z, elements |-> g] EXCEPT !.elements = y] = [header |-> z, elements |-> y]
  BY <1>3
<1>5. [r EXCEPT !.header.count = @ + 1, !.elements = y] = [header |-> z, elements |-> y]
  <2>. HIDE DEF r
  <2>. QED BY <1>1, <1>2, <1>4, Zenon
<1>6. r = OfFields(hc, g) /\ [header |-> z, elements |-> y] = OfFields(OneMore(hc), y)
  BY Zenon DEF OfFields, OneMore, z
<1>7. With(r, A, B) = [r EXCEPT !.header.count = @ + 1, !.elements = @ \o A \o B]
  BY Zenon DEF With
<1>. HIDE DEF r
<1>. QED BY <1>0, <1>5, <1>6, <1>7, Zenon DEF y

\* A data message that is written: its elements, one after the other, and their number.
LEMMA Written ==
  ASSUME NEW m, DataReadsBack(m)
  PROVE  LET h == m.header
             d == DataMessage(h, m.elements)
             L == ElementBytes(h.type)
         IN  /\ d.header = Counting(h, Len(m.elements))
             /\ d.elements \in Seq(Byte) /\ Len(d.elements) = Len(m.elements) * L
             /\ \A j \in 1 .. Len(m.elements) :
                   Has(d.elements, (j - 1) * L, Chunk(h, m.elements[j]))
<1>. DEFINE h == m.header
            es == m.elements
            N == Len(es)
            L == ElementBytes(h.type)
            c == [i \in 1 .. N |-> Chunk(h, es[i])]
            S == Seq(Byte)
            a == <<>>
            H == [n \in 1 .. N |-> [x \in S |-> x \o c[n]]]
            step(g, i) == IF i = 0 THEN [header |-> h, elements |-> <<>>]
                          ELSE AddElement(g[i - 1], es[i])
            IsAdded(g) == g = [i \in 0 .. N |-> step(g, i)]
            added == CHOOSE g : IsAdded(g)
<1>1. h \in DataHeaders /\ N \in Nat /\ h = Counting(h, 0) /\ h.type \in 0 .. 3
  <2>1. /\ h \in DataHeaders
        /\ es \in Seq([key : Fitting(h.type), payload : Fitting(h.type) \cup {NoneSet}])
    BY DEF DataReadsBack
  <2>2. N \in Nat
    BY <2>1, LenProperties
  <2>. HIDE DEF h
  <2>. QED BY <2>1, <2>2 DEF DataHeaders, Counting
<1>2. /\ L \in Nat
      /\ \A i \in 1 .. N : CanAdd(h, es[i]) /\ c[i] = Chunk(h, es[i]) /\ c[i] \in S /\ Len(c[i]) = L
  BY <1>1, GoodElement, Sizes
<1>3. a \in S
  OBVIOUS
<1>4. \A n \in 1 .. N : \A x \in S : x \o c[n] \in S
  BY <1>2, ConcatProperties
<1>. HIDE DEF c
<1>5. H \in [1 .. N -> [S -> S]]
  BY <1>4
<1>6. \A n \in 1 .. N : \A x \in S : H[n][x] = x \o c[n]
  OBVIOUS
<1>. HIDE DEF S, a, H, N, L, h, es
<1>6a. N \in Nat
  BY <1>1
<1>7. \E f \in [0 .. N -> S] : f[0] = a /\ \A n \in 1 .. N : f[n] = H[n][f[n - 1]]
  BY <1>3, <1>5, <1>6a, Recursion
<1>8. PICK f \in [0 .. N -> S] : f[0] = a /\ \A n \in 1 .. N : f[n] = H[n][f[n - 1]]
  BY <1>7
<1>9. f[0] = <<>> /\ \A n \in 1 .. N : f[n - 1] \in S /\ f[n] = f[n - 1] \o c[n]
  <2>. SUFFICES ASSUME NEW n \in 1 .. N PROVE f[n - 1] \in S /\ f[n] = f[n - 1] \o c[n]
    BY <1>8 DEF a
  <2>1. n - 1 \in 0 .. N
    BY <1>1
  <2>. QED BY <1>6, <1>8, <2>1
<1>. DEFINE W == [i \in 0 .. N |-> [header |-> Counting(h, i), elements |-> f[i]]]
<1>10. \A i \in 0 .. N : W[i] = step(W, i)
  <2>. SUFFICES ASSUME NEW i \in 0 .. N PROVE W[i] = step(W, i)
    OBVIOUS
  <2>1. CASE i = 0
    BY <1>1, <1>9, <2>1
  <2>2. CASE i # 0
    <3>1. i \in 1 .. N /\ i - 1 \in 0 .. N /\ (i - 1) + 1 = i
      BY <1>1, <2>2
    <3>. DEFINE x == [header |-> Counting(h, i - 1), elements |-> f[i - 1]]
                A == Bytes(es[i].key, KeyBytes(h.type))
                B == Bytes(es[i].payload, PayloadBytes(h.type))
    <3>2. W[i - 1] = x /\ W[i] = [header |-> Counting(h, i), elements |-> f[i]]
      BY <3>1
    <3>3. f[i] = (f[i - 1] \o A) \o B
      <4>1. A \in Seq(Byte) /\ B \in Seq(Byte)
        BY <3>1, GoodElement DEF h, es, N
      <4>2. f[i] = f[i - 1] \o (A \o B) /\ f[i - 1] \in Seq(Byte)
        BY <1>2, <1>9, <3>1 DEF Chunk, S
      <4>. DEFINE g == f[i - 1]
      <4>. HIDE DEF A, B, g
      <4>3. g \in Seq(Byte) /\ f[i] = g \o (A \o B)
        BY <4>2 DEF g
      <4>4. (g \o A) \o B = g \o (A \o B)
        BY <4>1, <4>3, BytesAssociate, Zenon
      <4>. QED BY <4>3, <4>4 DEF g
    <3>4. AddElement(x, es[i]) = [header |-> Counting(h, i), elements |-> (f[i - 1] \o A) \o B]
      <4>1. CanAdd(x.header, es[i]) /\ x.header.type = h.type
        <5>1. CanAdd(h, es[i])
          BY <1>2, <3>1, Zenon
        <5>2. Counting(h, i - 1).type = h.type
          BY DEF Counting
        <5>3. x.header = Counting(h, i - 1)
          OBVIOUS
        <5>. HIDE DEF x, h, es
        <5>. QED BY <5>1, <5>2, <5>3, Zenon DEF CanAdd
      <4>2. AddElement(x, es[i]) = With(x, A, B)
        <5>1. AddElement(x, es[i]) = [x EXCEPT !.header.count = @ + 1, !.elements = @ \o A \o B]
          BY <4>1 DEF AddElement
        <5>. QED BY <5>1 DEF With
      <4>3. With(x, A, B) =
              [header |-> [Counting(h, i - 1) EXCEPT !.count = @ + 1],
               elements |-> (f[i - 1] \o A) \o B]
        <5>. DEFINE hc == Counting(h, i - 1)
                    g == f[i - 1]
        <5>1. x = OfFields(hc, g)
          BY Zenon DEF OfFields
        <5>. HIDE DEF A, B, x, hc, g
        <5>2. With(OfFields(hc, g), A, B) = OfFields(OneMore(hc), (g \o A) \o B)
          BY AddedRecord
        <5>3. With(x, A, B) = With(OfFields(hc, g), A, B)
          BY <5>1, Zenon
        <5>4. With(x, A, B) = OfFields(OneMore(hc), (g \o A) \o B)
          BY <5>2, <5>3, Zenon
        <5>. QED BY <5>4, Zenon DEF hc, g, OfFields, OneMore
      <4>4. [Counting(h, i - 1) EXCEPT !.count = @ + 1] = Counting(h, i)
        BY <3>1 DEF Counting
      <4>. HIDE DEF A, B, x
      <4>. QED BY <4>2, <4>3, <4>4
    <3>. HIDE DEF x, A, B, W
    <3>. QED BY <2>2, <3>2, <3>3, <3>4
  <2>. QED BY <2>1, <2>2
<1>11. IsAdded(W)
  <2>1. W = [i \in 0 .. N |-> W[i]]
    OBVIOUS
  <2>. HIDE DEF W, step
  <2>. QED BY <1>10, <2>1
<1>. HIDE DEF W
<1>12. IsAdded(added)
  BY <1>11, Zenon
<1>. HIDE DEF added
<1>13. DataMessage(h, es) = added[N]
  BY Zenon DEF DataMessage, added, N
<1>. DEFINE T == {i \in Nat : i <= N => added[i] = W[i]}
<1>14. added[0] = [header |-> h, elements |-> <<>>]
       /\ \A i \in 1 .. N : added[i] = AddElement(added[i - 1], es[i])
  <2>1. \A i \in 0 .. N : added[i] = step(added, i)
    <3>. HIDE DEF step
    <3>. QED BY <1>12
  <2>2. 0 \in 0 .. N /\ \A i \in 1 .. N : i \in 0 .. N /\ i # 0
    BY <1>1
  <2>. QED BY <2>1, <2>2
<1>15. W[0] = [header |-> h, elements |-> <<>>]
       /\ \A i \in 1 .. N : W[i] = AddElement(W[i - 1], es[i])
  <2>2. 0 \in 0 .. N /\ \A i \in 1 .. N : i \in 0 .. N /\ i # 0
    BY <1>1
  <2>. QED BY <1>10, <2>2
<1>16. 0 \in T
  BY <1>14, <1>15
<1>16a. ASSUME NEW i \in Nat, i \in T, i + 1 <= N
        PROVE  added[i + 1] = W[i + 1]
  <2>1. i + 1 \in 1 .. N /\ (i + 1) - 1 = i /\ added[i] = W[i]
    BY <1>1, <1>16a
  <2>. QED BY <1>14, <1>15, <2>1
<1>17. \A i \in Nat : i \in T => i + 1 \in T
  BY <1>1, <1>16a
<1>. HIDE DEF T
<1>18. Nat \subseteq T
  BY <1>16, <1>17, NatInductive
<1>19. added[N] = W[N] /\ N \in 0 .. N
  BY <1>1, <1>18 DEF T
<1>20. W[N] = [header |-> Counting(h, N), elements |-> f[N]]
  BY <1>19 DEF W
<1>21. \A i \in 1 .. N : c[i] \in Seq(Byte) /\ Len(c[i]) = L /\ f[i] = f[i - 1] \o c[i]
  BY <1>2, <1>9 DEF S
<1>22. \A i \in 0 .. N : /\ f[i] \in Seq(Byte) /\ Len(f[i]) = i * L
                         /\ \A j \in 1 .. i : Has(f[i], (j - 1) * L, c[j])
  BY <1>1, <1>2, <1>9, <1>21, Chunks
<1>23. \A j \in 1 .. N : Has(f[N], (j - 1) * L, Chunk(h, es[j]))
  BY <1>2, <1>19, <1>22
<1>24. /\ DataMessage(h, es) = [header |-> Counting(h, N), elements |-> f[N]]
       /\ f[N] \in Seq(Byte) /\ Len(f[N]) = N * L
  BY <1>13, <1>19, <1>20, <1>22
<1>. QED BY <1>23, <1>24 DEF h, es, N, L

\* A word that is moved up and down again.
LEMMA Unshifted ==
  ASSUME NEW w \in SUBSET Nat, NEW k \in Nat
  PROVE  {i - k : i \in Shl(w, k)} = w
<1>1. \A i \in w : i + k \in Shl(w, k) /\ (i + k) - k = i
  BY DEF Shl
<1>2. \A j \in Shl(w, k) : j - k \in w
  <2>. SUFFICES ASSUME NEW i \in w PROVE (i + k) - k \in w
    BY DEF Shl
  <2>. QED BY <1>1
<1>3. \A i \in w : i \in {j - k : j \in Shl(w, k)}
  <2>. SUFFICES ASSUME NEW i \in w PROVE \E j \in Shl(w, k) : i = j - k
    OBVIOUS
  <2>. QED BY <1>1
<1>. QED BY <1>2, <1>3

\* The second byte of a header, and what it says.
LEMMA Flags ==
  ASSUME NEW h, h.type \in 0 .. 3, h.tag \in 0 .. 3, h.upper \in BOOLEAN, h.is_time \in BOOLEAN
  PROVE  LET w == DataHeaderFlags(h)
         IN  /\ w \in SUBSET (0 .. 7) /\ Num(w) \in Byte /\ Bits(Num(w)) = w
             /\ 7 \in w <=> h.prefix # NoneSet
             /\ 6 \in w <=> h.prefix # NoneSet /\ h.upper
             /\ 5 \in w <=> h.base # NoneSet
             /\ 4 \in w <=> h.is_time
             /\ NumAt(w, 2, 2) = h.type /\ NumAt(w, 0, 2) = h.tag
<1>. DEFINE ty == Bits(h.type)
            ta == Bits(h.tag)
            w == DataHeaderFlags(h)
            u == (IF h.prefix = NoneSet THEN {} ELSE {7} \cup (IF h.upper THEN {6} ELSE {}))
                   \cup (IF h.base = NoneSet THEN {} ELSE {5}) \cup (IF h.is_time THEN {4} ELSE {})
<1>1. \A v \in 0 .. 3 : Bits(v) \subseteq 0 .. 1 /\ Num(Bits(v)) = v
  <2>. SUFFICES ASSUME NEW v \in 0 .. 3 PROVE Bits(v) \subseteq 0 .. 1 /\ Num(Bits(v)) = v
    OBVIOUS
  <2>1. v \in Nat /\ v < 2^2 /\ 2 \in 0 .. 31 /\ 2 - 1 = 1
    BY SomePowers, SMT
  <2>2. v \in Numbers /\ Bits(v) \subseteq 0 .. 1
    BY <2>1, BitsBelow
  <2>. QED BY <2>2, NumOfBits
<1>2. ty \subseteq 0 .. 1 /\ Num(ty) = h.type /\ ta \subseteq 0 .. 1 /\ Num(ta) = h.tag
  BY <1>1
<1>3. w = u \cup Shl(ty, 2) \cup ta
  BY DEF DataHeaderFlags
<1>. HIDE DEF ty, ta, w
<1>4. u \subseteq 4 .. 7 /\ Shl(ty, 2) \subseteq 2 .. 3
  BY <1>2 DEF Shl
<1>5. w \in SUBSET (0 .. 7)
  <2>. HIDE DEF u
  <2>1. \A i \in w : i \in 4 .. 7 \/ i \in 2 .. 3 \/ i \in 0 .. 1
    BY <1>2, <1>3, <1>4
  <2>2. \A i : i \in 4 .. 7 \/ i \in 2 .. 3 \/ i \in 0 .. 1 => i \in 0 .. 7
    OBVIOUS
  <2>. QED BY <2>1, <2>2
<1>6. \A i \in 4 .. 7 : i \in w <=> i \in u
  <2>. HIDE DEF u
  <2>. QED BY <1>2, <1>3, <1>4
<1>7. /\ 7 \in w <=> h.prefix # NoneSet
      /\ 6 \in w <=> h.prefix # NoneSet /\ h.upper
      /\ 5 \in w <=> h.base # NoneSet
      /\ 4 \in w <=> h.is_time
  BY <1>6
<1>8. Part(w, 2, 2) = ty
  <2>. HIDE DEF u
  <2>1. w \cap (2 .. 2 + 2 - 1) = Shl(ty, 2)
    BY <1>2, <1>3, <1>4
  <2>2. {i - 2 : i \in Shl(ty, 2)} = ty
    <3>1. ty \in SUBSET Nat /\ 2 \in Nat
      BY <1>2
    <3>. QED BY <3>1, Unshifted
  <2>. QED BY <2>1, <2>2 DEF Part
<1>9. Part(w, 0, 2) = ta
  <2>. HIDE DEF u
  <2>1. w \cap (0 .. 0 + 2 - 1) = ta
    <3>1. \A i \in 0 .. 0 + 2 - 1 : i \notin 4 .. 7 /\ i \notin 2 .. 3
      OBVIOUS
    <3>2. 0 + 2 - 1 = 1
      OBVIOUS
    <3>. QED BY <1>2, <1>3, <1>4, <3>1, <3>2
  <2>2. {i - 0 : i \in ta} = ta
    <3>1. \A i \in ta : i - 0 = i
      BY <1>2
    <3>. QED BY <3>1
  <2>. QED BY <2>1, <2>2 DEF Part
<1>10. Num(w) \in Byte /\ Bits(Num(w)) = w
  <2>1. 8 \in 0 .. 31 /\ 8 - 1 = 7
    OBVIOUS
  <2>2. Num(w) \in Nat /\ Num(w) < 2^8 /\ Bits(Num(w)) = w
    BY <1>5, <2>1, NumBelow
  <2>. QED BY <2>2, SomePowers DEF Byte
<1>11. NumAt(w, 2, 2) = h.type /\ NumAt(w, 0, 2) = h.tag
  BY <1>2, <1>8, <1>9 DEF NumAt
<1>. HIDE DEF u
<1>. QED BY <1>5, <1>7, <1>10, <1>11 DEF w

\* a header as it is read: without prefix there is no half of it
HeaderRead(h) ==
  [type |-> h.type, tag |-> h.tag, upper |-> h.prefix # NoneSet /\ h.upper, is_time |-> h.is_time,
   count |-> h.count, prefix |-> h.prefix, base |-> h.base]

\* a header with its number of elements
IsHeader(h) ==
  /\ h.type \in 0 .. 3 /\ h.tag \in 0 .. 3 /\ h.upper \in BOOLEAN /\ h.is_time \in BOOLEAN
  /\ h.count \in Byte
  /\ h.prefix # NoneSet => Holds(2, h.prefix)
  /\ h.base # NoneSet => Holds(KeyBytes(h.type), h.base)

\* The bytes of a header, and what is read from them whatever comes after.
LEMMA HeaderBytesAre ==
  ASSUME NEW h, IsHeader(h)
  PROVE  LET hb == DataHeaderBytes(h)
             p == IF h.prefix = NoneSet THEN 0 ELSE 2
         IN  /\ hb \in Seq(Byte) /\ Len(hb) = DataHeaderSize(h) /\ Len(hb) >= 2
             /\ Has(hb, 0, <<h.count, Num(DataHeaderFlags(h))>>)
             /\ h.prefix # NoneSet => Has(hb, 2, Bytes(h.prefix, 2))
             /\ h.base # NoneSet => Has(hb, 2 + p, Bytes(h.base, KeyBytes(h.type)))
<1>. DEFINE f == <<h.count, Num(DataHeaderFlags(h))>>
            k == KeyBytes(h.type)
            P == IF h.prefix = NoneSet THEN <<>> ELSE Bytes(h.prefix, 2)
            B == IF h.base = NoneSet THEN <<>> ELSE Bytes(h.base, k)
            p == IF h.prefix = NoneSet THEN 0 ELSE 2
            q == IF h.base = NoneSet THEN 0 ELSE k
<1>1. f \in Seq(Byte) /\ Len(f) = 2
  <2>1. h.count \in Byte /\ Num(DataHeaderFlags(h)) \in Byte
    BY Flags DEF IsHeader
  <2>. QED BY <2>1
<1>2. \A v, n : n \in {2, 4} /\ Holds(n, v) => Bytes(v, n) \in Seq(Byte) /\ Len(Bytes(v, n)) = n
  <2>1. \A v \in Numbers : v \in Int
    BY SMT DEF Numbers
  <2>2. \A n \in {2, 4} : n \in {0, 2, 4}
    OBVIOUS
  <2>. QED BY <2>1, <2>2, BytesAre DEF Holds
<1>3. k \in {2, 4}
  BY Sizes DEF IsHeader
<1>4. <<>> \in Seq(Byte) /\ Len(<<>>) = 0
  OBVIOUS
<1>5. P \in Seq(Byte) /\ Len(P) = p /\ B \in Seq(Byte) /\ Len(B) = q
  <2>1. h.prefix # NoneSet => Bytes(h.prefix, 2) \in Seq(Byte) /\ Len(Bytes(h.prefix, 2)) = 2
    BY <1>2 DEF IsHeader
  <2>2. h.base # NoneSet => Bytes(h.base, k) \in Seq(Byte) /\ Len(Bytes(h.base, k)) = k
    BY <1>2, <1>3 DEF IsHeader
  <2>. HIDE DEF k
  <2>3. P \in Seq(Byte) /\ Len(P) = p
    <3>1. CASE h.prefix = NoneSet
      <4>1. P = <<>> /\ p = 0
        BY <3>1
      <4>. QED BY <1>4, <4>1
    <3>2. CASE h.prefix # NoneSet
      <4>1. P = Bytes(h.prefix, 2) /\ p = 2
        BY <3>2
      <4>. HIDE DEF P
      <4>. QED BY <2>1, <3>2, <4>1
    <3>. QED BY <3>1, <3>2
  <2>4. B \in Seq(Byte) /\ Len(B) = q
    BY <1>4, <2>2
  <2>. QED BY <2>3, <2>4
<1>6. DataHeaderBytes(h) = (f \o P) \o B
  BY DEF DataHeaderBytes
<1>7. DataHeaderSize(h) = 2 + p + q
  BY DEF DataHeaderSize
<1>8. p \in {0, 2} /\ q \in {0, 2, 4}
  <2>. HIDE DEF k
  <2>. QED BY <1>3
<1>9. /\ h.prefix # NoneSet => P = Bytes(h.prefix, 2)
      /\ h.base # NoneSet => B = Bytes(h.base, k)
  OBVIOUS
<1>. HIDE DEF f, P, B, p, q, k
<1>10. /\ f \o P \in Seq(Byte) /\ Len(f \o P) = 2 + p
       /\ Has(f \o P, 0, f) /\ Has(f \o P, 2, P)
  <2>1. Has(f, 0, f) /\ Has(P, 0, P) /\ 0 \in Nat /\ 2 + 0 = 2
    BY <1>1, <1>5, HasSelf
  <2>2. f \o P \in Seq(Byte) /\ Len(f \o P) = 2 + p
    BY <1>1, <1>5, HasConcat
  <2>3. Has(f \o P, 0, f)
    BY <1>1, <1>5, <2>1, HasConcat
  <2>4. Has(f \o P, Len(f) + 0, P)
    BY <1>1, <1>5, <2>1, HasConcat
  <2>. QED BY <1>1, <2>1, <2>2, <2>3, <2>4
<1>. DEFINE g == f \o P
            w == g \o B
<1>11. /\ w \in Seq(Byte) /\ Len(w) = (2 + p) + q
       /\ Has(w, 0, f) /\ Has(w, 2, P) /\ Has(w, 2 + p, B)
  <2>. HIDE DEF g
  <2>1. Has(B, 0, B) /\ 0 \in Nat /\ 2 \in Nat /\ (2 + p) + 0 = 2 + p
    BY <1>5, <1>8, HasSelf
  <2>2. g \in Seq(Byte) /\ Len(g) = 2 + p /\ Has(g, 0, f) /\ Has(g, 2, P)
    BY <1>10 DEF g
  <2>3. w \in Seq(Byte) /\ Len(w) = (2 + p) + q
    BY <1>5, <2>2, HasConcat
  <2>4. Has(w, 0, f)
    BY <1>1, <1>5, <2>1, <2>2, HasConcat
  <2>5. Has(w, 2, P)
    BY <1>5, <2>1, <2>2, HasConcat
  <2>6. Has(w, Len(g) + 0, B)
    BY <1>5, <2>1, <2>2, HasConcat
  <2>. QED BY <2>1, <2>2, <2>3, <2>4, <2>5, <2>6
<1>12. w = DataHeaderBytes(h)
  BY <1>6
<1>. HIDE DEF w
<1>13. Len(w) >= 2
  BY <1>8, <1>11
<1>. QED BY <1>7, <1>9, <1>11, <1>12, <1>13 DEF f, p, k

\* A header is read as it was written.
LEMMA HeaderReadsBack ==
  ASSUME NEW h, IsHeader(h), NEW rest \in Seq(Byte)
  PROVE  LET b == DataHeaderBytes(h) \o rest
         IN  /\ HeaderReads(b, 0) /\ DataHeaderFrom(b, 0) = HeaderRead(h)
             /\ Enough(b, 2) /\ Part(Bits(Number(b, 0, 2)), 14, 2) # {0}
<1>. DEFINE hb == DataHeaderBytes(h)
            b == hb \o rest
            w == DataHeaderFlags(h)
            f == <<h.count, Num(w)>>
            k == KeyBytes(h.type)
            p == IF h.prefix = NoneSet THEN 0 ELSE 2
<1>1. /\ w \in SUBSET (0 .. 7) /\ Num(w) \in Byte /\ Bits(Num(w)) = w
      /\ 7 \in w <=> h.prefix # NoneSet
      /\ 6 \in w <=> h.prefix # NoneSet /\ h.upper
      /\ 5 \in w <=> h.base # NoneSet
      /\ 4 \in w <=> h.is_time
      /\ NumAt(w, 2, 2) = h.type /\ NumAt(w, 0, 2) = h.tag
  BY Flags DEF IsHeader
<1>2. /\ hb \in Seq(Byte) /\ Len(hb) = DataHeaderSize(h) /\ Len(hb) >= 2
      /\ Has(hb, 0, f)
      /\ h.prefix # NoneSet => Has(hb, 2, Bytes(h.prefix, 2))
      /\ h.base # NoneSet => Has(hb, 2 + p, Bytes(h.base, k))
  BY HeaderBytesAre
<1>3. h.count \in Byte /\ k \in {2, 4} /\ p \in {0, 2}
  BY Sizes DEF IsHeader
<1>. HIDE DEF hb, w, k
<1>4. f \in Seq(Byte) /\ Len(f) = 2 /\ f[1] = h.count /\ f[2] = Num(w)
  BY <1>1, <1>3
<1>. HIDE DEF f, p
<1>5. \A v, n : n \in {2, 4} /\ Holds(n, v) => Bytes(v, n) \in Seq(Byte) /\ Len(Bytes(v, n)) = n
  <2>1. \A v \in Numbers : v \in Int
    BY SMT DEF Numbers
  <2>2. \A n \in {2, 4} : n \in {0, 2, 4}
    OBVIOUS
  <2>. QED BY <2>1, <2>2, BytesAre DEF Holds
<1>6. /\ b \in Seq(Byte) /\ Len(b) = Len(hb) + Len(rest) /\ Len(hb) \in Nat /\ Len(rest) \in Nat
      /\ \A at \in Nat : \A u \in Seq(Byte) : Has(hb, at, u) => Has(b, at, u)
  BY <1>2, HasConcat
<1>. HIDE DEF b
<1>7. /\ Has(b, 0, f)
      /\ h.prefix # NoneSet => Has(b, 2, Bytes(h.prefix, 2))
      /\ h.base # NoneSet => Has(b, 2 + p, Bytes(h.base, k))
  <2>1. 0 \in Nat /\ 2 \in Nat /\ 2 + p \in Nat /\ 2 \in {2, 4}
    BY <1>3
  <2>2. h.prefix # NoneSet => Holds(2, h.prefix)
    BY DEF IsHeader
  <2>3. h.base # NoneSet => Holds(k, h.base)
    BY DEF IsHeader, k
  <2>. QED BY <1>2, <1>3, <1>4, <1>5, <1>6, <2>1, <2>2, <2>3
<1>8. b[1] = h.count /\ b[2] = Num(w) /\ Len(b) >= 2
  <2>1. \A i \in 1 .. 2 : b[0 + i] = f[i]
    BY <1>4, <1>7 DEF Has
  <2>2. 1 \in 1 .. 2 /\ 2 \in 1 .. 2 /\ 0 + 1 = 1 /\ 0 + 2 = 2
    OBVIOUS
  <2>3. b[0 + 1] = f[1] /\ b[0 + 2] = f[2]
    BY <2>1, <2>2
  <2>. QED BY <1>2, <1>4, <1>6, <2>2, <2>3
<1>9. h.prefix # NoneSet => Number(b, 2, 2) = h.prefix
  BY <1>7, HasNumber DEF IsHeader
<1>10. h.base # NoneSet => Number(b, 2 + p, k) = h.base
  <2>1. h.base # NoneSet => Holds(k, h.base)
    BY DEF IsHeader, k
  <2>2. 2 + p \in Nat
    BY <1>3
  <2>. QED BY <1>3, <1>7, <2>1, <2>2, HasNumber
<1>11. DataHeaderFrom(b, 0) = HeaderRead(h)
  <2>1. 0 + 2 = 2 /\ 0 + 1 = 1 /\ 0 + 4 = 4
    OBVIOUS
  <2>2. Bits(b[0 + 2]) = w /\ b[0 + 1] = h.count
    BY <1>1, <1>8, <2>1
  <2>3. /\ NumAt(w, 2, 2) = h.type /\ NumAt(w, 0, 2) = h.tag
        /\ (6 \in w) = (h.prefix # NoneSet /\ h.upper)
        /\ (4 \in w) = h.is_time
        /\ (IF 7 \in w THEN Number(b, 0 + 2, 2) ELSE NoneSet) = h.prefix
        /\ (IF 5 \in w THEN Number(b, 0 + (IF 7 \in w THEN 4 ELSE 2), KeyBytes(h.type))
            ELSE NoneSet) = h.base
    <3>1. (6 \in w) = (h.prefix # NoneSet /\ h.upper) /\ (4 \in w) = h.is_time
      BY <1>1 DEF IsHeader
    <3>2. (IF 7 \in w THEN Number(b, 0 + 2, 2) ELSE NoneSet) = h.prefix
      BY <1>1, <1>9, <2>1
    <3>3. 0 + (IF 7 \in w THEN 4 ELSE 2) = 2 + p
      BY <1>1 DEF p
    <3>4. (IF 5 \in w THEN Number(b, 0 + (IF 7 \in w THEN 4 ELSE 2), KeyBytes(h.type))
           ELSE NoneSet) = h.base
      BY <1>1, <1>10, <3>3 DEF k
    <3>. QED BY <1>1, <3>1, <3>2, <3>4
  <2>. QED BY <2>2, <2>3, Zenon DEF DataHeaderFrom, HeaderRead
<1>12. HeaderReads(b, 0)
  <2>1. Bits(b[0 + 2]) = w
    BY <1>1, <1>8
  <2>2. DataHeaderSize(h) = 2 + p + (IF h.base = NoneSet THEN 0 ELSE k)
    BY DEF DataHeaderSize, p, k
  <2>3. Enough(b, 0 + 2)
    BY <1>8 DEF Enough
  <2>4. Enough(b, 0 + 2 + (IF 7 \in w THEN 2 ELSE 0)
                     + (IF 5 \in w THEN KeyBytes(NumAt(w, 2, 2)) ELSE 0))
    <3>1. 0 + 2 + (IF 7 \in w THEN 2 ELSE 0) + (IF 5 \in w THEN k ELSE 0) = DataHeaderSize(h)
      BY <1>1, <1>3, <2>2 DEF p
    <3>2. DataHeaderSize(h) <= Len(b) /\ DataHeaderSize(h) \in Nat
      BY <1>2, <1>6
    <3>. QED BY <1>1, <3>1, <3>2 DEF Enough, k
  <2>5. ~(7 \notin w /\ 6 \in w)
    BY <1>1
  <2>. QED BY <2>1, <2>3, <2>4, <2>5, Zenon DEF HeaderReads
<1>13. Part(Bits(Number(b, 0, 2)), 14, 2) # {0}
  <2>. DEFINE c == h.count
              d == Num(w)
              v == Bits(c) \cup Shl(w, 8)
  <2>1. b[0 + 1] = c /\ b[0 + 2] = d /\ c \in Byte /\ d \in Byte
    BY <1>1, <1>3, <1>8
  <2>2. \A i \in 1 .. 2 : b[0 + i] \in Nat
    <3>1. \A i \in 1 .. 2 : i = 1 \/ i = 2
      OBVIOUS
    <3>2. \A x \in Byte : x \in Nat
      BY DEF Byte
    <3>. QED BY <2>1, <3>1, <3>2
  <2>3. Number(b, 0, 2) = d * 256 + c
    BY <2>1, <2>2, NumberIs
  <2>4. d * 256 + c = c + d * 256
    <3>1. c \in Nat /\ d \in Nat
      <4>1. \A x \in Byte : x \in Nat
        BY DEF Byte
      <4>. QED BY <2>1, <4>1
    <3>. HIDE DEF c, d
    <3>. QED BY <3>1
  <2>5. Bits(Number(b, 0, 2)) = v /\ Bits(c) \subseteq 0 .. 7
    BY <1>1, <2>1, <2>3, <2>4, BitsOfPair
  <2>. HIDE DEF c, d
  <2>6. (14 \in v <=> 6 \in w) /\ (15 \in v <=> 7 \in w)
    BY <1>1, <2>5 DEF Shl
  <2>. HIDE DEF v
  <2>7. 14 \in v => 15 \in v
    BY <1>1, <2>6
  <2>8. ASSUME Part(v, 14, 2) = {0} PROVE FALSE
    <3>1. {i - 14 : i \in v \cap (14 .. 15)} = {0}
      BY <2>8 DEF Part
    <3>2. PICK i \in v \cap (14 .. 15) : i - 14 = 0
      BY <3>1
    <3>3. 15 \in v
      BY <2>7, <3>2
    <3>4. 15 - 14 \in {j - 14 : j \in v \cap (14 .. 15)}
      BY <3>3
    <3>5. 15 - 14 # 0
      OBVIOUS
    <3>. QED BY <3>1, <3>4, <3>5, Zenon
  <2>. QED BY <2>5, <2>8
<1>14. Enough(b, 2)
  BY <1>8 DEF Enough
<1>. QED BY <1>11, <1>12, <1>13, <1>14 DEF b, hb

\* The header of a message that is sent.
LEMMA SentHeader ==
  ASSUME NEW m, DataReadsBack(m)
  PROVE  LET h == m.header
             n == Len(m.elements)
         IN  /\ n \in Nat /\ n \in Byte
             /\ h.type \in 0 .. 3 /\ h.upper \in BOOLEAN /\ h.is_time \in BOOLEAN
             /\ h.prefix # NoneSet => Holds(2, h.prefix)
             /\ h.base # NoneSet => Holds(KeyBytes(h.type), h.base)
             /\ IsHeader(Counting(h, n))
<1>. DEFINE h == m.header
            n == Len(m.elements)
<1>1. /\ h \in DataHeaders /\ h.base \in Fitting(h.type) \cup {NoneSet} /\ n <= 255
      /\ m.elements \in Seq([key : Fitting(h.type), payload : Fitting(h.type) \cup {NoneSet}])
  BY Zenon DEF DataReadsBack
<1>2. n \in Nat
  BY <1>1, LenProperties
<1>. HIDE DEF h, n
<1>3. n \in Byte
  BY <1>1, <1>2 DEF Byte
<1>4. /\ h.type \in 0 .. 3 /\ h.tag \in 0 .. 3 /\ h.upper \in BOOLEAN /\ h.is_time \in BOOLEAN
      /\ h.prefix \in Fitting(0) \cup {NoneSet}
  BY <1>1 DEF DataHeaders
<1>5. h.prefix # NoneSet => Holds(2, h.prefix)
  <2>1. 0 \in 0 .. 3 /\ KeyBytes(0) = 2
    BY DEF KeyBytes
  <2>. QED BY <1>4, <2>1, Sizes
<1>6. h.base # NoneSet => Holds(KeyBytes(h.type), h.base)
  BY <1>1, <1>4, Sizes
<1>7. IsHeader(Counting(h, n))
  BY <1>3, <1>4, <1>5, <1>6 DEF IsHeader, Counting
<1>. QED BY <1>2, <1>3, <1>4, <1>5, <1>6, <1>7 DEF h, n

\* The key of an element is read with its prefix.
LEMMA KeyMeant ==
  ASSUME NEW m, DataReadsBack(m), NEW i \in 1 .. Len(m.elements), NEW g,
         g.prefix = m.header.prefix, g.prefix # NoneSet => g.upper = m.header.upper
  PROVE  Prefixed(m.elements[i].key, g) = Meant(m)[i].key
<1>. DEFINE h == m.header
            e == m.elements[i]
            ofPrefix == IF h.upper THEN Shl(Bits(h.prefix), 16) ELSE Bits(h.prefix)
<1>1. Meant(m)[i].key = e.key + (IF h.prefix = NoneSet THEN 0
                                 ELSE h.prefix * (IF h.upper THEN 65536 ELSE 1))
  <2>1. Meant(m)[i].key = MeantKey(h, e)
    <3>1. Meant(m)[i] = MeantElement(h, e)
      BY Zenon DEF Meant
    <3>. QED BY <3>1 DEF MeantElement
  <2>. QED BY <2>1, SMT DEF MeantKey
<1>2. /\ h.prefix # NoneSet => ofPrefix \subseteq 0 .. 30
      /\ h.prefix # NoneSet => Bits(e.key) \cap ofPrefix = {}
  BY Zenon DEF DataReadsBack
<1>3. e.key \in Numbers /\ (h.prefix # NoneSet => h.prefix \in Numbers) /\ h.upper \in BOOLEAN
  BY GoodElement, SentHeader DEF Holds
<1>4. \A v \in Numbers : v \in Nat
  BY NumbersAre
<1>. HIDE DEF h, e
<1>5. CASE h.prefix = NoneSet
  <2>1. Prefixed(e.key, g) = e.key
    BY <1>5 DEF Prefixed, h
  <2>. QED BY <1>1, <1>3, <1>4, <1>5, <2>1 DEF e
<1>6. CASE h.prefix # NoneSet /\ ~h.upper
  <2>1. Prefixed(e.key, g) = Or(e.key, h.prefix)
    BY <1>6 DEF Prefixed, h
  <2>2. Or(e.key, h.prefix) = e.key + h.prefix
    BY <1>2, <1>3, <1>6, OrAdds
  <2>3. h.prefix * 1 = h.prefix
    BY <1>3, <1>4, <1>6
  <2>. QED BY <1>1, <1>6, <2>1, <2>2, <2>3 DEF e
<1>7. CASE h.prefix # NoneSet /\ h.upper
  <2>1. Prefixed(e.key, g) = Num(Bits(e.key) \cup Shl(Bits(h.prefix), 16))
    BY <1>7 DEF Prefixed, h
  <2>2. h.prefix \in Nat /\ h.prefix < 2^15
    <3>1. Bits(h.prefix) \subseteq 0 .. 30 /\ Num(Bits(h.prefix)) = h.prefix
      BY <1>3, <1>7, NumOfBits
    <3>2. \A j \in Bits(h.prefix) : j + 16 \in 0 .. 30
      BY <1>2, <1>7 DEF Shl
    <3>3. Bits(h.prefix) \in SUBSET (0 .. 15 - 1) /\ 15 \in 0 .. 31
      <4>1. ASSUME NEW j \in Bits(h.prefix) PROVE j \in 0 .. 15 - 1
        <5>1. j \in 0 .. 30 /\ j + 16 \in 0 .. 30
          BY <3>1, <3>2
        <5>. QED BY <5>1
      <4>. QED BY <4>1
    <3>. QED BY <3>1, <3>3, NumBelow
  <2>3. Num(Bits(e.key) \cup Shl(Bits(h.prefix), 16)) = e.key + 65536 * h.prefix
    BY <1>2, <1>3, <1>7, <2>2, UpperAdds
  <2>4. 65536 * h.prefix = h.prefix * 65536
    BY <2>2, SMT
  <2>. QED BY <1>1, <1>7, <2>1, <2>3, <2>4, SMT DEF e
<1>. QED BY <1>3, <1>5, <1>6, <1>7 DEF e

\* The payload of an element is read with its base.
LEMMA PayloadMeant ==
  ASSUME NEW m, DataReadsBack(m), NEW i \in 1 .. Len(m.elements), NEW g, g.base = m.header.base
  PROVE  Based(m.elements[i].payload, g) = Meant(m)[i].payload
<1>. DEFINE h == m.header
            e == m.elements[i]
<1>1. Meant(m)[i].payload = IF h.base = NoneSet THEN e.payload
                            ELSE IF e.payload = NoneSet THEN h.base ELSE h.base + e.payload
  <2>1. Meant(m)[i] = MeantElement(h, e)
    BY Zenon DEF Meant
  <2>. QED BY <2>1 DEF MeantElement, MeantPayload
<1>2. h.base # NoneSet /\ e.payload # NoneSet => Bits(e.payload) \cap Bits(h.base) = {}
  BY Zenon DEF DataReadsBack
<1>3. (e.payload # NoneSet => e.payload \in Numbers) /\ (h.base # NoneSet => h.base \in Numbers)
  BY GoodElement, SentHeader DEF Holds
<1>4. \A v \in Numbers : v \in Nat
  BY NumbersAre
<1>. HIDE DEF h, e
<1>5. CASE h.base = NoneSet
  BY <1>1, <1>5 DEF Based, h, e
<1>6. CASE h.base # NoneSet /\ e.payload = NoneSet
  BY <1>1, <1>6 DEF Based, h, e
<1>7. CASE h.base # NoneSet /\ e.payload # NoneSet
  <2>1. Based(e.payload, g) = Or(e.payload, h.base)
    BY <1>7 DEF Based, h
  <2>2. Or(e.payload, h.base) = e.payload + h.base
    BY <1>2, <1>3, <1>7, OrAdds
  <2>3. e.payload + h.base = h.base + e.payload
    BY <1>3, <1>4, <1>7
  <2>. QED BY <1>1, <1>7, <2>1, <2>2, <2>3 DEF e
<1>. QED BY <1>5, <1>6, <1>7 DEF e

\* a data message of which r elements have been read
Reading(b, h, r) ==
  [kind |-> "data", header |-> HeaderRead(h), data |-> b,
   offset |-> DataHeaderSize(h) + r * ElementBytes(h.type), read |-> r]

\* The cursor of a message is moved.
LEMMA AfterRecord ==
  ASSUME NEW g, NEW b, NEW at, NEW r, NEW at2, NEW r2
  PROVE  [[kind |-> "data", header |-> g, data |-> b, offset |-> at, read |-> r]
             EXCEPT !.read = r2, !.offset = at2] =
         [kind |-> "data", header |-> g, data |-> b, offset |-> at2, read |-> r2]
<1>. DEFINE x == [kind |-> "data", header |-> g, data |-> b, offset |-> at, read |-> r]
            y == [kind |-> "data", header |-> g, data |-> b, offset |-> at, read |-> r2]
<1>1. [x EXCEPT !.read = r2, !.offset = at2] = [[x EXCEPT !.read = r2] EXCEPT !.offset = at2]
  OBVIOUS
<1>2. [x EXCEPT !.read = r2] = y
  OBVIOUS
<1>3. [y EXCEPT !.offset = at2] =
        [kind |-> "data", header |-> g, data |-> b, offset |-> at2, read |-> r2]
  OBVIOUS
<1>. HIDE DEF x, y
<1>4. [x EXCEPT !.read = r2, !.offset = at2] = [y EXCEPT !.offset = at2]
  BY <1>1, <1>2
<1>. QED BY <1>3, <1>4 DEF x

\* A data message is read as it was sent: its header, and its elements, all and in
\* order, each key with the prefix and each payload with the base, and no more
\* (EIEIODataMessage.bytestring, read_eieio_data_message, next_element).
THEOREM DataIsReadBack ==
  ASSUME NEW m, DataReadsBack(m)
  PROVE  LET n == Len(m.elements)
             h == Counting(m.header, n)
             b == DataMessageBytes(m.header, m.elements)
         IN  /\ ReceiveEIEIO(b) = Reading(b, h, 0)
             /\ \A r \in 0 .. n - 1 :
                  /\ IsNextElement(Reading(b, h, r)) /\ NextElementReads(Reading(b, h, r))
                  /\ NextElement(Reading(b, h, r)) = Meant(m)[r + 1]
                  /\ AfterElement(Reading(b, h, r)) = Reading(b, h, r + 1)
             /\ ~IsNextElement(Reading(b, h, n))
             /\ Meant(m) \in [1 .. n -> {Meant(m)[i] : i \in 1 .. n}] /\ n \in Nat
<1>. DEFINE n == Len(m.elements)
            h == Counting(m.header, n)
            hb == DataHeaderBytes(h)
            d == DataMessage(m.header, m.elements).elements
            b == DataMessageBytes(m.header, m.elements)
            L == ElementBytes(h.type)
            k == KeyBytes(h.type)
            p == PayloadBytes(h.type)
<1>1. /\ n \in Nat /\ IsHeader(h) /\ h.type = m.header.type /\ h.prefix = m.header.prefix
      /\ h.base = m.header.base /\ h.upper = m.header.upper /\ h.is_time = m.header.is_time
      /\ h.count = n
  BY SentHeader DEF Counting
<1>2. /\ DataMessage(m.header, m.elements).header = h
      /\ d \in Seq(Byte) /\ Len(d) = n * L
      /\ \A j \in 1 .. n : Has(d, (j - 1) * L, Chunk(m.header, m.elements[j]))
  BY <1>1, Written
<1>3. b = hb \o d
  BY <1>2 DEF DataMessageBytes
<1>4. HeaderReads(b, 0) /\ DataHeaderFrom(b, 0) = HeaderRead(h)
      /\ Enough(b, 2) /\ Part(Bits(Number(b, 0, 2)), 14, 2) # {0}
  BY <1>1, <1>2, <1>3, HeaderReadsBack
<1>5. hb \in Seq(Byte) /\ Len(hb) = DataHeaderSize(h) /\ Len(hb) \in Nat
  BY <1>1, HeaderBytesAre, LenProperties
<1>6. k \in {2, 4} /\ p \in {0, k} /\ L = k + p
  BY <1>1, Sizes DEF IsHeader
<1>. HIDE DEF h, hb, d, b, L, k, p
<1>7. ReceiveEIEIO(b) = Reading(b, h, 0)
  <2>1. ReceiveEIEIO(b) = DataMessageFrom(b, 0)
    BY <1>4 DEF ReceiveEIEIO
  <2>2. DataMessageFrom(b, 0) =
          [kind |-> "data", header |-> HeaderRead(h), data |-> b,
           offset |-> 0 + DataHeaderSize(HeaderRead(h)), read |-> 0]
    BY <1>4 DEF DataMessageFrom
  <2>3. DataHeaderSize(HeaderRead(h)) = DataHeaderSize(h)
    BY DEF DataHeaderSize, HeaderRead
  <2>4. 0 + DataHeaderSize(h) = DataHeaderSize(h) + 0 * L
    BY <1>5, <1>6
  <2>. QED BY <2>1, <2>2, <2>3, <2>4 DEF Reading, L
<1>8. ASSUME NEW r \in 0 .. n - 1
      PROVE  /\ IsNextElement(Reading(b, h, r)) /\ NextElementReads(Reading(b, h, r))
             /\ NextElement(Reading(b, h, r)) = Meant(m)[r + 1]
             /\ AfterElement(Reading(b, h, r)) = Reading(b, h, r + 1)
  <2>. DEFINE i == r + 1
              e == m.elements[i]
              at == DataHeaderSize(h) + r * L
              g == HeaderRead(h)
              x == Reading(b, h, r)
              kb == Bytes(e.key, k)
              pb == Bytes(e.payload, p)
  <2>1. i \in 1 .. n /\ i - 1 = r /\ r \in Nat
    BY <1>1
  <2>2. r * L \in Nat /\ at \in Nat
    BY <1>5, <1>6, <2>1
  <2>3. /\ x.kind = "data" /\ x.header = g /\ x.data = b /\ x.offset = at /\ x.read = r
    BY DEF Reading, L
  <2>4. /\ g.type = h.type /\ g.prefix = h.prefix /\ g.base = h.base /\ g.is_time = h.is_time
        /\ g.count = n /\ (g.prefix # NoneSet => g.upper = h.upper)
    BY <1>1 DEF HeaderRead, IsHeader
  <2>5. /\ Holds(k, e.key) /\ (p = 0 => e.payload = NoneSet)
        /\ p # 0 => p = k /\ Holds(k, e.payload) /\ e.payload # NoneSet
        /\ kb \in Seq(Byte) /\ Len(kb) = k /\ pb \in Seq(Byte) /\ Len(pb) = p
        /\ Chunk(m.header, e) = kb \o pb /\ Len(kb \o pb) = L /\ kb \o pb \in Seq(Byte)
    BY <1>1, <2>1, GoodElement DEF Chunk, k, p, L
  <2>6. Has(d, r * L, kb \o pb)
    BY <1>2, <2>1, <2>5
  <2>. HIDE DEF i, e, at, g, x, kb, pb
  <2>7. Has(b, at, kb \o pb)
    <3>1. Has(hb \o d, Len(hb) + r * L, kb \o pb)
      BY <1>2, <1>5, <2>2, <2>5, <2>6, HasConcat
    <3>. QED BY <1>3, <1>5, <3>1 DEF at
  <2>8. b \in Seq(Byte) /\ Len(b) \in Nat
    BY <1>2, <1>3, <1>5, HasConcat, LenProperties
  <2>9. Has(b, at, kb) /\ Has(b, at + k, pb)
    BY <2>2, <2>5, <2>7, <2>8, HasParts
  <2>10. Number(b, at, k) = e.key
    BY <1>6, <2>2, <2>5, <2>9, HasNumber DEF kb
  <2>11. p # 0 => Number(b, at + k, p) = e.payload
    <3>1. at + k \in Nat
      BY <1>6, <2>2
    <3>. QED BY <1>6, <2>5, <2>9, <3>1, HasNumber DEF pb
  <2>12. IsNextElement(x) /\ NextElementReads(x)
    <3>1. r < n
      BY <1>1
    <3>2. at + L <= Len(b)
      BY <2>5, <2>7 DEF Has
    <3>. QED BY <2>3, <2>4, <3>1, <3>2 DEF IsNextElement, NextElementReads, Enough, L
  <2>13. KeyRead(x) = Meant(m)[i].key
    <3>1. KeyRead(x) = Prefixed(e.key, g)
      BY <2>3, <2>4, <2>10 DEF KeyRead, k
    <3>. QED BY <1>1, <2>1, <2>4, <3>1, KeyMeant DEF e
  <2>14. PayloadRead(x) = Meant(m)[i].payload
    <3>1. PayloadRead(x) = Based(IF p = 0 THEN NoneSet ELSE Number(b, at + k, p), g)
      BY <2>3, <2>4 DEF PayloadRead, k, p
    <3>2. (IF p = 0 THEN NoneSet ELSE Number(b, at + k, p)) = e.payload
      BY <2>5, <2>11
    <3>. QED BY <1>1, <2>1, <2>4, <3>1, <3>2, PayloadMeant DEF e
  <2>15. NextElement(x) = Meant(m)[i]
    <3>1. Meant(m)[i] = [key |-> Meant(m)[i].key, payload |-> Meant(m)[i].payload,
                         is_time |-> Meant(m)[i].payload # NoneSet /\ m.header.is_time]
      <4>1. Meant(m)[i] = MeantElement(m.header, e)
        BY <2>1, Zenon DEF Meant, n, e
      <4>2. \A y, z : MeantElement(y, z) =
              [key |-> MeantElement(y, z).key, payload |-> MeantElement(y, z).payload,
               is_time |-> MeantElement(y, z).payload # NoneSet /\ y.is_time]
        BY DEF MeantElement
      <4>. QED BY <4>1, <4>2
    <3>2. NextElement(x) = [key |-> KeyRead(x), payload |-> PayloadRead(x),
                            is_time |-> PayloadRead(x) # NoneSet /\ g.is_time]
      BY <2>3 DEF NextElement
    <3>. QED BY <1>1, <2>4, <2>13, <2>14, <3>1, <3>2
  <2>16. AfterElement(x) = Reading(b, h, r + 1)
    <3>1. at + L = DataHeaderSize(h) + (r + 1) * L
      BY <1>5, <1>6, <2>1 DEF at
    <3>2. ElementBytes(x.header.type) = L
      BY <2>3, <2>4 DEF L
    <3>3. AfterElement(x) =
            [kind |-> "data", header |-> g, data |-> b, offset |-> at + L, read |-> r + 1]
      <4>1. x = [kind |-> "data", header |-> g, data |-> b, offset |-> at, read |-> r]
        BY DEF x, Reading, g, at, L
      <4>2. AfterElement(x) = [x EXCEPT !.read = r + 1, !.offset = at + L]
        BY <2>3, <3>2 DEF AfterElement
      <4>. QED BY <4>1, <4>2, AfterRecord
    <3>. QED BY <3>1, <3>3 DEF Reading, g, L
  <2>. QED BY <2>12, <2>15, <2>16 DEF x, i
<1>9. ~IsNextElement(Reading(b, h, n))
  BY <1>1 DEF IsNextElement, Reading, HeaderRead
<1>10. Meant(m) \in [1 .. n -> {Meant(m)[i] : i \in 1 .. n}]
  BY DEF Meant, n
<1>. QED BY <1>1, <1>7, <1>8, <1>9, <1>10 DEF b, h

-----------------------------------------------------------------------------
(* Commands of EIEIO                                                       *)

\* Bytes are natural numbers.
LEMMA AByte == \A x : x \in Byte <=> x \in Nat /\ x < 256
BY DEF Byte

\* The two parts of a concatenation.
LEMMA HasBoth ==
  ASSUME NEW s \in Seq(Byte), NEW t \in Seq(Byte)
  PROVE  /\ s \o t \in Seq(Byte) /\ Len(s \o t) = Len(s) + Len(t)
         /\ Len(s) \in Nat /\ Len(t) \in Nat
         /\ Has(s \o t, 0, s) /\ Has(s \o t, Len(s), t)
<1>1. Has(s, 0, s) /\ Has(t, 0, t) /\ 0 \in Nat
  BY HasSelf
<1>2. /\ s \o t \in Seq(Byte) /\ Len(s \o t) = Len(s) + Len(t) /\ Len(s) \in Nat /\ Len(t) \in Nat
      /\ Has(s \o t, 0, s) /\ Has(s \o t, Len(s) + 0, t)
  BY <1>1, HasConcat
<1>3. Len(s) + 0 = Len(s)
  BY <1>2
<1>. QED BY <1>2, <1>3

\* What comes after a part is the rest.
LEMMA RestOf ==
  ASSUME NEW s \in Seq(Byte), NEW t \in Seq(Byte), NEW n \in Nat, n = Len(s)
  PROVE  SubSeq(s \o t, n + 1, Len(s \o t)) = t
<1>. DEFINE w == s \o t
            l == Len(t)
            u == SubSeq(w, n + 1, n + l)
<1>1. Len(w) = n + l /\ l \in Nat /\ Has(w, n, t)
  BY HasBoth
<1>2. \A i \in 1 .. l : w[n + i] = t[i] /\ t[i] \in Byte
  BY <1>1, ElementOfSeq DEF Has
<1>. HIDE DEF w
<1>3. \A i \in n + 1 .. n + l : w[i] \in Byte
  <2>. SUFFICES ASSUME NEW i \in n + 1 .. n + l PROVE w[i] \in Byte
    OBVIOUS
  <2>1. i - n \in 1 .. l /\ n + (i - n) = i
    BY <1>1
  <2>. QED BY <1>2, <2>1
<1>4. n + 1 \in Int /\ n + l \in Int
  BY <1>1
<1>5. /\ u \in Seq(Byte) /\ Len(u) = (IF n + 1 <= n + l THEN (n + l) - (n + 1) + 1 ELSE 0)
      /\ \A i \in 1 .. (n + l) - (n + 1) + 1 : u[i] = w[(n + 1) + i - 1]
  BY <1>3, <1>4, SubSeqProperties
<1>. HIDE DEF u
<1>6. Len(u) = l /\ (n + l) - (n + 1) + 1 = l
  BY <1>1, <1>5
<1>7. \A i \in 1 .. l : u[i] = t[i]
  <2>. SUFFICES ASSUME NEW i \in 1 .. l PROVE u[i] = t[i]
    OBVIOUS
  <2>1. (n + 1) + i - 1 = n + i
    OBVIOUS
  <2>. QED BY <1>2, <1>5, <1>6, <2>1
<1>8. u = t
  BY <1>5, <1>6, <1>7, SeqEqual DEF l
<1>. QED BY <1>1, <1>8 DEF u, w

\* The two bytes that start a command.
LEMMA CommandHeader ==
  ASSUME NEW n \in 1 .. 12, NEW rest \in Seq(Byte)
  PROVE  LET b == CommandHeaderBytes(n) \o rest
         IN  /\ CommandHeaderBytes(n) \in Seq(Byte) /\ Len(CommandHeaderBytes(n)) = 2
             /\ b \in Seq(Byte) /\ Len(b) = 2 + Len(rest) /\ Len(rest) \in Nat /\ Has(b, 2, rest)
             /\ SubSeq(b, 3, Len(b)) = rest
             /\ ReceiveEIEIO(b) = CommandFrom(b, 0) /\ CommandHeaderFrom(b, 0) = n
<1>. DEFINE v == 2^14 + n
            hb == CommandHeaderBytes(n)
            b == hb \o rest
            w == {14} \cup Bits(n)
<1>2. 2^14 = 16384
  BY SMT
<1>1. v \in Numbers /\ v \in Halves /\ v \in Int
  BY <1>2, SMT DEF Numbers, Halves
<1>3. hb = Bytes(v, 2)
  BY DEF CommandHeaderBytes
<1>4. hb \in Seq(Byte) /\ Len(hb) = 2
  <2>1. 2 \in {0, 2, 4}
    OBVIOUS
  <2>. HIDE DEF v, hb
  <2>. QED BY <1>1, <1>3, <2>1, BytesAre
<1>. HIDE DEF hb
<1>5. /\ b \in Seq(Byte) /\ Len(b) = 2 + Len(rest) /\ Len(rest) \in Nat
      /\ Has(b, 0, hb) /\ Has(b, 2, rest)
  BY <1>4, HasBoth
<1>6. SubSeq(b, 3, Len(b)) = rest
  <2>1. 2 + 1 = 3 /\ 2 \in Nat
    OBVIOUS
  <2>2. SubSeq(b, 2 + 1, Len(b)) = rest
    BY <1>4, <2>1, RestOf
  <2>. QED BY <2>1, <2>2
<1>. HIDE DEF b, v
<1>7. Number(b, 0, 2) = v
  <2>1. 0 \in Nat /\ 2 \in {2, 4} /\ Holds(2, v)
    BY <1>1 DEF Holds
  <2>. QED BY <1>3, <1>5, <2>1, HasNumber
<1>8. Bits(n) \subseteq 0 .. 3 /\ Total(Bits(n)) = n /\ Num(Bits(n)) = n
  <2>1. n \in Nat /\ n < 2^4 /\ 4 \in 0 .. 31 /\ 4 - 1 = 3
    BY SomePowers
  <2>2. n \in Numbers /\ Bits(n) \subseteq 0 .. 3
    BY <2>1, BitsBelow
  <2>. QED BY <2>2, NumOfBits
<1>9. Bits(v) = w
  <2>1. Total({14}) = 2^14
    BY OneBit
  <2>2. {14} \in SUBSET (0 .. 30) /\ Bits(n) \in SUBSET (0 .. 30) /\ {14} \cap Bits(n) = {}
    <3>1. \A i \in Bits(n) : i \in 0 .. 30 /\ i # 14
      BY <1>8
    <3>2. {14} \in SUBSET (0 .. 30)
      OBVIOUS
    <3>. QED BY <3>1, <3>2
  <2>3. Total(w) = Total({14}) + Total(Bits(n))
    BY <2>2, SumOfUnion DEF w
  <2>4. Total(w) = v
    BY <1>8, <2>1, <2>3 DEF v
  <2>5. w \in SUBSET (0 .. 30)
    BY <2>2
  <2>. QED BY <2>4, <2>5, BitsOfNum
<1>. HIDE DEF w
<1>10. Part(w, 14, 2) = {0}
  <2>1. w \cap (14 .. 14 + 2 - 1) = {14}
    BY <1>8 DEF w
  <2>2. \A X : X = {14} => {i - 14 : i \in X} = {0}
    OBVIOUS
  <2>3. Part(w, 14, 2) = {i - 14 : i \in w \cap (14 .. 14 + 2 - 1)}
    BY Zenon DEF Part
  <2>. QED BY <2>1, <2>2, <2>3, Zenon
<1>11. NumAt(w, 0, 14) = n
  <2>1. w \cap (0 .. 0 + 14 - 1) = Bits(n)
    BY <1>8 DEF w
  <2>2. {i - 0 : i \in Bits(n)} = Bits(n)
    <3>1. \A i \in Bits(n) : i - 0 = i
      BY <1>8
    <3>. QED BY <3>1
  <2>. QED BY <1>8, <2>1, <2>2 DEF Part, NumAt
<1>12. ReceiveEIEIO(b) = CommandFrom(b, 0)
  <2>1. Enough(b, 2)
    BY <1>5 DEF Enough
  <2>. QED BY <1>7, <1>9, <1>10, <2>1 DEF ReceiveEIEIO
<1>13. CommandHeaderFrom(b, 0) = n
  BY <1>7, <1>9, <1>11 DEF CommandHeaderFrom
<1>. QED BY <1>4, <1>5, <1>6, <1>12, <1>13 DEF b, hb

\* commands without anything in them, and with something that is not looked into
Bare == {EVENT_PADDING, EVENT_STOP, STOP_SENDING_REQUESTS, START_SENDING_REQUESTS}
Other == {STOP_PAUSE_NOTIFICATION, START_RESUME_NOTIFICATION, HOST_DATA_READ_ACK}
Special == {DATABASE, SPINNAKER_REQUEST_BUFFERS, HOST_SEND_SEQUENCED_DATA,
            SPINNAKER_REQUEST_READ_DATA, HOST_DATA_READ}

\* The numbers of the commands are different.
LEMMA CommandNumbers ==
  /\ Bare \subseteq 1 .. 12 /\ Other \subseteq 1 .. 12 /\ Special \subseteq 1 .. 12
  /\ Bare \cap Other = {} /\ Bare \cap Special = {} /\ Other \cap Special = {}
  /\ SPINNAKER_REQUEST_BUFFERS # DATABASE
  /\ SPINNAKER_REQUEST_READ_DATA \notin {DATABASE, SPINNAKER_REQUEST_BUFFERS,
                                      HOST_SEND_SEQUENCED_DATA}
  /\ HOST_DATA_READ \notin {DATABASE, SPINNAKER_REQUEST_BUFFERS, HOST_SEND_SEQUENCED_DATA,
                            SPINNAKER_REQUEST_READ_DATA}
  /\ STOP_PAUSE_NOTIFICATION # HOST_DATA_READ_ACK /\ START_RESUME_NOTIFICATION # HOST_DATA_READ_ACK
BY DEF Bare, Other, Special, DATABASE, EVENT_PADDING, EVENT_STOP, STOP_SENDING_REQUESTS,
       START_SENDING_REQUESTS, SPINNAKER_REQUEST_BUFFERS, HOST_SEND_SEQUENCED_DATA,
       SPINNAKER_REQUEST_READ_DATA, HOST_DATA_READ, STOP_PAUSE_NOTIFICATION,
       START_RESUME_NOTIFICATION, HOST_DATA_READ_ACK

\* What CommandBytes puts after the header, and what CommandFrom reads after it.
LEMMA CommandsWritten ==
  ASSUME NEW c
  PROVE  LET hb == CommandHeaderBytes(c.command)
         IN  /\ c.command \in Bare => CommandBytes(c) = hb \o <<>>
             /\ c.command \in Other =>
                  CommandBytes(c) = hb \o (IF c.command = HOST_DATA_READ_ACK THEN c.rest ELSE <<>>)
             /\ c.command = DATABASE => CommandBytes(c) = hb \o c.path
             /\ c.command = SPINNAKER_REQUEST_BUFFERS =>
                   CommandBytes(c) = hb \o RequestBuffersBytes(c)
             /\ c.command = SPINNAKER_REQUEST_READ_DATA =>
                  CommandBytes(c) = hb \o RequestReadDataBytes(c)
             /\ c.command = HOST_DATA_READ => CommandBytes(c) = hb \o HostDataReadBytes(c)
<1>. DEFINE n == c.command
            hb == CommandHeaderBytes(n)
<1>1. ASSUME n \in Bare PROVE CommandBytes(c) = hb \o <<>>
  <2>1. n \notin Special /\ n \notin Other
    BY <1>1, CommandNumbers
  <2>. QED BY <2>1, Zenon DEF CommandBytes, Special, Other
<1>2. ASSUME n \in Other
      PROVE  CommandBytes(c) = hb \o (IF n = HOST_DATA_READ_ACK THEN c.rest ELSE <<>>)
  <2>1. n \notin Special
    BY <1>2, CommandNumbers
  <2>. QED BY <2>1, Zenon DEF CommandBytes, Special
<1>3. n = DATABASE => CommandBytes(c) = hb \o c.path
  <2>1. ASSUME n = DATABASE
        PROVE  n \notin {SPINNAKER_REQUEST_BUFFERS, HOST_SEND_SEQUENCED_DATA,
                         SPINNAKER_REQUEST_READ_DATA, HOST_DATA_READ, HOST_DATA_READ_ACK}
    BY <2>1 DEF DATABASE, SPINNAKER_REQUEST_BUFFERS, HOST_SEND_SEQUENCED_DATA,
             SPINNAKER_REQUEST_READ_DATA, HOST_DATA_READ, HOST_DATA_READ_ACK
  <2>. QED BY <2>1, Zenon DEF CommandBytes
<1>4. n = SPINNAKER_REQUEST_BUFFERS => CommandBytes(c) = hb \o RequestBuffersBytes(c)
  <2>1. ASSUME n = SPINNAKER_REQUEST_BUFFERS
        PROVE  n \notin {DATABASE, HOST_SEND_SEQUENCED_DATA, SPINNAKER_REQUEST_READ_DATA,
                         HOST_DATA_READ, HOST_DATA_READ_ACK}
    BY <2>1 DEF DATABASE, SPINNAKER_REQUEST_BUFFERS, HOST_SEND_SEQUENCED_DATA,
             SPINNAKER_REQUEST_READ_DATA, HOST_DATA_READ, HOST_DATA_READ_ACK
  <2>. QED BY <2>1, Zenon DEF CommandBytes
<1>5. n = SPINNAKER_REQUEST_READ_DATA => CommandBytes(c) = hb \o RequestReadDataBytes(c)
  <2>1. ASSUME n = SPINNAKER_REQUEST_READ_DATA
        PROVE  n \notin {DATABASE, SPINNAKER_REQUEST_BUFFERS, HOST_SEND_SEQUENCED_DATA,
                         HOST_DATA_READ, HOST_DATA_READ_ACK}
    BY <2>1 DEF DATABASE, SPINNAKER_REQUEST_BUFFERS, HOST_SEND_SEQUENCED_DATA,
             SPINNAKER_REQUEST_READ_DATA, HOST_DATA_READ, HOST_DATA_READ_ACK
  <2>. QED BY <2>1, Zenon DEF CommandBytes
<1>6. n = HOST_DATA_READ => CommandBytes(c) = hb \o HostDataReadBytes(c)
  <2>1. ASSUME n = HOST_DATA_READ
        PROVE  n \notin {DATABASE, SPINNAKER_REQUEST_BUFFERS, HOST_SEND_SEQUENCED_DATA,
                         SPINNAKER_REQUEST_READ_DATA, HOST_DATA_READ_ACK}
    BY <2>1 DEF DATABASE, SPINNAKER_REQUEST_BUFFERS, HOST_SEND_SEQUENCED_DATA,
             SPINNAKER_REQUEST_READ_DATA, HOST_DATA_READ, HOST_DATA_READ_ACK
  <2>. QED BY <2>1, Zenon DEF CommandBytes
<1>. QED BY <1>1, <1>2, <1>3, <1>4, <1>5, <1>6

\* Which reader each number of a command leads to.
LEMMA CommandsRead ==
  ASSUME NEW b
  PROVE  LET n == CommandHeaderFrom(b, 0)
             size(m) == m + (b[2 + 3] % 8) * 12 - (IF b[2 + 3] % 8 = 0 THEN 0 ELSE 2)
         IN  /\ n \in Bare => CommandFrom(b, 0) = Command(n)
             /\ n \in Other => CommandFrom(b, 0) = EIEIOCommandMessage(n, SubSeq(b, 3, Len(b)))
             /\ n = DATABASE /\ ~(Len(b) > 2) =>
                  CommandFrom(b, 0) = NotificationProtocolDatabaseLocation(<<>>)
             /\ n = SPINNAKER_REQUEST_BUFFERS /\ Enough(b, 2 + 10) =>
                  CommandFrom(b, 0) = RequestBuffersFrom(b, 2)
             /\ n = SPINNAKER_REQUEST_READ_DATA /\ Enough(b, 2 + 4) /\ Enough(b, 2 + size(4)) =>
                  CommandFrom(b, 0) = RequestReadDataFrom(b, 2)
             /\ n = HOST_DATA_READ /\ Enough(b, 2 + 2) /\ Enough(b, 2 + (2 + (b[2 + 1] % 8) * 8)) =>
                  CommandFrom(b, 0) = HostDataReadFrom(b, 2)
<1>. DEFINE n == CommandHeaderFrom(b, 0)
            size(m) == m + (b[2 + 3] % 8) * 12 - (IF b[2 + 3] % 8 = 0 THEN 0 ELSE 2)
<1>0. 0 + 2 = 2 /\ 2 + 1 = 3
  OBVIOUS
<1>1. ASSUME n \in Bare PROVE CommandFrom(b, 0) = Command(n)
  <2>1. n \notin Special
    BY <1>1, CommandNumbers
  <2>. QED BY <1>1, <2>1, Zenon DEF CommandFrom, Special, Bare
<1>2. ASSUME n \in Other PROVE CommandFrom(b, 0) = EIEIOCommandMessage(n, SubSeq(b, 3, Len(b)))
  <2>1. n \notin Special /\ n \notin Bare
    BY <1>2, CommandNumbers
  <2>. QED BY <1>0, <2>1, Zenon DEF CommandFrom, Special, Bare
<1>3. ASSUME n \in Special
      PROVE  n \notin Bare
  BY <1>3, CommandNumbers
<1>4. ASSUME n = DATABASE, ~(Len(b) > 2)
      PROVE  CommandFrom(b, 0) = NotificationProtocolDatabaseLocation(<<>>)
  <2>1. n \notin {SPINNAKER_REQUEST_BUFFERS, HOST_SEND_SEQUENCED_DATA,
                         SPINNAKER_REQUEST_READ_DATA, HOST_DATA_READ} /\ n \in Special
    BY <1>4 DEF DATABASE, SPINNAKER_REQUEST_BUFFERS, HOST_SEND_SEQUENCED_DATA,
             SPINNAKER_REQUEST_READ_DATA, HOST_DATA_READ, Special
  <2>. QED BY <1>0, <1>3, <1>4, <2>1, Zenon DEF CommandFrom, Bare
<1>5. ASSUME n = SPINNAKER_REQUEST_BUFFERS, Enough(b, 2 + 10)
      PROVE  CommandFrom(b, 0) = RequestBuffersFrom(b, 2)
  <2>1. n \notin {DATABASE, HOST_SEND_SEQUENCED_DATA,
                         SPINNAKER_REQUEST_READ_DATA, HOST_DATA_READ} /\ n \in Special
    BY <1>5 DEF DATABASE, SPINNAKER_REQUEST_BUFFERS, HOST_SEND_SEQUENCED_DATA,
             SPINNAKER_REQUEST_READ_DATA, HOST_DATA_READ, Special
  <2>. QED BY <1>0, <1>3, <1>5, <2>1, Zenon DEF CommandFrom, Bare
<1>6. ASSUME n = SPINNAKER_REQUEST_READ_DATA, Enough(b, 2 + 4), Enough(b, 2 + size(4))
      PROVE  CommandFrom(b, 0) = RequestReadDataFrom(b, 2)
  <2>1. n \notin {DATABASE, SPINNAKER_REQUEST_BUFFERS, HOST_SEND_SEQUENCED_DATA,
                         HOST_DATA_READ} /\ n \in Special
    BY <1>6 DEF DATABASE, SPINNAKER_REQUEST_BUFFERS, HOST_SEND_SEQUENCED_DATA,
             SPINNAKER_REQUEST_READ_DATA, HOST_DATA_READ, Special
  <2>. QED BY <1>0, <1>3, <1>6, <2>1, Zenon DEF CommandFrom, Bare
<1>7. ASSUME n = HOST_DATA_READ, Enough(b, 2 + 2), Enough(b, 2 + (2 + (b[2 + 1] % 8) * 8))
      PROVE  CommandFrom(b, 0) = HostDataReadFrom(b, 2)
  <2>1. n \notin {DATABASE, SPINNAKER_REQUEST_BUFFERS, HOST_SEND_SEQUENCED_DATA,
                         SPINNAKER_REQUEST_READ_DATA} /\ n \in Special
    BY <1>7 DEF DATABASE, SPINNAKER_REQUEST_BUFFERS, HOST_SEND_SEQUENCED_DATA,
             SPINNAKER_REQUEST_READ_DATA, HOST_DATA_READ, Special
  <2>. QED BY <1>0, <1>3, <1>7, <2>1, Zenon DEF CommandFrom, Bare
<1>. QED BY <1>1, <1>2, <1>4, <1>5, <1>6, <1>7

\* The commands that carry nothing that the receiver looks into.
LEMMA BareReadBack ==
  ASSUME NEW n \in Bare, NEW c, c = Command(n)
  PROVE  ReceiveEIEIO(CommandBytes(c)) = c
<1>. DEFINE b == CommandHeaderBytes(n) \o <<>>
<1>1. c.command = n
  BY DEF Command
<1>2. CommandBytes(c) = b
  BY <1>1, CommandsWritten, Zenon
<1>3. n \in 1 .. 12 /\ <<>> \in Seq(Byte)
  BY CommandNumbers
<1>4. ReceiveEIEIO(b) = CommandFrom(b, 0) /\ CommandHeaderFrom(b, 0) = n
  BY <1>3, CommandHeader, Zenon
<1>. HIDE DEF b
<1>5. CommandFrom(b, 0) = Command(n)
  BY <1>4, CommandsRead, Zenon
<1>. QED BY <1>2, <1>4, <1>5

\* The commands whose bytes are kept as they are.
LEMMA OtherReadBack ==
  ASSUME NEW n \in Other, NEW s \in Seq(Byte), NEW c, c = EIEIOCommandMessage(n, s),
         n # HOST_DATA_READ_ACK => s = <<>>
  PROVE  ReceiveEIEIO(CommandBytes(c)) = c
<1>. DEFINE b == CommandHeaderBytes(n) \o s
<1>1. c.command = n /\ c.rest = s
  BY DEF EIEIOCommandMessage
<1>2. CommandBytes(c) = b
  BY <1>1, CommandsWritten, Zenon
<1>3. n \in 1 .. 12
  BY CommandNumbers
<1>4. /\ ReceiveEIEIO(b) = CommandFrom(b, 0) /\ CommandHeaderFrom(b, 0) = n
      /\ SubSeq(b, 3, Len(b)) = s
  BY <1>3, CommandHeader, Zenon
<1>. HIDE DEF b
<1>5. CommandFrom(b, 0) = EIEIOCommandMessage(n, s)
  BY <1>4, CommandsRead, Zenon
<1>. QED BY <1>2, <1>4, <1>5

\* The command that gives the place of the database, without a place.
LEMMA DatabaseReadBack ==
  ASSUME NEW c, c = NotificationProtocolDatabaseLocation(<<>>)
  PROVE  ReceiveEIEIO(CommandBytes(c)) = c
<1>. DEFINE b == CommandHeaderBytes(DATABASE) \o <<>>
<1>1. c.command = DATABASE /\ c.path = <<>>
  BY DEF NotificationProtocolDatabaseLocation
<1>2. CommandBytes(c) = b
  BY <1>1, CommandsWritten, Zenon
<1>3. DATABASE \in 1 .. 12 /\ <<>> \in Seq(Byte) /\ Len(<<>>) = 0 /\ 2 + 0 = 2
  BY DEF DATABASE
<1>4. ReceiveEIEIO(b) = CommandFrom(b, 0) /\ CommandHeaderFrom(b, 0) = DATABASE
      /\ Len(b) = 2 + Len(<<>>)
  BY <1>3, CommandHeader, Zenon
<1>. HIDE DEF b
<1>5. ~(Len(b) > 2)
  BY <1>3, <1>4
<1>6. CommandFrom(b, 0) = NotificationProtocolDatabaseLocation(<<>>)
  BY <1>4, <1>5, CommandsRead, Zenon
<1>. QED BY <1>2, <1>4, <1>6

\* A command with something that is looked into: what follows its two bytes.
LEMMA CommandWith ==
  ASSUME NEW n \in Special, NEW s \in Seq(Byte)
  PROVE  LET b == CommandHeaderBytes(n) \o s
         IN  /\ ReceiveEIEIO(b) = CommandFrom(b, 0) /\ CommandHeaderFrom(b, 0) = n
             /\ b \in Seq(Byte) /\ Len(b) = 2 + Len(s) /\ Len(s) \in Nat /\ Has(b, 2, s)
<1>1. n \in 1 .. 12
  BY CommandNumbers
<1>. QED BY <1>1, CommandHeader, Zenon

\* Two parts, by their lengths.
LEMMA TwoParts ==
  ASSUME NEW s \in Seq(Byte), NEW t \in Seq(Byte), NEW n, n = Len(s)
  PROVE  /\ s \o t \in Seq(Byte) /\ Len(s \o t) = n + Len(t) /\ n \in Nat /\ Len(t) \in Nat
         /\ Has(s \o t, 0, s) /\ Has(s \o t, n, t)
BY HasBoth, Zenon

\* What is there of two parts.
LEMMA PartsThere ==
  ASSUME NEW b, NEW at \in Nat, NEW s \in Seq(Byte), NEW t \in Seq(Byte), NEW n, n = Len(s),
         Has(b, at, s \o t), Len(b) \in Nat
  PROVE  Has(b, at, s) /\ Has(b, at + n, t)
BY HasParts, Zenon

\* A word of four bytes.
LEMMA FourBytes ==
  ASSUME NEW v \in Fitting(2)
  PROVE  /\ Bytes(v, 4) \in Seq(Byte) /\ Len(Bytes(v, 4)) = 4
         /\ \A b : \A at \in Nat : Has(b, at, Bytes(v, 4)) => Number(b, at, 4) = v
<1>1. KeyBytes(2) = 4 /\ 2 \in 0 .. 3 /\ 4 \in {0, 2, 4} /\ 4 \in {2, 4}
  BY DEF KeyBytes
<1>2. Holds(4, v)
  BY <1>1, Sizes
<1>3. v \in Int
  <2>1. v \in Nat
    BY <1>2, NumbersAre, Zenon DEF Holds
  <2>. QED BY <2>1
<1>. QED BY <1>1, <1>2, <1>3, BytesAre, HasNumber, Zenon

\* A request for the space in buffers.
LEMMA RequestBuffersReadBack ==
  ASSUME NEW c \in RequestBuffersMessages
  PROVE  ReceiveEIEIO(CommandBytes(c)) = c
<1>. DEFINE f == <<c.y, c.x, c.p * 8, 0, c.region, c.sequence>>
            s == Bytes(c.space, 4)
            r == f \o s
            b == CommandHeaderBytes(SPINNAKER_REQUEST_BUFFERS) \o r
<1>1. /\ c = SpinnakerRequestBuffers(c.x, c.y, c.p, c.region, c.sequence, c.space)
      /\ c.command = SPINNAKER_REQUEST_BUFFERS /\ c.x \in Byte /\ c.y \in Byte /\ c.p \in 0 .. 31
      /\ c.region \in 0 .. 15 /\ c.sequence \in Byte /\ c.space \in Fitting(2)
  BY DEF RequestBuffersMessages, SpinnakerRequestBuffers
<1>2. CommandBytes(c) = b
  BY <1>1, CommandsWritten, Zenon DEF RequestBuffersBytes
<1>3. f \in Seq(Byte) /\ Len(f) = 6
  <2>1. c.p * 8 \in Byte /\ 0 \in Byte /\ c.region \in Byte
    BY <1>1 DEF Byte
  <2>2. <<c.y, c.x, c.p * 8, 0, c.region, c.sequence>> \in Seq(Byte)
    BY <1>1, <2>1
  <2>. QED BY <2>2
<1>4. f[1] = c.y /\ f[2] = c.x /\ f[3] = c.p * 8 /\ f[5] = c.region /\ f[6] = c.sequence
  OBVIOUS
<1>5. s \in Seq(Byte) /\ Len(s) = 4
  BY <1>1, FourBytes
<1>. HIDE DEF f, s
<1>6. r \in Seq(Byte) /\ Len(r) = 6 + Len(s)
  BY <1>3, <1>5, TwoParts, Zenon
<1>6a. Len(r) = 10
  <2>. HIDE DEF r
  <2>. QED BY <1>5, <1>6
<1>7. /\ ReceiveEIEIO(b) = CommandFrom(b, 0) /\ CommandHeaderFrom(b, 0) = SPINNAKER_REQUEST_BUFFERS
      /\ b \in Seq(Byte) /\ Len(b) = 2 + 10 /\ Has(b, 2, r)
  <2>1. SPINNAKER_REQUEST_BUFFERS \in Special
    BY DEF Special
  <2>. HIDE DEF r
  <2>. QED BY <1>6, <1>6a, <2>1, CommandWith, Zenon
<1>. HIDE DEF b
<1>8. Has(b, 2, f) /\ Has(b, 2 + 6, s)
  <2>1. Len(b) \in Nat /\ 2 \in Nat
    BY <1>7
  <2>. QED BY <1>3, <1>5, <1>7, <2>1, PartsThere, Zenon
<1>9. /\ b[2 + 1] = c.y /\ b[2 + 2] = c.x /\ b[2 + 3] = c.p * 8 /\ b[2 + 5] = c.region
      /\ b[2 + 6] = c.sequence
  <2>1. \A i \in 1 .. 6 : b[2 + i] = f[i]
    BY <1>3, <1>8 DEF Has
  <2>. QED BY <1>4, <2>1
<1>10. Number(b, 2 + 6, 4) = c.space
  <2>1. 2 + 6 \in Nat
    OBVIOUS
  <2>. QED BY <1>1, <1>8, <2>1, FourBytes DEF s
<1>11. ((c.p * 8) \div 8) % 32 = c.p /\ c.region % 16 = c.region
  BY <1>1
<1>12. RequestBuffersFrom(b, 2) = c
  BY <1>1, <1>9, <1>10, <1>11, Zenon DEF RequestBuffersFrom
<1>13. CommandFrom(b, 0) = RequestBuffersFrom(b, 2)
  <2>1. Enough(b, 2 + 10)
    BY <1>7 DEF Enough
  <2>. QED BY <1>7, <2>1, CommandsRead, Zenon
<1>. QED BY <1>2, <1>7, <1>12, <1>13

\* Two bytes, two more and two words.
LEMMA FourParts ==
  ASSUME NEW s \in Seq(Byte), NEW t \in Seq(Byte), NEW u \in Seq(Byte), NEW v \in Seq(Byte),
         Len(s) = 2, Len(t) = 2, Len(u) = 4, Len(v) = 4
  PROVE  LET w == s \o t \o u \o v
         IN  /\ w \in Seq(Byte) /\ Len(w) = 12
             /\ \A b : \A at \in Nat : Len(b) \in Nat /\ Has(b, at, w) =>
                  Has(b, at, s) /\ Has(b, at + 2, t) /\ Has(b, at + 4, u) /\ Has(b, at + 8, v)
<1>. DEFINE st == s \o t
            stu == st \o u
            w == stu \o v
<1>1. st \in Seq(Byte) /\ Len(st) = 4
  <2>1. st \in Seq(Byte) /\ Len(st) = Len(s) + Len(t)
    BY HasBoth, Zenon
  <2>. HIDE DEF st
  <2>. QED BY <2>1
<1>. HIDE DEF st
<1>2. stu \in Seq(Byte) /\ Len(stu) = 8
  <2>1. stu \in Seq(Byte) /\ Len(stu) = 4 + Len(u)
    BY <1>1, TwoParts, Zenon
  <2>. HIDE DEF stu
  <2>. QED BY <2>1
<1>. HIDE DEF stu
<1>3. w \in Seq(Byte) /\ Len(w) = 12
  <2>1. w \in Seq(Byte) /\ Len(w) = 8 + Len(v)
    BY <1>2, TwoParts, Zenon
  <2>. HIDE DEF w
  <2>. QED BY <2>1
<1>4. ASSUME NEW b, NEW at \in Nat, Len(b) \in Nat, Has(b, at, w)
      PROVE  Has(b, at, s) /\ Has(b, at + 2, t) /\ Has(b, at + 4, u) /\ Has(b, at + 8, v)
  <2>1. Has(b, at, stu) /\ Has(b, at + 8, v)
    BY <1>2, <1>4, PartsThere, Zenon
  <2>2. Has(b, at, st) /\ Has(b, at + 4, u)
    BY <1>1, <1>4, <2>1, PartsThere, Zenon DEF stu
  <2>3. Has(b, at, s) /\ Has(b, at + 2, t)
    BY <1>4, <2>2, PartsThere, Zenon DEF st
  <2>. QED BY <2>1, <2>2, <2>3
<1>. QED BY <1>3, <1>4, Zenon DEF w, stu, st

\* The bytes of two, in their places.
LEMMA Pair ==
  ASSUME NEW x \in Byte, NEW y \in Byte
  PROVE  /\ <<x, y>> \in Seq(Byte) /\ Len(<<x, y>>) = 2
         /\ \A b : \A at \in Nat : Has(b, at, <<x, y>>) => b[at + 1] = x /\ b[at + 2] = y
<1>. DEFINE s == <<x, y>>
<1>1. s \in Seq(Byte) /\ Len(s) = 2 /\ s[1] = x /\ s[2] = y
  OBVIOUS
<1>. HIDE DEF s
<1>2. ASSUME NEW b, NEW at \in Nat, Has(b, at, s)
      PROVE  b[at + 1] = x /\ b[at + 2] = y
  <2>1. 1 \in 1 .. 2 /\ 2 \in 1 .. 2
    OBVIOUS
  <2>. QED BY <1>1, <1>2, <2>1 DEF Has
<1>. QED BY <1>1, <1>2 DEF s

\* Parts of one length after the two bytes of a command and two more.
IsCommandOfParts(b, n, f, c, N, L) ==
  /\ n \in Special /\ f \in Seq(Byte) /\ Len(f) = 2 /\ L \in Nat /\ N \in Nat /\ Len(c) = N
  /\ \A i \in 1 .. N : c[i] \in Seq(Byte) /\ Len(c[i]) = L
  /\ b = CommandHeaderBytes(n) \o (f \o Joined(c))

\* Where the parts of such a command are when it is received.
LEMMA PartsOfCommand ==
  ASSUME NEW n, NEW f, NEW L, NEW N, NEW c, NEW b, IsCommandOfParts(b, n, f, c, N, L)
  PROVE  /\ ReceiveEIEIO(b) = CommandFrom(b, 0) /\ CommandHeaderFrom(b, 0) = n
         /\ b \in Seq(Byte) /\ Len(b) = 4 + N * L /\ Has(b, 2, f)
         /\ \A j \in 1 .. N : Has(b, 4 + (j - 1) * L, c[j])
<1>. USE DEF IsCommandOfParts
<1>. DEFINE J == Joined(c)
            r == f \o J
<1>0. b = CommandHeaderBytes(n) \o r
  OBVIOUS
<1>1. J \in Seq(Byte) /\ Len(J) = N * L /\ \A j \in 1 .. N : Has(J, (j - 1) * L, c[j])
  BY JoinedParts
<1>. HIDE DEF J
<1>2. r \in Seq(Byte) /\ Len(r) = 2 + Len(J) /\ Has(r, 0, f) /\ Has(r, 2, J) /\ Len(J) \in Nat
  BY <1>1, TwoParts, Zenon
<1>3. /\ ReceiveEIEIO(b) = CommandFrom(b, 0) /\ CommandHeaderFrom(b, 0) = n
      /\ b \in Seq(Byte) /\ Len(b) = 2 + Len(r) /\ Len(r) \in Nat /\ Has(b, 2, r)
  <2>. HIDE DEF r
  <2>1. /\ ReceiveEIEIO(CommandHeaderBytes(n) \o r) = CommandFrom(CommandHeaderBytes(n) \o r, 0)
        /\ CommandHeaderFrom(CommandHeaderBytes(n) \o r, 0) = n
        /\ CommandHeaderBytes(n) \o r \in Seq(Byte)
        /\ Len(CommandHeaderBytes(n) \o r) = 2 + Len(r) /\ Len(r) \in Nat
        /\ Has(CommandHeaderBytes(n) \o r, 2, r)
    BY <1>2, CommandWith, Zenon
  <2>. QED BY <1>0, <2>1, Zenon
<1>4. Len(b) = 4 + N * L /\ Len(b) \in Nat
  <2>. HIDE DEF r
  <2>. QED BY <1>1, <1>2, <1>3
<1>5. Has(b, 2, f) /\ Has(b, 2 + 2, J)
  <2>1. 2 \in Nat
    OBVIOUS
  <2>. QED BY <1>1, <1>3, <1>4, <2>1, PartsThere, Zenon DEF r
<1>6. ASSUME NEW j \in 1 .. N
      PROVE  Has(b, 4 + (j - 1) * L, c[j])
  <2>. DEFINE q == (j - 1) * L
              s == c[j]
  <2>1. Has(J, q, s) /\ s \in Seq(Byte) /\ Len(s) \in Nat
    BY <1>1, LenProperties
  <2>2. q \in Nat
    <3>1. j - 1 \in Nat
      OBVIOUS
    <3>. QED BY <3>1
  <2>. HIDE DEF q, s, r
  <2>3. Has(b, 4 + q, s)
    <3>1. /\ q + Len(s) <= Len(J) /\ 4 + Len(J) <= Len(b)
          /\ \A i \in 1 .. Len(s) : J[q + i] = s[i]
          /\ \A i \in 1 .. Len(J) : b[4 + i] = J[i]
      <4>1. q + Len(s) <= Len(J) /\ \A i \in 1 .. Len(s) : J[q + i] = s[i]
        BY <2>1, Zenon DEF Has
      <4>2. Has(b, 4, J)
        <5>1. 2 + 2 = 4
          OBVIOUS
        <5>. QED BY <1>5, <5>1, Zenon
      <4>3. 4 + Len(J) <= Len(b) /\ \A i \in 1 .. Len(J) : b[4 + i] = J[i]
        BY <4>2, Zenon DEF Has
      <4>. QED BY <4>1, <4>3, Zenon
    <3>2. (4 + q) + Len(s) <= Len(b)
      BY <1>2, <1>4, <2>1, <2>2, <3>1
    <3>3. ASSUME NEW i \in 1 .. Len(s) PROVE b[(4 + q) + i] = s[i]
      <4>1. q + i \in 1 .. Len(J) /\ (4 + q) + i = 4 + (q + i)
        BY <1>2, <2>1, <2>2, <3>1
      <4>. QED BY <3>1, <4>1
    <3>. QED BY <3>2, <3>3 DEF Has
  <2>. QED BY <2>3 DEF q, s
<1>. QED BY <1>3, <1>4, <1>5, <1>6, Zenon

\* An acknowledgement of data that has been read.
LEMMA HostDataReadBack ==
  ASSUME NEW c \in HostDataReadMessages, Len(c.acks) <= 7
  PROVE  ReceiveEIEIO(CommandBytes(c)) = c
<1>. DEFINE N == Len(c.acks)
            f == <<N, c.sequence>>
            head(i) == <<0, 0, c.acks[i].channel, c.acks[i].region>>
            word(i) == Bytes(c.acks[i].space, 4)
            parts == [i \in 1 .. N |-> head(i) \o word(i)]
            b == CommandHeaderBytes(HOST_DATA_READ) \o (f \o Joined(parts))
<1>1. /\ c = HostDataRead(c.sequence, c.acks) /\ c.command = HOST_DATA_READ /\ c.sequence \in Byte
      /\ c.acks \in Seq([channel : Byte, region : Byte, space : Fitting(2)])
  BY DEF HostDataReadMessages, HostDataRead
<1>2. N \in Nat /\ N <= 7 /\ N \in Byte
      /\ \A i \in 1 .. N : c.acks[i] \in [channel : Byte, region : Byte, space : Fitting(2)]
  <2>1. /\ N \in Nat
        /\ \A i \in 1 .. N : c.acks[i] \in [channel : Byte, region : Byte, space : Fitting(2)]
    BY <1>1, LenProperties, ElementOfSeq
  <2>2. N <= 7
    OBVIOUS
  <2>3. \A n \in Nat : n <= 7 => n \in Byte
    BY DEF Byte
  <2>. HIDE DEF N
  <2>. QED BY <2>1, <2>2, <2>3, Zenon
<1>3. CommandBytes(c) = b
  <2>1. CommandBytes(c) = CommandHeaderBytes(HOST_DATA_READ) \o HostDataReadBytes(c)
    BY <1>1, CommandsWritten, Zenon
  <2>2. HostDataReadBytes(c) = f \o Joined(parts)
    BY Zenon DEF HostDataReadBytes
  <2>. QED BY <2>1, <2>2, Zenon
<1>4. ASSUME NEW i \in 1 .. N
      PROVE  /\ head(i) \in Seq(Byte) /\ Len(head(i)) = 4
             /\ head(i)[3] = c.acks[i].channel /\ head(i)[4] = c.acks[i].region
             /\ word(i) \in Seq(Byte) /\ Len(word(i)) = 4
             /\ parts[i] \in Seq(Byte) /\ Len(parts[i]) = 8 /\ parts[i] = head(i) \o word(i)
  <2>1. c.acks[i].channel \in Byte /\ c.acks[i].region \in Byte /\ c.acks[i].space \in Fitting(2)
    BY <1>2
  <2>2. 0 \in Byte
    BY DEF Byte
  <2>3. /\ head(i) \in Seq(Byte) /\ Len(head(i)) = 4
        /\ head(i)[3] = c.acks[i].channel /\ head(i)[4] = c.acks[i].region
    BY <2>1, <2>2
  <2>4. word(i) \in Seq(Byte) /\ Len(word(i)) = 4
    BY <2>1, FourBytes
  <2>5. parts[i] = head(i) \o word(i)
    BY <1>4
  <2>. HIDE DEF head, word, parts
  <2>6. parts[i] \in Seq(Byte) /\ Len(parts[i]) = 4 + Len(word(i))
    <3>1. head(i) \o word(i) \in Seq(Byte) /\ Len(head(i) \o word(i)) = 4 + Len(word(i))
      BY <2>3, <2>4, TwoParts, Zenon
    <3>. QED BY <2>5, <3>1, Zenon
  <2>7. Len(parts[i]) = 8
    BY <2>4, <2>6
  <2>. QED BY <2>3, <2>4, <2>5, <2>6, <2>7
<1>5. Len(parts) = N
  BY <1>2
<1>6. f \in Seq(Byte) /\ Len(f) = 2
  BY <1>1, <1>2, Pair
<1>. HIDE DEF parts, head, word
<1>7. /\ ReceiveEIEIO(b) = CommandFrom(b, 0) /\ CommandHeaderFrom(b, 0) = HOST_DATA_READ
      /\ b \in Seq(Byte) /\ Len(b) = 4 + N * 8 /\ Has(b, 2, f)
      /\ \A j \in 1 .. N : Has(b, 4 + (j - 1) * 8, parts[j])
  <2>1. HOST_DATA_READ \in Special /\ 8 \in Nat
    BY DEF Special
  <2>2. \A i \in 1 .. N : parts[i] \in Seq(Byte) /\ Len(parts[i]) = 8
    BY <1>4
  <2>3. N \in Nat
    BY <1>2
  <2>4. b = CommandHeaderBytes(HOST_DATA_READ) \o (f \o Joined(parts))
    OBVIOUS
  <2>. HIDE DEF f, N, b
  <2>5. IsCommandOfParts(b, HOST_DATA_READ, f, parts, N, 8)
    BY <2>3, <2>4, <1>5, <1>6, <2>1, <2>2 DEF IsCommandOfParts
  <2>. QED BY <2>5, PartsOfCommand, Zenon
<1>. HIDE DEF b
<1>8. b[2 + 1] = N /\ b[2 + 2] = c.sequence
  <2>1. 2 \in Nat
    OBVIOUS
  <2>. QED BY <1>1, <1>2, <1>7, <2>1, Pair
<1>9. b[2 + 1] % 8 = N
  <2>1. \A n \in Nat : n <= 7 => n % 8 = n
    OBVIOUS
  <2>. HIDE DEF N
  <2>. QED BY <1>2, <1>8, <2>1, Zenon
<1>10. ASSUME NEW i \in 1 .. N
       PROVE  LET o == 2 + 2 + (i - 1) * 8
              IN  [channel |-> b[o + 3], region |-> b[o + 4], space |-> Number(b, o + 4, 4)] =
                     c.acks[i]
  <2>. DEFINE q == (i - 1) * 8
              o == 2 + 2 + q
  <2>1. q \in Nat /\ o = 4 + q /\ o \in Nat /\ o + 4 \in Nat
    BY <1>2
  <2>2. Has(b, o, parts[i])
    BY <1>7, <2>1
  <2>. HIDE DEF q, o
  <2>3. Has(b, o, head(i)) /\ Has(b, o + 4, word(i))
    <3>1. Len(b) \in Nat
      BY <1>2, <1>7
    <3>2. /\ head(i) \in Seq(Byte) /\ Len(head(i)) = 4
          /\ word(i) \in Seq(Byte) /\ parts[i] = head(i) \o word(i)
      BY <1>4
    <3>3. Has(b, o, head(i) \o word(i))
      BY <2>2, <3>2, Zenon
    <3>. QED BY <2>1, <3>1, <3>2, <3>3, PartsThere, Zenon
  <2>4. b[o + 3] = c.acks[i].channel /\ b[o + 4] = c.acks[i].region
    <3>1. 3 \in 1 .. 4 /\ 4 \in 1 .. 4
      OBVIOUS
    <3>2. \A j \in 1 .. 4 : b[o + j] = head(i)[j]
      BY <1>4, <2>3 DEF Has
    <3>. QED BY <1>4, <3>1, <3>2
  <2>5. c.acks[i] \in [channel : Byte, region : Byte, space : Fitting(2)]
    BY <1>2
  <2>6. Number(b, o + 4, 4) = c.acks[i].space
    BY <2>1, <2>3, <2>5, FourBytes DEF word
  <2>7. c.acks[i] =
          [channel |-> c.acks[i].channel, region |-> c.acks[i].region, space |-> c.acks[i].space]
    BY <2>5
  <2>8. [channel |-> b[o + 3], region |-> b[o + 4], space |-> Number(b, o + 4, 4)] = c.acks[i]
    BY <2>4, <2>6, <2>7
  <2>. QED BY <2>8, Zenon DEF o, q
<1>11. HostDataReadFrom(b, 2) = c
  <2>. DEFINE back(i) == LET o == 2 + 2 + (i - 1) * 8
                         IN  [channel |-> b[o + 3], region |-> b[o + 4],
                              space |-> Number(b, o + 4, 4)]
  <2>1. HostDataReadFrom(b, 2) = HostDataRead(b[2 + 2], [i \in 1 .. (b[2 + 1] % 8) |-> back(i)])
    BY Zenon DEF HostDataReadFrom
  <2>2. \A i \in 1 .. N : back(i) = c.acks[i]
    BY <1>10, Zenon
  <2>. HIDE DEF back, N
  <2>3. [i \in 1 .. N |-> back(i)] = [i \in 1 .. N |-> c.acks[i]]
    BY <2>2
  <2>4. [i \in 1 .. N |-> c.acks[i]] = c.acks
    BY <1>1 DEF N
  <2>. QED BY <1>1, <1>8, <1>9, <2>1, <2>3, <2>4
<1>12. CommandFrom(b, 0) = HostDataReadFrom(b, 2)
  <2>1. Enough(b, 2 + 2) /\ Enough(b, 2 + (2 + (b[2 + 1] % 8) * 8))
    <3>. HIDE DEF N
    <3>. QED BY <1>2, <1>7, <1>9 DEF Enough
  <2>. QED BY <1>7, <2>1, CommandsRead, Zenon
<1>. QED BY <1>3, <1>7, <1>11, <1>12

\* A request to read data from buffers.
LEMMA RequestReadDataBack ==
  ASSUME NEW c \in RequestReadDataMessages, c.x = c.y, Len(c.requests) \in 1 .. 7,
         \A i \in 1 .. Len(c.requests) : c.requests[i].start = c.requests[1].start
  PROVE  ReceiveEIEIO(CommandBytes(c)) = c
<1>. DEFINE N == Len(c.requests)
            Request == [channel : Byte, region : Byte, start : Fitting(2), space : Fitting(2)]
            f == <<c.x, c.y>>
            z == c.p * 8 + N
            A(i) == IF i = 1 THEN <<z, c.sequence>> ELSE <<0, 0>>
            B(i) == <<c.requests[i].channel, c.requests[i].region>>
            C == Bytes(c.requests[1].start, 4)
            D(i) == Bytes(c.requests[i].space, 4)
            parts == [i \in 1 .. N |-> A(i) \o B(i) \o C \o D(i)]
            b == CommandHeaderBytes(SPINNAKER_REQUEST_READ_DATA) \o (f \o Joined(parts))
<1>1. /\ c = SpinnakerRequestReadData(c.x, c.y, c.p, c.sequence, c.requests)
      /\ c.command = SPINNAKER_REQUEST_READ_DATA /\ c.sequence \in Byte
       /\ c.x \in Byte /\ c.y \in Byte
      /\ c.p \in 0 .. 31 /\ c.requests \in Seq(Request)
  BY DEF RequestReadDataMessages, SpinnakerRequestReadData
<1>2. N \in 1 .. 7 /\ N \in Nat /\ 1 \in 1 .. N
  <2>1. N \in 1 .. 7
    OBVIOUS
  <2>. HIDE DEF N
  <2>. QED BY <2>1
<1>3. z \in Byte /\ z % 8 = N /\ z \div 8 = c.p
  <2>. HIDE DEF N
  <2>. DEFINE p == c.p
  <2>1. p \in 0 .. 31 /\ z = p * 8 + N
    BY <1>1
  <2>. HIDE DEF p, z
  <2>2. z \in Nat /\ z < 256 /\ z = 8 * p + N /\ p \in Nat /\ N < 8 /\ 8 \in Nat /\ 8 > 0
    BY <1>2, <2>1
  <2>3. z \div 8 = p /\ z % 8 = N
    BY <1>2, <2>2, DivIs
  <2>4. z \in Byte
    BY <2>2, AByte, Zenon
  <2>. QED BY <2>3, <2>4 DEF p
<1>4. \A i \in 1 .. N : c.requests[i] \in Request /\ c.requests[i].start = c.requests[1].start
  BY <1>1, ElementOfSeq
<1>5. CommandBytes(c) = b
  <2>1. CommandBytes(c) = CommandHeaderBytes(SPINNAKER_REQUEST_READ_DATA) \o RequestReadDataBytes(c)
    BY <1>1, CommandsWritten, Zenon
  <2>2. RequestReadDataBytes(c) = f \o Joined(parts)
    BY Zenon DEF RequestReadDataBytes
  <2>. QED BY <2>1, <2>2, Zenon
<1>. HIDE DEF N, z, Request
<1>6. \A i \in 1 .. N : c.requests[i].channel \in Byte /\ c.requests[i].region \in Byte
                        /\ c.requests[i].start \in Fitting(2) /\ c.requests[i].space \in Fitting(2)
  BY <1>4 DEF Request
<1>7. C \in Seq(Byte) /\ Len(C) = 4
  BY <1>2, <1>6, FourBytes
<1>8. ASSUME NEW i \in 1 .. N
      PROVE  /\ A(i) \in Seq(Byte) /\ Len(A(i)) = 2 /\ B(i) \in Seq(Byte) /\ Len(B(i)) = 2
             /\ D(i) \in Seq(Byte) /\ Len(D(i)) = 4
  <2>1. 0 \in Byte
    BY DEF Byte
  <2>2. A(i) \in Seq(Byte) /\ Len(A(i)) = 2
    BY <1>1, <1>3, <2>1
  <2>3. B(i) \in Seq(Byte) /\ Len(B(i)) = 2
    BY <1>6, Pair
  <2>4. D(i) \in Seq(Byte) /\ Len(D(i)) = 4
    BY <1>6, FourBytes
  <2>. QED BY <2>2, <2>3, <2>4
<1>9. f \in Seq(Byte) /\ Len(f) = 2
  BY <1>1, Pair
<1>10. Len(parts) = N /\ \A i \in 1 .. N : parts[i] = A(i) \o B(i) \o C \o D(i)
  <2>. HIDE DEF A, B, C, D
  <2>. QED BY <1>2
<1>11. \A i \in 1 .. N : parts[i] \in Seq(Byte) /\ Len(parts[i]) = 12
  <2>. SUFFICES ASSUME NEW i \in 1 .. N PROVE parts[i] \in Seq(Byte) /\ Len(parts[i]) = 12
    OBVIOUS
  <2>. DEFINE a == A(i)
              h == B(i)
              d == D(i)
  <2>1. /\ a \in Seq(Byte) /\ Len(a) = 2 /\ h \in Seq(Byte) /\ Len(h) = 2
        /\ d \in Seq(Byte) /\ Len(d) = 4
    BY <1>8
  <2>2. parts[i] = a \o h \o C \o d
    BY <1>10
  <2>. HIDE DEF a, h, d, C, parts
  <2>3. a \o h \o C \o d \in Seq(Byte) /\ Len(a \o h \o C \o d) = 12
    BY <1>7, <2>1, FourParts, Zenon
  <2>. QED BY <2>2, <2>3, Zenon
<1>12. /\ ReceiveEIEIO(b) = CommandFrom(b, 0) /\ CommandHeaderFrom(b, 0) =
            SPINNAKER_REQUEST_READ_DATA
       /\ b \in Seq(Byte) /\ Len(b) = 4 + N * 12 /\ Has(b, 2, f)
       /\ \A j \in 1 .. N : Has(b, 4 + (j - 1) * 12, parts[j])
  <2>1. SPINNAKER_REQUEST_READ_DATA \in Special /\ 12 \in Nat
    BY DEF Special
  <2>2. b = CommandHeaderBytes(SPINNAKER_REQUEST_READ_DATA) \o (f \o Joined(parts))
    OBVIOUS
  <2>. HIDE DEF f, b, parts
  <2>3. IsCommandOfParts(b, SPINNAKER_REQUEST_READ_DATA, f, parts, N, 12)
    BY <1>2, <1>9, <1>10, <1>11, <2>1, <2>2 DEF IsCommandOfParts
  <2>. QED BY <2>3, PartsOfCommand, Zenon
<1>. HIDE DEF b, parts, C
<1>13. ASSUME NEW i \in 1 .. N
       PROVE  LET q == (i - 1) * 12
              IN  /\ q \in Nat /\ Has(b, 4 + q, A(i)) /\ Has(b, (4 + q) + 2, B(i))
                  /\ Has(b, (4 + q) + 4, C) /\ Has(b, (4 + q) + 8, D(i))
  <2>. DEFINE q == (i - 1) * 12
              a == A(i)
              h == B(i)
              d == D(i)
  <2>1. /\ a \in Seq(Byte) /\ Len(a) = 2 /\ h \in Seq(Byte) /\ Len(h) = 2
        /\ d \in Seq(Byte) /\ Len(d) = 4
    BY <1>8
  <2>2. parts[i] = a \o h \o C \o d
    BY <1>10
  <2>3. q \in Nat /\ 4 + q \in Nat /\ Len(b) \in Nat
    BY <1>2, <1>12
  <2>4. Has(b, 4 + q, parts[i])
    BY <1>12
  <2>. HIDE DEF a, h, d, q
  <2>5. Has(b, 4 + q, a \o h \o C \o d)
    BY <2>2, <2>4, Zenon
  <2>6. /\ Has(b, 4 + q, a) /\ Has(b, (4 + q) + 2, h)
        /\ Has(b, (4 + q) + 4, C) /\ Has(b, (4 + q) + 8, d)
    <3>1. \A bytes : \A at \in Nat : Len(bytes) \in Nat /\ Has(bytes, at, a \o h \o C \o d) =>
            /\ Has(bytes, at, a) /\ Has(bytes, at + 2, h)
            /\ Has(bytes, at + 4, C) /\ Has(bytes, at + 8, d)
      BY <1>7, <2>1, FourParts, Zenon
    <3>. QED BY <2>3, <2>5, <3>1, Zenon
  <2>. QED BY <2>3, <2>6, Zenon DEF q, a, h, d
<1>14. b[2 + 1] = c.x /\ b[2 + 2] = c.y
  <2>1. 2 \in Nat
    OBVIOUS
  <2>. QED BY <1>1, <1>12, <2>1, Pair
<1>15. b[2 + 3] = z /\ b[2 + 4] = c.sequence
  <2>. DEFINE q == (1 - 1) * 12
  <2>1. q = 0 /\ 4 \in Nat /\ 4 + 0 = 4 /\ 4 + 1 = 2 + 3 /\ 4 + 2 = 2 + 4
    OBVIOUS
  <2>2. Has(b, 4 + q, A(1))
    BY <1>2, <1>13
  <2>3. A(1) = <<z, c.sequence>>
    OBVIOUS
  <2>. HIDE DEF q, A
  <2>4. Has(b, 4, <<z, c.sequence>>)
    BY <2>1, <2>2, <2>3
  <2>5. b[4 + 1] = z /\ b[4 + 2] = c.sequence
    BY <1>1, <1>3, <2>1, <2>4, Pair
  <2>. QED BY <2>1, <2>5
<1>16. ASSUME NEW i \in 1 .. N
       PROVE  LET o == 2 + 4 + (i - 1) * 12
              IN  [channel |-> b[o + 1], region |-> b[o + 2],
                   start |-> Number(b, o + 2, 4), space |-> Number(b, o + 6, 4)] = c.requests[i]
  <2>. DEFINE q == (i - 1) * 12
              o == 2 + 4 + q
  <2>1. /\ q \in Nat /\ Has(b, (4 + q) + 2, B(i)) /\ Has(b, (4 + q) + 4, C)
        /\ Has(b, (4 + q) + 8, D(i))
    BY <1>13
  <2>2. /\ o \in Nat /\ (4 + q) + 2 = o /\ (4 + q) + 4 = o + 2 /\ (4 + q) + 8 = o + 6
        /\ o + 2 \in Nat /\ o + 6 \in Nat
    BY <2>1
  <2>. HIDE DEF o, q
  <2>3. Has(b, o, B(i)) /\ Has(b, o + 2, C) /\ Has(b, o + 6, D(i))
    BY <2>1, <2>2, Zenon
  <2>4. b[o + 1] = c.requests[i].channel /\ b[o + 2] = c.requests[i].region
    BY <1>6, <2>2, <2>3, Pair
  <2>5. Number(b, o + 2, 4) = c.requests[i].start
    <3>1. Number(b, o + 2, 4) = c.requests[1].start
      BY <1>2, <1>6, <2>2, <2>3, FourBytes DEF C
    <3>. QED BY <1>4, <3>1
  <2>6. Number(b, o + 6, 4) = c.requests[i].space
    BY <1>6, <2>2, <2>3, FourBytes
  <2>7. c.requests[i] = [channel |-> c.requests[i].channel, region |-> c.requests[i].region,
                         start |-> c.requests[i].start, space |-> c.requests[i].space]
    BY <1>4 DEF Request
  <2>8. [channel |-> b[o + 1], region |-> b[o + 2],
         start |-> Number(b, o + 2, 4), space |-> Number(b, o + 6, 4)] = c.requests[i]
    BY <2>4, <2>5, <2>6, <2>7
  <2>. QED BY <2>8, Zenon DEF o, q
<1>17. RequestReadDataFrom(b, 2) = c
  <2>. DEFINE back(i) == LET o == 2 + 4 + (i - 1) * 12
                         IN  [channel |-> b[o + 1], region |-> b[o + 2],
                              start |-> Number(b, o + 2, 4), space |-> Number(b, o + 6, 4)]
  <2>1. RequestReadDataFrom(b, 2) =
          SpinnakerRequestReadData(b[2 + 2], b[2 + 1], b[2 + 3] \div 8, b[2 + 4],
                                   [i \in 1 .. (b[2 + 3] % 8) |-> back(i)])
    BY Zenon DEF RequestReadDataFrom
  <2>2. \A i \in 1 .. N : back(i) = c.requests[i]
    BY <1>16, Zenon
  <2>. HIDE DEF back
  <2>3. [i \in 1 .. N |-> back(i)] = [i \in 1 .. N |-> c.requests[i]]
    BY <2>2
  <2>4. [i \in 1 .. N |-> c.requests[i]] = c.requests
    BY <1>1 DEF N
  <2>. QED BY <1>1, <1>3, <1>14, <1>15, <2>1, <2>3, <2>4
<1>18. CommandFrom(b, 0) = RequestReadDataFrom(b, 2)
  <2>. DEFINE m == b[2 + 3] % 8
              size == 4 + m * 12 - (IF m = 0 THEN 0 ELSE 2)
  <2>1. m = N
    BY <1>3, <1>15
  <2>2. Enough(b, 2 + 4) /\ Enough(b, 2 + size)
    <3>. HIDE DEF m
    <3>. QED BY <1>2, <1>12, <2>1 DEF Enough
  <2>. QED BY <1>12, <2>2, CommandsRead, Zenon
<1>. QED BY <1>5, <1>12, <1>17, <1>18

\* A command is read as it was sent, with all its fields (the bytestring and
\* from_bytestring of each command, read_eieio_command_message).
THEOREM CommandIsReadBack ==
  ASSUME NEW c, CommandReadsBack(c)
  PROVE  ReceiveEIEIO(CommandBytes(c)) = c
<1>1. CASE c \in {PaddingRequest, EventStopRequest, StopRequests, StartRequests}
  BY <1>1, BareReadBack
     DEF PaddingRequest, EventStopRequest, StopRequests, StartRequests, Bare
<1>2. CASE c = NotificationProtocolDatabaseLocation(<<>>)
  BY <1>2, DatabaseReadBack
<1>3. CASE c \in {NotificationProtocolPauseStop, NotificationProtocolStartResume}
  <2>1. <<>> \in Seq(Byte)
    OBVIOUS
  <2>. QED BY <1>3, <2>1, OtherReadBack, CommandNumbers
           DEF NotificationProtocolPauseStop, NotificationProtocolStartResume, Other
<1>4. ASSUME NEW sequence \in Byte, c = HostDataReadAck(sequence)
      PROVE  ReceiveEIEIO(CommandBytes(c)) = c
  <2>1. <<sequence>> \in Seq(Byte)
    OBVIOUS
  <2>. QED BY <1>4, <2>1, OtherReadBack DEF HostDataReadAck, Other
<1>. QED BY <1>1, <1>2, <1>3, <1>4, RequestBuffersReadBack, RequestReadDataBack, HostDataReadBack
         DEF CommandReadsBack

-----------------------------------------------------------------------------
(* SDP messages                                                            *)

\* The header of an SDP message that is sent: the sender's fields are filled in.
Filled(h, x, y) ==
  [flags |-> h.flags, tag |-> 255, destination_port |-> h.destination_port,
   destination_cpu |-> h.destination_cpu, destination_chip_x |-> h.destination_chip_x,
   destination_chip_y |-> h.destination_chip_y, source_port |-> 7, source_cpu |-> 31,
   source_chip_x |-> x, source_chip_y |-> y]

\* update_for_send fills in the sender and nothing else.
LEMMA FilledIn ==
  ASSUME NEW f, NEW p, NEW u, NEW dx, NEW dy, NEW x, NEW y
  PROVE  UpdateForSend(SDPHeader(f, p, u, dx, dy), x, y) = Filled(SDPHeader(f, p, u, dx, dy), x, y)
<1>. DEFINE R(t, sp, su, sx, sy) ==
              [flags |-> f, tag |-> t, destination_port |-> p, destination_cpu |-> u,
               destination_chip_x |-> dx, destination_chip_y |-> dy, source_port |-> sp,
               source_cpu |-> su, source_chip_x |-> sx, source_chip_y |-> sy]
            n == NoneSet
            h == R(n, n, n, n, n)
<1>1. SDPHeader(f, p, u, dx, dy) = h
  BY DEF SDPHeader
<1>2. UpdateForSend(h, x, y) =
        [[[[[h EXCEPT !.tag = 255] EXCEPT !.source_port = 7] EXCEPT !.source_cpu = 31]
            EXCEPT !.source_chip_x = x] EXCEPT !.source_chip_y = y]
  <2>. HIDE DEF h
  <2>. QED BY DEF UpdateForSend
<1>3. \A w, t, sp, su, sx, sy, v :
         w = R(t, sp, su, sx, sy) => [w EXCEPT !.tag = v] = R(v, sp, su, sx, sy)
  OBVIOUS
<1>3a. \A w, t, sp, su, sx, sy, v :
         w = R(t, sp, su, sx, sy) => [w EXCEPT !.source_port = v] = R(t, v, su, sx, sy)
  OBVIOUS
<1>3b. \A w, t, sp, su, sx, sy, v :
         w = R(t, sp, su, sx, sy) => [w EXCEPT !.source_cpu = v] = R(t, sp, v, sx, sy)
  OBVIOUS
<1>3c. \A w, t, sp, su, sx, sy, v :
         w = R(t, sp, su, sx, sy) => [w EXCEPT !.source_chip_x = v] = R(t, sp, su, v, sy)
  OBVIOUS
<1>3d. \A w, t, sp, su, sx, sy, v :
         w = R(t, sp, su, sx, sy) => [w EXCEPT !.source_chip_y = v] = R(t, sp, su, sx, v)
  OBVIOUS
<1>4. UpdateForSend(h, x, y) = R(255, 7, 31, x, y)
  <2>. DEFINE h1 == [h EXCEPT !.tag = 255]
              h2 == [h1 EXCEPT !.source_port = 7]
              h3 == [h2 EXCEPT !.source_cpu = 31]
              h4 == [h3 EXCEPT !.source_chip_x = x]
              h5 == [h4 EXCEPT !.source_chip_y = y]
  <2>0. UpdateForSend(h, x, y) = h5 /\ h = R(n, n, n, n, n)
    BY <1>2, Zenon
  <2>. HIDE DEF R, n, h
  <2>1. h1 = R(255, n, n, n, n)
    BY <1>3, <2>0
  <2>. HIDE DEF h1
  <2>2. h2 = R(255, 7, n, n, n)
    BY <1>3a, <2>1
  <2>. HIDE DEF h2
  <2>3. h3 = R(255, 7, 31, n, n)
    BY <1>3b, <2>2
  <2>. HIDE DEF h3
  <2>4. h4 = R(255, 7, 31, x, n)
    BY <1>3c, <2>3
  <2>. HIDE DEF h4
  <2>5. h5 = R(255, 7, 31, x, y)
    BY <1>3d, <2>4
  <2>. HIDE DEF h5
  <2>. QED BY <2>0, <2>5
<1>5. Filled(h, x, y) = R(255, 7, 31, x, y)
  BY DEF Filled
<1>. HIDE DEF h, R
<1>. QED BY <1>1, <1>4, <1>5

\* A port and a core in one byte.
LEMMA PortAndCore ==
  ASSUME NEW p \in 0 .. 7, NEW u \in 0 .. 31
  PROVE  LET v == (p % 8) * 32 + (u % 32)
         IN  v \in Byte /\ v \div 32 = p /\ v % 32 = u
<1>. DEFINE v == (p % 8) * 32 + (u % 32)
<1>1. p % 8 = p /\ u % 32 = u
  OBVIOUS
<1>2. v = 32 * p + u
  BY <1>1
<1>. HIDE DEF v
<1>3. v \in Nat /\ v < 256 /\ p \in Nat /\ u \in Nat /\ u < 32 /\ 32 \in Nat /\ 32 > 0
  BY <1>2
<1>4. v \div 32 = p /\ v % 32 = u
  BY <1>2, <1>3, DivIs
<1>5. v \in Byte
  BY <1>3 DEF Byte
<1>. QED BY <1>4, <1>5 DEF v

\* An SDP message is read with where it goes and with its data (SDPHeader,
\* SDPConnection.send_sdp_message and receive_sdp_message).
THEOREM SDPIsReadBack ==
  ASSUME NEW m, NEW chip, SDPReadsBack(m, chip)
  PROVE  LET r == ReceiveSDP(SDPBytes(m, chip))
         IN  r # Raised /\ r.kind = "sdp" /\ SameSDP(m, r)
<1>. DEFINE h == m.header
            sx == IF h.flags = REPLY_EXPECTED THEN chip[1] ELSE 0
            sy == IF h.flags = REPLY_EXPECTED THEN chip[2] ELSE 0
            g == Filled(h, sx, sy)
            pc2 == (h.destination_port % 8) * 32 + (h.destination_cpu % 32)
            sc == (7 % 8) * 32 + (31 % 32)
            hb == <<h.flags, 255, pc2, sc, h.destination_chip_y, h.destination_chip_x, sy, sx>>
            z == <<0, 0>>
            d == SubSeq(m.data, m.offset + 1, Len(m.data))
            b == z \o (hb \o d)
<1>1. /\ h.flags \in SDPFlag /\ h.destination_port \in 0 .. 7 /\ h.destination_cpu \in 0 .. 31
      /\ h.destination_chip_x \in Byte /\ h.destination_chip_y \in Byte
      /\ h = SDPHeader(h.flags, h.destination_port, h.destination_cpu,
                       h.destination_chip_x, h.destination_chip_y)
      /\ m.data \in Seq(Byte) /\ m.offset \in 0 .. Len(m.data)
      /\ m = [header |-> h, data |-> m.data, offset |-> m.offset]
      /\ chip \in Byte \X Byte
  BY Zenon DEF SDPReadsBack
<1>2. SDPBytes(m, chip) = b
  <2>. DEFINE k == IF h.flags = REPLY_EXPECTED THEN UpdateForSend(h, chip[1], chip[2])
                   ELSE UpdateForSend(h, 0, 0)
  <2>1. \A x, y : UpdateForSend(h, x, y) = Filled(h, x, y)
    <3>. DEFINE f == h.flags
                p == h.destination_port
                u == h.destination_cpu
                dx == h.destination_chip_x
                dy == h.destination_chip_y
    <3>1. h = SDPHeader(f, p, u, dx, dy)
      BY <1>1
    <3>. HIDE DEF f, p, u, dx, dy, h
    <3>2. \A x, y : UpdateForSend(SDPHeader(f, p, u, dx, dy), x, y) =
                   Filled(SDPHeader(f, p, u, dx, dy), x, y)
      BY FilledIn
    <3>. QED BY <3>1, <3>2
  <2>2. k = g
    <3>1. CASE h.flags = REPLY_EXPECTED
      BY <2>1, <3>1
    <3>2. CASE h.flags # REPLY_EXPECTED
      BY <2>1, <3>2
    <3>. QED BY <3>1, <3>2
  <2>. DEFINE q == [m EXCEPT !.header = k]
  <2>3. SDPBytes(m, chip) = z \o SDPMessageBytes(q)
    BY Zenon DEF SDPBytes
  <2>4. \A x, e, data, offset, v : x = [header |-> e, data |-> data, offset |-> offset] =>
          [x EXCEPT !.header = v] = [header |-> v, data |-> data, offset |-> offset]
    OBVIOUS
  <2>. HIDE DEF k
  <2>5. q = [header |-> k, data |-> m.data, offset |-> m.offset]
    <3>. DEFINE e == m.data
                o == m.offset
    <3>1. m = [header |-> h, data |-> e, offset |-> o]
      BY <1>1
    <3>. HIDE DEF h, e, o
    <3>2. [m EXCEPT !.header = k] = [header |-> k, data |-> e, offset |-> o]
      BY <2>4, <3>1
    <3>. QED BY <3>2 DEF e, o
  <2>6. q.header = g /\ q.data = m.data /\ q.offset = m.offset
    <3>. HIDE DEF g, q
    <3>. QED BY <2>2, <2>5
  <2>. HIDE DEF q
  <2>7. SDPMessageBytes(q) = HeaderBytes(g) \o d
    BY <2>6, Zenon DEF SDPMessageBytes
  <2>8. HeaderBytes(g) = hb
    BY DEF HeaderBytes, Filled
  <2>. HIDE DEF g, hb, d, z
  <2>9. SDPMessageBytes(q) = hb \o d
    BY <2>7, <2>8, Zenon
  <2>. QED BY <2>3, <2>9, Zenon
<1>3. /\ pc2 \in Byte /\ pc2 \div 32 = h.destination_port /\ pc2 % 32 = h.destination_cpu
      /\ sc \in Byte
  <2>1. 7 \in 0 .. 7 /\ 31 \in 0 .. 31
    OBVIOUS
  <2>. QED BY <1>1, <2>1, PortAndCore, Zenon
<1>4. hb \in Seq(Byte) /\ Len(hb) = 8 /\ z \in Seq(Byte) /\ Len(z) = 2
  <2>1. 255 \in Byte /\ 0 \in Byte /\ h.flags \in Byte
    <3>1. 255 \in Byte /\ 0 \in Byte /\ \A v \in SDPFlag : v \in Byte
      BY SMT DEF SDPFlag, REPLY_EXPECTED, REPLY_NOT_EXPECTED, Byte
    <3>. QED BY <1>1, <3>1, Zenon
  <2>2. sx \in Byte /\ sy \in Byte
    BY <1>1, <2>1
  <2>. HIDE DEF pc2, sc, sx, sy, h
  <2>3. <<h.flags, 255, pc2, sc, h.destination_chip_y, h.destination_chip_x, sy, sx>> \in Seq(Byte)
    BY <1>1, <1>3, <2>1, <2>2
  <2>. QED BY <2>1, <2>3
<1>5. d \in Seq(Byte)
  <2>1. /\ Len(m.data) \in Nat /\ m.offset \in Nat
        /\ \A i \in m.offset + 1 .. Len(m.data) : m.data[i] \in Byte
    BY <1>1, LenProperties, ElementOfSeq
  <2>2. m.offset + 1 \in Int /\ Len(m.data) \in Int
    BY <2>1
  <2>. QED BY <2>1, <2>2, SubSeqProperties, Zenon
<1>6. hb[1] = h.flags /\ hb[3] = pc2 /\ hb[5] = h.destination_chip_y /\ hb[6] = h.destination_chip_x
  OBVIOUS
<1>. HIDE DEF h, sx, sy, pc2, sc, hb, z, d
<1>7. hb \o d \in Seq(Byte) /\ Len(hb \o d) = 8 + Len(d) /\ Len(d) \in Nat /\ Has(hb \o d, 0, hb)
  BY <1>4, <1>5, TwoParts, Zenon
<1>8. /\ b \in Seq(Byte) /\ Len(b) = 2 + Len(hb \o d) /\ Has(b, 2, hb \o d)
  BY <1>4, <1>7, TwoParts, Zenon
<1>9. SubSeq(b, 11, Len(b)) = d
  <2>. DEFINE y == z \o hb
  <2>1. y \in Seq(Byte) /\ Len(y) = 2 + Len(hb)
    BY <1>4, TwoParts, Zenon
  <2>2. b = y \o d
    BY <1>4, <1>5, ConcatAssociative
  <2>. HIDE DEF y, b
  <2>3. Len(y) = 10 /\ 10 \in Nat /\ 10 + 1 = 11
    BY <1>4, <2>1
  <2>4. SubSeq(y \o d, 10 + 1, Len(y \o d)) = d
    BY <1>5, <2>1, <2>3, RestOf, Zenon
  <2>. QED BY <2>2, <2>3, <2>4
<1>. HIDE DEF b
<1>10. Len(b) >= 10 /\ Len(b) \in Nat
  BY <1>7, <1>8
<1>11. Has(b, 2, hb)
  <2>1. 2 \in Nat
    OBVIOUS
  <2>. QED BY <1>4, <1>5, <1>8, <1>10, <2>1, PartsThere, Zenon
<1>12. /\ b[2 + 1] = h.flags /\ b[2 + 3] = pc2 /\ b[2 + 5] = h.destination_chip_y
       /\ b[2 + 6] = h.destination_chip_x
  <2>1. \A i \in 1 .. 8 : b[2 + i] = hb[i]
    BY <1>4, <1>11 DEF Has
  <2>. QED BY <1>6, <2>1
<1>. DEFINE r == ReceiveSDP(b)
<1>13. r = [kind |-> "sdp", header |-> HeaderFrom(b, 2), data |-> b, offset |-> 10]
  <2>1. Enough(b, 10) /\ b[3] \in SDPFlag
    <3>1. 2 + 1 = 3
      OBVIOUS
    <3>. QED BY <1>1, <1>10, <1>12, <3>1 DEF Enough
  <2>. QED BY <2>1 DEF ReceiveSDP, SDPMessageFrom
<1>14. r # Raised
  <2>1. r.kind = "sdp" /\ Raised.kind = "raised"
    BY <1>13 DEF Raised
  <2>. HIDE DEF r
  <2>. QED BY <2>1
<1>15. SameSDP(m, r)
  <2>. DEFINE e == HeaderFrom(b, 2)
  <2>1. /\ e.flags = h.flags /\ e.destination_port = h.destination_port
        /\ e.destination_cpu = h.destination_cpu /\ e.destination_chip_x = h.destination_chip_x
        /\ e.destination_chip_y = h.destination_chip_y
    BY <1>3, <1>12 DEF HeaderFrom
  <2>2. r.header = e /\ r.data = b /\ r.offset = 10 /\ 10 + 1 = 11
    BY <1>13
  <2>. HIDE DEF r, e
  <2>3. \A f \in {"flags", "destination_port", "destination_cpu", "destination_chip_x",
                  "destination_chip_y"} : m.header[f] = r.header[f]
    BY <2>1, <2>2 DEF h
  <2>4. SubSeq(r.data, r.offset + 1, Len(r.data)) = d
    BY <1>9, <2>2
  <2>. QED BY <2>3, <2>4, Zenon DEF SameSDP, d
<1>16. r.kind = "sdp"
  BY <1>13
<1>. QED BY <1>2, <1>14, <1>15, <1>16, Zenon

-----------------------------------------------------------------------------
(* What is read of a message                                               *)

\* a message of data that was sent, as bytes, with its header and its elements
IsData(n) == Sent(n).kind = "eieio" /\ Sent(n).message.kind = "data"
DataSent(n) == DataMessageBytes(Sent(n).message.header, Sent(n).message.elements)
HeaderSent(n) == Counting(Sent(n).message.header, Len(Sent(n).message.elements))
ElementsSent(n) == Meant(Sent(n).message)
Size(n) == Len(Sent(n).message.elements)
\* this message of which k elements have been read, and the first elements
Walked(n, k) == Reading(DataSent(n), HeaderSent(n), k)
First(s, k) == [i \in 1 .. k |-> s[i]]

\* A message that was sent can be received, and what is received of it.
LEMMA MessageReceived ==
  ASSUME traffic \in DOMAIN Traffics, arrived \in Seq(DOMAIN Traffics[traffic]),
         NEW n \in 1 .. Len(arrived), IsMessage(n)
  PROVE  /\ Received(n) # Raised
         /\ IsData(n) => DataReadsBack(Sent(n).message) /\ Received(n) = Walked(n, 0)
         /\ ~IsData(n) => \/ Received(n).kind = "command" /\ Received(n) = Sent(n).message
                          \/ Received(n).kind = "sdp" /\ SameSDP(Sent(n).message, Received(n))
<1>. DEFINE i == arrived[n]
            s == Sent(n)
            m == s.message
<1>1. i \in DOMAIN Traffics[traffic]
  BY ElementOfSeq
<1>2. s = Traffics[traffic][i] /\ "message" \in DOMAIN s
  BY DEF Sent, IsMessage
<1>3. /\ "bytes" \notin DOMAIN s
      /\ \/ s.kind = "eieio" /\ m.kind = "data" /\ DataReadsBack(m)
         \/ s.kind = "eieio" /\ m.kind = "command" /\ CommandReadsBack(m)
         \/ s.kind = "sdp" /\ SDPReadsBack(m, s.chip)
  <2>1. LET s0 == Traffics[traffic][i]
        IN  "message" \in DOMAIN s0 =>
              /\ "bytes" \notin DOMAIN s0
              /\ \/ s0.kind = "eieio" /\ s0.message.kind = "data" /\ DataReadsBack(s0.message)
                 \/ s0.kind = "eieio" /\ s0.message.kind = "command" /\ CommandReadsBack(s0.message)
                 \/ s0.kind = "sdp" /\ SDPReadsBack(s0.message, s0.chip)
    BY <1>1, MessageAssumption, Zenon
  <2>. HIDE DEF i
  <2>. QED BY <1>2, <2>1, Zenon DEF m
<1>4. Received(n) = IF s.kind = "eieio" THEN ReceiveEIEIO(BytesOf(s)) ELSE ReceiveSDP(BytesOf(s))
  <2>1. SentBytes[traffic][i] = BytesOf(Traffics[traffic][i])
    BY <1>1 DEF SentBytes
  <2>2. Decoded[traffic][i] =
          IF Traffics[traffic][i].kind = "eieio" THEN ReceiveEIEIO(SentBytes[traffic][i])
          ELSE ReceiveSDP(SentBytes[traffic][i])
    BY <1>1 DEF Decoded
  <2>3. Received(n) = Decoded[traffic][i]
    BY DEF Received
  <2>. HIDE DEF i, s
  <2>. QED BY <1>2, <2>1, <2>2, <2>3
<1>. HIDE DEF i, s
<1>5. s.kind = "eieio" => BytesOf(s) = EIEIOBytes(m)
  BY <1>3, Zenon DEF BytesOf
<1>6. s.kind = "sdp" => BytesOf(s) = SDPBytes(m, s.chip)
  <2>1. "sdp" # "eieio"
    OBVIOUS
  <2>. QED BY <1>3, <2>1, Zenon DEF BytesOf
<1>7. CASE s.kind = "eieio" /\ m.kind = "data" /\ DataReadsBack(m)
  <2>1. m.kind # "command"
    BY <1>7
  <2>2. Received(n) = ReceiveEIEIO(DataMessageBytes(m.header, m.elements))
    BY <1>4, <1>5, <1>7, <2>1, Zenon DEF EIEIOBytes
  <2>3. Received(n) =
          Reading(DataMessageBytes(m.header, m.elements), Counting(m.header, Len(m.elements)), 0)
    BY <1>7, <2>2, DataIsReadBack, Zenon
  <2>4. Received(n).kind = "data" /\ Raised.kind = "raised"
    BY <2>3 DEF Reading, Raised
  <2>5. Received(n) # Raised
    BY <2>4
  <2>6. IsData(n) /\ Received(n) = Walked(n, 0)
    BY <1>7, <2>3, Zenon DEF IsData, Walked, DataSent, HeaderSent, s
  <2>. QED BY <1>7, <2>5, <2>6 DEF s
<1>8. CASE s.kind = "eieio" /\ m.kind = "command" /\ CommandReadsBack(m)
  <2>1. Received(n) = m
    BY <1>4, <1>5, <1>8, CommandIsReadBack, Zenon DEF EIEIOBytes
  <2>2. Received(n).kind = "command" /\ Raised.kind = "raised"
    BY <1>8, <2>1 DEF Raised
  <2>3. Received(n) # Raised /\ ~IsData(n)
    BY <1>8, <2>2 DEF IsData, s
  <2>. QED BY <2>1, <2>2, <2>3 DEF s
<1>9. CASE s.kind = "sdp" /\ SDPReadsBack(m, s.chip)
  <2>1. Received(n) = ReceiveSDP(SDPBytes(m, s.chip))
    BY <1>4, <1>6, <1>9
  <2>2. Received(n) # Raised /\ Received(n).kind = "sdp" /\ SameSDP(m, Received(n))
    BY <1>9, <2>1, SDPIsReadBack, Zenon
  <2>3. ~IsData(n)
    BY <1>9 DEF IsData, s
  <2>. QED BY <2>2, <2>3 DEF s
<1>. QED BY <1>3, <1>7, <1>8, <1>9

\* What a cursor meets on its way through a message of data.
LEMMA CursorMoves ==
  ASSUME NEW n, DataReadsBack(Sent(n).message)
  PROVE  /\ Size(n) \in Nat
         /\ \A k \in 0 .. Size(n) :
              /\ Walked(n, k).kind = "data"
              /\ IsNextElement(Walked(n, k)) => k < Size(n)
              /\ k < Size(n) =>
                   /\ IsNextElement(Walked(n, k)) /\ NextElementReads(Walked(n, k))
                   /\ AfterElement(Walked(n, k)) = Walked(n, k + 1) /\ k + 1 \in 0 .. Size(n)
                   /\ Append(First(ElementsSent(n), k), NextElement(Walked(n, k))) =
                        First(ElementsSent(n), k + 1)
         /\ First(ElementsSent(n), Size(n)) = ElementsSent(n)
<1>. DEFINE m == Sent(n).message
            N == Size(n)
            M == ElementsSent(n)
            b == DataSent(n)
            h == HeaderSent(n)
<1>1. /\ \A r \in 0 .. N - 1 :
           /\ IsNextElement(Reading(b, h, r)) /\ NextElementReads(Reading(b, h, r))
           /\ NextElement(Reading(b, h, r)) = M[r + 1]
           /\ AfterElement(Reading(b, h, r)) = Reading(b, h, r + 1)
      /\ ~IsNextElement(Reading(b, h, N))
      /\ M \in [1 .. N -> {M[i] : i \in 1 .. N}] /\ N \in Nat
  BY DataIsReadBack, Zenon DEF DataSent, HeaderSent, ElementsSent, Size
<1>. HIDE DEF m, N, M, b, h
<1>2. ASSUME NEW k \in 0 .. N
      PROVE  /\ Reading(b, h, k).kind = "data"
             /\ IsNextElement(Reading(b, h, k)) => k < N
             /\ k < N => /\ IsNextElement(Reading(b, h, k)) /\ NextElementReads(Reading(b, h, k))
                         /\ AfterElement(Reading(b, h, k)) = Reading(b, h, k + 1)
                         /\ k + 1 \in 0 .. N
                         /\ Append(First(M, k), NextElement(Reading(b, h, k))) = First(M, k + 1)
  <2>1. Reading(b, h, k).kind = "data"
    BY DEF Reading
  <2>2. k < N => k \in 0 .. N - 1 /\ k + 1 \in 0 .. N
    BY <1>1
  <2>3. ~(k < N) => k = N
    BY <1>1
  <2>4. ASSUME k < N
        PROVE  Append(First(M, k), NextElement(Reading(b, h, k))) = First(M, k + 1)
    <3>. DEFINE S == {M[i] : i \in 1 .. N}
                f == First(M, k)
                x == NextElement(Reading(b, h, k))
                a == Append(f, x)
    <3>1. x = M[k + 1] /\ x \in S /\ k \in Nat
      BY <1>1, <2>2, <2>4
    <3>2. f \in Seq(S) /\ Len(f) = k /\ \A i \in 1 .. k : f[i] = M[i]
      <4>1. \A i \in 1 .. k : M[i] \in S
        BY <1>1
      <4>. HIDE DEF S
      <4>. QED BY <3>1, <4>1 DEF First
    <3>. HIDE DEF S, f, x
    <3>3. a \in Seq(S) /\ Len(a) = k + 1 /\ (\A i \in 1 .. k : a[i] = f[i]) /\ a[k + 1] = x
      BY <3>1, <3>2, AppendFacts
    <3>. HIDE DEF a
    <3>4. \A i \in 1 .. k + 1 : a[i] = M[i]
      <4>1. \A i \in 1 .. k + 1 : i \in 1 .. k \/ i = k + 1
        BY <3>1
      <4>. QED BY <3>1, <3>2, <3>3, <4>1
    <3>5. a = [i \in 1 .. k + 1 |-> a[i]]
      BY <3>3
    <3>6. [i \in 1 .. k + 1 |-> a[i]] = [i \in 1 .. k + 1 |-> M[i]]
      BY <3>4
    <3>. QED BY <3>5, <3>6 DEF First, a, f, x
  <2>. QED BY <1>1, <2>1, <2>2, <2>3, <2>4
<1>3. First(M, N) = M
  BY <1>1 DEF First
<1>. QED BY <1>1, <1>2, <1>3, Zenon DEF Walked, N, M, b, h

-----------------------------------------------------------------------------
(* Where the cursor of a message is                                        *)

\* a callback that reads the elements of data messages, and the task of one for message n
Reader(c) == c \in Readers \ Raising
Reads(t, n) == t.datagram = n /\ Reader(t.callback)

\* No two callbacks read the elements of the same message.
OneReader == \A c, d \in Callback : Reader(c) /\ Reader(d) => c = d

\* k elements of the message have been read: by the callback that reads it, or all
\* by the one that has
Cursor(n, k) ==
  /\ heap[n] = Walked(n, k)
  /\ \A w \in Running : Reads(running[w], n) => running[w].got = First(ElementsSent(n), k)
  /\ \A t \in called : Reads(t, n) => t.got = ElementsSent(n)
  /\ k = 0 \/ (\E w \in Running : Reads(running[w], n)) \/ (\E t \in called : Reads(t, n))

\* The inductive invariant of what is read.
RInv ==
  /\ traffic \in DOMAIN Traffics
  /\ DOMAIN heap = DOMAIN due
  /\ \A n \in DOMAIN heap : IsMessage(n) =>
       IF IsData(n) THEN \E k \in 0 .. Size(n) : Cursor(n, k) ELSE heap[n] = Received(n)

\* What datagram n was stays.
LEMMA SentSteady ==
  ASSUME NEW n, traffic' = traffic, arrived'[n] = arrived[n]
  PROVE  /\ IsMessage(n)' <=> IsMessage(n)
         /\ IsData(n)' <=> IsData(n)
         /\ Sent(n)' = Sent(n) /\ Received(n)' = Received(n)
         /\ ElementsSent(n)' = ElementsSent(n) /\ Size(n)' = Size(n)
         /\ \A k : Walked(n, k)' = Walked(n, k)
<1>1. Sent(n)' = Sent(n)
  BY DEF Sent
<1>2. Received(n)' = Received(n)
  BY DEF Received
<1>3. (IsMessage(n)' <=> IsMessage(n)) /\ (IsData(n)' <=> IsData(n))
  BY <1>1 DEF IsMessage, IsData
<1>4. /\ ElementsSent(n)' = ElementsSent(n) /\ Size(n)' = Size(n)
      /\ DataSent(n)' = DataSent(n) /\ HeaderSent(n)' = HeaderSent(n)
  BY <1>1 DEF ElementsSent, Size, DataSent, HeaderSent
<1>5. \A k : Walked(n, k)' = Walked(n, k)
  BY <1>4 DEF Walked
<1>. QED BY <1>1, <1>2, <1>3, <1>4, <1>5

\* The cursor of a message stays as long as nobody begins, goes on or ends reading it.
LEMMA CursorSteady ==
  ASSUME NEW n, NEW k, traffic' = traffic, arrived'[n] = arrived[n],
         heap'[n] = heap[n],
         \A w \in Running' : Reads(running'[w], n) => w \in Running /\ running'[w] = running[w],
         \A w \in Running : Reads(running[w], n) => w \in Running' /\ running'[w] = running[w],
         \A t \in called' : Reads(t, n) => t \in called,
         called \subseteq called',
         Cursor(n, k)
  PROVE  Cursor(n, k)'
<1>1. /\ ElementsSent(n)' = ElementsSent(n) /\ Walked(n, k)' = Walked(n, k)
  BY SentSteady
<1>2. First(ElementsSent(n), k)' = First(ElementsSent(n), k)
  BY <1>1 DEF First
<1>3. heap'[n] = Walked(n, k)'
  BY <1>1 DEF Cursor
<1>4. \A w \in Running' : Reads(running'[w], n) => running'[w].got = First(ElementsSent(n), k)
  BY DEF Cursor
<1>5. \A t \in called' : Reads(t, n) => t.got = ElementsSent(n)
  BY DEF Cursor
<1>6. k = 0 \/ (\E w \in Running' : Reads(running'[w], n)) \/ (\E t \in called' : Reads(t, n))
  BY DEF Cursor
<1>. QED BY <1>1, <1>2, <1>3, <1>4, <1>5, <1>6 DEF Cursor, Reads

\* Two tasks that read the same message are one.
LEMMA OneTask ==
  ASSUME IInv, OneReader, NEW n, NEW s, NEW t, Reads(s, n), Reads(t, n),
         TaskOf(s) \in Handed, TaskOf(t) \in Handed
  PROVE  TaskOf(s) = TaskOf(t)
<1>1. \A x \in Handed : x[1] \in Callback
  <2>1. callbacks \in Seq(Callback)
    BY DEF IInv, Types
  <2>. QED BY <2>1 DEF IInv, Turns
<1>2. s.callback \in Callback /\ t.callback \in Callback
  BY <1>1 DEF TaskOf
<1>. QED BY <1>2 DEF OneReader, Reads, TaskOf

\* Whoever reads a message is the only one, and nobody has read it before.
LEMMA Alone ==
  ASSUME IInv, OneReader, NEW n
  PROVE  /\ \A w \in Running : Reads(running[w], n) =>
              /\ \A v \in Running : Reads(running[v], n) => v = w
              /\ \A t \in called : ~Reads(t, n)
         /\ \A r : TaskOf(r) \in Tasks /\ Reads(r, n) =>
              /\ \A v \in Running : ~Reads(running[v], n)
              /\ \A t \in called : ~Reads(t, n)
<1>1. /\ \A w \in Running : TaskOf(running[w]) \in Now /\ TaskOf(running[w]) \in Handed
      /\ \A t \in called : TaskOf(t) \in Called /\ TaskOf(t) \in Handed
      /\ Tasks \subseteq Handed
  BY DEF Now, Called, Handed
<1>2. /\ \A v, w \in Running : TaskOf(running[v]) = TaskOf(running[w]) => v = w
      /\ Tasks \cap Now = {} /\ (Tasks \cup Now) \cap Called = {}
  BY DEF IInv, Once
<1>3. \A s, t : Reads(s, n) /\ Reads(t, n) /\ TaskOf(s) \in Handed /\ TaskOf(t) \in Handed
                  => TaskOf(s) = TaskOf(t)
  BY OneTask
<1>4. ASSUME NEW w \in Running, Reads(running[w], n)
      PROVE  /\ \A v \in Running : Reads(running[v], n) => v = w
             /\ \A t \in called : ~Reads(t, n)
  <2>1. ASSUME NEW v \in Running, Reads(running[v], n) PROVE v = w
    BY <1>1, <1>2, <1>3, <1>4, <2>1
  <2>2. ASSUME NEW t \in called, Reads(t, n) PROVE FALSE
    <3>1. TaskOf(t) = TaskOf(running[w])
      BY <1>1, <1>3, <1>4, <2>2
    <3>. QED BY <1>1, <1>2, <3>1
  <2>. QED BY <2>1, <2>2
<1>5. ASSUME NEW r, TaskOf(r) \in Tasks, Reads(r, n)
      PROVE  /\ \A v \in Running : ~Reads(running[v], n)
             /\ \A t \in called : ~Reads(t, n)
  <2>1. ASSUME NEW v \in Running, Reads(running[v], n) PROVE FALSE
    <3>1. TaskOf(r) = TaskOf(running[v])
      BY <1>1, <1>3, <1>5, <2>1
    <3>. QED BY <1>1, <1>2, <1>5, <3>1
  <2>2. ASSUME NEW t \in called, Reads(t, n) PROVE FALSE
    <3>1. TaskOf(r) = TaskOf(t)
      BY <1>1, <1>3, <1>5, <2>2
    <3>. QED BY <1>1, <1>2, <1>5, <3>1
  <2>. QED BY <2>1, <2>2
<1>. QED BY <1>4, <1>5

\* Data messages that were sent can be walked through.
LEMMA IsDataReadsBack ==
  ASSUME IInv, RInv, NEW n \in DOMAIN heap, IsMessage(n)
  PROVE  n \in 1 .. Len(arrived) /\ (IsData(n) => DataReadsBack(Sent(n).message))
<1>1. n \in 1 .. Len(arrived)
  BY DEF IInv, Numbered, RInv
<1>. QED BY <1>1, MessageReceived DEF IInv, Types, RInv

-----------------------------------------------------------------------------
(* The steps, again                                                        *)

\* Initially nothing has been received.
LEMMA InitRInv == Init => RInv
<1>1. DOMAIN <<>> = {}
  OBVIOUS
<1>. QED BY <1>1 DEF Init, RInv

\* A step that touches no message that was received, and no task.
LEMMA ReadingSteady ==
  ASSUME IInv, RInv, UNCHANGED <<traffic, heap, due, running, called>>,
         \A n \in 1 .. Len(arrived) : arrived'[n] = arrived[n]
  PROVE  RInv'
<1>1. Running' = Running
  BY DEF Running
<1>2. DOMAIN heap \subseteq 1 .. Len(arrived)
  BY DEF IInv, Numbered, RInv
<1>3. ASSUME NEW n \in DOMAIN heap, IsMessage(n)'
      PROVE  IF IsData(n)' THEN \E k \in 0 .. Size(n)' : Cursor(n, k)'
              ELSE heap'[n] = Received(n)'
  <2>1. arrived'[n] = arrived[n]
    BY <1>2
  <2>2. /\ IsMessage(n) /\ (IsData(n)' <=> IsData(n)) /\ Size(n)' = Size(n)
        /\ Received(n)' = Received(n)
    BY <1>3, <2>1, SentSteady
  <2>3. \A k : Cursor(n, k) => Cursor(n, k)'
    <3>1. ASSUME NEW k, Cursor(n, k) PROVE Cursor(n, k)'
      BY <1>1, <2>1, <3>1, CursorSteady
    <3>. QED BY <3>1
  <2>. QED BY <2>2, <2>3 DEF RInv
<1>. QED BY <1>3 DEF RInv

\* A message is read from the connection: nobody has been handed it before.
LEMMA ReceiveReading ==
  ASSUME IInv, RInv, Receive
  PROVE  RInv'
<1>. DEFINE n0 == Head(socket)
<1>1. /\ UNCHANGED <<traffic, arrived, running, called>>
      /\ pc = "receive" /\ open
      /\ \/ UNCHANGED <<heap, due>>
         \/ /\ heap' = [m \in DOMAIN heap \cup {n0} |-> IF m = n0 THEN Received(n0) ELSE heap[m]]
            /\ DOMAIN due' = DOMAIN due \cup {n0}
  BY DEF Receive, pool
<1>2. n0 \notin DOMAIN due /\ n0 \in 1 .. Len(arrived)
  <2>1. socket # <<>> /\ socket \in Seq(Datagram)
    BY <1>1 DEF IInv, Waiting, Types
  <2>2. n0 \in Datagram /\ n0 = socket[1] /\ 1 \in 1 .. Len(socket)
    BY <2>1, TailFacts
  <2>3. n0 <= Len(arrived) /\ n0 \notin DOMAIN due
    BY <2>2 DEF IInv, Numbered
  <2>4. Len(arrived) \in Nat
    BY DEF IInv, Types
  <2>. HIDE DEF n0
  <2>. QED BY <2>2, <2>3, <2>4 DEF Datagram
<1>. HIDE DEF n0
<1>3. CASE UNCHANGED <<heap, due>>
  BY <1>1, <1>3, ReadingSteady
<1>4. CASE /\ heap' = [m \in DOMAIN heap \cup {n0} |-> IF m = n0 THEN Received(n0) ELSE heap[m]]
           /\ DOMAIN due' = DOMAIN due \cup {n0}
  <2>1. /\ DOMAIN heap' = DOMAIN heap \cup {n0} /\ heap'[n0] = Received(n0)
        /\ \A m \in DOMAIN heap : heap'[m] = heap[m] /\ m # n0
    BY <1>2, <1>4 DEF RInv
  <2>2. Running' = Running
    BY <1>1 DEF Running
  <2>3. DOMAIN heap' = DOMAIN due' /\ traffic' \in DOMAIN Traffics
    BY <1>1, <1>4, <2>1 DEF RInv
  <2>4. ASSUME NEW n \in DOMAIN heap', IsMessage(n)'
        PROVE  IF IsData(n)' THEN \E k \in 0 .. Size(n)' : Cursor(n, k)'
              ELSE heap'[n] = Received(n)'
    <3>1. /\ IsMessage(n) /\ (IsData(n)' <=> IsData(n)) /\ Size(n)' = Size(n)
          /\ Received(n)' = Received(n) /\ \A k : Walked(n, k)' = Walked(n, k)
      BY <1>1, <2>4, SentSteady
    <3>2. CASE n \in DOMAIN heap
      <4>1. ASSUME NEW k, Cursor(n, k) PROVE Cursor(n, k)'
        BY <1>1, <2>1, <2>2, <3>2, <4>1, CursorSteady
      <4>. QED BY <2>1, <3>1, <3>2, <4>1 DEF RInv
    <3>3. CASE n = n0
      <4>1. \A x \in Handed : x[2] # n0
        BY <1>2 DEF IInv, Turns
      <4>2. /\ \A w \in Running : ~Reads(running[w], n0)
            /\ \A t \in called : ~Reads(t, n0)
        <5>1. /\ \A w \in Running : TaskOf(running[w]) \in Handed
              /\ \A t \in called : TaskOf(t) \in Handed
          BY DEF Handed, Now, Called
        <5>2. \A t : TaskOf(t) \in Handed => t.datagram # n0
          BY <4>1 DEF TaskOf
        <5>. QED BY <5>1, <5>2 DEF Reads
      <4>3. CASE IsData(n)
        <5>1. DataReadsBack(Sent(n).message) /\ Received(n) = Walked(n, 0)
          BY <1>2, <3>1, <3>3, <4>3, MessageReceived DEF IInv, Types, RInv
        <5>2. Size(n) \in Nat
          BY <5>1, CursorMoves
        <5>3. Cursor(n, 0)'
          BY <1>1, <2>1, <2>2, <3>1, <3>3, <4>2, <5>1 DEF Cursor, Reads
        <5>4. 0 \in 0 .. Size(n)'
          BY <3>1, <5>2
        <5>. QED BY <3>1, <4>3, <5>3, <5>4
      <4>4. CASE ~IsData(n)
        BY <2>1, <3>1, <3>3, <4>4
      <4>. QED BY <4>3, <4>4
    <3>. QED BY <2>1, <3>2, <3>3
  <2>. QED BY <2>3, <2>4 DEF RInv
<1>. QED BY <1>1, <1>3, <1>4

\* A worker takes a task: its callback is the first to read the message, if it does.
LEMMA StartTaskReading ==
  ASSUME IInv, OneReader, RInv, NEW w \in Workers, StartTask(w)
  PROVE  RInv'
<1>. DEFINE r == [callback |-> Head(tasks)[1], datagram |-> Head(tasks)[2], got |-> <<>>]
<1>1. /\ tasks # <<>> /\ running[w] = Idle
      /\ running' = [running EXCEPT ![w] = r]
      /\ UNCHANGED <<traffic, arrived, heap, due, called>>
  BY DEF StartTask
<1>2. r # Idle /\ TaskOf(r) \in Tasks
  <2>1. tasks \in Seq(Task)
    BY DEF IInv, Types
  <2>2. Head(tasks) \in Task /\ Head(tasks) \in Tasks
    <3>1. Elements(tasks) = Tasks
      BY DEF Elements, Tasks
    <3>. QED BY <1>1, <2>1, <3>1, TailFacts
  <2>. QED BY <2>2 DEF TaskOf, Task, Idle, Datagram
<1>3. r.got = <<>>
  OBVIOUS
<1>. HIDE DEF r
<1>4. /\ w \notin Running /\ Running' = Running \cup {w} /\ running'[w] = r
      /\ \A v \in Running : v # w /\ running'[v] = running[v]
  BY <1>1, <1>2 DEF IInv, Types, Running
<1>5. ASSUME NEW n \in DOMAIN heap, IsMessage(n)'
      PROVE  IF IsData(n)' THEN \E k \in 0 .. Size(n)' : Cursor(n, k)'
              ELSE heap'[n] = Received(n)'
  <2>1. /\ IsMessage(n) /\ (IsData(n)' <=> IsData(n)) /\ Size(n)' = Size(n)
        /\ Received(n)' = Received(n) /\ ElementsSent(n)' = ElementsSent(n)
        /\ \A k : Walked(n, k)' = Walked(n, k)
    BY <1>1, <1>5, SentSteady
  <2>2. CASE ~IsData(n)
    BY <1>1, <2>1, <2>2 DEF RInv
  <2>3. CASE IsData(n)
    <3>1. PICK k \in 0 .. Size(n) : Cursor(n, k)
      BY <2>1, <2>3 DEF RInv
    <3>2. CASE ~Reads(r, n)
      <4>1. Cursor(n, k)'
        BY <1>1, <1>4, <3>1, <3>2, CursorSteady
      <4>. QED BY <2>1, <2>3, <4>1
    <3>3. CASE Reads(r, n)
      <4>1. /\ \A v \in Running : ~Reads(running[v], n)
            /\ \A t \in called : ~Reads(t, n)
        BY <1>2, <3>3, Alone
      <4>2. k = 0 /\ heap[n] = Walked(n, 0)
        BY <3>1, <4>1 DEF Cursor
      <4>3. First(ElementsSent(n), 0) = <<>>
        <5>1. 1 .. 0 = {}
          OBVIOUS
        <5>. QED BY <5>1 DEF First
      <4>4. Cursor(n, 0)'
        BY <1>1, <1>3, <1>4, <2>1, <3>3, <4>1, <4>2, <4>3 DEF Cursor, Reads
      <4>. QED BY <2>1, <2>3, <3>1, <4>2, <4>4
    <3>. QED BY <3>2, <3>3
  <2>. QED BY <2>2, <2>3
<1>. QED BY <1>1, <1>5 DEF RInv

\* A callback reads an element: the next one, and it is the only one that reads them.
LEMMA ReadElementReading ==
  ASSUME IInv, OneReader, RInv, NEW w \in Workers, ReadElement(w)
  PROVE  RInv'
<1>. DEFINE n0 == running[w].datagram
            g == Append(running[w].got, NextElement(heap[n0]))
<1>1. /\ running[w] # Idle /\ Reader(running[w].callback)
      /\ heap[n0].kind = "data" /\ IsNextElement(heap[n0])
      /\ running' = [running EXCEPT ![w].got = g]
      /\ heap' = [heap EXCEPT ![n0] = AfterElement(heap[n0])]
      /\ UNCHANGED <<traffic, arrived, due, called>>
  BY DEF ReadElement, HasElement, Reader
<1>2. w \in Running /\ Reads(running[w], n0) /\ IsRunning(running[w])
  BY <1>1, NotIdle DEF Running, Reads, IInv
<1>3. /\ \A v \in Running : Reads(running[v], n0) => v = w
      /\ \A t \in called : ~Reads(t, n0)
  BY <1>2, Alone
<1>4. n0 \in DOMAIN heap
  <2>1. TaskOf(running[w]) \in Handed
    BY <1>2 DEF Handed, Now
  <2>. QED BY <2>1 DEF IInv, Turns, TaskOf, RInv
<1>. HIDE DEF n0, g
<1>5. /\ DOMAIN heap' = DOMAIN heap /\ heap'[n0] = AfterElement(heap[n0])
      /\ \A m \in DOMAIN heap : m # n0 => heap'[m] = heap[m]
  BY <1>1, <1>4
<1>6. running'[w] = [running[w] EXCEPT !.got = g]
      /\ \A v \in Workers : v # w => running'[v] = running[v]
  BY <1>1 DEF IInv, Types
<1>7. /\ running'[w].callback = running[w].callback /\ running'[w].datagram = n0
      /\ running'[w].got = g
  BY <1>2, <1>6 DEF IsRunning, n0
<1>8. running'[w] # Idle
  BY <1>2, <1>7 DEF IsRunning, Idle, Datagram, n0
<1>9. Running' = Running /\ \A v \in Running : v # w => running'[v] = running[v]
  BY <1>2, <1>6, <1>8 DEF Running
<1>10. Reads(running'[w], n0) /\ \A n : Reads(running'[w], n) => n = n0
  BY <1>1, <1>7 DEF Reads
<1>11. \A n : Reads(running[w], n) => n = n0
  BY DEF Reads, n0
<1>12. ASSUME NEW n \in DOMAIN heap, IsMessage(n)'
       PROVE  IF IsData(n)' THEN \E k \in 0 .. Size(n)' : Cursor(n, k)'
              ELSE heap'[n] = Received(n)'
  <2>1. /\ IsMessage(n) /\ (IsData(n)' <=> IsData(n)) /\ Size(n)' = Size(n)
        /\ Received(n)' = Received(n) /\ ElementsSent(n)' = ElementsSent(n)
        /\ \A k : Walked(n, k)' = Walked(n, k)
    BY <1>1, <1>12, SentSteady
  <2>2. CASE n # n0
    <3>1. ASSUME NEW k, Cursor(n, k) PROVE Cursor(n, k)'
      <4>1. heap'[n] = heap[n]
        BY <1>5, <2>2
      <4>2. \A v \in Running : Reads(running[v], n) \/ Reads(running'[v], n) => v # w
        BY <1>10, <1>11, <2>2
      <4>. QED BY <1>1, <1>9, <3>1, <4>1, <4>2, CursorSteady
    <3>. QED BY <1>5, <2>1, <2>2, <3>1 DEF RInv
  <2>3. CASE n = n0 /\ IsData(n)
    <3>1. PICK k \in 0 .. Size(n) : Cursor(n, k)
      BY <2>1, <2>3 DEF RInv
    <3>2. DataReadsBack(Sent(n).message)
      BY <2>1, <2>3, IsDataReadsBack
    <3>3. heap[n] = Walked(n, k) /\ running[w].got = First(ElementsSent(n), k)
      BY <1>2, <2>3, <3>1 DEF Cursor
    <3>4. k < Size(n)
      BY <1>1, <2>3, <3>2, <3>3, CursorMoves
    <3>5. /\ AfterElement(Walked(n, k)) = Walked(n, k + 1) /\ k + 1 \in 0 .. Size(n)
          /\ Append(First(ElementsSent(n), k), NextElement(Walked(n, k))) =
               First(ElementsSent(n), k + 1)
      BY <3>2, <3>4, CursorMoves
    <3>6. heap'[n] = Walked(n, k + 1)' /\ running'[w].got = First(ElementsSent(n), k + 1)
      BY <1>5, <1>7, <2>1, <2>3, <3>3, <3>5 DEF g
    <3>7. \A v \in Running' : Reads(running'[v], n) => v = w
      BY <1>3, <1>9, <2>3
    <3>8. Cursor(n, k + 1)'
      <4>1. \A v \in Running' : Reads(running'[v], n) =>
              running'[v].got = First(ElementsSent(n), k + 1)
        BY <3>6, <3>7
      <4>2. \A t \in called' : ~Reads(t, n)
        BY <1>1, <1>3, <2>3
      <4>3. w \in Running' /\ Reads(running'[w], n)
        BY <1>2, <1>9, <1>10, <2>3
      <4>. QED BY <2>1, <3>6, <4>1, <4>2, <4>3 DEF Cursor, Reads
    <3>. QED BY <2>1, <2>3, <3>5, <3>8
  <2>4. CASE n = n0 /\ ~IsData(n)
    <3>1. heap[n] = Received(n)
      BY <2>1, <2>4 DEF RInv
    <3>2. n \in 1 .. Len(arrived)
      BY <2>1, IsDataReadsBack
    <3>3. heap[n].kind \in {"command", "sdp"}
      BY <2>1, <2>4, <3>1, <3>2, MessageReceived DEF IInv, Types, RInv
    <3>. QED BY <1>1, <2>4, <3>3
  <2>. QED BY <2>2, <2>3, <2>4
<1>. QED BY <1>1, <1>5, <1>12 DEF RInv

\* A callback ends: one that reads has met the end of the message.
LEMMA EndTaskReading ==
  ASSUME IInv, OneReader, RInv, NEW w \in Workers, EndTask(w)
  PROVE  RInv'
<1>. DEFINE n0 == running[w].datagram
<1>1. /\ running[w] # Idle /\ called' = called \cup {running[w]}
      /\ HasElement(w) => ~NextElementReads(heap[n0])
      /\ running' = [running EXCEPT ![w] = Idle]
      /\ UNCHANGED <<traffic, arrived, heap, due>>
  BY DEF EndTask
<1>2. /\ w \in Running /\ Running' = Running \ {w} /\ called \subseteq called'
      /\ \A v \in Running' : running'[v] = running[v]
  BY <1>1 DEF IInv, Types, Running
<1>3. \A n : Reads(running[w], n) => n = n0
  BY DEF Reads
<1>4. ASSUME NEW n \in DOMAIN heap, IsMessage(n)'
      PROVE  IF IsData(n)' THEN \E k \in 0 .. Size(n)' : Cursor(n, k)'
              ELSE heap'[n] = Received(n)'
  <2>1. /\ IsMessage(n) /\ (IsData(n)' <=> IsData(n)) /\ Size(n)' = Size(n)
        /\ Received(n)' = Received(n) /\ ElementsSent(n)' = ElementsSent(n)
        /\ \A k : Walked(n, k)' = Walked(n, k)
    BY <1>1, <1>4, SentSteady
  <2>2. CASE ~IsData(n)
    BY <1>1, <2>1, <2>2 DEF RInv
  <2>3. CASE IsData(n)
    <3>1. PICK k \in 0 .. Size(n) : Cursor(n, k)
      BY <2>1, <2>3 DEF RInv
    <3>2. CASE ~Reads(running[w], n)
      <4>1. Cursor(n, k)'
        BY <1>1, <1>2, <3>1, <3>2, CursorSteady
      <4>. QED BY <2>1, <2>3, <4>1
    <3>3. CASE Reads(running[w], n)
      <4>1. /\ \A v \in Running : Reads(running[v], n) => v = w
            /\ \A t \in called : ~Reads(t, n)
        BY <1>2, <3>3, Alone
      <4>2. n = n0 /\ heap[n] = Walked(n, k) /\ running[w].got = First(ElementsSent(n), k)
        BY <1>2, <1>3, <3>1, <3>3 DEF Cursor
      <4>3. DataReadsBack(Sent(n).message)
        BY <2>1, <2>3, IsDataReadsBack
      <4>4. k = Size(n)
        <5>1. k < Size(n) => HasElement(w) /\ NextElementReads(heap[n])
          BY <3>3, <4>2, <4>3, CursorMoves DEF HasElement, Reads, Reader
        <5>2. Size(n) \in Nat
          BY <4>3, CursorMoves
        <5>. QED BY <1>1, <3>1, <4>2, <5>1, <5>2
      <4>5. running[w].got = ElementsSent(n)
        BY <4>2, <4>3, <4>4, CursorMoves
      <4>6. Cursor(n, k)'
        <5>1. heap'[n] = Walked(n, k)'
          BY <1>1, <2>1, <4>2
        <5>2. \A v \in Running' : ~Reads(running'[v], n)
          BY <1>2, <4>1
        <5>3. \A t \in called' : Reads(t, n) => t.got = ElementsSent(n)
          BY <1>1, <4>1, <4>5
        <5>4. running[w] \in called'
          BY <1>1
        <5>. QED BY <2>1, <3>3, <5>1, <5>2, <5>3, <5>4 DEF Cursor, Reads
      <4>. QED BY <2>1, <2>3, <3>1, <4>6
    <3>. QED BY <3>2, <3>3
  <2>. QED BY <2>2, <2>3
<1>. QED BY <1>1, <1>4 DEF RInv

\* Every step preserves the invariant of what is read.
LEMMA NextRInv == IInv /\ OneReader /\ RInv /\ [Next]_vars => RInv'
<1>. SUFFICES ASSUME IInv, OneReader, RInv, [Next]_vars PROVE RInv'
  OBVIOUS
<1>1. CASE Receive
  BY <1>1, ReceiveReading
<1>2. ASSUME NEW w \in Workers, Work(w) PROVE RInv'
  BY <1>2, StartTaskReading, ReadElementReading, EndTaskReading DEF Work
<1>3. CASE Arrive
  <2>1. \A n \in 1 .. Len(arrived) : arrived'[n] = arrived[n]
    <3>1. PICK k \in DOMAIN Traffics[traffic] : arrived' = Append(arrived, k)
      BY <1>3 DEF Arrive
    <3>. QED BY <3>1, AppendFacts DEF IInv, Types
  <2>. QED BY <1>3, <2>1, ReadingSteady DEF Arrive, pool
<1>4. ASSUME UNCHANGED <<traffic, arrived, heap, due, running, called>> PROVE RInv'
  BY <1>4, ReadingSteady
<1>. QED BY <1>1, <1>2, <1>3, <1>4 DEF Next, Thread, Start, AddCallback, CloseConnection, Close,
            Join, Check, Ready, Timeout, ReceiveEOF, Dispatch, Shutdown, vars, thread, pool

\* The invariant implies ReadsBack.
LEMMA RInvReadsBack == IInv /\ RInv => ReadsBack
<1>. SUFFICES ASSUME IInv, RInv PROVE ReadsBack
  OBVIOUS
<1>1. traffic \in DOMAIN Traffics /\ arrived \in Seq(DOMAIN Traffics[traffic])
  BY DEF IInv, Types, RInv
<1>2. \A n \in 1 .. Len(arrived) : IsMessage(n) => Received(n) # Raised
  BY <1>1, MessageReceived
<1>3. ASSUME NEW n \in DOMAIN heap, IsMessage(n)
      PROVE  CASE heap[n].kind = "command" -> heap[n] = Sent(n).message
               [] heap[n].kind = "sdp" -> SameSDP(Sent(n).message, heap[n])
               [] OTHER -> \A t \in called :
                    t.datagram = n /\ t.callback \in Readers \ Raising =>
                      t.got = Meant(Sent(n).message)
  <2>1. n \in 1 .. Len(arrived) /\ (IsData(n) => DataReadsBack(Sent(n).message))
    BY <1>3, IsDataReadsBack
  <2>2. CASE IsData(n)
    <3>1. PICK k \in 0 .. Size(n) : Cursor(n, k)
      BY <1>3, <2>2 DEF RInv
    <3>2. heap[n].kind = "data"
      BY <2>1, <2>2, <3>1, CursorMoves DEF Cursor
    <3>3. heap[n].kind # "command" /\ heap[n].kind # "sdp"
      BY <3>2
    <3>4. \A t \in called : t.datagram = n /\ t.callback \in Readers \ Raising
            => t.got = Meant(Sent(n).message)
      BY <3>1 DEF Cursor, Reads, Reader, ElementsSent
    <3>. QED BY <3>3, <3>4, Zenon
  <2>3. CASE ~IsData(n)
    <3>1. heap[n] = Received(n)
      BY <1>3, <2>3 DEF RInv
    <3>2. \/ heap[n].kind = "command" /\ heap[n] = Sent(n).message
          \/ heap[n].kind = "sdp" /\ SameSDP(Sent(n).message, heap[n])
      BY <1>1, <1>3, <2>1, <2>3, <3>1, MessageReceived
    <3>3. heap[n].kind = "sdp" => heap[n].kind # "command"
      OBVIOUS
    <3>. QED BY <3>2, <3>3, Zenon
  <2>. QED BY <2>2, <2>3
<1>. QED BY <1>2, <1>3, Zenon DEF ReadsBack

\* Whatever arrives, however often and in whatever order, among whatever other bytes:
\* a callback is given what was sent, a command with its fields, the data of an SDP
\* message, the elements of a data message, all and in order, as long as no two
\* callbacks read the elements of the same message (receive_eieio_message, next_element).
THEOREM ReadsBackAlways == ASSUME OneReader PROVE Spec => []ReadsBack
<1>1. Init => IInv /\ RInv
  BY InitIInv, InitRInv
<1>2. IInv /\ RInv /\ [Next]_vars => IInv' /\ RInv'
  BY NextIInv, NextRInv
<1>. QED BY <1>1, <1>2, RInvReadsBack, PTL DEF Spec

=============================================================================
