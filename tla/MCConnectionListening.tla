------------------------- MODULE MCConnectionListening -------------------------
EXTENDS ConnectionListening

Header(type, prefix, upper, base, is_time) ==
  [type |-> type, tag |-> 0, prefix |-> prefix, upper |-> upper, base |-> base,
   is_time |-> is_time, count |-> 0]
E(key, payload) == [key |-> key, payload |-> payload]
Data(h, elements) == [kind |-> "data", header |-> h, elements |-> elements]
EIEIO(m) == [kind |-> "eieio", message |-> m]
SDP(flags, data) ==
  [kind |-> "sdp", chip |-> <<1, 2>>,
   message |-> [header |-> SDPHeader(flags, 3, 17, 4, 5), data |-> data, offset |-> 1]]

TwoRegions == <<[channel |-> 1, region |-> 2, start |-> 300, space |-> 4],
            [channel |-> 5, region |-> 6, start |-> 300, space |-> 8]>>
Acks == <<[channel |-> 1, region |-> 2, space |-> 300], [channel |-> 3, region |-> 4, space |-> 5]>>
\* Every kind of message once, and datagrams that are none.
AllTraffics == <<
  <<EIEIO(Data(Header(3, 5, TRUE, 1000, TRUE), <<E(70, 2), E(71, 4)>>)),
    EIEIO(Data([Header(0, NoneSet, FALSE, NoneSet, FALSE) EXCEPT !.tag = 2], <<>>)),
    [kind |-> "eieio", bytes |-> <<1>>]>>,
  <<EIEIO(Data(Header(0, 256, FALSE, NoneSet, FALSE), <<E(5, NoneSet), E(255, NoneSet)>>)),
    EIEIO(PaddingRequest)>>,
  <<EIEIO(Data(Header(1, NoneSet, TRUE, 512, FALSE), <<E(5, 258)>>)),
    EIEIO(HostDataReadAck(200))>>,
  <<EIEIO(Data(Header(2, NoneSet, FALSE, 65536, TRUE), <<E(70000, NoneSet)>>)),
    EIEIO(EventStopRequest)>>,
  <<EIEIO(StopRequests), EIEIO(StartRequests)>>,
  <<EIEIO(NotificationProtocolPauseStop), EIEIO(NotificationProtocolStartResume)>>,
  <<EIEIO(NotificationProtocolDatabaseLocation(<<>>)), [kind |-> "eieio", bytes |-> <<9, 64, 3, 0>>]>>,
  <<EIEIO(SpinnakerRequestBuffers(1, 2, 17, 15, 255, 70000)), [kind |-> "eieio", bytes |-> <<2, 0, 5, 0>>]>>,
  <<EIEIO(SpinnakerRequestReadData(3, 3, 17, 9, TwoRegions)), EIEIO(HostDataRead(7, Acks))>>,
  <<SDP(REPLY_EXPECTED, <<0, 1, 2, 3>>), SDP(REPLY_NOT_EXPECTED, <<9>>)>>,
  <<[kind |-> "sdp", bytes |-> <<0, 0, 1>>],
    [kind |-> "sdp", bytes |-> <<0, 0, 8, 255, 0, 0, 0, 0, 0, 0>>]>>>>
GivenOne == <<"reader">>

\* Two callbacks that read the same message.
GivenReaders == <<"reader", "reader2">>

\* close() in a callback: the worker waits for the thread, which waits for the pool.
CloseInCallback(w) ==
  /\ running[w].callback = "closer" /\ ~done
  /\ done' = TRUE /\ closing' = "joining"
  /\ UNCHANGED <<traffic, open, arrived, socket, callbacks, thread, heap, due, pool>>
WorkClosing(w) ==
  StartTask(w) \/ CloseInCallback(w) \/ (EndTask(w) /\ running[w].callback # "closer")
NextClosing == Arrive \/ Start \/ Thread \/ Join \/ \E w \in Workers : WorkClosing(w)
SpecClosing ==
  Init /\ [][NextClosing]_vars /\ WF_vars(Thread) /\ WF_vars(Join) /\ \A w \in Workers : WF_vars(WorkClosing(w))
GivenCloser == <<"closer">>
================================================================================
