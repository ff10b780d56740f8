----------------------------- MODULE SCPPipeline -----------------------------
(***************************************************************************)
(* SCPRequestPipeLine (connections/scp_request_pipeline.py): one thread     *)
(* sends SCP requests over one UDP connection, keeps at most n_channels of  *)
(* them outstanding, matches replies to requests by sequence number and     *)
(* resends on a retry code or on a receive timeout.                         *)
(*                                                                          *)
(* The network is UDP (see UDPConnection): packets and replies are members  *)
(* of sets, so they may be overtaken; a delivered one may stay in its set   *)
(* and be delivered again; any one may be lost.  SCAMP, the monitor on the  *)
(* board, is external: it carries out a command and replies with its        *)
(* sequence number.                                                         *)
(*                                                                          *)
(* The dictionaries keyed by sequence number are functions on all sequence  *)
(* numbers, with NoRequest where there is no key.  The statistics counters  *)
(* (n_timeouts, n_resent, n_retry_code_resent) are left out.                *)
(***************************************************************************)
EXTENDS Integers, FiniteSets

CONSTANTS
  NRequests,        \* requests the caller sends before it calls finish()
  InitialChannels,  \* n_channels given to the constructor, or Unmeasured
  InitialWaits,     \* intermediate_channel_waits given, or Unmeasured
  Unmeasured,       \* None: to be worked out while running
  MinChannels,      \* least measured number of channels (12 in the code)
  ChannelSlack,     \* channels above the number in progress (8 in the code)
  NRetries,         \* n_retries
  MaxSequence,      \* MAX_SEQUENCE (65536 in the code)
  FirstSequence,    \* the global _next_sequence when the pipeline is made
  Results,          \* the reply codes the board uses, members of AllResults
  MaxFaults,        \* bound: exceptions raised by the socket
  MaxForeign        \* bound: sequence numbers drawn by other pipelines

AllResults == {"ok", "retry", "soft", "bad"}

ASSUME PipelineAssumption ==
  /\ NRequests \in Nat
  /\ Unmeasured \notin Nat
  /\ InitialChannels \in (Nat \ {0}) \union {Unmeasured}
  /\ InitialWaits \in Nat \union {Unmeasured}
  /\ MinChannels \in Nat \ {0} /\ ChannelSlack \in Nat \ {0}
  /\ MinChannels >= ChannelSlack
  /\ NRetries \in Nat
  /\ MaxSequence \in Nat \ {0}
  /\ FirstSequence \in 0 .. MaxSequence - 1
  /\ Results \subseteq AllResults
  /\ MaxFaults \in Nat /\ MaxForeign \in Nat

VARIABLES
  next_sequence,    \* the global _next_sequence
  requests,         \* sequence number -> request in progress
  retries,          \* sequence number -> resends still allowed
  retry_reason,     \* sequence number -> the kinds of reason for its resends
  in_progress,      \* the pipeline's count of outstanding responses
  n_channels,       \* the send window
  waits,            \* the receive window, intermediate_channel_waits
  phase,            \* where the calling thread is
  issued,           \* requests passed to send_request so far
  sequence,         \* request -> the sequence number in its header, or -1
  outcome,          \* request -> what the caller's callbacks were told
  answered_by,      \* history: request -> the request its reply was made for
  attempts,         \* history: request -> times its packet was sent
  packets,          \* network: request packets on their way to the board
  replies,          \* network: replies on their way back
  executed,         \* board: requests carried out at least once
  faults,           \* socket exceptions so far
  foreign           \* sequence numbers drawn by other pipelines so far

records == <<requests, retries, retry_reason>>
windows == <<n_channels, waits>>
caller == <<phase, issued, sequence, next_sequence, foreign>>
told == <<outcome, answered_by>>
vars == <<records, in_progress, windows, caller, told, attempts, packets,
          replies, executed, faults>>

Requests == 1 .. NRequests
NoRequest == 0
Sequences == 0 .. MaxSequence - 1
NoSequence == -1
Outcomes == {"unsent", "pending", "ok", "excused", "failed", "timedout"}
Phases == {"sending", "window", "finishing", "done", "raised"}
Packets == [seq : Sequences, req : Requests]
Replies == [seq : Sequences, req : Requests, result : AllResults]

\* "soft" stands for a retry code that is also in _non_fail_retry_codes.
RetryCodes == {"retry", "soft"}
NonFailRetryCodes == {"soft"}

Outstanding == {s \in Sequences : requests[s] # NoRequest}
Pending == {r \in Requests : outcome[r] = "pending"}

-----------------------------------------------------------------------------
(* The constructor and its defaults.                                        *)

InitialIntermediateWaits ==
  IF InitialWaits = Unmeasured /\ InitialChannels # Unmeasured
  THEN IF InitialChannels > ChannelSlack THEN InitialChannels - ChannelSlack ELSE 0
  ELSE InitialWaits

Init ==
  /\ next_sequence = FirstSequence
  /\ requests = [s \in Sequences |-> NoRequest]
  /\ retries = [s \in Sequences |-> 0]
  /\ retry_reason = [s \in Sequences |-> {}]
  /\ in_progress = 0
  /\ n_channels = InitialChannels
  /\ waits = InitialIntermediateWaits
  /\ phase = "sending"
  /\ issued = 0
  /\ sequence = [r \in Requests |-> NoSequence]
  /\ outcome = [r \in Requests |-> "unsent"]
  /\ answered_by = [r \in Requests |-> NoRequest]
  /\ attempts = [r \in Requests |-> 0]
  /\ packets = {} /\ replies = {} /\ executed = {}
  /\ faults = 0 /\ foreign = 0

-----------------------------------------------------------------------------
(* Sending.                                                                 *)

NarrowSequenceNumber(s) == (s + 1) % (MaxSequence \div 2)
NextSequenceNumber(s) == (s + 1) % MaxSequence

\* An unmeasured window is fixed as soon as a reply is ready to be read.  A
\* reply still on its way is not ready, so measuring may also not happen yet.
MeasureChannels ==
  \/ /\ n_channels = Unmeasured /\ replies # {}
     /\ n_channels' = IF in_progress + ChannelSlack < MinChannels
                      THEN MinChannels ELSE in_progress + ChannelSlack
     /\ waits' = n_channels' - ChannelSlack
  \/ UNCHANGED windows

HasOneChannelTooMany == n_channels # Unmeasured => in_progress <= n_channels
HasFreeChannel == n_channels # Unmeasured => in_progress < n_channels

\* send_request with a channel free: the record is made, then the packet goes
\* to the socket.  If the socket raises, the record stays, in_progress does
\* not count it, and the exception ends the caller's work.
SendRequest ==
  LET r == issued + 1 IN
  /\ phase = "sending" /\ issued < NRequests
  /\ HasFreeChannel
  /\ MeasureChannels
  /\ issued' = r
  /\ next_sequence' = NextSequenceNumber(next_sequence)
  /\ sequence' = [sequence EXCEPT ![r] = next_sequence]
  /\ requests' = [requests EXCEPT ![next_sequence] = r]
  /\ retries' = [retries EXCEPT ![next_sequence] = NRetries]
  /\ retry_reason' = [retry_reason EXCEPT ![next_sequence] = {}]
  /\ outcome' = [outcome EXCEPT ![r] = "pending"]
  /\ \/ /\ packets' = packets \union {[seq |-> next_sequence, req |-> r]}
        /\ attempts' = [attempts EXCEPT ![r] = 1]
        /\ in_progress' = in_progress + 1
        /\ UNCHANGED <<phase, faults>>
     \/ /\ faults < MaxFaults
        /\ faults' = faults + 1
        /\ phase' = "raised"
        /\ UNCHANGED <<packets, attempts, in_progress>>
  /\ UNCHANGED <<foreign, answered_by, replies, executed>>

\* send_request with every channel in use starts to receive first.
FillWindow ==
  /\ phase = "sending" /\ issued < NRequests
  /\ ~HasFreeChannel
  /\ phase' = "window"
  /\ UNCHANGED <<records, in_progress, windows, issued, sequence, next_sequence,
                 foreign, told, attempts, packets, replies, executed, faults>>

\* Another pipeline draws from the same global sequence.
ForeignRequest ==
  /\ foreign < MaxForeign
  /\ foreign' = foreign + 1
  /\ next_sequence' = NextSequenceNumber(next_sequence)
  /\ UNCHANGED <<records, in_progress, windows, phase, issued, sequence, told,
                 attempts, packets, replies, executed, faults>>

-----------------------------------------------------------------------------
(* Receiving: the loop of _do_retrieve, whose threshold is the receive       *)
(* window while sending and 0 in finish().                                   *)

Retrieving ==
  \/ phase = "window" /\ in_progress > waits
  \/ phase = "finishing" /\ in_progress > 0

LeaveWindow ==
  /\ phase = "window" /\ in_progress <= waits
  /\ phase' = "sending"
  /\ UNCHANGED <<records, in_progress, windows, issued, sequence, next_sequence,
                 foreign, told, attempts, packets, replies, executed, faults>>

\* UDP hands over a reply and may hand the same one over again.
TakeReply(rep) ==
  /\ Retrieving
  /\ rep \in replies
  /\ replies' \in {replies, replies \ {rep}}

\* What the records of a pipeline would be if _remove_record forgot its work,
\* and if _resend did not use up a retry.
KeepRecords(gone, resent, reason) ==
  /\ retries' = [s \in Sequences |-> IF s \in resent THEN retries[s] - 1 ELSE retries[s]]
  /\ UNCHANGED <<requests, retry_reason>>
KeepRetries(gone, resent, reason) ==
  /\ requests' = [s \in Sequences |-> IF s \in gone THEN NoRequest ELSE requests[s]]
  /\ UNCHANGED <<retries, retry_reason>>

\* _remove_record for the records in gone, and the part of _resend that
\* touches the records in resent: one retry used up and its reason noted.
UpdateRecords(gone, resent, reason) ==
  /\ requests' = [s \in Sequences |-> IF s \in gone THEN NoRequest ELSE requests[s]]
  /\ retries' = [s \in Sequences |->
       IF s \in gone THEN 0 ELSE IF s \in resent THEN retries[s] - 1 ELSE retries[s]]
  /\ retry_reason' = [s \in Sequences |->
       IF s \in gone THEN {}
       ELSE IF s \in resent THEN retry_reason[s] \union {reason} ELSE retry_reason[s]]

\* The packets of the records in resent go to the socket again.
SendAgain(resent) ==
  /\ packets' = packets \union {[seq |-> s, req |-> requests[s]] : s \in resent}
  /\ attempts' = [r \in Requests |->
       IF \E s \in resent : requests[s] = r THEN attempts[r] + 1 ELSE attempts[r]]

CountUnmatched(rep) ==
  /\ TakeReply(rep)
  /\ requests[rep.seq] = NoRequest
  /\ in_progress' = in_progress - 1
  /\ UNCHANGED <<records, windows, caller, told, attempts, packets, executed, faults>>

\* A reply for which there is no record is dropped.
SingleRetrieveUnmatched(rep) ==
  /\ TakeReply(rep)
  /\ requests[rep.seq] = NoRequest
  /\ UNCHANGED <<records, in_progress, windows, caller, told, attempts, packets,
                 executed, faults>>

PassAnyReply(rep) ==
  /\ outcome' = [outcome EXCEPT ![requests[rep.seq]] = "ok"]
  /\ answered_by' = [answered_by EXCEPT ![requests[rep.seq]] = rep.req]

\* The reply is parsed and passed to the callback.  A code the response class
\* rejects, or an exception in parsing or in the callback, goes to the error
\* callback instead.
PassReply(rep) ==
  LET r == requests[rep.seq] IN
  \/ /\ rep.result \in {"ok"} \union NonFailRetryCodes
     /\ outcome' = [outcome EXCEPT ![r] = IF rep.result = "ok" THEN "ok" ELSE "excused"]
     /\ answered_by' = [answered_by EXCEPT ![r] = rep.req]
  \/ /\ outcome' = [outcome EXCEPT ![r] = "failed"]
     /\ UNCHANGED answered_by

AnswerUncounted(rep) ==
  /\ TakeReply(rep)
  /\ requests[rep.seq] # NoRequest
  /\ rep.result \notin RetryCodes
  /\ PassReply(rep)
  /\ UpdateRecords({rep.seq}, {}, "code")
  /\ UNCHANGED <<in_progress, windows, caller, attempts, packets, executed, faults>>

SingleRetrieveAnswer(rep) ==
  /\ TakeReply(rep)
  /\ requests[rep.seq] # NoRequest
  /\ rep.result \notin RetryCodes
  /\ in_progress' = in_progress - 1
  /\ PassReply(rep)
  /\ UpdateRecords({rep.seq}, {}, "code")
  /\ UNCHANGED <<windows, caller, attempts, packets, executed, faults>>

\* A retry code, and the request may be sent again.
SingleRetrieveResend(rep) ==
  /\ TakeReply(rep)
  /\ requests[rep.seq] # NoRequest
  /\ rep.result \in RetryCodes
  /\ retries[rep.seq] > 0
  /\ UpdateRecords({}, {rep.seq}, "code")
  /\ SendAgain({rep.seq})
  /\ UNCHANGED <<in_progress, windows, caller, told, executed, faults>>

\* What follows when _resend raises: a code that must not fail is passed on as
\* an ordinary reply, any other is reported to the error callback.
AfterFailedResend(rep) ==
  /\ \/ rep.result \in NonFailRetryCodes /\ PassReply(rep)
     \/ /\ rep.result \notin NonFailRetryCodes
        /\ outcome' = [outcome EXCEPT ![requests[rep.seq]] = "failed"]
        /\ UNCHANGED answered_by
  /\ UpdateRecords({rep.seq}, {}, "code")

SingleRetrieveExhausted(rep) ==
  /\ TakeReply(rep)
  /\ requests[rep.seq] # NoRequest
  /\ rep.result \in RetryCodes
  /\ retries[rep.seq] <= 0
  /\ in_progress' = in_progress - 1
  /\ AfterFailedResend(rep)
  /\ UNCHANGED <<windows, caller, attempts, packets, executed, faults>>

\* _resend counts the request as in progress again before the socket raises.
SingleRetrieveResendRaises(rep) ==
  /\ TakeReply(rep)
  /\ requests[rep.seq] # NoRequest
  /\ rep.result \in RetryCodes
  /\ retries[rep.seq] > 0
  /\ faults < MaxFaults
  /\ faults' = faults + 1
  /\ AfterFailedResend(rep)
  /\ UNCHANGED <<in_progress, windows, caller, attempts, packets, executed>>

ExpiredLate == {s \in Outstanding : retries[s] < 0}
Expired == {s \in Outstanding : retries[s] <= 0}

\* No reply for packet_timeout, though replies may still be on their way: every
\* outstanding request is resent; one with no retries left, and one for which
\* the socket raises, goes to the error callback.
HandleReceiveTimeout ==
  /\ Retrieving
  /\ \E raising \in SUBSET (Outstanding \ Expired) :
       LET resent == (Outstanding \ Expired) \ raising
           gone == Expired \union raising
       IN  /\ faults + Cardinality(raising) <= MaxFaults
           /\ faults' = faults + Cardinality(raising)
           /\ in_progress' = in_progress - Cardinality(Expired)
           /\ outcome' = [r \in Requests |->
                IF \E s \in gone : requests[s] = r
                THEN IF \E s \in Expired : requests[s] = r
                                           /\ retry_reason[s] \subseteq {"timeout"}
                     THEN "timedout" ELSE "failed"
                ELSE outcome[r]]
           /\ UpdateRecords(gone, resent, "timeout")
           /\ SendAgain(resent)
  /\ UNCHANGED <<windows, caller, answered_by, replies, executed>>

\* The socket raises something other than a timeout, or the reply cannot be
\* read: nothing catches it.
ReceiveRaises ==
  /\ Retrieving
  /\ faults < MaxFaults
  /\ faults' = faults + 1
  /\ phase' = "raised"
  /\ UNCHANGED <<records, in_progress, windows, issued, sequence, next_sequence,
                 foreign, told, attempts, packets, replies, executed>>

\* The caller has sent everything and calls finish().
Finish ==
  /\ phase = "sending" /\ issued = NRequests
  /\ phase' = "finishing"
  /\ UNCHANGED <<records, in_progress, windows, issued, sequence, next_sequence,
                 foreign, told, attempts, packets, replies, executed, faults>>

FinishReturns ==
  /\ phase = "finishing" /\ in_progress <= 0
  /\ phase' = "done"
  /\ UNCHANGED <<records, in_progress, windows, issued, sequence, next_sequence,
                 foreign, told, attempts, packets, replies, executed, faults>>

-----------------------------------------------------------------------------
(* The network and the board.                                               *)

\* SCAMP receives a packet, perhaps not for the last time, and replies.  It has
\* carried the command out if it says so; with any other code it may have.
Serve(pkt, result) ==
  /\ pkt \in packets
  /\ packets' \in {packets, packets \ {pkt}}
  /\ replies' = replies \union {[seq |-> pkt.seq, req |-> pkt.req, result |-> result]}
  /\ \/ executed' = executed \union {pkt.req}
     \/ result # "ok" /\ UNCHANGED executed
  /\ UNCHANGED <<records, in_progress, windows, caller, told, attempts, faults>>

Lose ==
  /\ \/ \E pkt \in packets : packets' = packets \ {pkt} /\ UNCHANGED replies
     \/ \E rep \in replies : replies' = replies \ {rep} /\ UNCHANGED packets
  /\ UNCHANGED <<records, in_progress, windows, caller, told, attempts, executed,
                 faults>>

-----------------------------------------------------------------------------

SingleRetrieve ==
  \E rep \in replies :
    \/ SingleRetrieveUnmatched(rep)
    \/ SingleRetrieveAnswer(rep)
    \/ SingleRetrieveResend(rep)
    \/ SingleRetrieveExhausted(rep)
    \/ SingleRetrieveResendRaises(rep)

\* Everything the calling thread does.
Pipeline ==
  \/ SendRequest
  \/ FillWindow
  \/ LeaveWindow
  \/ SingleRetrieve
  \/ HandleReceiveTimeout
  \/ ReceiveRaises
  \/ Finish
  \/ FinishReturns

Network ==
  \/ \E pkt \in packets, result \in Results : Serve(pkt, result)
  \/ Lose

\* Nothing is left to do for the caller.
Terminated == phase \in {"done", "raised"} /\ UNCHANGED vars

Next == Pipeline \/ Network \/ ForeignRequest \/ Terminated

Spec == Init /\ [][Next]_vars

\* The network hands over a packet or a reply that it will hand over again.
Repeats ==
  \/ packets' = packets /\ \E pkt \in packets, result \in Results : Serve(pkt, result)
  \/ replies' = replies /\ SingleRetrieve

\* The thread runs on: the socket read always returns within packet_timeout.
\* The network owes nothing, except that it stops repeating messages some time.
FairSpec == Spec /\ WF_vars(Pipeline) /\ <>[][~Repeats]_vars

-----------------------------------------------------------------------------
(* Properties.                                                              *)

TypeOK ==
  /\ next_sequence \in Sequences
  /\ requests \in [Sequences -> Requests \union {NoRequest}]
  /\ retries \in [Sequences -> 0 .. NRetries]
  /\ retry_reason \in [Sequences -> SUBSET {"timeout", "code"}]
  /\ in_progress \in Int
  /\ n_channels \in (Nat \ {0}) \union {Unmeasured}
  /\ waits \in Nat \union {Unmeasured}
  /\ phase \in Phases
  /\ issued \in 0 .. NRequests
  /\ sequence \in [Requests -> Sequences \union {NoSequence}]
  /\ outcome \in [Requests -> Outcomes]
  /\ answered_by \in [Requests -> Requests \union {NoRequest}]
  /\ attempts \in [Requests -> Nat]
  /\ packets \subseteq Packets
  /\ replies \subseteq Replies
  /\ executed \subseteq Requests
  /\ faults \in 0 .. MaxFaults
  /\ foreign \in 0 .. MaxForeign

\* When finish() returns, the caller has been told about every request it
\* sent, however packets were lost, repeated or overtaken, sends raised and
\* sequence numbers were used again.
FinishHandledAll == phase = "done" => Pending = {}

\* The board never has more than n_channels commands it could still be told
\* to carry out for a waiting caller: the send window holds across resends.
WindowRespected == n_channels # Unmeasured => Cardinality(Pending) <= n_channels

\* A request is sent at most n_retries times more than once, and one that is
\* reported as timed out was really sent that often.
RetryBudget ==
  \A r \in Requests :
    /\ attempts[r] <= NRetries + 1
    /\ outcome[r] = "timedout" => attempts[r] = NRetries + 1

\* A request that was answered or reported as failed is settled: no late or
\* repeated reply, and no timeout, calls one of its callbacks again.
OutcomeFinal ==
  [][\A r \in Requests : outcome[r] \notin {"unsent", "pending"}
                           => outcome'[r] = outcome[r]]_vars

\* The reply passed to a request's callback was made for that request.
OwnAnswer == \A r \in Requests : answered_by[r] \in {r, NoRequest}

\* A request reported as successful has been carried out by the board.
OkMeansExecuted == \A r \in Requests : outcome[r] = "ok" => r \in executed

\* Why the four properties before OwnAnswer hold.  A record stands for a
\* pending request and no request has two records; requests are sent in order;
\* and in_progress never falls below the number of requests still pending,
\* though a failed send or a reused sequence number may leave it above.
RecordsArePending ==
  /\ \A s \in Outstanding : outcome[requests[s]] = "pending"
  /\ \A s, t \in Outstanding : requests[s] = requests[t] => s = t
IssuedInOrder == \A r \in Requests : outcome[r] = "unsent" <=> r > issued
PendingCounted ==
  Cardinality(Pending) <= in_progress + (IF phase = "raised" THEN 1 ELSE 0)
AttemptsCounted ==
  \A s \in Outstanding :
    phase # "raised" => attempts[requests[s]] + retries[s] = NRetries + 1
Accounting ==
  /\ TypeOK
  /\ RecordsArePending
  /\ IssuedInOrder
  /\ PendingCounted
  /\ AttemptsCounted
  /\ WindowRespected
  /\ FinishHandledAll
  /\ RetryBudget

\* Why OwnAnswer and OkMeansExecuted hold while the sequence has not come round:
\* sequence numbers drawn are still distinct, and a record, a packet and a reply
\* carry the number of the request they belong to.
NoWrap == NRequests + MaxForeign <= MaxSequence
Drawn == issued + foreign
SequenceAt(k) ==
  IF FirstSequence + k < MaxSequence THEN FirstSequence + k
  ELSE FirstSequence + k - MaxSequence
SequencesFresh ==
  /\ next_sequence = SequenceAt(Drawn)
  /\ \A r \in 1 .. issued : \E k \in 0 .. Drawn - 1 : sequence[r] = SequenceAt(k)
  /\ \A q, r \in 1 .. issued : sequence[q] = sequence[r] => q = r
MessagesMatch ==
  /\ \A s \in Outstanding : sequence[requests[s]] = s
  /\ \A m \in packets \union replies : m.req <= issued /\ sequence[m.req] = m.seq
  /\ \A rep \in replies : rep.result = "ok" => rep.req \in executed
Matching == Accounting /\ SequencesFresh /\ MessagesMatch /\ OwnAnswer /\ OkMeansExecuted

\* Why ImplementsService holds: a given window stays as given, and finish() is
\* called only after the last request.
CallerOrder ==
  /\ InitialChannels # Unmeasured => n_channels = InitialChannels
  /\ phase \in {"finishing", "done"} => issued = NRequests

\* The work ends: finish() is reached and returns, or an exception is raised.
WorkEnds == <>(phase \in {"done", "raised"})

\* finish() ensures that all responses are received and handled.
FinishSettlesAll ==
  \A r \in Requests :
    phase = "finishing" /\ outcome[r] = "pending"
      ~> outcome[r] # "pending" \/ phase = "raised"

\* A pipeline gives its caller the service of RequestService.
Service == INSTANCE RequestService WITH
  Window <- InitialChannels, Unlimited <- Unmeasured, status <- outcome,
  finished <- IF phase = "done" THEN "done"
              ELSE IF phase = "raised" THEN "abandoned" ELSE "no"
ImplementsService == Service!Spec
=============================================================================
