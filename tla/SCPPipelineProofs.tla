-------------------------- MODULE SCPPipelineProofs --------------------------
(***************************************************************************)
(* Proofs that SCPPipeline has its safety properties for every number of   *)
(* requests, channels, retries, sequence numbers and socket exceptions.    *)
(***************************************************************************)
EXTENDS SCPPipeline, FiniteSetTheorems, TLAPS

-----------------------------------------------------------------------------
(* Types.                                                                   *)

LEMMA NextSequenceType ==
  ASSUME NEW s \in Sequences
  PROVE  NextSequenceNumber(s) \in Sequences
  BY PipelineAssumption DEF Sequences, NextSequenceNumber

LEMMA UpdateRecordsType ==
  ASSUME TypeOK, NEW gone, NEW resent, NEW reason \in {"timeout", "code"},
         \A s \in resent : retries[s] > 0,
         UpdateRecords(gone, resent, reason)
  PROVE  /\ requests' \in [Sequences -> Requests \union {NoRequest}]
         /\ retries' \in [Sequences -> 0 .. NRetries]
         /\ retry_reason' \in [Sequences -> SUBSET {"timeout", "code"}]
  BY PipelineAssumption DEF TypeOK, UpdateRecords, Requests, NoRequest

LEMMA SendAgainType ==
  ASSUME TypeOK, NEW resent \in SUBSET Outstanding, SendAgain(resent)
  PROVE  /\ packets' \subseteq Packets
         /\ attempts' \in [Requests -> Nat]
  BY DEF TypeOK, SendAgain, Outstanding, Packets, NoRequest

LEMMA PassReplyType ==
  ASSUME TypeOK, NEW rep \in Replies, requests[rep.seq] # NoRequest, PassReply(rep)
  PROVE  /\ outcome' \in [Requests -> Outcomes]
         /\ answered_by' \in [Requests -> Requests \union {NoRequest}]
  BY DEF TypeOK, PassReply, Replies, Outcomes, NoRequest

LEMMA AfterFailedResendType ==
  ASSUME TypeOK, NEW rep \in Replies, requests[rep.seq] # NoRequest,
         AfterFailedResend(rep)
  PROVE  /\ outcome' \in [Requests -> Outcomes]
         /\ answered_by' \in [Requests -> Requests \union {NoRequest}]
         /\ UpdateRecords({rep.seq}, {}, "code")
  BY PassReplyType DEF TypeOK, AfterFailedResend, Replies, Outcomes, NoRequest

LEMMA OutstandingFinite ==
  /\ IsFiniteSet(Outstanding)
  /\ Cardinality(Outstanding) \in Nat
  /\ \A S \in SUBSET Outstanding : IsFiniteSet(S) /\ Cardinality(S) \in Nat
<1>1. IsFiniteSet(Sequences)
  BY FS_Interval, PipelineAssumption DEF Sequences
<1>2. QED  BY <1>1, FS_Subset, FS_CardinalityType DEF Outstanding

LEMMA TypeInit == Init => TypeOK
  BY PipelineAssumption
  DEF Init, TypeOK, Sequences, Requests, NoRequest, NoSequence, Outcomes, Phases,
      InitialIntermediateWaits

LEMMA TypeStep == TypeOK /\ [Next]_vars => TypeOK'
<1> SUFFICES ASSUME TypeOK, [Next]_vars PROVE TypeOK'
  OBVIOUS
<1> USE DEF records, windows, caller, told
<1>1. CASE SendRequest
  <2>1. next_sequence \in Sequences /\ next_sequence' \in Sequences
    BY <1>1, NextSequenceType DEF SendRequest, TypeOK
  <2>2. issued + 1 \in Requests /\ issued' \in 0 .. NRequests
    BY <1>1, PipelineAssumption DEF SendRequest, TypeOK, Requests
  <2>3. n_channels' \in (Nat \ {0}) \union {Unmeasured} /\ waits' \in Nat \union {Unmeasured}
    BY <1>1, PipelineAssumption DEF SendRequest, MeasureChannels, TypeOK
  <2>4. /\ requests' \in [Sequences -> Requests \union {NoRequest}]
        /\ retries' \in [Sequences -> 0 .. NRetries]
        /\ retry_reason' \in [Sequences -> SUBSET {"timeout", "code"}]
    BY <1>1, <2>1, <2>2, PipelineAssumption DEF SendRequest, TypeOK
  <2>5. /\ sequence' \in [Requests -> Sequences \union {NoSequence}]
        /\ outcome' \in [Requests -> Outcomes]
    BY <1>1, <2>1, <2>2 DEF SendRequest, TypeOK, Outcomes
  <2>6. /\ packets' \subseteq Packets
        /\ attempts' \in [Requests -> Nat]
        /\ in_progress' \in Int
        /\ phase' \in Phases
        /\ faults' \in 0 .. MaxFaults
    BY <1>1, <2>1, <2>2, PipelineAssumption DEF SendRequest, TypeOK, Packets, Phases
  <2>7. QED
    BY <1>1, <2>1, <2>2, <2>3, <2>4, <2>5, <2>6 DEF SendRequest, TypeOK
<1>2. CASE FillWindow \/ LeaveWindow \/ Finish \/ FinishReturns
  BY <1>2 DEF FillWindow, LeaveWindow, Finish, FinishReturns, TypeOK, Phases
<1>3. CASE ReceiveRaises
  BY <1>3, PipelineAssumption DEF ReceiveRaises, TypeOK, Phases
<1>4. CASE ForeignRequest
  BY <1>4, NextSequenceType, PipelineAssumption DEF ForeignRequest, TypeOK
<1>5. ASSUME NEW rep \in replies,
             \/ SingleRetrieveUnmatched(rep)
             \/ SingleRetrieveAnswer(rep)
             \/ SingleRetrieveResend(rep)
             \/ SingleRetrieveExhausted(rep)
             \/ SingleRetrieveResendRaises(rep)
      PROVE  TypeOK'
  <2>1. rep \in Replies /\ rep.seq \in Sequences
    BY DEF TypeOK, Replies
  <2>2. ASSUME TakeReply(rep) PROVE replies' \subseteq Replies
    BY <2>2 DEF TakeReply, TypeOK
  <2>3. CASE SingleRetrieveUnmatched(rep)
    BY <2>2, <2>3 DEF SingleRetrieveUnmatched, TypeOK
  <2>4. CASE SingleRetrieveAnswer(rep)
    BY <2>1, <2>2, <2>4, PassReplyType, UpdateRecordsType DEF SingleRetrieveAnswer, TypeOK
  <2>5. CASE SingleRetrieveResend(rep)
    <3>1. {rep.seq} \subseteq Outstanding
      BY <2>1, <2>5 DEF SingleRetrieveResend, Outstanding
    <3>2. QED
      BY <2>1, <2>2, <2>5, <3>1, SendAgainType, UpdateRecordsType
      DEF SingleRetrieveResend, TypeOK
  <2>6. CASE SingleRetrieveExhausted(rep)
    <3>1. /\ outcome' \in [Requests -> Outcomes]
          /\ answered_by' \in [Requests -> Requests \union {NoRequest}]
          /\ UpdateRecords({rep.seq}, {}, "code")
      BY <2>1, <2>6, AfterFailedResendType DEF SingleRetrieveExhausted
    <3>2. QED
      BY <2>2, <2>6, <3>1, UpdateRecordsType DEF SingleRetrieveExhausted, TypeOK
  <2>7. CASE SingleRetrieveResendRaises(rep)
    <3>1. /\ outcome' \in [Requests -> Outcomes]
          /\ answered_by' \in [Requests -> Requests \union {NoRequest}]
          /\ UpdateRecords({rep.seq}, {}, "code")
      BY <2>1, <2>7, AfterFailedResendType DEF SingleRetrieveResendRaises
    <3>2. faults' \in 0 .. MaxFaults
      BY <2>7, PipelineAssumption DEF SingleRetrieveResendRaises, TypeOK
    <3>3. QED
      BY <2>2, <2>7, <3>1, <3>2, UpdateRecordsType DEF SingleRetrieveResendRaises, TypeOK
  <2>8. QED
    BY <1>5, <2>3, <2>4, <2>5, <2>6, <2>7
<1>6. CASE HandleReceiveTimeout
  <2>1. PICK raising \in SUBSET (Outstanding \ Expired) :
          /\ faults + Cardinality(raising) <= MaxFaults
          /\ faults' = faults + Cardinality(raising)
          /\ in_progress' = in_progress - Cardinality(Expired)
          /\ UpdateRecords(Expired \union raising,
                           (Outstanding \ Expired) \ raising, "timeout")
          /\ SendAgain((Outstanding \ Expired) \ raising)
    BY <1>6 DEF HandleReceiveTimeout
  <2>2. /\ Expired \subseteq Outstanding
        /\ Outstanding \subseteq Sequences
        /\ \A s \in Outstanding \ Expired : retries[s] > 0
    BY PipelineAssumption DEF Expired, Outstanding, TypeOK
  <2>3. Cardinality(raising) \in Nat /\ Cardinality(Expired) \in Nat
    BY <2>2, OutstandingFinite
  <2>4. outcome' \in [Requests -> Outcomes]
    BY <1>6 DEF HandleReceiveTimeout, TypeOK, Outcomes
  <2>5. /\ requests' \in [Sequences -> Requests \union {NoRequest}]
        /\ retries' \in [Sequences -> 0 .. NRetries]
        /\ retry_reason' \in [Sequences -> SUBSET {"timeout", "code"}]
    BY <2>1, <2>2, UpdateRecordsType
  <2>6. packets' \subseteq Packets /\ attempts' \in [Requests -> Nat]
    BY <2>1, SendAgainType
  <2>7. in_progress' \in Int /\ faults' \in 0 .. MaxFaults
    BY <2>1, <2>3, PipelineAssumption DEF TypeOK
  <2>8. QED
    BY <1>6, <2>4, <2>5, <2>6, <2>7 DEF HandleReceiveTimeout, TypeOK
<1>7. ASSUME NEW pkt \in packets, NEW result \in Results, Serve(pkt, result)
      PROVE  TypeOK'
  BY <1>7, PipelineAssumption DEF Serve, TypeOK, Packets, Replies
<1>8. CASE Lose
  BY <1>8 DEF Lose, TypeOK
<1>9. CASE UNCHANGED vars
  BY <1>9 DEF vars, TypeOK
<1>10. QED
  BY <1>1, <1>2, <1>3, <1>4, <1>5, <1>6, <1>7, <1>8, <1>9
  DEF Next, Pipeline, SingleRetrieve, Network, Terminated

\* Every variable keeps its type: no record is resent without a retry left.
THEOREM TypeCorrect == Spec => []TypeOK
  BY TypeInit, TypeStep, PTL DEF Spec

-----------------------------------------------------------------------------
(* Accounting: how many requests are pending, and for how long.             *)

\* Members of a finite set that an injection names are gone from a subset.
LEMMA Removal ==
  ASSUME NEW P, IsFiniteSet(P), NEW E, NEW g \in [E -> P],
         \A d, e \in E : g[d] = g[e] => d = e,
         NEW Q, Q \subseteq P, \A e \in E : g[e] \notin Q
  PROVE  Cardinality(Q) <= Cardinality(P) - Cardinality(E)
<1>1. g \in Injection(E, P \ Q)
  BY DEF Injection, IsInjective
<1>2. IsFiniteSet(P \ Q) /\ Cardinality(P \ Q) = Cardinality(P) - Cardinality(P \cap Q)
  BY FS_Difference
<1>3. IsFiniteSet(E) /\ Cardinality(E) <= Cardinality(P \ Q)
  BY <1>1, <1>2, FS_Injection
<1>4. P \cap Q = Q /\ IsFiniteSet(Q)
  BY FS_Subset
<1>5. Cardinality(P) \in Nat /\ Cardinality(Q) \in Nat /\ Cardinality(E) \in Nat
  BY <1>3, <1>4, FS_CardinalityType
<1>6. Cardinality(P \ Q) = Cardinality(P) - Cardinality(Q)
  BY <1>2, <1>4
<1>7. QED
  BY <1>3, <1>5, <1>6

LEMMA PendingFinite == IsFiniteSet(Pending) /\ Cardinality(Pending) \in Nat
<1>1. IsFiniteSet(Requests)
  BY FS_Interval, PipelineAssumption DEF Requests
<1>2. QED
  BY <1>1, FS_Subset, FS_CardinalityType DEF Pending

\* Ending the requests whose records are in gone makes as many fewer pending.
LEMMA PendingFall ==
  ASSUME TypeOK, RecordsArePending, NEW gone, gone \subseteq Outstanding,
         Pending' \subseteq Pending, \A s \in gone : requests[s] \notin Pending'
  PROVE  Cardinality(Pending') <= Cardinality(Pending) - Cardinality(gone)
<1> DEFINE g == [s \in gone |-> requests[s]]
<1>1. g \in [gone -> Pending]
  BY DEF TypeOK, RecordsArePending, Outstanding, Pending, NoRequest
<1>2. \A d, e \in gone : g[d] = g[e] => d = e
  BY DEF RecordsArePending
<1>3. QED
  BY <1>1, <1>2, PendingFinite, Removal

LEMMA AccountingInit == Init => Accounting
<1> SUFFICES ASSUME Init PROVE Accounting
  OBVIOUS
<1>1. TypeOK
  BY TypeInit
<1>2. Outstanding = {} /\ Pending = {}
  BY DEF Init, Outstanding, Pending
<1>3. Cardinality(Pending) = 0
  BY <1>2, FS_EmptySet
<1>4. QED
  BY <1>1, <1>2, <1>3, PipelineAssumption
  DEF Init, Accounting, RecordsArePending, IssuedInOrder, PendingCounted,
      AttemptsCounted, WindowRespected, FinishHandledAll, RetryBudget, Requests

\* A step of the receive loop: the requests whose records are in gone are
\* settled and those in resent are sent again.
LEMMA SettleStep ==
  ASSUME Accounting, TypeOK', phase \in {"window", "finishing"}, phase' = phase,
         issued' = issued, n_channels' = n_channels,
         NEW gone, gone \subseteq Outstanding,
         NEW resent, resent \subseteq Outstanding, gone \cap resent = {},
         NEW reason, UpdateRecords(gone, resent, reason),
         in_progress' >= in_progress - Cardinality(gone),
         \A r \in Requests : outcome'[r] # outcome[r] =>
           \E s \in gone : requests[s] = r
                           /\ (outcome'[r] = "timedout" => retries[s] <= 0),
         \A s \in gone : outcome'[requests[s]] \notin {"unsent", "pending"},
         \A r \in Requests : attempts'[r] =
           IF \E s \in resent : requests[s] = r THEN attempts[r] + 1 ELSE attempts[r]
  PROVE  Accounting'
<1> USE DEF Accounting
<1>1. /\ \A s \in Outstanding : s \in Sequences /\ requests[s] \in Requests
      /\ Outstanding' = Outstanding \ gone
      /\ \A s \in Outstanding' : requests'[s] = requests[s]
      /\ \A s \in Outstanding' : retries'[s] = IF s \in resent THEN retries[s] - 1
                                                 ELSE retries[s]
  BY DEF TypeOK, Outstanding, UpdateRecords, NoRequest
<1>2. RecordsArePending'
  <2>1. ASSUME NEW s \in Outstanding'
        PROVE  outcome'[requests[s]] = "pending"
    BY <1>1, <2>1 DEF RecordsArePending
  <2>2. QED
    BY <1>1, <2>1 DEF RecordsArePending
<1>3. ASSUME NEW r \in Requests, outcome'[r] # outcome[r]
      PROVE  outcome[r] = "pending" /\ outcome'[r] \notin {"unsent", "pending"}
  BY <1>1, <1>3 DEF RecordsArePending
<1>4. IssuedInOrder'
  BY <1>3 DEF IssuedInOrder
<1>5. /\ Pending' \subseteq Pending
      /\ Cardinality(Pending') <= Cardinality(Pending) - Cardinality(gone)
  <2>1. Pending' \subseteq Pending
    BY <1>3 DEF Pending
  <2>2. \A s \in gone : requests[s] \notin Pending'
    BY <1>1 DEF Pending
  <2>3. QED
    BY <2>1, <2>2, PendingFall
<1>6. /\ Cardinality(gone) \in Nat
      /\ Cardinality(Pending) \in Nat
      /\ Cardinality(Pending') \in Nat
  BY OutstandingFinite, PendingFinite, <1>5, FS_Subset, FS_CardinalityType
<1>7. PendingCounted'
  BY <1>5, <1>6 DEF PendingCounted, TypeOK
<1>8. WindowRespected'
  BY <1>5, <1>6 DEF WindowRespected, TypeOK
<1>9. AttemptsCounted'
  <2>1. ASSUME NEW s \in Outstanding'
        PROVE  attempts'[requests'[s]] + retries'[s] = NRetries + 1
    <3>1. /\ s \in Outstanding
          /\ attempts[requests[s]] + retries[s] = NRetries + 1
          /\ attempts[requests[s]] \in Nat /\ retries[s] \in Int
      BY <1>1, <2>1 DEF AttemptsCounted, TypeOK
    <3>2. CASE s \in resent
      BY <1>1, <2>1, <3>1, <3>2
    <3>3. CASE s \notin resent
      <4>1. ~ \E t \in resent : requests[t] = requests[s]
        BY <3>1, <3>3 DEF RecordsArePending
      <4>2. QED
        BY <1>1, <2>1, <3>1, <3>3, <4>1
    <3>4. QED
      BY <3>2, <3>3
  <2>2. QED
    BY <2>1 DEF AttemptsCounted
<1>10. RetryBudget'
  <2>1. ASSUME NEW r \in Requests
        PROVE  /\ attempts'[r] <= NRetries + 1
               /\ outcome'[r] = "timedout" => attempts'[r] = NRetries + 1
    <3>1. attempts[r] \in Nat /\ attempts[r] <= NRetries + 1
      BY DEF RetryBudget, TypeOK
    <3>2. ASSUME NEW s \in resent, requests[s] = r
          PROVE  attempts'[r] = attempts[r] + 1 /\ attempts'[r] <= NRetries + 1
                 /\ outcome'[r] = "pending"
      <4>1. s \in Outstanding' /\ requests'[s] = r /\ retries'[s] \in Nat
        BY <1>1, <3>2 DEF TypeOK
      <4>2. attempts'[r] + retries'[s] = NRetries + 1
        BY <1>9, <4>1 DEF AttemptsCounted
      <4>3. attempts'[r] = attempts[r] + 1
        BY <3>2
      <4>4. QED
        BY <1>2, <3>1, <4>1, <4>2, <4>3, PipelineAssumption DEF RecordsArePending
    <3>3. CASE ~ \E s \in resent : requests[s] = r
      <4>1. attempts'[r] = attempts[r]
        BY <3>3
      <4>2. ASSUME outcome'[r] = "timedout", outcome[r] # "timedout"
            PROVE  attempts[r] = NRetries + 1
        <5>1. PICK s \in gone : requests[s] = r /\ retries[s] <= 0
          BY <4>2
        <5>2. attempts[r] + retries[s] = NRetries + 1 /\ retries[s] \in Nat
          BY <1>1, <5>1 DEF AttemptsCounted, TypeOK
        <5>3. QED
          BY <5>1, <5>2, <3>1
      <4>3. QED
        BY <3>1, <4>1, <4>2 DEF RetryBudget
    <3>4. QED
      BY <3>2, <3>3
  <2>2. QED
    BY <2>1 DEF RetryBudget
<1>11. QED
  BY <1>2, <1>4, <1>7, <1>8, <1>9, <1>10 DEF FinishHandledAll

\* A step that leaves records, counts and outcomes alone.
LEMMA QuietStep ==
  ASSUME Accounting, TypeOK',
         UNCHANGED <<records, outcome, attempts, issued, in_progress, n_channels>>,
         phase = "raised" => phase' = "raised",
         phase' = "done" => phase = "done" \/ in_progress <= 0
  PROVE  Accounting'
<1> USE DEF Accounting, records
<1>1. Outstanding' = Outstanding /\ Pending' = Pending
  BY DEF Outstanding, Pending
<1>2. RecordsArePending' /\ IssuedInOrder' /\ AttemptsCounted' /\ RetryBudget'
  <2>1. RecordsArePending' /\ IssuedInOrder' /\ RetryBudget'
    BY <1>1 DEF RecordsArePending, IssuedInOrder, RetryBudget
  <2>2. AttemptsCounted'
    BY <1>1 DEF AttemptsCounted
  <2>3. QED
    BY <2>1, <2>2
<1>3. PendingCounted' /\ WindowRespected'
  BY <1>1, PendingFinite DEF PendingCounted, WindowRespected, TypeOK
<1>4. FinishHandledAll'
  <2>1. CASE phase' = "done" /\ in_progress <= 0
    <3>1. Cardinality(Pending) = 0
      BY <2>1, PendingFinite DEF PendingCounted, TypeOK
    <3>2. QED
      BY <3>1, <1>1, PendingFinite, FS_EmptySet DEF FinishHandledAll
  <2>2. CASE phase' = "done" /\ phase = "done"
    BY <2>2, <1>1 DEF FinishHandledAll
  <2>3. QED
    BY <2>1, <2>2 DEF FinishHandledAll
<1>5. QED
  BY <1>2, <1>3, <1>4

LEMMA AccountingStep == Accounting /\ [Next]_vars => Accounting'
<1> SUFFICES ASSUME Accounting, [Next]_vars PROVE Accounting'
  OBVIOUS
<1>0. TypeOK /\ TypeOK'
  BY TypeStep DEF Accounting
<1> USE DEF Accounting, records, windows, caller, told
<1>1. CASE SendRequest
  <2> DEFINE r == issued + 1
             q == next_sequence
  <2>1. /\ r \in Requests /\ q \in Sequences /\ issued \in Nat
        /\ issued' = r /\ phase = "sending"
        /\ outcome' = [outcome EXCEPT ![r] = "pending"]
        /\ requests' = [requests EXCEPT ![q] = r]
        /\ retries' = [retries EXCEPT ![q] = NRetries]
    BY <1>0, <1>1, PipelineAssumption DEF SendRequest, TypeOK, Requests
  <2>2. outcome[r] = "unsent" /\ \A s \in Outstanding : requests[s] # r
    <3>1. outcome[r] = "unsent"
      BY <2>1 DEF IssuedInOrder
    <3>2. QED
      BY <3>1 DEF RecordsArePending
  <2>3. Pending' = Pending \union {r} /\ r \notin Pending
    BY <1>0, <2>1, <2>2 DEF Pending, TypeOK
  <2>4. Cardinality(Pending') = Cardinality(Pending) + 1
    BY <2>3, PendingFinite, FS_AddElement
  <2>5. /\ Outstanding' = Outstanding \union {q}
        /\ requests'[q] = r /\ retries'[q] = NRetries
        /\ \A s \in Outstanding' : s # q =>
              s \in Outstanding /\ requests'[s] = requests[s] /\ retries'[s] = retries[s]
    BY <1>0, <2>1, PipelineAssumption, SMTT(30) DEF Outstanding, TypeOK, NoRequest, Requests
  <2>6. RecordsArePending'
    BY <1>0, <2>1, <2>2, <2>5 DEF RecordsArePending, TypeOK
  <2>7. IssuedInOrder'
    BY <1>0, <2>1, PipelineAssumption, SMTT(30) DEF IssuedInOrder, TypeOK, Requests
  <2>8. PendingCounted'
    <3>1. \/ in_progress' = in_progress + 1 /\ phase' = phase
          \/ in_progress' = in_progress /\ phase' = "raised"
      BY <1>1 DEF SendRequest
    <3>2. QED
      BY <1>0, <2>1, <2>4, <3>1, PendingFinite DEF PendingCounted, TypeOK
  <2>9. WindowRespected'
    <3>1. Cardinality(Pending) <= in_progress
      BY <2>1 DEF PendingCounted, TypeOK
    <3>2. CASE UNCHANGED windows
      BY <1>0, <1>1, <2>4, <3>1, <3>2, PendingFinite
      DEF SendRequest, HasFreeChannel, WindowRespected, TypeOK
    <3>3. CASE n_channels' >= in_progress + ChannelSlack /\ n_channels' \in Nat
      BY <1>0, <2>4, <3>1, <3>3, PendingFinite, PipelineAssumption
      DEF WindowRespected, TypeOK
    <3>4. CASE n_channels' = IF in_progress + ChannelSlack < MinChannels
                             THEN MinChannels ELSE in_progress + ChannelSlack
      BY <1>0, <3>1, <3>3, <3>4, PendingFinite, PipelineAssumption DEF TypeOK
    <3>5. QED
      BY <1>1, <3>2, <3>4 DEF SendRequest, MeasureChannels
  <2>10. /\ phase' # "raised" => attempts'[r] = 1
         /\ \A p \in Requests \ {r} : attempts'[p] = attempts[p]
         /\ attempts'[r] \in {1, attempts[r]}
    BY <1>0, <1>1, <2>1 DEF SendRequest, TypeOK
  <2>11. AttemptsCounted'
    <3>1. ASSUME NEW s \in Outstanding', phase' # "raised"
          PROVE  attempts'[requests'[s]] + retries'[s] = NRetries + 1
      <4>1. CASE s = q
        BY <2>5, <2>10, <3>1, <4>1, PipelineAssumption
      <4>2. CASE s # q
        <5>1. /\ s \in Outstanding /\ requests'[s] = requests[s] /\ retries'[s] = retries[s]
              /\ requests[s] \in Requests \ {r}
          BY <1>0, <2>2, <2>5, <4>2 DEF TypeOK, Outstanding, NoRequest
        <5>2. QED
          BY <2>1, <2>10, <5>1 DEF AttemptsCounted
      <4>3. QED
        BY <4>1, <4>2
    <3>2. QED
      BY <3>1 DEF AttemptsCounted
  <2>12. RetryBudget'
    BY <1>0, <2>1, <2>10, PipelineAssumption DEF RetryBudget, TypeOK
  <2>13. FinishHandledAll'
    BY <1>1 DEF SendRequest, FinishHandledAll
  <2>14. QED
    BY <1>0, <2>6, <2>7, <2>8, <2>9, <2>11, <2>12, <2>13
<1>2. CASE FillWindow \/ LeaveWindow \/ Finish \/ FinishReturns
  BY <1>0, <1>2, QuietStep DEF FillWindow, LeaveWindow, Finish, FinishReturns
<1>3. CASE ReceiveRaises \/ ForeignRequest \/ Lose \/ UNCHANGED vars
  BY <1>0, <1>3, QuietStep DEF ReceiveRaises, ForeignRequest, Lose, vars
<1>4. ASSUME NEW pkt \in packets, NEW result \in Results, Serve(pkt, result)
      PROVE  Accounting'
  BY <1>0, <1>4, QuietStep DEF Serve
<1>5. ASSUME NEW rep \in replies,
             \/ SingleRetrieveUnmatched(rep)
             \/ SingleRetrieveAnswer(rep)
             \/ SingleRetrieveResend(rep)
             \/ SingleRetrieveExhausted(rep)
             \/ SingleRetrieveResendRaises(rep)
      PROVE  Accounting'
  <2> DEFINE q == rep.seq
             r == requests[rep.seq]
  <2>1. q \in Sequences /\ phase \in {"window", "finishing"}
    BY <1>0, <1>5 DEF TypeOK, Replies, TakeReply, Retrieving, SingleRetrieveUnmatched,
       SingleRetrieveAnswer, SingleRetrieveResend, SingleRetrieveExhausted,
       SingleRetrieveResendRaises
  <2>2. CASE SingleRetrieveUnmatched(rep)
    BY <1>0, <2>2, QuietStep DEF SingleRetrieveUnmatched
  <2>3. Cardinality({q}) = 1 /\ Cardinality({}) = 0 /\ in_progress \in Int
    BY <1>0, FS_Singleton, FS_EmptySet DEF TypeOK
  <2>4. ASSUME r # NoRequest,
               phase' = phase, issued' = issued, n_channels' = n_channels,
               attempts' = attempts, in_progress' >= in_progress - 1,
               \E o \in {"ok", "excused", "failed"} : outcome' = [outcome EXCEPT ![r] = o],
               UpdateRecords({q}, {}, "code")
        PROVE  Accounting'
    <3>1. {q} \subseteq Outstanding /\ r \in Requests
      BY <1>0, <2>1, <2>4 DEF Outstanding, TypeOK
    <3>2. PICK o \in {"ok", "excused", "failed"} : outcome' = [outcome EXCEPT ![r] = o]
      BY <2>4
    <3>3. \A p \in Requests : outcome'[p] # outcome[p] =>
            \E s \in {q} : requests[s] = p
                           /\ (outcome'[p] = "timedout" => retries[s] <= 0)
      BY <1>0, <3>1, <3>2 DEF TypeOK
    <3>4. \A s \in {q} : outcome'[requests[s]] \notin {"unsent", "pending"}
      BY <1>0, <3>1, <3>2 DEF TypeOK
    <3>5. \A p \in Requests : attempts'[p] =
            IF \E s \in {} : requests[s] = p THEN attempts[p] + 1 ELSE attempts[p]
      BY <2>4
    <3>6. QED
      BY <1>0, <2>1, <2>3, <2>4, <3>1, <3>3, <3>4, <3>5, SettleStep
  <2>5. ASSUME PassReply(rep)
        PROVE  \E o \in {"ok", "excused", "failed"} : outcome' = [outcome EXCEPT ![r] = o]
    BY <2>5 DEF PassReply
  <2>6. ASSUME AfterFailedResend(rep)
        PROVE  /\ \E o \in {"ok", "excused", "failed"} : outcome' = [outcome EXCEPT ![r] = o]
               /\ UpdateRecords({q}, {}, "code")
    BY <2>5, <2>6 DEF AfterFailedResend
  <2>7. CASE SingleRetrieveAnswer(rep)
    BY <2>3, <2>4, <2>5, <2>7 DEF SingleRetrieveAnswer
  <2>8. CASE SingleRetrieveExhausted(rep)
    BY <2>3, <2>4, <2>6, <2>8 DEF SingleRetrieveExhausted
  <2>9. CASE SingleRetrieveResendRaises(rep)
    BY <2>3, <2>4, <2>6, <2>9 DEF SingleRetrieveResendRaises
  <2>10. CASE SingleRetrieveResend(rep)
    <3>1. {q} \subseteq Outstanding /\ UpdateRecords({}, {q}, "code")
      BY <2>1, <2>10 DEF SingleRetrieveResend, Outstanding
    <3>2. \A p \in Requests : attempts'[p] =
            IF \E s \in {q} : requests[s] = p THEN attempts[p] + 1 ELSE attempts[p]
      BY <2>10 DEF SingleRetrieveResend, SendAgain
    <3>3. /\ phase' = phase /\ issued' = issued /\ n_channels' = n_channels
          /\ outcome' = outcome /\ in_progress' >= in_progress - Cardinality({})
      BY <2>3, <2>10 DEF SingleRetrieveResend
    <3>4. QED
      BY <1>0, <2>1, <3>1, <3>2, <3>3, SettleStep
  <2>11. QED
    BY <1>5, <2>2, <2>7, <2>8, <2>9, <2>10
<1>6. CASE HandleReceiveTimeout
  <2>1. PICK raising \in SUBSET (Outstanding \ Expired) :
          /\ in_progress' = in_progress - Cardinality(Expired)
          /\ outcome' = [r \in Requests |->
                IF \E s \in Expired \union raising : requests[s] = r
                THEN IF \E s \in Expired : requests[s] = r
                                           /\ retry_reason[s] \subseteq {"timeout"}
                     THEN "timedout" ELSE "failed"
                ELSE outcome[r]]
          /\ UpdateRecords(Expired \union raising,
                           (Outstanding \ Expired) \ raising, "timeout")
          /\ SendAgain((Outstanding \ Expired) \ raising)
    BY <1>6 DEF HandleReceiveTimeout
  <2> DEFINE gone == Expired \union raising
             resent == (Outstanding \ Expired) \ raising
  <2>2. gone \subseteq Outstanding /\ resent \subseteq Outstanding /\ gone \cap resent = {}
    BY DEF Expired
  <2>3. phase \in {"window", "finishing"} /\ phase' = phase /\ issued' = issued
        /\ n_channels' = n_channels
    BY <1>6 DEF HandleReceiveTimeout, Retrieving
  <2>4. in_progress' >= in_progress - Cardinality(gone)
    <3>1. IsFiniteSet(gone) /\ Expired \subseteq gone
      BY <2>2, OutstandingFinite
    <3>2. Cardinality(Expired) <= Cardinality(gone)
      BY <3>1, FS_Subset
    <3>3. Cardinality(Expired) \in Nat /\ Cardinality(gone) \in Nat /\ in_progress \in Int
      BY <1>0, <2>2, OutstandingFinite DEF Expired, TypeOK
    <3>4. QED
      BY <2>1, <3>2, <3>3
  <2>5. \A r \in Requests : outcome'[r] # outcome[r] =>
          \E s \in gone : requests[s] = r
                          /\ (outcome'[r] = "timedout" => retries[s] <= 0)
    BY <2>1 DEF Expired
  <2>6. \A s \in gone : outcome'[requests[s]] \notin {"unsent", "pending"}
    BY <1>0, <2>1, <2>2 DEF TypeOK, Outstanding, NoRequest
  <2>7. \A r \in Requests : attempts'[r] =
          IF \E s \in resent : requests[s] = r THEN attempts[r] + 1 ELSE attempts[r]
    BY <2>1 DEF SendAgain
  <2>8. UpdateRecords(gone, resent, "timeout")
    BY <2>1
  <2> HIDE DEF gone, resent
  <2>9. QED
    BY <1>0, <2>2, <2>3, <2>4, <2>5, <2>6, <2>7, <2>8, SettleStep
<1>9. QED
  BY <1>1, <1>2, <1>3, <1>4, <1>5, <1>6
  DEF Next, Pipeline, SingleRetrieve, Network, Terminated

\* Every caller's question is answered when finish() returns.
THEOREM FinishSound == Spec => []FinishHandledAll
  BY AccountingInit, AccountingStep, PTL DEF Spec, Accounting

\* No more than n_channels requests are pending at any time.
THEOREM WindowSound == Spec => []WindowRespected
  BY AccountingInit, AccountingStep, PTL DEF Spec, Accounting

\* A request goes out at most n_retries + 1 times, and that often before it is
\* reported as timed out.
THEOREM RetryBudgetSound == Spec => []RetryBudget
  BY AccountingInit, AccountingStep, PTL DEF Spec, Accounting

LEMMA SettledStays ==
  ASSUME Accounting, [Next]_vars,
         NEW r \in Requests, outcome[r] \notin {"unsent", "pending"}
  PROVE  outcome'[r] = outcome[r]
<1> USE DEF Accounting, told
<1>1. CASE SendRequest
  <2>1. r # issued + 1
    BY <1>1, PipelineAssumption DEF IssuedInOrder, SendRequest, TypeOK, Requests
  <2>2. QED
    BY <1>1, <2>1 DEF SendRequest, TypeOK
<1>2. ASSUME NEW rep \in replies,
             \/ SingleRetrieveAnswer(rep)
             \/ SingleRetrieveExhausted(rep)
             \/ SingleRetrieveResendRaises(rep)
      PROVE  outcome'[r] = outcome[r]
  <2>1. rep.seq \in Outstanding
    BY <1>2 DEF TypeOK, Replies, Outstanding, SingleRetrieveAnswer,
       SingleRetrieveExhausted, SingleRetrieveResendRaises
  <2>2. requests[rep.seq] # r
    BY <2>1 DEF RecordsArePending
  <2>3. QED
    BY <1>2, <2>2 DEF TypeOK, SingleRetrieveAnswer, SingleRetrieveExhausted,
       SingleRetrieveResendRaises, AfterFailedResend, PassReply
<1>3. CASE HandleReceiveTimeout
  BY <1>3 DEF HandleReceiveTimeout, RecordsArePending, Expired
<1>4. CASE UNCHANGED outcome
  BY <1>4
<1>5. QED
  BY <1>1, <1>2, <1>3, <1>4
  DEF Next, Pipeline, SingleRetrieve, Network, Terminated, vars, FillWindow, LeaveWindow,
      Finish, FinishReturns, ReceiveRaises, ForeignRequest, Lose, Serve,
      SingleRetrieveUnmatched, SingleRetrieveResend

\* A settled request is never settled again.
THEOREM OutcomeFinality == Spec => OutcomeFinal
<1>1. Accounting /\ [Next]_vars =>
        [\A r \in Requests : outcome[r] \notin {"unsent", "pending"}
                              => outcome'[r] = outcome[r]]_vars
  BY SettledStays
<1>2. QED
  BY <1>1, AccountingInit, AccountingStep, PTL DEF Spec, OutcomeFinal

-----------------------------------------------------------------------------
(* While the sequence numbers have not come round, replies match requests.  *)

LEMMA SequenceAdvance ==
  ASSUME NEW k \in 0 .. MaxSequence - 1
  PROVE  /\ SequenceAt(k) \in Sequences
         /\ NextSequenceNumber(SequenceAt(k)) = SequenceAt(k + 1)
         /\ \A j \in 0 .. MaxSequence - 1 : SequenceAt(j) = SequenceAt(k) => j = k
<1>1. SequenceAt(k) \in Sequences
  BY PipelineAssumption DEF SequenceAt, Sequences
<1>2. ASSUME NEW s \in Sequences
      PROVE  (s + 1) % MaxSequence = IF s + 1 = MaxSequence THEN 0 ELSE s + 1
  BY <1>2, PipelineAssumption DEF Sequences
<1>3. NextSequenceNumber(SequenceAt(k)) = SequenceAt(k + 1)
  BY <1>1, <1>2, PipelineAssumption DEF NextSequenceNumber, SequenceAt
<1>4. \A j \in 0 .. MaxSequence - 1 : SequenceAt(j) = SequenceAt(k) => j = k
  BY PipelineAssumption DEF SequenceAt
<1>5. QED
  BY <1>1, <1>3, <1>4

LEMMA MatchingInit == Init => Matching
  BY AccountingInit, PipelineAssumption
  DEF Init, Matching, SequencesFresh, MessagesMatch, OwnAnswer, OkMeansExecuted,
      SequenceAt, Drawn, Outstanding, Requests, NoRequest

\* Whatever a record, a packet or a reply names has been issued.
LEMMA RecordsIssued ==
  ASSUME Accounting, NEW s \in Outstanding
  PROVE  requests[s] \in Requests /\ requests[s] \in 1 .. issued
  BY DEF Accounting, TypeOK, RecordsArePending, IssuedInOrder, Outstanding, NoRequest, Requests

\* A reply that finds a record is the reply to the recorded request.
LEMMA ReplyMatches ==
  ASSUME Matching, NEW rep \in replies, rep.seq \in Outstanding
  PROVE  requests[rep.seq] = rep.req
<1>1. requests[rep.seq] \in 1 .. issued /\ sequence[requests[rep.seq]] = rep.seq
  BY RecordsIssued DEF Matching, MessagesMatch
<1>2. rep.req \in 1 .. issued /\ sequence[rep.req] = rep.seq
  BY DEF Matching, Accounting, TypeOK, Replies, Requests, MessagesMatch
<1>3. QED
  BY <1>1, <1>2 DEF Matching, SequencesFresh

\* What a step does that draws no sequence number: records are kept or removed,
\* packets are sent again only for records, the board replies to packets, and
\* the callbacks are told about matching replies.
RecordsShrink ==
  \A s \in Outstanding' : s \in Outstanding /\ requests'[s] = requests[s]
PacketsKnown ==
  \A p \in packets' : p \in packets \/ \E s \in Outstanding :
                                        p = [seq |-> s, req |-> requests[s]]
RepliesKnown ==
  \A m \in replies' \ replies :
    /\ \E p \in packets : m.seq = p.seq /\ m.req = p.req
    /\ m.result = "ok" => m.req \in executed'
CallbacksMatch ==
  \A r \in Requests :
    /\ answered_by'[r] \in {answered_by[r], r}
    /\ outcome'[r] = "ok" => outcome[r] = "ok" \/ r \in executed'
NothingDrawn == UNCHANGED <<sequence, next_sequence, issued, foreign>>

LEMMA NoNewReplies == replies' \subseteq replies => RepliesKnown
  BY DEF RepliesKnown

LEMMA MatchingKept ==
  ASSUME Matching, Accounting', NothingDrawn, RecordsShrink, PacketsKnown, RepliesKnown,
         executed \subseteq executed', CallbacksMatch
  PROVE  Matching'
<1> USE DEF NothingDrawn, RecordsShrink, PacketsKnown, RepliesKnown, CallbacksMatch
<1> USE DEF Matching
<1>1. SequencesFresh'
  BY DEF SequencesFresh, Drawn, SequenceAt
<1>2. MessagesMatch'
  <2>1. ASSUME NEW s \in Outstanding
        PROVE  requests[s] <= issued /\ sequence[requests[s]] = s
    BY RecordsIssued DEF MessagesMatch
  <2>2. \A p \in packets' : p.req <= issued /\ sequence[p.req] = p.seq
    BY <2>1 DEF MessagesMatch
  <2>3. QED
    BY <2>1, <2>2 DEF MessagesMatch
<1>3. OwnAnswer' /\ OkMeansExecuted'
  BY DEF OwnAnswer, OkMeansExecuted
<1>4. QED
  BY <1>1, <1>2, <1>3

LEMMA MatchingStep ==
  ASSUME NoWrap
  PROVE  Matching /\ [Next]_vars => Matching'
<1> SUFFICES ASSUME Matching, [Next]_vars PROVE Matching'
  OBVIOUS
<1>0. Accounting /\ Accounting' /\ TypeOK
  BY AccountingStep DEF Matching, Accounting
<1> USE DEF Matching, records, windows, caller, told
<1>1. CASE SendRequest
  <2> DEFINE r == issued + 1
             q == next_sequence
  <2>1. /\ r \in Requests /\ q \in Sequences /\ issued \in Nat /\ foreign \in Nat
        /\ Drawn \in 0 .. MaxSequence - 1
        /\ issued' = r /\ Drawn' = Drawn + 1
        /\ sequence' = [sequence EXCEPT ![r] = q]
        /\ requests' = [requests EXCEPT ![q] = r]
        /\ next_sequence' = NextSequenceNumber(q)
    BY <1>0, <1>1, PipelineAssumption, NoWrap
    DEF SendRequest, TypeOK, Requests, Drawn, NoWrap
  <2>2. \A p \in 1 .. issued : sequence'[p] = sequence[p] /\ sequence[p] # q
    <3>1. q = SequenceAt(Drawn)
      BY DEF SequencesFresh
    <3>2. ASSUME NEW p \in 1 .. issued PROVE sequence[p] # q
      <4>1. PICK k \in 0 .. Drawn - 1 : sequence[p] = SequenceAt(k)
        BY DEF SequencesFresh
      <4>2. k \in 0 .. MaxSequence - 1 /\ k # Drawn
        BY <2>1, <4>1, PipelineAssumption
      <4>3. QED
        BY <2>1, <3>1, <4>1, <4>2, SequenceAdvance
    <3>3. QED
      BY <1>0, <2>1, <3>2 DEF TypeOK
  <2>3. sequence'[r] = q
    BY <1>0, <2>1 DEF TypeOK
  <2>4. SequencesFresh'
    <3>1. next_sequence' = SequenceAt(Drawn)'
      BY <2>1, SequenceAdvance DEF SequencesFresh, SequenceAt
    <3>2. \A p \in 1 .. issued' : \E k \in 0 .. Drawn' - 1 : sequence'[p] = SequenceAt(k)'
      BY <2>1, <2>2, <2>3 DEF SequencesFresh, SequenceAt
    <3>3. \A p, t \in 1 .. issued' : sequence'[p] = sequence'[t] => p = t
      BY <2>1, <2>2, <2>3 DEF SequencesFresh
    <3>4. QED
      BY <3>1, <3>2, <3>3 DEF SequencesFresh
  <2>5. MessagesMatch'
    <3>1. \A s \in Outstanding' : sequence'[requests'[s]] = s
      <4>1. ASSUME NEW s \in Outstanding', s # q
            PROVE  sequence'[requests'[s]] = s
        <5>1. s \in Outstanding /\ requests'[s] = requests[s]
          BY <1>0, <2>1, <4>1 DEF Outstanding, TypeOK
        <5>2. QED
          BY <1>0, <2>2, <5>1, RecordsIssued DEF MessagesMatch
      <4>2. QED
        BY <1>0, <2>1, <2>3, <4>1 DEF TypeOK
    <3>2. \A m \in packets \union replies : m.req \in 1 .. issued
      BY <1>0 DEF MessagesMatch, TypeOK, Packets, Replies, Requests
    <3>3. \A m \in packets' \union replies' : m.req <= issued' /\ sequence'[m.req] = m.seq
      BY <1>1, <2>1, <2>2, <2>3, <3>2 DEF MessagesMatch, SendRequest
    <3>4. QED
      BY <1>1, <3>1, <3>3 DEF MessagesMatch, SendRequest
  <2>6. OwnAnswer' /\ OkMeansExecuted'
    BY <1>0, <1>1 DEF SendRequest, OwnAnswer, OkMeansExecuted, TypeOK
  <2>7. QED
    BY <1>0, <2>4, <2>5, <2>6
<1>2. CASE ForeignRequest
  <2>1. /\ Drawn \in 0 .. MaxSequence - 1 /\ Drawn' = Drawn + 1
        /\ next_sequence' = NextSequenceNumber(next_sequence)
        /\ UNCHANGED <<requests, sequence, issued, packets, replies, executed, outcome,
                      answered_by>>
    BY <1>0, <1>2, PipelineAssumption, NoWrap
    DEF ForeignRequest, TypeOK, Drawn, NoWrap
  <2>2. SequencesFresh'
    BY <2>1, SequenceAdvance DEF SequencesFresh, SequenceAt
  <2>3. MessagesMatch' /\ OwnAnswer' /\ OkMeansExecuted'
    BY <2>1 DEF MessagesMatch, OwnAnswer, OkMeansExecuted, Outstanding
  <2>4. QED
    BY <1>0, <2>2, <2>3
<1>3. CASE \/ FillWindow \/ LeaveWindow \/ Finish \/ FinishReturns \/ ReceiveRaises
           \/ Lose \/ UNCHANGED vars
  <2>1. /\ UNCHANGED <<sequence, next_sequence, issued, foreign, requests, executed,
                     outcome, answered_by>>
        /\ packets' \subseteq packets /\ replies' \subseteq replies
    BY <1>3 DEF FillWindow, LeaveWindow, Finish, FinishReturns, ReceiveRaises, Lose, vars
  <2>2. NothingDrawn /\ RecordsShrink /\ PacketsKnown /\ CallbacksMatch
    BY <2>1 DEF NothingDrawn, RecordsShrink, PacketsKnown, CallbacksMatch, Outstanding
  <2>3. RepliesKnown
    BY <2>1, NoNewReplies
  <2>4. QED
    BY <1>0, <2>1, <2>2, <2>3, MatchingKept
<1>4. ASSUME NEW pkt \in packets, NEW result \in Results, Serve(pkt, result)
      PROVE  Matching'
  <2>1. ASSUME NEW m \in replies', m \notin replies
        PROVE  m.seq = pkt.seq /\ m.req = pkt.req
               /\ (m.result = "ok" => m.req \in executed')
    <3>1. m = [seq |-> pkt.seq, req |-> pkt.req, result |-> result]
      BY <1>4, <2>1 DEF Serve
    <3>2. QED
      BY <1>4, <3>1 DEF Serve
  <2>2. NothingDrawn /\ RecordsShrink /\ PacketsKnown /\ CallbacksMatch
        /\ executed \subseteq executed'
    BY <1>4 DEF Serve, NothingDrawn, RecordsShrink, PacketsKnown, CallbacksMatch, Outstanding
  <2>3. RepliesKnown
    <3>1. ASSUME NEW m \in replies' \ replies
          PROVE  /\ \E p \in packets : m.seq = p.seq /\ m.req = p.req
                 /\ m.result = "ok" => m.req \in executed'
      BY <2>1
    <3>2. QED
      BY <3>1 DEF RepliesKnown
  <2>4. QED
    BY <1>0, <2>2, <2>3, MatchingKept
<1>5. ASSUME NEW rep \in replies,
             \/ SingleRetrieveUnmatched(rep)
             \/ SingleRetrieveAnswer(rep)
             \/ SingleRetrieveResend(rep)
             \/ SingleRetrieveExhausted(rep)
             \/ SingleRetrieveResendRaises(rep)
      PROVE  Matching'
  <2> DEFINE q == rep.seq
             r == requests[rep.seq]
  <2>0. q \in Sequences /\ NothingDrawn /\ UNCHANGED executed /\ replies' \subseteq replies
    BY <1>0, <1>5 DEF TypeOK, Replies, TakeReply, SingleRetrieveUnmatched,
       SingleRetrieveAnswer, SingleRetrieveResend, SingleRetrieveExhausted,
       SingleRetrieveResendRaises, NothingDrawn
  <2>1. q \in Sequences /\ NothingDrawn /\ RepliesKnown /\ UNCHANGED executed
    BY <2>0, NoNewReplies
  <2>2. CASE SingleRetrieveUnmatched(rep)
    <3>1. RecordsShrink /\ PacketsKnown /\ CallbacksMatch
      BY <2>2 DEF SingleRetrieveUnmatched, Outstanding, RecordsShrink, PacketsKnown,
         CallbacksMatch
    <3>2. QED
      BY <1>0, <2>1, <3>1, MatchingKept
  <2>3. CASE SingleRetrieveResend(rep)
    <3>1. q \in Outstanding /\ UNCHANGED <<outcome, answered_by>>
      BY <2>1, <2>3 DEF SingleRetrieveResend, Outstanding
    <3>2. RecordsShrink /\ CallbacksMatch
      BY <1>0, <2>3, <3>1 DEF SingleRetrieveResend, UpdateRecords, Outstanding, TypeOK,
         RecordsShrink, CallbacksMatch
    <3>3. PacketsKnown
      BY <2>3, <3>1 DEF SingleRetrieveResend, SendAgain, PacketsKnown
    <3>4. QED
      BY <1>0, <2>1, <3>1, <3>2, <3>3, MatchingKept
  <2>4. ASSUME r # NoRequest, packets' = packets, UpdateRecords({q}, {}, "code"),
               \/ PassReply(rep)
               \/ outcome' = [outcome EXCEPT ![r] = "failed"] /\ UNCHANGED answered_by
        PROVE  Matching'
    <3>1. q \in Outstanding
      BY <2>1, <2>4 DEF Outstanding
    <3>2. r = rep.req /\ r \in Requests
      BY <1>0, <3>1, ReplyMatches, RecordsIssued
    <3>3. RecordsShrink /\ PacketsKnown
      BY <1>0, <2>4 DEF UpdateRecords, Outstanding, TypeOK, RecordsShrink, PacketsKnown
    <3>4. \A p \in Requests : answered_by'[p] \in {answered_by[p], p}
      BY <1>0, <2>4, <3>2 DEF PassReply, TypeOK
    <3>5. \A p \in Requests : outcome'[p] = "ok" => outcome[p] = "ok" \/ p \in executed'
      BY <1>0, <2>1, <2>4, <3>2 DEF PassReply, TypeOK, MessagesMatch
    <3>6. CallbacksMatch
      BY <3>4, <3>5 DEF CallbacksMatch
    <3>7. QED
      BY <1>0, <2>1, <3>3, <3>6, MatchingKept
  <2>5. CASE SingleRetrieveAnswer(rep)
    BY <2>4, <2>5 DEF SingleRetrieveAnswer
  <2>6. CASE SingleRetrieveExhausted(rep)
    BY <2>4, <2>6 DEF SingleRetrieveExhausted, AfterFailedResend
  <2>7. CASE SingleRetrieveResendRaises(rep)
    BY <2>4, <2>7 DEF SingleRetrieveResendRaises, AfterFailedResend
  <2>8. QED
    BY <1>5, <2>2, <2>3, <2>5, <2>6, <2>7
<1>6. CASE HandleReceiveTimeout
  <2>1. PICK raising \in SUBSET (Outstanding \ Expired) :
          /\ UpdateRecords(Expired \union raising,
                           (Outstanding \ Expired) \ raising, "timeout")
          /\ SendAgain((Outstanding \ Expired) \ raising)
    BY <1>6 DEF HandleReceiveTimeout
  <2>2. RecordsShrink
    BY <1>0, <2>1 DEF UpdateRecords, Outstanding, TypeOK, RecordsShrink
  <2>3. PacketsKnown
    BY <2>1 DEF SendAgain, PacketsKnown
  <2>4. \A r \in Requests : outcome'[r] = "ok" => outcome[r] = "ok"
    BY <1>6 DEF HandleReceiveTimeout
  <2>5. NothingDrawn /\ RepliesKnown /\ UNCHANGED <<answered_by, executed>>
    BY <1>6, NoNewReplies DEF HandleReceiveTimeout, NothingDrawn
  <2>6. CallbacksMatch
    BY <2>4, <2>5 DEF CallbacksMatch
  <2>7. QED
    BY <1>0, <2>2, <2>3, <2>5, <2>6, MatchingKept
<1>7. QED
  BY <1>1, <1>2, <1>3, <1>4, <1>5, <1>6
  DEF Next, Pipeline, SingleRetrieve, Network, Terminated

\* As long as no more sequence numbers are drawn than there are, a callback gets
\* the reply made for its own request.
THEOREM AnswersSound ==
  ASSUME NoWrap
  PROVE  Spec => []OwnAnswer
  BY MatchingInit, MatchingStep, PTL DEF Spec, Matching

\* Under the same condition a request reported as done has been carried out.
THEOREM SuccessSound ==
  ASSUME NoWrap
  PROVE  Spec => []OkMeansExecuted
  BY MatchingInit, MatchingStep, PTL DEF Spec, Matching

-----------------------------------------------------------------------------
(* The pipeline implements RequestService.                                  *)

LEMMA CallerOrderInit == Init => CallerOrder
  BY DEF Init, CallerOrder

LEMMA CallerOrderStep == TypeOK /\ CallerOrder /\ [Next]_vars => CallerOrder'
<1> SUFFICES ASSUME TypeOK, CallerOrder, [Next]_vars PROVE CallerOrder'
  OBVIOUS
<1> USE DEF CallerOrder, windows, caller
<1>1. CASE SendRequest
  BY <1>1 DEF SendRequest, MeasureChannels
<1>2. CASE UNCHANGED <<n_channels, phase, issued>>
  BY <1>2
<1>3. CASE /\ UNCHANGED <<n_channels, issued>>
           /\ phase' \in {"window", "sending", "raised"}
  BY <1>3
<1>4. CASE Finish \/ FinishReturns
  BY <1>4 DEF Finish, FinishReturns
<1>5. ASSUME NEW rep \in replies,
             \/ SingleRetrieveUnmatched(rep)
             \/ SingleRetrieveAnswer(rep)
             \/ SingleRetrieveResend(rep)
             \/ SingleRetrieveExhausted(rep)
             \/ SingleRetrieveResendRaises(rep)
      PROVE  UNCHANGED <<n_channels, phase, issued>>
  BY <1>5 DEF SingleRetrieveUnmatched, SingleRetrieveAnswer, SingleRetrieveResend,
     SingleRetrieveExhausted, SingleRetrieveResendRaises
<1>6. QED
  BY <1>1, <1>2, <1>3, <1>4, <1>5
  DEF Next, Pipeline, SingleRetrieve, Network, Terminated, vars, FillWindow, LeaveWindow,
      HandleReceiveTimeout, ReceiveRaises, ForeignRequest, Lose, Serve

\* A change of one pending outcome is a step of the service.
LEMMA OneSettled ==
  ASSUME Accounting, NEW r \in Requests, outcome[r] = "pending",
         phase' = phase, phase \in {"window", "finishing"}, executed' = executed,
         NEW o \in {"ok", "excused", "failed"},
         outcome' = [outcome EXCEPT ![r] = o], o = "ok" => r \in executed
  PROVE  Service!Next
<1> USE DEF Requests, Service!Requests
<1>1. CASE o = "ok"
  BY <1>1 DEF Service!Next, Service!Succeed
<1>2. CASE o = "excused"
  BY <1>2 DEF Service!Next, Service!Excuse
<1>3. CASE o = "failed"
  <2> DEFINE how == [p \in {r} |-> "failed"]
  <2>1. {r} \in (SUBSET Service!Waiting) \ {{}}
    <3>1. r \in Service!Waiting
      BY DEF Service!Waiting
    <3>2. QED
      BY <3>1
  <2>0. how \in [{r} -> {"failed", "timedout"}]
    OBVIOUS
  <2>2. outcome' = [p \in Service!Requests |-> IF p \in {r} THEN how[p] ELSE outcome[p]]
    BY <1>3 DEF Accounting, TypeOK
  <2>3. Service!Fail
    BY <2>0, <2>1, <2>2 DEF Service!Fail
  <2>4. QED
    BY <2>3 DEF Service!Next
<1>4. QED
  BY <1>1, <1>2, <1>3

LEMMA ServiceStep ==
  ASSUME Matching, Accounting', CallerOrder, [Next]_vars
  PROVE  [Service!Next]_(Service!vars)
<1>0. Accounting /\ TypeOK
  BY DEF Matching, Accounting
<1> USE DEF records, windows, caller, told, Requests, Service!Requests
<1>1. CASE SendRequest
  <2> DEFINE r == issued + 1
  <2>1. r \in Requests /\ outcome[r] = "unsent"
    BY <1>0, <1>1, PipelineAssumption DEF SendRequest, TypeOK, Accounting, IssuedInOrder
  <2>2. \A p \in 1 .. r - 1 : outcome[p] # "unsent"
    BY <1>0, <2>1, PipelineAssumption DEF Accounting, IssuedInOrder, TypeOK
  <2>3. InitialChannels # Unmeasured
          => Service!Cardinality(Service!Waiting) < InitialChannels
    <3>1. Service!Cardinality(Service!Waiting) = Cardinality(Pending)
      <4>1. Service!Waiting = Pending
        BY DEF Service!Waiting, Pending
      <4>2. Service!Cardinality(Pending) = Cardinality(Pending)
        BY DEF Service!Cardinality, Cardinality
      <4>3. QED
        BY <4>1, <4>2
    <3>2. Cardinality(Pending) \in Nat /\ in_progress \in Int
      BY <1>0, PendingFinite DEF TypeOK
    <3>3. Cardinality(Pending) <= in_progress
      BY <1>0, <1>1, <3>2 DEF Accounting, PendingCounted, SendRequest
    <3>4. ASSUME InitialChannels # Unmeasured
          PROVE  n_channels = InitialChannels /\ in_progress < n_channels /\ n_channels \in Nat
      BY <1>0, <1>1, <3>4 DEF CallerOrder, SendRequest, HasFreeChannel, TypeOK
    <3>5. QED
      BY <3>1, <3>2, <3>3, <3>4
  <2>4. /\ outcome' = [outcome EXCEPT ![r] = "pending"]
        /\ executed' = executed
        /\ phase = "sending" /\ phase' \in {"sending", "raised"}
    BY <1>1 DEF SendRequest
  <2> HIDE DEF r
  <2>5. Service!Issue(r)
    BY <2>1, <2>2, <2>3, <2>4 DEF Service!Issue
  <2>6. QED
    BY <2>1, <2>5 DEF Service!Next
<1>2. CASE /\ UNCHANGED <<outcome, executed>>
           /\ phase' = phase \/ {phase, phase'} \subseteq {"sending", "window", "finishing"}
  BY <1>2 DEF Service!vars
<1>3. CASE ReceiveRaises
  BY <1>3 DEF ReceiveRaises, Retrieving, Service!Next, Service!Abandon
<1>4. CASE FinishReturns
  <2>1. Pending = {} /\ issued = NRequests
    BY <1>0, <1>4 DEF FinishReturns, Accounting, FinishHandledAll, Pending, CallerOrder
  <2>2. ASSUME NEW r \in Requests
        PROVE  outcome[r] \in Service!Final
    <3>1. outcome[r] \in Outcomes /\ outcome[r] # "pending"
      BY <1>0, <2>1 DEF Pending, TypeOK
    <3>2. outcome[r] # "unsent"
      BY <1>0, <2>1, PipelineAssumption DEF Accounting, IssuedInOrder
    <3>3. QED
      BY <3>1, <3>2 DEF Outcomes, Service!Final
  <2>3. QED
    BY <1>4, <2>2 DEF FinishReturns, Service!Next, Service!Finish
<1>5. ASSUME NEW pkt \in packets, NEW result \in Results, Serve(pkt, result)
      PROVE  [Service!Next]_(Service!vars)
  <2>1. pkt.req \in Requests /\ outcome[pkt.req] # "unsent"
    BY <1>0 DEF TypeOK, Packets, Matching, MessagesMatch, Accounting, IssuedInOrder
  <2>2. UNCHANGED <<outcome, phase>>
    BY <1>5 DEF Serve
  <2>3. CASE executed' = executed \union {pkt.req}
    BY <2>1, <2>2, <2>3 DEF Service!Next, Service!Execute
  <2>4. CASE executed' = executed
    BY <2>2, <2>4 DEF Service!vars
  <2>5. QED
    BY <1>5, <2>3, <2>4 DEF Serve
<1>6. ASSUME NEW rep \in replies,
             \/ SingleRetrieveAnswer(rep)
             \/ SingleRetrieveExhausted(rep)
             \/ SingleRetrieveResendRaises(rep)
      PROVE  [Service!Next]_(Service!vars)
  <2> DEFINE r == requests[rep.seq]
  <2>1. rep.seq \in Outstanding
    BY <1>0, <1>6 DEF TypeOK, Replies, Outstanding, SingleRetrieveAnswer,
       SingleRetrieveExhausted, SingleRetrieveResendRaises
  <2>2. r = rep.req /\ r \in Requests /\ outcome[r] = "pending"
    BY <1>0, <2>1, ReplyMatches, RecordsIssued DEF Accounting, RecordsArePending
  <2>3. phase' = phase /\ phase \in {"window", "finishing"} /\ executed' = executed
    BY <1>6 DEF SingleRetrieveAnswer, SingleRetrieveExhausted, SingleRetrieveResendRaises,
       TakeReply, Retrieving
  <2>4. rep.result = "ok" => r \in executed
    BY <2>2 DEF Matching, MessagesMatch
  <2>5. PICK o \in {"ok", "excused", "failed"} :
          outcome' = [outcome EXCEPT ![r] = o] /\ (o = "ok" => rep.result = "ok")
    <3>1. PassReply(rep) => \E o \in {"ok", "excused", "failed"} :
            outcome' = [outcome EXCEPT ![r] = o] /\ (o = "ok" => rep.result = "ok")
      BY DEF PassReply
    <3>2. QED
      BY <1>6, <3>1 DEF SingleRetrieveAnswer, SingleRetrieveExhausted,
         SingleRetrieveResendRaises, AfterFailedResend
  <2> HIDE DEF r
  <2>6. QED
    BY <1>0, <2>2, <2>3, <2>4, <2>5, OneSettled
<1>7. CASE HandleReceiveTimeout
  <2>1. PICK raising \in SUBSET (Outstanding \ Expired) :
          outcome' = [r \in Requests |->
                IF \E s \in Expired \union raising : requests[s] = r
                THEN IF \E s \in Expired : requests[s] = r
                                           /\ retry_reason[s] \subseteq {"timeout"}
                     THEN "timedout" ELSE "failed"
                ELSE outcome[r]]
    BY <1>7 DEF HandleReceiveTimeout
  <2> DEFINE gone == Expired \union raising
             S == {r \in Requests : \E s \in gone : requests[s] = r}
             how == [r \in S |-> outcome'[r]]
  <2>2. S \subseteq Service!Waiting
    BY <1>0 DEF Service!Waiting, Accounting, RecordsArePending, Expired
  <2>3. how \in [S -> {"failed", "timedout"}]
    BY <2>1
  <2>4. outcome' = [r \in Service!Requests |-> IF r \in S THEN how[r] ELSE outcome[r]]
    BY <2>1
  <2>5. phase' = phase /\ phase \in {"window", "finishing"} /\ executed' = executed
    BY <1>7 DEF HandleReceiveTimeout, Retrieving
  <2> HIDE DEF S, how
  <2>6. CASE S = {}
    BY <1>0, <2>4, <2>5, <2>6 DEF Service!vars, TypeOK
  <2>7. CASE S # {}
    <3>1. S \in (SUBSET Service!Waiting) \ {{}}
      BY <2>2, <2>7
    <3>2. Service!Fail
      BY <2>3, <2>4, <2>5, <3>1 DEF Service!Fail
    <3>3. QED
      BY <3>2 DEF Service!Next
  <2>8. QED
    BY <2>6, <2>7
<1>8. CASE Terminated \/ UNCHANGED vars
  BY <1>8, <1>2 DEF Terminated, vars
<1>9. ASSUME NEW rep \in replies, SingleRetrieveUnmatched(rep) \/ SingleRetrieveResend(rep)
      PROVE  [Service!Next]_(Service!vars)
  BY <1>2, <1>9 DEF SingleRetrieveUnmatched, SingleRetrieveResend
<1>10. CASE FillWindow \/ LeaveWindow \/ Finish \/ ForeignRequest \/ Lose
  BY <1>2, <1>10 DEF FillWindow, LeaveWindow, Finish, ForeignRequest, Lose
<1>11. QED
  BY <1>1, <1>3, <1>4, <1>5, <1>6, <1>7, <1>8, <1>9, <1>10
  DEF Next, Pipeline, SingleRetrieve, Network

\* Whatever the network, the board and the socket do, the caller of a pipeline
\* that does not use up the sequence numbers gets the service of RequestService.
THEOREM Implementation ==
  ASSUME NoWrap
  PROVE  Spec => ImplementsService
<1>1. Init => Service!Init
  BY DEF Init, Service!Init, Requests, Service!Requests
<1>2. Matching /\ Accounting' /\ CallerOrder /\ [Next]_vars => [Service!Next]_(Service!vars)
  BY ServiceStep
<1>3. Matching => Accounting /\ TypeOK
  BY DEF Matching, Accounting
<1>4. QED
  BY <1>1, <1>2, <1>3, MatchingInit, MatchingStep, AccountingStep, CallerOrderInit,
     CallerOrderStep, PTL
  DEF Spec, ImplementsService, Service!Spec
=============================================================================
