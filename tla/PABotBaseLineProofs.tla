------------------------ MODULE PABotBaseLineProofs ------------------------
(***************************************************************************)
(* The line between client and device, for any number of clients, any      *)
(* script, any limits, any number of lost messages and any number of times *)
(* that the wire number wraps around.                                      *)
(***************************************************************************)
EXTENDS PABotBaseLine, PABotBaseProofs

-----------------------------------------------------------------------------
(* Wire numbers.                                                           *)

LEMMA IntMultiples ==
    ASSUME NEW a \in Int, NEW b \in Int, a < b
    PROVE  SeqnumModulus * a + SeqnumModulus <= SeqnumModulus * b
<1>1. PICK j \in Nat : b = a + 1 + j
  <2>1. b - a - 1 \in Nat /\ b = a + 1 + (b - a - 1)
    OBVIOUS
  <2> QED BY <2>1
<1>2. SeqnumModulus * b = SeqnumModulus * a + SeqnumModulus + SeqnumModulus * j
  BY <1>1, SeqNumAssumption
<1>3. SeqnumModulus * j \in Nat /\ SeqnumModulus * a \in Int
  BY SeqNumAssumption
<1> QED BY <1>2, <1>3, SeqNumAssumption

\* A number is its epoch and a remainder in one way only.
LEMMA RemainderIsUnique ==
    ASSUME NEW x \in Int, NEW k \in Int, NEW r \in 0 .. (SeqnumModulus - 1),
           x = SeqnumModulus * k + r
    PROVE  x % SeqnumModulus = r
<1> DEFINE q == x \div SeqnumModulus
           w == x % SeqnumModulus
<1>1. q \in Int /\ w \in 0 .. (SeqnumModulus - 1) /\ x = SeqnumModulus * q + w
  BY SeqNumAssumption
<1> HIDE DEF q, w
<1>3. SeqnumModulus * q \in Int /\ SeqnumModulus * k \in Int
  BY <1>1, SeqNumAssumption
<1>4. ~ (q < k)
  <2>1. q < k => SeqnumModulus * q + SeqnumModulus <= SeqnumModulus * k
    BY <1>1, IntMultiples
  <2> QED BY <1>1, <1>3, <2>1, SeqNumAssumption
<1>5. ~ (k < q)
  <2>1. k < q => SeqnumModulus * k + SeqnumModulus <= SeqnumModulus * q
    BY <1>1, IntMultiples
  <2> QED BY <1>1, <1>3, <2>1, SeqNumAssumption
<1>6. q = k
  BY <1>1, <1>4, <1>5
<1>7. w = r
  BY <1>1, <1>3, <1>6, SeqNumAssumption
<1> QED BY <1>7 DEF w

LEMMA WireOfRemainder ==
    ASSUME NEW k \in Nat, NEW r \in 0 .. (SeqnumModulus - 1)
    PROVE  Wire(SeqnumModulus * k + r) = r
<1>1. SeqnumModulus * k + r \in Int
  BY SeqNumAssumption
<1> QED BY <1>1, RemainderIsUnique DEF Wire

\* The wire number of the next number.
LEMMA WireOfNext ==
    ASSUME NEW s \in Nat
    PROVE  Wire(Wire(s) + 1) = Wire(s + 1)
<1> DEFINE q == s \div SeqnumModulus
           w == Wire(s)
<1>1. q \in Nat /\ w \in 0 .. (SeqnumModulus - 1) /\ s = SeqnumModulus * q + w
  BY Division
<1> HIDE DEF q, w
<1>2. CASE w < SeqnumModulus - 1
  <2>1. w + 1 \in 0 .. (SeqnumModulus - 1) /\ s + 1 = SeqnumModulus * q + (w + 1)
    BY <1>1, <1>2, SeqNumAssumption
  <2>2. Wire(s + 1) = w + 1
    BY <1>1, <2>1, RemainderIsUnique DEF Wire
  <2>3. Wire(w + 1) = w + 1
    <3>1. w + 1 = SeqnumModulus * 0 + (w + 1)
      BY <2>1, SeqNumAssumption
    <3> QED BY <2>1, <3>1, RemainderIsUnique DEF Wire
  <2> QED BY <2>2, <2>3 DEF w
<1>3. CASE w = SeqnumModulus - 1
  <2>1. 0 \in 0 .. (SeqnumModulus - 1) /\ s + 1 = SeqnumModulus * (q + 1) + 0
    BY <1>1, <1>3, SeqNumAssumption
  <2>2. Wire(s + 1) = 0
    BY <1>1, <2>1, RemainderIsUnique DEF Wire
  <2>3. Wire(w + 1) = 0
    <3>1. w + 1 = SeqnumModulus * 1 + 0
      BY <1>3, SeqNumAssumption
    <3> QED BY <1>1, <2>1, <3>1, RemainderIsUnique DEF Wire
  <2> QED BY <2>2, <2>3 DEF w
<1> QED BY <1>1, <1>2, <1>3, SeqNumAssumption

\* The device's distance, of a number at or ahead of the one expected.
LEMMA DistanceAhead ==
    ASSUME NEW s \in Nat, NEW d \in Nat, d <= s, s - d < SeqnumModulus
    PROVE  (Wire(s) - Wire(d)) % SeqnumModulus = s - d
<1>1. /\ Wire(s) \in 0 .. (SeqnumModulus - 1) /\ Epoch(s) \in Nat /\ s = Epoch(s) + Wire(s)
      /\ Wire(d) \in 0 .. (SeqnumModulus - 1) /\ Epoch(d) \in Nat /\ d = Epoch(d) + Wire(d)
  BY Division
<1>2. Epoch(s) = Epoch(d) \/ Epoch(s) = Epoch(d) + SeqnumModulus
  BY AdjacentEpochs
<1>3. \E k \in Int : Wire(s) - Wire(d) = SeqnumModulus * k + (s - d)
  <2>1. CASE Epoch(s) = Epoch(d)
    <3>1. Wire(s) - Wire(d) = SeqnumModulus * 0 + (s - d)
      BY <1>1, <2>1, SeqNumAssumption
    <3> QED BY <3>1
  <2>2. CASE Epoch(s) = Epoch(d) + SeqnumModulus
    <3>1. Wire(s) - Wire(d) = SeqnumModulus * (-1) + (s - d)
      BY <1>1, <2>2, SeqNumAssumption
    <3> QED BY <3>1
  <2> QED BY <1>2, <2>1, <2>2
<1>4. s - d \in 0 .. (SeqnumModulus - 1) /\ Wire(s) - Wire(d) \in Int
  BY <1>1, SeqNumAssumption
<1> QED BY <1>3, <1>4, RemainderIsUnique

\* The device's distance, of a number behind the one expected.
LEMMA DistanceBehind ==
    ASSUME NEW s \in Nat, NEW d \in Nat, s < d, d - s < SeqnumModulus
    PROVE  (Wire(s) - Wire(d)) % SeqnumModulus = SeqnumModulus - (d - s)
<1>1. /\ Wire(s) \in 0 .. (SeqnumModulus - 1) /\ Epoch(s) \in Nat /\ s = Epoch(s) + Wire(s)
      /\ Wire(d) \in 0 .. (SeqnumModulus - 1) /\ Epoch(d) \in Nat /\ d = Epoch(d) + Wire(d)
  BY Division
<1>2. Epoch(d) = Epoch(s) \/ Epoch(d) = Epoch(s) + SeqnumModulus
  BY AdjacentEpochs
<1>3. \E k \in Int : Wire(s) - Wire(d) = SeqnumModulus * k + (SeqnumModulus - (d - s))
  <2>1. CASE Epoch(d) = Epoch(s)
    <3>1. Wire(s) - Wire(d) = SeqnumModulus * (-1) + (SeqnumModulus - (d - s))
      BY <1>1, <2>1, SeqNumAssumption
    <3> QED BY <3>1
  <2>2. CASE Epoch(d) = Epoch(s) + SeqnumModulus
    <3>1. Wire(s) - Wire(d) = SeqnumModulus * 0 + (SeqnumModulus - (d - s))
      BY <1>1, <2>2, SeqNumAssumption
    <3> QED BY <3>1
  <2> QED BY <1>2, <2>1, <2>2
<1>4. SeqnumModulus - (d - s) \in 0 .. (SeqnumModulus - 1) /\ Wire(s) - Wire(d) \in Int
  BY <1>1, SeqNumAssumption
<1> QED BY <1>3, <1>4, RemainderIsUnique

\* Within less than the modulus, the wire number says which number it is.
LEMMA WireIsInjective ==
    ASSUME NEW a \in Nat, NEW b \in Nat, a - b < SeqnumModulus, b - a < SeqnumModulus, Wire(a) = Wire(b)
    PROVE  a = b
<1>0. Wire(a) \in Int /\ 0 % SeqnumModulus = 0
  <2>1. 0 = SeqnumModulus * 0 + 0 /\ 0 \in 0 .. (SeqnumModulus - 1)
    BY SeqNumAssumption
  <2> QED BY <2>1, Division, RemainderIsUnique
<1>1. (Wire(a) - Wire(b)) % SeqnumModulus = 0
  <2>1. Wire(a) - Wire(b) = 0
    BY <1>0
  <2> QED BY <1>0, <2>1
<1>2. CASE b <= a
  BY <1>1, <1>2, DistanceAhead
<1>3. CASE a < b
  BY <1>1, <1>3, DistanceBehind, SeqNumAssumption
<1> QED BY <1>2, <1>3

\* The entry that is found has the wire number that came in.
LEMMA FoundHasWire ==
    ASSUME NEW n \in Nat, NEW map, DOMAIN map \subseteq 1 .. n, NEW q \in 0 .. (SeqnumModulus - 1),
           NEW s \in Found(map, q)
    PROVE  s \in DOMAIN map /\ Wire(s) = q
<1> DEFINE keys == DOMAIN map
<1>1. keys # {} /\ s \in keys /\ s = InferFullSeqnum(keys, q)
  BY DEF Found
<1>2. Min(keys) \in Nat /\ Max(keys) \in Nat
  <2>1. keys \subseteq Nat
    OBVIOUS
  <2>2. Min(keys) \in keys
    BY <1>1, <2>1, MinIsLeast
  <2>3. Max(keys) \in keys
    BY <1>1, MaxIsGreatest
  <2> QED BY <2>1, <2>2, <2>3
<1>3. ASSUME NEW k \in Nat PROVE Wire(Epoch(k) + q) = q
  <2>1. k \div SeqnumModulus \in Nat /\ Epoch(k) = SeqnumModulus * (k \div SeqnumModulus)
    BY Division
  <2> QED BY <2>1, WireOfRemainder
<1>4. Wire(InferFullSeqnum(keys, q)) = q
  BY <1>2, <1>3 DEF InferFullSeqnum
<1> QED BY <1>1, <1>4

\* An answer to number s finds the entry of s or none, as long as the client
\* has not gone the whole range ahead of s.
LEMMA FoundIsRight ==
    ASSUME TypeOK, WithinGap, QuarterOfRange, NEW map, DOMAIN map \subseteq Live,
           NEW s \in Nat, s <= m_send_seq, m_send_seq <= s + SeqnumModulus
    PROVE  Found(map, Wire(s)) \subseteq {s}
<1>1. SUFFICES ASSUME NEW k \in Found(map, Wire(s)) PROVE k = s
  OBVIOUS
<1>2. m_send_seq \in Nat /\ m_send_seq - 1 \in Nat /\ DOMAIN map \subseteq 1 .. (m_send_seq - 1)
  BY DEF TypeOK, Live
<1>3. Wire(s) \in 0 .. (SeqnumModulus - 1)
  BY Division
<1>4. k \in DOMAIN map /\ Wire(k) = Wire(s)
  BY <1>2, <1>3, FoundHasWire
<1>5. k \in Nat /\ k <= m_send_seq - 1 /\ m_send_seq - 1 - k <= MAX_SEQNUM_GAP
  BY <1>2, <1>4 DEF WithinGap
<1>6. k - s < SeqnumModulus /\ s - k < SeqnumModulus
  BY <1>2, <1>5, SeqNumAssumption DEF QuarterOfRange
<1> QED BY <1>4, <1>5, <1>6, WireIsInjective

-----------------------------------------------------------------------------
(* The steps, by what they do to the maps, the line and the device.        *)

\* A thread goes on, the line and what is pending stay as they are.
Silent ==
    \/ \E c \in Clients :
          \/ ClientCall(c) \/ SpuriousWakeup(c)
          \/ TryThrow(c) \/ TryRefused(c) \/ IssueSleep(c) \/ wait_for_all_requests(c)
          \/ StopNotify(c) \/ StopJoin(c) \/ StopConnection(c)
    \/ RetransmitExit \/ ReceiverNotify \/ UNCHANGED vars

clientView == <<m_send_seq, m_pending_requests, m_pending_commands, m_state, m_error, issued>>

\* The head of the line is lost, or is of no interest.
UpLoss   == toClient # <<>> /\ toClient' = Tail(toClient) /\ UNCHANGED <<clientView, threadVars, deviceVars, toDevice>>
DownLoss == toDevice # <<>> /\ toDevice' = Tail(toDevice) /\ UNCHANGED <<clientView, threadVars, deviceVars, toClient>>

\* The device does not process the head, and says so.
DeviceRefuses ==
    /\ DeviceReceive /\ IsNumbered(Head(toDevice))
    /\ \E m \in WireMessage({"ERROR_COMMAND_DROPPED", "ERROR_MISSED_REQUEST"}) : toClient' = Append(toClient, m)
    /\ UNCHANGED <<clientView, threadVars, deviceVars>>

ClientMove ==
    \/ Silent
    \/ \E c \in Clients : TryIssue(c) \/ clear_all_active_commands(c) \/ wait_for_request(c) \/ StopSend(c)
    \/ \E limit \in Live : Retransmit(limit)

LineMove ==
    \/ process_ack_request \/ process_ack_command \/ process_command_finished \/ MissedRequest
    \/ UpLoss \/ DownLoss

DeviceMove ==
    \/ DeviceSeqnumReset \/ DeviceProcess \/ DeviceRefuses \/ DeviceAckAgain
    \/ DeviceFinishAcked \/ DeviceFinish \/ \E s \in dev_finishing : DeviceResendFinish(s)

LEMMA SilentFrame ==
    ASSUME Silent
    PROVE  UNCHANGED <<m_send_seq, m_pending_requests, m_pending_commands, m_error, issued, toDevice, toClient, deviceVars>>
<1> USE DEF clientVars, pending, threadVars, deviceVars, line, used
<1>1. ASSUME NEW c \in Clients, ClientCall(c) \/ SpuriousWakeup(c)
      PROVE  UNCHANGED <<m_send_seq, m_pending_requests, m_pending_commands, m_error, issued, toDevice, toClient, deviceVars>>
  BY <1>1 DEF ClientCall, CallIssue, CallCancel, CallWaitForAll, CallStop, Call, SpuriousWakeup
<1>2. ASSUME NEW c \in Clients, TryThrow(c) \/ TryRefused(c) \/ IssueSleep(c) \/ wait_for_all_requests(c)
      PROVE  UNCHANGED <<m_send_seq, m_pending_requests, m_pending_commands, m_error, issued, toDevice, toClient, deviceVars>>
  BY <1>2 DEF TryThrow, TryRefused, IssueSleep, wait_for_all_requests
<1>3. ASSUME NEW c \in Clients, StopNotify(c) \/ StopJoin(c) \/ StopConnection(c)
      PROVE  UNCHANGED <<m_send_seq, m_pending_requests, m_pending_commands, m_error, issued, toDevice, toClient, deviceVars>>
  BY <1>3 DEF StopNotify, StopJoin, StopConnection
<1>4. CASE RetransmitExit \/ ReceiverNotify \/ UNCHANGED vars
  BY <1>4 DEF RetransmitExit, ReceiverNotify, vars
<1> QED BY <1>1, <1>2, <1>3, <1>4 DEF Silent

LEMMA Steps ==
    ASSUME TypeOK, [Next]_vars, restarts' = 0
    PROVE  restarts = 0 /\ (ClientMove \/ LineMove \/ DeviceMove)
<1> USE DEF clientVars, clientView, pending, threadVars, deviceVars, line, used
<1>1. ASSUME NEW c \in Clients, ClientCall(c) \/ SpuriousWakeup(c)
      PROVE  restarts' = restarts /\ Silent
  <2>1. UNCHANGED used
    BY <1>1 DEF ClientCall, CallIssue, CallCancel, CallWaitForAll, CallStop, Call, SpuriousWakeup
  <2> QED BY <1>1, <2>1 DEF Silent
<1>2. ASSUME NEW c \in Clients, ClientStep(c)
      PROVE  restarts' = restarts /\ ClientMove
  <2>1. CASE TryThrow(c) \/ TryRefused(c) \/ IssueSleep(c) \/ wait_for_all_requests(c)
    <3>1. UNCHANGED used
      BY <2>1 DEF TryThrow, TryRefused, IssueSleep, wait_for_all_requests
    <3> QED BY <2>1, <3>1 DEF ClientMove, Silent
  <2>2. CASE StopNotify(c) \/ StopJoin(c) \/ StopConnection(c)
    <3>1. UNCHANGED used
      BY <2>2 DEF StopNotify, StopJoin, StopConnection
    <3> QED BY <2>2, <3>1 DEF ClientMove, Silent
  <2>3. CASE TryIssue(c) \/ clear_all_active_commands(c) \/ wait_for_request(c) \/ StopSend(c)
    <3>1. UNCHANGED used
      BY <2>3 DEF TryIssue, clear_all_active_commands, wait_for_request, StopSend
    <3> QED BY <2>3, <3>1 DEF ClientMove
  <2> QED BY <1>2, <2>1, <2>2, <2>3 DEF ClientStep
<1>3. ASSUME NEW limit \in Live, Retransmit(limit)
      PROVE  restarts' = restarts /\ ClientMove
  BY <1>3 DEF Retransmit, ClientMove
<1>4. CASE RetransmitExit \/ UNCHANGED vars
  BY <1>4 DEF RetransmitExit, vars, ClientMove, Silent
<1>5. CASE ReceiverStep
  <2>1. CASE process_ack_request \/ process_ack_command \/ process_command_finished \/ MissedRequest
    BY <2>1 DEF process_ack_request, process_ack_command, process_command_finished, MissedRequest, LineMove
  <2>2. CASE IgnoreMessage
    BY <2>2 DEF IgnoreMessage, Receive, LineMove, UpLoss
  <2>3. CASE ReceiverNotify
    BY <2>3 DEF ReceiverNotify, ClientMove, Silent
  <2> QED BY <1>5, <2>1, <2>2, <2>3 DEF ReceiverStep
<1>6. CASE DeviceStep
  <2>1. restarts' = restarts
    BY <1>6 DEF DeviceStep, DeviceInput, DeviceSeqnumReset, DeviceProcess, DeviceDropCommand, DeviceAckAgain,
                DeviceMissed, DeviceFinishAcked, DeviceFinish, DeviceResendFinish, DeviceUnchanged
  <2>2. CASE DeviceDropCommand
    <3>1. DeviceReceive /\ Head(toDevice) \in WireMessage(MessageTypes) /\ IsNumbered(Head(toDevice))
      BY <2>2 DEF DeviceDropCommand, DeviceReceive, IsNumbered, TypeOK
    <3> DEFINE m == [type |-> "ERROR_COMMAND_DROPPED", seq |-> Head(toDevice).seq, id |-> Head(toDevice).id]
    <3>2. m \in WireMessage({"ERROR_COMMAND_DROPPED", "ERROR_MISSED_REQUEST"})
      BY <3>1 DEF WireMessage
    <3>3. toClient' = Append(toClient, m) /\ UNCHANGED <<clientView, threadVars, deviceVars>>
      BY <2>2 DEF DeviceDropCommand, Reply, DeviceUnchanged
    <3> QED BY <2>1, <3>1, <3>2, <3>3 DEF DeviceRefuses, DeviceMove
  <2>3. CASE DeviceMissed
    <3> DEFINE m == [type |-> "ERROR_MISSED_REQUEST", seq |-> dev_expected, id |-> 0]
    <3>2. m \in WireMessage({"ERROR_COMMAND_DROPPED", "ERROR_MISSED_REQUEST"})
      BY DEF WireMessage, TypeOK
    <3>3. toClient' = Append(toClient, m) /\ UNCHANGED <<clientView, threadVars, deviceVars>>
      BY <2>3 DEF DeviceMissed, DeviceUnchanged
    <3> QED BY <2>1, <2>3, <3>2, <3>3 DEF DeviceMissed, DeviceRefuses, DeviceMove
  <2> QED BY <1>6, <2>1, <2>2, <2>3 DEF DeviceStep, DeviceInput, DeviceMove
<1>7. CASE Environment
  <2>1. ~ DeviceRestart
    BY DEF DeviceRestart, TypeOK
  <2> QED BY <1>7, <2>1 DEF Environment, LoseToDevice, LoseToClient, LineMove, UpLoss, DownLoss
<1>8. Silent => ClientMove
  BY DEF ClientMove
<1> QED BY <1>1, <1>2, <1>3, <1>4, <1>5, <1>6, <1>7, <1>8 DEF Next

-----------------------------------------------------------------------------
(* What the parts of the invariant are about: the line, the history and    *)
(* the threads, and how a step changes them.                               *)

LEMMA TailOf ==
    ASSUME NEW S, NEW q \in Seq(S), q # <<>>
    PROVE  /\ 1 \in DOMAIN q /\ Head(q) = q[1] /\ q[1] \in S
           /\ \A i \in DOMAIN q : i \in Nat \ {0}
           /\ \A i \in DOMAIN Tail(q) : i \in Nat \ {0} /\ i + 1 \in DOMAIN q /\ Tail(q)[i] = q[i + 1]
OBVIOUS

LEMMA AppendOf ==
    ASSUME NEW S, NEW q \in Seq(S), NEW e
    PROVE  /\ \A i \in DOMAIN q : i \in Nat \ {0} /\ i < Len(q) + 1
           /\ \A i \in DOMAIN Append(q, e) :
                 \/ i \in DOMAIN q /\ Append(q, e)[i] = q[i]
                 \/ i = Len(q) + 1 /\ Append(q, e)[i] = e
           /\ Len(q) + 1 \in DOMAIN Append(q, e) /\ Append(q, e)[Len(q) + 1] = e
           /\ DOMAIN q \subseteq DOMAIN Append(q, e)
OBVIOUS

\* Where the client and the device are in the numbers.
LEMMA Positions ==
    ASSUME TypeOK, Numbers
    PROVE  /\ m_send_seq \in Nat \ {0} /\ MAX_SEQNUM_GAP \in Nat /\ SeqnumModulus \in Nat \ {0}
           /\ Turn \in Nat /\ Turn >= 2 /\ Top \in Nat /\ Turn <= Top + 1
           /\ IF m_send_seq = 1 THEN Top = 1 ELSE Top = m_send_seq - 1 \/ (m_state # "RUNNING" /\ Top = m_send_seq)
<1>1. m_send_seq \in Nat \ {0} /\ issued \in Seq(Record) /\ executed \in Seq(Record)
  BY DEF TypeOK
<1>2. /\ Len(executed) <= Len(issued)
      /\ IF m_send_seq = 1 THEN issued = <<>> ELSE Len(issued) = m_send_seq - 2 \/ (Len(issued) = m_send_seq - 1 /\ m_state # "RUNNING")
  BY DEF Numbers
<1> QED BY <1>1, <1>2, SeqNumAssumption DEF Turn, Top

LEMMA HistoryKept ==
    ASSUME UNCHANGED <<issued, executed>>
    PROVE  Turn' = Turn /\ Top' = Top /\ \A s : TypeOf(s)' = TypeOf(s)
BY DEF Turn, Top, TypeOf

LEMMA HistoryGrows ==
    ASSUME TypeOK, UNCHANGED executed,
           NEW type, issued' = Append(issued, [seq |-> m_send_seq, type |-> type])
    PROVE  /\ Turn' = Turn /\ Top' = Top + 1
           /\ \A s \in 2 .. Top : TypeOf(s)' = TypeOf(s)
           /\ \A s : s = Top + 1 => TypeOf(s)' = type
<1>1. issued \in Seq(Record)
  BY DEF TypeOK
<1>2. Len(issued') = Len(issued) + 1 /\ issued'[Len(issued) + 1].type = type /\ Len(issued) \in Nat
  BY <1>1
<1>3. ASSUME NEW s \in 2 .. Top PROVE issued'[s - 1] = issued[s - 1]
  <2>1. s - 1 \in 1 .. Len(issued)
    BY <1>2 DEF Top
  <2> QED BY <1>1, <2>1
<1>4. Top' = Top + 1 /\ (Top + 1) - 1 = Len(issued) + 1
  BY <1>2 DEF Top
<1>5. ASSUME NEW s, s = Top + 1 PROVE TypeOf(s)' = type
  BY <1>2, <1>4, <1>5 DEF TypeOf
<1>6. Turn' = Turn
  BY DEF Turn
<1>7. ASSUME NEW s \in 2 .. Top PROVE TypeOf(s)' = TypeOf(s)
  BY <1>3 DEF TypeOf
<1> QED BY <1>4, <1>5, <1>6, <1>7

LEMMA TypeOfNumber ==
    ASSUME TypeOK, Numbers, NEW s \in 2 .. Top
    PROVE  TypeOf(s) \in NumberedTypes
<1>1. issued \in Seq(Record) /\ s - 1 \in DOMAIN issued
  BY DEF TypeOK, Top
<1> QED BY <1>1 DEF Numbers, TypeOf

\* notify_all() wakes waiting threads only.
LEMMA NotifyKeeps ==
    ASSUME NEW pcs \in [Clients -> Labels], NEW d \in Clients
    PROVE  /\ notify_all(pcs)[d] \in SendLabels <=> pcs[d] \in SendLabels
           /\ notify_all(pcs)[d] = "clear" <=> pcs[d] = "clear"
           /\ notify_all(pcs)[d] \in StopLabels \/ pcs[d] \in StopLabels => notify_all(pcs)[d] = pcs[d]
BY DEF notify_all, SendLabels, StopLabels, Labels

\* The threads of a silent step: who is about to send, to clear, to stop.
SendersKept ==
    \A d \in Clients : pc'[d] \in SendLabels => pc[d] \in SendLabels /\ op'[d] = op[d]
SenderCame ==
    \E c \in Clients :
        /\ IF op'[c] = "connect" THEN m_send_seq = 1 /\ Sending = {} ELSE Connected
        /\ \A d \in Clients \ {c} : pc'[d] = pc[d] /\ op'[d] = op[d]
ClearersKept ==
    \A d \in Clients : (pc'[d] = "clear" <=> pc[d] = "clear") /\ (pc[d] = "clear" => seq'[d] = seq[d])
StopKept ==
    /\ m_state' = m_state
    /\ \A d \in Clients :
          /\ pc'[d] \in StopLabels => pc[d] \in StopLabels
          /\ pc'[d] \in {"stop_notify", "stop_join", "stop_send"} => pc[d] \in {"stop_notify", "stop_join", "stop_send"}
StopCame ==
    /\ m_state = "RUNNING" /\ m_state' = "STOPPING" /\ Connected
    /\ \E c \in Clients : \A d \in Clients \ {c} : pc'[d] = pc[d]
StopWent ==
    /\ m_state' = "STOPPED"
    /\ \E c \in Clients : /\ pc[c] = "stop_connection" /\ pc'[c] = "idle"
                          /\ \A d \in Clients \ {c} : pc'[d] = pc[d]

ThreadsMove ==
    /\ SendersKept \/ SenderCame
    /\ ClearersKept
    /\ StopKept \/ StopCame \/ StopWent

LEMMA SilentThreads ==
    ASSUME TypeOK, Silent
    PROVE  ThreadsMove
<1> USE DEF clientVars, pending, threadVars, Goto, Return
<1>0. pc \in [Clients -> Labels] /\ op \in [Clients -> Operations \cup {"none"}] /\ seq \in [Clients -> Nat]
  BY DEF TypeOK
<1>1. ASSUME NEW c \in Clients, CallIssue(c) \/ CallCancel(c) \/ CallWaitForAll(c) PROVE ThreadsMove
  <2>1. /\ pc[c] = "idle" /\ pc' = [pc EXCEPT ![c] = pc'[c]] /\ pc'[c] \in {"try", "all"}
        /\ op' = [op EXCEPT ![c] = op'[c]] /\ seq' = seq /\ m_state' = m_state
        /\ IF op'[c] = "connect" THEN m_send_seq = 1 /\ Sending = {} ELSE Connected
    BY <1>0, <1>1 DEF CallIssue, CallCancel, CallWaitForAll, Call
  <2>2. SenderCame
    BY <1>0, <2>1 DEF SenderCame
  <2>3. ClearersKept /\ StopKept
    BY <1>0, <2>1 DEF ClearersKept, StopKept, StopLabels
  <2> QED BY <2>2, <2>3 DEF ThreadsMove
<1>2. ASSUME NEW c \in Clients, CallStop(c) PROVE ThreadsMove
  <2>1. /\ pc[c] = "idle" /\ pc' = [pc EXCEPT ![c] = "stop_notify"] /\ op' = [op EXCEPT ![c] = "stop"] /\ seq' = seq
        /\ m_state = "RUNNING" /\ m_state' = "STOPPING" /\ Connected
    BY <1>2 DEF CallStop, Call
  <2>2. SendersKept /\ ClearersKept
    BY <1>0, <2>1 DEF SendersKept, ClearersKept, SendLabels
  <2>3. StopCame
    BY <1>0, <2>1 DEF StopCame
  <2> QED BY <2>2, <2>3 DEF ThreadsMove
<1>3. ASSUME NEW c \in Clients, TryThrow(c) \/ TryRefused(c) \/ IssueSleep(c) \/ wait_for_all_requests(c)
      PROVE  ThreadsMove
  <2>1. /\ pc[c] \in {"try", "sleep", "all"} /\ pc' = [pc EXCEPT ![c] = pc'[c]] /\ m_state' = m_state
        /\ \A d \in Clients \ {c} : op'[d] = op[d] /\ seq'[d] = seq[d]
        /\ \/ pc'[c] = "idle"
           \/ pc[c] = "try" /\ pc'[c] = "sleep" /\ op'[c] = op[c]
           \/ pc[c] = "sleep" /\ pc'[c] = "issue_wait" /\ op'[c] = op[c]
           \/ pc[c] = "all" /\ pc'[c] = "all_wait" /\ op'[c] = op[c]
    BY <1>0, <1>3 DEF TryThrow, TryRefused, IssueSleep, wait_for_all_requests
  <2>2. SendersKept
    BY <1>0, <2>1 DEF SendersKept, SendLabels
  <2>3. ClearersKept /\ StopKept
    BY <1>0, <2>1 DEF ClearersKept, StopKept, StopLabels
  <2> QED BY <2>2, <2>3 DEF ThreadsMove
<1>4. ASSUME UNCHANGED <<op, seq, m_state>>,
             \A d \in Clients : pc'[d] \in {pc[d], notify_all(pc)[d]}
      PROVE  ThreadsMove
  <2>1. SendersKept
    BY <1>0, <1>4, NotifyKeeps DEF SendersKept
  <2>2. ClearersKept
    BY <1>0, <1>4, NotifyKeeps DEF ClearersKept
  <2>3. StopKept
    <3>1. ASSUME NEW d \in Clients, pc'[d] \in StopLabels PROVE pc[d] = pc'[d]
      BY <1>0, <1>4, <3>1, NotifyKeeps
    <3> QED BY <1>4, <3>1 DEF StopKept, StopLabels
  <2> QED BY <2>1, <2>2, <2>3 DEF ThreadsMove
<1>5. ASSUME NEW c \in Clients, SpuriousWakeup(c) PROVE ThreadsMove
  BY <1>0, <1>4, <1>5 DEF SpuriousWakeup
<1>6. ASSUME NEW c \in Clients, StopNotify(c) PROVE ThreadsMove
  <2>1. /\ pc[c] = "stop_notify" /\ pc' = [notify_all(pc) EXCEPT ![c] = "stop_join"]
        /\ UNCHANGED <<op, seq, m_state>>
    BY <1>6 DEF StopNotify
  <2>2. /\ pc'[c] = "stop_join" /\ \A d \in Clients \ {c} : pc'[d] = notify_all(pc)[d]
    BY <1>0, <2>1, NotifyAllType
  <2>3. SendersKept /\ ClearersKept
    BY <1>0, <2>1, <2>2, NotifyKeeps DEF SendersKept, ClearersKept, SendLabels
  <2>4. ASSUME NEW d \in Clients, pc'[d] \in StopLabels PROVE d = c \/ pc[d] = pc'[d]
    BY <1>0, <2>2, <2>4, NotifyKeeps
  <2>5. StopKept
    BY <2>1, <2>2, <2>4 DEF StopKept, StopLabels
  <2> QED BY <2>3, <2>5 DEF ThreadsMove
<1>7. ASSUME NEW c \in Clients, StopJoin(c) PROVE ThreadsMove
  <2>1. pc[c] = "stop_join" /\ pc' = [pc EXCEPT ![c] = "stop_send"] /\ UNCHANGED <<op, seq, m_state>>
    BY <1>7 DEF StopJoin
  <2> QED BY <1>0, <2>1 DEF ThreadsMove, SendersKept, ClearersKept, StopKept, SendLabels, StopLabels
<1>8. ASSUME NEW c \in Clients, StopConnection(c) PROVE ThreadsMove
  <2>1. /\ pc[c] = "stop_connection" /\ pc' = [pc EXCEPT ![c] = "idle"] /\ m_state' = "STOPPED"
        /\ op' = [op EXCEPT ![c] = "none"] /\ seq' = [seq EXCEPT ![c] = 0]
    BY <1>8 DEF StopConnection
  <2> QED BY <1>0, <2>1 DEF ThreadsMove, SendersKept, ClearersKept, StopWent, SendLabels
<1>9. CASE RetransmitExit \/ ReceiverNotify \/ UNCHANGED vars
  BY <1>0, <1>4, <1>9 DEF RetransmitExit, ReceiverNotify, vars
<1> QED BY <1>1, <1>2, <1>3, <1>5, <1>6, <1>7, <1>8, <1>9 DEF Silent, ClientCall

\* What the steps of a client that are not silent do, beyond the maps.
LEMMA IssueEffect ==
    ASSUME TypeOK, Handshake, Numbers, NEW c \in Clients, TryIssue(c)
    PROVE  /\ m_state = "RUNNING" /\ ~ m_error /\ pc[c] = "try" /\ m_send_seq' = m_send_seq + 1
           /\ UNCHANGED <<m_state, m_error, toClient, dev_expected, dev_queue, dev_interrupt, dev_finishing, executed>>
           /\ \A d \in Clients \ {c} : pc'[d] = pc[d] /\ op'[d] = op[d] /\ seq'[d] = seq[d]
           /\ toDevice' = Append(toDevice, Message(MessageType(op[c]), m_send_seq))
           /\ \/ /\ op[c] = "connect" /\ m_send_seq = 1 /\ pc'[c] = "reply" /\ UNCHANGED <<issued, m_pending_commands>>
                 /\ m_pending_requests' = Emplace(m_pending_requests, m_send_seq,
                        [state |-> "NOT_ACKED", silent |-> FALSE, type |-> "SEQNUM_RESET"])
              \/ /\ op[c] # "connect" /\ m_send_seq > 1 /\ 1 \notin DOMAIN m_pending_requests
                 /\ MessageType(op[c]) \in NumberedTypes
                 /\ issued' = Append(issued, [seq |-> m_send_seq, type |-> MessageType(op[c])])
                 /\ IF MessageType(op[c]) \in ClearTypes
                    THEN pc'[c] = "clear" /\ seq'[c] = m_send_seq
                    ELSE pc'[c] \in {"reply", "idle"}
                 /\ \/ /\ MessageType(op[c]) # "COMMAND" /\ UNCHANGED m_pending_commands
                       /\ \E entry : /\ m_pending_requests' = Emplace(m_pending_requests, m_send_seq, entry)
                                     /\ entry.state = "NOT_ACKED" /\ entry.type = MessageType(op[c])
                                     /\ entry.type \in ClearTypes => entry.silent
                    \/ /\ MessageType(op[c]) = "COMMAND" /\ UNCHANGED m_pending_requests /\ op[c] \in CommandOps
                       /\ m_pending_commands' = Emplace(m_pending_commands, m_send_seq, [state |-> "NOT_ACKED", type |-> "COMMAND"])
<1> DEFINE type == MessageType(op[c])
<1>0. pc \in [Clients -> Labels] /\ op \in [Clients -> Operations \cup {"none"}] /\ seq \in [Clients -> Nat]
      /\ m_send_seq \in Nat \ {0} /\ m_state \in {"RUNNING", "STOPPING", "STOPPED"} /\ m_error \in BOOLEAN
  BY DEF TypeOK
<1>1. /\ m_state = "RUNNING" /\ ~ m_error /\ pc[c] = "try" /\ m_send_seq' = m_send_seq + 1
      /\ UNCHANGED <<m_state, m_error, toClient, dev_expected, dev_queue, dev_interrupt, dev_finishing, executed>>
      /\ toDevice' = Append(toDevice, Message(type, m_send_seq))
      /\ issued' = IF type = "SEQNUM_RESET" THEN issued ELSE Append(issued, [seq |-> m_send_seq, type |-> type])
  BY DEF TryIssue, Rejected, deviceVars
<1>2. IF op[c] = "connect" THEN m_send_seq = 1 ELSE Connected
  BY <1>1 DEF Handshake, ConnectComesFirst, SendLabels
<1>3. \A d \in Clients \ {c} : pc'[d] = pc[d] /\ op'[d] = op[d] /\ seq'[d] = seq[d]
  <2>1. \/ Goto(c, "clear", pc) /\ seq' = [seq EXCEPT ![c] = m_send_seq] /\ UNCHANGED op
        \/ Goto(c, "reply", pc) /\ seq' = [seq EXCEPT ![c] = m_send_seq] /\ UNCHANGED op
        \/ Return(c, pc)
    BY DEF TryIssue
  <2> QED BY <1>0, <2>1 DEF Goto, Return
<1>4. /\ type = "SEQNUM_RESET" <=> op[c] = "connect"
      /\ type = "COMMAND" <=> op[c] \in CommandOps
      /\ type \in ClearTypes <=> op[c] \in ClearOps
      /\ type # "ACK_REQUEST"
  BY DEF MessageType, ClearTypes, ClearOps, StopOps, InterruptOps, CommandOps
<1>5. ClearOps \cap WaitedOps = {} /\ "connect" \in WaitedOps /\ "connect" \notin ClearOps /\ "connect" \notin CommandOps
  BY DEF ClearOps, StopOps, InterruptOps, WaitedOps, CommandOps
<1>6. IF type \in ClearTypes THEN pc'[c] = "clear" /\ seq'[c] = m_send_seq ELSE pc'[c] \in {"reply", "idle"}
  <2>1. \/ op[c] \in ClearOps /\ Goto(c, "clear", pc) /\ seq' = [seq EXCEPT ![c] = m_send_seq]
        \/ op[c] \notin ClearOps /\ Goto(c, "reply", pc)
        \/ op[c] \notin ClearOps /\ Return(c, pc)
    BY <1>5 DEF TryIssue
  <2> QED BY <1>0, <1>4, <2>1 DEF Goto, Return
<1>7. CASE op[c] = "connect"
  <2>1. pc'[c] = "reply"
    <3>1. Goto(c, "reply", pc)
      BY <1>5, <1>7 DEF TryIssue
    <3> QED BY <1>0, <3>1 DEF Goto
  <2>2. m_pending_requests' = Emplace(m_pending_requests, m_send_seq, [state |-> "NOT_ACKED", silent |-> FALSE, type |-> type])
        /\ UNCHANGED m_pending_commands
    BY <1>5, <1>7 DEF TryIssue
  <2> QED BY <1>1, <1>2, <1>3, <1>4, <1>7, <2>1, <2>2
<1>8. CASE op[c] # "connect"
  <2>1. m_send_seq > 1 /\ 1 \notin DOMAIN m_pending_requests
    BY <1>2, <1>8 DEF Connected
  <2>2. type \in NumberedTypes
    BY <1>4, <1>8, MessageTypeType DEF NumberedTypes
  <2>3. CASE op[c] \in CommandOps
    <3>1. m_pending_commands' = Emplace(m_pending_commands, m_send_seq, [state |-> "NOT_ACKED", type |-> type])
          /\ UNCHANGED m_pending_requests
      BY <2>3 DEF TryIssue
    <3> QED BY <1>1, <1>3, <1>4, <1>6, <1>8, <2>1, <2>2, <2>3, <3>1
  <2>4. CASE op[c] \notin CommandOps
    <3> DEFINE entry == [state |-> "NOT_ACKED", silent |-> op[c] \notin WaitedOps, type |-> type]
    <3>1. m_pending_requests' = Emplace(m_pending_requests, m_send_seq, entry) /\ UNCHANGED m_pending_commands
      BY <2>4 DEF TryIssue
    <3>2. entry.state = "NOT_ACKED" /\ entry.type = type /\ (entry.type \in ClearTypes => entry.silent)
      BY <1>4, <1>5
    <3>3. \E e : /\ m_pending_requests' = Emplace(m_pending_requests, m_send_seq, e)
                 /\ e.state = "NOT_ACKED" /\ e.type = type
                 /\ e.type \in ClearTypes => e.silent
      BY <3>1, <3>2
    <3> HIDE DEF entry
    <3> QED BY <1>1, <1>3, <1>4, <1>6, <1>8, <2>1, <2>2, <2>4, <3>1, <3>3
  <2> QED BY <2>3, <2>4
<1> QED BY <1>7, <1>8

\* A thread clears, or stops waiting, and wakes the others.
LEMMA ClearEffect ==
    ASSUME TypeOK, NEW c \in Clients, clear_all_active_commands(c)
    PROVE  /\ UNCHANGED <<m_send_seq, m_pending_requests, m_state, m_error, issued, toDevice, toClient, deviceVars>>
           /\ m_pending_commands' = Erase(m_pending_commands, {s \in DOMAIN m_pending_commands : s <= seq[c]})
           /\ pc[c] = "clear" /\ pc'[c] = "idle"
           /\ \A d \in Clients \ {c} : pc'[d] = notify_all(pc)[d] /\ op'[d] = op[d] /\ seq'[d] = seq[d]
<1>1. pc \in [Clients -> Labels] /\ op \in [Clients -> Operations \cup {"none"}] /\ seq \in [Clients -> Nat]
  BY DEF TypeOK
<1>2. notify_all(pc) \in [Clients -> Labels]
  BY <1>1, NotifyAllType
<1> QED BY <1>1, <1>2 DEF clear_all_active_commands, Return, Goto, line

\* A reply that was awaited goes, with the entry, unless it is still out.
LEMMA ReplyEffect ==
    ASSUME TypeOK, NEW c \in Clients, wait_for_request(c)
    PROVE  /\ UNCHANGED <<m_send_seq, m_pending_commands, m_state, m_error, issued, toDevice, toClient, deviceVars>>
           /\ pc[c] = "reply" /\ pc'[c] \in {"idle", "reply_wait"}
           /\ \A d \in Clients \ {c} : pc'[d] \in {pc[d], notify_all(pc)[d]} /\ op'[d] = op[d] /\ seq'[d] = seq[d]
           /\ \/ UNCHANGED m_pending_requests
              \/ /\ m_pending_requests' = Erase(m_pending_requests, {seq[c]})
                 /\ seq[c] \in DOMAIN m_pending_requests
                 /\ m_state # "RUNNING" \/ m_error \/ m_pending_requests[seq[c]].state = "ACKED"
<1>1. pc \in [Clients -> Labels] /\ op \in [Clients -> Operations \cup {"none"}] /\ seq \in [Clients -> Nat]
  BY DEF TypeOK
<1>2. notify_all(pc) \in [Clients -> Labels]
  BY <1>1, NotifyAllType
<1>3. UNCHANGED <<m_send_seq, m_pending_commands, m_state, m_error, issued, toDevice, toClient, deviceVars>> /\ pc[c] = "reply"
  BY DEF wait_for_request, line
<1>4. CASE seq[c] \notin DOMAIN m_pending_requests
  BY <1>1, <1>3, <1>4 DEF wait_for_request, Return, Goto
<1>5. CASE seq[c] \in DOMAIN m_pending_requests
  BY <1>1, <1>2, <1>3, <1>5 DEF wait_for_request, Return, Goto
<1> QED BY <1>4, <1>5

LEMMA StopSendEffect ==
    ASSUME TypeOK, Handshake, Numbers, NEW c \in Clients, StopSend(c)
    PROVE  /\ UNCHANGED <<m_send_seq, m_pending_requests, m_pending_commands, m_state, m_error, op, seq, toClient, deviceVars>>
           /\ toDevice' = Append(toDevice, Message("REQUEST_STOP", m_send_seq))
           /\ issued' = Append(issued, [seq |-> m_send_seq, type |-> "REQUEST_STOP"])
           /\ m_state = "STOPPING" /\ m_send_seq > 1 /\ 1 \notin DOMAIN m_pending_requests /\ Len(issued) = m_send_seq - 2
           /\ pc[c] = "stop_send" /\ pc'[c] = "stop_connection" /\ \A d \in Clients \ {c} : pc'[d] = pc[d]
<1>1. pc \in [Clients -> Labels] /\ m_send_seq \in Nat \ {0}
  BY DEF TypeOK
<1>2. pc[c] = "stop_send" /\ m_state = "STOPPING"
  BY DEF StopSend, Numbers, StopLabels
<1>3. Connected
  BY <1>2 DEF Handshake, OnlyTheReset
<1>4. m_send_seq > 1 /\ 1 \notin DOMAIN m_pending_requests
  BY <1>3 DEF Connected
<1>5. Len(issued) = m_send_seq - 2
  BY <1>2, <1>4 DEF Numbers
<1> QED BY <1>1, <1>2, <1>4, <1>5 DEF StopSend, Goto, pending

\* Where the message that arrives at the device stands: the device's
\* comparison of wire numbers is the comparison of the numbers themselves.
LEMMA HeadIsPlaced ==
    ASSUME TypeOK, Handshake, Numbers, DownLine, Window, QuarterOfRange,
           toDevice # <<>>, IsNumbered(Head(toDevice)), NEW m, m = Head(toDevice)
    PROVE  /\ m_send_seq > 1 /\ 1 \notin DOMAIN m_pending_requests /\ dev_expected = Wire(Turn)
           /\ m.id \in 2 .. Top /\ m.seq = Wire(m.id) /\ m.type = TypeOf(m.id) /\ m.type \in NumberedTypes
           /\ Turn <= m.id + MAX_SEQNUM_GAP + 2 /\ m_send_seq <= Turn + 2 * MAX_SEQNUM_GAP + 1
           /\ Distance(m.seq) = 0 => m.id = Turn
           /\ 2 * Distance(m.seq) >= SeqnumModulus => m.id < Turn
           /\ Distance(m.seq) # 0 /\ 2 * Distance(m.seq) < SeqnumModulus => m.id > Turn
<1>1. toDevice \in Seq(WireMessage(MessageTypes)) /\ 1 \in DOMAIN toDevice /\ toDevice[1] = m
  BY TailOf DEF TypeOK
<1>2. m.type # "SEQNUM_RESET" /\ Connected
  BY <1>1 DEF Handshake, OnlyTheReset, IsNumbered
<1>3. m_send_seq > 1 /\ 1 \notin DOMAIN m_pending_requests /\ dev_expected = Wire(Turn)
  BY <1>2 DEF Handshake, ExpectsTurn, Connected
<1>4. m.id \in 2 .. Top /\ m.seq = Wire(m.id) /\ m.type = TypeOf(m.id) /\ Turn <= m.id + MAX_SEQNUM_GAP + 2
  BY <1>1 DEF DownLine
<1>5. m.type \in NumberedTypes
  BY <1>4, TypeOfNumber
<1>6. m_send_seq <= Turn + 2 * MAX_SEQNUM_GAP + 1
  BY <1>3 DEF Window
<1>7. /\ m_send_seq \in Nat /\ MAX_SEQNUM_GAP \in Nat /\ SeqnumModulus \in Nat /\ Turn \in Nat /\ Turn >= 2
      /\ Top \in Nat /\ Turn <= Top + 1 /\ Top <= m_send_seq /\ m.id \in Nat
      /\ 4 * (MAX_SEQNUM_GAP + 1) <= SeqnumModulus
  BY <1>3, <1>4, Positions DEF QuarterOfRange
<1>8. CASE m.id >= Turn
  <2>1. m.id - Turn < SeqnumModulus /\ 2 * (m.id - Turn) < SeqnumModulus
    BY <1>4, <1>6, <1>7
  <2>2. Distance(m.seq) = m.id - Turn
    BY <1>3, <1>4, <1>7, <1>8, <2>1, DistanceAhead DEF Distance
  <2> QED BY <1>3, <1>4, <1>5, <1>6, <1>7, <1>8, <2>1, <2>2
<1>9. CASE m.id < Turn
  <2>1. Turn - m.id < SeqnumModulus /\ 2 * (SeqnumModulus - (Turn - m.id)) >= SeqnumModulus
    BY <1>4, <1>7
  <2>2. Distance(m.seq) = SeqnumModulus - (Turn - m.id)
    BY <1>3, <1>4, <1>7, <1>9, <2>1, DistanceBehind DEF Distance
  <2> QED BY <1>3, <1>4, <1>5, <1>6, <1>7, <1>9, <2>1, <2>2
<1> QED BY <1>7, <1>8, <1>9

\* What the device does with the message it expects.
LEMMA ProcessEffect ==
    ASSUME TypeOK, Handshake, Numbers, DownLine, Window, QuarterOfRange, DeviceProcess,
           NEW m, m = Head(toDevice)
    PROVE  /\ toDevice # <<>> /\ toDevice' = Tail(toDevice) /\ IsNumbered(m)
           /\ m_send_seq > 1 /\ 1 \notin DOMAIN m_pending_requests /\ Turn <= Top /\ m_send_seq <= Turn + 2 * MAX_SEQNUM_GAP + 1
           /\ m.id = Turn /\ m.seq = Wire(Turn) /\ m.type = TypeOf(Turn) /\ m.type \in NumberedTypes
           /\ dev_expected = Wire(Turn) /\ dev_expected' = Wire(Turn + 1)
           /\ executed' = Append(executed, issued[Turn - 1])
           /\ Turn' = Turn + 1 /\ Top' = Top /\ \A s : TypeOf(s)' = TypeOf(s)
           /\ \E a : IsAck(a) /\ a.id = Turn /\ a.seq = Wire(Turn) /\ toClient' = Append(toClient, a)
           /\ UNCHANGED <<clientView, threadVars, dev_finishing>>
           /\ \/ /\ m.type = "COMMAND" /\ ~ dev_interrupt' /\ IF dev_interrupt THEN dev_queue' = <<Turn>> ELSE dev_queue' = Append(dev_queue, Turn)
              \/ m.type = "REQUEST_STOP" /\ dev_queue' = <<>> /\ UNCHANGED dev_interrupt
              \/ m.type = "REQUEST_NEXT_CMD_INTERRUPT" /\ dev_interrupt' /\ UNCHANGED dev_queue
              \/ m.type = "REQUEST" /\ UNCHANGED <<dev_queue, dev_interrupt>>
<1>1. toDevice # <<>> /\ toDevice' = Tail(toDevice) /\ IsNumbered(m) /\ Distance(m.seq) = 0
  BY DEF DeviceProcess, DeviceReceive
<1>2. /\ m_send_seq > 1 /\ 1 \notin DOMAIN m_pending_requests /\ dev_expected = Wire(Turn)
      /\ m.id \in 2 .. Top /\ m.seq = Wire(m.id) /\ m.type = TypeOf(m.id) /\ m.type \in NumberedTypes
      /\ m_send_seq <= Turn + 2 * MAX_SEQNUM_GAP + 1 /\ m.id = Turn
  BY <1>1, HeadIsPlaced
<1>3. Turn \in Nat /\ Turn >= 2 /\ Top \in Nat /\ Turn <= Top
  BY <1>2, Positions
<1>4. dev_expected' = Wire(Turn + 1)
  <2>1. dev_expected' = Wire(dev_expected + 1)
    BY DEF DeviceProcess
  <2> QED BY <1>2, <1>3, <2>1, WireOfNext
<1>5. issued \in Seq(Record) /\ executed \in Seq(Record) /\ Turn - 1 \in DOMAIN issued /\ dev_interrupt \in BOOLEAN
  BY <1>3 DEF TypeOK, Top
<1>6. [seq |-> m.id, type |-> m.type] = issued[Turn - 1]
  <2>1. issued[Turn - 1].seq = Turn /\ issued[Turn - 1].type = TypeOf(Turn) /\ issued[Turn - 1] \in Record
    BY <1>3, <1>5 DEF Numbers, TypeOf
  <2> QED BY <1>2, <2>1 DEF Record
<1>7. executed' = Append(executed, issued[Turn - 1])
  BY <1>6 DEF DeviceProcess
<1>8. UNCHANGED <<clientView, threadVars, dev_finishing>>
  BY DEF DeviceProcess, DeviceUnchanged, clientView, clientVars, threadVars, pending
<1>9. Turn' = Turn + 1 /\ Top' = Top /\ \A s : TypeOf(s)' = TypeOf(s)
  BY <1>5, <1>7, <1>8 DEF Turn, Top, TypeOf, clientView
<1>10. \E a : IsAck(a) /\ a.id = Turn /\ a.seq = Wire(Turn) /\ toClient' = Append(toClient, a)
  <2> DEFINE a == [type |-> AckOf(m), seq |-> m.seq, id |-> m.id]
  <2>1. toClient' = Append(toClient, a)
    BY DEF DeviceProcess, Reply
  <2>2. IsAck(a) /\ a.id = Turn /\ a.seq = Wire(Turn)
    BY <1>2 DEF IsAck, AckOf
  <2> HIDE DEF a
  <2> QED BY <2>1, <2>2
<1>11. \/ /\ m.type = "COMMAND" /\ ~ dev_interrupt' /\ IF dev_interrupt THEN dev_queue' = <<Turn>> ELSE dev_queue' = Append(dev_queue, Turn)
       \/ m.type = "REQUEST_STOP" /\ dev_queue' = <<>> /\ UNCHANGED dev_interrupt
       \/ m.type = "REQUEST_NEXT_CMD_INTERRUPT" /\ dev_interrupt' /\ UNCHANGED dev_queue
       \/ m.type = "REQUEST" /\ UNCHANGED <<dev_queue, dev_interrupt>>
  <2>1. m.type \in {"COMMAND", "REQUEST_STOP", "REQUEST_NEXT_CMD_INTERRUPT", "REQUEST"}
    BY <1>2 DEF NumberedTypes, MessageTypes
  <2>2. CASE m.type = "COMMAND"
    BY <1>2, <2>2 DEF DeviceProcess
  <2>3. CASE m.type = "REQUEST_STOP"
    BY <2>3 DEF DeviceProcess
  <2>4. CASE m.type = "REQUEST_NEXT_CMD_INTERRUPT"
    BY <2>4 DEF DeviceProcess
  <2>5. CASE m.type = "REQUEST"
    BY <2>5 DEF DeviceProcess
  <2> QED BY <2>1, <2>2, <2>3, <2>4, <2>5
<1> QED BY <1>1, <1>2, <1>3, <1>4, <1>7, <1>8, <1>9, <1>10, <1>11

\* What the other steps leave alone.
LEMMA RetransmitEffect ==
    ASSUME NEW limit, Retransmit(limit)
    PROVE  /\ UNCHANGED <<clientView, threadVars, deviceVars, toClient>>
           /\ m_state = "RUNNING" /\ toDevice' = toDevice \o Resent(limit)
BY DEF Retransmit, clientView, clientVars, pending

LEMMA LineEffect ==
    ASSUME LineMove
    PROVE  /\ UNCHANGED <<m_send_seq, m_state, issued, op, seq, deviceVars>>
           /\ pc' = pc \/ pc' = notify_all(pc)
<1> USE DEF clientView, pending, threadVars
<1>1. CASE process_ack_request
  BY <1>1 DEF process_ack_request
<1>2. CASE process_ack_command
  BY <1>2 DEF process_ack_command
<1>3. CASE process_command_finished
  BY <1>3 DEF process_command_finished
<1>4. CASE MissedRequest
  BY <1>4 DEF MissedRequest
<1>5. CASE UpLoss \/ DownLoss
  BY <1>5 DEF UpLoss, DownLoss
<1> QED BY <1>1, <1>2, <1>3, <1>4, <1>5 DEF LineMove

LEMMA DeviceEffect ==
    ASSUME DeviceMove, ~ DeviceProcess
    PROVE  UNCHANGED <<clientView, threadVars, executed, dev_interrupt>>
<1> USE DEF clientView, clientVars, pending, threadVars, deviceVars, DeviceUnchanged
<1>1. CASE DeviceSeqnumReset
  BY <1>1 DEF DeviceSeqnumReset
<1>2. CASE DeviceRefuses \/ DeviceAckAgain
  BY <1>2 DEF DeviceRefuses, DeviceAckAgain
<1>3. CASE DeviceFinishAcked
  BY <1>3 DEF DeviceFinishAcked
<1>4. CASE DeviceFinish \/ \E s \in dev_finishing : DeviceResendFinish(s)
  BY <1>4 DEF DeviceFinish, DeviceResendFinish
<1> QED BY <1>1, <1>2, <1>3, <1>4 DEF DeviceMove

-----------------------------------------------------------------------------
(* Every step preserves the invariant, part by part.                       *)

LEMMA NumbersStep ==
    ASSUME TypeOK, Handshake, Numbers, DownLine, Window, QuarterOfRange, ClientMove \/ LineMove \/ DeviceMove
    PROVE  Numbers'
<1>0. /\ pc \in [Clients -> Labels] /\ m_send_seq \in Nat \ {0} /\ issued \in Seq(Record) /\ executed \in Seq(Record)
      /\ m_state \in {"RUNNING", "STOPPING", "STOPPED"}
  BY DEF TypeOK
<1>a. ASSUME UNCHANGED <<m_send_seq, m_state, issued, executed>>,
             \A d \in Clients : pc'[d] \in StopLabels => pc[d] = pc'[d]
      PROVE  Numbers'
  <2>1. ASSUME NEW d \in Clients, pc'[d] \in StopLabels \cup {"stop_notify", "stop_join", "stop_send"}
        PROVE  pc[d] = pc'[d]
    BY <1>a, <2>1 DEF StopLabels
  <2> QED BY <1>a, <2>1 DEF Numbers
<1>b. ASSUME pc' = pc \/ pc' = notify_all(pc) PROVE \A d \in Clients : pc'[d] \in StopLabels => pc[d] = pc'[d]
  BY <1>0, <1>b, NotifyKeeps
<1>1. CASE Silent
  <2>1. UNCHANGED <<m_send_seq, issued, executed>> /\ ThreadsMove
    BY <1>1, SilentFrame, SilentThreads DEF deviceVars
  <2>2. CASE StopKept
    BY <2>1, <2>2 DEF StopKept, Numbers
  <2>3. CASE StopCame
    BY <2>1, <2>3 DEF StopCame, Numbers
  <2>4. CASE StopWent
    <3>1. PICK c \in Clients : /\ pc[c] = "stop_connection" /\ pc'[c] = "idle"
                               /\ \A d \in Clients \ {c} : pc'[d] = pc[d]
      BY <2>4 DEF StopWent
    <3>2. \A d \in Clients : pc'[d] \notin StopLabels
      BY <3>1 DEF Numbers, StopLabels
    <3> QED BY <2>1, <2>4, <3>2 DEF Numbers, StopWent, StopLabels
  <2> QED BY <2>1, <2>2, <2>3, <2>4 DEF ThreadsMove
<1>2. ASSUME NEW c \in Clients, TryIssue(c) PROVE Numbers'
  <2>1. /\ m_state = "RUNNING" /\ m_state' = m_state /\ m_send_seq' = m_send_seq + 1 /\ executed' = executed
        /\ pc[c] = "try" /\ pc'[c] \in {"reply", "clear", "idle"} /\ \A d \in Clients \ {c} : pc'[d] = pc[d]
        /\ \/ m_send_seq = 1 /\ issued' = issued
           \/ /\ m_send_seq > 1 /\ MessageType(op[c]) \in NumberedTypes
              /\ issued' = Append(issued, [seq |-> m_send_seq, type |-> MessageType(op[c])])
    BY <1>2, IssueEffect
  <2>2. \A d \in Clients : pc'[d] \notin StopLabels
    BY <2>1 DEF Numbers, StopLabels
  <2>3. /\ Len(issued') = m_send_seq' - 2
        /\ \A i \in DOMAIN issued' : issued'[i].seq = i + 1 /\ issued'[i].type \in NumberedTypes
        /\ Len(executed) <= Len(issued') /\ \A i \in DOMAIN executed : executed[i] = issued'[i]
    <3>1. CASE m_send_seq = 1 /\ issued' = issued
      BY <1>0, <2>1, <3>1 DEF Numbers
    <3>2. CASE /\ m_send_seq > 1 /\ MessageType(op[c]) \in NumberedTypes
               /\ issued' = Append(issued, [seq |-> m_send_seq, type |-> MessageType(op[c])])
      <4>1. Len(issued) = m_send_seq - 2 /\ Len(executed) <= Len(issued)
        BY <2>1, <3>2 DEF Numbers
      <4>2. Len(issued') = m_send_seq - 1
        BY <1>0, <3>2, <4>1
      <4>3. ASSUME NEW i \in DOMAIN issued' PROVE issued'[i].seq = i + 1 /\ issued'[i].type \in NumberedTypes
        BY <1>0, <3>2, <4>1, AppendOf DEF Numbers
      <4>4. ASSUME NEW i \in DOMAIN executed PROVE executed[i] = issued'[i]
        <5>1. i \in DOMAIN issued /\ executed[i] = issued[i]
          BY <1>0, <4>1 DEF Numbers
        <5> QED BY <1>0, <3>2, <5>1
      <4> QED BY <1>0, <2>1, <4>1, <4>2, <4>3, <4>4
    <3> QED BY <2>1, <3>1, <3>2
  <2>4. m_send_seq' # 1
    BY <1>0, <2>1
  <2> QED BY <2>1, <2>2, <2>3, <2>4 DEF Numbers
<1>3. ASSUME NEW c \in Clients, clear_all_active_commands(c) PROVE Numbers'
  <2>1. \A d \in Clients : pc'[d] = "idle" \/ pc'[d] = notify_all(pc)[d]
    BY <1>3, ClearEffect
  <2>2. \A d \in Clients : pc'[d] \in StopLabels => pc[d] = pc'[d]
    BY <1>0, <2>1, NotifyKeeps DEF StopLabels
  <2> QED BY <1>3, <1>a, <2>2, ClearEffect DEF deviceVars
<1>4. ASSUME NEW c \in Clients, wait_for_request(c) PROVE Numbers'
  <2>1. \A d \in Clients : pc'[d] \in {"idle", "reply_wait", pc[d], notify_all(pc)[d]}
    BY <1>4, ReplyEffect
  <2>2. \A d \in Clients : pc'[d] \in StopLabels => pc[d] = pc'[d]
    BY <1>0, <2>1, NotifyKeeps DEF StopLabels
  <2> QED BY <1>4, <1>a, <2>2, ReplyEffect DEF deviceVars
<1>5. ASSUME NEW c \in Clients, StopSend(c) PROVE Numbers'
  <2>1. /\ UNCHANGED <<m_send_seq, m_state, executed>> /\ m_state = "STOPPING" /\ m_send_seq > 1
        /\ issued' = Append(issued, [seq |-> m_send_seq, type |-> "REQUEST_STOP"]) /\ Len(issued) = m_send_seq - 2
        /\ pc[c] = "stop_send" /\ pc'[c] = "stop_connection" /\ \A d \in Clients \ {c} : pc'[d] = pc[d]
    BY <1>5, StopSendEffect DEF deviceVars
  <2>2. \A d \in Clients : pc'[d] \in StopLabels => d = c
    BY <2>1 DEF Numbers, StopLabels
  <2>3. Len(issued') = m_send_seq - 1 /\ Len(executed) <= Len(issued')
    BY <1>0, <2>1 DEF Numbers
  <2>4. ASSUME NEW i \in DOMAIN issued' PROVE issued'[i].seq = i + 1 /\ issued'[i].type \in NumberedTypes
    <3>1. "REQUEST_STOP" \in NumberedTypes
      BY DEF NumberedTypes, MessageTypes
    <3> QED BY <1>0, <2>1, <3>1, AppendOf DEF Numbers
  <2>5. ASSUME NEW i \in DOMAIN executed PROVE executed[i] = issued'[i]
    <3>1. i \in DOMAIN issued /\ executed[i] = issued[i]
      BY <1>0 DEF Numbers
    <3> QED BY <1>0, <2>1, <3>1
  <2>6. \A d \in Clients : pc'[d] \notin {"stop_notify", "stop_join", "stop_send"}
    BY <2>1, <2>2 DEF StopLabels
  <2> QED BY <2>1, <2>2, <2>3, <2>4, <2>5, <2>6 DEF Numbers
<1>6. ASSUME NEW limit \in Live, Retransmit(limit) PROVE Numbers'
  BY <1>6, <1>a, RetransmitEffect DEF clientView, threadVars, deviceVars
<1>7. CASE LineMove
  BY <1>7, <1>a, <1>b, LineEffect DEF deviceVars
<1>8. CASE DeviceProcess
  <2>1. /\ UNCHANGED <<m_send_seq, m_state, issued, pc>> /\ executed' = Append(executed, issued[Turn - 1])
        /\ Turn <= Top
    BY <1>8, ProcessEffect DEF clientView, threadVars
  <2>2. Len(executed') <= Len(issued)
    BY <1>0, <2>1 DEF Turn, Top
  <2>3. ASSUME NEW i \in DOMAIN executed' PROVE executed'[i] = issued[i]
    BY <1>0, <2>1, AppendOf DEF Numbers, Turn
  <2> QED BY <2>1, <2>2, <2>3 DEF Numbers
<1>9. CASE DeviceMove /\ ~ DeviceProcess
  BY <1>9, <1>a, DeviceEffect DEF clientView, threadVars
<1> QED BY <1>1, <1>2, <1>3, <1>4, <1>5, <1>6, <1>7, <1>8, <1>9 DEF ClientMove

LEMMA AnswerFinds ==
    ASSUME TypeOK, WithinGap, Numbers, UpLine, QuarterOfRange,
           NEW i \in DOMAIN toClient, NEW m, m = toClient[i], IsAnswer(m),
           IsAck(m) \/ m_send_seq <= m.id + SeqnumModulus,
           NEW map, DOMAIN map \subseteq Live
    PROVE  /\ m.seq = Wire(m.id) /\ m.id \in 1 .. (Turn - 1)
           /\ Found(map, m.seq) \subseteq {m.id}
<1>1. m.seq = Wire(m.id) /\ m.id \in 1 .. (Turn - 1) /\ (IsAck(m) => m_send_seq <= m.id + 3 * MAX_SEQNUM_GAP + 3)
  <2>1. Turn \in Nat
    BY Positions
  <2> QED BY <2>1 DEF UpLine, IsAnswer
<1>2. m.id \in Nat /\ m.id <= m_send_seq /\ m_send_seq <= m.id + SeqnumModulus
  BY <1>1, Positions DEF QuarterOfRange
<1>3. Found(map, Wire(m.id)) \subseteq {m.id}
  BY <1>2, FoundIsRight
<1> QED BY <1>1, <1>3

\* An ack of a request: the entry of that number goes, or keeps it for the waiter.
LEMMA AckRequestEffect ==
    ASSUME TypeOK, WithinGap, Numbers, UpLine, QuarterOfRange, process_ack_request, NEW m, m = Head(toClient)
    PROVE  /\ toClient # <<>> /\ toClient' = Tail(toClient) /\ m = toClient[1] /\ IsAck(m) /\ m.id \in 1 .. (Turn - 1)
           /\ UNCHANGED <<m_send_seq, m_pending_commands, m_state, m_error, issued, threadVars, deviceVars, toDevice>>
           /\ DOMAIN m_pending_requests' \subseteq DOMAIN m_pending_requests
           /\ \A s \in DOMAIN m_pending_requests : s # m.id =>
                 s \in DOMAIN m_pending_requests' /\ m_pending_requests'[s] = m_pending_requests[s]
           /\ m.id \in DOMAIN m_pending_requests' =>
                 \/ m_pending_requests'[m.id] = m_pending_requests[m.id]
                 \/ /\ ~ m_pending_requests[m.id].silent
                    /\ m_pending_requests'[m.id] = [m_pending_requests[m.id] EXCEPT !.state = "ACKED"]
<1> DEFINE S == {s \in Found(m_pending_requests, m.seq) : m_pending_requests[s].state = "NOT_ACKED"}
<1>1. /\ toClient # <<>> /\ toClient' = Tail(toClient) /\ m.type = "ACK_REQUEST"
      /\ UNCHANGED <<m_send_seq, m_pending_commands, m_state, m_error, issued, threadVars, deviceVars, toDevice>>
      /\ m_pending_requests' = AckEntries(S)
  BY DEF process_ack_request, Receive
<1>2. 1 \in DOMAIN toClient /\ m = toClient[1] /\ IsAck(m) /\ IsAnswer(m)
  BY <1>1, TailOf DEF TypeOK, IsAck, IsAnswer
<1>3. m.id \in 1 .. (Turn - 1) /\ Found(m_pending_requests, m.seq) \subseteq {m.id}
  BY <1>2, AnswerFinds DEF Live
<1>4. S \subseteq {m.id} /\ S \subseteq DOMAIN m_pending_requests
  BY <1>3 DEF Found
<1> HIDE DEF S
<1>5. CASE \E s \in S : m_pending_requests[s].silent
  <2>1. m_pending_requests' = Erase(m_pending_requests, S)
    BY <1>1, <1>5 DEF AckEntries
  <2>2. S = {m.id}
    BY <1>4, <1>5
  <2> QED BY <1>1, <1>2, <1>3, <2>1, <2>2 DEF Erase
<1>6. CASE ~ \E s \in S : m_pending_requests[s].silent
  <2>1. m_pending_requests' = [s \in DOMAIN m_pending_requests |->
            IF s \in S THEN [m_pending_requests[s] EXCEPT !.state = "ACKED"] ELSE m_pending_requests[s]]
    BY <1>1, <1>6 DEF AckEntries
  <2>2. DOMAIN m_pending_requests' = DOMAIN m_pending_requests
    BY <2>1
  <2>3. ASSUME NEW s \in DOMAIN m_pending_requests, s # m.id PROVE m_pending_requests'[s] = m_pending_requests[s]
    BY <1>4, <2>1, <2>3
  <2>4. ASSUME m.id \in DOMAIN m_pending_requests
        PROVE  \/ m_pending_requests'[m.id] = m_pending_requests[m.id]
               \/ /\ ~ m_pending_requests[m.id].silent
                  /\ m_pending_requests'[m.id] = [m_pending_requests[m.id] EXCEPT !.state = "ACKED"]
    BY <1>6, <2>1, <2>4
  <2> QED BY <1>1, <1>2, <1>3, <2>2, <2>3, <2>4
<1> QED BY <1>5, <1>6

LEMMA AckCommandEffect ==
    ASSUME TypeOK, WithinGap, Numbers, UpLine, QuarterOfRange, process_ack_command, NEW m, m = Head(toClient)
    PROVE  /\ toClient # <<>> /\ toClient' = Tail(toClient) /\ m = toClient[1] /\ IsAck(m) /\ m.id \in 1 .. (Turn - 1)
           /\ UNCHANGED <<m_send_seq, m_pending_requests, m_state, m_error, issued, threadVars, deviceVars, toDevice>>
           /\ DOMAIN m_pending_commands' = DOMAIN m_pending_commands
           /\ \A s \in DOMAIN m_pending_commands : s # m.id => m_pending_commands'[s] = m_pending_commands[s]
<1>1. /\ toClient # <<>> /\ toClient' = Tail(toClient) /\ m.type = "ACK_COMMAND"
      /\ UNCHANGED <<m_send_seq, m_pending_requests, m_state, m_error, issued, threadVars, deviceVars, toDevice>>
      /\ m_pending_commands' = [s \in DOMAIN m_pending_commands |->
                IF s \in Found(m_pending_commands, m.seq) THEN [m_pending_commands[s] EXCEPT !.state = "ACKED"]
                ELSE m_pending_commands[s]]
  BY DEF process_ack_command, Receive
<1>2. 1 \in DOMAIN toClient /\ m = toClient[1] /\ IsAck(m) /\ IsAnswer(m)
  BY <1>1, TailOf DEF TypeOK, IsAck, IsAnswer
<1>3. m.id \in 1 .. (Turn - 1) /\ Found(m_pending_commands, m.seq) \subseteq {m.id}
  BY <1>2, AnswerFinds DEF Live
<1> QED BY <1>1, <1>2, <1>3

\* A finish removes the command it is about, and no other.
LEMMA FinishEffect ==
    ASSUME TypeOK, WithinGap, Numbers, UpLine, QuarterOfRange, FinishesAreTimely,
           process_command_finished, NEW m, m = Head(toClient)
    PROVE  /\ toClient # <<>> /\ toClient' = Tail(toClient) /\ m = toClient[1]
           /\ m.type = "REQUEST_COMMAND_FINISHED" /\ m.id \in 2 .. (Turn - 1) /\ m.id \notin Queued
           /\ UNCHANGED <<m_send_seq, m_pending_requests, m_state, m_error, issued, op, seq, deviceVars>>
           /\ toDevice' = Append(toDevice, [type |-> "ACK_REQUEST", seq |-> m.seq, id |-> m.id])
           /\ m_pending_commands' = Erase(m_pending_commands, {m.id})
           /\ pc' = pc \/ pc' = notify_all(pc)
<1> DEFINE S == Found(m_pending_commands, m.seq)
<1>1. /\ toClient # <<>> /\ toClient' = Tail(toClient) /\ m.type = "REQUEST_COMMAND_FINISHED"
      /\ UNCHANGED <<m_send_seq, m_pending_requests, m_state, m_error, issued, op, seq, deviceVars>>
      /\ toDevice' = Append(toDevice, [type |-> "ACK_REQUEST", seq |-> m.seq, id |-> m.id])
      /\ m_pending_commands' = Erase(m_pending_commands, S)
      /\ pc' = pc \/ pc' = notify_all(pc)
  BY DEF process_command_finished, Receive
<1>2. 1 \in DOMAIN toClient /\ m = toClient[1] /\ IsAnswer(m)
  BY <1>1, TailOf DEF TypeOK, IsAck, IsAnswer
<1>3. m.seq = Wire(m.id) /\ m.id \in 2 .. (Turn - 1) /\ m.id \notin Queued
  BY <1>1, <1>2 DEF UpLine
<1>4. m_send_seq <= m.id + SeqnumModulus
  BY <1>1, <1>2 DEF FinishesAreTimely
<1>5. S \subseteq {m.id}
  BY <1>2, <1>4, AnswerFinds DEF Live
<1>6. m.id \in DOMAIN m_pending_commands => S = {m.id}
  BY <1>3, GapFinds DEF LiveIsFound
<1> HIDE DEF S
<1>7. Erase(m_pending_commands, S) = Erase(m_pending_commands, {m.id})
  <2>1. DOMAIN m_pending_commands \ S = DOMAIN m_pending_commands \ {m.id}
    BY <1>5, <1>6
  <2> QED BY <2>1 DEF Erase
<1> QED BY <1>1, <1>2, <1>3, <1>7

LEMMA EntriesStep ==
    ASSUME TypeOK, WithinGap, Handshake, Numbers, Entries, DownLine, UpLine, Window,
           QuarterOfRange, FinishesAreTimely, ClientMove \/ LineMove \/ DeviceMove
    PROVE  Entries'
<1>0. /\ m_send_seq \in Nat \ {0} /\ Turn \in Nat /\ Turn >= 2 /\ Top \in Nat /\ Turn <= Top + 1
      /\ DOMAIN m_pending_requests \subseteq 1 .. (m_send_seq - 1)
      /\ DOMAIN m_pending_commands \subseteq 1 .. (m_send_seq - 1)
      /\ m_pending_requests \in [DOMAIN m_pending_requests -> RequestEntry]
      /\ m_pending_commands \in [DOMAIN m_pending_commands -> CommandEntry]
  BY Positions DEF TypeOK
<1>a. ASSUME UNCHANGED <<issued, executed>>,
             DOMAIN m_pending_requests' \subseteq DOMAIN m_pending_requests,
             \A s \in DOMAIN m_pending_requests' : m_pending_requests'[s] = m_pending_requests[s],
             DOMAIN m_pending_commands' \subseteq DOMAIN m_pending_commands,
             \A s \in DOMAIN m_pending_commands' : m_pending_commands'[s] = m_pending_commands[s]
      PROVE  Entries'
  <2>1. Turn' = Turn /\ Top' = Top /\ \A s : TypeOf(s)' = TypeOf(s)
    BY <1>a, HistoryKept
  <2> QED BY <1>a, <2>1 DEF Entries
<1>1. CASE Silent
  BY <1>1, <1>a, SilentFrame DEF deviceVars
<1>2. ASSUME NEW c \in Clients, TryIssue(c) PROVE Entries'
  <2> DEFINE n == m_send_seq
             type == MessageType(op[c])
  <2>0. executed' = executed /\ m_state = "RUNNING"
    BY <1>2, IssueEffect
  <2>1. CASE /\ n = 1 /\ UNCHANGED <<issued, m_pending_commands>>
             /\ m_pending_requests' = Emplace(m_pending_requests, n,
                    [state |-> "NOT_ACKED", silent |-> FALSE, type |-> "SEQNUM_RESET"])
    <3>1. Turn' = Turn /\ Top' = Top /\ \A s : TypeOf(s)' = TypeOf(s)
      BY <2>0, <2>1, HistoryKept
    <3>2. DOMAIN m_pending_requests = {} /\ DOMAIN m_pending_commands = {}
      <4>1. m_send_seq = 1
        BY <2>1
      <4>2. 1 .. (m_send_seq - 1) = {}
        BY <4>1
      <4> QED BY <1>0, <4>2
    <3>3. DOMAIN m_pending_requests' = {1} /\ DOMAIN m_pending_commands' = {}
          /\ m_pending_requests'[1] = [state |-> "NOT_ACKED", silent |-> FALSE, type |-> "SEQNUM_RESET"]
      BY <2>1, <3>2 DEF Emplace
    <3> QED BY <3>3 DEF Entries, ClearTypes
  <2>2. CASE n > 1 /\ type \in NumberedTypes /\ issued' = Append(issued, [seq |-> n, type |-> type])
    <3>1. /\ Turn' = Turn /\ Top' = Top + 1 /\ Top + 1 = n
          /\ \A s \in 2 .. Top : TypeOf(s)' = TypeOf(s)
          /\ \A s : s = n => TypeOf(s)' = type
      BY <1>0, <2>0, <2>2, HistoryGrows, Positions
    <3>2. CASE /\ type # "COMMAND" /\ UNCHANGED m_pending_commands
               /\ \E entry : /\ m_pending_requests' = Emplace(m_pending_requests, n, entry)
                             /\ entry.state = "NOT_ACKED" /\ entry.type = type
                             /\ entry.type \in ClearTypes => entry.silent
      <4>1. PICK entry : /\ m_pending_requests' = Emplace(m_pending_requests, n, entry)
                         /\ entry.state = "NOT_ACKED" /\ entry.type = type
                         /\ entry.type \in ClearTypes => entry.silent
        BY <3>2
      <4>2. /\ DOMAIN m_pending_requests' = DOMAIN m_pending_requests \cup {n} /\ m_pending_requests'[n] = entry
            /\ \A s \in DOMAIN m_pending_requests : m_pending_requests'[s] = m_pending_requests[s]
        BY <1>0, <4>1 DEF Emplace
      <4> HIDE DEF type
      <4> QED BY <1>0, <2>2, <3>1, <3>2, <4>1, <4>2 DEF Entries
    <3>3. CASE /\ type = "COMMAND" /\ UNCHANGED m_pending_requests
               /\ m_pending_commands' = Emplace(m_pending_commands, n, [state |-> "NOT_ACKED", type |-> "COMMAND"])
      <4>1. /\ DOMAIN m_pending_commands' = DOMAIN m_pending_commands \cup {n}
            /\ m_pending_commands'[n].state = "NOT_ACKED"
            /\ \A s \in DOMAIN m_pending_commands : m_pending_commands'[s] = m_pending_commands[s]
        BY <1>0, <3>3 DEF Emplace
      <4> HIDE DEF type
      <4> QED BY <1>0, <2>2, <3>1, <3>3, <4>1 DEF Entries
    <3> QED BY <1>2, <2>2, <3>2, <3>3, IssueEffect
  <2> QED BY <1>0, <1>2, <2>1, <2>2, IssueEffect
<1>3. ASSUME NEW c \in Clients, clear_all_active_commands(c) PROVE Entries'
  BY <1>3, <1>a, ClearEffect DEF Erase, deviceVars
<1>4. ASSUME NEW c \in Clients, wait_for_request(c) PROVE Entries'
  BY <1>4, <1>a, ReplyEffect DEF Erase, deviceVars
<1>5. ASSUME NEW c \in Clients, StopSend(c) PROVE Entries'
  <2>1. Turn' = Turn /\ Top' = Top + 1 /\ \A s \in 2 .. Top : TypeOf(s)' = TypeOf(s)
    BY <1>5, StopSendEffect, HistoryGrows DEF deviceVars
  <2> QED BY <1>0, <1>5, <2>1, StopSendEffect DEF Entries
<1>6. ASSUME NEW limit \in Live, Retransmit(limit) PROVE Entries'
  BY <1>6, <1>a, RetransmitEffect DEF clientView, deviceVars
<1>7. CASE process_ack_request
  <2> DEFINE m == Head(toClient)
  <2>1. /\ m.id \in 1 .. (Turn - 1) /\ UNCHANGED <<m_pending_commands, issued, executed>>
        /\ DOMAIN m_pending_requests' \subseteq DOMAIN m_pending_requests
        /\ \A s \in DOMAIN m_pending_requests : s # m.id =>
              s \in DOMAIN m_pending_requests' /\ m_pending_requests'[s] = m_pending_requests[s]
        /\ m.id \in DOMAIN m_pending_requests' =>
              \/ m_pending_requests'[m.id] = m_pending_requests[m.id]
              \/ /\ ~ m_pending_requests[m.id].silent
                 /\ m_pending_requests'[m.id] = [m_pending_requests[m.id] EXCEPT !.state = "ACKED"]
    BY <1>7, AckRequestEffect DEF deviceVars
  <2> HIDE DEF m
  <2>2. Turn' = Turn /\ Top' = Top /\ \A s : TypeOf(s)' = TypeOf(s)
    BY <2>1, HistoryKept
  <2>3. ASSUME NEW s \in DOMAIN m_pending_requests'
        PROVE  LET entry == m_pending_requests'[s]
               IN  /\ s # 1 => s \in 2 .. Top /\ entry.type = TypeOf(s) /\ entry.type # "COMMAND"
                   /\ s = 1 => entry.type = "SEQNUM_RESET"
                   /\ entry.type \in ClearTypes => entry.silent
                   /\ entry.silent => entry.state = "NOT_ACKED"
                   /\ entry.state = "ACKED" => s < Turn
    <3>1. s \in DOMAIN m_pending_requests /\ m_pending_requests[s] \in RequestEntry
      BY <1>0, <2>1
    <3>2. CASE m_pending_requests'[s] = m_pending_requests[s]
      BY <3>1, <3>2 DEF Entries
    <3>3. CASE /\ s = m.id /\ ~ m_pending_requests[s].silent
               /\ m_pending_requests'[s] = [m_pending_requests[s] EXCEPT !.state = "ACKED"]
      <4>1. /\ m_pending_requests'[s].type = m_pending_requests[s].type
            /\ m_pending_requests'[s].silent = m_pending_requests[s].silent
            /\ s < Turn
        BY <1>0, <2>1, <3>1, <3>3 DEF RequestEntry
      <4> QED BY <3>1, <3>3, <4>1 DEF Entries
    <3> QED BY <2>1, <2>3, <3>2, <3>3
  <2>4. \A s \in DOMAIN m_pending_commands' :
          /\ s \in 2 .. Top /\ TypeOf(s) = "COMMAND"
          /\ m_pending_commands'[s].state = "ACKED" => s < Turn
    BY <2>1 DEF Entries
  <2> QED BY <2>2, <2>3, <2>4 DEF Entries
<1>8. CASE process_ack_command
  <2> DEFINE m == Head(toClient)
  <2>1. /\ m.id \in 1 .. (Turn - 1) /\ UNCHANGED <<m_pending_requests, issued, executed>>
        /\ DOMAIN m_pending_commands' = DOMAIN m_pending_commands
        /\ \A s \in DOMAIN m_pending_commands : s # m.id => m_pending_commands'[s] = m_pending_commands[s]
    BY <1>8, AckCommandEffect DEF deviceVars
  <2> HIDE DEF m
  <2>2. Turn' = Turn /\ Top' = Top /\ \A s : TypeOf(s)' = TypeOf(s)
    BY <2>1, HistoryKept
  <2> QED BY <1>0, <2>1, <2>2 DEF Entries
<1>9. CASE process_command_finished
  <2> DEFINE m == Head(toClient)
  <2>1. UNCHANGED <<m_pending_requests, issued, executed>> /\ m_pending_commands' = Erase(m_pending_commands, {m.id})
    BY <1>9, FinishEffect DEF deviceVars
  <2> HIDE DEF m
  <2> QED BY <1>a, <2>1 DEF Erase
<1>10. CASE MissedRequest \/ UpLoss \/ DownLoss
  BY <1>10, <1>a DEF MissedRequest, UpLoss, DownLoss, clientView, pending, deviceVars
<1>11. CASE DeviceProcess
  <2>1. Turn' = Turn + 1 /\ Top' = Top /\ (\A s : TypeOf(s)' = TypeOf(s)) /\ UNCHANGED <<m_pending_requests, m_pending_commands>>
    BY <1>11, ProcessEffect DEF clientView
  <2> QED BY <1>0, <2>1 DEF Entries
<1>12. CASE DeviceMove /\ ~ DeviceProcess
  BY <1>12, <1>a, DeviceEffect DEF clientView
<1> QED BY <1>1, <1>2, <1>3, <1>4, <1>5, <1>6, <1>7, <1>8, <1>9, <1>10, <1>11, <1>12 DEF ClientMove, LineMove

LEMMA ConcatOf ==
    ASSUME NEW S, NEW q \in Seq(S), NEW r \in Seq(S)
    PROVE  /\ \A i \in DOMAIN q : i \in Nat \ {0} /\ i <= Len(q)
           /\ \A i \in DOMAIN (q \o r) :
                 \/ i \in DOMAIN q /\ (q \o r)[i] = q[i]
                 \/ i \in Nat /\ i > Len(q) /\ \E j \in DOMAIN r : (q \o r)[i] = r[j]
<1>1. \A i \in DOMAIN q : i \in Nat \ {0} /\ i <= Len(q)
  OBVIOUS
<1>2. ASSUME NEW i \in DOMAIN (q \o r)
      PROVE  \/ i \in DOMAIN q /\ (q \o r)[i] = q[i]
             \/ i \in Nat /\ i > Len(q) /\ \E j \in DOMAIN r : (q \o r)[i] = r[j]
  <2>1. CASE i <= Len(q)
    BY <2>1
  <2>2. CASE i > Len(q)
    <3>1. i - Len(q) \in DOMAIN r /\ (q \o r)[i] = r[i - Len(q)]
      BY <2>2
    <3> QED BY <2>2, <3>1
  <2> QED BY <2>1, <2>2
<1> QED BY <1>1, <1>2

\* What is sent again is pending and not acked.
LEMMA MessagesAre ==
    ASSUME NEW n \in Nat \ {0}, NEW map, DOMAIN map \subseteq 1 .. (n - 1), NEW limit,
           NEW i \in DOMAIN Messages(map, limit)
    PROVE  \E s \in Unacked(map) : Messages(map, limit)[i] = Message(map[s].type, s)
<1> DEFINE S == {s \in Unacked(map) : s <= limit}
           order == InOrder(S)
<1>1. S \in SUBSET (1 .. (n - 1)) /\ n - 1 \in Nat
  BY DEF Unacked
<1>2. Cardinality(S) \in Nat /\ order \in [1 .. Cardinality(S) -> S]
  BY <1>1, InOrderEnumerates
<1>3. i \in DOMAIN order /\ Messages(map, limit)[i] = Message(map[order[i]].type, order[i])
  BY DEF Messages
<1>4. order[i] \in S
  BY <1>2, <1>3
<1>5. order[i] \in Unacked(map)
  BY <1>4
<1> QED BY <1>3, <1>5

LEMMA ResentAre ==
    ASSUME TypeOK, Numbers, Entries, NEW limit
    PROVE  /\ Resent(limit) \in Seq(WireMessage(MessageTypes))
           /\ \A i \in DOMAIN Resent(limit) :
                 LET m == Resent(limit)[i]
                 IN  /\ m.id \in Live /\ m.seq = Wire(m.id)
                     /\ IF m.id = 1 THEN m.type = "SEQNUM_RESET" ELSE m.id \in 2 .. Top /\ m.type = TypeOf(m.id)
<1> DEFINE R == Messages(m_pending_requests, limit)
           C == Messages(m_pending_commands, limit)
<1>0. /\ m_send_seq \in Nat \ {0}
      /\ DOMAIN m_pending_requests \subseteq 1 .. (m_send_seq - 1)
      /\ DOMAIN m_pending_commands \subseteq 1 .. (m_send_seq - 1)
      /\ IsMap(m_pending_requests, m_send_seq, RequestEntry)
      /\ IsMap(m_pending_commands, m_send_seq, CommandEntry)
  BY DEF TypeOK, IsMap
<1>1. R \in Seq(WireMessage(MessageTypes)) /\ C \in Seq(WireMessage(MessageTypes))
  <2>1. \A e \in RequestEntry : e.type \in MessageTypes
    BY DEF RequestEntry
  <2>2. \A e \in CommandEntry : e.type \in MessageTypes
    BY DEF CommandEntry, MessageTypes
  <2> QED BY <1>0, <2>1, <2>2, MessagesType
<1>2. ASSUME NEW i \in DOMAIN R
      PROVE  /\ R[i].id \in Live /\ R[i].seq = Wire(R[i].id)
             /\ IF R[i].id = 1 THEN R[i].type = "SEQNUM_RESET" ELSE R[i].id \in 2 .. Top /\ R[i].type = TypeOf(R[i].id)
  <2>1. PICK s \in Unacked(m_pending_requests) : R[i] = Message(m_pending_requests[s].type, s)
    BY <1>0, MessagesAre
  <2>2. s \in DOMAIN m_pending_requests /\ R[i].id = s /\ R[i].seq = Wire(s) /\ R[i].type = m_pending_requests[s].type
    BY <2>1 DEF Unacked, Message
  <2> HIDE DEF R
  <2> QED BY <2>2 DEF Entries, Live
<1>3. ASSUME NEW i \in DOMAIN C
      PROVE  /\ C[i].id \in Live /\ C[i].seq = Wire(C[i].id)
             /\ IF C[i].id = 1 THEN C[i].type = "SEQNUM_RESET" ELSE C[i].id \in 2 .. Top /\ C[i].type = TypeOf(C[i].id)
  <2>1. PICK s \in Unacked(m_pending_commands) : C[i] = Message(m_pending_commands[s].type, s)
    BY <1>0, MessagesAre
  <2>2. s \in DOMAIN m_pending_commands /\ C[i].id = s /\ C[i].seq = Wire(s) /\ C[i].type = m_pending_commands[s].type
    BY <2>1 DEF Unacked, Message
  <2>3. m_pending_commands[s].type = "COMMAND"
    BY <2>2 DEF TypeOK, CommandEntry
  <2>4. s \in 2 .. Top /\ TypeOf(s) = "COMMAND" /\ s # 1
    BY <2>2, Positions DEF Entries
  <2> HIDE DEF C
  <2> QED BY <2>2, <2>3, <2>4 DEF Live
<1>4. Resent(limit) = R \o C
  BY DEF Resent
<1> HIDE DEF R, C
<1>5. R \o C \in Seq(WireMessage(MessageTypes))
  BY <1>1
<1>6. ASSUME NEW i \in DOMAIN (R \o C)
      PROVE  \/ \E j \in DOMAIN R : (R \o C)[i] = R[j]
             \/ \E j \in DOMAIN C : (R \o C)[i] = C[j]
  BY <1>1, ConcatOf
<1> QED BY <1>2, <1>3, <1>4, <1>5, <1>6

\* Once numbers have been processed, or sent, connect() has its answer.
LEMMA BusyIsConnected ==
    ASSUME TypeOK, Handshake, Numbers, DeviceQueue, Turn > 2 \/ Top > 1 \/ dev_queue # <<>> \/ dev_finishing # {}
    PROVE  Connected
<1>1. Turn > 2 \/ Top > 1
  <2>0. Turn \in Nat /\ dev_queue \in Seq(Nat)
    BY Positions DEF TypeOK
  <2>1. CASE dev_queue # <<>>
    <3>1. 1 \in DOMAIN dev_queue /\ dev_queue[1] \in 2 .. (Turn - 1)
      BY <2>0, <2>1, TailOf DEF DeviceQueue
    <3> QED BY <2>0, <3>1
  <2>2. CASE dev_finishing # {}
    <3>1. PICK s \in dev_finishing : s \in 2 .. (Turn - 1)
      BY <2>2 DEF DeviceQueue
    <3> QED BY <2>0, <3>1
  <2> QED BY <2>1, <2>2
<1>2. SUFFICES ASSUME ~ Connected PROVE FALSE
  OBVIOUS
<1>3. m_send_seq <= 2 /\ m_state = "RUNNING"
  BY <1>2 DEF Handshake, OnlyTheReset
<1> QED BY <1>1, <1>3, Positions

\* No step takes the connection back.
LEMMA ConnectedStays ==
    ASSUME TypeOK, WithinGap, Handshake, Numbers, UpLine, QuarterOfRange, FinishesAreTimely,
           ClientMove \/ LineMove \/ DeviceMove, Connected
    PROVE  Connected'
<1>0. m_send_seq \in Nat \ {0}
  BY DEF TypeOK
<1>a. ASSUME m_send_seq' = m_send_seq, DOMAIN m_pending_requests' \subseteq DOMAIN m_pending_requests PROVE Connected'
  BY <1>a DEF Connected
<1>1. CASE Silent
  BY <1>1, <1>a, SilentFrame
<1>2. ASSUME NEW c \in Clients, TryIssue(c) PROVE Connected'
  BY <1>0, <1>2, IssueAdds DEF Connected
<1>3. ASSUME NEW c \in Clients, clear_all_active_commands(c) PROVE Connected'
  BY <1>3, <1>a, ClearEffect
<1>4. ASSUME NEW c \in Clients, wait_for_request(c) PROVE Connected'
  BY <1>4, <1>a, ReplyEffect DEF Erase
<1>5. ASSUME NEW c \in Clients, StopSend(c) PROVE Connected'
  BY <1>5, <1>a, StopSendEffect
<1>6. ASSUME NEW limit \in Live, Retransmit(limit) PROVE Connected'
  BY <1>6, <1>a, RetransmitEffect DEF clientView
<1>7. CASE process_ack_request
  BY <1>7, <1>a, AckRequestEffect
<1>8. CASE process_ack_command
  BY <1>8, <1>a, AckCommandEffect
<1>9. CASE process_command_finished
  BY <1>9, <1>a, FinishEffect
<1>10. CASE MissedRequest \/ UpLoss \/ DownLoss
  BY <1>10, <1>a DEF MissedRequest, UpLoss, DownLoss, clientView, pending
<1>11. CASE DeviceProcess
  BY <1>11, <1>a DEF DeviceProcess, DeviceUnchanged, clientVars, pending
<1>12. CASE DeviceMove /\ ~ DeviceProcess
  BY <1>12, <1>a, DeviceEffect DEF clientView
<1> QED BY <1>1, <1>2, <1>3, <1>4, <1>5, <1>6, <1>7, <1>8, <1>9, <1>10, <1>11, <1>12 DEF ClientMove, LineMove

\* All that happens while connect() waits for its answer.
Connecting ==
    \/ Silent
    \/ \E c \in Clients : TryIssue(c) /\ op[c] = "connect"
    \/ \E c \in Clients : clear_all_active_commands(c) \/ wait_for_request(c)
    \/ \E limit \in Live : Retransmit(limit)
    \/ process_ack_request \/ UpLoss \/ DownLoss
    \/ DeviceSeqnumReset

LEMMA ConnectingSteps ==
    ASSUME TypeOK, Handshake, Numbers, DeviceQueue, ClientMove \/ LineMove \/ DeviceMove, ~ Connected
    PROVE  Connecting
<1>0. /\ m_state = "RUNNING"
      /\ \A i \in DOMAIN toDevice : toDevice[i].type = "SEQNUM_RESET"
      /\ \A i \in DOMAIN toClient : toClient[i].type = "ACK_REQUEST"
  BY DEF Handshake, OnlyTheReset
<1>1. toDevice # <<>> => Head(toDevice).type = "SEQNUM_RESET"
  BY <1>0, TailOf DEF TypeOK
<1>2. toClient # <<>> => Head(toClient).type = "ACK_REQUEST"
  BY <1>0, TailOf DEF TypeOK
<1>3. dev_queue = <<>> /\ dev_finishing = {}
  BY BusyIsConnected
<1>4. CASE ClientMove
  <2>1. ASSUME NEW c \in Clients, TryIssue(c) PROVE op[c] = "connect"
    <3>1. pc[c] = "try"
      BY <2>1 DEF TryIssue
    <3> QED BY <3>1 DEF Handshake, ConnectComesFirst, SendLabels
  <2>2. ASSUME NEW c \in Clients, StopSend(c) PROVE FALSE
    BY <2>2, StopSendEffect, <1>0
  <2> QED BY <1>4, <2>1, <2>2 DEF ClientMove, Connecting
<1>5. CASE LineMove
  <2>1. ~ process_ack_command /\ ~ process_command_finished /\ ~ MissedRequest
    BY <1>2 DEF process_ack_command, process_command_finished, MissedRequest, Receive
  <2> QED BY <1>5, <2>1 DEF LineMove, Connecting
<1>6. CASE DeviceMove
  <2>1. ~ DeviceProcess /\ ~ DeviceRefuses /\ ~ DeviceAckAgain /\ ~ DeviceFinishAcked
    BY <1>1 DEF DeviceProcess, DeviceRefuses, DeviceAckAgain, DeviceFinishAcked, DeviceReceive, IsNumbered
  <2>2. ~ DeviceFinish /\ ~ \E s \in dev_finishing : DeviceResendFinish(s)
    BY <1>3 DEF DeviceFinish
  <2> QED BY <1>6, <2>1, <2>2 DEF DeviceMove, Connecting
<1> QED BY <1>4, <1>5, <1>6

LEMMA ConnectComesFirstStep ==
    ASSUME TypeOK, WithinGap, Handshake, Numbers, UpLine, DeviceQueue, QuarterOfRange, FinishesAreTimely,
           ClientMove \/ LineMove \/ DeviceMove
    PROVE  ConnectComesFirst'
<1>0. pc \in [Clients -> Labels] /\ op \in [Clients -> Operations \cup {"none"}] /\ m_send_seq \in Nat \ {0}
  BY DEF TypeOK
<1>1. ConnectComesFirst /\ (Connected => Connected')
  BY ConnectedStays DEF Handshake
<1>2. m_send_seq = 1 => toDevice = <<>> /\ toClient = <<>> /\ dev_queue = <<>> /\ dev_finishing = {} /\ Live = {}
  <2>1. m_send_seq = 1 => ~ Connected
    BY DEF Connected
  <2>2. m_send_seq = 1 => dev_queue = <<>> /\ dev_finishing = {}
    BY <2>1, BusyIsConnected
  <2>3. m_send_seq = 1 => Live = {}
    <3>1. SUFFICES ASSUME m_send_seq = 1 PROVE Live = {}
      OBVIOUS
    <3>2. 1 .. (m_send_seq - 1) = {}
      BY <3>1
    <3> QED BY <3>2 DEF Live, TypeOK
  <2> QED BY <1>1, <2>2, <2>3 DEF ConnectComesFirst
<1>a. ASSUME m_send_seq' = m_send_seq, SendersKept, m_send_seq = 1 => toDevice' = <<>> /\ toClient' = <<>>
      PROVE  ConnectComesFirst'
  BY <1>1, <1>a DEF ConnectComesFirst, SendersKept
<1>b. ASSUME op' = op, pc' = pc \/ pc' = notify_all(pc) PROVE SendersKept
  BY <1>0, <1>b, NotifyKeeps DEF SendersKept
<1>3. CASE Silent
  <2>1. UNCHANGED <<m_send_seq, toDevice, toClient>> /\ ThreadsMove
    BY <1>3, SilentFrame, SilentThreads
  <2>2. CASE SendersKept
    BY <1>2, <1>a, <2>1, <2>2
  <2>3. CASE SenderCame
    <3>1. PICK c \in Clients : /\ IF op'[c] = "connect" THEN m_send_seq = 1 /\ Sending = {} ELSE Connected
                               /\ \A d \in Clients \ {c} : pc'[d] = pc[d] /\ op'[d] = op[d]
      BY <2>3 DEF SenderCame
    <3>2. \A d \in Clients : pc'[d] \in SendLabels => IF op'[d] = "connect" THEN m_send_seq = 1 ELSE Connected'
      BY <1>1, <3>1 DEF ConnectComesFirst
    <3>3. m_send_seq = 1 => \A d \in Clients \ {c} : pc[d] \notin SendLabels
      BY <3>1 DEF Sending, SendLabels, Connected
    <3> QED BY <1>2, <2>1, <3>1, <3>2, <3>3 DEF ConnectComesFirst
  <2> QED BY <2>1, <2>2, <2>3 DEF ThreadsMove
<1>4. ASSUME NEW c \in Clients, TryIssue(c) PROVE ConnectComesFirst'
  <2>1. /\ pc[c] = "try" /\ pc'[c] \in {"reply", "clear", "idle"} /\ m_send_seq' = m_send_seq + 1
        /\ \A d \in Clients \ {c} : pc'[d] = pc[d] /\ op'[d] = op[d]
    BY <1>4, IssueEffect
  <2>2. m_send_seq' # 1
    BY <1>0, <2>1
  <2>3. ASSUME NEW d \in Clients, pc'[d] \in SendLabels PROVE op'[d] # "connect" /\ Connected'
    <3>1. d # c /\ pc[d] \in SendLabels /\ op'[d] = op[d]
      BY <2>1, <2>3 DEF SendLabels
    <3>2. m_send_seq # 1
      BY <1>1, <2>1, <3>1 DEF ConnectComesFirst, SendLabels
    <3> QED BY <1>1, <3>1, <3>2 DEF ConnectComesFirst
  <2> QED BY <2>2, <2>3 DEF ConnectComesFirst
<1>5. ASSUME NEW c \in Clients, clear_all_active_commands(c) PROVE ConnectComesFirst'
  <2>1. SendersKept
    <3>1. pc'[c] = "idle" /\ \A d \in Clients \ {c} : pc'[d] = notify_all(pc)[d] /\ op'[d] = op[d]
      BY <1>5, ClearEffect
    <3> QED BY <1>0, <3>1, NotifyKeeps DEF SendersKept, SendLabels
  <2> QED BY <1>2, <1>5, <1>a, <2>1, ClearEffect
<1>6. ASSUME NEW c \in Clients, wait_for_request(c) PROVE ConnectComesFirst'
  <2>1. SendersKept
    <3>1. /\ pc'[c] \in {"idle", "reply_wait"}
          /\ \A d \in Clients \ {c} : pc'[d] \in {pc[d], notify_all(pc)[d]} /\ op'[d] = op[d]
      BY <1>6, ReplyEffect
    <3> QED BY <1>0, <3>1, NotifyKeeps DEF SendersKept, SendLabels
  <2> QED BY <1>2, <1>6, <1>a, <2>1, ReplyEffect
<1>7. ASSUME NEW c \in Clients, StopSend(c) PROVE ConnectComesFirst'
  <2>1. SendersKept
    BY <1>0, <1>7, StopSendEffect DEF SendersKept, SendLabels
  <2> QED BY <1>7, <1>a, <2>1, StopSendEffect
<1>8. ASSUME NEW limit \in Live, Retransmit(limit) PROVE ConnectComesFirst'
  BY <1>2, <1>8, <1>a, <1>b, RetransmitEffect DEF clientView, threadVars
<1>9. CASE LineMove
  <2>1. m_send_seq' = m_send_seq /\ op' = op /\ (pc' = pc \/ pc' = notify_all(pc))
    BY <1>9, LineEffect
  <2>2. toClient # <<>> \/ toDevice # <<>>
    BY <1>9 DEF LineMove, process_ack_request, process_ack_command, process_command_finished, MissedRequest, Receive,
                UpLoss, DownLoss
  <2> QED BY <1>2, <1>a, <1>b, <2>1, <2>2
<1>10. CASE DeviceMove
  <2>1. m_send_seq' = m_send_seq /\ op' = op /\ pc' = pc
    BY <1>10, DeviceEffect DEF DeviceProcess, DeviceUnchanged, clientView, clientVars, threadVars
  <2>2. toDevice # <<>> \/ dev_queue # <<>> \/ dev_finishing # {}
    BY <1>10 DEF DeviceMove, DeviceSeqnumReset, DeviceProcess, DeviceRefuses, DeviceAckAgain, DeviceFinishAcked,
                 DeviceFinish, DeviceReceive
  <2> QED BY <1>2, <1>a, <1>b, <2>1, <2>2
<1> QED BY <1>3, <1>4, <1>5, <1>6, <1>7, <1>8, <1>9, <1>10 DEF ClientMove

LEMMA OnlyTheResetStep ==
    ASSUME TypeOK, TypeOK', WithinGap, Handshake, Numbers, Entries, UpLine, DeviceQueue, QuarterOfRange, FinishesAreTimely,
           ClientMove \/ LineMove \/ DeviceMove
    PROVE  OnlyTheReset'
<1>1. SUFFICES ASSUME ~ Connected' PROVE OnlyTheReset'
  BY DEF OnlyTheReset
<1>2. ~ Connected /\ Connecting
  BY <1>1, ConnectedStays, ConnectingSteps
<1>3. /\ m_send_seq \in Nat \ {0} /\ m_send_seq <= 2 /\ m_state = "RUNNING" /\ ~ m_error
      /\ toDevice \in Seq(WireMessage(MessageTypes)) /\ toClient \in Seq(WireMessage(ReplyTypes))
      /\ \A i \in DOMAIN toDevice : toDevice[i].type = "SEQNUM_RESET"
      /\ \A i \in DOMAIN toClient : toClient[i].type = "ACK_REQUEST"
  BY <1>2 DEF Handshake, OnlyTheReset, TypeOK
<1>4. CASE Silent
  <2>1. UNCHANGED <<m_send_seq, m_error, toDevice, toClient>> /\ ThreadsMove
    BY <1>4, SilentFrame, SilentThreads
  <2>2. ~ StopCame
    BY <1>2 DEF StopCame
  <2>3. ~ StopWent
    BY <1>3 DEF StopWent, Numbers, StopLabels
  <2>4. m_state' = m_state
    BY <2>1, <2>2, <2>3 DEF ThreadsMove, StopKept
  <2> QED BY <1>3, <2>1, <2>4 DEF OnlyTheReset
<1>5. ASSUME NEW c \in Clients, TryIssue(c), op[c] = "connect" PROVE OnlyTheReset'
  <2>1. /\ m_send_seq = 1 /\ m_send_seq' = m_send_seq + 1 /\ UNCHANGED <<m_state, m_error, toClient>>
        /\ toDevice' = Append(toDevice, Message(MessageType(op[c]), m_send_seq))
    BY <1>5, IssueEffect
  <2>2. Message(MessageType(op[c]), m_send_seq).type = "SEQNUM_RESET"
    BY <1>5 DEF MessageType, Message, CommandOps, StopOps, InterruptOps
  <2>3. \A i \in DOMAIN toDevice' : toDevice'[i].type = "SEQNUM_RESET"
    BY <1>3, <2>1, <2>2, AppendOf
  <2> QED BY <1>3, <2>1, <2>3 DEF OnlyTheReset
<1>6. ASSUME NEW c \in Clients, clear_all_active_commands(c) \/ wait_for_request(c) PROVE OnlyTheReset'
  <2>1. UNCHANGED <<m_send_seq, m_state, m_error, toDevice, toClient>>
    BY <1>6, ClearEffect, ReplyEffect
  <2> QED BY <1>3, <2>1 DEF OnlyTheReset
<1>7. ASSUME NEW limit \in Live, Retransmit(limit) PROVE OnlyTheReset'
  <2>1. UNCHANGED <<m_send_seq, m_state, m_error, toClient>> /\ toDevice' = toDevice \o Resent(limit)
    BY <1>7, RetransmitEffect DEF clientView
  <2>2. \A i \in DOMAIN Resent(limit) : Resent(limit)[i].type = "SEQNUM_RESET"
    <3>1. ASSUME NEW s \in Live PROVE s = 1
      <4>1. s \in 1 .. (m_send_seq - 1)
        BY DEF Live, TypeOK
      <4> QED BY <1>3, <4>1
    <3> QED BY <3>1, ResentAre
  <2>3. \A i \in DOMAIN toDevice' : toDevice'[i].type = "SEQNUM_RESET"
    BY <1>3, <2>1, <2>2, ConcatOf, ResentAre
  <2> QED BY <1>3, <2>1, <2>3 DEF OnlyTheReset
<1>8. CASE process_ack_request \/ UpLoss \/ DownLoss
  <2>1. /\ UNCHANGED <<m_send_seq, m_state, m_error>>
        /\ toDevice' = toDevice \/ (toDevice # <<>> /\ toDevice' = Tail(toDevice))
        /\ toClient' = toClient \/ (toClient # <<>> /\ toClient' = Tail(toClient))
    BY <1>8 DEF process_ack_request, Receive, UpLoss, DownLoss, clientView
  <2>2. ASSUME NEW i \in DOMAIN toDevice' PROVE toDevice'[i].type = "SEQNUM_RESET"
    <3>1. CASE toDevice' = toDevice
      BY <1>3, <2>2, <3>1
    <3>2. CASE toDevice # <<>> /\ toDevice' = Tail(toDevice)
      BY <1>3, <2>2, <3>2, TailOf
    <3> QED BY <2>1, <3>1, <3>2
  <2>3. ASSUME NEW i \in DOMAIN toClient' PROVE toClient'[i].type = "ACK_REQUEST"
    <3>1. CASE toClient' = toClient
      BY <1>3, <2>3, <3>1
    <3>2. CASE toClient # <<>> /\ toClient' = Tail(toClient)
      BY <1>3, <2>3, <3>2, TailOf
    <3> QED BY <2>1, <3>1, <3>2
  <2> QED BY <1>3, <2>1, <2>2, <2>3 DEF OnlyTheReset
<1>9. CASE DeviceSeqnumReset
  <2>1. /\ UNCHANGED <<m_send_seq, m_state, m_error>> /\ toDevice # <<>> /\ toDevice' = Tail(toDevice)
        /\ \E e : e.type = "ACK_REQUEST" /\ toClient' = Append(toClient, e)
    <3> DEFINE e == [type |-> "ACK_REQUEST", seq |-> Head(toDevice).seq, id |-> Head(toDevice).id]
    <3>1. e.type = "ACK_REQUEST" /\ toClient' = Append(toClient, e)
      BY <1>9 DEF DeviceSeqnumReset, Reply
    <3> HIDE DEF e
    <3> QED BY <1>9, <3>1 DEF DeviceSeqnumReset, DeviceReceive, DeviceUnchanged, clientVars
  <2>2. \A i \in DOMAIN toDevice' : toDevice'[i].type = "SEQNUM_RESET"
    BY <1>3, <2>1, TailOf
  <2>3. \A i \in DOMAIN toClient' : toClient'[i].type = "ACK_REQUEST"
    BY <1>3, <2>1, AppendOf
  <2> QED BY <1>3, <2>1, <2>2, <2>3 DEF OnlyTheReset
<1> QED BY <1>2, <1>4, <1>5, <1>6, <1>7, <1>8, <1>9 DEF Connecting

LEMMA ExpectsTurnStep ==
    ASSUME TypeOK, WithinGap, Handshake, Numbers, Entries, DownLine, UpLine, Window, DeviceQueue,
           QuarterOfRange, FinishesAreTimely, ClientMove \/ LineMove \/ DeviceMove
    PROVE  ExpectsTurn'
<1>0. m_send_seq \in Nat \ {0} /\ Len(issued) \in Nat /\ executed \in Seq(Record) /\ toDevice \in Seq(WireMessage(MessageTypes))
      /\ DOMAIN m_pending_requests \subseteq 1 .. (m_send_seq - 1)
  BY DEF TypeOK
<1>1. CASE DeviceSeqnumReset
  <2>1. toDevice # <<>> /\ Head(toDevice).type = "SEQNUM_RESET" /\ dev_expected' = Wire(Head(toDevice).seq + 1) /\ executed' = executed
    BY <1>1 DEF DeviceSeqnumReset, DeviceReceive
  <2>2. Head(toDevice).seq = Wire(1) /\ executed = <<>>
    BY <1>0, <2>1, TailOf DEF Handshake, ResetsLead
  <2>3. dev_expected' = Wire(2) /\ Turn' = 2
    <3>1. Wire(Wire(1) + 1) = Wire(2)
      BY WireOfNext
    <3> QED BY <2>1, <2>2, <3>1 DEF Turn
  <2> QED BY <2>3 DEF ExpectsTurn
<1>2. CASE DeviceProcess
  <2>1. dev_expected' = Wire(Turn + 1) /\ Turn' = Turn + 1
    BY <1>2, ProcessEffect
  <2> QED BY <2>1 DEF ExpectsTurn
<1>3. ASSUME ~ DeviceProcess, ~ DeviceSeqnumReset PROVE UNCHANGED <<executed, dev_expected>>
  <2>1. CASE ClientMove
    <3>1. ASSUME NEW c \in Clients, TryIssue(c) \/ clear_all_active_commands(c) \/ wait_for_request(c) \/ StopSend(c)
          PROVE  UNCHANGED <<executed, dev_expected>>
      BY <3>1, IssueEffect, ClearEffect, ReplyEffect, StopSendEffect DEF deviceVars
    <3>2. ASSUME NEW limit \in Live, Retransmit(limit) PROVE UNCHANGED <<executed, dev_expected>>
      BY <3>2, RetransmitEffect DEF deviceVars
    <3> QED BY <2>1, <3>1, <3>2, SilentFrame DEF ClientMove, deviceVars
  <2>2. CASE LineMove
    BY <2>2, LineEffect DEF deviceVars
  <2>3. CASE DeviceMove
    BY <1>3, <2>3 DEF DeviceMove, DeviceRefuses, DeviceAckAgain, DeviceFinishAcked, DeviceFinish, DeviceResendFinish, deviceVars
  <2> QED BY <2>1, <2>2, <2>3
<1>4. CASE ~ DeviceProcess /\ ~ DeviceSeqnumReset /\ dev_expected = Wire(Turn)
  BY <1>3, <1>4 DEF ExpectsTurn, Turn
<1>5. CASE ~ DeviceProcess /\ ~ DeviceSeqnumReset /\ dev_expected # Wire(Turn)
  <2>1. ~ Connected /\ Unanswered /\ Connecting
    BY <1>5, ConnectingSteps DEF Handshake, ExpectsTurn
  <2>2. /\ toClient = <<>> /\ \A s \in DOMAIN m_pending_requests : m_pending_requests[s].state = "NOT_ACKED"
        /\ m_state = "RUNNING" /\ ~ m_error
    BY <2>1 DEF Unanswered, Handshake, OnlyTheReset
  <2>a. ASSUME UNCHANGED <<m_send_seq, m_pending_requests, toClient>> PROVE ExpectsTurn'
    BY <2>1, <2>a DEF ExpectsTurn, Unanswered, Connected
  <2>3. CASE Silent
    BY <2>3, <2>a, SilentFrame
  <2>4. ASSUME NEW c \in Clients, TryIssue(c), op[c] = "connect" PROVE ExpectsTurn'
    <3>1. /\ m_send_seq = 1 /\ toClient' = toClient
          /\ m_pending_requests' = Emplace(m_pending_requests, m_send_seq,
                 [state |-> "NOT_ACKED", silent |-> FALSE, type |-> "SEQNUM_RESET"])
      BY <2>4, IssueEffect
    <3>2. /\ 1 \in DOMAIN m_pending_requests' /\ \A s \in DOMAIN m_pending_requests' : m_pending_requests'[s].state = "NOT_ACKED"
      BY <2>2, <3>1 DEF Emplace
    <3> QED BY <2>2, <3>1, <3>2 DEF ExpectsTurn, Unanswered, Connected
  <2>5. ASSUME NEW c \in Clients, clear_all_active_commands(c) PROVE ExpectsTurn'
    BY <2>5, <2>a, ClearEffect
  <2>6. ASSUME NEW c \in Clients, wait_for_request(c) PROVE ExpectsTurn'
    <3>1. m_pending_requests' = m_pending_requests
      BY <2>2, <2>6, ReplyEffect
    <3> QED BY <2>6, <2>a, <3>1, ReplyEffect
  <2>7. ASSUME NEW limit \in Live, Retransmit(limit) PROVE ExpectsTurn'
    BY <2>7, <2>a, RetransmitEffect DEF clientView
  <2>8. CASE process_ack_request \/ UpLoss \/ DownLoss
    <3>1. DownLoss
      BY <2>2, <2>8 DEF process_ack_request, Receive, UpLoss
    <3> QED BY <2>a, <3>1 DEF DownLoss, clientView
  <2> QED BY <1>5, <2>1, <2>3, <2>4, <2>5, <2>6, <2>7, <2>8 DEF Connecting
<1> QED BY <1>1, <1>2, <1>4, <1>5

LEMMA ResetsLeadStep ==
    ASSUME TypeOK, WithinGap, Handshake, Numbers, Entries, DownLine, UpLine, Window, DeviceQueue,
           QuarterOfRange, FinishesAreTimely, ClientMove \/ LineMove \/ DeviceMove
    PROVE  ResetsLead'
<1>0. /\ m_send_seq \in Nat \ {0} /\ issued \in Seq(Record) /\ executed \in Seq(Record)
      /\ toDevice \in Seq(WireMessage(MessageTypes)) /\ ResetsLead
  BY DEF TypeOK, Handshake
<1>a. ASSUME UNCHANGED <<executed, toDevice>> PROVE ResetsLead'
  BY <1>0, <1>a DEF ResetsLead
<1>t. ASSUME UNCHANGED executed, toDevice # <<>>, toDevice' = Tail(toDevice) PROVE ResetsLead'
  <2>1. ASSUME NEW i \in DOMAIN toDevice', toDevice'[i].type = "SEQNUM_RESET"
        PROVE  /\ toDevice'[i].id = 1 /\ toDevice'[i].seq = Wire(1) /\ executed = <<>>
               /\ \A j \in DOMAIN toDevice' : j < i => toDevice'[j].type = "SEQNUM_RESET"
    <3>1. i + 1 \in DOMAIN toDevice /\ toDevice'[i] = toDevice[i + 1] /\ i \in Nat
      BY <1>0, <1>t, <2>1, TailOf
    <3>2. ASSUME NEW j \in DOMAIN toDevice', j < i PROVE toDevice'[j].type = "SEQNUM_RESET"
      <4>1. j + 1 \in DOMAIN toDevice /\ toDevice'[j] = toDevice[j + 1] /\ j \in Nat /\ j + 1 < i + 1
        BY <1>0, <1>t, <3>1, <3>2, TailOf
      <4> QED BY <1>0, <2>1, <3>1, <4>1 DEF ResetsLead
    <3> QED BY <1>0, <2>1, <3>1, <3>2 DEF ResetsLead
  <2> QED BY <1>t, <2>1 DEF ResetsLead
<1>p. ASSUME UNCHANGED executed, NEW e, toDevice' = Append(toDevice, e), e.type # "SEQNUM_RESET" PROVE ResetsLead'
  <2>1. ASSUME NEW i \in DOMAIN toDevice', toDevice'[i].type = "SEQNUM_RESET"
        PROVE  i \in DOMAIN toDevice /\ toDevice'[i] = toDevice[i]
    BY <1>0, <1>p, <2>1, AppendOf
  <2>2. ASSUME NEW i \in DOMAIN toDevice, NEW j \in DOMAIN toDevice', j < i PROVE j \in DOMAIN toDevice /\ toDevice'[j] = toDevice[j]
    BY <1>0, <1>p, <2>2, AppendOf
  <2> QED BY <1>0, <1>p, <2>1, <2>2 DEF ResetsLead
<1>1. CASE Silent
  BY <1>1, <1>a, SilentFrame DEF deviceVars
<1>2. ASSUME NEW c \in Clients, TryIssue(c) PROVE ResetsLead'
  <2>0. executed' = executed /\ toDevice' = Append(toDevice, Message(MessageType(op[c]), m_send_seq))
    BY <1>2, IssueEffect
  <2>1. CASE op[c] = "connect"
    <3>1. m_send_seq = 1
      BY <1>2, <2>1, IssueEffect
    <3>2. toDevice = <<>> /\ issued = <<>> /\ executed = <<>>
      BY <1>0, <3>1 DEF Handshake, ConnectComesFirst, Numbers
    <3>3. Message(MessageType(op[c]), m_send_seq).id = 1 /\ Message(MessageType(op[c]), m_send_seq).seq = Wire(1)
      BY <3>1 DEF Message
    <3>4. DOMAIN toDevice' = {1} /\ toDevice'[1] = Message(MessageType(op[c]), m_send_seq)
      <4> HIDE DEF Message
      <4> QED BY <2>0, <3>2
    <3> QED BY <2>0, <3>2, <3>3, <3>4 DEF ResetsLead
  <2>2. CASE op[c] # "connect"
    <3>1. MessageType(op[c]) # "SEQNUM_RESET"
      BY <1>2, <2>2, IssueEffect DEF NumberedTypes
    <3>2. Message(MessageType(op[c]), m_send_seq).type # "SEQNUM_RESET"
      BY <3>1 DEF Message
    <3> QED BY <1>p, <2>0, <3>2
  <2> QED BY <2>1, <2>2
<1>3. ASSUME NEW c \in Clients, clear_all_active_commands(c) \/ wait_for_request(c) PROVE ResetsLead'
  <2>1. UNCHANGED <<executed, toDevice>>
    BY <1>3, ClearEffect, ReplyEffect DEF deviceVars
  <2> QED BY <1>a, <2>1
<1>4. ASSUME NEW c \in Clients, StopSend(c) PROVE ResetsLead'
  <2>1. executed' = executed /\ toDevice' = Append(toDevice, Message("REQUEST_STOP", m_send_seq))
    BY <1>4, StopSendEffect DEF deviceVars
  <2>2. Message("REQUEST_STOP", m_send_seq).type # "SEQNUM_RESET"
    BY DEF Message
  <2> QED BY <1>p, <2>1, <2>2
<1>5. ASSUME NEW limit \in Live, Retransmit(limit) PROVE ResetsLead'
  <2>0. executed' = executed /\ toDevice' = toDevice \o Resent(limit)
    BY <1>5, RetransmitEffect DEF deviceVars
  <2>r. /\ Resent(limit) \in Seq(WireMessage(MessageTypes))
        /\ \A i \in DOMAIN Resent(limit) :
              LET m == Resent(limit)[i]
              IN  /\ m.id \in Live /\ m.seq = Wire(m.id)
                  /\ IF m.id = 1 THEN m.type = "SEQNUM_RESET" ELSE m.id \in 2 .. Top /\ m.type = TypeOf(m.id)
    BY ResentAre
  <2>1. CASE Connected
    <3>1. 1 \notin Live
      BY <2>1 DEF Connected, Live, Entries
    <3>2. \A i \in DOMAIN Resent(limit) : Resent(limit)[i].type # "SEQNUM_RESET"
      BY <2>r, <3>1, TypeOfNumber DEF NumberedTypes
    <3>3. ASSUME NEW i \in DOMAIN toDevice', toDevice'[i].type = "SEQNUM_RESET"
          PROVE  i \in DOMAIN toDevice /\ toDevice'[i] = toDevice[i]
      BY <1>0, <2>0, <2>r, <3>2, <3>3, ConcatOf
    <3>4. ASSUME NEW i \in DOMAIN toDevice, NEW j \in DOMAIN toDevice', j < i PROVE j \in DOMAIN toDevice /\ toDevice'[j] = toDevice[j]
      BY <1>0, <2>0, <2>r, <3>4, ConcatOf
    <3> QED BY <1>0, <2>0, <3>3, <3>4 DEF ResetsLead
  <2>2. CASE ~ Connected
    <3>1. /\ m_send_seq <= 2 /\ m_state = "RUNNING" /\ \A i \in DOMAIN toDevice : toDevice[i].type = "SEQNUM_RESET"
      BY <2>2 DEF Handshake, OnlyTheReset
    <3>2. Turn = 2
      BY <3>1, Positions
    <3>3. executed = <<>>
      BY <1>0, <3>2 DEF Turn
    <3>4. ASSUME NEW s \in Live PROVE s = 1
      <4>1. s \in 1 .. (m_send_seq - 1)
        BY DEF Live, TypeOK
      <4> QED BY <1>0, <3>1, <4>1
    <3>5. \A i \in DOMAIN Resent(limit) :
             Resent(limit)[i].type = "SEQNUM_RESET" /\ Resent(limit)[i].id = 1 /\ Resent(limit)[i].seq = Wire(1)
      BY <2>r, <3>4
    <3>6. \A i \in DOMAIN toDevice : toDevice[i].id = 1 /\ toDevice[i].seq = Wire(1)
      BY <1>0, <3>1 DEF ResetsLead
    <3>7. \A i \in DOMAIN toDevice' : toDevice'[i].type = "SEQNUM_RESET" /\ toDevice'[i].id = 1 /\ toDevice'[i].seq = Wire(1)
      BY <1>0, <2>0, <2>r, <3>1, <3>5, <3>6, ConcatOf
    <3> QED BY <2>0, <3>3, <3>7 DEF ResetsLead
  <2> QED BY <2>1, <2>2
<1>6. CASE LineMove
  <2>1. executed' = executed
    BY <1>6, LineEffect DEF deviceVars
  <2>2. CASE process_ack_request \/ process_ack_command \/ MissedRequest \/ UpLoss
    BY <1>a, <2>1, <2>2 DEF process_ack_request, process_ack_command, MissedRequest, UpLoss
  <2>3. CASE process_command_finished
    <3> DEFINE e == [type |-> "ACK_REQUEST", seq |-> Head(toClient).seq, id |-> Head(toClient).id]
    <3>1. toDevice' = Append(toDevice, e) /\ e.type # "SEQNUM_RESET"
      BY <2>3 DEF process_command_finished
    <3> HIDE DEF e
    <3> QED BY <1>p, <2>1, <3>1
  <2>4. CASE DownLoss
    BY <1>t, <2>1, <2>4 DEF DownLoss
  <2> QED BY <1>6, <2>2, <2>3, <2>4 DEF LineMove
<1>7. CASE DeviceProcess
  <2>1. toDevice # <<>> /\ toDevice' = Tail(toDevice) /\ toDevice[1].type # "SEQNUM_RESET"
    BY <1>0, <1>7, TailOf DEF DeviceProcess, DeviceReceive, IsNumbered
  <2>2. ASSUME NEW i \in DOMAIN toDevice PROVE toDevice[i].type # "SEQNUM_RESET"
    <3>1. 1 \in DOMAIN toDevice /\ (i = 1 \/ 1 < i)
      BY <1>0, <2>1, TailOf
    <3> QED BY <1>0, <2>1, <3>1 DEF ResetsLead
  <2>3. \A i \in DOMAIN toDevice' : toDevice'[i].type # "SEQNUM_RESET"
    BY <1>0, <2>1, <2>2, TailOf
  <2> QED BY <2>3 DEF ResetsLead
<1>8. CASE DeviceMove /\ ~ DeviceProcess
  <2>1. executed' = executed
    BY <1>8, DeviceEffect
  <2>2. toDevice' = toDevice \/ (toDevice # <<>> /\ toDevice' = Tail(toDevice))
    BY <1>8 DEF DeviceMove, DeviceSeqnumReset, DeviceRefuses, DeviceAckAgain, DeviceFinishAcked, DeviceFinish,
                DeviceResendFinish, DeviceReceive
  <2> QED BY <1>a, <1>t, <2>1, <2>2
<1> QED BY <1>1, <1>2, <1>3, <1>4, <1>5, <1>6, <1>7, <1>8 DEF ClientMove

LEMMA HandshakeStep ==
    ASSUME TypeOK, TypeOK', WithinGap, Handshake, Numbers, Entries, DownLine, UpLine, Window, DeviceQueue,
           QuarterOfRange, FinishesAreTimely, ClientMove \/ LineMove \/ DeviceMove
    PROVE  Handshake'
BY ConnectComesFirstStep, OnlyTheResetStep, ExpectsTurnStep, ResetsLeadStep DEF Handshake

-----------------------------------------------------------------------------
(* The way down.  The two conditions of DownLine, for any message and for  *)
(* any line, so that they can be compared before and after a step.         *)

DownFits(m, turn, sent, commands) ==
    /\ IsNumbered(m) => /\ m.seq = Wire(m.id) /\ m.id \in 2 .. (Len(sent) + 1) /\ m.type = sent[m.id - 1].type
                        /\ turn <= m.id + MAX_SEQNUM_GAP + 2
    /\ m.type = "ACK_REQUEST" => m.id \in 2 .. (turn - 1) /\ m.id \notin commands

DownOrder(q) ==
    \A i, j \in DOMAIN q :
        i < j /\ IsNumbered(q[i]) /\ IsNumbered(q[j]) => q[i].id <= q[j].id + MAX_SEQNUM_GAP + 1

LEMMA IdsAreNumbers ==
    ASSUME NEW types, NEW q \in Seq(WireMessage(types)), NEW k \in DOMAIN q
    PROVE  q[k].id \in Nat
<1>1. q[k] \in WireMessage(types)
  OBVIOUS
<1> QED BY <1>1 DEF WireMessage

LEMMA DownLineIs ==
    DownLine <=> /\ \A i \in DOMAIN toDevice : DownFits(toDevice[i], Turn, issued, DOMAIN m_pending_commands)
                 /\ DownOrder(toDevice)
BY DEF DownLine, DownFits, DownOrder, Top, TypeOf

\* A message still fits when more has been sent and nothing new is processed.
LEMMA DownStillFits ==
    ASSUME NEW m, m.id \in Nat, NEW turn \in Nat, NEW sent \in Seq(Record), NEW more \in Seq(Record),
           NEW commands, NEW after, turn <= Len(sent) + 2,
           Len(sent) <= Len(more), \A i \in DOMAIN sent : more[i] = sent[i],
           \A s \in after : s \in commands \/ s > Len(sent) + 1,
           DownFits(m, turn, sent, commands)
    PROVE  DownFits(m, turn, more, after)
<1>1. CASE IsNumbered(m)
  <2>1. m.id - 1 \in DOMAIN sent
    BY <1>1 DEF DownFits
  <2>2. more[m.id - 1] = sent[m.id - 1]
    BY <2>1
  <2> QED BY <1>1, <2>1, <2>2 DEF DownFits, IsNumbered
<1>2. CASE ~ IsNumbered(m)
  BY <1>2 DEF DownFits
<1> QED BY <1>1, <1>2

LEMMA DownOrderOfTail ==
    ASSUME NEW q \in Seq(WireMessage(MessageTypes)), q # <<>>, DownOrder(q)
    PROVE  DownOrder(Tail(q))
<1> SUFFICES ASSUME NEW i \in DOMAIN Tail(q), NEW j \in DOMAIN Tail(q), i < j, IsNumbered(Tail(q)[i]), IsNumbered(Tail(q)[j])
             PROVE  Tail(q)[i].id <= Tail(q)[j].id + MAX_SEQNUM_GAP + 1
  BY DEF DownOrder
<1>1. i + 1 \in DOMAIN q /\ j + 1 \in DOMAIN q /\ i + 1 < j + 1 /\ Tail(q)[i] = q[i + 1] /\ Tail(q)[j] = q[j + 1]
  BY TailOf
<1> QED BY <1>1 DEF DownOrder

LEMMA DownOrderGrows ==
    ASSUME NEW q \in Seq(WireMessage(MessageTypes)), NEW r \in Seq(WireMessage(MessageTypes)), NEW top \in Nat,
           MAX_SEQNUM_GAP \in Nat, DownOrder(q),
           \A i \in DOMAIN q : IsNumbered(q[i]) => q[i].id <= top,
           \A i \in DOMAIN r : IsNumbered(r[i]) => r[i].id <= top /\ top <= r[i].id + MAX_SEQNUM_GAP + 1
    PROVE  DownOrder(q \o r)
<1> SUFFICES ASSUME NEW i \in DOMAIN (q \o r), NEW j \in DOMAIN (q \o r), i < j,
                    IsNumbered((q \o r)[i]), IsNumbered((q \o r)[j])
             PROVE  (q \o r)[i].id <= (q \o r)[j].id + MAX_SEQNUM_GAP + 1
  BY DEF DownOrder
<1> DEFINE a == (q \o r)[i]
           b == (q \o r)[j]
<1>1. /\ (i \in DOMAIN q /\ a = q[i]) \/ (i \in Nat /\ i > Len(q) /\ \E k \in DOMAIN r : a = r[k])
      /\ (j \in DOMAIN q /\ b = q[j]) \/ (j \in Nat /\ j > Len(q) /\ \E k \in DOMAIN r : b = r[k])
      /\ \A k \in DOMAIN q : k \in Nat \ {0} /\ k <= Len(q)
  BY ConcatOf
<1>2. \A k \in DOMAIN q : q[k].id \in Nat
  BY IdsAreNumbers
<1>3. \A k \in DOMAIN r : r[k].id \in Nat
  BY IdsAreNumbers
<1>h. IsNumbered(a) /\ IsNumbered(b)
  OBVIOUS
<1> HIDE DEF a, b
<1>4. CASE j \in DOMAIN q /\ b = q[j]
  <2>1. i \in DOMAIN q /\ a = q[i]
    <3>1. Len(q) \in Nat
      OBVIOUS
    <3> QED BY <1>1, <1>4, <3>1
  <2>2. a.id <= b.id + MAX_SEQNUM_GAP + 1
    BY <1>4, <1>h, <2>1 DEF DownOrder
  <2> QED BY <2>2 DEF a, b
<1>5. CASE \E k \in DOMAIN r : b = r[k]
  <2>1. top <= b.id + MAX_SEQNUM_GAP + 1 /\ b.id \in Nat
    BY <1>3, <1>5, <1>h
  <2>2. a.id <= top /\ a.id \in Nat
    BY <1>1, <1>2, <1>3, <1>h
  <2>3. a.id <= b.id + MAX_SEQNUM_GAP + 1
    BY <2>1, <2>2
  <2> QED BY <2>3 DEF a, b
<1> QED BY <1>1, <1>4, <1>5

LEMMA DownLineStep ==
    ASSUME TypeOK, TypeOK', WithinGap, Handshake, Numbers, Entries, DownLine, UpLine, Window, DeviceQueue,
           QuarterOfRange, FinishesAreTimely, ClientMove \/ LineMove \/ DeviceMove
    PROVE  DownLine'
<1>0. /\ m_send_seq \in Nat \ {0} /\ Turn \in Nat /\ Turn >= 2 /\ Top \in Nat /\ Turn <= Top + 1 /\ MAX_SEQNUM_GAP \in Nat
      /\ toDevice \in Seq(WireMessage(MessageTypes)) /\ issued \in Seq(Record) /\ issued' \in Seq(Record)
      /\ IF m_send_seq = 1 THEN Top = 1 ELSE Top = m_send_seq - 1 \/ (m_state # "RUNNING" /\ Top = m_send_seq)
      /\ Turn <= Len(issued) + 2
  <2>1. toDevice \in Seq(WireMessage(MessageTypes)) /\ issued \in Seq(Record) /\ issued' \in Seq(Record)
    BY DEF TypeOK
  <2>2. Len(issued) \in Nat
    BY <2>1
  <2> QED BY <2>1, <2>2, Positions DEF Top
<1>d. ASSUME NEW i \in DOMAIN toDevice
      PROVE  toDevice[i].id \in Nat /\ DownFits(toDevice[i], Turn, issued, DOMAIN m_pending_commands)
  BY <1>0, DownLineIs, IdsAreNumbers
<1>o. DownOrder(toDevice)
  BY DownLineIs
<1>i. /\ \A i \in DOMAIN toDevice' : DownFits(toDevice'[i], Turn', issued', DOMAIN m_pending_commands')
      /\ DownOrder(toDevice')
      => DownLine'
  BY DEF DownLine, DownFits, DownOrder, Top, TypeOf
\* What is on the line stays there, loses its head, or is followed by r.
<1>a. ASSUME UNCHANGED <<issued, executed>>, DOMAIN m_pending_commands' \subseteq DOMAIN m_pending_commands,
             toDevice' = toDevice \/ (toDevice # <<>> /\ toDevice' = Tail(toDevice))
      PROVE  DownLine'
  <2>1. Turn' = Turn
    BY <1>a DEF Turn
  <2>2. ASSUME NEW i \in DOMAIN toDevice PROVE DownFits(toDevice[i], Turn', issued', DOMAIN m_pending_commands')
    BY <1>a, <1>d, <2>1 DEF DownFits
  <2>3. CASE toDevice' = toDevice
    BY <1>i, <1>o, <2>2, <2>3
  <2>4. CASE toDevice # <<>> /\ toDevice' = Tail(toDevice)
    <3>1. ASSUME NEW i \in DOMAIN toDevice' PROVE DownFits(toDevice'[i], Turn', issued', DOMAIN m_pending_commands')
      BY <1>0, <2>2, <2>4, TailOf
    <3>2. DownOrder(toDevice')
      BY <1>0, <1>o, <2>4, DownOrderOfTail
    <3> QED BY <1>i, <3>1, <3>2
  <2> QED BY <1>a, <2>3, <2>4
<1>p. ASSUME NEW r \in Seq(WireMessage(MessageTypes)), toDevice' = toDevice \o r, Turn' = Turn,
             Len(issued) <= Len(issued'), \A i \in DOMAIN issued : issued'[i] = issued[i],
             \A s \in DOMAIN m_pending_commands' : s \in DOMAIN m_pending_commands \/ s > Top,
             \A i \in DOMAIN r :
                 /\ DownFits(r[i], Turn, issued', DOMAIN m_pending_commands')
                 /\ IsNumbered(r[i]) => Top' <= r[i].id + MAX_SEQNUM_GAP + 1
      PROVE  DownLine'
  <2>1. ASSUME NEW i \in DOMAIN toDevice PROVE DownFits(toDevice[i], Turn', issued', DOMAIN m_pending_commands')
    <3>1. \A s \in DOMAIN m_pending_commands' : s \in DOMAIN m_pending_commands \/ s > Len(issued) + 1
      BY <1>p DEF Top
    <3> QED BY <1>0, <1>d, <1>p, <3>1, DownStillFits
  <2>2. ASSUME NEW i \in DOMAIN toDevice' PROVE DownFits(toDevice'[i], Turn', issued', DOMAIN m_pending_commands')
    <3>1. (i \in DOMAIN toDevice /\ toDevice'[i] = toDevice[i]) \/ (\E j \in DOMAIN r : toDevice'[i] = r[j])
      BY <1>0, <1>p, ConcatOf
    <3>2. CASE i \in DOMAIN toDevice /\ toDevice'[i] = toDevice[i]
      BY <2>1, <3>2
    <3>3. CASE \E j \in DOMAIN r : toDevice'[i] = r[j]
      BY <1>p, <3>3
    <3> QED BY <3>1, <3>2, <3>3
  <2>3. DownOrder(toDevice \o r)
    <3>1. Top' \in Nat /\ Top' = Len(issued') + 1
      BY <1>0 DEF Top
    <3>2. ASSUME NEW i \in DOMAIN toDevice, IsNumbered(toDevice[i]) PROVE toDevice[i].id <= Top'
      BY <3>1, <3>2, <2>1, <1>d DEF DownFits
    <3>3. ASSUME NEW i \in DOMAIN r, IsNumbered(r[i]) PROVE r[i].id <= Top' /\ Top' <= r[i].id + MAX_SEQNUM_GAP + 1
      BY <3>1, <3>3, <1>p DEF DownFits
    <3> HIDE DEF Top
    <3>4. \A top : top = Top' => DownOrder(toDevice \o r)
      BY <1>0, <1>o, <1>p, <3>1, <3>2, <3>3, DownOrderGrows
    <3> QED BY <3>4
  <2> QED BY <1>i, <1>p, <2>2, <2>3
\* One message is appended.
<1>e. ASSUME NEW e \in WireMessage(MessageTypes), toDevice' = Append(toDevice, e), Turn' = Turn,
             Len(issued) <= Len(issued'), \A i \in DOMAIN issued : issued'[i] = issued[i],
             \A s \in DOMAIN m_pending_commands' : s \in DOMAIN m_pending_commands \/ s > Top,
             DownFits(e, Turn, issued', DOMAIN m_pending_commands'),
             IsNumbered(e) => Top' <= e.id + MAX_SEQNUM_GAP + 1
      PROVE  DownLine'
  <2>1. <<e>> \in Seq(WireMessage(MessageTypes)) /\ toDevice' = toDevice \o <<e>>
    BY <1>0, <1>e
  <2>2. \A i \in DOMAIN <<e>> : <<e>>[i] = e
    OBVIOUS
  <2>3. \A i \in DOMAIN <<e>> :
           /\ DownFits(<<e>>[i], Turn, issued', DOMAIN m_pending_commands')
           /\ IsNumbered(<<e>>[i]) => Top' <= <<e>>[i].id + MAX_SEQNUM_GAP + 1
    BY <1>e, <2>2
  <2> QED BY <1>e, <1>p, <2>1, <2>3
\* The client sends its next number.
<1>n. ASSUME NEW type \in NumberedTypes, toDevice' = Append(toDevice, Message(type, m_send_seq)),
             issued' = Append(issued, [seq |-> m_send_seq, type |-> type]), executed' = executed, Top = m_send_seq - 1,
             \A s \in DOMAIN m_pending_commands' : s \in DOMAIN m_pending_commands \/ s = m_send_seq
      PROVE  DownLine'
  <2>1. PICK e : e = Message(type, m_send_seq)
    OBVIOUS
  <2>2. /\ e \in WireMessage(MessageTypes) /\ e.id = m_send_seq /\ e.seq = Wire(m_send_seq) /\ e.type = type
        /\ e.type # "ACK_REQUEST"
    BY <1>0, <2>1, MessageIsTyped DEF Message, NumberedTypes
  <2>3. Turn' = Turn
    BY <1>n DEF Turn
  <2>4. /\ Len(issued') = Len(issued) + 1 /\ \A i \in DOMAIN issued : issued'[i] = issued[i]
        /\ issued'[Len(issued) + 1].type = type
    BY <1>0, <1>n
  <2>5. m_send_seq = Len(issued) + 2 /\ Top' = m_send_seq /\ Len(issued) \in Nat
    BY <1>0, <1>n, <2>4 DEF Top
  <2>6. DownFits(e, Turn, issued', DOMAIN m_pending_commands')
    <3>1. m_send_seq \in 2 .. (Len(issued') + 1) /\ issued'[m_send_seq - 1].type = type /\ Turn <= m_send_seq + MAX_SEQNUM_GAP + 2
      BY <1>0, <2>4, <2>5
    <3> QED BY <2>2, <3>1 DEF DownFits
  <2>7. \A s \in DOMAIN m_pending_commands' : s \in DOMAIN m_pending_commands \/ s > Top
    BY <1>0, <1>n
  <2>8. Top' <= e.id + MAX_SEQNUM_GAP + 1
    BY <1>0, <2>2, <2>5
  <2> QED BY <1>0, <1>e, <1>n, <2>1, <2>2, <2>3, <2>4, <2>6, <2>7, <2>8
<1>1. CASE Silent
  BY <1>1, <1>a, SilentFrame DEF deviceVars
<1>2. ASSUME NEW c \in Clients, TryIssue(c) PROVE DownLine'
  <2>1. executed' = executed /\ m_state = "RUNNING" /\ toDevice' = Append(toDevice, Message(MessageType(op[c]), m_send_seq))
    BY <1>2, IssueEffect
  <2>3. CASE op[c] = "connect" /\ m_send_seq = 1 /\ UNCHANGED <<issued, m_pending_commands>>
    <3>1. PICK e : e = Message(MessageType(op[c]), m_send_seq)
      OBVIOUS
    <3>2. e \in WireMessage(MessageTypes) /\ e.type = "SEQNUM_RESET"
      <4>1. e \in WireMessage(MessageTypes)
        BY <1>0, <3>1, MessageTypeType, MessageIsTyped
      <4>2. MessageType(op[c]) = "SEQNUM_RESET"
        BY <2>3 DEF MessageType, CommandOps, StopOps, InterruptOps
      <4> QED BY <3>1, <4>1, <4>2 DEF Message
    <3>3. ~ IsNumbered(e) /\ \A turn, sent, commands : DownFits(e, turn, sent, commands)
      BY <3>2 DEF IsNumbered, DownFits
    <3>4. Turn' = Turn
      BY <2>1 DEF Turn
    <3> QED BY <1>e, <2>1, <2>3, <3>1, <3>2, <3>3, <3>4
  <2>4. CASE op[c] # "connect"
    <3>1. /\ m_send_seq > 1 /\ MessageType(op[c]) \in NumberedTypes
          /\ issued' = Append(issued, [seq |-> m_send_seq, type |-> MessageType(op[c])])
          /\ \A s \in DOMAIN m_pending_commands' : s \in DOMAIN m_pending_commands \/ s = m_send_seq
      BY <1>2, <2>4, IssueEffect DEF Emplace
    <3>2. Top = m_send_seq - 1
      BY <1>0, <2>1, <3>1
    <3> QED BY <1>n, <2>1, <3>1, <3>2
  <2> QED BY <1>2, <2>3, <2>4, IssueEffect
<1>3. ASSUME NEW c \in Clients, clear_all_active_commands(c) PROVE DownLine'
  BY <1>3, <1>a, ClearEffect DEF Erase, deviceVars
<1>4. ASSUME NEW c \in Clients, wait_for_request(c) PROVE DownLine'
  BY <1>4, <1>a, ReplyEffect DEF deviceVars
<1>5. ASSUME NEW c \in Clients, StopSend(c) PROVE DownLine'
  <2>1. /\ UNCHANGED <<executed, m_pending_commands>> /\ toDevice' = Append(toDevice, Message("REQUEST_STOP", m_send_seq))
        /\ issued' = Append(issued, [seq |-> m_send_seq, type |-> "REQUEST_STOP"]) /\ Len(issued) = m_send_seq - 2
    BY <1>5, StopSendEffect DEF deviceVars
  <2>2. Top = m_send_seq - 1 /\ "REQUEST_STOP" \in NumberedTypes
    BY <1>0, <2>1 DEF Top, NumberedTypes, MessageTypes
  <2> QED BY <1>n, <2>1, <2>2
<1>6. ASSUME NEW limit \in Live, Retransmit(limit) PROVE DownLine'
  <2>1. UNCHANGED <<issued, executed, m_pending_commands>> /\ m_state = "RUNNING" /\ toDevice' = toDevice \o Resent(limit)
    BY <1>6, RetransmitEffect DEF clientView, deviceVars, pending
  <2>2. PICK r : r = Resent(limit)
    OBVIOUS
  <2>3. /\ r \in Seq(WireMessage(MessageTypes))
        /\ \A i \in DOMAIN r : /\ r[i].id \in Live /\ r[i].seq = Wire(r[i].id)
                                /\ IF r[i].id = 1 THEN r[i].type = "SEQNUM_RESET" ELSE r[i].id \in 2 .. Top /\ r[i].type = TypeOf(r[i].id)
    BY <2>2, ResentAre
  <2>4. ASSUME NEW i \in DOMAIN r
        PROVE  /\ DownFits(r[i], Turn, issued, DOMAIN m_pending_commands)
               /\ IsNumbered(r[i]) => Top <= r[i].id + MAX_SEQNUM_GAP + 1
    <3>1. r[i].type # "ACK_REQUEST"
      <4>1. CASE r[i].id = 1
        BY <2>3, <4>1
      <4>2. CASE r[i].id # 1
        BY <2>3, <4>2, TypeOfNumber DEF NumberedTypes
      <4> QED BY <4>1, <4>2
    <3>2. CASE IsNumbered(r[i])
      <4>1. r[i].id # 1 /\ r[i].id \in Live /\ r[i].id \in 2 .. Top /\ r[i].type = TypeOf(r[i].id)
        BY <2>3, <3>2 DEF IsNumbered
      <4>2. m_send_seq - 1 - r[i].id <= MAX_SEQNUM_GAP
        BY <4>1 DEF WithinGap
      <4>3. m_send_seq # 1
        BY <1>0, <4>1
      <4>4. Top <= r[i].id + MAX_SEQNUM_GAP /\ Turn <= r[i].id + MAX_SEQNUM_GAP + 2 /\ r[i].id \in Nat
        BY <1>0, <2>1, <4>1, <4>2, <4>3
      <4>5. PICK m : m = r[i]
        OBVIOUS
      <4>6. /\ m.id \in Nat /\ m.id \in 2 .. Top /\ m.type = TypeOf(m.id) /\ m.seq = Wire(m.id)
            /\ m.type # "ACK_REQUEST" /\ Turn <= m.id + MAX_SEQNUM_GAP + 2
        BY <2>3, <3>1, <4>1, <4>4, <4>5
      <4>7. DownFits(m, Turn, issued, DOMAIN m_pending_commands)
        BY <4>6 DEF DownFits, Top, TypeOf
      <4>8. Top <= r[i].id + MAX_SEQNUM_GAP + 1
        <5>1. Top \in Nat
          BY DEF TypeOK, Top
        <5> QED BY <1>0, <4>4, <5>1
      <4> QED BY <4>5, <4>7, <4>8
    <3>3. CASE ~ IsNumbered(r[i])
      BY <3>1, <3>3 DEF DownFits
    <3> QED BY <3>2, <3>3
  <2>5. Turn' = Turn /\ Top' = Top /\ Len(issued) <= Len(issued')
    BY <1>0, <2>1 DEF Turn, Top
  <2> QED BY <1>p, <2>1, <2>2, <2>3, <2>4, <2>5
<1>7. CASE process_command_finished
  <2>1. PICK m : m = Head(toClient)
    OBVIOUS
  <2>2. /\ toClient # <<>> /\ m = toClient[1] /\ m.id \in 2 .. (Turn - 1) /\ UNCHANGED <<issued, executed>>
        /\ toDevice' = Append(toDevice, [type |-> "ACK_REQUEST", seq |-> m.seq, id |-> m.id])
        /\ m_pending_commands' = Erase(m_pending_commands, {m.id})
    BY <1>7, <2>1, FinishEffect DEF deviceVars
  <2>3. m \in WireMessage(ReplyTypes)
    BY <2>2, TailOf DEF TypeOK
  <2>4. PICK e : e = [type |-> "ACK_REQUEST", seq |-> m.seq, id |-> m.id]
    OBVIOUS
  <2>5. e \in WireMessage(MessageTypes) /\ e.type = "ACK_REQUEST" /\ e.id = m.id
    BY <2>3, <2>4 DEF WireMessage, MessageTypes
  <2>6. Turn' = Turn /\ Len(issued) <= Len(issued')
    BY <1>0, <2>2 DEF Turn
  <2>7. m.id \notin DOMAIN m_pending_commands' /\ DOMAIN m_pending_commands' \subseteq DOMAIN m_pending_commands
    BY <2>2 DEF Erase
  <2>8. ~ IsNumbered(e) /\ DownFits(e, Turn, issued', DOMAIN m_pending_commands')
    BY <2>2, <2>5, <2>7 DEF IsNumbered, DownFits
  <2> QED BY <1>e, <2>2, <2>4, <2>5, <2>6, <2>7, <2>8
<1>8. CASE process_ack_request
  <2>1. UNCHANGED <<issued, executed, toDevice, m_pending_commands>>
    BY <1>8, AckRequestEffect DEF deviceVars
  <2> QED BY <1>a, <2>1
<1>9. CASE process_ack_command
  <2>1. UNCHANGED <<issued, executed, toDevice>> /\ DOMAIN m_pending_commands' = DOMAIN m_pending_commands
    BY <1>9, AckCommandEffect DEF deviceVars
  <2> QED BY <1>a, <2>1
<1>10. CASE MissedRequest \/ UpLoss
  BY <1>10, <1>a DEF MissedRequest, UpLoss, clientView, pending, deviceVars
<1>11. CASE DownLoss
  BY <1>11, <1>a DEF DownLoss, clientView, pending, deviceVars
<1>12. CASE DeviceProcess
  <2>1. /\ toDevice # <<>> /\ toDevice' = Tail(toDevice) /\ IsNumbered(Head(toDevice)) /\ Head(toDevice).id = Turn
        /\ Turn' = Turn + 1 /\ UNCHANGED <<issued, m_pending_commands>>
    BY <1>12, ProcessEffect DEF clientView, pending
  <2>2. ASSUME NEW i \in DOMAIN toDevice' PROVE DownFits(toDevice'[i], Turn', issued', DOMAIN m_pending_commands')
    <3>1. /\ 1 \in DOMAIN toDevice /\ toDevice[1] = Head(toDevice)
          /\ i + 1 \in DOMAIN toDevice /\ toDevice'[i] = toDevice[i + 1] /\ i \in Nat \ {0}
      BY <1>0, <2>1, TailOf
    <3>2. PICK m : m = toDevice[i + 1]
      OBVIOUS
    <3>3. DownFits(m, Turn, issued, DOMAIN m_pending_commands) /\ m.id \in Nat
      BY <1>d, <3>1, <3>2
    <3>4. CASE IsNumbered(m)
      <4>1. Turn <= m.id + MAX_SEQNUM_GAP + 1
        <5>1. 1 < i + 1 /\ IsNumbered(toDevice[1]) /\ IsNumbered(toDevice[i + 1])
          BY <2>1, <3>1, <3>2, <3>4
        <5>2. toDevice[1].id <= toDevice[i + 1].id + MAX_SEQNUM_GAP + 1
          BY <1>o, <3>1, <5>1 DEF DownOrder
        <5> QED BY <2>1, <3>1, <3>2, <5>2
      <4>2. Turn' <= m.id + MAX_SEQNUM_GAP + 2 /\ m.type # "ACK_REQUEST"
        <5>1. m.id \in Nat /\ Turn' = Turn + 1
          BY <2>1, <3>3
        <5>2. Turn' <= m.id + MAX_SEQNUM_GAP + 2
          BY <1>0, <4>1, <5>1
        <5> QED BY <3>4, <5>2 DEF IsNumbered
      <4>3. DownFits(m, Turn', issued, DOMAIN m_pending_commands)
        BY <3>3, <3>4, <4>2 DEF DownFits
      <4> QED BY <2>1, <3>1, <3>2, <4>3
    <3>5. CASE ~ IsNumbered(m)
      BY <1>0, <2>1, <3>1, <3>2, <3>3, <3>5 DEF DownFits
    <3> QED BY <3>4, <3>5
  <2>3. DownOrder(toDevice')
    BY <1>0, <1>o, <2>1, DownOrderOfTail
  <2> QED BY <1>i, <2>2, <2>3
<1>13. CASE DeviceMove /\ ~ DeviceProcess
  <2>1. UNCHANGED <<issued, executed, m_pending_commands>>
    BY <1>13, DeviceEffect DEF clientView, pending
  <2>2. toDevice' = toDevice \/ (toDevice # <<>> /\ toDevice' = Tail(toDevice))
    BY <1>13 DEF DeviceMove, DeviceSeqnumReset, DeviceRefuses, DeviceAckAgain, DeviceFinishAcked, DeviceFinish,
                DeviceResendFinish, DeviceReceive
  <2> QED BY <1>a, <2>1, <2>2
<1> QED BY <1>1, <1>2, <1>3, <1>4, <1>5, <1>6, <1>7, <1>8, <1>9, <1>10, <1>11, <1>12, <1>13 DEF ClientMove, LineMove

-----------------------------------------------------------------------------
(* The way back, in the same manner.                                       *)

UpFits(m, next, turn, queue) ==
    /\ IsAck(m) => m.seq = Wire(m.id) /\ m.id \in 1 .. (turn - 1) /\ next <= m.id + 3 * MAX_SEQNUM_GAP + 3
    /\ m.type = "REQUEST_COMMAND_FINISHED" => m.seq = Wire(m.id) /\ m.id \in 2 .. (turn - 1) /\ m.id \notin queue

UpOrder(q) ==
    \A i, j \in DOMAIN q : i < j /\ IsAnswer(q[i]) /\ IsAck(q[j]) => q[i].id <= q[j].id + MAX_SEQNUM_GAP + 1

LEMMA UpLineIs ==
    UpLine <=> /\ \A i \in DOMAIN toClient : UpFits(toClient[i], m_send_seq, Turn, Queued)
               /\ UpOrder(toClient)
BY DEF UpLine, UpFits, UpOrder

LEMMA UpOrderOfTail ==
    ASSUME NEW q \in Seq(WireMessage(ReplyTypes)), q # <<>>, UpOrder(q)
    PROVE  UpOrder(Tail(q))
<1> SUFFICES ASSUME NEW i \in DOMAIN Tail(q), NEW j \in DOMAIN Tail(q), i < j, IsAnswer(Tail(q)[i]), IsAck(Tail(q)[j])
             PROVE  Tail(q)[i].id <= Tail(q)[j].id + MAX_SEQNUM_GAP + 1
  BY DEF UpOrder
<1>1. i + 1 \in DOMAIN q /\ j + 1 \in DOMAIN q /\ i + 1 < j + 1 /\ Tail(q)[i] = q[i + 1] /\ Tail(q)[j] = q[j + 1]
  BY TailOf
<1> QED BY <1>1 DEF UpOrder

LEMMA UpOrderGrows ==
    ASSUME NEW q \in Seq(WireMessage(ReplyTypes)), NEW e, UpOrder(q),
           IsAck(e) => \A i \in DOMAIN q : IsAnswer(q[i]) => q[i].id <= e.id + MAX_SEQNUM_GAP + 1
    PROVE  UpOrder(Append(q, e))
<1> SUFFICES ASSUME NEW i \in DOMAIN Append(q, e), NEW j \in DOMAIN Append(q, e), i < j,
                    IsAnswer(Append(q, e)[i]), IsAck(Append(q, e)[j])
             PROVE  Append(q, e)[i].id <= Append(q, e)[j].id + MAX_SEQNUM_GAP + 1
  BY DEF UpOrder
<1>1. /\ (i \in DOMAIN q /\ Append(q, e)[i] = q[i]) \/ i = Len(q) + 1
      /\ (j \in DOMAIN q /\ Append(q, e)[j] = q[j]) \/ (j = Len(q) + 1 /\ Append(q, e)[j] = e)
      /\ (\A k \in DOMAIN q : k \in Nat /\ k < Len(q) + 1) /\ Len(q) \in Nat
  BY AppendOf
<1>2. i \in DOMAIN q /\ Append(q, e)[i] = q[i]
  BY <1>1
<1>3. CASE j \in DOMAIN q /\ Append(q, e)[j] = q[j]
  BY <1>2, <1>3 DEF UpOrder
<1>4. CASE Append(q, e)[j] = e
  BY <1>2, <1>4
<1> QED BY <1>1, <1>3, <1>4

\* When the client may issue, no ack on the line is about a number so old
\* that the next number would leave it behind: what comes GAP + 2 after that
\* number is still accounted for, and the gap check counts from there.
LEMMA AcksAreClose ==
    ASSUME TypeOK, Handshake, Numbers, UpLine, Window, NEW c \in Clients, TryIssue(c),
           NEW i \in DOMAIN toClient, IsAck(toClient[i])
    PROVE  m_send_seq + 1 <= toClient[i].id + 3 * MAX_SEQNUM_GAP + 3
<1>1. /\ m_send_seq \in Nat \ {0} /\ MAX_SEQNUM_GAP \in Nat /\ Turn \in Nat
  BY Positions
<1>2. m_state = "RUNNING" /\ ~ m_error /\ pc[c] = "try" /\ ~ TooFarAhead
  BY IssueEffect DEF TryIssue, Throttled
<1>3. m_send_seq > 1
  <2>1. SUFFICES ASSUME m_send_seq = 1 PROVE FALSE
    BY <1>1
  <2>2. toClient = <<>>
    BY <2>1 DEF Handshake, ConnectComesFirst
  <2> QED BY <2>2
<1>4. toClient[i].id \in 1 .. (Turn - 1)
  BY DEF UpLine
<1>5. PICK id \in Nat : id = toClient[i].id
  BY <1>1, <1>4
<1>6. SUFFICES ASSUME ~ m_send_seq + 1 <= id + 3 * MAX_SEQNUM_GAP + 3 PROVE FALSE
  BY <1>5
<1>7. PICK s \in Nat : s = id + MAX_SEQNUM_GAP + 2
  BY <1>1, <1>5
<1>8. s \in 2 .. (m_send_seq - 1)
  BY <1>1, <1>6, <1>7
<1>9. Accounted(s)
  BY <1>2, <1>8 DEF Window
<1>10. ASSUME NEW k \in Live PROVE m_send_seq <= k + MAX_SEQNUM_GAP
  <2>1. ~ m_send_seq - k > MAX_SEQNUM_GAP
    BY <1>2 DEF TooFarAhead
  <2>2. k \in 1 .. (m_send_seq - 1)
    BY DEF Live, TypeOK
  <2> QED BY <1>1, <2>1, <2>2
<1>11. ~ Settled(s)
  <2>1. ~ s <= id + MAX_SEQNUM_GAP + 1
    BY <1>1, <1>7
  <2> QED BY <1>5, <2>1 DEF Settled
<1>12. s \notin Live
  BY <1>1, <1>6, <1>7, <1>10
<1>13. PICK k \in DOMAIN m_pending_requests : k <= s + MAX_SEQNUM_GAP
  BY <1>9, <1>11, <1>12 DEF Accounted, Live, Unacked
<1>14. k \in Nat /\ m_send_seq <= k + MAX_SEQNUM_GAP
  BY <1>10, <1>13 DEF Live, TypeOK
<1> QED BY <1>1, <1>6, <1>7, <1>13, <1>14

LEMMA QueueOrder ==
    ASSUME TypeOK, Numbers, DeviceQueue, dev_queue # <<>>
    PROVE  /\ Head(dev_queue) \in 2 .. (Turn - 1) /\ Head(dev_queue) \in Queued /\ TypeOf(Head(dev_queue)) = "COMMAND"
           /\ \A i \in DOMAIN Tail(dev_queue) : Tail(dev_queue)[i] \in Queued /\ Head(dev_queue) < Tail(dev_queue)[i]
           /\ \A i, j \in DOMAIN Tail(dev_queue) : i < j => Tail(dev_queue)[i] < Tail(dev_queue)[j]
           /\ \A q \in Queued : q = Head(dev_queue) \/ \E i \in DOMAIN Tail(dev_queue) : Tail(dev_queue)[i] = q
<1>1. dev_queue \in Seq(Nat)
  BY DEF TypeOK
<1>2. 1 \in DOMAIN dev_queue /\ Head(dev_queue) = dev_queue[1]
  BY <1>1, TailOf
<1>3. \A i \in DOMAIN Tail(dev_queue) : i \in Nat \ {0} /\ i + 1 \in DOMAIN dev_queue /\ Tail(dev_queue)[i] = dev_queue[i + 1]
  BY <1>1, TailOf
<1>4. ASSUME NEW i \in DOMAIN Tail(dev_queue) PROVE Tail(dev_queue)[i] \in Queued /\ Head(dev_queue) < Tail(dev_queue)[i]
  BY <1>2, <1>3 DEF DeviceQueue, Queued
<1>5. ASSUME NEW i \in DOMAIN Tail(dev_queue), NEW j \in DOMAIN Tail(dev_queue), i < j PROVE Tail(dev_queue)[i] < Tail(dev_queue)[j]
  <2>1. i + 1 < j + 1
    BY <1>3, <1>5
  <2> QED BY <1>3, <2>1 DEF DeviceQueue
<1>6. ASSUME NEW i \in DOMAIN dev_queue PROVE dev_queue[i] = Head(dev_queue) \/ \E j \in DOMAIN Tail(dev_queue) : Tail(dev_queue)[j] = dev_queue[i]
  <2>1. i \in Nat \ {0} /\ (i # 1 => i - 1 \in DOMAIN Tail(dev_queue) /\ Tail(dev_queue)[i - 1] = dev_queue[i])
    BY <1>1
  <2> QED BY <1>2, <2>1
<1> QED BY <1>2, <1>4, <1>5, <1>6 DEF DeviceQueue, Queued

LEMMA UpLineStep ==
    ASSUME TypeOK, TypeOK', WithinGap, Handshake, Numbers, Entries, DownLine, UpLine, Window, DeviceQueue,
           QuarterOfRange, FinishesAreTimely, ClientMove \/ LineMove \/ DeviceMove
    PROVE  UpLine'
<1>0. /\ m_send_seq \in Nat \ {0} /\ Turn \in Nat /\ Turn >= 2 /\ MAX_SEQNUM_GAP \in Nat
      /\ toClient \in Seq(WireMessage(ReplyTypes)) /\ toDevice \in Seq(WireMessage(MessageTypes)) /\ dev_queue \in Seq(Nat)
  <2>1. toClient \in Seq(WireMessage(ReplyTypes)) /\ toDevice \in Seq(WireMessage(MessageTypes)) /\ dev_queue \in Seq(Nat)
    BY DEF TypeOK
  <2> QED BY <2>1, Positions
<1>d. ASSUME NEW i \in DOMAIN toClient
      PROVE  toClient[i].id \in Nat /\ UpFits(toClient[i], m_send_seq, Turn, Queued)
  BY <1>0, UpLineIs, IdsAreNumbers
<1>o. UpOrder(toClient)
  BY UpLineIs
<1>i. /\ \A i \in DOMAIN toClient' : UpFits(toClient'[i], m_send_seq', Turn', Queued')
      /\ UpOrder(toClient')
      => UpLine'
  BY DEF UpLine, UpFits, UpOrder
\* All answers on the line are about numbers that have been processed.
<1>u. ASSUME NEW i \in DOMAIN toClient, IsAnswer(toClient[i]) PROVE toClient[i].id <= Turn - 1
  BY <1>0, <1>d, <1>u DEF UpFits, IsAnswer
\* What is on the line stays there or loses its head.
<1>a. ASSUME UNCHANGED <<m_send_seq, executed>>, Queued' \subseteq Queued,
             toClient' = toClient \/ (toClient # <<>> /\ toClient' = Tail(toClient))
      PROVE  UpLine'
  <2>1. Turn' = Turn
    BY <1>a DEF Turn
  <2>2. ASSUME NEW i \in DOMAIN toClient PROVE UpFits(toClient[i], m_send_seq', Turn', Queued')
    BY <1>a, <1>d, <2>1 DEF UpFits
  <2>3. CASE toClient' = toClient
    BY <1>i, <1>o, <2>2, <2>3
  <2>4. CASE toClient # <<>> /\ toClient' = Tail(toClient)
    <3>1. ASSUME NEW i \in DOMAIN toClient' PROVE UpFits(toClient'[i], m_send_seq', Turn', Queued')
      BY <1>0, <2>2, <2>4, TailOf
    <3>2. UpOrder(toClient')
      BY <1>0, <1>o, <2>4, UpOrderOfTail
    <3> QED BY <1>i, <3>1, <3>2
  <2> QED BY <1>a, <2>3, <2>4
<1>k. ASSUME UNCHANGED <<m_send_seq, toClient, deviceVars>> PROVE UpLine'
  BY <1>a, <1>k DEF deviceVars, Queued
\* The device appends one message.
<1>e. ASSUME NEW e, toClient' = Append(toClient, e), m_send_seq' = m_send_seq, Turn' \in {Turn, Turn + 1},
             \A q \in Queued' : q \in Queued \/ q >= Turn, UpFits(e, m_send_seq, Turn', Queued'),
             IsAck(e) => Turn - 1 <= e.id + MAX_SEQNUM_GAP + 1 /\ e.id \in Nat
      PROVE  UpLine'
  <2>1. ASSUME NEW i \in DOMAIN toClient PROVE UpFits(toClient[i], m_send_seq', Turn', Queued')
    <3>1. PICK m : m = toClient[i]
      OBVIOUS
    <3>2. UpFits(m, m_send_seq, Turn, Queued) /\ m.id \in Nat
      BY <1>d, <3>1
    <3>3. /\ m.id \in 1 .. (Turn - 1) => m.id \in 1 .. (Turn' - 1)
          /\ m.id \in 2 .. (Turn - 1) => m.id \in 2 .. (Turn' - 1)
      BY <1>0, <1>e
    <3>4. m.id \in 2 .. (Turn - 1) /\ m.id \notin Queued => m.id \notin Queued'
      BY <1>0, <1>e
    <3>5. UpFits(m, m_send_seq', Turn', Queued')
      BY <1>e, <3>2, <3>3, <3>4 DEF UpFits
    <3> QED BY <3>1, <3>5
  <2>2. ASSUME NEW i \in DOMAIN toClient' PROVE UpFits(toClient'[i], m_send_seq', Turn', Queued')
    <3>1. (i \in DOMAIN toClient /\ toClient'[i] = toClient[i]) \/ toClient'[i] = e
      BY <1>0, <1>e, AppendOf
    <3>2. CASE i \in DOMAIN toClient /\ toClient'[i] = toClient[i]
      BY <2>1, <3>2
    <3>3. CASE toClient'[i] = e
      BY <1>e, <3>3
    <3> QED BY <3>1, <3>2, <3>3
  <2>3. UpOrder(toClient')
    <3>1. ASSUME IsAck(e), NEW i \in DOMAIN toClient, IsAnswer(toClient[i])
          PROVE  toClient[i].id <= e.id + MAX_SEQNUM_GAP + 1
      <4>1. toClient[i].id \in Nat
        BY <1>d
      <4>2. toClient[i].id <= Turn - 1
        BY <1>u, <3>1
      <4>3. Turn - 1 <= e.id + MAX_SEQNUM_GAP + 1 /\ e.id \in Nat
        BY <1>e, <3>1
      <4> QED BY <1>0, <4>1, <4>2, <4>3
    <3>2. UpOrder(Append(toClient, e))
      BY <1>0, <1>o, <3>1, UpOrderGrows
    <3> QED BY <1>e, <3>2
  <2> QED BY <1>i, <2>2, <2>3
<1>1. CASE Silent
  BY <1>1, <1>k, SilentFrame
<1>2. ASSUME NEW c \in Clients, TryIssue(c) PROVE UpLine'
  <2>1. UNCHANGED <<toClient, executed, dev_queue>> /\ m_send_seq' = m_send_seq + 1
    BY <1>2, IssueEffect
  <2>2. ASSUME NEW i \in DOMAIN toClient' PROVE UpFits(toClient'[i], m_send_seq', Turn', Queued')
    <3>1. i \in DOMAIN toClient /\ toClient'[i] = toClient[i] /\ Turn' = Turn /\ Queued' = Queued
      BY <2>1 DEF Turn, Queued
    <3>2. IsAck(toClient[i]) => m_send_seq' <= toClient[i].id + 3 * MAX_SEQNUM_GAP + 3
      BY <1>2, <2>1, <3>1, AcksAreClose
    <3> QED BY <1>d, <3>1, <3>2 DEF UpFits
  <2> QED BY <1>i, <1>o, <2>1, <2>2
<1>3. ASSUME NEW c \in Clients, clear_all_active_commands(c) PROVE UpLine'
  BY <1>3, <1>k, ClearEffect
<1>4. ASSUME NEW c \in Clients, wait_for_request(c) PROVE UpLine'
  BY <1>4, <1>k, ReplyEffect
<1>5. ASSUME NEW c \in Clients, StopSend(c) PROVE UpLine'
  BY <1>5, <1>k, StopSendEffect
<1>6. ASSUME NEW limit \in Live, Retransmit(limit) PROVE UpLine'
  BY <1>6, <1>k, RetransmitEffect DEF clientView
<1>7. CASE LineMove
  <2>1. UNCHANGED <<m_send_seq, executed>> /\ Queued' \subseteq Queued
    BY <1>7, LineEffect DEF deviceVars, Queued
  <2>2. toClient' = toClient \/ (toClient # <<>> /\ toClient' = Tail(toClient))
    BY <1>7 DEF LineMove, process_ack_request, process_ack_command, process_command_finished, MissedRequest, Receive,
                UpLoss, DownLoss
  <2> QED BY <1>a, <2>1, <2>2
<1>8. CASE DeviceProcess
  <2>1. /\ m_send_seq' = m_send_seq /\ Turn' = Turn + 1 /\ m_send_seq <= Turn + 2 * MAX_SEQNUM_GAP + 1
        /\ \E a : IsAck(a) /\ a.id = Turn /\ a.seq = Wire(Turn) /\ toClient' = Append(toClient, a)
    BY <1>8, ProcessEffect DEF clientView
  <2>2. PICK a : IsAck(a) /\ a.id = Turn /\ a.seq = Wire(Turn) /\ toClient' = Append(toClient, a)
    BY <2>1
  <2>3. ASSUME NEW q \in Queued' PROVE q \in Queued \/ q = Turn
    <3>1. dev_queue' \in {<<Turn>>, <<>>, dev_queue, Append(dev_queue, Turn)}
      BY <1>8, ProcessEffect
    <3>2. ASSUME NEW i \in DOMAIN dev_queue' PROVE dev_queue'[i] \in Queued \/ dev_queue'[i] = Turn
      <4>1. CASE dev_queue' = <<Turn>>
        BY <3>2, <4>1
      <4>2. CASE dev_queue' = <<>> \/ dev_queue' = dev_queue
        BY <3>2, <4>2 DEF Queued
      <4>3. CASE dev_queue' = Append(dev_queue, Turn)
        BY <1>0, <3>2, <4>3, AppendOf DEF Queued
      <4> QED BY <3>1, <4>1, <4>2, <4>3
    <3>3. PICK i \in DOMAIN dev_queue' : q = dev_queue'[i]
      BY <2>3 DEF Queued
    <3> QED BY <3>2, <3>3
  <2>4. UpFits(a, m_send_seq, Turn', Queued')
    <3>1. a.id \in 1 .. (Turn' - 1) /\ m_send_seq <= a.id + 3 * MAX_SEQNUM_GAP + 3
      BY <1>0, <2>1, <2>2
    <3> QED BY <2>2, <3>1 DEF UpFits, IsAck
  <2>5. Turn - 1 <= a.id + MAX_SEQNUM_GAP + 1 /\ a.id \in Nat
    BY <1>0, <2>2
  <2>6. \A q \in Queued' : q \in Queued \/ q >= Turn
    BY <1>0, <2>3
  <2> QED BY <1>e, <2>1, <2>2, <2>4, <2>5, <2>6
<1>9. CASE DeviceAckAgain
  <2>1. PICK m : m = Head(toDevice)
    OBVIOUS
  <2>2. /\ toDevice # <<>> /\ IsNumbered(m) /\ 2 * Distance(m.seq) >= SeqnumModulus
        /\ toClient' = Append(toClient, [type |-> AckOf(m), seq |-> m.seq, id |-> m.id])
        /\ UNCHANGED <<m_send_seq, deviceVars>>
    BY <1>9, <2>1 DEF DeviceAckAgain, DeviceReceive, Reply, DeviceUnchanged, clientVars
  <2>3. /\ m.id \in 2 .. Top /\ m.seq = Wire(m.id) /\ Turn <= m.id + MAX_SEQNUM_GAP + 2
        /\ m_send_seq <= Turn + 2 * MAX_SEQNUM_GAP + 1 /\ m.id < Turn
    BY <2>1, <2>2, HeadIsPlaced
  <2>4. PICK e : e = [type |-> AckOf(m), seq |-> m.seq, id |-> m.id]
    OBVIOUS
  <2>5. IsAck(e) /\ e.id = m.id /\ e.seq = Wire(m.id) /\ e.type # "REQUEST_COMMAND_FINISHED"
    BY <2>3, <2>4 DEF IsAck, AckOf
  <2>6. m.id \in Nat /\ m.id \in 1 .. (Turn - 1) /\ m_send_seq <= m.id + 3 * MAX_SEQNUM_GAP + 3
        /\ Turn - 1 <= m.id + MAX_SEQNUM_GAP + 1
    BY <1>0, <2>3
  <2>7. Turn' = Turn /\ Queued' = Queued
    BY <2>2 DEF deviceVars, Turn, Queued
  <2>8. UpFits(e, m_send_seq, Turn', Queued')
    BY <2>5, <2>6, <2>7 DEF UpFits
  <2> QED BY <1>e, <2>2, <2>4, <2>5, <2>6, <2>7, <2>8
<1>10. CASE DeviceSeqnumReset
  <2>1. PICK m : m = Head(toDevice)
    OBVIOUS
  <2>2. /\ toDevice # <<>> /\ m.type = "SEQNUM_RESET"
        /\ toClient' = Append(toClient, [type |-> "ACK_REQUEST", seq |-> m.seq, id |-> m.id])
        /\ UNCHANGED <<m_send_seq, executed, dev_queue>>
    BY <1>10, <2>1 DEF DeviceSeqnumReset, DeviceReceive, Reply, DeviceUnchanged, clientVars
  <2>3. m.id = 1 /\ m.seq = Wire(1) /\ executed = <<>>
    <3>1. 1 \in DOMAIN toDevice /\ toDevice[1] = m
      BY <1>0, <2>1, <2>2, TailOf
    <3> QED BY <2>2, <3>1 DEF Handshake, ResetsLead
  <2>4. PICK e : e = [type |-> "ACK_REQUEST", seq |-> m.seq, id |-> m.id]
    OBVIOUS
  <2>5. IsAck(e) /\ e.id = 1 /\ e.seq = Wire(1) /\ e.type # "REQUEST_COMMAND_FINISHED"
    BY <2>3, <2>4 DEF IsAck
  <2>6. Turn = 2 /\ Turn' = Turn /\ Queued' = Queued
    BY <2>2, <2>3 DEF Turn, Queued
  <2>7. m_send_seq <= 1 + 3 * MAX_SEQNUM_GAP + 3 /\ 1 \in 1 .. (Turn - 1) /\ Turn - 1 <= 1 + MAX_SEQNUM_GAP + 1
    BY <1>0, <2>6 DEF Window
  <2>8. UpFits(e, m_send_seq, Turn', Queued')
    BY <2>5, <2>6, <2>7 DEF UpFits
  <2> QED BY <1>e, <2>2, <2>4, <2>5, <2>6, <2>7, <2>8
<1>11. CASE DeviceFinish
  <2>1. /\ dev_queue # <<>> /\ dev_queue' = Tail(dev_queue) /\ toClient' = Append(toClient, Finish(Head(dev_queue)))
        /\ UNCHANGED <<m_send_seq, executed>>
    BY <1>11 DEF DeviceFinish, DeviceUnchanged, clientVars
  <2>2. PICK e : e = Finish(Head(dev_queue))
    OBVIOUS
  <2>3. ~ IsAck(e) /\ e.seq = Wire(e.id) /\ e.id = Head(dev_queue)
    BY <2>2 DEF Finish, IsAck
  <2>4. e.id \in 2 .. (Turn - 1) /\ Queued' \subseteq Queued /\ e.id \notin Queued'
    <3>1. Head(dev_queue) \in 2 .. (Turn - 1) /\ \A i \in DOMAIN Tail(dev_queue) : Tail(dev_queue)[i] \in Queued /\ Head(dev_queue) < Tail(dev_queue)[i]
      BY <2>1, QueueOrder
    <3>2. Queued' = {Tail(dev_queue)[i] : i \in DOMAIN Tail(dev_queue)}
      BY <2>1 DEF Queued
    <3> QED BY <1>0, <2>3, <3>1, <3>2
  <2>5. Turn' = Turn
    BY <2>1 DEF Turn
  <2>6. UpFits(e, m_send_seq, Turn', Queued')
    BY <2>3, <2>4, <2>5 DEF UpFits
  <2> QED BY <1>e, <2>1, <2>2, <2>3, <2>4, <2>5, <2>6
<1>12. ASSUME NEW s \in dev_finishing, DeviceResendFinish(s) PROVE UpLine'
  <2>1. toClient' = Append(toClient, Finish(s)) /\ UNCHANGED <<m_send_seq, executed, dev_queue>>
    BY <1>12 DEF DeviceResendFinish, DeviceUnchanged, clientVars, deviceVars
  <2>2. PICK e : e = Finish(s)
    OBVIOUS
  <2>3. ~ IsAck(e) /\ e.seq = Wire(e.id) /\ e.id = s
    BY <2>2 DEF Finish, IsAck
  <2>4. Turn' = Turn /\ Queued' = Queued
    BY <2>1 DEF Turn, Queued
  <2>5. UpFits(e, m_send_seq, Turn', Queued')
    BY <2>3, <2>4 DEF UpFits, DeviceQueue
  <2> QED BY <1>e, <2>1, <2>2, <2>3, <2>4, <2>5
<1>13. CASE DeviceRefuses
  <2>1. PICK e \in WireMessage({"ERROR_COMMAND_DROPPED", "ERROR_MISSED_REQUEST"}) : toClient' = Append(toClient, e)
    BY <1>13 DEF DeviceRefuses
  <2>2. ~ IsAck(e) /\ \A next, turn, queue : UpFits(e, next, turn, queue)
    BY DEF WireMessage, IsAck, UpFits
  <2>3. m_send_seq' = m_send_seq /\ Turn' = Turn /\ Queued' = Queued
    BY <1>13 DEF DeviceRefuses, clientView, deviceVars, Turn, Queued
  <2> QED BY <1>e, <2>1, <2>2, <2>3
<1>14. CASE DeviceFinishAcked
  <2>1. UNCHANGED <<m_send_seq, toClient, dev_queue, executed>>
    BY <1>14 DEF DeviceFinishAcked, DeviceUnchanged, clientVars
  <2> QED BY <1>a, <2>1 DEF Queued
<1> QED BY <1>1, <1>2, <1>3, <1>4, <1>5, <1>6, <1>7, <1>8, <1>9, <1>10, <1>11, <1>12, <1>13, <1>14 DEF ClientMove, DeviceMove

-----------------------------------------------------------------------------
(* The queue of the device, in the same manner.                            *)

QueueFits(queue, interrupt, finishing, turn, sent) ==
    /\ \A i \in DOMAIN queue : queue[i] \in 2 .. (turn - 1) /\ sent[queue[i] - 1].type = "COMMAND"
    /\ \A i, j \in DOMAIN queue : i < j => queue[i] < queue[j]
    /\ finishing \subseteq 2 .. (turn - 1) /\ \A i \in DOMAIN queue : queue[i] \notin finishing
    /\ \A i \in DOMAIN queue : \A k \in (queue[i] + 1) .. (turn - 1) :
          /\ sent[k - 1].type # "REQUEST_STOP"
          /\ sent[k - 1].type = "REQUEST_NEXT_CMD_INTERRUPT" => interrupt
    /\ interrupt => \E k \in 2 .. (turn - 1) :
          sent[k - 1].type = "REQUEST_NEXT_CMD_INTERRUPT" /\ \A i \in DOMAIN queue : queue[i] < k

LEMMA DeviceQueueIs ==
    ASSUME TypeOK
    PROVE  DeviceQueue <=> QueueFits(dev_queue, dev_interrupt, dev_finishing, Turn, issued)
<1>1. DeviceQueue => QueueFits(dev_queue, dev_interrupt, dev_finishing, Turn, issued)
  BY DEF DeviceQueue, QueueFits, Queued, TypeOf
<1>2. QueueFits(dev_queue, dev_interrupt, dev_finishing, Turn, issued) => DeviceQueue
  BY DEF DeviceQueue, QueueFits, Queued, TypeOf
<1> QED BY <1>1, <1>2

LEMMA QueueStillFits ==
    ASSUME NEW queue \in Seq(Nat), NEW interrupt, NEW finishing, NEW turn \in Nat, NEW sent \in Seq(Record), NEW more \in Seq(Record),
           turn <= Len(sent) + 2, \A i \in DOMAIN sent : more[i] = sent[i],
           QueueFits(queue, interrupt, finishing, turn, sent)
    PROVE  QueueFits(queue, interrupt, finishing, turn, more)
<1>1. ASSUME NEW k \in 2 .. (turn - 1) PROVE more[k - 1] = sent[k - 1]
  <2>1. k - 1 \in DOMAIN sent
    OBVIOUS
  <2> QED BY <2>1
<1>2. ASSUME NEW i \in DOMAIN queue, NEW k \in (queue[i] + 1) .. (turn - 1) PROVE k \in 2 .. (turn - 1)
  BY DEF QueueFits
<1> QED BY <1>1, <1>2 DEF QueueFits

LEMMA DeviceQueueStep ==
    ASSUME TypeOK, TypeOK', Handshake, Numbers, Entries, DownLine, UpLine, Window, DeviceQueue,
           QuarterOfRange, ClientMove \/ LineMove \/ DeviceMove
    PROVE  DeviceQueue'
<1>0. /\ Turn \in Nat /\ Turn >= 2 /\ Turn <= Len(issued) + 2
      /\ issued \in Seq(Record) /\ issued' \in Seq(Record) /\ dev_queue \in Seq(Nat) /\ m_send_seq \in Nat \ {0}
  <2>1. issued \in Seq(Record) /\ issued' \in Seq(Record) /\ dev_queue \in Seq(Nat) /\ m_send_seq \in Nat \ {0}
    BY DEF TypeOK
  <2>2. Len(issued) \in Nat
    BY <2>1
  <2> QED BY <2>1, <2>2, Positions DEF Top
<1>q. QueueFits(dev_queue, dev_interrupt, dev_finishing, Turn, issued)
  BY DeviceQueueIs
<1>i. QueueFits(dev_queue', dev_interrupt', dev_finishing', Turn', issued') => DeviceQueue'
  BY DEF DeviceQueue, QueueFits, Queued, TypeOf
<1>a. ASSUME UNCHANGED deviceVars, \A i \in DOMAIN issued : issued'[i] = issued[i] PROVE DeviceQueue'
  <2>1. Turn' = Turn /\ UNCHANGED <<dev_queue, dev_interrupt, dev_finishing>>
    BY <1>a DEF deviceVars, Turn
  <2>2. QueueFits(dev_queue, dev_interrupt, dev_finishing, Turn, issued')
    BY <1>0, <1>a, <1>q, QueueStillFits
  <2> QED BY <1>i, <2>1, <2>2
<1>1. CASE Silent
  BY <1>1, <1>a, SilentFrame
<1>2. ASSUME NEW c \in Clients, TryIssue(c) PROVE DeviceQueue'
  <2>1. UNCHANGED deviceVars /\ (issued' = issued \/ issued' = Append(issued, [seq |-> m_send_seq, type |-> MessageType(op[c])]))
    BY <1>2, IssueEffect DEF deviceVars
  <2>2. PICK e : issued' = issued \/ issued' = Append(issued, e)
    BY <2>1
  <2>3. \A i \in DOMAIN issued : issued'[i] = issued[i]
    <3>1. CASE issued' = issued
      BY <3>1
    <3>2. CASE issued' = Append(issued, e)
      BY <1>0, <3>2, AppendOf
    <3> QED BY <2>2, <3>1, <3>2
  <2> QED BY <1>a, <2>1, <2>3
<1>3. ASSUME NEW c \in Clients, clear_all_active_commands(c) PROVE DeviceQueue'
  BY <1>3, <1>a, ClearEffect
<1>4. ASSUME NEW c \in Clients, wait_for_request(c) PROVE DeviceQueue'
  BY <1>4, <1>a, ReplyEffect
<1>5. ASSUME NEW c \in Clients, StopSend(c) PROVE DeviceQueue'
  <2>1. UNCHANGED deviceVars /\ issued' = Append(issued, [seq |-> m_send_seq, type |-> "REQUEST_STOP"])
    BY <1>5, StopSendEffect
  <2>2. \A i \in DOMAIN issued : issued'[i] = issued[i]
    BY <1>0, <2>1
  <2> QED BY <1>a, <2>1, <2>2
<1>6. ASSUME NEW limit \in Live, Retransmit(limit) PROVE DeviceQueue'
  BY <1>6, <1>a, RetransmitEffect DEF clientView
<1>7. CASE LineMove
  BY <1>7, <1>a, LineEffect
<1>8. CASE DeviceProcess
  <2>1. PICK m : m = Head(toDevice)
    OBVIOUS
  <2>2. /\ Turn' = Turn + 1 /\ UNCHANGED <<issued, dev_finishing>> /\ m.type = issued[Turn - 1].type
        /\ \/ /\ m.type = "COMMAND" /\ ~ dev_interrupt' /\ IF dev_interrupt THEN dev_queue' = <<Turn>> ELSE dev_queue' = Append(dev_queue, Turn)
           \/ m.type = "REQUEST_STOP" /\ dev_queue' = <<>> /\ UNCHANGED dev_interrupt
           \/ m.type = "REQUEST_NEXT_CMD_INTERRUPT" /\ dev_interrupt' /\ UNCHANGED dev_queue
           \/ m.type = "REQUEST" /\ UNCHANGED <<dev_queue, dev_interrupt>>
    BY <1>8, <2>1, ProcessEffect DEF clientView, TypeOf
  <2>3. SUFFICES QueueFits(dev_queue', dev_interrupt', dev_finishing, Turn + 1, issued)
    BY <1>i, <2>2
  <2>4. \A i \in DOMAIN dev_queue : dev_queue[i] \in 2 .. (Turn - 1)
    BY <1>q DEF QueueFits
  <2>5. CASE m.type = "COMMAND" /\ dev_queue' = <<Turn>> /\ ~ dev_interrupt'
    <3>1. \A i \in DOMAIN dev_queue' : dev_queue'[i] = Turn
      BY <2>5
    <3>2. DOMAIN dev_queue' = {1}
      BY <2>5
    <3>3. \A i \in DOMAIN dev_queue' : dev_queue'[i] \in 2 .. ((Turn + 1) - 1) /\ issued[dev_queue'[i] - 1].type = "COMMAND"
      <4>1. Turn \in 2 .. ((Turn + 1) - 1) /\ issued[Turn - 1].type = "COMMAND"
        BY <1>0, <2>2, <2>5
      <4> QED BY <3>1, <4>1
    <3>4. \A i, j \in DOMAIN dev_queue' : ~ i < j
      BY <3>2
    <3>5. dev_finishing \subseteq 2 .. (Turn - 1)
      BY <1>q DEF QueueFits
    <3>6. dev_finishing \subseteq 2 .. ((Turn + 1) - 1) /\ Turn \notin dev_finishing
      BY <1>0, <3>5
    <3>7. \A i \in DOMAIN dev_queue' : (dev_queue'[i] + 1) .. ((Turn + 1) - 1) = {}
      BY <1>0, <3>1
    <3> QED BY <2>5, <3>1, <3>3, <3>4, <3>6, <3>7 DEF QueueFits
  <2>6. CASE m.type = "COMMAND" /\ ~ dev_interrupt /\ dev_queue' = Append(dev_queue, Turn) /\ ~ dev_interrupt'
    <3>1. \A i \in DOMAIN dev_queue' : (i \in DOMAIN dev_queue /\ dev_queue'[i] = dev_queue[i]) \/ (i = Len(dev_queue) + 1 /\ dev_queue'[i] = Turn)
      BY <1>0, <2>6, AppendOf
    <3>2. (\A i \in DOMAIN dev_queue : i \in Nat \ {0} /\ i < Len(dev_queue) + 1) /\ Len(dev_queue) \in Nat
      BY <1>0
    <3>3. \A i \in DOMAIN dev_queue' : dev_queue'[i] \in 2 .. Turn /\ issued[dev_queue'[i] - 1].type = "COMMAND" /\ dev_queue'[i] \notin dev_finishing
      <4>1. \A i \in DOMAIN dev_queue : dev_queue[i] \in 2 .. Turn /\ issued[dev_queue[i] - 1].type = "COMMAND" /\ dev_queue[i] \notin dev_finishing
        BY <1>0, <1>q, <2>4 DEF QueueFits
      <4>2. dev_finishing \subseteq 2 .. (Turn - 1)
        BY <1>q DEF QueueFits
      <4>3. Turn \in 2 .. Turn /\ issued[Turn - 1].type = "COMMAND" /\ Turn \notin dev_finishing
        BY <1>0, <2>2, <2>6, <4>2
      <4> QED BY <3>1, <4>1, <4>3
    <3>4. ASSUME NEW i \in DOMAIN dev_queue', NEW j \in DOMAIN dev_queue', i < j PROVE dev_queue'[i] < dev_queue'[j]
      <4>1. i \in DOMAIN dev_queue /\ dev_queue'[i] = dev_queue[i]
        BY <3>1, <3>2, <3>4
      <4>2. CASE j \in DOMAIN dev_queue /\ dev_queue'[j] = dev_queue[j]
        BY <1>q, <3>4, <4>1, <4>2 DEF QueueFits
      <4>3. CASE dev_queue'[j] = Turn
        BY <1>0, <2>4, <4>1, <4>3
      <4> QED BY <3>1, <4>2, <4>3
    <3>5. ASSUME NEW i \in DOMAIN dev_queue', NEW k \in (dev_queue'[i] + 1) .. Turn
          PROVE  issued[k - 1].type \notin {"REQUEST_STOP", "REQUEST_NEXT_CMD_INTERRUPT"}
      <4>1. CASE k = Turn
        BY <2>2, <2>6, <4>1
      <4>2. CASE k # Turn
        <5>1. i \in DOMAIN dev_queue /\ dev_queue'[i] = dev_queue[i] /\ k \in (dev_queue[i] + 1) .. (Turn - 1)
          BY <1>0, <2>4, <3>1, <4>2
        <5> QED BY <1>q, <2>6, <5>1 DEF QueueFits
      <4> QED BY <4>1, <4>2
    <3>6. dev_finishing \subseteq 2 .. Turn /\ (Turn + 1) - 1 = Turn
      BY <1>0, <1>q DEF QueueFits
    <3> QED BY <2>6, <3>3, <3>4, <3>5, <3>6 DEF QueueFits
  <2>7. CASE m.type = "REQUEST_STOP" /\ dev_queue' = <<>> /\ UNCHANGED dev_interrupt
    <3>1. DOMAIN dev_queue' = {}
      BY <2>7
    <3>2. dev_finishing \subseteq 2 .. Turn /\ (Turn + 1) - 1 = Turn /\ \A k \in 2 .. (Turn - 1) : k \in 2 .. Turn
      BY <1>0, <1>q DEF QueueFits
    <3> QED BY <1>q, <2>7, <3>1, <3>2 DEF QueueFits
  <2>8. CASE m.type \in {"REQUEST_NEXT_CMD_INTERRUPT", "REQUEST"} /\ UNCHANGED dev_queue
             /\ (m.type = "REQUEST_NEXT_CMD_INTERRUPT" => dev_interrupt') /\ (m.type = "REQUEST" => dev_interrupt' = dev_interrupt)
    <3>1. dev_finishing \subseteq 2 .. Turn /\ (Turn + 1) - 1 = Turn /\ \A k \in 2 .. (Turn - 1) : k \in 2 .. Turn
      BY <1>0, <1>q DEF QueueFits
    <3>2. ASSUME NEW i \in DOMAIN dev_queue, NEW k \in (dev_queue[i] + 1) .. Turn
          PROVE  issued[k - 1].type # "REQUEST_STOP" /\ (issued[k - 1].type = "REQUEST_NEXT_CMD_INTERRUPT" => dev_interrupt')
      <4>1. CASE k = Turn
        BY <2>2, <2>8, <4>1
      <4>2. CASE k # Turn
        <5>1. k \in (dev_queue[i] + 1) .. (Turn - 1)
          BY <1>0, <2>4, <4>2
        <5> QED BY <1>q, <2>8, <5>1 DEF QueueFits
      <4> QED BY <4>1, <4>2
    <3>3. ASSUME dev_interrupt'
          PROVE  \E k \in 2 .. Turn : issued[k - 1].type = "REQUEST_NEXT_CMD_INTERRUPT" /\ \A i \in DOMAIN dev_queue : dev_queue[i] < k
      <4>1. CASE m.type = "REQUEST_NEXT_CMD_INTERRUPT"
        <5>1. \A i \in DOMAIN dev_queue : dev_queue[i] < Turn
          BY <1>0, <2>4
        <5>2. Turn \in 2 .. Turn
          BY <1>0
        <5> QED BY <2>2, <4>1, <5>1, <5>2
      <4>2. CASE m.type = "REQUEST"
        BY <1>q, <2>8, <3>1, <3>3, <4>2 DEF QueueFits
      <4> QED BY <2>8, <4>1, <4>2
    <3>4. /\ \A i \in DOMAIN dev_queue : dev_queue[i] \in 2 .. Turn /\ issued[dev_queue[i] - 1].type = "COMMAND" /\ dev_queue[i] \notin dev_finishing
          /\ \A i, j \in DOMAIN dev_queue : i < j => dev_queue[i] < dev_queue[j]
      BY <1>q, <3>1 DEF QueueFits
    <3> QED BY <2>8, <3>1, <3>2, <3>3, <3>4 DEF QueueFits
  <2> QED BY <2>2, <2>5, <2>6, <2>7, <2>8
<1>9. CASE DeviceFinish
  <2>1. /\ dev_queue # <<>> /\ dev_queue' = Tail(dev_queue) /\ dev_finishing' = dev_finishing \cup {Head(dev_queue)}
        /\ UNCHANGED <<issued, executed, dev_interrupt>>
    BY <1>9 DEF DeviceFinish, DeviceUnchanged, clientVars
  <2>2. Turn' = Turn
    BY <2>1 DEF Turn
  <2>3. /\ Head(dev_queue) \in 2 .. (Turn - 1)
        /\ \A i \in DOMAIN Tail(dev_queue) : Tail(dev_queue)[i] \in Queued /\ Head(dev_queue) < Tail(dev_queue)[i]
        /\ \A i, j \in DOMAIN Tail(dev_queue) : i < j => Tail(dev_queue)[i] < Tail(dev_queue)[j]
    BY <2>1, QueueOrder
  <2>4. PICK rest : rest = Tail(dev_queue)
    OBVIOUS
  <2>5. ASSUME NEW i \in DOMAIN rest PROVE \E j \in DOMAIN dev_queue : rest[i] = dev_queue[j]
    BY <2>3, <2>4 DEF Queued
  <2>6. ASSUME NEW i \in DOMAIN rest PROVE rest[i] \notin dev_finishing /\ rest[i] # Head(dev_queue)
    <3>1. rest[i] \notin dev_finishing
      BY <1>q, <2>5 DEF QueueFits
    <3>2. Head(dev_queue) \in Nat
      BY <1>0, <2>3
    <3>3. Head(dev_queue) < rest[i]
      BY <2>3, <2>4
    <3> QED BY <3>1, <3>2, <3>3
  <2>7. QueueFits(rest, dev_interrupt, dev_finishing \cup {Head(dev_queue)}, Turn, issued)
    <3>1. \A i \in DOMAIN rest : rest[i] \in 2 .. (Turn - 1) /\ issued[rest[i] - 1].type = "COMMAND"
      BY <1>q, <2>5 DEF QueueFits
    <3>2. \A i, j \in DOMAIN rest : i < j => rest[i] < rest[j]
      BY <2>3, <2>4
    <3>3. dev_finishing \cup {Head(dev_queue)} \subseteq 2 .. (Turn - 1)
      BY <1>q, <2>3 DEF QueueFits
    <3>4. ASSUME NEW i \in DOMAIN rest, NEW k \in (rest[i] + 1) .. (Turn - 1)
          PROVE  issued[k - 1].type # "REQUEST_STOP" /\ (issued[k - 1].type = "REQUEST_NEXT_CMD_INTERRUPT" => dev_interrupt)
      BY <1>q, <2>5 DEF QueueFits
    <3>5. dev_interrupt => \E k \in 2 .. (Turn - 1) :
             issued[k - 1].type = "REQUEST_NEXT_CMD_INTERRUPT" /\ \A i \in DOMAIN rest : rest[i] < k
      BY <1>q, <2>5 DEF QueueFits
    <3> QED BY <2>6, <3>1, <3>2, <3>3, <3>4, <3>5 DEF QueueFits
  <2> QED BY <1>i, <2>1, <2>2, <2>4, <2>7
<1>10. CASE DeviceFinishAcked
  <2>1. dev_finishing' \subseteq dev_finishing /\ UNCHANGED <<issued, executed, dev_interrupt, dev_queue>>
    BY <1>10 DEF DeviceFinishAcked, DeviceUnchanged, clientVars
  <2>2. Turn' = Turn
    BY <2>1 DEF Turn
  <2>3. QueueFits(dev_queue, dev_interrupt, dev_finishing', Turn, issued)
    BY <1>q, <2>1 DEF QueueFits
  <2> QED BY <1>i, <2>1, <2>2, <2>3
<1>11. CASE DeviceSeqnumReset \/ DeviceRefuses \/ DeviceAckAgain \/ \E s \in dev_finishing : DeviceResendFinish(s)
  <2>1. UNCHANGED <<issued, executed, dev_interrupt, dev_queue, dev_finishing>>
    BY <1>11 DEF DeviceSeqnumReset, DeviceRefuses, DeviceAckAgain, DeviceResendFinish, DeviceUnchanged, clientVars, clientView, deviceVars
  <2>2. Turn' = Turn
    BY <2>1 DEF Turn
  <2> QED BY <1>i, <1>q, <2>1, <2>2
<1> QED BY <1>1, <1>2, <1>3, <1>4, <1>5, <1>6, <1>7, <1>8, <1>9, <1>10, <1>11 DEF ClientMove, DeviceMove

-----------------------------------------------------------------------------
(* What the client can account for.                                        *)

\* No step takes anything back.
LEMMA HistoryStep ==
    ASSUME TypeOK, TypeOK', Handshake, Numbers, DownLine, Window, QuarterOfRange, ClientMove \/ LineMove \/ DeviceMove
    PROVE  /\ Turn' \in Nat /\ Turn' >= Turn /\ Top' \in Nat /\ Top' >= Top
           /\ \A s \in 2 .. Top : TypeOf(s)' = TypeOf(s)
           /\ m_state' = "RUNNING" => m_state = "RUNNING"
           /\ ~ m_error' => ~ m_error
<1>0. /\ Turn \in Nat /\ Top \in Nat /\ issued \in Seq(Record) /\ m_state \in {"RUNNING", "STOPPING", "STOPPED"}
      /\ m_error \in BOOLEAN /\ m_error' \in BOOLEAN
  <2>1. issued \in Seq(Record) /\ m_state \in {"RUNNING", "STOPPING", "STOPPED"} /\ m_error \in BOOLEAN /\ m_error' \in BOOLEAN
    BY DEF TypeOK
  <2> QED BY <2>1, Positions
<1>a. ASSUME UNCHANGED <<issued, executed>>
      PROVE  /\ Turn' \in Nat /\ Turn' >= Turn /\ Top' \in Nat /\ Top' >= Top
             /\ \A s \in 2 .. Top : TypeOf(s)' = TypeOf(s)
  BY <1>0, <1>a, HistoryKept
<1>b. ASSUME UNCHANGED executed, NEW type, issued' = Append(issued, [seq |-> m_send_seq, type |-> type])
      PROVE  /\ Turn' \in Nat /\ Turn' >= Turn /\ Top' \in Nat /\ Top' >= Top
             /\ \A s \in 2 .. Top : TypeOf(s)' = TypeOf(s)
  BY <1>0, <1>b, HistoryGrows
<1>1. CASE Silent
  <2>1. UNCHANGED <<issued, executed, m_error>> /\ (m_state' = "RUNNING" => m_state = "RUNNING")
    BY <1>1, SilentFrame, SilentThreads DEF deviceVars, ThreadsMove, StopKept, StopCame, StopWent
  <2> QED BY <1>0, <1>a, <2>1
<1>2. ASSUME NEW c \in Clients, TryIssue(c)
      PROVE  /\ Turn' \in Nat /\ Turn' >= Turn /\ Top' \in Nat /\ Top' >= Top
             /\ (\A s \in 2 .. Top : TypeOf(s)' = TypeOf(s)) /\ UNCHANGED <<m_state, m_error>>
  <2>1. /\ UNCHANGED <<executed, m_state, m_error>>
        /\ issued' = issued \/ issued' = Append(issued, [seq |-> m_send_seq, type |-> MessageType(op[c])])
    BY <1>2, IssueEffect
  <2> QED BY <1>a, <1>b, <2>1
<1>3. ASSUME NEW c \in Clients, clear_all_active_commands(c) PROVE UNCHANGED <<issued, executed, m_state, m_error>>
  BY <1>3, ClearEffect DEF deviceVars
<1>4. ASSUME NEW c \in Clients, wait_for_request(c) PROVE UNCHANGED <<issued, executed, m_state, m_error>>
  BY <1>4, ReplyEffect DEF deviceVars
<1>5. ASSUME NEW c \in Clients, StopSend(c)
      PROVE  /\ UNCHANGED <<executed, m_state, m_error>>
             /\ issued' = Append(issued, [seq |-> m_send_seq, type |-> "REQUEST_STOP"])
  BY <1>5, StopSendEffect DEF deviceVars
<1>6. ASSUME NEW limit \in Live, Retransmit(limit) PROVE UNCHANGED <<issued, executed, m_state, m_error>>
  BY <1>6, RetransmitEffect DEF clientView, deviceVars
<1>7. CASE LineMove
  <2>1. UNCHANGED <<issued, executed, m_state>>
    BY <1>7, LineEffect DEF deviceVars
  <2>2. m_error' = m_error \/ m_error' = TRUE
    BY <1>7 DEF LineMove, process_ack_request, process_ack_command, process_command_finished, MissedRequest,
                UpLoss, DownLoss, clientView
  <2> QED BY <1>0, <1>a, <2>1, <2>2
<1>8. CASE DeviceProcess
  <2>1. Turn' = Turn + 1 /\ Top' = Top /\ (\A s : TypeOf(s)' = TypeOf(s)) /\ UNCHANGED <<m_state, m_error>>
    BY <1>8, ProcessEffect DEF clientView
  <2> QED BY <1>0, <2>1
<1>9. CASE DeviceMove /\ ~ DeviceProcess
  <2>1. UNCHANGED <<issued, executed, m_state, m_error>>
    BY <1>9, DeviceEffect DEF clientView
  <2> QED BY <1>0, <1>a, <2>1
<1>10. ASSUME UNCHANGED <<issued, executed, m_state, m_error>>
       PROVE  /\ Turn' \in Nat /\ Turn' >= Turn /\ Top' \in Nat /\ Top' >= Top
              /\ (\A s \in 2 .. Top : TypeOf(s)' = TypeOf(s)) /\ UNCHANGED <<m_state, m_error>>
  BY <1>a, <1>10
<1>11. ASSUME NEW c \in Clients, StopSend(c)
       PROVE  /\ Turn' \in Nat /\ Turn' >= Turn /\ Top' \in Nat /\ Top' >= Top
              /\ (\A s \in 2 .. Top : TypeOf(s)' = TypeOf(s)) /\ UNCHANGED <<m_state, m_error>>
  BY <1>b, <1>5, <1>11
<1>12. CASE ClientMove /\ ~ Silent
  <2>1. /\ Turn' \in Nat /\ Turn' >= Turn /\ Top' \in Nat /\ Top' >= Top
        /\ (\A s \in 2 .. Top : TypeOf(s)' = TypeOf(s)) /\ UNCHANGED <<m_state, m_error>>
    BY <1>2, <1>3, <1>4, <1>6, <1>10, <1>11, <1>12 DEF ClientMove
  <2> QED BY <2>1
<1> QED BY <1>1, <1>7, <1>8, <1>9, <1>12

\* What is settled stays settled when the line loses its head, and when an
\* ack comes in that is not far behind what has been processed.
LEMMA SettledStays ==
    ASSUME TypeOK, Numbers, Turn' \in Nat, Turn' >= Turn, NEW s \in 2 .. Top, Settled(s),
           \A i \in DOMAIN toClient' :
              IsAck(toClient'[i]) => \/ \E j \in DOMAIN toClient : toClient'[i] = toClient[j]
                                     \/ toClient'[i].id \in Nat /\ Turn <= toClient'[i].id + MAX_SEQNUM_GAP + 2
    PROVE  Settled(s)'
<1>0. Turn \in Nat /\ Top \in Nat /\ MAX_SEQNUM_GAP \in Nat
  BY Positions
<1>1. s < Turn'
  BY <1>0 DEF Settled
<1>2. ASSUME NEW i \in DOMAIN toClient', IsAck(toClient'[i]) PROVE s <= toClient'[i].id + MAX_SEQNUM_GAP + 1
  <2>1. CASE \E j \in DOMAIN toClient : toClient'[i] = toClient[j]
    BY <1>2, <2>1 DEF Settled
  <2>2. CASE toClient'[i].id \in Nat /\ Turn <= toClient'[i].id + MAX_SEQNUM_GAP + 2
    BY <1>0, <2>2 DEF Settled
  <2> QED BY <1>2, <2>1, <2>2
<1> QED BY <1>1, <1>2 DEF Settled

\* When an answer arrives, everything up to its number is settled: what is
\* behind it on the line is in order.
LEMMA SettledByAnswer ==
    ASSUME TypeOK, Numbers, UpLine, executed' = executed, toClient # <<>>, toClient' = Tail(toClient),
           NEW m, m = toClient[1], IsAnswer(m), NEW s \in 2 .. Top, s <= m.id
    PROVE  Settled(s)'
<1>0. Turn \in Nat /\ Turn' = Turn /\ MAX_SEQNUM_GAP \in Nat /\ Top \in Nat /\ toClient \in Seq(WireMessage(ReplyTypes))
  <2>1. toClient \in Seq(WireMessage(ReplyTypes))
    BY DEF TypeOK
  <2> QED BY <2>1, Positions DEF Turn
<1>1. 1 \in DOMAIN toClient /\ \A i \in DOMAIN toClient' : i + 1 \in DOMAIN toClient /\ toClient'[i] = toClient[i + 1] /\ i \in Nat \ {0}
  BY <1>0, TailOf
<1>2. m.id \in 1 .. (Turn - 1)
  BY <1>0, <1>1 DEF UpLine, IsAnswer
<1>3. s < Turn'
  BY <1>0, <1>2
<1>4. ASSUME NEW i \in DOMAIN toClient', IsAck(toClient'[i]) PROVE s <= toClient'[i].id + MAX_SEQNUM_GAP + 1
  <2>1. 1 < i + 1 /\ IsAck(toClient[i + 1])
    BY <1>1, <1>4
  <2>2. m.id <= toClient[i + 1].id + MAX_SEQNUM_GAP + 1
    BY <1>1, <2>1 DEF UpLine
  <2>3. toClient[i + 1].id \in Nat
    BY <1>0, <1>1, IdsAreNumbers
  <2> QED BY <1>0, <1>1, <1>2, <2>2, <2>3
<1> QED BY <1>3, <1>4 DEF Settled

\* A stop or interrupt that is pending is not acked.
LEMMA ClearIsUnacked ==
    ASSUME TypeOK, Entries, NEW k \in DOMAIN m_pending_requests, k # 1, TypeOf(k) \in ClearTypes
    PROVE  k \in Unacked(m_pending_requests) /\ k \in 2 .. Top
BY DEF Entries, Unacked

\* What is accounted for stays so when no entry goes that is not settled then.
LEMMA AccountedStays ==
    ASSUME TypeOK, Numbers, Entries, NEW s \in 2 .. Top, Accounted(s),
           \A k \in 2 .. Top : TypeOf(k)' = TypeOf(k),
           Settled(s) => Settled(s)',
           \A k \in Unacked(m_pending_requests) \cap 2 .. Top :
              k >= s => k \in Unacked(m_pending_requests)' \/ Settled(s)',
           s \in Unacked(m_pending_commands) => s \in Unacked(m_pending_commands)' \/ Accounted(s)'
    PROVE  Accounted(s)'
<1>1. CASE Settled(s)
  BY <1>1 DEF Accounted
<1>2. CASE TypeOf(s) # "COMMAND" /\ s \in Unacked(m_pending_requests)
  <2>1. s >= s
    OBVIOUS
  <2> QED BY <1>2, <2>1 DEF Accounted
<1>3. CASE TypeOf(s) = "COMMAND" /\ s \in Unacked(m_pending_commands)
  BY <1>3 DEF Accounted
<1>4. ASSUME TypeOf(s) = "COMMAND", NEW k \in DOMAIN m_pending_requests, s < k, k <= s + MAX_SEQNUM_GAP, TypeOf(k) \in ClearTypes
      PROVE  Accounted(s)'
  <2>1. k # 1
    BY <1>4
  <2>2. k \in Unacked(m_pending_requests) /\ k \in 2 .. Top
    BY <1>4, <2>1, ClearIsUnacked
  <2>3. k >= s
    BY <1>4, <2>2
  <2>4. CASE k \in Unacked(m_pending_requests)'
    <3>1. k \in DOMAIN m_pending_requests' /\ TypeOf(k)' \in ClearTypes /\ TypeOf(s)' = "COMMAND"
      BY <1>4, <2>2, <2>4 DEF Unacked
    <3> QED BY <1>4, <3>1 DEF Accounted
  <2>5. CASE Settled(s)'
    BY <2>5 DEF Accounted
  <2> QED BY <2>2, <2>3, <2>4, <2>5
<1> QED BY <1>1, <1>2, <1>3, <1>4 DEF Accounted

\* A step of the device does not unsettle anything.
LEMMA DeviceSettles ==
    ASSUME TypeOK, TypeOK', Handshake, Numbers, DownLine, Window, QuarterOfRange, DeviceMove,
           NEW s \in 2 .. Top, Settled(s)
    PROVE  Settled(s)'
<1>0. /\ Turn \in Nat /\ Turn >= 2 /\ MAX_SEQNUM_GAP \in Nat /\ Turn' \in Nat /\ Turn' >= Turn
      /\ toClient \in Seq(WireMessage(ReplyTypes)) /\ toDevice \in Seq(WireMessage(MessageTypes))
  <2>1. toClient \in Seq(WireMessage(ReplyTypes)) /\ toDevice \in Seq(WireMessage(MessageTypes))
    BY DEF TypeOK
  <2>2. Turn' \in Nat /\ Turn' >= Turn
    BY HistoryStep
  <2> QED BY <2>1, <2>2, Positions
<1>k. ASSUME toClient' = toClient PROVE Settled(s)'
  BY <1>0, <1>k, SettledStays
<1>e. ASSUME NEW e, toClient' = Append(toClient, e), IsAck(e) => e.id \in Nat /\ Turn <= e.id + MAX_SEQNUM_GAP + 2
      PROVE  Settled(s)'
  <2>1. ASSUME NEW i \in DOMAIN toClient', IsAck(toClient'[i])
        PROVE  \/ \E j \in DOMAIN toClient : toClient'[i] = toClient[j]
               \/ toClient'[i].id \in Nat /\ Turn <= toClient'[i].id + MAX_SEQNUM_GAP + 2
    <3>1. (i \in DOMAIN toClient /\ toClient'[i] = toClient[i]) \/ toClient'[i] = e
      BY <1>0, <1>e, AppendOf
    <3>2. CASE i \in DOMAIN toClient /\ toClient'[i] = toClient[i]
      BY <3>2
    <3>3. CASE toClient'[i] = e
      BY <1>e, <2>1, <3>3
    <3> QED BY <3>1, <3>2, <3>3
  <2> QED BY <1>0, <2>1, SettledStays
<1>1. CASE DeviceSeqnumReset
  <2>1. PICK m : m = Head(toDevice)
    OBVIOUS
  <2>2. /\ toDevice # <<>> /\ m.type = "SEQNUM_RESET"
        /\ toClient' = Append(toClient, [type |-> "ACK_REQUEST", seq |-> m.seq, id |-> m.id])
    BY <1>1, <2>1 DEF DeviceSeqnumReset, DeviceReceive, Reply
  <2>3. m.id = 1 /\ executed = <<>>
    <3>1. 1 \in DOMAIN toDevice /\ toDevice[1] = m
      BY <1>0, <2>1, <2>2, TailOf
    <3> QED BY <2>2, <3>1 DEF Handshake, ResetsLead
  <2>4. PICK e : e = [type |-> "ACK_REQUEST", seq |-> m.seq, id |-> m.id]
    OBVIOUS
  <2>5. e.id \in Nat /\ Turn <= e.id + MAX_SEQNUM_GAP + 2
    BY <1>0, <2>3, <2>4 DEF Turn
  <2> QED BY <1>e, <2>2, <2>4, <2>5
<1>2. CASE DeviceProcess
  <2>1. PICK a : IsAck(a) /\ a.id = Turn /\ toClient' = Append(toClient, a)
    BY <1>2, ProcessEffect
  <2>2. a.id \in Nat /\ Turn <= a.id + MAX_SEQNUM_GAP + 2
    BY <1>0, <2>1
  <2> QED BY <1>e, <2>1, <2>2
<1>3. CASE DeviceRefuses
  <2>1. PICK e \in WireMessage({"ERROR_COMMAND_DROPPED", "ERROR_MISSED_REQUEST"}) : toClient' = Append(toClient, e)
    BY <1>3 DEF DeviceRefuses
  <2>2. ~ IsAck(e)
    BY DEF WireMessage, IsAck
  <2> QED BY <1>e, <2>1, <2>2
<1>4. CASE DeviceAckAgain
  <2>1. PICK m : m = Head(toDevice)
    OBVIOUS
  <2>2. /\ toDevice # <<>> /\ IsNumbered(m)
        /\ toClient' = Append(toClient, [type |-> AckOf(m), seq |-> m.seq, id |-> m.id])
    BY <1>4, <2>1 DEF DeviceAckAgain, DeviceReceive, Reply
  <2>3. m.id \in 2 .. Top /\ Turn <= m.id + MAX_SEQNUM_GAP + 2
    BY <2>1, <2>2, HeadIsPlaced
  <2>4. PICK e : e = [type |-> AckOf(m), seq |-> m.seq, id |-> m.id]
    OBVIOUS
  <2>5. e.id \in Nat /\ Turn <= e.id + MAX_SEQNUM_GAP + 2
    BY <1>0, <2>3, <2>4
  <2> QED BY <1>e, <2>2, <2>4, <2>5
<1>5. CASE DeviceFinishAcked
  BY <1>5, <1>k DEF DeviceFinishAcked
<1>6. CASE DeviceFinish \/ \E q \in dev_finishing : DeviceResendFinish(q)
  <2>1. \E q : toClient' = Append(toClient, Finish(q))
    BY <1>6 DEF DeviceFinish, DeviceResendFinish
  <2>2. PICK q : toClient' = Append(toClient, Finish(q))
    BY <2>1
  <2>3. ~ IsAck(Finish(q))
    BY DEF Finish, IsAck
  <2> QED BY <1>e, <2>2, <2>3
<1> QED BY <1>1, <1>2, <1>3, <1>4, <1>5, <1>6 DEF DeviceMove

\* When the client may issue, the device is not far behind it.
LEMMA IssueIsClose ==
    ASSUME TypeOK, Handshake, Numbers, Entries, Window, NEW c \in Clients, TryIssue(c)
    PROVE  m_send_seq + 1 <= Turn + 2 * MAX_SEQNUM_GAP + 1
<1>1. m_send_seq \in Nat \ {0} /\ MAX_SEQNUM_GAP \in Nat /\ Turn \in Nat /\ Turn >= 2
  BY Positions
<1>2. m_state = "RUNNING" /\ ~ m_error /\ ~ TooFarAhead
  BY IssueEffect DEF TryIssue, Throttled
<1>3. CASE m_send_seq <= Turn
  BY <1>1, <1>3
<1>4. CASE m_send_seq > Turn
  <2>1. Turn \in 2 .. (m_send_seq - 1)
    BY <1>1, <1>4
  <2>2. Accounted(Turn)
    BY <1>2, <2>1 DEF Window
  <2>3. ~ Settled(Turn)
    BY <1>1 DEF Settled
  <2>4. ASSUME NEW k \in Live PROVE m_send_seq <= k + MAX_SEQNUM_GAP
    <3>1. ~ m_send_seq - k > MAX_SEQNUM_GAP
      BY <1>2 DEF TooFarAhead
    <3>2. k \in 1 .. (m_send_seq - 1)
      BY DEF Live, TypeOK
    <3> QED BY <1>1, <3>1, <3>2
  <2>5. CASE Turn \in Live
    BY <1>1, <2>4, <2>5
  <2>6. CASE Turn \notin Live
    <3>1. PICK k \in DOMAIN m_pending_requests : k <= Turn + MAX_SEQNUM_GAP
      BY <2>2, <2>3, <2>6 DEF Accounted, Live, Unacked
    <3>2. k \in Nat /\ m_send_seq <= k + MAX_SEQNUM_GAP
      BY <2>4, <3>1 DEF Live, TypeOK
    <3> QED BY <1>1, <3>1, <3>2
  <2> QED BY <2>5, <2>6
<1> QED BY <1>1, <1>3, <1>4

LEMMA StillClose ==
    ASSUME NEW n \in Nat, NEW turn \in Nat, NEW later \in Nat, NEW gap \in Nat,
           n > 1 => n <= turn + 2 * gap + 1, later >= turn
    PROVE  n > 1 => n <= later + 2 * gap + 1
OBVIOUS

LEMMA WindowStep ==
    ASSUME TypeOK, TypeOK', WithinGap, Handshake, Numbers, Entries, DownLine, UpLine, Window, DeviceQueue, Clearing,
           QuarterOfRange, FinishesAreTimely, ClientMove \/ LineMove \/ DeviceMove
    PROVE  Window'
<1>0. /\ m_send_seq \in Nat \ {0} /\ MAX_SEQNUM_GAP \in Nat /\ Turn \in Nat /\ Turn >= 2 /\ Top \in Nat
      /\ toClient \in Seq(WireMessage(ReplyTypes))
      /\ IF m_send_seq = 1 THEN Top = 1 ELSE Top = m_send_seq - 1 \/ (m_state # "RUNNING" /\ Top = m_send_seq)
  <2>1. toClient \in Seq(WireMessage(ReplyTypes))
    BY DEF TypeOK
  <2> QED BY <2>1, Positions
<1>h. /\ Turn' \in Nat /\ Turn' >= Turn /\ \A s \in 2 .. Top : TypeOf(s)' = TypeOf(s)
      /\ m_state' = "RUNNING" => m_state = "RUNNING"
      /\ ~ m_error' => ~ m_error
  BY HistoryStep
<1>i. /\ m_send_seq' > 1 => m_send_seq' <= Turn' + 2 * MAX_SEQNUM_GAP + 1
      /\ m_state' = "RUNNING" /\ ~ m_error' => \A s \in 2 .. (m_send_seq' - 1) : Accounted(s)'
      => Window'
  BY DEF Window
\* Unless the client sends, it is enough that each number stays accounted for.
<1>w. ASSUME m_send_seq' = m_send_seq,
             ASSUME m_state = "RUNNING", ~ m_error, NEW s \in 2 .. Top, Accounted(s) PROVE Accounted(s)'
      PROVE  Window'
  <2>1. m_send_seq' > 1 => m_send_seq' <= Turn' + 2 * MAX_SEQNUM_GAP + 1
    <3>1. m_send_seq > 1 => m_send_seq <= Turn + 2 * MAX_SEQNUM_GAP + 1
      BY DEF Window
    <3>2. m_send_seq' = m_send_seq
      BY <1>w
    <3>3. Turn' \in Nat /\ Turn' >= Turn
      BY <1>h
    <3>4. m_send_seq \in Nat /\ MAX_SEQNUM_GAP \in Nat /\ Turn \in Nat
      BY <1>0
    <3> QED BY <3>1, <3>2, <3>3, <3>4, StillClose
  <2>2. ASSUME m_state' = "RUNNING", ~ m_error', NEW s \in 2 .. (m_send_seq' - 1) PROVE Accounted(s)'
    <3>1. s \in 2 .. (m_send_seq - 1) /\ s \in 2 .. Top
      BY <1>0, <1>w, <2>2
    <3> QED BY <1>h, <1>w, <2>2, <3>1 DEF Window
  <2> QED BY <1>i, <2>1, <2>2
\* The maps stay as they are.
<1>a. ASSUME UNCHANGED <<m_send_seq, m_pending_requests, m_pending_commands>>,
             ASSUME NEW s \in 2 .. Top, Settled(s) PROVE Settled(s)'
      PROVE  Window'
  <2>1. ASSUME NEW s \in 2 .. Top, Accounted(s) PROVE Accounted(s)'
    BY <1>a, <1>h, <2>1, AccountedStays DEF Unacked
  <2> QED BY <1>a, <1>w, <2>1
<1>k. ASSUME toClient' = toClient, NEW s \in 2 .. Top, Settled(s) PROVE Settled(s)'
  BY <1>0, <1>h, <1>k, SettledStays
<1>t. ASSUME toClient # <<>>, toClient' = Tail(toClient), NEW s \in 2 .. Top, Settled(s) PROVE Settled(s)'
  <2>1. \A i \in DOMAIN toClient' : \E j \in DOMAIN toClient : toClient'[i] = toClient[j]
    BY <1>0, <1>t, TailOf
  <2> QED BY <1>0, <1>h, <1>t, <2>1, SettledStays
<1>1. CASE Silent
  BY <1>1, <1>a, <1>k, SilentFrame
<1>2. ASSUME NEW c \in Clients, TryIssue(c) PROVE Window'
  <2>1. /\ m_state = "RUNNING" /\ ~ m_error /\ m_send_seq' = m_send_seq + 1 /\ toClient' = toClient /\ executed' = executed
    BY <1>2, IssueEffect
  <2>2. m_send_seq' <= Turn' + 2 * MAX_SEQNUM_GAP + 1
    <3>1. m_send_seq + 1 <= Turn + 2 * MAX_SEQNUM_GAP + 1 /\ Turn' = Turn
      BY <1>2, <2>1, IssueIsClose DEF Turn
    <3> QED BY <2>1, <3>1
  <2>3. CASE m_send_seq = 1
    <3>1. 2 .. (m_send_seq' - 1) = {}
      BY <2>1, <2>3
    <3> QED BY <1>i, <2>2, <3>1
  <2>4. CASE m_send_seq # 1
    <3>1. Top = m_send_seq - 1
      BY <1>0, <2>1, <2>4
    <3>2. /\ issued' = Append(issued, [seq |-> m_send_seq, type |-> MessageType(op[c])])
          /\ \/ /\ MessageType(op[c]) # "COMMAND" /\ UNCHANGED m_pending_commands
                /\ \E entry : m_pending_requests' = Emplace(m_pending_requests, m_send_seq, entry) /\ entry.state = "NOT_ACKED"
             \/ /\ MessageType(op[c]) = "COMMAND" /\ UNCHANGED m_pending_requests
                /\ m_pending_commands' = Emplace(m_pending_commands, m_send_seq, [state |-> "NOT_ACKED", type |-> "COMMAND"])
      BY <1>2, <2>4, IssueEffect
    <3>3. m_send_seq \notin DOMAIN m_pending_requests /\ m_send_seq \notin DOMAIN m_pending_commands
      <4>1. DOMAIN m_pending_requests \subseteq 1 .. (m_send_seq - 1) /\ DOMAIN m_pending_commands \subseteq 1 .. (m_send_seq - 1)
        BY DEF TypeOK
      <4>2. m_send_seq \notin 1 .. (m_send_seq - 1)
        BY <1>0
      <4> QED BY <4>1, <4>2
    <3>4. ASSUME NEW s \in 2 .. Top PROVE Accounted(s)'
      <4>1. /\ \A k \in Unacked(m_pending_requests) : k \in Unacked(m_pending_requests)'
            /\ \A k \in Unacked(m_pending_commands) : k \in Unacked(m_pending_commands)'
        BY <3>2, <3>3 DEF Unacked, Emplace
      <4>2. s \in 2 .. (m_send_seq - 1)
        BY <3>1
      <4>3. Accounted(s)
        BY <2>1, <4>2 DEF Window
      <4> QED BY <1>h, <1>k, <2>1, <4>1, <4>3, AccountedStays
    <3>5. ASSUME NEW s, s = m_send_seq PROVE Accounted(s)'
      <4>1. TypeOf(s)' = MessageType(op[c])
        BY <1>0, <2>1, <3>1, <3>2, <3>5, HistoryGrows
      <4>2. IF MessageType(op[c]) = "COMMAND" THEN s \in Unacked(m_pending_commands)' ELSE s \in Unacked(m_pending_requests)'
        BY <3>2, <3>5 DEF Unacked, Emplace
      <4> QED BY <4>1, <4>2 DEF Accounted
    <3>6. ASSUME NEW s \in 2 .. (m_send_seq' - 1) PROVE s \in 2 .. Top \/ s = m_send_seq
      BY <1>0, <2>1, <3>1
    <3> QED BY <1>i, <2>2, <3>4, <3>5, <3>6
  <2> QED BY <2>3, <2>4
<1>3. ASSUME NEW c \in Clients, clear_all_active_commands(c) PROVE Window'
  <2>1. /\ UNCHANGED <<m_send_seq, m_pending_requests, m_state, m_error, toClient>>
        /\ m_pending_commands' = Erase(m_pending_commands, {s \in DOMAIN m_pending_commands : s <= seq[c]})
        /\ pc[c] = "clear"
    BY <1>3, ClearEffect
  <2>2. PICK k : k = seq[c]
    OBVIOUS
  <2>3. k \in 2 .. (m_send_seq - 1) /\ TypeOf(k) \in ClearTypes
    BY <2>1, <2>2 DEF Clearing
  <2>4. k \in 2 .. Top
    BY <1>0, <2>3
  <2>5. ASSUME m_state = "RUNNING", ~ m_error, NEW s \in 2 .. Top, Accounted(s) PROVE Accounted(s)'
    <3>1. ASSUME s \in Unacked(m_pending_commands), s \notin Unacked(m_pending_commands)' PROVE Accounted(s)'
      <4>1. s \in DOMAIN m_pending_commands /\ s <= k
        BY <2>1, <2>2, <3>1 DEF Unacked, Erase
      <4>2. TypeOf(s) = "COMMAND" /\ TypeOf(k) # "COMMAND"
        BY <2>3, <4>1 DEF Entries, ClearTypes
      <4>3. s < k
        BY <1>0, <2>4, <4>1, <4>2
      <4>4. Accounted(k)
        BY <2>3, <2>5 DEF Window
      <4>5. CASE Settled(k)
        <5>1. Settled(s)
          <6>1. s < Turn
            BY <1>0, <2>4, <4>3, <4>5 DEF Settled
          <6>2. ASSUME NEW i \in DOMAIN toClient, IsAck(toClient[i]) PROVE s <= toClient[i].id + MAX_SEQNUM_GAP + 1
            <7>1. k <= toClient[i].id + MAX_SEQNUM_GAP + 1 /\ toClient[i].id \in Nat
              BY <1>0, <4>5, <6>2, IdsAreNumbers DEF Settled
            <7> QED BY <1>0, <2>4, <4>3, <7>1
          <6> QED BY <6>1, <6>2 DEF Settled
        <5>2. Settled(s)'
          BY <1>k, <2>1, <5>1
        <5> QED BY <5>2 DEF Accounted
      <4>6. CASE k \in Unacked(m_pending_requests)
        <5>1. k <= s + MAX_SEQNUM_GAP
          <6>1. m_send_seq - 1 - s <= MAX_SEQNUM_GAP
            BY <4>1 DEF WithinGap, Live
          <6> QED BY <1>0, <2>3, <6>1
        <5>2. k \in DOMAIN m_pending_requests' /\ TypeOf(k)' \in ClearTypes /\ TypeOf(s)' = "COMMAND"
          BY <1>h, <2>1, <2>3, <2>4, <4>2, <4>6 DEF Unacked
        <5> QED BY <4>3, <5>1, <5>2 DEF Accounted
      <4> QED BY <4>2, <4>4, <4>5, <4>6 DEF Accounted
    <3> QED BY <1>h, <1>k, <2>1, <2>5, <3>1, AccountedStays DEF Unacked
  <2> QED BY <1>w, <2>1, <2>5
<1>4. ASSUME NEW c \in Clients, wait_for_request(c) PROVE Window'
  <2>1. /\ UNCHANGED <<m_send_seq, m_pending_commands, toClient>>
        /\ \/ UNCHANGED m_pending_requests
           \/ /\ m_pending_requests' = Erase(m_pending_requests, {seq[c]})
              /\ m_state # "RUNNING" \/ m_error \/ m_pending_requests[seq[c]].state = "ACKED"
    BY <1>4, ReplyEffect
  <2>2. ASSUME m_state = "RUNNING", ~ m_error, NEW s \in 2 .. Top, Accounted(s) PROVE Accounted(s)'
    <3>1. \A k \in Unacked(m_pending_requests) : k \in Unacked(m_pending_requests)'
      BY <2>1, <2>2 DEF Unacked, Erase
    <3> QED BY <1>h, <1>k, <2>1, <2>2, <3>1, AccountedStays DEF Unacked
  <2> QED BY <1>w, <2>1, <2>2
<1>5. ASSUME NEW c \in Clients, StopSend(c) PROVE Window'
  BY <1>5, <1>a, <1>k, StopSendEffect
<1>6. ASSUME NEW limit \in Live, Retransmit(limit) PROVE Window'
  BY <1>6, <1>a, <1>k, RetransmitEffect DEF clientView, pending
<1>7. CASE process_ack_request
  <2>1. PICK m : m = Head(toClient)
    OBVIOUS
  <2>2. /\ toClient # <<>> /\ toClient' = Tail(toClient) /\ m = toClient[1] /\ IsAck(m) /\ m.id \in 1 .. (Turn - 1)
        /\ UNCHANGED <<m_send_seq, m_pending_commands, executed>>
        /\ \A k \in DOMAIN m_pending_requests : k # m.id =>
              k \in DOMAIN m_pending_requests' /\ m_pending_requests'[k] = m_pending_requests[k]
    BY <1>7, <2>1, AckRequestEffect DEF deviceVars
  <2>3. ASSUME NEW s \in 2 .. Top, Accounted(s) PROVE Accounted(s)'
    <3>1. ASSUME NEW k \in Unacked(m_pending_requests), k >= s PROVE k \in Unacked(m_pending_requests)' \/ Settled(s)'
      <4>1. CASE k # m.id
        BY <2>2, <4>1 DEF Unacked
      <4>2. CASE k = m.id
        BY <2>2, <3>1, <4>2, SettledByAnswer DEF IsAnswer
      <4> QED BY <4>1, <4>2
    <3> QED BY <1>h, <1>t, <2>2, <2>3, <3>1, AccountedStays DEF Unacked
  <2> QED BY <1>w, <2>2, <2>3
<1>8. CASE process_ack_command
  <2>1. PICK m : m = Head(toClient)
    OBVIOUS
  <2>2. /\ toClient # <<>> /\ toClient' = Tail(toClient) /\ m = toClient[1] /\ IsAck(m) /\ m.id \in 1 .. (Turn - 1)
        /\ UNCHANGED <<m_send_seq, m_pending_requests, executed>> /\ DOMAIN m_pending_commands' = DOMAIN m_pending_commands
        /\ \A k \in DOMAIN m_pending_commands : k # m.id => m_pending_commands'[k] = m_pending_commands[k]
    BY <1>8, <2>1, AckCommandEffect DEF deviceVars
  <2>3. ASSUME NEW s \in 2 .. Top, Accounted(s) PROVE Accounted(s)'
    <3>1. ASSUME s \in Unacked(m_pending_commands) PROVE s \in Unacked(m_pending_commands)' \/ Accounted(s)'
      <4>1. CASE s # m.id
        BY <2>2, <3>1, <4>1 DEF Unacked
      <4>2. CASE s = m.id
        <5>1. s <= m.id
          BY <4>2
        <5> QED BY <2>2, <5>1, SettledByAnswer DEF IsAnswer, Accounted
      <4> QED BY <4>1, <4>2
    <3> QED BY <1>h, <1>t, <2>2, <2>3, <3>1, AccountedStays DEF Unacked
  <2> QED BY <1>w, <2>2, <2>3
<1>9. CASE process_command_finished
  <2>1. PICK m : m = Head(toClient)
    OBVIOUS
  <2>2. /\ toClient # <<>> /\ toClient' = Tail(toClient) /\ m = toClient[1] /\ IsAnswer(m) /\ m.id \in 2 .. (Turn - 1)
        /\ UNCHANGED <<m_send_seq, m_pending_requests, executed>>
        /\ m_pending_commands' = Erase(m_pending_commands, {m.id})
    BY <1>9, <2>1, FinishEffect DEF deviceVars, IsAnswer
  <2>3. ASSUME NEW s \in 2 .. Top, Accounted(s) PROVE Accounted(s)'
    <3>1. ASSUME s \in Unacked(m_pending_commands) PROVE s \in Unacked(m_pending_commands)' \/ Accounted(s)'
      <4>1. CASE s # m.id
        BY <2>2, <3>1, <4>1 DEF Unacked, Erase
      <4>2. CASE s = m.id
        <5>1. s <= m.id
          BY <4>2
        <5> QED BY <2>2, <5>1, SettledByAnswer DEF Accounted
      <4> QED BY <4>1, <4>2
    <3> QED BY <1>h, <1>t, <2>2, <2>3, <3>1, AccountedStays DEF Unacked
  <2> QED BY <1>w, <2>2, <2>3
<1>10. CASE MissedRequest \/ UpLoss
  BY <1>10, <1>a, <1>t DEF MissedRequest, Receive, UpLoss, clientView, pending
<1>11. CASE DownLoss
  BY <1>11, <1>a, <1>k DEF DownLoss, clientView, pending
<1>12. CASE DeviceMove
  <2>1. UNCHANGED <<m_send_seq, m_pending_requests, m_pending_commands>>
    BY <1>12, DeviceEffect, ProcessEffect DEF clientView, pending
  <2> QED BY <1>12, <1>a, <2>1, DeviceSettles
<1> QED BY <1>1, <1>2, <1>3, <1>4, <1>5, <1>6, <1>7, <1>8, <1>9, <1>10, <1>11, <1>12 DEF ClientMove, LineMove

-----------------------------------------------------------------------------
(* What waits for the device is pending, so the client's limit is the      *)
(* device's.                                                               *)

\* Nothing comes into the queue but the number that is processed.
LEMMA QueuedShrinks ==
    ASSUME TypeOK, Handshake, Numbers, DownLine, Window, DeviceQueue, QuarterOfRange, ClientMove \/ LineMove \/ DeviceMove,
           NEW q \in Queued'
    PROVE  q \in Queued \/ (q = Turn /\ DeviceProcess)
<1>0. dev_queue \in Seq(Nat)
  BY DEF TypeOK
<1>a. CASE dev_queue' = dev_queue
  BY <1>a DEF Queued
<1>1. CASE Silent
  BY <1>1, <1>a, SilentFrame DEF deviceVars
<1>2. ASSUME NEW c \in Clients, TryIssue(c) \/ clear_all_active_commands(c) \/ wait_for_request(c) \/ StopSend(c)
      PROVE  dev_queue' = dev_queue
  BY <1>2, IssueEffect, ClearEffect, ReplyEffect, StopSendEffect DEF deviceVars
<1>3. ASSUME NEW limit \in Live, Retransmit(limit) PROVE dev_queue' = dev_queue
  BY <1>3, RetransmitEffect DEF deviceVars
<1>4. CASE LineMove
  BY <1>4, <1>a, LineEffect DEF deviceVars
<1>5. CASE DeviceProcess
  <2>1. dev_queue' \in {<<Turn>>, <<>>, dev_queue, Append(dev_queue, Turn)}
    BY <1>5, ProcessEffect
  <2>2. ASSUME NEW i \in DOMAIN dev_queue' PROVE dev_queue'[i] \in Queued \/ dev_queue'[i] = Turn
    <3>1. CASE dev_queue' = <<Turn>>
      BY <2>2, <3>1
    <3>2. CASE dev_queue' = <<>> \/ dev_queue' = dev_queue
      BY <2>2, <3>2 DEF Queued
    <3>3. CASE dev_queue' = Append(dev_queue, Turn)
      BY <1>0, <2>2, <3>3, AppendOf DEF Queued
    <3> QED BY <2>1, <3>1, <3>2, <3>3
  <2>3. PICK i \in DOMAIN dev_queue' : q = dev_queue'[i]
    BY DEF Queued
  <2> QED BY <1>5, <2>2, <2>3
<1>6. CASE DeviceFinish
  <2>1. dev_queue # <<>> /\ dev_queue' = Tail(dev_queue)
    BY <1>6 DEF DeviceFinish
  <2>2. \A i \in DOMAIN Tail(dev_queue) : Tail(dev_queue)[i] \in Queued
    BY <2>1, QueueOrder
  <2> QED BY <2>1, <2>2 DEF Queued
<1>7. CASE DeviceSeqnumReset \/ DeviceRefuses \/ DeviceAckAgain \/ DeviceFinishAcked \/ \E s \in dev_finishing : DeviceResendFinish(s)
  <2>1. dev_queue' = dev_queue
    BY <1>7 DEF DeviceSeqnumReset, DeviceRefuses, DeviceAckAgain, DeviceFinishAcked, DeviceResendFinish, deviceVars
  <2> QED BY <1>a, <2>1
<1>8. CASE ClientMove /\ ~ Silent
  BY <1>2, <1>3, <1>8, <1>a DEF ClientMove
<1> QED BY <1>1, <1>4, <1>5, <1>6, <1>7, <1>8 DEF DeviceMove

\* What was sent and waits after a step waited before it.
LEMMA WaitingShrinks ==
    ASSUME TypeOK, TypeOK', Handshake, Numbers, DownLine, Window, DeviceQueue, QuarterOfRange,
           ClientMove \/ LineMove \/ DeviceMove, NEW s \in 2 .. Top, Waiting(s)'
    PROVE  Waiting(s)
<1>1. Turn \in Nat /\ Top \in Nat
  BY Positions
<1>2. Turn' \in Nat /\ Turn' >= Turn /\ TypeOf(s)' = TypeOf(s)
  BY HistoryStep
<1>3. s >= Turn' => s >= Turn
  BY <1>1, <1>2
<1>4. s \in Queued' => s \in Queued \/ s >= Turn
  BY <1>1, QueuedShrinks
<1> QED BY <1>2, <1>3, <1>4 DEF Waiting

\* Where a step adds to what was sent.
LEMMA WhatIsSent ==
    ASSUME TypeOK, TypeOK', Handshake, Numbers, DownLine, Window, QuarterOfRange, ClientMove \/ LineMove \/ DeviceMove
    PROVE  \/ Top' = Top
           \/ /\ Top' = Top + 1 /\ \A s : s = Top + 1 => TypeOf(s)' # "COMMAND"
           \/ /\ Top' = Top + 1 /\ m_send_seq = Top + 1 /\ m_state = "RUNNING" /\ ~ m_error
              /\ \E c \in Clients : TryIssue(c) /\ op[c] \in CommandOps
              /\ m_pending_commands' = Emplace(m_pending_commands, m_send_seq, [state |-> "NOT_ACKED", type |-> "COMMAND"])
<1>0. m_send_seq \in Nat \ {0} /\ Top \in Nat
      /\ IF m_send_seq = 1 THEN Top = 1 ELSE Top = m_send_seq - 1 \/ (m_state # "RUNNING" /\ Top = m_send_seq)
  BY Positions
<1>a. ASSUME UNCHANGED issued PROVE Top' = Top
  BY <1>a DEF Top
<1>1. CASE Silent
  BY <1>1, <1>a, SilentFrame
<1>2. ASSUME NEW c \in Clients, TryIssue(c)
      PROVE  \/ Top' = Top
             \/ /\ Top' = Top + 1 /\ \A s : s = Top + 1 => TypeOf(s)' # "COMMAND"
             \/ /\ Top' = Top + 1 /\ m_send_seq = Top + 1 /\ m_state = "RUNNING" /\ ~ m_error /\ op[c] \in CommandOps
                /\ m_pending_commands' = Emplace(m_pending_commands, m_send_seq, [state |-> "NOT_ACKED", type |-> "COMMAND"])
  <2>1. executed' = executed /\ m_state = "RUNNING" /\ ~ m_error
    BY <1>2, IssueEffect
  <2>2. CASE op[c] = "connect"
    BY <1>2, <1>a, <2>2, IssueEffect
  <2>3. CASE op[c] # "connect"
    <3>1. /\ m_send_seq > 1 /\ issued' = Append(issued, [seq |-> m_send_seq, type |-> MessageType(op[c])])
          /\ \/ MessageType(op[c]) # "COMMAND"
             \/ /\ op[c] \in CommandOps
                /\ m_pending_commands' = Emplace(m_pending_commands, m_send_seq, [state |-> "NOT_ACKED", type |-> "COMMAND"])
      BY <1>2, <2>3, IssueEffect
    <3>2. m_send_seq = Top + 1
      BY <1>0, <2>1, <3>1
    <3>3. Top' = Top + 1 /\ \A s : s = Top + 1 => TypeOf(s)' = MessageType(op[c])
      BY <2>1, <3>1, HistoryGrows
    <3> QED BY <2>1, <3>1, <3>2, <3>3
  <2> QED BY <2>2, <2>3
<1>3. ASSUME NEW c \in Clients, clear_all_active_commands(c) \/ wait_for_request(c) PROVE UNCHANGED issued
  BY <1>3, ClearEffect, ReplyEffect
<1>4. ASSUME NEW c \in Clients, StopSend(c) PROVE Top' = Top + 1 /\ \A s : s = Top + 1 => TypeOf(s)' # "COMMAND"
  <2>1. executed' = executed /\ issued' = Append(issued, [seq |-> m_send_seq, type |-> "REQUEST_STOP"])
    BY <1>4, StopSendEffect DEF deviceVars
  <2>2. Top' = Top + 1 /\ \A s : s = Top + 1 => TypeOf(s)' = "REQUEST_STOP"
    BY <2>1, HistoryGrows
  <2> QED BY <2>2
<1>5. ASSUME NEW limit \in Live, Retransmit(limit) PROVE UNCHANGED issued
  BY <1>5, RetransmitEffect DEF clientView
<1>6. CASE LineMove
  BY <1>6, <1>a, LineEffect
<1>7. CASE DeviceMove
  BY <1>7, <1>a, DeviceEffect, ProcessEffect DEF clientView
<1> QED BY <1>1, <1>2, <1>3, <1>4, <1>5, <1>6, <1>7, <1>a DEF ClientMove

LEMMA WaitingIsPendingStep ==
    ASSUME TypeOK, TypeOK', WithinGap, Handshake, Numbers, Entries, DownLine, UpLine, Window, DeviceQueue,
           WaitingIsPending, Clearing, QuarterOfRange, FinishesAreTimely, ClientMove \/ LineMove \/ DeviceMove
    PROVE  WaitingIsPending'
<1>0. /\ m_send_seq \in Nat \ {0} /\ Top \in Nat /\ Turn \in Nat
      /\ IF m_send_seq = 1 THEN Top = 1 ELSE Top = m_send_seq - 1 \/ (m_state # "RUNNING" /\ Top = m_send_seq)
  BY Positions
<1>h. Turn' \in Nat /\ Top' \in Nat /\ Top' >= Top /\ \A s \in 2 .. Top : TypeOf(s)' = TypeOf(s)
  BY HistoryStep
\* What was pending and waits is pending, or has been cleared.
<1>1. ASSUME NEW s \in 2 .. Top, Waiting(s)', s \in DOMAIN m_pending_commands
      PROVE  s \in DOMAIN m_pending_commands' \/ \E k \in (s + 1) .. Top : TypeOf(k) \in ClearTypes
  <2>k. CASE DOMAIN m_pending_commands' = DOMAIN m_pending_commands
    BY <1>1, <2>k
  <2>1. CASE Silent
    BY <1>1, <2>1, SilentFrame
  <2>2. ASSUME NEW c \in Clients, TryIssue(c) PROVE s \in DOMAIN m_pending_commands'
    BY <1>1, <2>2, IssueEffect DEF Emplace
  <2>3. ASSUME NEW c \in Clients, clear_all_active_commands(c)
        PROVE  s \in DOMAIN m_pending_commands' \/ \E k \in (s + 1) .. Top : TypeOf(k) \in ClearTypes
    <3>1. /\ m_pending_commands' = Erase(m_pending_commands, {q \in DOMAIN m_pending_commands : q <= seq[c]})
          /\ pc[c] = "clear"
      BY <2>3, ClearEffect
    <3>2. PICK k : k = seq[c]
      OBVIOUS
    <3>3. k \in 2 .. (m_send_seq - 1) /\ TypeOf(k) \in ClearTypes
      BY <3>1, <3>2 DEF Clearing
    <3>4. CASE ~ s <= k
      BY <1>1, <3>1, <3>2, <3>4 DEF Erase
    <3>5. CASE s <= k
      <4>1. TypeOf(s) = "COMMAND" /\ TypeOf(k) # "COMMAND"
        BY <1>1, <3>3 DEF Entries, ClearTypes
      <4>2. k \in (s + 1) .. Top
        BY <1>0, <3>3, <3>5, <4>1
      <4> QED BY <3>3, <4>2
    <3> QED BY <3>4, <3>5
  <2>4. ASSUME NEW c \in Clients, wait_for_request(c) \/ StopSend(c) PROVE DOMAIN m_pending_commands' = DOMAIN m_pending_commands
    BY <2>4, ReplyEffect, StopSendEffect
  <2>5. ASSUME NEW limit \in Live, Retransmit(limit) PROVE DOMAIN m_pending_commands' = DOMAIN m_pending_commands
    BY <2>5, RetransmitEffect DEF clientView, pending
  <2>6. CASE process_ack_request \/ process_ack_command
    BY <2>6, <2>k, AckRequestEffect, AckCommandEffect
  <2>7. CASE process_command_finished
    <3>1. PICK m : m = Head(toClient)
      OBVIOUS
    <3>2. /\ m.id \in 2 .. (Turn - 1) /\ m.id \notin Queued /\ UNCHANGED deviceVars
          /\ m_pending_commands' = Erase(m_pending_commands, {m.id})
      BY <2>7, <3>1, FinishEffect
    <3>3. s # m.id
      <4>1. Turn' = Turn /\ Queued' = Queued
        BY <3>2 DEF deviceVars, Turn, Queued
      <4>2. s >= Turn \/ s \in Queued
        BY <1>1, <4>1 DEF Waiting
      <4> QED BY <1>0, <3>2, <4>2
    <3> QED BY <1>1, <3>2, <3>3 DEF Erase
  <2>8. CASE MissedRequest \/ UpLoss \/ DownLoss
    BY <2>8, <2>k DEF MissedRequest, UpLoss, DownLoss, clientView, pending
  <2>9. CASE DeviceMove
    BY <2>9, <2>k, DeviceEffect, ProcessEffect DEF clientView, pending
  <2> QED BY <2>1, <2>2, <2>3, <2>4, <2>5, <2>6, <2>7, <2>8, <2>9, <2>k DEF ClientMove, LineMove
<1>2. ASSUME NEW s \in 2 .. Top, Waiting(s)'
      PROVE  s \in DOMAIN m_pending_commands' \/ \E k \in (s + 1) .. Top' : TypeOf(k)' \in ClearTypes
  <2>1. Waiting(s)
    BY <1>2, WaitingShrinks
  <2>2. s \in DOMAIN m_pending_commands' \/ \E k \in (s + 1) .. Top : TypeOf(k) \in ClearTypes
    BY <1>1, <1>2, <2>1 DEF WaitingIsPending
  <2>3. ASSUME NEW k \in (s + 1) .. Top, TypeOf(k) \in ClearTypes PROVE k \in (s + 1) .. Top' /\ TypeOf(k)' \in ClearTypes
    <3>1. k \in 2 .. Top /\ k \in (s + 1) .. Top'
      BY <1>0, <1>h
    <3> QED BY <1>h, <2>3, <3>1
  <2> QED BY <2>2, <2>3
<1>3. ASSUME NEW s \in 2 .. Top', s \notin 2 .. Top, Waiting(s)'
      PROVE  s \in DOMAIN m_pending_commands'
  <2>1. Top' # Top /\ TypeOf(s)' = "COMMAND"
    BY <1>3 DEF Waiting
  <2>2. Top' = Top + 1 => s = Top + 1
    BY <1>0, <1>3
  <2> QED BY <2>1, <2>2, WhatIsSent DEF Emplace
<1> QED BY <1>2, <1>3 DEF WaitingIsPending

LEMMA RoomForEachStep ==
    ASSUME TypeOK, TypeOK', WithinGap, Handshake, Numbers, Entries, DownLine, UpLine, Window, DeviceQueue,
           WaitingIsPending, RoomForEach, QuarterOfRange, ClientMove \/ LineMove \/ DeviceMove
    PROVE  RoomForEach'
<1>0. Top \in Nat /\ Turn \in Nat /\ Turn' \in Nat /\ Turn' >= Turn /\ Top' \in Nat /\ Top' >= Top
  BY Positions, HistoryStep
<1>h. \A s \in 2 .. Top : TypeOf(s)' = TypeOf(s)
  BY HistoryStep
<1>1. ASSUME NEW t \in 2 .. (Top + 1) PROVE Ahead(t)' \subseteq Ahead(t) /\ IsFiniteSet(Ahead(t)) /\ Cardinality(Ahead(t)) \in Nat
  <2>1. ASSUME NEW s \in Ahead(t)' PROVE s \in Ahead(t)
    <3>1. s \in 2 .. (t - 1) /\ s \in 2 .. Top /\ Waiting(s)' /\ \A k \in (s + 1) .. (t - 1) : TypeOf(k)' \notin ClearTypes
      BY <1>0, <2>1 DEF Ahead
    <3>2. Waiting(s)
      BY <3>1, WaitingShrinks
    <3>3. ASSUME NEW k \in (s + 1) .. (t - 1) PROVE TypeOf(k) \notin ClearTypes
      <4>1. k \in 2 .. Top
        BY <1>0, <3>1
      <4> QED BY <1>h, <3>1, <4>1
    <3> QED BY <3>1, <3>2, <3>3 DEF Ahead
  <2>2. IsFiniteSet(2 .. (t - 1)) /\ Ahead(t) \subseteq 2 .. (t - 1)
    <3>1. 2 \in Int /\ t - 1 \in Int
      BY <1>0
    <3> QED BY <3>1, FS_Interval DEF Ahead
  <2>3. IsFiniteSet(Ahead(t)) /\ Cardinality(Ahead(t)) \in Nat
    BY <2>2, FS_Subset, FS_CardinalityType
  <2> QED BY <2>1, <2>3
<1>2. ASSUME NEW t \in 2 .. Top, t >= Turn', TypeOf(t)' = "COMMAND" PROVE Cardinality(Ahead(t)') < MAX_PENDING_REQUESTS
  <2>1. t \in 2 .. (Top + 1) /\ t >= Turn /\ TypeOf(t) = "COMMAND"
    BY <1>0, <1>2, <1>h
  <2>2. Cardinality(Ahead(t)) < MAX_PENDING_REQUESTS
    BY <2>1 DEF RoomForEach
  <2>3. Cardinality(Ahead(t)') <= Cardinality(Ahead(t)) /\ Cardinality(Ahead(t)') \in Nat /\ Cardinality(Ahead(t)) \in Nat
    <3>1. Ahead(t)' \subseteq Ahead(t) /\ IsFiniteSet(Ahead(t)) /\ Cardinality(Ahead(t)) \in Nat
      BY <1>1, <2>1
    <3> QED BY <3>1, FS_Subset, FS_CardinalityType
  <2> QED BY <2>2, <2>3, PABotBaseAssumption
<1>3. ASSUME NEW t \in 2 .. Top', t \notin 2 .. Top, TypeOf(t)' = "COMMAND" PROVE Cardinality(Ahead(t)') < MAX_PENDING_REQUESTS
  <2>1. Top' # Top /\ (Top' = Top + 1 => t = Top + 1)
    BY <1>0, <1>3
  <2>2. t = Top + 1 /\ \E c \in Clients : TryIssue(c) /\ op[c] \in CommandOps
    BY <1>3, <2>1, WhatIsSent
  <2>3. PICK c \in Clients : TryIssue(c) /\ op[c] \in CommandOps
    BY <2>2
  <2>4. ~ Cardinality(DOMAIN m_pending_commands) >= MAX_PENDING_REQUESTS
    BY <2>3 DEF TryIssue, Throttled
  <2>5. IsFiniteSet(DOMAIN m_pending_commands) /\ Cardinality(DOMAIN m_pending_commands) \in Nat
    BY MapsFinite
  <2>6. ASSUME NEW s \in Ahead(t)' PROVE s \in DOMAIN m_pending_commands
    <3>1. s \in 2 .. (t - 1) /\ Waiting(s)' /\ \A k \in (s + 1) .. (t - 1) : TypeOf(k)' \notin ClearTypes
      BY <2>6 DEF Ahead
    <3>2. s \in 2 .. Top /\ t - 1 = Top
      BY <1>0, <2>2, <3>1
    <3>3. Waiting(s)
      BY <3>1, <3>2, WaitingShrinks
    <3>4. ASSUME NEW k \in (s + 1) .. Top PROVE TypeOf(k) \notin ClearTypes
      <4>1. k \in 2 .. Top
        BY <1>0, <3>2
      <4> QED BY <1>h, <3>1, <3>2, <4>1
    <3> QED BY <3>2, <3>3, <3>4 DEF WaitingIsPending
  <2>7. Cardinality(Ahead(t)') <= Cardinality(DOMAIN m_pending_commands) /\ Cardinality(Ahead(t)') \in Nat
    BY <2>5, <2>6, FS_Subset, FS_CardinalityType
  <2> QED BY <2>4, <2>5, <2>7, PABotBaseAssumption
<1> QED BY <1>2, <1>3 DEF RoomForEach

\* A step of the device takes a pending command out of the queue only when
\* it starts to finish it, or when a stop or an interrupt was sent after it.
LEMMA DeviceKnows ==
    ASSUME TypeOK, TypeOK', Handshake, Numbers, Entries, DownLine, Window, DeviceQueue, Clearing, QuarterOfRange, DeviceMove,
           m_state = "RUNNING", NEW s \in DOMAIN m_pending_commands, s < Turn'
    PROVE  s \in Queued' \cup dev_finishing' \/ BeingCleared(s)
<1>0. /\ Turn \in Nat /\ Top \in Nat /\ Turn >= 2 /\ dev_queue \in Seq(Nat) /\ toDevice \in Seq(WireMessage(MessageTypes))
  <2>1. dev_queue \in Seq(Nat) /\ toDevice \in Seq(WireMessage(MessageTypes))
    BY DEF TypeOK
  <2> QED BY <2>1, Positions
<1>1. s \in 2 .. Top /\ TypeOf(s) = "COMMAND"
  BY DEF Entries
<1>2. s < Turn => s \in Queued \cup dev_finishing \/ BeingCleared(s)
  BY DEF Clearing
<1>3. ASSUME NEW k \in (s + 1) .. Top, TypeOf(k) \in ClearTypes PROVE BeingCleared(s)
  BY <1>3 DEF Clearing
<1>4. CASE DeviceProcess
  <2>1. PICK m : m = Head(toDevice)
    OBVIOUS
  <2>2. /\ Turn' = Turn + 1 /\ Turn <= Top /\ dev_finishing' = dev_finishing /\ m.type = TypeOf(Turn)
        /\ \/ /\ m.type = "COMMAND" /\ ~ dev_interrupt' /\ IF dev_interrupt THEN dev_queue' = <<Turn>> ELSE dev_queue' = Append(dev_queue, Turn)
           \/ m.type = "REQUEST_STOP" /\ dev_queue' = <<>> /\ UNCHANGED dev_interrupt
           \/ m.type = "REQUEST_NEXT_CMD_INTERRUPT" /\ dev_interrupt' /\ UNCHANGED dev_queue
           \/ m.type = "REQUEST" /\ UNCHANGED <<dev_queue, dev_interrupt>>
    BY <1>4, <2>1, ProcessEffect
  <2>3. CASE s = Turn
    <3>1. dev_queue' = <<Turn>> \/ dev_queue' = Append(dev_queue, Turn)
      BY <1>1, <2>2, <2>3
    <3>2. Turn \in Queued'
      <4>1. CASE dev_queue' = <<Turn>>
        <5>1. 1 \in DOMAIN dev_queue' /\ dev_queue'[1] = Turn
          BY <4>1
        <5> QED BY <5>1 DEF Queued
      <4>2. CASE dev_queue' = Append(dev_queue, Turn)
        <5>1. Len(dev_queue) + 1 \in DOMAIN dev_queue' /\ dev_queue'[Len(dev_queue) + 1] = Turn
          BY <1>0, <4>2, AppendOf
        <5> QED BY <5>1 DEF Queued
      <4> QED BY <3>1, <4>1, <4>2
    <3> QED BY <2>3, <3>2
  <2>4. CASE s # Turn
    <3>1. s < Turn
      BY <1>0, <1>1, <2>2, <2>4
    <3>2. CASE s \in dev_finishing \/ BeingCleared(s)
      BY <2>2, <3>2
    <3>3. CASE s \in Queued
      <4>1. CASE dev_queue' = dev_queue
        BY <3>3, <4>1 DEF Queued
      <4>2. CASE dev_queue' = Append(dev_queue, Turn)
        <5>1. \A i \in DOMAIN dev_queue : i \in DOMAIN dev_queue' /\ dev_queue'[i] = dev_queue[i]
          BY <1>0, <4>2
        <5> QED BY <3>3, <5>1 DEF Queued
      <4>3. CASE m.type = "REQUEST_STOP"
        <5>1. Turn \in (s + 1) .. Top /\ TypeOf(Turn) \in ClearTypes
          BY <1>0, <1>1, <2>2, <3>1, <4>3 DEF ClearTypes
        <5> QED BY <1>3, <5>1
      <4>4. CASE dev_interrupt
        <5>1. PICK k \in 2 .. (Turn - 1) : TypeOf(k) = "REQUEST_NEXT_CMD_INTERRUPT" /\ \A q \in Queued : q < k
          BY <4>4 DEF DeviceQueue
        <5>2. k \in (s + 1) .. Top /\ TypeOf(k) \in ClearTypes
          BY <1>0, <1>1, <2>2, <3>3, <5>1 DEF ClearTypes
        <5> QED BY <1>3, <5>2
      <4> QED BY <2>2, <4>1, <4>2, <4>3, <4>4
    <3> QED BY <1>2, <3>1, <3>2, <3>3
  <2> QED BY <2>3, <2>4
<1>k. CASE ~ DeviceProcess
  <2>1. s < Turn
    BY <1>k, DeviceEffect, HistoryKept DEF clientView, Turn
  <2>2. CASE DeviceFinish
    <3>1. /\ dev_queue # <<>> /\ dev_queue' = Tail(dev_queue) /\ dev_finishing' = dev_finishing \cup {Head(dev_queue)}
      BY <2>2 DEF DeviceFinish
    <3>2. \A q \in Queued : q = Head(dev_queue) \/ \E i \in DOMAIN Tail(dev_queue) : Tail(dev_queue)[i] = q
      BY <3>1, QueueOrder
    <3>3. s \in Queued => s \in Queued' \/ s \in dev_finishing'
      BY <3>1, <3>2 DEF Queued
    <3> QED BY <1>2, <2>1, <3>1, <3>3
  <2>3. CASE DeviceFinishAcked
    <3>1. /\ toDevice # <<>> /\ Head(toDevice).type = "ACK_REQUEST" /\ dev_queue' = dev_queue
          /\ dev_finishing' = dev_finishing \ {Head(toDevice).id}
      BY <2>3 DEF DeviceFinishAcked, DeviceReceive
    <3>2. Head(toDevice).id \notin DOMAIN m_pending_commands
      <4>1. 1 \in DOMAIN toDevice /\ Head(toDevice) = toDevice[1]
        BY <1>0, <3>1, TailOf
      <4> QED BY <3>1, <4>1 DEF DownLine
    <3>3. s # Head(toDevice).id
      BY <3>2
    <3> QED BY <1>2, <2>1, <3>1, <3>3 DEF Queued
  <2>4. CASE DeviceSeqnumReset \/ DeviceRefuses \/ DeviceAckAgain \/ \E q \in dev_finishing : DeviceResendFinish(q)
    <3>1. UNCHANGED <<dev_queue, dev_finishing>>
      BY <2>4 DEF DeviceSeqnumReset, DeviceRefuses, DeviceAckAgain, DeviceResendFinish, deviceVars
    <3> QED BY <1>2, <2>1, <3>1 DEF Queued
  <2> QED BY <1>k, <2>2, <2>3, <2>4 DEF DeviceMove
<1> QED BY <1>4, <1>k

LEMMA ClearingStep ==
    ASSUME TypeOK, TypeOK', WithinGap, Handshake, Numbers, Entries, DownLine, UpLine, Window, DeviceQueue, Clearing,
           QuarterOfRange, FinishesAreTimely, ClientMove \/ LineMove \/ DeviceMove
    PROVE  Clearing'
<1>0. /\ m_send_seq \in Nat \ {0} /\ Top \in Nat /\ Turn \in Nat /\ Turn <= Top + 1
      /\ IF m_send_seq = 1 THEN Top = 1 ELSE Top = m_send_seq - 1 \/ (m_state # "RUNNING" /\ Top = m_send_seq)
      /\ pc \in [Clients -> Labels]
  <2>1. pc \in [Clients -> Labels]
    BY DEF TypeOK
  <2> QED BY <2>1, Positions
<1>h. /\ Turn' \in Nat /\ Turn' >= Turn /\ Top' \in Nat /\ Top' >= Top /\ \A s \in 2 .. Top : TypeOf(s)' = TypeOf(s)
      /\ m_state' = "RUNNING" => m_state = "RUNNING"
  BY HistoryStep
<1>s. ASSUME NEW s \in DOMAIN m_pending_commands
      PROVE  s \in 2 .. Top /\ s <= m_send_seq - 1 /\ TypeOf(s) = "COMMAND"
  <2>1. s \in 1 .. (m_send_seq - 1)
    BY DEF TypeOK
  <2> QED BY <1>0, <2>1 DEF Entries
\* Whoever clears goes on to do so.
<1>c. ASSUME ClearersKept, NEW s, BeingCleared(s) PROVE BeingCleared(s)'
  BY <1>c DEF ClearersKept, BeingCleared
<1>n. ASSUME ClearersKept, m_send_seq' = m_send_seq
      PROVE  \A c \in Clients : pc'[c] = "clear" => seq'[c] \in 2 .. (m_send_seq' - 1) /\ issued'[seq'[c] - 1].type \in ClearTypes
  <2>1. SUFFICES ASSUME NEW c \in Clients, pc'[c] = "clear"
                 PROVE  seq'[c] \in 2 .. (m_send_seq' - 1) /\ issued'[seq'[c] - 1].type \in ClearTypes
    OBVIOUS
  <2>2. seq'[c] = seq[c] /\ seq[c] \in 2 .. (m_send_seq - 1) /\ TypeOf(seq[c]) \in ClearTypes
    BY <1>n, <2>1 DEF ClearersKept, Clearing
  <2>3. seq[c] \in 2 .. Top
    BY <1>0, <2>2
  <2>4. \A k \in 2 .. Top : issued'[k - 1].type = issued[k - 1].type
    BY <1>h DEF TypeOf
  <2> QED BY <1>n, <2>2, <2>3, <2>4 DEF TypeOf
<1>i. /\ \A c \in Clients : pc'[c] = "clear" => seq'[c] \in 2 .. (m_send_seq' - 1) /\ issued'[seq'[c] - 1].type \in ClearTypes
      /\ m_state' = "RUNNING" => \A s \in DOMAIN m_pending_commands' :
            /\ s < Turn' => s \in Queued' \cup dev_finishing' \/ BeingCleared(s)'
            /\ \A k \in (s + 1) .. Top' : TypeOf(k)' \in ClearTypes => BeingCleared(s)'
      => Clearing'
  BY DEF Clearing, TypeOf
\* Nothing is sent, nothing processed, and the threads go on clearing.
<1>a. ASSUME ClearersKept, UNCHANGED <<m_send_seq, issued, executed, dev_queue, dev_finishing>>,
             DOMAIN m_pending_commands' \subseteq DOMAIN m_pending_commands
      PROVE  Clearing'
  <2>1. Turn' = Turn /\ Top' = Top /\ (\A s : TypeOf(s)' = TypeOf(s)) /\ Queued' = Queued
    BY <1>a, HistoryKept DEF Queued
  <2>2. ASSUME m_state' = "RUNNING", NEW s \in DOMAIN m_pending_commands'
        PROVE  /\ s < Turn' => s \in Queued' \cup dev_finishing' \/ BeingCleared(s)'
               /\ \A k \in (s + 1) .. Top' : TypeOf(k)' \in ClearTypes => BeingCleared(s)'
    <3>1. s \in DOMAIN m_pending_commands /\ m_state = "RUNNING"
      BY <1>a, <1>h, <2>2
    <3>2. s < Turn => s \in Queued \cup dev_finishing \/ BeingCleared(s)
      BY <3>1 DEF Clearing
    <3>3. ASSUME NEW k \in (s + 1) .. Top, TypeOf(k) \in ClearTypes PROVE BeingCleared(s)
      BY <3>1, <3>3 DEF Clearing
    <3> QED BY <1>a, <1>c, <2>1, <3>2, <3>3
  <2> QED BY <1>a, <1>i, <1>n, <2>2
<1>t. ASSUME pc' = pc, seq' = seq PROVE ClearersKept
  BY <1>t DEF ClearersKept
<1>1. CASE Silent
  BY <1>1, <1>a, SilentFrame, SilentThreads DEF ThreadsMove, deviceVars
<1>2. ASSUME NEW c \in Clients, TryIssue(c) PROVE Clearing'
  <2>1. /\ m_state = "RUNNING" /\ pc[c] = "try" /\ m_send_seq' = m_send_seq + 1
        /\ UNCHANGED <<executed, dev_queue, dev_finishing>>
        /\ \A d \in Clients \ {c} : pc'[d] = pc[d] /\ seq'[d] = seq[d]
    BY <1>2, IssueEffect
  <2>2. ASSUME NEW s, BeingCleared(s) PROVE BeingCleared(s)'
    BY <2>1, <2>2 DEF BeingCleared
  <2>t. Turn' = Turn /\ Queued' = Queued /\ dev_finishing' = dev_finishing
    BY <2>1 DEF Turn, Queued
  <2>o. ASSUME NEW d \in Clients, d # c, pc'[d] = "clear"
        PROVE  seq'[d] \in 2 .. (m_send_seq' - 1) /\ issued'[seq'[d] - 1].type \in ClearTypes
    <3>1. seq'[d] = seq[d] /\ seq[d] \in 2 .. (m_send_seq - 1) /\ TypeOf(seq[d]) \in ClearTypes
      BY <2>1, <2>o DEF Clearing
    <3>2. seq[d] \in 2 .. Top /\ seq[d] \in 2 .. (m_send_seq' - 1)
      BY <1>0, <2>1, <3>1
    <3>3. \A k \in 2 .. Top : issued'[k - 1].type = issued[k - 1].type
      BY <1>h DEF TypeOf
    <3> QED BY <3>1, <3>2, <3>3 DEF TypeOf
  <2>m. ASSUME NEW s \in DOMAIN m_pending_commands
        PROVE  /\ s < Turn' => s \in Queued' \cup dev_finishing' \/ BeingCleared(s)'
               /\ \A k \in (s + 1) .. Top : TypeOf(k)' \in ClearTypes => BeingCleared(s)'
    <3>1. s < Turn => s \in Queued \cup dev_finishing \/ BeingCleared(s)
      BY <2>1 DEF Clearing
    <3>2. ASSUME NEW k \in (s + 1) .. Top, TypeOf(k)' \in ClearTypes PROVE BeingCleared(s)'
      <4>1. k \in 2 .. Top
        BY <1>0, <1>s
      <4>2. TypeOf(k) \in ClearTypes
        BY <1>h, <3>2, <4>1
      <4> QED BY <2>1, <2>2, <4>2 DEF Clearing
    <3> QED BY <2>2, <2>t, <3>1, <3>2
  <2>3. CASE op[c] = "connect"
    <3>1. UNCHANGED <<issued, m_pending_commands>> /\ pc'[c] = "reply"
      BY <1>2, <2>3, IssueEffect
    <3>2. Top' = Top
      BY <3>1 DEF Top
    <3>3. \A d \in Clients : pc'[d] = "clear" => seq'[d] \in 2 .. (m_send_seq' - 1) /\ issued'[seq'[d] - 1].type \in ClearTypes
      BY <2>o, <3>1
    <3> QED BY <1>i, <2>m, <3>1, <3>2, <3>3
  <2>4. CASE op[c] # "connect"
    <3>1. PICK type : type = MessageType(op[c])
      OBVIOUS
    <3>2. /\ m_send_seq > 1 /\ issued' = Append(issued, [seq |-> m_send_seq, type |-> type])
          /\ IF type \in ClearTypes THEN pc'[c] = "clear" /\ seq'[c] = m_send_seq ELSE pc'[c] \in {"reply", "idle"}
          /\ \A s \in DOMAIN m_pending_commands' : s \in DOMAIN m_pending_commands \/ s = m_send_seq
      BY <1>2, <2>4, <3>1, IssueEffect DEF Emplace
    <3>3. m_send_seq = Top + 1 /\ Top' = Top + 1 /\ \A s : s = Top + 1 => TypeOf(s)' = type
      <4>1. m_send_seq = Top + 1
        BY <1>0, <2>1, <3>2
      <4> QED BY <2>1, <3>2, <4>1, HistoryGrows
    <3>4. ASSUME pc'[c] = "clear" PROVE seq'[c] \in 2 .. (m_send_seq' - 1) /\ issued'[seq'[c] - 1].type \in ClearTypes
      <4>1. type \in ClearTypes /\ seq'[c] = m_send_seq
        BY <3>2, <3>4
      <4>2. issued'[m_send_seq - 1].type = type
        BY <3>3 DEF TypeOf
      <4>3. m_send_seq \in 2 .. (m_send_seq' - 1)
        BY <1>0, <2>1, <3>2
      <4> QED BY <4>1, <4>2, <4>3
    <3>5. ASSUME NEW s \in DOMAIN m_pending_commands, NEW k \in (s + 1) .. Top', TypeOf(k)' \in ClearTypes PROVE BeingCleared(s)'
      <4>1. CASE k \in (s + 1) .. Top
        BY <2>m, <3>5, <4>1
      <4>2. CASE k \notin (s + 1) .. Top
        <5>1. k = Top + 1
          BY <1>0, <1>s, <3>3, <4>2
        <5>2. type \in ClearTypes
          BY <3>3, <3>5, <5>1
        <5>3. pc'[c] = "clear" /\ seq'[c] = m_send_seq /\ m_send_seq > s
          BY <1>0, <1>s, <3>2, <5>2
        <5> QED BY <5>3 DEF BeingCleared
      <4> QED BY <4>1, <4>2
    <3>6. ASSUME NEW s, s = m_send_seq PROVE ~ s < Turn' /\ (s + 1) .. Top' = {}
      BY <1>0, <2>t, <3>3, <3>6
    <3>7. ASSUME NEW s \in DOMAIN m_pending_commands'
          PROVE  /\ s < Turn' => s \in Queued' \cup dev_finishing' \/ BeingCleared(s)'
                 /\ \A k \in (s + 1) .. Top' : TypeOf(k)' \in ClearTypes => BeingCleared(s)'
      <4>1. CASE s \in DOMAIN m_pending_commands
        BY <2>m, <3>5, <4>1
      <4>2. CASE s = m_send_seq
        BY <3>6, <4>2
      <4> QED BY <3>2, <4>1, <4>2
    <3> QED BY <1>i, <2>o, <3>4, <3>7
  <2> QED BY <2>3, <2>4
<1>3. ASSUME NEW c \in Clients, clear_all_active_commands(c) PROVE Clearing'
  <2>1. /\ UNCHANGED <<m_send_seq, m_state, issued, deviceVars>>
        /\ m_pending_commands' = Erase(m_pending_commands, {s \in DOMAIN m_pending_commands : s <= seq[c]})
        /\ pc[c] = "clear" /\ pc'[c] = "idle"
        /\ \A d \in Clients \ {c} : pc'[d] = notify_all(pc)[d] /\ seq'[d] = seq[d]
    BY <1>3, ClearEffect
  <2>2. \A d \in Clients \ {c} : (pc'[d] = "clear" <=> pc[d] = "clear") /\ seq'[d] = seq[d]
    BY <1>0, <2>1, NotifyKeeps
  <2>3. Turn' = Turn /\ Top' = Top /\ (\A s : TypeOf(s)' = TypeOf(s)) /\ Queued' = Queued /\ dev_finishing' = dev_finishing
    BY <2>1, HistoryKept DEF Queued, deviceVars
  <2>4. \A d \in Clients : pc'[d] = "clear" => seq'[d] \in 2 .. (m_send_seq' - 1) /\ issued'[seq'[d] - 1].type \in ClearTypes
    BY <2>1, <2>2 DEF Clearing, TypeOf
  <2>5. ASSUME m_state' = "RUNNING", NEW s \in DOMAIN m_pending_commands'
        PROVE  /\ s < Turn' => s \in Queued' \cup dev_finishing' \/ BeingCleared(s)'
               /\ \A k \in (s + 1) .. Top' : TypeOf(k)' \in ClearTypes => BeingCleared(s)'
    <3>1. s \in DOMAIN m_pending_commands /\ ~ s <= seq[c]
      BY <2>1, <2>5 DEF Erase
    <3>2. ~ seq[c] > s
      <4>1. seq[c] \in Nat
        BY DEF TypeOK
      <4>2. s \in Nat
        BY <1>s, <1>0, <3>1
      <4> QED BY <3>1, <4>1, <4>2
    <3>3. ASSUME BeingCleared(s) PROVE BeingCleared(s)'
      BY <2>2, <3>2, <3>3 DEF BeingCleared
    <3>4. m_state = "RUNNING"
      BY <2>1, <2>5
    <3>5. s < Turn => s \in Queued \cup dev_finishing \/ BeingCleared(s)
      BY <3>1, <3>4 DEF Clearing
    <3>6. ASSUME NEW k \in (s + 1) .. Top, TypeOf(k) \in ClearTypes PROVE BeingCleared(s)
      BY <3>1, <3>4, <3>6 DEF Clearing
    <3> QED BY <2>3, <3>3, <3>5, <3>6
  <2> QED BY <1>i, <2>4, <2>5
<1>4. ASSUME NEW c \in Clients, wait_for_request(c) PROVE Clearing'
  <2>1. /\ UNCHANGED <<m_send_seq, m_pending_commands, issued, deviceVars>>
        /\ pc[c] = "reply" /\ pc'[c] \in {"idle", "reply_wait"}
        /\ \A d \in Clients \ {c} : pc'[d] \in {pc[d], notify_all(pc)[d]} /\ seq'[d] = seq[d]
    BY <1>4, ReplyEffect
  <2>2. ClearersKept
    BY <1>0, <2>1, NotifyKeeps DEF ClearersKept
  <2> QED BY <1>a, <2>1, <2>2 DEF deviceVars
<1>5. ASSUME NEW c \in Clients, StopSend(c) PROVE Clearing'
  <2>1. /\ UNCHANGED <<m_send_seq, m_state, seq>> /\ m_state = "STOPPING"
        /\ pc[c] = "stop_send" /\ pc'[c] = "stop_connection" /\ \A d \in Clients \ {c} : pc'[d] = pc[d]
    BY <1>5, StopSendEffect
  <2>2. ClearersKept
    BY <2>1 DEF ClearersKept
  <2> QED BY <1>i, <1>n, <2>1, <2>2
<1>6. ASSUME NEW limit \in Live, Retransmit(limit) PROVE Clearing'
  BY <1>6, <1>a, <1>t, RetransmitEffect DEF clientView, pending, threadVars, deviceVars
<1>7. CASE LineMove
  <2>1. UNCHANGED <<m_send_seq, issued, seq, deviceVars>> /\ (pc' = pc \/ pc' = notify_all(pc))
    BY <1>7, LineEffect
  <2>2. ClearersKept
    BY <1>0, <2>1, NotifyKeeps DEF ClearersKept
  <2>3. DOMAIN m_pending_commands' \subseteq DOMAIN m_pending_commands
    <3>1. CASE process_ack_request
      BY <3>1 DEF process_ack_request
    <3>2. CASE process_ack_command
      BY <3>2 DEF process_ack_command
    <3>3. CASE process_command_finished
      BY <3>3 DEF process_command_finished, Erase
    <3>4. CASE MissedRequest \/ UpLoss \/ DownLoss
      BY <3>4 DEF MissedRequest, UpLoss, DownLoss, clientView, pending
    <3> QED BY <1>7, <3>1, <3>2, <3>3, <3>4 DEF LineMove
  <2> QED BY <1>a, <2>1, <2>2, <2>3 DEF deviceVars
<1>8. CASE DeviceMove
  <2>1. UNCHANGED <<m_send_seq, m_pending_commands, m_state, issued, pc, seq>>
    BY <1>8, DeviceEffect, ProcessEffect DEF clientView, pending, threadVars
  <2>2. ClearersKept
    BY <2>1, <1>t
  <2>3. Top' = Top /\ \A s : TypeOf(s)' = TypeOf(s)
    BY <2>1 DEF Top, TypeOf
  <2>4. ASSUME m_state' = "RUNNING", NEW s \in DOMAIN m_pending_commands'
        PROVE  /\ s < Turn' => s \in Queued' \cup dev_finishing' \/ BeingCleared(s)'
               /\ \A k \in (s + 1) .. Top' : TypeOf(k)' \in ClearTypes => BeingCleared(s)'
    <3>1. s \in DOMAIN m_pending_commands /\ m_state = "RUNNING"
      BY <2>1, <2>4
    <3>2. s < Turn' => s \in Queued' \cup dev_finishing' \/ BeingCleared(s)
      BY <1>8, <3>1, DeviceKnows
    <3>3. ASSUME NEW k \in (s + 1) .. Top, TypeOf(k) \in ClearTypes PROVE BeingCleared(s)
      BY <3>1, <3>3 DEF Clearing
    <3> QED BY <1>c, <2>2, <2>3, <3>2, <3>3
  <2> QED BY <1>i, <1>n, <2>1, <2>2, <2>4
<1> QED BY <1>1, <1>2, <1>3, <1>4, <1>5, <1>6, <1>7, <1>8 DEF ClientMove

-----------------------------------------------------------------------------
(* All of it together.                                                     *)

LEMMA LineInit == Init => LineInv
<1> SUFFICES ASSUME Init PROVE LineInv
  OBVIOUS
<1>0. /\ m_send_seq = 1 /\ issued = <<>> /\ executed = <<>> /\ toDevice = <<>> /\ toClient = <<>> /\ dev_queue = <<>>
      /\ DOMAIN m_pending_requests = {} /\ DOMAIN m_pending_commands = {} /\ m_state = "RUNNING" /\ ~ m_error
      /\ pc = [c \in Clients |-> "idle"] /\ ~ dev_interrupt /\ dev_finishing = {}
  BY DEF Init, EmptyMap
<1>1. Turn = 2 /\ Top = 1 /\ Queued = {} /\ ~ Connected /\ Live = {}
  BY <1>0 DEF Turn, Top, Queued, Connected, Live
<1>2. \A c \in Clients : pc[c] \notin SendLabels /\ pc[c] \notin StopLabels /\ pc[c] # "clear"
  BY <1>0 DEF SendLabels, StopLabels
<1>3. Handshake
  <2>1. ConnectComesFirst
    BY <1>0, <1>2 DEF ConnectComesFirst
  <2>2. OnlyTheReset
    BY <1>0 DEF OnlyTheReset
  <2>3. ExpectsTurn
    BY <1>0, <1>1 DEF ExpectsTurn, Unanswered
  <2>4. ResetsLead
    BY <1>0 DEF ResetsLead
  <2> QED BY <2>1, <2>2, <2>3, <2>4 DEF Handshake
<1>4. Numbers
  BY <1>0, <1>2 DEF Numbers
<1>5. Entries
  BY <1>0 DEF Entries
<1>6. DownLine
  BY <1>0 DEF DownLine
<1>7. UpLine
  BY <1>0 DEF UpLine
<1>8. Window
  <2>1. 2 .. (m_send_seq - 1) = {}
    BY <1>0
  <2> QED BY <1>0, <2>1 DEF Window
<1>9. DeviceQueue
  BY <1>0, <1>1 DEF DeviceQueue
<1>10. WaitingIsPending /\ RoomForEach
  <2>1. 2 .. Top = {}
    BY <1>1
  <2> QED BY <2>1 DEF WaitingIsPending, RoomForEach
<1>11. Clearing
  BY <1>0, <1>2 DEF Clearing
<1> QED BY <1>3, <1>4, <1>5, <1>6, <1>7, <1>8, <1>9, <1>10, <1>11 DEF LineInv

LEMMA LineInvStep ==
    ASSUME TypeOK, TypeOK', WithinGap, LineInv, QuarterOfRange, FinishesAreTimely, ClientMove \/ LineMove \/ DeviceMove
    PROVE  LineInv'
<1>1. Handshake /\ Numbers /\ Entries /\ DownLine /\ UpLine /\ Window /\ DeviceQueue /\ WaitingIsPending /\ RoomForEach /\ Clearing
  BY DEF LineInv
<1>2. Handshake' /\ Numbers' /\ Entries'
  BY <1>1, HandshakeStep, NumbersStep, EntriesStep
<1>3. DownLine' /\ UpLine' /\ Window'
  BY <1>1, DownLineStep, UpLineStep, WindowStep
<1>4. DeviceQueue' /\ WaitingIsPending' /\ RoomForEach' /\ Clearing'
  BY <1>1, DeviceQueueStep, WaitingIsPendingStep, RoomForEachStep, ClearingStep
<1> QED BY <1>2, <1>3, <1>4 DEF LineInv

LEMMA LineHoldsStep ==
    ASSUME TypeOK, TypeOK', WithinGap, LineHolds, QuarterOfRange, FinishesAreTimely, [Next]_vars
    PROVE  LineHolds'
<1>1. SUFFICES ASSUME restarts' = 0 PROVE LineInv'
  BY DEF LineHolds
<1>2. restarts = 0 /\ (ClientMove \/ LineMove \/ DeviceMove)
  BY <1>1, Steps
<1>3. LineInv
  BY <1>2 DEF LineHolds
<1> QED BY <1>2, <1>3, LineInvStep

\* The line between client and device stays as LineInv says until the
\* device loses power.
THEOREM LineIsKept ==
    ASSUME QuarterOfRange
    PROVE  Spec /\ []FinishesAreTimely => [](TypeOK /\ WithinGap /\ LineHolds)
<1>1. Init => TypeOK /\ WithinGap /\ LineHolds
  <2>1. Init => WithinGap
    BY DEF Init, WithinGap, Live, EmptyMap
  <2> QED BY <2>1, InitType, LineInit DEF LineHolds
<1>2. TypeOK /\ WithinGap /\ LineHolds /\ FinishesAreTimely /\ [Next]_vars => (TypeOK /\ WithinGap /\ LineHolds)'
  <2>1. TypeOK /\ [Next]_vars => TypeOK'
    BY StepType
  <2>2. TypeOK /\ WithinGap /\ [Next]_vars => WithinGap'
    BY WithinGapStep
  <2>3. TypeOK /\ TypeOK' /\ WithinGap /\ LineHolds /\ FinishesAreTimely /\ [Next]_vars => LineHolds'
    BY LineHoldsStep
  <2> QED BY <2>1, <2>2, <2>3
<1> QED BY <1>1, <1>2, PTL DEF Spec

-----------------------------------------------------------------------------
(* What the layer promises.                                                *)

LEMMA LineGivesAcked ==
    ASSUME TypeOK, LineInv
    PROVE  AckedIsExecuted
<1>0. Numbers /\ Entries
  BY DEF LineInv
<1>1. /\ Turn \in Nat /\ Turn >= 2 /\ executed \in Seq(Record) /\ issued \in Seq(Record)
      /\ Len(executed) \in Nat /\ Turn = Len(executed) + 2
  <2>1. executed \in Seq(Record) /\ issued \in Seq(Record)
    BY DEF TypeOK
  <2> QED BY <1>0, <2>1, Positions DEF Turn
<1>2. ASSUME NEW s \in 2 .. (Turn - 1) PROVE Executed(s)
  <2>1. s - 1 \in DOMAIN executed
    BY <1>1
  <2>2. executed[s - 1] = issued[s - 1] /\ s - 1 \in DOMAIN issued
    BY <1>0, <1>1, <2>1 DEF Numbers
  <2>3. issued[s - 1].seq = s
    BY <1>0, <1>1, <2>1, <2>2 DEF Numbers
  <2> QED BY <2>1, <2>2, <2>3 DEF Executed
<1>3. ASSUME NEW s \in DOMAIN m_pending_requests, m_pending_requests[s].state = "ACKED"
      PROVE  m_pending_requests[s].type = "SEQNUM_RESET" \/ Executed(s)
  <2>1. s = 1 => m_pending_requests[s].type = "SEQNUM_RESET"
    BY <1>0 DEF Entries
  <2>2. s # 1 => s \in 2 .. Top
    BY <1>0 DEF Entries
  <2>3. s < Turn
    BY <1>0, <1>3 DEF Entries
  <2>4. s # 1 => s \in 2 .. (Turn - 1)
    BY <1>1, <2>2, <2>3
  <2> QED BY <1>2, <2>1, <2>4
<1>4. ASSUME NEW s \in DOMAIN m_pending_commands, m_pending_commands[s].state = "ACKED" PROVE Executed(s)
  <2>1. s \in 2 .. Top /\ s < Turn
    BY <1>0, <1>4 DEF Entries
  <2> QED BY <1>1, <1>2, <2>1
<1> QED BY <1>3, <1>4 DEF AckedIsExecuted

LEMMA LineGivesCredit ==
    ASSUME TypeOK, WithinGap, LineInv, QuarterOfRange
    PROVE  CreditedToItsEntry
<1>0. Numbers /\ UpLine
  BY DEF LineInv
<1>1. SUFFICES ASSUME NEW i \in DOMAIN toClient, NEW m, m = toClient[i]
               PROVE  /\ m.type = "ACK_REQUEST" => Found(m_pending_requests, m.seq) \subseteq {m.id}
                      /\ m.type = "ACK_COMMAND" => Found(m_pending_commands, m.seq) \subseteq {m.id}
                      /\ m.type = "REQUEST_COMMAND_FINISHED" /\ m_send_seq <= m.id + SeqnumModulus =>
                            Found(m_pending_commands, m.seq) \subseteq {m.id}
  BY DEF CreditedToItsEntry
<1>2. ASSUME m.type = "ACK_REQUEST" PROVE Found(m_pending_requests, m.seq) \subseteq {m.id}
  BY <1>0, <1>1, <1>2, AnswerFinds DEF IsAck, IsAnswer, Live
<1>3. ASSUME m.type = "ACK_COMMAND" PROVE Found(m_pending_commands, m.seq) \subseteq {m.id}
  BY <1>0, <1>1, <1>3, AnswerFinds DEF IsAck, IsAnswer, Live
<1>4. ASSUME m.type = "REQUEST_COMMAND_FINISHED", m_send_seq <= m.id + SeqnumModulus
      PROVE  Found(m_pending_commands, m.seq) \subseteq {m.id}
  BY <1>0, <1>1, <1>4, AnswerFinds DEF IsAnswer, Live
<1> QED BY <1>2, <1>3, <1>4

LEMMA LineGivesKnown ==
    ASSUME TypeOK, LineHolds
    PROVE  AckedIsKnownToDevice
<1>1. SUFFICES ASSUME NEW s \in DOMAIN m_pending_commands, m_pending_commands[s].state = "ACKED",
                      m_state = "RUNNING", restarts = 0
               PROVE  s \in Range(dev_queue) \cup dev_finishing \/ \E c \in Clients : pc[c] = "clear" /\ seq[c] > s
  <2>1. restarts \in Nat
    BY DEF TypeOK
  <2>2. restarts > 0 \/ restarts = 0
    BY <2>1
  <2> QED BY <2>2 DEF AckedIsKnownToDevice
<1>2. Entries /\ Clearing
  BY <1>1 DEF LineHolds, LineInv
<1>3. s < Turn
  BY <1>1, <1>2 DEF Entries
<1>4. s \in Queued \cup dev_finishing \/ BeingCleared(s)
  BY <1>1, <1>2, <1>3 DEF Clearing
<1>5. Queued = Range(dev_queue)
  BY DEF Queued, Range
<1> QED BY <1>4, <1>5 DEF BeingCleared

\* The queue is in order, so it is as long as there are commands in it.
LEMMA QueueLength ==
    ASSUME dev_queue \in Seq(Nat), DeviceQueue
    PROVE  IsFiniteSet(Queued) /\ Cardinality(Queued) = Len(dev_queue)
<1> DEFINE n == Len(dev_queue)
<1>1. n \in Nat /\ DOMAIN dev_queue = 1 .. n
  OBVIOUS
<1>2. dev_queue \in [1 .. n -> Queued]
  BY <1>1 DEF Queued
<1>3. \A i, j \in 1 .. n : dev_queue[i] = dev_queue[j] => i = j
  <2>1. SUFFICES ASSUME NEW i \in 1 .. n, NEW j \in 1 .. n, dev_queue[i] = dev_queue[j], i # j PROVE FALSE
    OBVIOUS
  <2>2. dev_queue[i] \in Nat /\ dev_queue[j] \in Nat
    BY <1>1
  <2>3. i < j \/ j < i
    BY <1>1, <2>1
  <2>4. dev_queue[i] < dev_queue[j] \/ dev_queue[j] < dev_queue[i]
    BY <1>1, <2>3 DEF DeviceQueue
  <2> QED BY <2>1, <2>2, <2>4
<1>4. \A q \in Queued : \E i \in 1 .. n : dev_queue[i] = q
  BY <1>1 DEF Queued
<1>5. dev_queue \in Injection(1 .. n, Queued) /\ dev_queue \in Surjection(1 .. n, Queued)
  <2>1. dev_queue \in Injection(1 .. n, Queued)
    BY <1>2, <1>3 DEF Injection, IsInjective
  <2>2. dev_queue \in Surjection(1 .. n, Queued)
    BY <1>2, <1>4 DEF Surjection
  <2> QED BY <2>1, <2>2
<1>6. IsFiniteSet(1 .. n) /\ Cardinality(1 .. n) = n
  <2>1. 1 \in Int /\ n \in Int /\ (n >= 1 \/ n = 0)
    BY <1>1
  <2>2. IsFiniteSet(1 .. n) /\ Cardinality(1 .. n) = IF 1 > n THEN 0 ELSE n - 1 + 1
    BY <2>1, FS_Interval
  <2> QED BY <2>1, <2>2
<1> HIDE DEF n
<1>7. IsFiniteSet(Queued) /\ Cardinality(Queued) = Cardinality(1 .. n)
  BY <1>5, <1>6, FS_Surjection
<1> QED BY <1>6, <1>7 DEF n

LEMMA LineGivesRoom ==
    ASSUME TypeOK, LineInv, QuarterOfRange, MAX_PENDING_REQUESTS <= DeviceQueueSize
    PROVE  QueueNeverOverflows
<1>0. Handshake /\ Numbers /\ DownLine /\ Window /\ DeviceQueue /\ RoomForEach
  BY DEF LineInv
<1>1. SUFFICES ASSUME toDevice # <<>>, Head(toDevice).type = "COMMAND", Distance(Head(toDevice).seq) = 0, ~ dev_interrupt
               PROVE  Len(dev_queue) < DeviceQueueSize
  BY DEF QueueNeverOverflows
<1>2. PICK m : m = Head(toDevice)
  OBVIOUS
<1>3. m.id = Turn /\ Turn \in 2 .. Top /\ TypeOf(Turn) = "COMMAND"
  <2>1. IsNumbered(Head(toDevice)) /\ Distance(m.seq) = 0 /\ m.type = "COMMAND"
    BY <1>1, <1>2 DEF IsNumbered
  <2>2. m.id = Turn /\ m.id \in 2 .. Top /\ m.type = TypeOf(m.id)
    BY <1>0, <1>1, <1>2, <2>1, HeadIsPlaced
  <2> QED BY <2>1, <2>2
<1>4. Turn \in Nat /\ Top \in Nat /\ dev_queue \in Seq(Nat)
  <2>1. dev_queue \in Seq(Nat)
    BY DEF TypeOK
  <2> QED BY <1>0, <2>1, Positions
<1>5. Cardinality(Ahead(Turn)) < MAX_PENDING_REQUESTS
  BY <1>0, <1>3, <1>4 DEF RoomForEach
<1>6. Queued \subseteq Ahead(Turn)
  <2>1. SUFFICES ASSUME NEW q \in Queued PROVE q \in Ahead(Turn)
    OBVIOUS
  <2>2. q \in 2 .. (Turn - 1) /\ TypeOf(q) = "COMMAND"
    BY <1>0 DEF DeviceQueue, Queued
  <2>3. \A k \in (q + 1) .. (Turn - 1) : TypeOf(k) \notin ClearTypes
    BY <1>0, <1>1 DEF DeviceQueue, ClearTypes
  <2> QED BY <2>2, <2>3 DEF Ahead, Waiting
<1>7. IsFiniteSet(Ahead(Turn)) /\ Cardinality(Ahead(Turn)) \in Nat
  <2>1. Ahead(Turn) \in SUBSET (2 .. (Turn - 1)) /\ IsFiniteSet(2 .. (Turn - 1))
    BY <1>4, FS_Interval DEF Ahead
  <2>2. IsFiniteSet(Ahead(Turn))
    BY <2>1, FS_Subset
  <2> QED BY <2>2, FS_CardinalityType
<1>8. Cardinality(Queued) <= Cardinality(Ahead(Turn)) /\ Cardinality(Queued) = Len(dev_queue)
  BY <1>0, <1>4, <1>6, <1>7, QueueLength, FS_Subset
<1>9. Len(dev_queue) \in Nat
  BY <1>4
<1> QED BY <1>5, <1>7, <1>8, <1>9, PABotBaseAssumption

\* The number the device misses is the one it expects, and not 1.
LEMMA MissedIsNotOne ==
    ASSUME TypeOK, Handshake, Numbers, DownLine, Window, QuarterOfRange, FirstRound, DeviceMissed
    PROVE  dev_expected # 1
<1>1. PICK m : m = Head(toDevice)
  OBVIOUS
<1>2. toDevice # <<>> /\ IsNumbered(m) /\ Distance(m.seq) # 0 /\ 2 * Distance(m.seq) < SeqnumModulus
  BY <1>1 DEF DeviceMissed, DeviceReceive
<1>3. dev_expected = Wire(Turn) /\ m.id \in 2 .. Top /\ m.id > Turn /\ m_send_seq > 1
  BY <1>1, <1>2, HeadIsPlaced
<1>4. Turn \in Nat /\ Turn >= 2 /\ Turn - 1 < SeqnumModulus /\ 1 - Turn < SeqnumModulus /\ SeqnumModulus > 1
  BY <1>3, Positions DEF QuarterOfRange, FirstRound
<1>5. Wire(1) = 1
  <2>1. 1 = SeqnumModulus * 0 + 1 /\ 1 \in 0 .. (SeqnumModulus - 1)
    BY <1>4, SeqNumAssumption
  <2> QED BY <2>1, RemainderIsUnique DEF Wire
<1>6. Wire(Turn) = Wire(1) => Turn = 1
  BY <1>4, WireIsInjective
<1> QED BY <1>3, <1>4, <1>5, <1>6

LEMMA NoFalseAlarmStep ==
    ASSUME TypeOK, TypeOK', LineHolds, QuarterOfRange, NoFalseAlarm, [Next]_vars
    PROVE  NoFalseAlarm'
<1> USE DEF clientVars, pending, threadVars, deviceVars, line, used
<1> DEFINE Quiet(q) == \A i \in DOMAIN q : q[i].type = "ERROR_MISSED_REQUEST" => q[i].seq # 1
<1>1. SUFFICES ASSUME restarts' = 0, FirstRound' PROVE ~ m_error' /\ Quiet(toClient')
  BY DEF NoFalseAlarm
<1>2. restarts = 0 /\ (ClientMove \/ LineMove \/ DeviceMove)
  BY <1>1, Steps
<1>3. FirstRound
  <2>1. m_send_seq' = m_send_seq \/ m_send_seq' = m_send_seq + 1
    <3>1. MapsShrink \/ \E c \in Clients : TryIssue(c)
      BY IssueOrShrink
    <3> QED BY <3>1 DEF MapsShrink, TryIssue
  <2>2. m_send_seq \in Nat /\ SeqnumModulus \in Nat
    BY SeqNumAssumption DEF TypeOK
  <2> QED BY <1>1, <2>1, <2>2 DEF FirstRound
<1>4. ~ m_error /\ Quiet(toClient) /\ LineInv /\ toClient \in Seq(WireMessage(ReplyTypes))
  BY <1>2, <1>3 DEF NoFalseAlarm, LineHolds, TypeOK
<1> HIDE DEF Quiet
<1>a. ASSUME UNCHANGED <<m_error, toClient>> PROVE ~ m_error' /\ Quiet(toClient')
  BY <1>4, <1>a
<1>b. Quiet(Tail(toClient)) \/ toClient = <<>>
  BY <1>4, TailOf DEF Quiet
<1>c. ASSUME NEW m, m.type = "ERROR_MISSED_REQUEST" => m.seq # 1 PROVE Quiet(Append(toClient, m))
  BY <1>4, <1>c, AppendOf DEF Quiet
<1>5. CASE \E c \in Clients : ClientCall(c) \/ ClientStep(c) \/ SpuriousWakeup(c)
  <2>1. PICK c \in Clients : ClientCall(c) \/ ClientStep(c) \/ SpuriousWakeup(c)
    BY <1>5
  <2>2. CASE ClientCall(c) \/ SpuriousWakeup(c)
    BY <2>2, <1>a DEF ClientCall, CallIssue, CallCancel, CallWaitForAll, CallStop, Call, SpuriousWakeup
  <2>3. CASE TryThrow(c) \/ TryRefused(c) \/ TryIssue(c) \/ IssueSleep(c) \/ wait_for_all_requests(c)
    BY <2>3, <1>a DEF TryThrow, TryRefused, TryIssue, IssueSleep, wait_for_all_requests
  <2>4. CASE clear_all_active_commands(c) \/ wait_for_request(c)
    BY <2>4, <1>a DEF clear_all_active_commands, wait_for_request
  <2>5. CASE StopNotify(c) \/ StopJoin(c) \/ StopSend(c) \/ StopConnection(c)
    BY <2>5, <1>a DEF StopNotify, StopJoin, StopSend, StopConnection
  <2> QED BY <2>1, <2>2, <2>3, <2>4, <2>5 DEF ClientStep
<1>6. CASE (\E limit \in Live : Retransmit(limit)) \/ RetransmitExit
  BY <1>6, <1>a DEF Retransmit, RetransmitExit
<1>7. CASE ReceiverStep
  <2>1. CASE process_ack_request \/ process_ack_command \/ process_command_finished \/ IgnoreMessage
    <3>1. toClient # <<>> /\ toClient' = Tail(toClient) /\ m_error' = m_error
      BY <2>1 DEF process_ack_request, process_ack_command, process_command_finished, IgnoreMessage, Receive
    <3> QED BY <1>4, <1>b, <3>1
  <2>2. CASE MissedRequest
    <3>1. toClient # <<>> /\ toClient' = Tail(toClient) /\ Head(toClient).type = "ERROR_MISSED_REQUEST"
      BY <2>2 DEF MissedRequest, Receive
    <3>2. Head(toClient).seq # 1
      BY <1>4, <3>1, TailOf DEF Quiet
    <3>3. m_error' = m_error
      BY <2>2, <3>2 DEF MissedRequest
    <3> QED BY <1>4, <1>b, <3>1, <3>3
  <2>3. CASE ReceiverNotify
    BY <2>3, <1>a DEF ReceiverNotify
  <2> QED BY <1>7, <2>1, <2>2, <2>3 DEF ReceiverStep
<1>8. CASE DeviceStep
  <2>0. m_error' = m_error
    BY <1>8 DEF DeviceStep, DeviceInput, DeviceSeqnumReset, DeviceProcess, DeviceDropCommand, DeviceAckAgain,
                DeviceMissed, DeviceFinishAcked, DeviceFinish, DeviceResendFinish, DeviceUnchanged
  <2>1. ASSUME NEW m, toClient' = Append(toClient, m), m.type = "ERROR_MISSED_REQUEST" => m.seq # 1
        PROVE  ~ m_error' /\ Quiet(toClient')
    BY <1>4, <1>c, <2>0, <2>1
  <2>2. ASSUME NEW type, type # "ERROR_MISSED_REQUEST", NEW m, Reply(type, m) PROVE ~ m_error' /\ Quiet(toClient')
    <3> DEFINE r == [type |-> type, seq |-> m.seq, id |-> m.id]
    <3>1. toClient' = Append(toClient, r) /\ r.type # "ERROR_MISSED_REQUEST"
      BY <2>2 DEF Reply
    <3> QED BY <2>1, <3>1
  <2>3. CASE DeviceSeqnumReset \/ DeviceProcess \/ DeviceDropCommand \/ DeviceAckAgain
    <3>1. \A m : AckOf(m) # "ERROR_MISSED_REQUEST"
      BY DEF AckOf
    <3>2. \E type, m : type # "ERROR_MISSED_REQUEST" /\ Reply(type, m)
      BY <2>3, <3>1 DEF DeviceSeqnumReset, DeviceProcess, DeviceDropCommand, DeviceAckAgain
    <3> QED BY <2>2, <3>2
  <2>4. CASE DeviceMissed
    <3>1. dev_expected # 1
      BY <1>3, <1>4, <2>4, MissedIsNotOne DEF LineInv
    <3>2. toClient' = Append(toClient, [type |-> "ERROR_MISSED_REQUEST", seq |-> dev_expected, id |-> 0])
      BY <2>4 DEF DeviceMissed
    <3> QED BY <2>1, <3>1, <3>2
  <2>5. CASE DeviceFinishAcked
    BY <1>4, <2>0, <2>5 DEF DeviceFinishAcked
  <2>6. CASE DeviceFinish \/ \E s \in dev_finishing : DeviceResendFinish(s)
    <3>1. PICK s : toClient' = Append(toClient, Finish(s))
      BY <2>6 DEF DeviceFinish, DeviceResendFinish
    <3> QED BY <2>1, <3>1 DEF Finish
  <2> QED BY <1>4, <1>8, <2>0, <2>3, <2>4, <2>5, <2>6 DEF DeviceStep, DeviceInput
<1>9. CASE Environment
  <2>1. CASE LoseToDevice \/ DeviceRestart
    BY <2>1, <1>a DEF LoseToDevice, DeviceRestart
  <2>2. CASE LoseToClient
    <3>1. toClient # <<>> /\ toClient' = Tail(toClient) /\ m_error' = m_error
      BY <2>2 DEF LoseToClient
    <3> QED BY <1>4, <1>b, <3>1
  <2> QED BY <1>9, <2>1, <2>2 DEF Environment
<1>10. CASE UNCHANGED vars
  BY <1>10, <1>a DEF vars
<1> QED BY <1>5, <1>6, <1>7, <1>8, <1>9, <1>10 DEF Next

\* A step of the layer is a step of the stream, or none.
LEMMA AppendSends ==
    ASSUME NEW S, NEW q \in Seq(S), NEW e \in S
    PROVE  Len(Append(q, e)) = Len(q) + 1 /\ SubSeq(Append(q, e), 1, Len(q)) = q
<1>1. Append(q, e) \in Seq(S) /\ Len(Append(q, e)) = Len(q) + 1 /\ Len(q) \in Nat
  OBVIOUS
<1>2. SubSeq(Append(q, e), 1, Len(q)) \in Seq(S) /\ Len(SubSeq(Append(q, e), 1, Len(q))) = Len(q)
  BY <1>1, SubSeqProperties
<1>3. ASSUME NEW i \in 1 .. Len(q) PROVE SubSeq(Append(q, e), 1, Len(q))[i] = q[i]
  OBVIOUS
<1> QED BY <1>1, <1>2, <1>3, SeqEqual

LEMMA StreamStep ==
    ASSUME TypeOK, Handshake, Numbers, DownLine, Window, QuarterOfRange, ClientMove \/ LineMove \/ DeviceMove
    PROVE  [Stream!Next]_<<issued, executed>>
<1>0. issued \in Seq(Record) /\ executed \in Seq(Record) /\ m_send_seq \in Nat \ {0}
  BY DEF TypeOK
<1>a. ASSUME UNCHANGED executed, m_send_seq > 1, Len(issued) <= m_send_seq - 2,
             NEW type \in MessageTypes, issued' = Append(issued, [seq |-> m_send_seq, type |-> type])
      PROVE  Stream!Send
  <2>1. [seq |-> m_send_seq, type |-> type] \in Record
    BY <1>0 DEF Record
  <2>2. Len(issued') = Len(issued) + 1 /\ SubSeq(issued', 1, Len(issued)) = issued
    BY <1>0, <1>a, <2>1, AppendSends
  <2>3. ASSUME NEW i \in DOMAIN issued PROVE issued[i] # issued'[Len(issued) + 1]
    <3>1. issued'[Len(issued) + 1] = [seq |-> m_send_seq, type |-> type]
      BY <1>0, <1>a, <2>1
    <3>2. i \in 1 .. Len(issued) /\ issued[i].seq = i + 1
      BY <1>0 DEF Numbers
    <3>3. issued[i].seq < m_send_seq
      BY <1>0, <1>a, <3>2
    <3> QED BY <1>0, <3>1, <3>3
  <2> QED BY <1>a, <2>2, <2>3 DEF Stream!Send
<1>1. CASE Silent
  BY <1>1, SilentFrame DEF deviceVars
<1>2. ASSUME NEW c \in Clients, TryIssue(c) PROVE [Stream!Next]_<<issued, executed>>
  <2>1. UNCHANGED executed /\ m_state = "RUNNING"
    BY <1>2, IssueEffect
  <2>2. UNCHANGED issued \/ (m_send_seq > 1 /\ MessageType(op[c]) \in NumberedTypes
                             /\ issued' = Append(issued, [seq |-> m_send_seq, type |-> MessageType(op[c])]))
    BY <1>2, IssueEffect
  <2>3. m_send_seq > 1 => Len(issued) <= m_send_seq - 2
    BY <1>0, <2>1 DEF Numbers
  <2> QED BY <1>a, <2>1, <2>2, <2>3 DEF Stream!Next, NumberedTypes
<1>3. ASSUME NEW c \in Clients, clear_all_active_commands(c) PROVE [Stream!Next]_<<issued, executed>>
  BY <1>3, ClearEffect DEF deviceVars
<1>4. ASSUME NEW c \in Clients, wait_for_request(c) PROVE [Stream!Next]_<<issued, executed>>
  BY <1>4, ReplyEffect DEF deviceVars
<1>5. ASSUME NEW c \in Clients, StopSend(c) PROVE [Stream!Next]_<<issued, executed>>
  <2>1. /\ UNCHANGED executed /\ issued' = Append(issued, [seq |-> m_send_seq, type |-> "REQUEST_STOP"])
        /\ m_send_seq > 1 /\ Len(issued) <= m_send_seq - 2
    BY <1>0, <1>5, StopSendEffect DEF deviceVars
  <2>2. "REQUEST_STOP" \in MessageTypes
    BY DEF MessageTypes
  <2> QED BY <1>a, <2>1, <2>2 DEF Stream!Next
<1>6. ASSUME NEW limit \in Live, Retransmit(limit) PROVE [Stream!Next]_<<issued, executed>>
  BY <1>6, RetransmitEffect DEF clientView, deviceVars
<1>7. CASE LineMove
  BY <1>7, LineEffect DEF deviceVars
<1>8. CASE DeviceProcess
  <2>1. PICK m : m = Head(toDevice)
    OBVIOUS
  <2>2. Turn <= Top /\ executed' = Append(executed, issued[Turn - 1]) /\ UNCHANGED issued
    BY <1>8, <2>1, ProcessEffect DEF clientView
  <2> DEFINE k == Len(executed) + 1
  <2>3. k \in DOMAIN issued /\ Turn - 1 = k /\ Len(executed) \in Nat
    BY <1>0, <2>2 DEF Turn, Top
  <2>4. Stream!Process(k)
    BY <2>2, <2>3 DEF Stream!Process
  <2>5. ASSUME NEW j \in 1 .. (k - 1) PROVE Stream!Done(issued[j])
    <3>1. j \in DOMAIN executed /\ executed[j] = issued[j]
      BY <1>0, <2>3 DEF Numbers
    <3> QED BY <3>1 DEF Stream!Done
  <2>6. ~ Stream!Done(issued[k])
    <3>1. ASSUME NEW i \in DOMAIN executed PROVE executed[i] # issued[k]
      <4>1. i \in 1 .. Len(executed) /\ i \in DOMAIN issued /\ executed[i] = issued[i]
        BY <1>0, <2>3 DEF Numbers
      <4>2. issued[i].seq = i + 1 /\ issued[k].seq = k + 1 /\ i # k
        BY <2>3, <4>1 DEF Numbers
      <4>3. issued[i].seq # issued[k].seq
        BY <2>3, <4>1, <4>2
      <4> QED BY <4>1, <4>3
    <3> QED BY <3>1 DEF Stream!Done
  <2>7. Stream!ProcessCommand(k) \/ Stream!ProcessRequest(k)
    BY <2>4, <2>5, <2>6 DEF Stream!ProcessCommand, Stream!ProcessRequest
  <2> QED BY <2>3, <2>7 DEF Stream!Next
<1>9. CASE DeviceMove /\ ~ DeviceProcess
  BY <1>9, DeviceEffect DEF clientView
<1> QED BY <1>1, <1>2, <1>3, <1>4, <1>5, <1>6, <1>7, <1>8, <1>9 DEF ClientMove

\* Every thread that is about to send has a number to send with.
NumbersLast == m_send_seq + Cardinality(Sending) <= MaxSeqnum + 1

LEMMA SendersCounted ==
    /\ IsFiniteSet(Sending) /\ Cardinality(Sending) \in Nat
    /\ \A S : S \subseteq Sending => IsFiniteSet(S) /\ Cardinality(S) \in Nat /\ Cardinality(S) <= Cardinality(Sending)
    /\ \A c \in Clients : Cardinality(Sending \cup {c}) \in Nat /\ Cardinality(Sending \cup {c}) <= Cardinality(Sending) + 1
    /\ \A c \in Sending : Cardinality(Sending \ {c}) = Cardinality(Sending) - 1
<1>1. IsFiniteSet(Sending)
  <2>1. IsFiniteSet(Clients) /\ Sending \in SUBSET Clients
    BY PABotBaseAssumption DEF Sending
  <2> QED BY <2>1, FS_Subset
<1>2. Cardinality(Sending) \in Nat
  BY <1>1, FS_CardinalityType
<1>3. ASSUME NEW S \in SUBSET Sending PROVE IsFiniteSet(S) /\ Cardinality(S) \in Nat /\ Cardinality(S) <= Cardinality(Sending)
  BY <1>1, FS_Subset, FS_CardinalityType
<1>4. ASSUME NEW c \in Clients
      PROVE  Cardinality(Sending \cup {c}) \in Nat /\ Cardinality(Sending \cup {c}) <= Cardinality(Sending) + 1
  <2>1. Cardinality(Sending \cup {c}) = IF c \in Sending THEN Cardinality(Sending) ELSE Cardinality(Sending) + 1
    BY <1>1, FS_AddElement
  <2> QED BY <1>2, <2>1
<1>5. ASSUME NEW c \in Sending PROVE Cardinality(Sending \ {c}) = Cardinality(Sending) - 1
  BY <1>1, <1>5, FS_RemoveElement
<1> QED BY <1>1, <1>2, <1>3, <1>4, <1>5

LEMMA NumbersLastStep ==
    ASSUME TypeOK, NumbersLast, [Next]_vars
    PROVE  NumbersLast'
<1> USE DEF clientVars, pending, threadVars, deviceVars, line, used
<1>0. m_send_seq \in Nat /\ pc \in [Clients -> Labels] /\ notify_all(pc) \in [Clients -> Labels] /\ MaxSeqnum \in Nat
  BY NotifyAllType, PABotBaseAssumption DEF TypeOK
<1>a. ASSUME m_send_seq' = m_send_seq, \A d \in Clients : pc'[d] \in SendLabels => pc[d] \in SendLabels PROVE NumbersLast'
  <2>1. Sending' \subseteq Sending
    BY <1>a DEF Sending, SendLabels
  <2>2. Cardinality(Sending') \in Nat /\ Cardinality(Sending') <= Cardinality(Sending) /\ Cardinality(Sending) \in Nat
    BY <2>1, SendersCounted
  <2> QED BY <1>0, <1>a, <2>2 DEF NumbersLast
<1>b. ASSUME m_send_seq' = m_send_seq, \A d \in Clients : pc'[d] \in {pc[d], notify_all(pc)[d]} PROVE NumbersLast'
  BY <1>0, <1>a, <1>b, NotifyKeeps
<1>1. ASSUME NEW c \in Clients, CallIssue(c) \/ CallCancel(c) PROVE NumbersLast'
  <2>1. m_send_seq' = m_send_seq /\ pc' = [pc EXCEPT ![c] = "try"] /\ m_send_seq + Cardinality(Sending) <= MaxSeqnum
    BY <1>1 DEF CallIssue, CallCancel, Call, Goto, SendOps, Operations
  <2>2. Sending' \subseteq Sending \cup {c}
    BY <1>0, <2>1 DEF Sending
  <2>3. Sending \subseteq Sending' \cup {c} /\ c \in Sending'
    BY <1>0, <2>1 DEF Sending
  <2>4. Sending' = Sending \cup {c}
    BY <2>2, <2>3, <1>0, <2>1 DEF Sending
  <2>5. Cardinality(Sending') \in Nat /\ Cardinality(Sending') <= Cardinality(Sending) + 1 /\ Cardinality(Sending) \in Nat
    BY <2>4, SendersCounted
  <2> QED BY <1>0, <2>1, <2>5 DEF NumbersLast
<1>2. ASSUME NEW c \in Clients, CallWaitForAll(c) \/ CallStop(c) PROVE NumbersLast'
  <2>1. m_send_seq' = m_send_seq /\ (pc' = [pc EXCEPT ![c] = "all"] \/ pc' = [pc EXCEPT ![c] = "stop_notify"])
    BY <1>2 DEF CallWaitForAll, CallStop, Call, Goto
  <2> QED BY <1>0, <1>a, <2>1 DEF SendLabels
<1>3. ASSUME NEW c \in Clients, TryIssue(c) PROVE NumbersLast'
  <2>1. m_send_seq' = m_send_seq + 1 /\ pc[c] = "try" /\ \E l \in {"clear", "reply", "idle"} : pc' = [pc EXCEPT ![c] = l]
    <3>1. CASE op[c] \in ClearOps
      BY <1>3, <3>1 DEF TryIssue, Goto
    <3>2. CASE op[c] \in WaitedOps
      <4>1. op[c] \notin ClearOps
        BY <3>2 DEF WaitedOps, ClearOps, StopOps, InterruptOps
      <4> QED BY <1>3, <3>2, <4>1 DEF TryIssue, Goto
    <3>3. CASE op[c] \notin ClearOps /\ op[c] \notin WaitedOps
      BY <1>3, <3>3 DEF TryIssue, Goto, Return
    <3> QED BY <3>1, <3>2, <3>3
  <2>2. c \in Sending /\ Sending' = Sending \ {c}
    BY <1>0, <2>1 DEF Sending
  <2>3. Cardinality(Sending') = Cardinality(Sending) - 1 /\ Cardinality(Sending) \in Nat
    BY <2>2, SendersCounted
  <2> QED BY <1>0, <2>1, <2>3 DEF NumbersLast
<1>4. ASSUME NEW c \in Clients, TryThrow(c) \/ TryRefused(c) \/ IssueSleep(c) \/ wait_for_all_requests(c) PROVE NumbersLast'
  <2>1. /\ m_send_seq' = m_send_seq
        /\ \/ pc[c] \in {"try", "sleep"} /\ pc' = [pc EXCEPT ![c] = pc'[c]]
           \/ pc' = [pc EXCEPT ![c] = "idle"] \/ pc' = [pc EXCEPT ![c] = "all_wait"]
    BY <1>0, <1>4 DEF TryThrow, TryRefused, IssueSleep, wait_for_all_requests, Goto, Return
  <2> QED BY <1>0, <1>a, <2>1 DEF SendLabels
<1>5. ASSUME NEW c \in Clients, clear_all_active_commands(c) \/ wait_for_request(c) PROVE NumbersLast'
  <2>1. /\ m_send_seq' = m_send_seq
        /\ \/ pc' = [notify_all(pc) EXCEPT ![c] = "idle"]
           \/ \E l \in {"idle", "reply_wait"} : pc' = [pc EXCEPT ![c] = l]
    BY <1>5 DEF clear_all_active_commands, wait_for_request, Goto, Return
  <2> QED BY <1>0, <1>a, <2>1, NotifyKeeps DEF SendLabels
<1>6. ASSUME NEW c \in Clients, StopNotify(c) \/ StopJoin(c) \/ StopSend(c) \/ StopConnection(c) PROVE NumbersLast'
  <2>1. /\ m_send_seq' = m_send_seq
        /\ \/ pc' = [notify_all(pc) EXCEPT ![c] = "stop_join"]
           \/ \E l \in {"stop_send", "stop_connection", "idle"} : pc' = [pc EXCEPT ![c] = l]
    BY <1>6 DEF StopNotify, StopJoin, StopSend, StopConnection, Goto, Return
  <2> QED BY <1>0, <1>a, <2>1, NotifyKeeps DEF SendLabels
<1>7. ASSUME NEW c \in Clients, SpuriousWakeup(c) PROVE NumbersLast'
  BY <1>0, <1>7, <1>b DEF SpuriousWakeup
<1>8. CASE (\E limit \in Live : Retransmit(limit)) \/ RetransmitExit
  BY <1>8, <1>b DEF Retransmit, RetransmitExit
<1>9. CASE ReceiverStep
  BY <1>9, <1>b DEF ReceiverStep, process_ack_request, process_ack_command, process_command_finished,
                    MissedRequest, IgnoreMessage, ReceiverNotify
<1>10. CASE DeviceStep
  BY <1>10, <1>b DEF DeviceStep, DeviceInput, DeviceSeqnumReset, DeviceProcess, DeviceDropCommand, DeviceAckAgain,
                     DeviceMissed, DeviceFinishAcked, DeviceFinish, DeviceResendFinish, DeviceUnchanged
<1>11. CASE Environment
  BY <1>11, <1>b DEF Environment, LoseToDevice, LoseToClient, DeviceRestart
<1>12. CASE UNCHANGED vars
  BY <1>12, <1>b DEF vars
<1> QED BY <1>1, <1>2, <1>3, <1>4, <1>5, <1>6, <1>7, <1>8, <1>9, <1>10, <1>11, <1>12 DEF Next, ClientCall, ClientStep

-----------------------------------------------------------------------------
(* The theorems.  A session that uses less than the SeqnumModulus numbers  *)
(* has nothing to assume about time.                                       *)

\* A client that uses less than SeqnumModulus numbers gets no finish late.
THEOREM ShortSessionsAreTimely ==
    ASSUME MaxSeqnum < SeqnumModulus
    PROVE  Spec => []FinishesAreTimely
<1>1. Init => NumbersLast
  <2>1. Init => Sending = {} /\ m_send_seq = 1
    BY DEF Init, Sending
  <2> QED BY <2>1, FS_EmptySet, PABotBaseAssumption DEF NumbersLast
<1>2. TypeOK /\ NumbersLast /\ [Next]_vars => NumbersLast'
  BY NumbersLastStep
<1>3. TypeOK /\ NumbersLast => FinishesAreTimely
  <2>1. SUFFICES ASSUME TypeOK, NumbersLast, NEW i \in DOMAIN toClient PROVE m_send_seq <= toClient[i].id + SeqnumModulus
    BY DEF FinishesAreTimely
  <2>2. toClient[i].id \in Nat /\ m_send_seq \in Nat
    <3>1. toClient \in Seq(WireMessage(ReplyTypes)) /\ m_send_seq \in Nat
      BY <2>1 DEF TypeOK
    <3>2. toClient[i] \in WireMessage(ReplyTypes)
      BY <2>1, <3>1
    <3> QED BY <3>1, <3>2 DEF WireMessage
  <2> QED BY <2>1, <2>2, SendersCounted, PABotBaseAssumption, SeqNumAssumption DEF NumbersLast
<1> QED BY <1>1, <1>2, <1>3, TypeCorrect, PTL DEF Spec

\* What the client holds for acked has been processed, as long as the device
\* keeps its power, through any loss, repetition and wrap of the numbers.
THEOREM AckedMeansExecuted ==
    ASSUME QuarterOfRange
    PROVE  Spec /\ []FinishesAreTimely => [](restarts = 0 => AckedIsExecuted)
<1>1. TypeOK /\ LineHolds => (restarts = 0 => AckedIsExecuted)
  BY LineGivesAcked DEF LineHolds
<1> QED BY <1>1, LineIsKept, PTL

\* Every ack and every finish is credited to the entry it answers, or to none.
THEOREM CreditIsRight ==
    ASSUME QuarterOfRange
    PROVE  Spec /\ []FinishesAreTimely => [](restarts = 0 => CreditedToItsEntry)
<1>1. TypeOK /\ WithinGap /\ LineHolds => (restarts = 0 => CreditedToItsEntry)
  BY LineGivesCredit DEF LineHolds
<1> QED BY <1>1, LineIsKept, PTL

\* A command that counts as running is known to the device.
THEOREM RunningIsKnown ==
    ASSUME QuarterOfRange
    PROVE  Spec /\ []FinishesAreTimely => []AckedIsKnownToDevice
<1>1. TypeOK /\ LineHolds => AckedIsKnownToDevice
  BY LineGivesKnown
<1> QED BY <1>1, LineIsKept, PTL

\* A client whose limit is at most the size of the device's queue, as
\* PABotBase.h sets it, never sends a command to a full queue.
THEOREM QueueHasRoom ==
    ASSUME QuarterOfRange, MAX_PENDING_REQUESTS <= DeviceQueueSize
    PROVE  Spec /\ []FinishesAreTimely => [](restarts = 0 => QueueNeverOverflows)
<1>1. TypeOK /\ LineHolds => (restarts = 0 => QueueNeverOverflows)
  BY LineGivesRoom DEF LineHolds
<1> QED BY <1>1, LineIsKept, PTL

\* Until the wire numbers come around, the connection is declared broken
\* only when the device has lost power.
THEOREM AlarmIsRestart ==
    ASSUME QuarterOfRange
    PROVE  Spec /\ []FinishesAreTimely => [](FirstRound => ErrorMeansRestart)
<1>1. Init => NoFalseAlarm
  BY DEF Init, NoFalseAlarm
<1>2. TypeOK /\ TypeOK' /\ LineHolds /\ NoFalseAlarm /\ [Next]_vars => NoFalseAlarm'
  BY NoFalseAlarmStep
<1>3. TypeOK /\ NoFalseAlarm => (FirstRound => ErrorMeansRestart)
  <2>1. TypeOK => restarts = 0 \/ restarts > 0
    BY DEF TypeOK
  <2> QED BY <2>1 DEF NoFalseAlarm, ErrorMeansRestart
<1> QED BY <1>1, <1>2, <1>3, LineIsKept, PTL DEF Spec

\* The device processes commands in order exactly once, and nothing that
\* was not issued: as long as it keeps its power, the layer implements the
\* stream of MessageProtocol.h.
THEOREM ImplementsStream ==
    ASSUME QuarterOfRange
    PROVE  Spec /\ []FinishesAreTimely /\ [](restarts = 0) => ProcessedInOrderOnce
<1>1. Init => Stream!Init
  BY DEF Init, Stream!Init
<1>2. TypeOK /\ LineHolds /\ (restarts = 0)' /\ [Next]_vars => [Stream!Next]_<<issued, executed>>
  <2>1. SUFFICES ASSUME TypeOK, LineHolds, restarts' = 0, [Next]_vars PROVE [Stream!Next]_<<issued, executed>>
    OBVIOUS
  <2>2. restarts = 0 /\ (ClientMove \/ LineMove \/ DeviceMove)
    BY <2>1, Steps
  <2>3. Handshake /\ Numbers /\ DownLine /\ Window
    BY <2>1, <2>2 DEF LineHolds, LineInv
  <2> QED BY <2>1, <2>2, <2>3, StreamStep
<1> QED BY <1>1, <1>2, LineIsKept, PTL DEF Spec, ProcessedInOrderOnce, Stream!Spec

\* A session that uses less than SeqnumModulus numbers is safe whatever the
\* timing of the line and the device.
THEOREM ShortSessionsAreSafe ==
    ASSUME QuarterOfRange, MaxSeqnum < SeqnumModulus
    PROVE  Spec => []( /\ AckedIsKnownToDevice /\ ErrorMeansRestart
                       /\ restarts = 0 => AckedIsExecuted /\ CreditedToItsEntry )
<1>1. Spec => []NumbersLast
  <2>1. Init => NumbersLast
    <3>1. Init => Sending = {} /\ m_send_seq = 1
      BY DEF Init, Sending
    <3> QED BY <3>1, FS_EmptySet, PABotBaseAssumption DEF NumbersLast
  <2>2. TypeOK /\ NumbersLast /\ [Next]_vars => NumbersLast'
    BY NumbersLastStep
  <2> QED BY <2>1, <2>2, TypeCorrect, PTL DEF Spec
<1>2. TypeOK /\ NumbersLast => FirstRound
  <2>1. TypeOK => m_send_seq \in Nat
    BY DEF TypeOK
  <2> QED BY <2>1, SendersCounted, PABotBaseAssumption, SeqNumAssumption DEF NumbersLast, FirstRound
<1> QED BY <1>1, <1>2, ShortSessionsAreTimely, AckedMeansExecuted, CreditIsRight, RunningIsKnown, AlarmIsRestart, TypeCorrect, PTL

\* Such a session implements MessageStream, as long as the device keeps its
\* power.
THEOREM ShortSessionsAreStreams ==
    ASSUME QuarterOfRange, MaxSeqnum < SeqnumModulus
    PROVE  Spec /\ [](restarts = 0) => ProcessedInOrderOnce
BY ShortSessionsAreTimely, ImplementsStream, PTL
=============================================================================
