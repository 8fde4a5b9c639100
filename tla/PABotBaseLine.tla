--------------------------- MODULE PABotBaseLine ---------------------------
(***************************************************************************)
(* Why PABotBase keeps its promises: the invariant that says what is in    *)
(* the maps, on the line and in the device as long as the device does not  *)
(* lose power.  Numbered messages start with 2, number 1 being the reset   *)
(* of connect(), so issued[s - 1] is the message with number s.            *)
(***************************************************************************)
EXTENDS PABotBase

Turn      == Len(executed) + 2      \* the number the device processes next
Top       == Len(issued) + 1        \* the last number sent
TypeOf(s) == issued[s - 1].type
Queued    == {dev_queue[i] : i \in DOMAIN dev_queue}

NumberedTypes == MessageTypes \ {"SEQNUM_RESET", "ACK_REQUEST"}
ClearTypes    == {"REQUEST_STOP", "REQUEST_NEXT_CMD_INTERRUPT"}
SendLabels    == {"try", "sleep", "issue_wait"}
StopLabels    == {"stop_notify", "stop_join", "stop_send", "stop_connection"}

IsAck(m)    == m.type \in {"ACK_REQUEST", "ACK_COMMAND"}
IsAnswer(m) == IsAck(m) \/ m.type = "REQUEST_COMMAND_FINISHED"

\* connect() is alone until it has its answer.
ConnectComesFirst ==
    /\ \A c \in Clients : pc[c] \in SendLabels => IF op[c] = "connect" THEN m_send_seq = 1 ELSE Connected
    /\ m_send_seq = 1 => /\ toDevice = <<>> /\ toClient = <<>>
                         /\ \A c, d \in Clients : pc[c] \in SendLabels /\ pc[d] \in SendLabels => c = d

\* Until then there is nothing but its reset and the answer to it.
OnlyTheReset ==
    ~ Connected => /\ m_send_seq <= 2 /\ m_state = "RUNNING" /\ ~ m_error
                   /\ \A i \in DOMAIN toDevice : toDevice[i].type = "SEQNUM_RESET"
                   /\ \A i \in DOMAIN toClient : toClient[i].type = "ACK_REQUEST"

\* The device expects number 2 from the time it has answered.
Unanswered == toClient = <<>> /\ \A s \in DOMAIN m_pending_requests : m_pending_requests[s].state = "NOT_ACKED"
ExpectsTurn == dev_expected = Wire(Turn) \/ (~ Connected /\ Unanswered)

\* A reset that is late or repeated is in front of everything numbered.
ResetsLead ==
    \A i \in DOMAIN toDevice :
        toDevice[i].type = "SEQNUM_RESET" =>
            /\ toDevice[i].id = 1 /\ toDevice[i].seq = Wire(1) /\ executed = <<>>
            /\ \A j \in DOMAIN toDevice : j < i => toDevice[j].type = "SEQNUM_RESET"

Handshake == ConnectComesFirst /\ OnlyTheReset /\ ExpectsTurn /\ ResetsLead

\* Numbers are given out one after the other, stop() takes the last one,
\* and the device has processed the first of them.
Numbers ==
    /\ IF m_send_seq = 1 THEN issued = <<>>
       ELSE \/ Len(issued) = m_send_seq - 2
            \/ /\ Len(issued) = m_send_seq - 1 /\ m_state # "RUNNING"
               /\ \A c \in Clients : pc[c] \notin {"stop_notify", "stop_join", "stop_send"}
    /\ \A c \in Clients : pc[c] \in StopLabels => m_state = "STOPPING"
    /\ \A c, d \in Clients : pc[c] \in StopLabels /\ pc[d] \in StopLabels => c = d
    /\ \A i \in DOMAIN issued : issued[i].seq = i + 1 /\ issued[i].type \in NumberedTypes
    /\ Len(executed) <= Len(issued)
    /\ \A i \in DOMAIN executed : executed[i] = issued[i]

Entries ==
    /\ \A s \in DOMAIN m_pending_requests :
          LET entry == m_pending_requests[s]
          IN  /\ s # 1 => s \in 2 .. Top /\ entry.type = TypeOf(s) /\ entry.type # "COMMAND"
              /\ s = 1 => entry.type = "SEQNUM_RESET"
              /\ entry.type \in ClearTypes => entry.silent
              /\ entry.silent => entry.state = "NOT_ACKED"
              /\ entry.state = "ACKED" => s < Turn
    /\ \A s \in DOMAIN m_pending_commands :
          /\ s \in 2 .. Top /\ TypeOf(s) = "COMMAND"
          /\ m_pending_commands[s].state = "ACKED" => s < Turn

\* A message on its way to the device is one that was sent, and the line is
\* in order up to what may have been sent again.
DownLine ==
    /\ \A i \in DOMAIN toDevice :
          LET m == toDevice[i]
          IN  /\ IsNumbered(m) => /\ m.seq = Wire(m.id) /\ m.id \in 2 .. Top /\ m.type = TypeOf(m.id)
                                  /\ Turn <= m.id + MAX_SEQNUM_GAP + 2
              /\ m.type = "ACK_REQUEST" => m.id \in 2 .. (Turn - 1) /\ m.id \notin DOMAIN m_pending_commands
    /\ \A i, j \in DOMAIN toDevice :
          i < j /\ IsNumbered(toDevice[i]) /\ IsNumbered(toDevice[j]) =>
             toDevice[i].id <= toDevice[j].id + MAX_SEQNUM_GAP + 1

\* An ack on its way back is about a number that has been processed, and
\* the client is not far ahead of it; nothing in front of it is far ahead
\* of it either.
UpLine ==
    /\ \A i \in DOMAIN toClient :
          LET m == toClient[i]
          IN  /\ IsAck(m) => /\ m.seq = Wire(m.id) /\ m.id \in 1 .. (Turn - 1)
                             /\ m_send_seq <= m.id + 3 * MAX_SEQNUM_GAP + 3
              /\ m.type = "REQUEST_COMMAND_FINISHED" =>
                    m.seq = Wire(m.id) /\ m.id \in 2 .. (Turn - 1) /\ m.id \notin Queued
    /\ \A i, j \in DOMAIN toClient :
          i < j /\ IsAnswer(toClient[i]) /\ IsAck(toClient[j]) =>
             toClient[i].id <= toClient[j].id + MAX_SEQNUM_GAP + 1

\* Processed, and no ack on the line is of a much earlier number.
Settled(s) ==
    /\ s < Turn
    /\ \A i \in DOMAIN toClient : IsAck(toClient[i]) => s <= toClient[i].id + MAX_SEQNUM_GAP + 1

\* What is not settled is pending, or a command that a stop or an interrupt
\* has cleared that is pending itself.
Accounted(s) ==
    \/ Settled(s)
    \/ TypeOf(s) # "COMMAND" /\ s \in Unacked(m_pending_requests)
    \/ TypeOf(s) = "COMMAND" /\ s \in Unacked(m_pending_commands)
    \/ /\ TypeOf(s) = "COMMAND"
       /\ \E k \in DOMAIN m_pending_requests : s < k /\ k <= s + MAX_SEQNUM_GAP /\ TypeOf(k) \in ClearTypes

\* The gap check holds the client back twice, for what is pending and for
\* what it has cleared: so the device is never half the range behind.
Window ==
    /\ m_send_seq > 1 => m_send_seq <= Turn + 2 * MAX_SEQNUM_GAP + 1
    /\ m_state = "RUNNING" /\ ~ m_error => \A s \in 2 .. (m_send_seq - 1) : Accounted(s)

\* The queue of the device, oldest command first: a stop empties it, and an
\* interrupt is carried out by the next command.
DeviceQueue ==
    /\ \A i \in DOMAIN dev_queue : dev_queue[i] \in 2 .. (Turn - 1) /\ TypeOf(dev_queue[i]) = "COMMAND"
    /\ \A i, j \in DOMAIN dev_queue : i < j => dev_queue[i] < dev_queue[j]
    /\ dev_finishing \subseteq 2 .. (Turn - 1) /\ dev_finishing \cap Queued = {}
    /\ \A q \in Queued : \A k \in (q + 1) .. (Turn - 1) :
          TypeOf(k) # "REQUEST_STOP" /\ (TypeOf(k) = "REQUEST_NEXT_CMD_INTERRUPT" => dev_interrupt)
    /\ dev_interrupt => \E k \in 2 .. (Turn - 1) : TypeOf(k) = "REQUEST_NEXT_CMD_INTERRUPT" /\ \A q \in Queued : q < k

\* A command the device has not finished is pending, unless the client has
\* sent a stop or an interrupt after it.
Waiting(s) == TypeOf(s) = "COMMAND" /\ (s >= Turn \/ s \in Queued)
WaitingIsPending ==
    \A s \in 2 .. Top : Waiting(s) =>
        s \in DOMAIN m_pending_commands \/ \E k \in (s + 1) .. Top : TypeOf(k) \in ClearTypes

\* What is in front of command t when the device gets to it.
Ahead(t) == {s \in 2 .. (t - 1) : Waiting(s) /\ \A k \in (s + 1) .. (t - 1) : TypeOf(k) \notin ClearTypes}
RoomForEach ==
    \A t \in 2 .. Top : t >= Turn /\ TypeOf(t) = "COMMAND" => Cardinality(Ahead(t)) < MAX_PENDING_REQUESTS

\* A pending command behind which a stop or an interrupt was sent is about
\* to be cleared.
BeingCleared(s) == \E c \in Clients : pc[c] = "clear" /\ seq[c] > s
Clearing ==
    /\ \A c \in Clients : pc[c] = "clear" => seq[c] \in 2 .. (m_send_seq - 1) /\ TypeOf(seq[c]) \in ClearTypes
    /\ m_state = "RUNNING" => \A s \in DOMAIN m_pending_commands :
          /\ s < Turn => s \in Queued \cup dev_finishing \/ BeingCleared(s)
          /\ \A k \in (s + 1) .. Top : TypeOf(k) \in ClearTypes => BeingCleared(s)

LineInv ==
    /\ Handshake /\ Numbers /\ Entries /\ DownLine /\ UpLine /\ Window
    /\ DeviceQueue /\ WaitingIsPending /\ RoomForEach /\ Clearing

\* All of it until the device loses power.
LineHolds == restarts = 0 => LineInv

\* The one thing the line relies on time for: a finish message does not
\* arrive SeqnumModulus numbers late.
FinishesAreTimely ==
    \A i \in DOMAIN toClient :
        toClient[i].type = "REQUEST_COMMAND_FINISHED" => m_send_seq <= toClient[i].id + SeqnumModulus

\* The client has not come around to the wire number 1 again.
FirstRound == m_send_seq <= SeqnumModulus + 1

\* A device that has kept its power and expects the wire number 1 has come
\* around to it; that a message is missing then looks like a reset.
NoFalseAlarm ==
    restarts = 0 /\ FirstRound =>
        /\ ~ m_error
        /\ \A i \in DOMAIN toClient : toClient[i].type = "ERROR_MISSED_REQUEST" => toClient[i].seq # 1

\* MAX_SEQNUM_GAP is (seqnum_t)-1 >> 2.
QuarterOfRange == 4 * (MAX_SEQNUM_GAP + 1) <= SeqnumModulus
=============================================================================
