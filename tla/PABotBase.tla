----------------------------- MODULE PABotBase -----------------------------
(***************************************************************************)
(* The reliable message layer between the program and the microcontroller: *)
(* class PABotBase (ClientSource/Connection/PABotBase.cpp) with its three  *)
(* kinds of threads, the lossy serial line, and the device at the other    *)
(* end as Common/Microcontroller/MessageProtocol.h describes it.           *)
(*                                                                         *)
(* One action is one critical section.  A section under m_state_lock never *)
(* waits.  A section under m_sleep_lock ends in a return or in             *)
(* m_cv.wait(), which releases the lock; whatever a thread changes while   *)
(* another is inside such a section it announces with a notify_all() that  *)
(* needs m_sleep_lock, hence after the wait has begun.  So these sections  *)
(* are atomic here, and every gap between two of them is a program counter.*)
(***************************************************************************)
EXTENDS SeqNum, Sequences

CONSTANTS
    Clients,                \* threads that call the public functions
    Script,                 \* the operations each of them may call
    MAX_PENDING_REQUESTS,   \* the client's limit
    DeviceQueueSize,        \* PABB_DEVICE_QUEUE_SIZE, on the device
    MaxSeqnum,              \* bound: numbers the client uses
    MaxInLine,              \* bound: nothing is repeated when that many messages are in flight
    MaxDrops,               \* bound: messages the line loses
    MaxRestarts             \* bound: times the device loses power

Operations == {
    "connect", "issue_request", "try_issue_request", "issue_request_and_wait",
    "issue_command", "try_issue_command", "wait_for_all_requests",
    "stop_all_commands", "try_stop_all_commands",
    "next_command_interrupt", "try_next_command_interrupt",
    "cancel", "cancel_now", "cancel_lazy", "stop" }

ASSUME PABotBaseAssumption ==
    /\ IsFiniteSet(Clients)
    /\ Script \in [Clients -> SUBSET Operations]
    /\ MAX_PENDING_REQUESTS \in Nat \ {0}
    /\ DeviceQueueSize \in Nat \ {0}
    /\ {MaxSeqnum, MaxInLine, MaxDrops, MaxRestarts} \subseteq Nat

VARIABLES
    m_send_seq,         \* next full number
    m_pending_requests, \* full number -> entry
    m_pending_commands, \* full number -> entry; all of them are silent_remove
    m_state,            \* RUNNING, STOPPING or STOPPED
    m_error,            \* the device has been found to be reset
    cancelled,          \* the BotBaseContext that the clients issue under
    pc, op, seq,        \* per client: where it is, what it called, its number
    retransmit,         \* the retransmit thread
    recv,               \* the receiver thread: "idle", or about to notify
    toDevice, toClient, \* the serial line, in order
    dev_expected,       \* the wire number the device accepts next
    dev_queue,          \* its command queue, the head running
    dev_interrupt,      \* the next command replaces the queue
    dev_finishing,      \* commands whose finish has not been acked
    issued, executed,   \* history: the numbered messages, and what the device processed
    drops, restarts     \* how much of the bounds has been used

pending    == <<m_pending_requests, m_pending_commands>>
clientVars == <<m_send_seq, pending, m_state, m_error, cancelled, retransmit, recv, issued>>
threadVars == <<pc, op, seq>>
deviceVars == <<dev_expected, dev_queue, dev_interrupt, dev_finishing, executed>>
line       == <<toDevice, toClient>>
used       == <<drops, restarts>>
vars       == <<clientVars, threadVars, deviceVars, line, used>>

-----------------------------------------------------------------------------
(* Operations and what each of them sends.                                 *)

TryOps      == {"try_issue_request", "try_issue_command", "try_stop_all_commands", "try_next_command_interrupt"}
CommandOps  == {"issue_command", "try_issue_command"}
StopOps     == {"stop_all_commands", "try_stop_all_commands", "cancel", "cancel_now"}
InterruptOps == {"next_command_interrupt", "try_next_command_interrupt", "cancel_lazy"}
ClearOps    == StopOps \cup InterruptOps
WaitedOps   == {"connect", "issue_request_and_wait"}
ContextOps  == CommandOps \cup {"issue_request", "try_issue_request", "issue_request_and_wait", "wait_for_all_requests"}
SendOps     == Operations \ {"wait_for_all_requests", "stop"}

MessageType(o) ==
    CASE o = "connect"         -> "SEQNUM_RESET"
      [] o \in CommandOps      -> "COMMAND"
      [] o \in StopOps         -> "REQUEST_STOP"
      [] o \in InterruptOps    -> "REQUEST_NEXT_CMD_INTERRUPT"
      [] OTHER                 -> "REQUEST"

InLine == Len(toDevice) + Len(toClient)

Message(type, s) == [type |-> type, seq |-> Wire(s), id |-> s]

-----------------------------------------------------------------------------
(* The two maps.                                                           *)

EmptyMap               == [s \in {} |-> {}]
Emplace(map, s, entry) == [k \in DOMAIN map \cup {s} |-> IF k = s THEN entry ELSE map[k]]
Erase(map, S)          == [k \in DOMAIN map \ S |-> map[k]]

Live == DOMAIN m_pending_requests \cup DOMAIN m_pending_commands

Unacked(map) == {s \in DOMAIN map : map[s].state = "NOT_ACKED"}

inflight_requests == Cardinality(DOMAIN m_pending_requests) + Cardinality(Unacked(m_pending_commands))

\* m_send_seq - oldest_live_seqnum() > MAX_SEQNUM_GAP
TooFarAhead == \E s \in Live : m_send_seq - s > MAX_SEQNUM_GAP

\* Mutant: one command too many.
ThrottledOffByOne(o) ==
    \/ o \in CommandOps /\ Cardinality(DOMAIN m_pending_commands) > MAX_PENDING_REQUESTS
    \/ inflight_requests >= MAX_PENDING_REQUESTS
    \/ TooFarAhead

\* The checks of try_issue_request() and try_issue_command() that make them return 0.
Throttled(o) ==
    \/ o \in CommandOps /\ Cardinality(DOMAIN m_pending_commands) >= MAX_PENDING_REQUESTS
    \/ inflight_requests >= MAX_PENDING_REQUESTS
    \/ TooFarAhead

\* The checks that make them, and the loop around them, throw.
Rejected(c) ==
    \/ op[c] \in ContextOps /\ cancelled
    \/ m_state # "RUNNING"
    \/ m_error

-----------------------------------------------------------------------------
(* Condition variable: the threads in m_cv.wait() are those at "..._wait". *)

notify_all(pcs) ==
    [c \in Clients |-> CASE pcs[c] = "issue_wait" -> "try"
                         [] pcs[c] = "reply_wait" -> "reply"
                         [] pcs[c] = "all_wait"   -> "all"
                         [] OTHER                 -> pcs[c]]

Goto(c, label, pcs) == pc' = [pcs EXCEPT ![c] = label]

Return(c, pcs) ==
    /\ Goto(c, "idle", pcs)
    /\ op' = [op EXCEPT ![c] = "none"]
    /\ seq' = [seq EXCEPT ![c] = 0]

-----------------------------------------------------------------------------
(* Public functions.                                                       *)

Connected == m_send_seq > 1 /\ 1 \notin DOMAIN m_pending_requests

Sending == {c \in Clients : pc[c] \in {"try", "sleep", "issue_wait"}}

\* A client enters a function.  connect() comes first and alone: the handle
\* publishes the object when it has returned.
Call(c, o) ==
    /\ pc[c] = "idle" /\ o \in Script[c]
    /\ m_state # "STOPPED"
    /\ IF o = "connect" THEN m_send_seq = 1 /\ Sending = {} ELSE Connected
    /\ o \in SendOps => m_send_seq + Cardinality(Sending) <= MaxSeqnum
    /\ op' = [op EXCEPT ![c] = o]
    /\ UNCHANGED <<m_send_seq, pending, m_error, retransmit, recv, issued, seq, deviceVars, line, used>>

CallIssue(c) ==
    /\ \E o \in SendOps \ {"cancel", "cancel_now", "cancel_lazy"} : Call(c, o)
    /\ Goto(c, "try", pc)
    /\ UNCHANGED <<m_state, cancelled>>

\* BotBaseContext::cancel(), cancel_now() and cancel_lazy() set the flag of
\* the context and go on to stop the device, cancel() only the first time.
CallCancel(c) ==
    /\ \E o \in {"cancel", "cancel_now", "cancel_lazy"} :
          /\ o = "cancel" => ~ cancelled
          /\ Call(c, o)
    /\ cancelled' = TRUE
    /\ Goto(c, "try", pc)
    /\ UNCHANGED m_state

CallWaitForAll(c) ==
    /\ Call(c, "wait_for_all_requests")
    /\ Goto(c, "all", pc)
    /\ UNCHANGED <<m_state, cancelled>>

\* stop(): only the thread that wins the exchange goes on.
CallStop(c) ==
    /\ Call(c, "stop")
    /\ m_state = "RUNNING"
    /\ m_state' = "STOPPING"
    /\ Goto(c, "stop_notify", pc)
    /\ UNCHANGED cancelled

-----------------------------------------------------------------------------
(* try_issue_request(), try_issue_command() and the loops around them.     *)

TryThrow(c) ==
    /\ pc[c] = "try" /\ Rejected(c)
    /\ Return(c, pc)
    /\ UNCHANGED <<clientVars, deviceVars, line, used>>

TryRefused(c) ==
    /\ pc[c] = "try" /\ ~ Rejected(c) /\ Throttled(op[c])
    /\ IF op[c] \in TryOps
       THEN Return(c, pc)
       ELSE Goto(c, "sleep", pc) /\ UNCHANGED <<op, seq>>
    /\ UNCHANGED <<clientVars, deviceVars, line, used>>

TryIssue(c) ==
    LET s    == m_send_seq
        type == MessageType(op[c])
    IN  /\ pc[c] = "try" /\ ~ Rejected(c) /\ ~ Throttled(op[c])
        /\ IF op[c] \in CommandOps
           THEN /\ m_pending_commands' = Emplace(m_pending_commands, s, [state |-> "NOT_ACKED", type |-> type])
                /\ UNCHANGED m_pending_requests
           ELSE /\ m_pending_requests' = Emplace(m_pending_requests, s,
                        [state |-> "NOT_ACKED", silent |-> op[c] \notin WaitedOps, type |-> type])
                /\ UNCHANGED m_pending_commands
        /\ m_send_seq' = s + 1
        /\ toDevice' = Append(toDevice, Message(type, s))
        /\ issued' = IF type = "SEQNUM_RESET" THEN issued ELSE Append(issued, [seq |-> s, type |-> type])
        /\ CASE op[c] \in ClearOps  -> Goto(c, "clear", pc) /\ seq' = [seq EXCEPT ![c] = s] /\ UNCHANGED op
             [] op[c] \in WaitedOps -> Goto(c, "reply", pc) /\ seq' = [seq EXCEPT ![c] = s] /\ UNCHANGED op
             [] OTHER               -> Return(c, pc)
        /\ UNCHANGED <<m_state, m_error, cancelled, retransmit, recv, deviceVars, toClient, used>>

\* After a refusal the loop takes m_sleep_lock, looks at the flags, and
\* waits.  It does not look again whether there is room.
IssueSleep(c) ==
    /\ pc[c] = "sleep"
    /\ IF Rejected(c)
       THEN Return(c, pc)
       ELSE Goto(c, "issue_wait", pc) /\ UNCHANGED <<op, seq>>
    /\ UNCHANGED <<clientVars, deviceVars, line, used>>

\* Mutants: the later commands go instead of the earlier ones; nobody is notified.
clear_later_commands(c) ==
    /\ pc[c] = "clear"
    /\ m_pending_commands' = Erase(m_pending_commands, {s \in DOMAIN m_pending_commands : s >= seq[c]})
    /\ Return(c, notify_all(pc))
    /\ UNCHANGED <<m_send_seq, m_pending_requests, m_state, m_error, cancelled, retransmit, recv, issued,
                   deviceVars, line, used>>
clear_silently(c) ==
    /\ pc[c] = "clear"
    /\ m_pending_commands' = Erase(m_pending_commands, {s \in DOMAIN m_pending_commands : s <= seq[c]})
    /\ Return(c, pc)
    /\ UNCHANGED <<m_send_seq, m_pending_requests, m_state, m_error, cancelled, retransmit, recv, issued,
                   deviceVars, line, used>>

clear_all_active_commands(c) ==
    /\ pc[c] = "clear"
    /\ m_pending_commands' = Erase(m_pending_commands, {s \in DOMAIN m_pending_commands : s <= seq[c]})
    /\ Return(c, notify_all(pc))
    /\ UNCHANGED <<m_send_seq, m_pending_requests, m_state, m_error, cancelled, retransmit, recv, issued,
                   deviceVars, line, used>>

wait_for_request(c) ==
    /\ pc[c] = "reply"
    /\ IF seq[c] \notin DOMAIN m_pending_requests
       THEN Return(c, pc) /\ UNCHANGED m_pending_requests
       ELSE IF m_state # "RUNNING" \/ m_error \/ m_pending_requests[seq[c]].state = "ACKED"
       THEN /\ m_pending_requests' = Erase(m_pending_requests, {seq[c]})
            /\ Return(c, notify_all(pc))
       ELSE Goto(c, "reply_wait", pc) /\ UNCHANGED <<op, seq, m_pending_requests>>
    /\ UNCHANGED <<m_send_seq, m_pending_commands, m_state, m_error, cancelled, retransmit, recv, issued,
                   deviceVars, line, used>>

wait_for_all_requests(c) ==
    /\ pc[c] = "all"
    /\ IF cancelled \/ m_state # "RUNNING" \/ Live = {}
       THEN Return(c, pc)
       ELSE Goto(c, "all_wait", pc) /\ UNCHANGED <<op, seq>>
    /\ UNCHANGED <<clientVars, deviceVars, line, used>>

\* A wait may end without a notification.
SpuriousWakeup(c) ==
    /\ pc' = [pc EXCEPT ![c] = notify_all(pc)[c]]
    /\ pc' # pc
    /\ UNCHANGED <<clientVars, op, seq, deviceVars, line, used>>

-----------------------------------------------------------------------------
(* stop().                                                                 *)

\* Mutant: nobody is notified.
StopSilently(c) ==
    /\ pc[c] = "stop_notify"
    /\ Goto(c, "stop_join", pc)
    /\ UNCHANGED <<clientVars, op, seq, deviceVars, line, used>>

StopNotify(c) ==
    /\ pc[c] = "stop_notify"
    /\ Goto(c, "stop_join", notify_all(pc))
    /\ UNCHANGED <<clientVars, op, seq, deviceVars, line, used>>

StopJoin(c) ==
    /\ pc[c] = "stop_join" /\ retransmit = "exited"
    /\ Goto(c, "stop_send", pc)
    /\ UNCHANGED <<clientVars, op, seq, deviceVars, line, used>>

\* The last message is sent once and not entered in the maps.
StopSend(c) ==
    /\ pc[c] = "stop_send"
    /\ toDevice' = Append(toDevice, Message("REQUEST_STOP", m_send_seq))
    /\ issued' = Append(issued, [seq |-> m_send_seq, type |-> "REQUEST_STOP"])
    /\ Goto(c, "stop_connection", pc)
    /\ UNCHANGED <<m_send_seq, pending, m_state, m_error, cancelled, retransmit, recv, op, seq,
                   deviceVars, toClient, used>>

\* safely_stop() joins the receiver thread, between two messages.
StopConnection(c) ==
    /\ pc[c] = "stop_connection" /\ recv = "idle"
    /\ m_state' = "STOPPED"
    /\ Return(c, pc)
    /\ UNCHANGED <<m_send_seq, pending, m_error, cancelled, retransmit, recv, issued, deviceVars, line, used>>

-----------------------------------------------------------------------------
(* retransmit_thread().                                                    *)

\* Entries are created in the order of their numbers, so those that have
\* been pending for the retransmit delay are the ones up to some number.
\* Requests go first, then commands, each in order.
InOrder(S) ==
    CHOOSE f \in [1 .. Cardinality(S) -> S] : \A i, j \in DOMAIN f : i < j => f[i] < f[j]

Messages(map, limit) ==
    LET order == InOrder({s \in Unacked(map) : s <= limit})
    IN  [i \in DOMAIN order |-> Message(map[order[i]].type, order[i])]

\* Mutants: one of the two loops is missing; a message gets a new number.
ResentRequestsOnly(limit) == Messages(m_pending_requests, limit)
ResentRenumbered(limit) == [i \in DOMAIN Messages(m_pending_commands, limit) |-> Message("COMMAND", m_send_seq)]

Resent(limit) == Messages(m_pending_requests, limit) \o Messages(m_pending_commands, limit)

Retransmit(limit) ==
    /\ retransmit = "running" /\ m_state = "RUNNING"
    /\ Resent(limit) # <<>>
    /\ InLine + Len(Resent(limit)) <= MaxInLine
    /\ toDevice' = toDevice \o Resent(limit)
    /\ UNCHANGED <<clientVars, threadVars, deviceVars, toClient, used>>

RetransmitExit ==
    /\ retransmit = "running"
    /\ m_state # "RUNNING" \/ m_error
    /\ retransmit' = "exited"
    /\ UNCHANGED <<m_send_seq, pending, m_state, m_error, cancelled, recv, issued, threadVars, deviceVars, line, used>>

-----------------------------------------------------------------------------
(* The receiver thread, until safely_stop() has joined it.                 *)

Receive(types) ==
    /\ recv = "idle" /\ m_state # "STOPPED"
    /\ toClient # <<>> /\ Head(toClient).type \in types
    /\ toClient' = Tail(toClient)

\* Mutant: the oldest entry, whatever the number says.
FoundOldest(map, q) == IF DOMAIN map = {} THEN {} ELSE {Min(DOMAIN map)}

\* find(infer_full_seqnum(map, q)): the set of at most one entry it finds.
Found(map, q) ==
    IF DOMAIN map = {} THEN {} ELSE DOMAIN map \cap {InferFullSeqnum(DOMAIN map, q)}

\* Mutant: the entry always goes, awaited or not.
AckErasing(S) == Erase(m_pending_requests, S)

\* A silent entry goes when it is acked, another keeps its ack for the waiter.
AckEntries(S) ==
    IF \E s \in S : m_pending_requests[s].silent
    THEN Erase(m_pending_requests, S)
    ELSE [s \in DOMAIN m_pending_requests |->
            IF s \in S THEN [m_pending_requests[s] EXCEPT !.state = "ACKED"] ELSE m_pending_requests[s]]

\* The entry changes under m_state_lock, the notification follows under
\* m_sleep_lock.
process_ack_request ==
    /\ Receive({"ACK_REQUEST"})
    /\ LET S == {s \in Found(m_pending_requests, Head(toClient).seq) : m_pending_requests[s].state = "NOT_ACKED"}
       IN  /\ m_pending_requests' = AckEntries(S)
           /\ recv' = IF S # {} THEN "notify" ELSE "idle"
    /\ UNCHANGED <<m_send_seq, m_pending_commands, m_state, m_error, cancelled, retransmit, issued,
                   threadVars, deviceVars, toDevice, used>>

\* An acked command leaves the number in flight, and nobody is notified.
process_ack_command ==
    /\ Receive({"ACK_COMMAND"})
    /\ LET S == Found(m_pending_commands, Head(toClient).seq)
       IN  m_pending_commands' = [s \in DOMAIN m_pending_commands |->
                IF s \in S THEN [m_pending_commands[s] EXCEPT !.state = "ACKED"] ELSE m_pending_commands[s]]
    /\ UNCHANGED <<m_send_seq, m_pending_requests, m_state, m_error, cancelled, retransmit, recv, issued,
                   threadVars, deviceVars, toDevice, used>>

\* Acks the finish whether or not the command is known.  The entry turns
\* FINISHED and, commands being silent_remove, goes in the same section.
process_command_finished ==
    /\ Receive({"REQUEST_COMMAND_FINISHED"})
    /\ LET m == Head(toClient)
           S == Found(m_pending_commands, m.seq)
       IN  /\ toDevice' = Append(toDevice, [type |-> "ACK_REQUEST", seq |-> m.seq, id |-> m.id])
           /\ m_pending_commands' = Erase(m_pending_commands, S)
           /\ pc' = IF S # {} THEN notify_all(pc) ELSE pc
    /\ UNCHANGED <<m_send_seq, m_pending_requests, m_state, m_error, cancelled, retransmit, recv, issued,
                   op, seq, deviceVars, used>>

\* Mutant: any missed request is taken for a reset.
AnyMissedRequest ==
    /\ Receive({"ERROR_MISSED_REQUEST"})
    /\ m_error' = TRUE /\ recv' = "notify"
    /\ UNCHANGED <<m_send_seq, pending, m_state, cancelled, retransmit, issued, threadVars, deviceVars, toDevice, used>>

\* PABB_MSG_ERROR_MISSED_REQUEST is acted on when the device misses number
\* 1, the one it expects after power-up; otherwise it is ignored.
MissedRequest ==
    /\ Receive({"ERROR_MISSED_REQUEST"})
    /\ IF Head(toClient).seq = 1
       THEN m_error' = TRUE /\ recv' = "notify"
       ELSE UNCHANGED <<m_error, recv>>
    /\ UNCHANGED <<m_send_seq, pending, m_state, cancelled, retransmit, issued, threadVars, deviceVars, toDevice, used>>

\* A type that on_recv_message() has no case for.
IgnoreMessage ==
    /\ Receive({"ERROR_COMMAND_DROPPED"})
    /\ UNCHANGED <<clientVars, threadVars, deviceVars, toDevice, used>>

ReceiverNotify ==
    /\ recv = "notify"
    /\ recv' = "idle"
    /\ pc' = notify_all(pc)
    /\ UNCHANGED <<m_send_seq, pending, m_state, m_error, cancelled, retransmit, issued, op, seq, deviceVars, line, used>>

-----------------------------------------------------------------------------
(* The device: MessageProtocol.h, "General Protocol" 5 to 9 and            *)
(* "PABotBase Specifics".  Its firmware is not part of the source tree.    *)
(* By rules 8 and 9 it treats requests as it does commands: each is        *)
(* processed in its turn and not again when it is resent.  Lines 102-103   *)
(* of the same file promise that of commands only.                         *)

DeviceReceive == toDevice # <<>> /\ toDevice' = Tail(toDevice)

Reply(type, m) == toClient' = Append(toClient, [type |-> type, seq |-> m.seq, id |-> m.id])
AckOf(m) == IF m.type = "COMMAND" THEN "ACK_COMMAND" ELSE "ACK_REQUEST"
Distance(q) == (q - dev_expected) % SeqnumModulus
DeviceUnchanged == UNCHANGED <<clientVars, threadVars, used>>

DeviceSeqnumReset ==
    /\ DeviceReceive /\ Head(toDevice).type = "SEQNUM_RESET"
    /\ dev_expected' = Wire(Head(toDevice).seq + 1)
    /\ Reply("ACK_REQUEST", Head(toDevice))
    /\ DeviceUnchanged /\ UNCHANGED <<dev_queue, dev_interrupt, dev_finishing, executed>>

IsNumbered(m) == m.type \notin {"SEQNUM_RESET", "ACK_REQUEST"}

\* The expected message is processed and acked.
DeviceProcess ==
    LET m == Head(toDevice)
    IN  /\ DeviceReceive /\ IsNumbered(m) /\ Distance(m.seq) = 0
        /\ CASE m.type = "COMMAND" ->
                   /\ dev_interrupt \/ Len(dev_queue) < DeviceQueueSize
                   /\ dev_queue' = IF dev_interrupt THEN <<m.id>> ELSE Append(dev_queue, m.id)
                   /\ dev_interrupt' = FALSE
             [] m.type = "REQUEST_STOP" -> dev_queue' = <<>> /\ UNCHANGED dev_interrupt
             [] m.type = "REQUEST_NEXT_CMD_INTERRUPT" -> dev_interrupt' = TRUE /\ UNCHANGED dev_queue
             [] OTHER -> UNCHANGED <<dev_queue, dev_interrupt>>
        /\ dev_expected' = Wire(dev_expected + 1)
        /\ executed' = Append(executed, [seq |-> m.id, type |-> m.type])
        /\ Reply(AckOf(m), m)
        /\ DeviceUnchanged /\ UNCHANGED dev_finishing

\* A command finds the queue full.
DeviceDropCommand ==
    LET m == Head(toDevice)
    IN  /\ DeviceReceive /\ m.type = "COMMAND" /\ Distance(m.seq) = 0
        /\ ~ dev_interrupt /\ Len(dev_queue) >= DeviceQueueSize
        /\ Reply("ERROR_COMMAND_DROPPED", m)
        /\ DeviceUnchanged /\ UNCHANGED deviceVars

\* A number behind the expected one is a retransmit: ack, do not process.
DeviceAckAgain ==
    LET m == Head(toDevice)
    IN  /\ DeviceReceive /\ IsNumbered(m) /\ 2 * Distance(m.seq) >= SeqnumModulus
        /\ Reply(AckOf(m), m)
        /\ DeviceUnchanged /\ UNCHANGED deviceVars

\* A number ahead of it means one was lost: do not process, do not ack.
DeviceMissed ==
    LET m == Head(toDevice)
    IN  /\ DeviceReceive /\ IsNumbered(m)
        /\ Distance(m.seq) # 0 /\ 2 * Distance(m.seq) < SeqnumModulus
        /\ toClient' = Append(toClient, [type |-> "ERROR_MISSED_REQUEST", seq |-> dev_expected, id |-> 0])
        /\ DeviceUnchanged /\ UNCHANGED deviceVars

Finish(s) == [type |-> "REQUEST_COMMAND_FINISHED", seq |-> Wire(s), id |-> s]

DeviceFinishAcked ==
    /\ DeviceReceive /\ Head(toDevice).type = "ACK_REQUEST"
    /\ dev_finishing' = dev_finishing \ {Head(toDevice).id}
    /\ UNCHANGED <<dev_expected, dev_queue, dev_interrupt, executed, toClient>> /\ DeviceUnchanged

DeviceFinish ==
    /\ dev_queue # <<>>
    /\ dev_queue' = Tail(dev_queue)
    /\ dev_finishing' = dev_finishing \cup {Head(dev_queue)}
    /\ toClient' = Append(toClient, Finish(Head(dev_queue)))
    /\ UNCHANGED <<dev_expected, dev_interrupt, executed, toDevice>> /\ DeviceUnchanged

DeviceResendFinish(s) ==
    /\ s \in dev_finishing /\ InLine < MaxInLine
    /\ toClient' = Append(toClient, Finish(s))
    /\ UNCHANGED <<deviceVars, toDevice>> /\ DeviceUnchanged

\* Power loss: the device forgets everything and expects number 1.
DeviceRestart ==
    /\ restarts < MaxRestarts /\ restarts' = restarts + 1
    /\ dev_expected' = Wire(1)
    /\ dev_queue' = <<>> /\ dev_interrupt' = FALSE /\ dev_finishing' = {}
    /\ UNCHANGED <<clientVars, threadVars, executed, line, drops>>

-----------------------------------------------------------------------------
(* The serial line keeps the order and loses messages: a corrupted message *)
(* fails its checksum and is skipped.                                      *)

LoseToDevice ==
    /\ drops < MaxDrops /\ drops' = drops + 1
    /\ toDevice # <<>> /\ toDevice' = Tail(toDevice)
    /\ UNCHANGED <<clientVars, threadVars, deviceVars, toClient, restarts>>

LoseToClient ==
    /\ drops < MaxDrops /\ drops' = drops + 1
    /\ toClient # <<>> /\ toClient' = Tail(toClient)
    /\ UNCHANGED <<clientVars, threadVars, deviceVars, toDevice, restarts>>

-----------------------------------------------------------------------------
Init ==
    /\ m_send_seq = 1
    /\ m_pending_requests = EmptyMap /\ m_pending_commands = EmptyMap
    /\ m_state = "RUNNING" /\ m_error = FALSE /\ cancelled = FALSE
    /\ pc = [c \in Clients |-> "idle"]
    /\ op = [c \in Clients |-> "none"]
    /\ seq = [c \in Clients |-> 0]
    /\ retransmit = "running" /\ recv = "idle"
    /\ toDevice = <<>> /\ toClient = <<>>
    /\ dev_expected \in {Wire(1), Wire(3)}  \* just powered up, or left by an earlier session
    /\ dev_queue = <<>> /\ dev_interrupt = FALSE /\ dev_finishing = {}
    /\ issued = <<>> /\ executed = <<>>
    /\ drops = 0 /\ restarts = 0

\* What a client does once it is inside a function.
ClientStep(c) ==
    \/ TryThrow(c) \/ TryRefused(c) \/ TryIssue(c) \/ IssueSleep(c)
    \/ clear_all_active_commands(c) \/ wait_for_request(c) \/ wait_for_all_requests(c)
    \/ StopNotify(c) \/ StopJoin(c) \/ StopSend(c) \/ StopConnection(c)

ClientCall(c) == CallIssue(c) \/ CallCancel(c) \/ CallWaitForAll(c) \/ CallStop(c)

ReceiverStep ==
    \/ process_ack_request \/ process_ack_command \/ process_command_finished
    \/ MissedRequest \/ IgnoreMessage \/ ReceiverNotify

DeviceInput ==
    \/ DeviceSeqnumReset \/ DeviceProcess \/ DeviceDropCommand \/ DeviceAckAgain
    \/ DeviceMissed \/ DeviceFinishAcked

DeviceStep == DeviceInput \/ DeviceFinish \/ \E s \in dev_finishing : DeviceResendFinish(s)

Environment == LoseToDevice \/ LoseToClient \/ DeviceRestart

Next ==
    \/ \E c \in Clients : ClientCall(c) \/ ClientStep(c) \/ SpuriousWakeup(c)
    \/ \E limit \in Live : Retransmit(limit)
    \/ RetransmitExit
    \/ ReceiverStep
    \/ DeviceStep
    \/ Environment

Spec == Init /\ [][Next]_vars

\* Every thread keeps running, and so does the device.  Nothing obliges a
\* client to call, the line to lose, or a wait to end by itself.
Fairness ==
    /\ \A c \in Clients : WF_vars(ClientStep(c))
    /\ WF_vars(Retransmit(m_send_seq)) /\ WF_vars(RetransmitExit)
    /\ WF_vars(ReceiverStep)
    /\ WF_vars(DeviceInput) /\ WF_vars(DeviceFinish)
    /\ \A s \in 1 .. MaxSeqnum : WF_vars(DeviceResendFinish(s))

FairSpec == Spec /\ Fairness

-----------------------------------------------------------------------------
(* Properties.                                                             *)

MessageTypes == {"SEQNUM_RESET", "REQUEST", "COMMAND", "REQUEST_STOP", "REQUEST_NEXT_CMD_INTERRUPT", "ACK_REQUEST"}
ReplyTypes   == {"ACK_REQUEST", "ACK_COMMAND", "REQUEST_COMMAND_FINISHED", "ERROR_MISSED_REQUEST", "ERROR_COMMAND_DROPPED"}
Labels       == {"idle", "try", "sleep", "issue_wait", "clear", "reply", "reply_wait", "all", "all_wait",
                 "stop_notify", "stop_join", "stop_send", "stop_connection"}
RequestEntry == [state : {"NOT_ACKED", "ACKED"}, silent : BOOLEAN, type : MessageTypes]
CommandEntry == [state : {"NOT_ACKED", "ACKED"}, type : {"COMMAND"}]
WireMessage(types) == [type : types, seq : 0 .. (SeqnumModulus - 1), id : Nat]
Record       == [seq : Nat, type : MessageTypes]

\* Type invariant: the maps are keyed by numbers already given out.
TypeOK ==
    /\ m_send_seq \in Nat \ {0}
    /\ DOMAIN m_pending_requests \subseteq 1 .. (m_send_seq - 1)
    /\ m_pending_requests \in [DOMAIN m_pending_requests -> RequestEntry]
    /\ DOMAIN m_pending_commands \subseteq 1 .. (m_send_seq - 1)
    /\ m_pending_commands \in [DOMAIN m_pending_commands -> CommandEntry]
    /\ m_state \in {"RUNNING", "STOPPING", "STOPPED"}
    /\ m_error \in BOOLEAN /\ cancelled \in BOOLEAN
    /\ pc \in [Clients -> Labels]
    /\ op \in [Clients -> Operations \cup {"none"}]
    /\ seq \in [Clients -> Nat]
    /\ retransmit \in {"running", "exited"} /\ recv \in {"idle", "notify"}
    /\ toDevice \in Seq(WireMessage(MessageTypes)) /\ toClient \in Seq(WireMessage(ReplyTypes))
    /\ dev_expected \in 0 .. (SeqnumModulus - 1)
    /\ dev_queue \in Seq(Nat) /\ dev_interrupt \in BOOLEAN /\ dev_finishing \subseteq Nat
    /\ issued \in Seq(Record) /\ executed \in Seq(Record)
    /\ drops \in Nat /\ restarts \in Nat

\* The client never has more than MAX_PENDING_REQUESTS commands unfinished,
\* nor more than that many requests and commands in flight, whatever mix of
\* threads issues, cancels, stops and waits.
PendingBound ==
    /\ Cardinality(DOMAIN m_pending_commands) <= MAX_PENDING_REQUESTS
    /\ inflight_requests <= MAX_PENDING_REQUESTS

\* infer_full_seqnum() finds every live entry from its wire number: the
\* window that the gap check leaves open is never ambiguous.
LiveIsFound ==
    /\ \A s \in DOMAIN m_pending_requests : Found(m_pending_requests, Wire(s)) = {s}
    /\ \A s \in DOMAIN m_pending_commands : Found(m_pending_commands, Wire(s)) = {s}

\* An answer on its way to the client is credited to the entry it answers
\* or to none, also when it is late, repeated, or about a number whose wire
\* form has been used again.  The line being in order is enough for acks.  A
\* finish is repeated on the device's own clock, so for it the code relies
\* on the device not being SeqnumModulus numbers behind.
CreditedToItsEntry ==
    \A i \in DOMAIN toClient :
        LET m == toClient[i]
        IN  /\ m.type = "ACK_REQUEST" => Found(m_pending_requests, m.seq) \subseteq {m.id}
            /\ m.type = "ACK_COMMAND" => Found(m_pending_commands, m.seq) \subseteq {m.id}
            /\ m.type = "REQUEST_COMMAND_FINISHED" /\ m_send_seq <= m.id + SeqnumModulus =>
                  Found(m_pending_commands, m.seq) \subseteq {m.id}

\* A request that is not silent belongs to exactly one thread inside
\* wait_for_request(), from its issue until that thread erases it: no entry
\* is left behind and no waiter finds its entry gone.
OneWaiterPerReply ==
    LET waiters == {c \in Clients : pc[c] \in {"reply", "reply_wait"}}
    IN  /\ {s \in DOMAIN m_pending_requests : ~ m_pending_requests[s].silent} = {seq[c] : c \in waiters}
        /\ \A c, d \in waiters : seq[c] = seq[d] => c = d

Executed(s) == \E i \in DOMAIN executed : executed[i].seq = s

\* What the client holds for acked has been processed by the device, so
\* issue_request_and_wait() never returns the answer to another request.
AckedIsExecuted ==
    /\ \A s \in DOMAIN m_pending_requests :
          m_pending_requests[s].state = "ACKED" => m_pending_requests[s].type = "SEQNUM_RESET" \/ Executed(s)
    /\ \A s \in DOMAIN m_pending_commands : m_pending_commands[s].state = "ACKED" => Executed(s)

\* A command that the client still counts as running is known to the
\* device, unless a stop or an interrupt is being carried out or the device
\* has lost power: wait_for_all_requests() never waits for a forgotten command.
AckedIsKnownToDevice ==
    \A s \in DOMAIN m_pending_commands :
        m_pending_commands[s].state = "ACKED" =>
            \/ s \in Range(dev_queue) \cup dev_finishing
            \/ \E c \in Clients : pc[c] = "clear" /\ seq[c] > s
            \/ m_state # "RUNNING" \/ restarts > 0

\* The connection is declared broken only when the device has lost power:
\* a lost or repeated message never looks like a reset.
ErrorMeansRestart == m_error => restarts > 0

\* The client's limit keeps the queue of a device of that size from
\* overflowing, also while stops and interrupts empty both sides at
\* different times: no command reaches a full queue.
QueueNeverOverflows ==
    toDevice # <<>> /\ Head(toDevice).type = "COMMAND" /\ Distance(Head(toDevice).seq) = 0
        => dev_interrupt \/ Len(dev_queue) < DeviceQueueSize

\* MessageProtocol.h:101-103: "all commands are processed in order exactly
\* once.  Requests are not guaranteed to process in order and may execute
\* more than once".  The device's log follows the client's in that sense.
Stream == INSTANCE MessageStream WITH sent <- issued, done <- executed
ProcessedInOrderOnce == Stream!Spec

\* As long as nobody stops or interrupts, each message, command or request,
\* is also processed at least once.
ProcessedEventually == Stream!FairSpec

\* A thread that waits for a reply gets it, or an exception, and one in
\* wait_for_all_requests() gets out once nothing more is issued, in spite of
\* lost messages.
WaitsEnd == \A c \in Clients : pc[c] \in {"reply", "reply_wait", "all", "all_wait"} ~> pc[c] = "idle"

\* stop() ends, and every thread that was inside a function gets out.
StopReleasesEveryone == m_state = "STOPPING" ~> m_state = "STOPPED" /\ \A c \in Clients : pc[c] = "idle"

\* Cancelling the context gets the threads that wait under it out.  Not when
\* the device has been found to be reset: cancel() then throws before it
\* notifies, and wait_for_all_requests() does not look at m_error.
CancelReleasesWaiters ==
    \A c \in Clients : cancelled /\ pc[c] = "all_wait" ~> pc[c] = "idle" \/ m_error

\* PABotBase.cpp:660-661: a thread in issue_request() or issue_command()
\* waits only until its message can be issued.
IssueReturns == \A c \in Clients : pc[c] = "issue_wait" ~> pc[c] \in {"idle", "clear", "reply"}

\* MessageProtocol.h, failure analysis: a dropped request is sent again
\* until it is acked.
RequestIsAcked == \A s \in 1 .. MaxSeqnum : s \in Unacked(m_pending_requests) ~> s \notin Unacked(m_pending_requests)
=============================================================================
