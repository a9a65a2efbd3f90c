------------------------------- MODULE Socket -------------------------------
(***************************************************************************)
(* Class Socket of ntdcp/src/transport.cpp, as a record of its members and *)
(* one operator per member function: the operator maps the members before  *)
(* the call to the members after it.  Clocks are read only to compare an   *)
(* elapsed time with an option (timeout, retransmission time, force-ack    *)
(* delay), so each comparison is an input of the operator that makes it:   *)
(* the operators cover every Options value and every serving schedule.     *)
(***************************************************************************)
EXTENDS Naturals, Sequences

CONSTANTS
    IdMod,      \* message ids and counters are uint16_t: 2^16 in the code
    QueueMax    \* capacity of m_incoming: 10 in the code

ASSUME SocketAssumption == IdMod \in Nat \ {0, 1} /\ QueueMax \in Nat \ {0}

Id == 0 .. IdMod - 1

\* The result of uint16_t arithmetic.
Wrap(n) == n % IdMod

State == {"not_connected", "waiting_for_submit", "connected",
          "connection_timeout", "closed"}

MessageType == {"connection_request", "connection_submit", "data_transfer",
                "connection_close", "connection_close_submit"}

\* m_send_task without a value.  A buffer is a sequence of at most one
\* payload: <<>> is the null or empty Buffer.
NoSendTask == [has |-> FALSE, type |-> "data_transfer", id |-> 0, ack |-> 0,
               dport |-> 0, buf |-> <<>>]

\* m_ack_task without a value.  pick_outgoing reads its storage all the same,
\* so the storage is part of the state: "sent" is was_sent_at_least_once.
NoAckTask(id, sent) == [has |-> FALSE, id |-> id, sent |-> sent]

NewSocket(remote, lport, rport, storage) ==
    [remote_address |-> remote, local_port |-> lport, remote_port |-> rport,
     state |-> "not_connected", send_task |-> NoSendTask, ack_task |-> storage,
     incoming |-> <<>>, last_received |-> 0, last_outgoing |-> 0,
     unconfirmed |-> 0, missed |-> 0]

-----------------------------------------------------------------------------
(* Private helpers *)

\* Mutant: the acknowledgement counts as sent when its predecessor was.
PrepareAckForgets(s, id) ==
    [s EXCEPT !.ack_task = [has |-> TRUE, id |-> id, sent |-> s.ack_task.sent]]

PrepareAck(s, id) ==
    [s EXCEPT !.ack_task = [has |-> TRUE, id |-> id, sent |-> FALSE]]

\* Mutant: the id is not kept, so the next message takes it again.
CreateSendTaskReusesId(s, ack, type, buf, random) ==
    [s EXCEPT
       !.send_task = [has |-> TRUE, type |-> type, ack |-> ack, dport |-> s.remote_port,
                      id |-> IF type = "connection_request" THEN random
                                                            ELSE Wrap(s.last_outgoing + 1),
                      buf |-> buf],
       !.unconfirmed = Wrap(@ + 1)]

\* Replaces whatever task was pending.  Only a connection request takes the
\* random id; every other message takes ++m_last_outgoing_message_id.
CreateSendTask(s, ack, type, buf, random) ==
    LET id == IF type = "connection_request" THEN random
                                             ELSE Wrap(s.last_outgoing + 1)
    IN  [s EXCEPT
           !.send_task = [has |-> TRUE, type |-> type, id |-> id, ack |-> ack,
                          dport |-> s.remote_port, buf |-> buf],
           !.last_outgoing = IF type = "connection_request" THEN @ ELSE id,
           !.unconfirmed = IF type = "connection_close_submit"
                           THEN @ ELSE Wrap(@ + 1)]

-----------------------------------------------------------------------------
(* Calls of the application and of the acceptor *)

Connect(s, random) ==
    [CreateSendTask([s EXCEPT !.last_outgoing = 0], 0, "connection_request",
                    <<>>, random)
       EXCEPT !.state = "waiting_for_submit"]

Busy(s) == s.send_task.has

MaySend(s) == s.state = "connected" /\ ~ Busy(s)

Send(s, buf) == CreateSendTask(s, 0, "data_transfer", buf, 0)

MayClose(s) == s.state \in {"connected", "closed"}

\* Mutant: a pending task is not replaced.
CloseWaits(s) ==
    IF Busy(s) THEN [s EXCEPT !.state = "closed"]
    ELSE [CreateSendTask(s, 0, "connection_close", <<>>, 0) EXCEPT !.state = "closed"]

Close(s) ==
    [CreateSendTask(s, 0, "connection_close", <<>>, 0) EXCEPT !.state = "closed"]

SendConnectionSubmit(s, id) ==
    [CreateSendTask([PrepareAck(s, id) EXCEPT !.last_outgoing = 0],
                    0, "connection_submit", <<>>, 0)
       EXCEPT !.state = "connected"]

-----------------------------------------------------------------------------
(* receive(): h is the decoded TransportDescription with its data *)

\* Mutants: any acknowledgement of the id an empty task would have; any
\* acknowledgement of a later message.
AckMatchesEmpty(s, h) == s.state # "connection_timeout" /\ h.ack = s.send_task.id
AckMatchesLater(s, h) ==
    s.state # "connection_timeout" /\ s.send_task.has /\ h.ack >= s.send_task.id

AckMatches(s, h) ==
    s.state # "connection_timeout" /\ s.send_task.has /\ h.ack = s.send_task.id

Acknowledge(s, h) ==
    IF AckMatches(s, h)
    THEN [s EXCEPT !.send_task = NoSendTask,
                   !.unconfirmed = Wrap(@ + IdMod - 1)]
    ELSE s

\* A closed socket that gets a close submit forgets both tasks; for anything
\* else it answers with a close submit of its own.  That one gets the id of the task
\* replaced, which the code reads without asking whether there is a task; the branch
\* is never taken, as the dispatcher gives a closed socket close submits only.
ReceiveWhenClosed(s, h) ==
    IF h.type = "connection_close_submit"
    THEN [s EXCEPT !.send_task = NoSendTask, !.ack_task.has = FALSE,
                   !.unconfirmed = Wrap(@ + IdMod - 1)]
    ELSE CreateSendTask(s, s.send_task.id, "connection_close_submit", <<>>, 0)

\* Mutant: the wrong id of the header is kept.
ReceiveSubmitSwapped(s, h) ==
    IF s.state = "waiting_for_submit"
    THEN [PrepareAck(s, h.id) EXCEPT !.remote_port = h.sport, !.state = "connected",
                                     !.send_task = NoSendTask, !.last_received = h.ack]
    ELSE s

ReceiveSubmit(s, h) ==
    IF s.state = "waiting_for_submit"
    THEN [PrepareAck(s, h.id) EXCEPT !.remote_port = h.sport,
                                     !.state = "connected",
                                     !.send_task = NoSendTask,
                                     !.last_received = h.id]
    ELSE s

\* Mutant: the state is not changed.
ReceiveCloseStaysOpen(s, h) ==
    [CreateSendTask(s, 0, "connection_close_submit", <<>>, 0)
       EXCEPT !.last_received = h.id]

ReceiveClose(s, h) ==
    [CreateSendTask([s EXCEPT !.state = "closed"], 0,
                    "connection_close_submit", <<>>, 0)
       EXCEPT !.last_received = h.id]

\* Mutant: the count of missed messages is one too high.
ReceiveDataMiscounts(s, h) ==
    LET pushed == IF h.buf = <<>> THEN s
                  ELSE [PrepareAck(s, h.id) EXCEPT
                          !.incoming = IF Len(@) < QueueMax THEN @ \o h.buf ELSE @]
    IN  [pushed EXCEPT !.missed = Wrap(@ + h.id - s.last_received),
                       !.last_received = h.id]

\* The result of m_incoming.push() is not looked at: a full queue drops data
\* that has just been scheduled for acknowledgement.
ReceiveData(s, h) ==
    LET pushed == IF h.buf = <<>> THEN s
                  ELSE [PrepareAck(s, h.id) EXCEPT
                          !.incoming = IF Len(@) < QueueMax THEN @ \o h.buf
                                                            ELSE @]
    IN  [pushed EXCEPT !.missed = Wrap(@ + h.id - (s.last_received + 1)),
                       !.last_received = h.id]

ReceiveNew(s, h) ==
    CASE s.state = "closed" -> ReceiveWhenClosed(s, h)
      [] s.state # "closed" /\ h.type = "connection_submit" -> ReceiveSubmit(s, h)
      [] s.state # "closed" /\ h.type = "connection_close" -> ReceiveClose(s, h)
      [] OTHER -> ReceiveData(s, h)

\* Mutants of the comparison.
IsDuplicateIfOlder(s, h) == h.id < s.last_received
IsDuplicateIfSame(s, h) == h.id = s.last_received

IsDuplicate(s, h) == h.id <= s.last_received

Receive(s, h) ==
    LET a == Acknowledge(s, h)
    IN  CASE s.state = "connection_timeout" -> s
          [] s.state # "connection_timeout" /\ IsDuplicate(s, h) ->
                 PrepareAck(a, h.id)
          [] OTHER -> ReceiveNew(a, h)

-----------------------------------------------------------------------------
(* pick_outgoing() *)

DropIfTimeout(s, expired) ==
    IF s.send_task.has /\ expired
    THEN [s EXCEPT !.send_task = NoSendTask,
                   !.state = IF s.send_task.type = "connection_request"
                             THEN "connection_timeout" ELSE @]
    ELSE s

\* The description is updated in place before it is returned.  sent_count and
\* last_pick only tell when the next transmission is due.
Transmitted(s) ==
    [s EXCEPT !.send_task.ack = IF s.ack_task.has THEN s.ack_task.id ELSE @,
              !.ack_task.sent = s.ack_task.has \/ @]

TaskHeader(s) ==
    [type |-> s.send_task.type, id |-> s.send_task.id, ack |-> s.send_task.ack,
     sport |-> s.local_port, dport |-> s.send_task.dport, buf |-> s.send_task.buf]

\* Whether m_ack_task has a value is not checked here.
ForceAckWaiting(s) == ~ s.send_task.has /\ ~ s.ack_task.sent

ForceAckHeader(s) ==
    [type |-> "data_transfer", id |-> 0, ack |-> s.ack_task.id,
     sport |-> s.local_port, dport |-> s.remote_port, buf |-> <<>>]
=============================================================================
