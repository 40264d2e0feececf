------------------------------ MODULE MsgQueue ------------------------------
(***************************************************************************)
(* One message queue: rt_mq_send_wait, rt_mq_urgent, rt_mq_recv,           *)
(* rt_mq_control and rt_mq_detach of os/ipc.c.  Messages are slots linked  *)
(* in a queue or in a free list.  A sender takes a slot in one section,    *)
(* copies the message with interrupts enabled, and links the slot in a     *)
(* second section; a receiver does the same the other way round.           *)
(***************************************************************************)
EXTENDS ChannelCalls

CONSTANT Null  \* RT_NULL

ASSUME MsgQueueAssumption ==
    /\ {"mq_receivers", "mq_senders"} \subseteq WaitList
    /\ Null \notin 1 .. size

VARIABLES
    mq,      \* the fields of the queue and of its slots
    slot,    \* the slot a thread has taken off a list and not linked again
    mq_last  \* history: the last message taken out of the queue

msgqueue == <<mq, slot, mq_last>>

Slot == 1 .. size

\* "fill", "ufill"  a sender has a slot and is about to copy the message into it
\* "link", "ulink"  the message is copied, the slot not yet linked
\* "copy"           a receiver has a slot and is about to copy the message out
\* "free"           the message is copied, the slot not yet freed
MqPoint == CallPoint \union {"fill", "ufill", "link", "ulink", "copy", "free"}

MqTypeOK ==
    /\ CallsTypeOK /\ HandsTypeOK
    /\ pc \in [Thread -> MqPoint]
    /\ mq \in [ next : [Slot -> Slot \union {Null}],
                data : [Slot -> Mail \union {NoMail}],
                head : Slot \union {Null}, tail : Slot \union {Null},
                free : Slot \union {Null}, entry : 0 .. size ]
    /\ slot \in [Thread -> Slot \union {Null}]
    /\ mq_last \in Mail \union {NoMail}

\* rt_mq_init frees the slots one after the other.
MqInit ==
    /\ mq = [ next |-> [s \in Slot |-> IF s = 1 THEN Null ELSE s - 1],
              data |-> [s \in Slot |-> NoMail],
              head |-> Null, tail |-> Null, free |-> size, entry |-> 0 ]
    /\ slot = [t \in Thread |-> Null]
    /\ mq_last = NoMail

-----------------------------------------------------------------------------
(* The lists, as functions from one queue to the next *)

TakeFree(q) == [q EXCEPT !.free = q.next[q.free]]

\* Between the two sections of rt_mq_send_wait.
FillTail(q, s, v) ==
    [q EXCEPT !.next = [@ EXCEPT ![s] = Null], !.data = [@ EXCEPT ![s] = v]]

Fill(q, s, v) == [q EXCEPT !.data = [@ EXCEPT ![s] = v]]

\* The message becomes the last one.  (entry cannot reach RT_MQ_ENTRY_MAX: it
\* is at most the number of slots.)
LinkTail(q, s) ==
    [q EXCEPT !.next = IF q.tail # Null THEN [@ EXCEPT ![q.tail] = s] ELSE @,
              !.tail = s,
              !.head = IF @ = Null THEN s ELSE @,
              !.entry = @ + 1]

\* The message becomes the first one.
LinkHead(q, s) ==
    [q EXCEPT !.next = [@ EXCEPT ![s] = q.head],
              !.head = s,
              !.tail = IF @ = Null THEN s ELSE @,
              !.entry = @ + 1]

\* Mutant: the message is freed before it is copied out.
TakeHead_frees(q) ==
    [q EXCEPT !.head = q.next[q.head],
              !.tail = IF @ = q.head THEN Null ELSE @,
              !.entry = @ - 1,
              !.next = [@ EXCEPT ![q.head] = q.free], !.free = q.head]

UnlinkHead(q) ==
    [q EXCEPT !.head = q.next[q.head], !.tail = IF @ = q.head THEN Null ELSE @]

\* The first section of rt_mq_recv once there is a message.
TakeHead(q) == [UnlinkHead(q) EXCEPT !.entry = @ - 1]

\* (What a free slot still holds is not told apart.)
FreeSlot(q, s) ==
    [q EXCEPT !.next = [@ EXCEPT ![s] = q.free], !.free = s,
              !.data = [@ EXCEPT ![s] = NoMail]]

\* The body of the loop of RT_IPC_CMD_RESET, as long as there is a message.
FreeHead(q) == IF q.head = Null THEN q ELSE FreeSlot(UnlinkHead(q), q.head)

\* Mutant: only the first message is freed.
FreeAll_first(q) == [FreeHead(q) EXCEPT !.entry = IF @ = 0 THEN 0 ELSE @ - 1]

\* That loop: the queue after n rounds.
FreeAll(q) ==
    LET loop[n \in 0 .. size] == IF n = 0 THEN q ELSE FreeHead(loop[n - 1])
    IN  [loop[size] EXCEPT !.entry = 0]

-----------------------------------------------------------------------------
(* rt_mq_send_wait *)

\* The loop test of rt_mq_send_wait and what follows it, in one section.
SendTry(t, v, d) ==
    /\ \/ /\ mq.free # Null
          /\ mq' = TakeFree(mq)
          /\ slot' = [slot EXCEPT ![t] = mq.free]
          /\ Leave(t, "fill")
          /\ Hold(t, v, "none")
          /\ UNCHANGED k
       \/ mq.free = Null /\ d = "none" /\ GiveUp(t, "EOK") /\ UNCHANGED <<mq, slot>>
       \/ /\ mq.free = Null /\ d # "none"
          /\ WaitToSend(t, "mq_senders", flag, v, d)
          /\ UNCHANGED <<mq, slot>>
    /\ UNCHANGED <<mq_last, object>>

\* The early return of a call that may not wait changes nothing.
rt_mq_send_wait(t, v, d) ==
    /\ Enters(t) /\ t \in Sender
    /\ mq.free = Null => d # "none"
    /\ SendTry(t, v, d)

MqSendRetry(t) ==
    \/ WokenInVain(t, "mq_senders") /\ UNCHANGED <<msgqueue, object>>
    \/ /\ WokenToRetry(t, "mq_senders")
       /\ \E d \in Left(timeout[t]) : SendTry(t, value[t], d)

SendFill(t) ==
    /\ \/ At(t, "fill") /\ mq' = FillTail(mq, slot[t], value[t]) /\ Goto(t, "link")
       \/ At(t, "ufill") /\ mq' = Fill(mq, slot[t], value[t]) /\ Goto(t, "ulink")
    /\ UNCHANGED <<k, object, hands, slot, mq_last>>

SendLink(t) ==
    /\ \/ At(t, "link") /\ mq' = LinkTail(mq, slot[t])
       \/ At(t, "ulink") /\ mq' = LinkHead(mq, slot[t])
    /\ slot' = [slot EXCEPT ![t] = Null]
    /\ Wake(t, "mq_receivers")
    /\ EmptyHands(t)
    /\ UNCHANGED <<object, mq_last>>

\* -RT_EFULL changes nothing.
rt_mq_urgent(t, v) ==
    /\ Enters(t) /\ t \in Sender /\ mq.free # Null
    /\ mq' = TakeFree(mq)
    /\ slot' = [slot EXCEPT ![t] = mq.free]
    /\ Goto(t, "ufill")
    /\ Hold(t, v, "none")
    /\ UNCHANGED <<k, object, mq_last>>

\* rt_mq_send and rt_mq_urgent from an interrupt handler, from end to end.
IsrMqSend(v) ==
    /\ life = "yes" /\ mq.free # Null
    /\ \/ mq' = LinkTail(FillTail(TakeFree(mq), mq.free, v), mq.free)
       \/ mq' = LinkHead(Fill(TakeFree(mq), mq.free, v), mq.free)
    /\ IsrWake("mq_receivers")
    /\ UNCHANGED <<pc, list, object, hands, slot, mq_last>>

-----------------------------------------------------------------------------
(* rt_mq_recv *)

\* The loop test of rt_mq_recv and what follows it, in one section.
RecvTry(t, d) ==
    /\ \/ /\ mq.entry > 0
          /\ mq' = TakeHead(mq)
          /\ slot' = [slot EXCEPT ![t] = mq.head]
          /\ mq_last' = mq.data[mq.head]
          /\ Leave(t, "copy")
          /\ Hold(t, mq.data[mq.head], "none")
          /\ UNCHANGED k
       \/ mq.entry = 0 /\ d = "none" /\ GiveUp(t, "ETIMEOUT") /\ UNCHANGED msgqueue
       \/ /\ mq.entry = 0 /\ d # "none"
          /\ WaitToRecv(t, "mq_receivers", flag, d)
          /\ UNCHANGED msgqueue
    /\ UNCHANGED object

rt_mq_recv(t, d) ==
    /\ Enters(t) /\ t \in Receiver
    /\ mq.entry = 0 => d # "none"
    /\ RecvTry(t, d)

MqRecvRetry(t) ==
    \/ WokenInVain(t, "mq_receivers") /\ UNCHANGED <<msgqueue, object>>
    \/ /\ WokenToRetry(t, "mq_receivers")
       /\ \E d \in Left(timeout[t]) : RecvTry(t, d)

\* The message is copied out of the slot.
RecvCopy(t) ==
    /\ At(t, "copy")
    /\ Goto(t, "free")
    /\ EmptyHands(t)
    /\ UNCHANGED <<k, object, msgqueue>>

\* Mutant: no sender is told of the free slot.
RecvFree_no_wake(t) ==
    /\ At(t, "free")
    /\ mq' = FreeSlot(mq, slot[t])
    /\ slot' = [slot EXCEPT ![t] = Null]
    /\ Leave(t, "run")
    /\ UNCHANGED <<k, object, hands, mq_last>>

RecvFree(t) ==
    /\ At(t, "free")
    /\ mq' = FreeSlot(mq, slot[t])
    /\ slot' = [slot EXCEPT ![t] = Null]
    /\ Wake(t, "mq_senders")
    /\ UNCHANGED <<object, hands, mq_last>>

-----------------------------------------------------------------------------
rt_mq_control(t) ==
    /\ Enters(t) /\ t \in Resetter
    /\ k' = ResetWaiters("mq_receivers", "mq_senders")
    /\ mq' = FreeAll(mq)
    /\ Goto(t, "schedule")
    /\ UNCHANGED <<object, hands, slot, mq_last>>

rt_mq_detach(t) ==
    DetachChannel(t, "mq_receivers", "mq_senders") /\ UNCHANGED <<hands, msgqueue>>

MqNext ==
    \/ \E t \in Thread :
           \/ CallSteps(t) /\ UNCHANGED <<hands, msgqueue>>
           \/ MqSendRetry(t) \/ SendFill(t) \/ SendLink(t)
           \/ MqRecvRetry(t) \/ RecvCopy(t) \/ RecvFree(t)
           \/ rt_mq_control(t) \/ rt_mq_detach(t)
           \/ \E d \in Time : rt_mq_recv(t, d) \/ \E v \in Mail : rt_mq_send_wait(t, v, d)
           \/ \E v \in Mail : rt_mq_urgent(t, v)
    \/ \E v \in Mail : IsrMqSend(v)
    \/ Background /\ UNCHANGED <<hands, msgqueue>>

MqSpec == CallsInit /\ HandsInit /\ MqInit /\ [][MqNext]_<<calls, hands, msgqueue>>

-----------------------------------------------------------------------------
(* Properties *)

\* The slots reached from s, in order: the n-th link from s leads to reach[n].
Chain(q, s) ==
    LET reach[n \in 0 .. size] ==
            IF n = 0 THEN s
            ELSE IF reach[n - 1] = Null THEN Null ELSE q.next[reach[n - 1]]
        len == Min({n \in 0 .. size : reach[n] = Null} \union {size + 1})
    IN  [i \in 1 .. len |-> reach[i - 1]]

Queued == Chain(mq, mq.head)
FreeSlots == Chain(mq, mq.free)
InHand == {slot[t] : t \in Thread} \ {Null}

\* Every slot is linked in the queue, linked in the free list, or in the hands of
\* one thread, whatever sections of sends, receives and resets interleave; entry
\* is the length of the queue and msg_queue_tail its last slot.
SlotsPartitioned ==
    /\ IsInjective(Queued) /\ IsInjective(FreeSlots)
    /\ Len(Queued) = mq.entry
    /\ Len(Queued) + Len(FreeSlots) + Cardinality(InHand) = size
    /\ ToSet(Queued) \union ToSet(FreeSlots) \union InHand = Slot
    /\ mq.tail = IF Queued = <<>> THEN Null ELSE Queued[Len(Queued)]
    /\ \A t, u \in Thread : slot[t] = slot[u] /\ slot[t] # Null => t = u

\* The copies made with interrupts enabled are safe: what a sender links is what
\* it copied in, and what a receiver copies out is what it took.
MessageIntact ==
    \A t \in Thread : pc[t] \in {"link", "ulink", "copy"} => mq.data[slot[t]] = value[t]

\* No slot of a message queue is lost or shared and no message damaged, although
\* rt_mq_send_wait, rt_mq_urgent and rt_mq_recv copy between their sections.
MessagesSafe == SlotsPartitioned /\ MessageIntact

Messages == LET q == Queued IN [i \in DOMAIN q |-> mq.data[q[i]]]

MqChannel == INSTANCE Channel WITH box <- Messages, last <- mq_last, HasUrgent <- TRUE

\* The linked slots are a bounded channel with urgent messages: a send takes
\* effect when the slot is linked, a receive when it is taken off the queue.
MsgQueueIsChannel == MqChannel!Spec

\* While receivers wait, every message has a woken receiver on its way, and while
\* senders wait, every free slot has a woken sender.
MessageIsClaimed ==
    /\ k.wait["mq_receivers"] # <<>> => mq.entry <= Cardinality(Called("mq_receivers"))
    /\ k.wait["mq_senders"] # <<>> => Len(FreeSlots) <= Cardinality(Called("mq_senders"))
=============================================================================
