------------------------------- MODULE Mailbox -------------------------------
(***************************************************************************)
(* One mailbox: rt_mb_send_wait, rt_mb_send, rt_mb_recv, rt_mb_control and *)
(* rt_mb_detach of os/ipc.c.  It implements the channel of Channel.tla     *)
(* with a ring buffer.                                                     *)
(***************************************************************************)
EXTENDS ChannelCalls

ASSUME MailboxAssumption == {"mb_receivers", "mb_senders"} \subseteq WaitList

VARIABLES
    mb,      \* the fields of the mailbox
    mb_last  \* history: the last mail handed out

mailbox == <<mb, mb_last>>

Index == 0 .. size - 1

MbTypeOK ==
    /\ CallsTypeOK /\ HandsTypeOK
    /\ pc \in [Thread -> CallPoint]
    /\ mb \in [ msg_pool : [Index -> Mail \union {NoMail}],
                in_offset : Index, out_offset : Index, entry : 0 .. size ]
    /\ mb_last \in Mail \union {NoMail}

MbInit ==
    /\ mb = [ msg_pool |-> [i \in Index |-> NoMail],
              in_offset |-> 0, out_offset |-> 0, entry |-> 0 ]
    /\ mb_last = NoMail

-----------------------------------------------------------------------------
(* rt_mb_send_wait *)

\* Mutant: the input offset runs past the end of the pool before it wraps.
Put_no_wrap(m, v) ==
    [m EXCEPT !.msg_pool = [@ EXCEPT ![m.in_offset] = v],
              !.in_offset = IF @ + 1 > size THEN 0 ELSE @ + 1,
              !.entry = @ + 1]

\* Store the mail in the ring.
Put(m, v) ==
    [m EXCEPT !.msg_pool = [@ EXCEPT ![m.in_offset] = v],
              !.in_offset = IF @ + 1 >= size THEN 0 ELSE @ + 1,
              !.entry = @ + 1]

\* The loop test of rt_mb_send_wait and what follows it, in one section.
SendMail(t, v, d) ==
    /\ \/ /\ mb.entry < size
          /\ mb' = Put(mb, v)
          /\ Wake(t, "mb_receivers")
          /\ EmptyHands(t)
       \/ mb.entry = size /\ d = "none" /\ GiveUp(t, "EOK") /\ UNCHANGED mb
       \/ /\ mb.entry = size /\ d # "none"
          /\ WaitToSend(t, "mb_senders", flag, v, d)
          /\ UNCHANGED mb
    /\ UNCHANGED <<mb_last, object>>

\* The early return of a call that may not wait changes nothing.
rt_mb_send_wait(t, v, d) ==
    /\ Enters(t) /\ t \in Sender
    /\ mb.entry = size => d # "none"
    /\ SendMail(t, v, d)

MbSendRetry(t) ==
    \/ WokenInVain(t, "mb_senders") /\ UNCHANGED <<mailbox, object>>
    \/ /\ WokenToRetry(t, "mb_senders")
       /\ \E d \in Left(timeout[t]) : SendMail(t, value[t], d)

\* rt_mb_send from an interrupt handler, rt_schedule included.
IsrMbSend(v) ==
    /\ life = "yes" /\ mb.entry < size
    /\ mb' = Put(mb, v)
    /\ IsrWake("mb_receivers")
    /\ UNCHANGED <<pc, list, object, hands, mb_last>>

-----------------------------------------------------------------------------
(* rt_mb_recv *)

\* Mutant: no sender is told of the free slot.
TakeMail_no_wake(t) ==
    /\ mb_last' = mb.msg_pool[mb.out_offset]
    /\ mb' = [mb EXCEPT !.out_offset = IF @ + 1 >= size THEN 0 ELSE @ + 1,
                        !.entry = @ - 1]
    /\ Leave(t, "run")
    /\ EmptyHands(t)
    /\ UNCHANGED k

\* Take the oldest mail out of the ring; a sender may use its slot.
TakeMail(t) ==
    /\ mb_last' = mb.msg_pool[mb.out_offset]
    /\ mb' = [mb EXCEPT !.out_offset = IF @ + 1 >= size THEN 0 ELSE @ + 1,
                        !.entry = @ - 1]
    /\ Wake(t, "mb_senders")
    /\ EmptyHands(t)

\* The loop test of rt_mb_recv and what follows it, in one section.
RecvMail(t, d) ==
    /\ \/ mb.entry > 0 /\ TakeMail(t)
       \/ mb.entry = 0 /\ d = "none" /\ GiveUp(t, "ETIMEOUT") /\ UNCHANGED mailbox
       \/ /\ mb.entry = 0 /\ d # "none"
          /\ WaitToRecv(t, "mb_receivers", flag, d)
          /\ UNCHANGED mailbox
    /\ UNCHANGED object

rt_mb_recv(t, d) ==
    /\ Enters(t) /\ t \in Receiver
    /\ mb.entry = 0 => d # "none"
    /\ RecvMail(t, d)

\* Mutant: a woken receiver takes for granted that its mail is still there.
MbRecvRetry_untested(t) ==
    \/ WokenInVain(t, "mb_receivers") /\ UNCHANGED <<mailbox, object>>
    \/ /\ WokenToRetry(t, "mb_receivers")
       /\ mb_last' = mb.msg_pool[mb.out_offset]
       /\ mb' = [mb EXCEPT !.out_offset = IF @ + 1 >= size THEN 0 ELSE @ + 1,
                           !.entry = IF @ > 0 THEN @ - 1 ELSE @]
       /\ Wake(t, "mb_senders")
       /\ EmptyHands(t)
       /\ UNCHANGED object

MbRecvRetry(t) ==
    \/ WokenInVain(t, "mb_receivers") /\ UNCHANGED <<mailbox, object>>
    \/ /\ WokenToRetry(t, "mb_receivers")
       /\ \E d \in Left(timeout[t]) : RecvMail(t, d)

-----------------------------------------------------------------------------
\* RT_IPC_CMD_RESET: the waiters leave and the ring is emptied.
rt_mb_control(t) ==
    /\ Enters(t) /\ t \in Resetter
    /\ k' = ResetWaiters("mb_receivers", "mb_senders")
    /\ mb' = [mb EXCEPT !.entry = 0, !.in_offset = 0, !.out_offset = 0]
    /\ Goto(t, "schedule")
    /\ UNCHANGED <<object, hands, mb_last>>

rt_mb_detach(t) == DetachChannel(t, "mb_receivers", "mb_senders") /\ UNCHANGED <<hands, mailbox>>

MbNext ==
    \/ \E t \in Thread :
           \/ CallSteps(t) /\ UNCHANGED <<hands, mailbox>>
           \/ MbSendRetry(t) \/ MbRecvRetry(t) \/ rt_mb_control(t) \/ rt_mb_detach(t)
           \/ \E d \in Time : rt_mb_recv(t, d) \/ \E v \in Mail : rt_mb_send_wait(t, v, d)
    \/ \E v \in Mail : IsrMbSend(v)
    \/ Background /\ UNCHANGED <<hands, mailbox>>

MbSpec == CallsInit /\ HandsInit /\ MbInit /\ [][MbNext]_<<calls, hands, mailbox>>

-----------------------------------------------------------------------------
(* Properties *)

\* The mails in the ring, oldest first.
Ring == [i \in 1 .. mb.entry |-> mb.msg_pool[(mb.out_offset + i - 1) % size]]

MbChannel == INSTANCE Channel WITH box <- Ring, last <- mb_last, HasUrgent <- FALSE

\* The ring of rt_mb_send_wait and rt_mb_recv is a bounded FIFO channel: mails
\* come out once each, in the order they went in, whoever waits, is woken, is
\* overtaken or times out meanwhile.
MailboxIsChannel == MbChannel!Spec

\* While receivers are left on the wait list, every mail has a woken receiver
\* on its way, and while senders are left, every free slot has a woken sender:
\* a wake-up used up by a thread that was overtaken is not lost.
MailIsClaimed ==
    /\ k.wait["mb_receivers"] # <<>> => mb.entry <= Cardinality(Called("mb_receivers"))
    /\ k.wait["mb_senders"] # <<>> => size - mb.entry <= Cardinality(Called("mb_senders"))
=============================================================================
