------------------------------ MODULE DataQueue ------------------------------
(***************************************************************************)
(* One data queue (components/drivers/src/dataqueue.c): rt_data_queue_push,*)
(* _pop, _reset and _deinit.  The ring tells full from empty by two flags. *)
(* A pop wakes a waiting pusher only once the queue has drained to the     *)
(* low-water mark, and a caller that has to wait again starts its whole    *)
(* time again.                                                             *)
(***************************************************************************)
EXTENDS ChannelCalls

CONSTANT lwm  \* the low-water mark

ASSUME DataQueueAssumption ==
    /\ {"dq_receivers", "dq_senders"} \subseteq WaitList
    /\ lwm \in Nat

VARIABLES
    dq,      \* the fields of the queue
    dq_last  \* history: the last item popped

dataqueue == <<dq, dq_last>>

Item == 0 .. size - 1

\* "critical"  a reset has emptied the queue, not yet locked the scheduler
\* "exit"      it has resumed everybody and is about to unlock the scheduler
DqPoint == CallPoint \union {"critical", "exit"}

DqTypeOK ==
    /\ CallsTypeOK /\ HandsTypeOK
    /\ pc \in [Thread -> DqPoint]
    /\ dq \in [ queue : [Item -> Mail \union {NoMail}],
                get_index : Item, put_index : Item,
                is_empty : BOOLEAN, is_full : BOOLEAN ]
    /\ dq_last \in Mail \union {NoMail}

DqInit ==
    /\ dq = [ queue |-> [i \in Item |-> NoMail], get_index |-> 0, put_index |-> 0,
              is_empty |-> TRUE, is_full |-> FALSE ]
    /\ dq_last = NoMail

rt_data_queue_len(q) ==
    IF q.is_empty THEN 0
    ELSE IF q.put_index > q.get_index THEN q.put_index - q.get_index
    ELSE size + q.put_index - q.get_index

Advance(i) == IF i + 1 = size THEN 0 ELSE i + 1

-----------------------------------------------------------------------------
(* rt_data_queue_push *)

\* Mutant: nobody notes that the queue is full.
PutItem_never_full(q, v) ==
    [q EXCEPT !.queue = [@ EXCEPT ![q.put_index] = v],
              !.put_index = Advance(q.put_index), !.is_empty = FALSE]

PutItem(q, v) ==
    LET i == Advance(q.put_index)
    IN  [q EXCEPT !.queue = [@ EXCEPT ![q.put_index] = v], !.put_index = i,
                  !.is_empty = FALSE, !.is_full = @ \/ i = q.get_index]

\* With no time left the call returns -RT_ETIMEOUT and changes nothing.
PushTry(t, v, d) ==
    /\ \/ /\ ~dq.is_full
          /\ dq' = PutItem(dq, v)
          /\ Wake(t, "dq_receivers")
          /\ EmptyHands(t)
       \/ /\ dq.is_full /\ d # "none"
          /\ WaitToSend(t, "dq_senders", "FIFO", v, d)
          /\ UNCHANGED dq
    /\ UNCHANGED <<object, dq_last>>

rt_data_queue_push(t, v, d) ==
    /\ Enters(t) /\ t \in Sender
    /\ PushTry(t, v, d)

PushRetry(t) ==
    \/ WokenInVain(t, "dq_senders") /\ UNCHANGED <<dataqueue, object>>
    \/ WokenToRetry(t, "dq_senders") /\ PushTry(t, value[t], timeout[t])

\* A device that stops before the queue is reset pushes and pops in interrupts.
IsrPush(v) ==
    /\ life = "yes" /\ sweep = <<>> /\ ~dq.is_full
    /\ dq' = PutItem(dq, v)
    /\ IsrWake("dq_receivers")
    /\ UNCHANGED <<pc, list, object, hands, dq_last>>

-----------------------------------------------------------------------------
(* rt_data_queue_pop *)

GetItem(q) ==
    LET i == Advance(q.get_index)
    IN  [q EXCEPT !.get_index = i, !.is_full = FALSE,
                  !.is_empty = @ \/ i = q.put_index]

\* Mutant: the queue must fall below the low-water mark.
Drained_below(q) == rt_data_queue_len(q) < lwm

Drained(q) == rt_data_queue_len(q) <= lwm

PopTry(t, d) ==
    /\ \/ /\ ~dq.is_empty
          /\ dq' = GetItem(dq)
          /\ dq_last' = dq.queue[dq.get_index]
          /\ IF Drained(GetItem(dq)) THEN Wake(t, "dq_senders")
             ELSE UNCHANGED k /\ Leave(t, "run")
          /\ EmptyHands(t)
       \/ /\ dq.is_empty /\ d # "none"
          /\ WaitToRecv(t, "dq_receivers", "FIFO", d)
          /\ UNCHANGED dataqueue
    /\ UNCHANGED object

rt_data_queue_pop(t, d) ==
    /\ Enters(t) /\ t \in Receiver
    /\ PopTry(t, d)

PopRetry(t) ==
    \/ WokenInVain(t, "dq_receivers") /\ UNCHANGED <<dataqueue, object>>
    \/ WokenToRetry(t, "dq_receivers") /\ PopTry(t, timeout[t])

IsrPop ==
    /\ life = "yes" /\ sweep = <<>> /\ ~dq.is_empty
    /\ dq' = GetItem(dq)
    /\ dq_last' = dq.queue[dq.get_index]
    /\ IF Drained(GetItem(dq)) THEN IsrWake("dq_senders") ELSE UNCHANGED k
    /\ UNCHANGED <<pc, list, object, hands>>

-----------------------------------------------------------------------------
(* rt_data_queue_reset, and rt_data_queue_deinit, which starts with it *)

DqLists == <<"dq_receivers", "dq_senders">>

\* The first section.  The loops that follow test the lists outside the sections
\* that use them, as in rt_ipc_list_resume_all.
rt_data_queue_reset(t, deinit) ==
    /\ Enters(t) /\ t \in Resetter /\ (deinit => t \in Detacher)
    /\ deinit => Called("dq_receivers") = {} /\ Called("dq_senders") = {}
    /\ Untimed(DqLists)
    /\ dq' = [dq EXCEPT !.get_index = 0, !.put_index = 0,
                        !.is_empty = TRUE, !.is_full = FALSE]
    /\ life' = IF deinit THEN "detaching" ELSE life
    /\ Goto(t, "critical")
    /\ UNCHANGED <<k, flag, sweep, wild, hands, dq_last>>

\* rt_enter_critical, then the two loops (SweepTest and SweepResume).
ResetLock(t) ==
    /\ At(t, "critical")
    /\ Untimed(DqLists)
    /\ k' = [k EXCEPT !.nest = @ + 1]
    /\ sweep' = DqLists
    /\ Goto(t, "test")
    /\ UNCHANGED <<flag, life, wild, hands, dataqueue>>

\* rt_exit_critical; rt_schedule is called once more after it.
ResetUnlock(t) ==
    /\ At(t, "exit")
    /\ k' = rt_schedule([k EXCEPT !.nest = 0])
    /\ Goto(t, "schedule")
    /\ UNCHANGED <<object, hands, dataqueue>>

DqNext ==
    \/ \E t \in Thread :
           \/ CallSteps(t) /\ UNCHANGED <<hands, dataqueue>>
           \/ PushRetry(t) \/ PopRetry(t) \/ ResetLock(t) \/ ResetUnlock(t)
           \/ \E deinit \in BOOLEAN : rt_data_queue_reset(t, deinit)
           \/ \E d \in Time : rt_data_queue_pop(t, d)
           \/ \E d \in Time, v \in Mail : rt_data_queue_push(t, v, d)
    \/ IsrPop \/ \E v \in Mail : IsrPush(v)
    \/ Background /\ UNCHANGED <<hands, dataqueue>>

DqSpec == CallsInit /\ HandsInit /\ DqInit /\ [][DqNext]_<<calls, hands, dataqueue>>

-----------------------------------------------------------------------------
(* Properties *)

DqRing ==
    [i \in 1 .. rt_data_queue_len(dq) |-> dq.queue[(dq.get_index + i - 1) % size]]

DqChannel == INSTANCE Channel WITH box <- DqRing, last <- dq_last, HasUrgent <- FALSE

\* The indices and the two flags describe a bounded FIFO channel, also when
\* callers are woken, overtaken, and wait again, and when the queue is reset.
DataQueueIsChannel == DqChannel!Spec

Resetting == sweep # <<>> \/ \E t \in Thread : pc[t] = "critical"

\* While poppers wait, every item has a woken popper on its way.  While pushers
\* wait, at least as many pushers are woken as the queue has been popped below
\* its low-water mark: a drained queue always has a pusher coming.
ItemIsClaimed ==
    ~Resetting =>
        /\ k.wait["dq_receivers"] # <<>>
               => rt_data_queue_len(dq) <= Cardinality(Called("dq_receivers"))
        /\ k.wait["dq_senders"] # <<>>
               => Min({lwm + 1, size})
                    <= rt_data_queue_len(dq) + Cardinality(Called("dq_senders"))
=============================================================================
