-------------------------------- MODULE Event --------------------------------
(***************************************************************************)
(* One event object: rt_event_send, rt_event_recv, rt_event_control and    *)
(* rt_event_detach of os/ipc.c.  Threads wait for all (AND) or some (OR)   *)
(* of a set of bits; one send walks the whole wait list and may resume     *)
(* several of them, each taking the bits it received if it asked to CLEAR. *)
(***************************************************************************)
EXTENDS Calls

CONSTANTS
    Bit,            \* the bits of an event set
    EventRequest,   \* what programs ask for: records [set, all, clear]
    EventResetter   \* threads that call rt_event_control(RT_IPC_CMD_RESET)

ASSUME EventAssumption ==
    /\ "event" \in WaitList
    /\ EventRequest \subseteq
           [set : (SUBSET Bit) \ {{}}, all : BOOLEAN, clear : BOOLEAN]
    /\ EventResetter \subseteq Thread \ {Idle}

VARIABLES
    set,        \* event->set
    event_set,  \* thread->event_set, of the threads inside rt_event_recv
    event_info  \* the request that call was made with: its thread->event_info,
                \* and (history) the set it named

event == <<set, event_set, event_info>>

NoRequest == [set |-> {}, all |-> FALSE, clear |-> FALSE]

EventTypeOK ==
    /\ CallsTypeOK
    /\ pc \in [Thread -> CallPoint]
    /\ set \subseteq Bit
    /\ event_set \in [Thread -> SUBSET Bit]
    /\ event_info \in [Thread -> EventRequest \union {NoRequest}]

EventInit ==
    /\ set = {}
    /\ event_set = [t \in Thread |-> {}]
    /\ event_info = [t \in Thread |-> NoRequest]

\* RT_EVENT_FLAG_AND: every bit asked for; RT_EVENT_FLAG_OR: at least one.
Satisfied(s, want, all) == IF all THEN want \subseteq s ELSE want \intersect s # {}

-----------------------------------------------------------------------------
(* rt_event_send *)

\* Mutant: the bits are cleared only for the waiters of a later send.
Serve_no_clear(w, t) ==
    LET got == IF event_info[t].all THEN w.event_set[t]
                                    ELSE w.event_set[t] \intersect w.set
    IN  IF Satisfied(w.set, w.event_set[t], event_info[t].all)
        THEN [k |-> rt_thread_resume(w.k, t), set |-> w.set,
              event_set |-> [w.event_set EXCEPT ![t] = got]]
        ELSE w

\* One round of the walk over the wait list.
Serve(w, t) ==
    LET got == IF event_info[t].all THEN w.event_set[t]
                                    ELSE w.event_set[t] \intersect w.set
    IN  IF Satisfied(w.set, w.event_set[t], event_info[t].all)
        THEN [k |-> rt_thread_resume(w.k, t),
              set |-> IF event_info[t].clear THEN w.set \ got ELSE w.set,
              event_set |-> [w.event_set EXCEPT ![t] = got]]
        ELSE w

\* Mutant: the walk ends after the first waiter.
SendWalk_first(bits) ==
    LET w == [k |-> k, set |-> set \union bits, event_set |-> event_set]
    IN  IF k.wait["event"] = <<>> THEN w ELSE Serve(w, k.wait["event"][1])

\* The section of rt_event_send.
SendWalk(bits) ==
    LET after[n \in 0 .. Len(k.wait["event"])] ==
            IF n = 0
            THEN [k |-> k, set |-> set \union bits, event_set |-> event_set]
            ELSE Serve(after[n - 1], k.wait["event"][n])
    IN  after[Len(k.wait["event"])]

Resumed(w) == w.k # k

rt_event_send(t, bits) ==
    /\ Enters(t)
    /\ LET w == SendWalk(bits) IN
       /\ k' = w.k /\ set' = w.set /\ event_set' = w.event_set
       /\ Goto(t, IF Resumed(w) THEN "schedule" ELSE "run")
    /\ UNCHANGED <<event_info, object>>

IsrEventSend(bits) ==
    /\ life = "yes"
    /\ LET w == SendWalk(bits) IN
       /\ k' = IF Resumed(w) THEN rt_schedule(w.k) ELSE k
       /\ set' = w.set /\ event_set' = w.event_set
    /\ UNCHANGED <<pc, list, event_info, object>>

-----------------------------------------------------------------------------
(* rt_event_recv *)

\* The bits are there: a CLEAR request takes all it asked for.
RecvNow(t, r) ==
    /\ Satisfied(set, r.set, r.all)
    /\ set' = IF r.clear THEN set \ r.set ELSE set
    /\ k' = [k EXCEPT !.err[t] = "EOK"]
    /\ UNCHANGED <<pc, list, event_set, event_info>>

RecvBusy(t, r) ==
    /\ ~Satisfied(set, r.set, r.all)
    /\ k' = [k EXCEPT !.err[t] = "ETIMEOUT"]
    /\ UNCHANGED <<pc, list, event>>

RecvBlock(t, r, d) ==
    /\ ~Satisfied(set, r.set, r.all) /\ d # "none"
    /\ Block(t, Queue(t, "event", flag), "event", d)
    /\ event_set' = [event_set EXCEPT ![t] = r.set]
    /\ event_info' = [event_info EXCEPT ![t] = r]
    /\ UNCHANGED set

rt_event_recv(t, r) ==
    /\ Enters(t)
    /\ RecvNow(t, r) \/ RecvBusy(t, r) \/ \E d \in Time : RecvBlock(t, r, d)
    /\ UNCHANGED object

\* The call returns thread->error, with event_set if that is RT_EOK.
RecvReturn(t) ==
    /\ At(t, "woken")
    /\ Leave(t, "run")
    /\ event_set' = [event_set EXCEPT ![t] = {}]
    /\ event_info' = [event_info EXCEPT ![t] = NoRequest]
    /\ UNCHANGED <<k, set, object>>

-----------------------------------------------------------------------------
\* RT_IPC_CMD_RESET
rt_event_control(t) ==
    /\ Enters(t) /\ t \in EventResetter
    /\ k' = rt_ipc_list_resume_all(k, "event")
    /\ set' = {}
    /\ Goto(t, "schedule")
    /\ UNCHANGED <<event_set, event_info, object>>

rt_event_detach(t) == StartDetach(t, <<"event">>) /\ UNCHANGED event

EventNext ==
    \/ \E t \in Thread :
           \/ CallSteps(t) /\ UNCHANGED event
           \/ RecvReturn(t) \/ rt_event_control(t) \/ rt_event_detach(t)
           \/ \E bits \in (SUBSET Bit) \ {{}} : rt_event_send(t, bits)
           \/ \E r \in EventRequest : rt_event_recv(t, r)
    \/ \E bits \in (SUBSET Bit) \ {{}} : IsrEventSend(bits)
    \/ Background /\ UNCHANGED event

EventSpec == CallsInit /\ EventInit /\ [][EventNext]_<<calls, event>>

-----------------------------------------------------------------------------
(* Properties *)

\* Nobody is left on the wait list whose condition holds: bits that arrive in
\* several sends, bits another waiter clears during the same walk, and waiters
\* behind one that is resumed are all taken into account.
NoSatisfiedWaiter ==
    \A t \in ToSet(k.wait["event"]) :
        ~Satisfied(set, event_set[t], event_info[t].all)

\* A thread that will return RT_EOK has received what it asked for: all of it
\* (AND), or a part of it that is not empty (OR).
ReceivedWhatWasAsked ==
    \A t \in Called("event") :
        IF event_info[t].all
        THEN event_set[t] = event_info[t].set
        ELSE event_set[t] # {} /\ event_set[t] \subseteq event_info[t].set

\* Whoever is woken has what it asked for, and whoever is not could not have it.
RequestsMet == ReceivedWhatWasAsked /\ NoSatisfiedWaiter

\* A bit taken with CLEAR goes to one waiter: no two waiters resumed by the same
\* send have cleared the same bit, and it is not left in the event set either.
ClearedOnce ==
    [][\A t \in Called("event")' \ Called("event") :
           event_info[t].clear =>
               /\ event_set'[t] \intersect set' = {}
               /\ \A u \in (Called("event")' \ Called("event")) \ {t} :
                      event_info[u].clear => event_set'[t] \intersect event_set'[u] = {}
      ]_<<calls, event>>
=============================================================================
