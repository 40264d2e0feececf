----------------------------- MODULE ChannelCalls -----------------------------
(***************************************************************************)
(* What the calls on a mailbox, a message queue and a data queue have in   *)
(* common: senders wait for room and receivers for mail on two lists, and  *)
(* a woken caller is given neither.  It tests the object again, and waits  *)
(* again when another thread was faster.                                   *)
(***************************************************************************)
EXTENDS Calls

CONSTANTS
    Sender, Receiver,  \* the threads that send, and those that receive
    Resetter,          \* the threads that reset the object
    Mail, NoMail,      \* the values sent, and "none"
    size               \* the capacity of the object

ASSUME ChannelAssumption ==
    /\ Sender \union Receiver \union Resetter \subseteq Thread \ {Idle}
    /\ NoMail \notin Mail
    /\ size \in Nat \ {0}

VARIABLES
    value,   \* the mail a thread is sending, or has taken out
    timeout  \* what is left of the time the caller may wait

hands == <<value, timeout>>

HandsTypeOK ==
    /\ value \in [Thread -> Mail \union {NoMail}]
    /\ timeout \in [Thread -> Time]

HandsInit ==
    /\ value = [t \in Thread |-> NoMail]
    /\ timeout = [t \in Thread |-> "none"]

\* Thread t has mail v in its hands and time d left.
Hold(t, v, d) ==
    /\ value' = [value EXCEPT ![t] = v]
    /\ timeout' = [timeout EXCEPT ![t] = d]

EmptyHands(t) == Hold(t, NoMail, "none")

\* What a limited time can be once the caller has waited: some of it, or none.
Left(d) == IF d = "finite" THEN {"finite", "none"} ELSE {d}

\* The caller suspends itself until there is room, or mail.
WaitToSend(t, l, f, v, d) == Block(t, Queue(t, l, f), l, d) /\ Hold(t, v, d)
WaitToRecv(t, l, f, d) == Block(t, Queue(t, l, f), l, d) /\ Hold(t, NoMail, d)

\* The call ends with error e in thread->error, having done nothing.
GiveUp(t, e) ==
    /\ k' = [k EXCEPT !.err[t] = e]
    /\ Leave(t, "run")
    /\ EmptyHands(t)

\* Woken with an error: the call ends.
WokenInVain(t, l) ==
    /\ At(t, "woken") /\ list[t] = l /\ k.err[t] # "EOK"
    /\ Leave(t, "run")
    /\ EmptyHands(t)
    /\ UNCHANGED k

\* Woken without one: the call tests the object again.
WokenToRetry(t, l) == At(t, "woken") /\ list[t] = l /\ k.err[t] = "EOK"

\* RT_IPC_CMD_RESET: every waiter of the two lists returns -RT_ERROR.
ResetWaiters(r, s) == rt_ipc_list_resume_all(rt_ipc_list_resume_all(k, r), s)

\* An object is detached only when no call on it is left in the middle: a woken
\* caller that has not run yet would test the freed object again.
DetachChannel(t, r, s) ==
    /\ Called(r) = {} /\ Called(s) = {}
    /\ \A u \in Thread : pc[u] \in {"run", "wait", "woken", "schedule"}
    /\ StartDetach(t, <<r, s>>)
=============================================================================
