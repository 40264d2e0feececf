------------------------------ MODULE MCChannels ------------------------------
(* A receiver, two senders, and one of those receives too.  In each behaviour *)
(* the programs use one object, of the kind chosen at the start.              *)
EXTENDS Mailbox, MsgQueue, DataQueue

CONSTANTS r1, s1, s2, idle, a, b, Kinds

VARIABLE use

vars == <<use, calls, hands, mailbox, msgqueue, dataqueue>>

MCThread == {r1, s1, s2, idle}
MCPriority == 0 .. 2
MCInitPriority ==
    [t \in Thread |-> CASE t = r1 -> 0 [] t \in {s1, s2} -> 1 [] t = idle -> 2]
MCWaitList ==
    {"mb_receivers", "mb_senders", "mq_receivers", "mq_senders",
     "dq_receivers", "dq_senders"}

\* No step compares two mails.
MCSymmetry == Permutations({a, b})

\* States are told apart by what some step can still read: not by the error of a
\* thread outside a wait, which the next wait clears, nor by the places of a ring
\* that hold no mail.
MCView ==
    <<use, [k EXCEPT !.err = [t \in Thread |-> IF InWait(t) THEN @[t] ELSE "EOK"]],
      pc, list, object, hands, msgqueue,
      Ring, [mb EXCEPT !.msg_pool = <<>>], mb_last,
      DqRing, [dq EXCEPT !.queue = <<>>], dq_last>>

Init ==
    /\ use \in Kinds
    /\ CallsInit /\ HandsInit /\ MbInit /\ MqInit /\ DqInit

UseMailbox ==
    use = "mailbox" /\ MbNext /\ UNCHANGED <<use, msgqueue, dataqueue>>

UseMsgQueue ==
    use = "msgqueue" /\ MqNext /\ UNCHANGED <<use, mailbox, dataqueue>>

UseDataQueue ==
    use = "dataqueue" /\ DqNext /\ UNCHANGED <<use, mailbox, msgqueue>>

Next == UseMailbox \/ UseMsgQueue \/ UseDataQueue

Spec == Init /\ [][Next]_vars

\* The type invariant of the object in use.
TypeOK ==
    CASE use = "mailbox"   -> MbTypeOK
      [] use = "msgqueue"  -> MqTypeOK
      [] use = "dataqueue" -> DqTypeOK
=============================================================================
