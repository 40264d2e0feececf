------------------------------- MODULE Channel -------------------------------
(***************************************************************************)
(* What a mailbox, a message queue or a data queue promises its users: a   *)
(* bounded channel that hands out each mail once, in the order sent (an    *)
(* urgent mail goes first), and loses mails only when it is reset.         *)
(***************************************************************************)
EXTENDS Naturals, Sequences

CONSTANTS
    Mail,       \* the values sent
    NoMail,     \* "nothing received yet"
    size,       \* the capacity
    HasUrgent   \* whether mails can be sent to the front

VARIABLES
    box,        \* the mails sent and not yet received
    last        \* the last mail handed out

Init == box = <<>> /\ last = NoMail

Send ==
    /\ UNCHANGED last
    /\ Len(box) < size
    /\ \E v \in Mail : box' = Append(box, v)

Urgent ==
    /\ HasUrgent /\ UNCHANGED last
    /\ Len(box) < size
    /\ \E v \in Mail : box' = <<v>> \o box

Receive ==
    /\ box # <<>>
    /\ last' = Head(box)
    /\ box' = Tail(box)

Reset == UNCHANGED last /\ box' = <<>>

Next == Send \/ Urgent \/ Receive \/ Reset

Spec == Init /\ [][Next]_<<box, last>>
=============================================================================
