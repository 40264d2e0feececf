------------------------------- MODULE Mempool -------------------------------
(***************************************************************************)
(* One pool of equal blocks: rt_mp_alloc, rt_mp_free and rt_mp_detach or   *)
(* rt_mp_delete of os/mempool.c.  A free block holds the link to the next  *)
(* one, a block in use the pointer to its pool.  Waiters are linked in     *)
(* front of the list and are not given the block: a woken caller tests the *)
(* pool again.                                                             *)
(***************************************************************************)
EXTENDS Calls

CONSTANTS
    BlockId,  \* the blocks of the pool
    Null,    \* the end of the free list
    Mp       \* the pool, as the header of a block in use points to it

ASSUME MempoolAssumption ==
    /\ "pool" \in WaitList
    /\ IsFiniteSet(BlockId) /\ BlockId # {}
    /\ Null \notin BlockId /\ Mp \notin BlockId \union {Null}

VARIABLES
    block_list,        \* mp->block_list, the first free block
    header,            \* the word in front of each block
    block_free_count,  \* mp->block_free_count
    time,              \* what is left of the time a caller may wait
    blocks             \* the blocks each thread holds

mempool == <<block_list, header, block_free_count, time, blocks>>

MpTypeOK ==
    /\ CallsTypeOK
    /\ pc \in [Thread -> CallPoint]
    /\ block_list \in BlockId \union {Null}
    /\ header \in [BlockId -> BlockId \union {Null, Mp}]
    /\ block_free_count \in 0 .. Cardinality(BlockId)
    /\ time \in [Thread -> Time]
    /\ blocks \in [Thread -> SUBSET BlockId]

\* rt_mp_init links the blocks in the order of their addresses.
MpInit ==
    LET s == SetToSeq(BlockId) IN
    /\ block_list = s[1]
    /\ header = [b \in BlockId |-> LET i == CHOOSE i \in DOMAIN s : s[i] = b
                                  IN  IF i = Len(s) THEN Null ELSE s[i + 1]]
    /\ block_free_count = Len(s)
    /\ time = [t \in Thread |-> "none"]
    /\ blocks = [t \in Thread |-> {}]

-----------------------------------------------------------------------------
(* rt_mp_alloc *)

\* Unlink the first free block and hand it out.
Take(t) ==
    /\ block_free_count' = block_free_count - 1
    /\ block_list' = header[block_list]
    /\ header' = [header EXCEPT ![block_list] = Mp]
    /\ blocks' = [blocks EXCEPT ![t] = @ \union {block_list}]

\* rt_thread_suspend, and rt_list_insert_after the head of the list.
WaitForBlock(t, d) ==
    /\ Block(t, LinkAt(rt_thread_suspend([k EXCEPT !.err[t] = "EOK"], t), "pool", 1, t),
             "pool", d)
    /\ time' = [time EXCEPT ![t] = d]
    /\ UNCHANGED <<block_list, header, block_free_count, blocks>>

\* The loop test of rt_mp_alloc and what follows it, with time d left.
AllocTry(t, d) ==
    \/ /\ block_free_count > 0
       /\ Take(t)
       /\ time' = [time EXCEPT ![t] = "none"]
       /\ Leave(t, "run")
       /\ UNCHANGED k
    \/ /\ block_free_count = 0 /\ d = "none"
       /\ k' = [k EXCEPT !.err[t] = "ETIMEOUT"]
       /\ time' = [time EXCEPT ![t] = "none"]
       /\ Leave(t, "run")
       /\ UNCHANGED <<block_list, header, block_free_count, blocks>>
    \/ /\ block_free_count = 0 /\ d # "none"
       /\ WaitForBlock(t, d)

rt_mp_alloc(t, d) ==
    /\ Enters(t)
    /\ AllocTry(t, d)
    /\ UNCHANGED object

\* What a limited time can be once the caller has waited: some of it, or none.
TimeLeft(d) == IF d = "finite" THEN {"finite", "none"} ELSE {d}

\* The caller runs again: an error ends the call, otherwise it tries again.
AllocRetry(t) ==
    /\ At(t, "woken")
    /\ \/ /\ k.err[t] # "EOK"
          /\ time' = [time EXCEPT ![t] = "none"]
          /\ Leave(t, "run")
          /\ UNCHANGED <<k, block_list, header, block_free_count, blocks>>
       \/ /\ k.err[t] = "EOK"
          /\ \E d \in TimeLeft(time[t]) : AllocTry(t, d)
    /\ UNCHANGED object

-----------------------------------------------------------------------------
(* rt_mp_free *)

Give(t, b) ==
    /\ block_free_count' = block_free_count + 1
    /\ header' = [header EXCEPT ![b] = block_list]
    /\ block_list' = b
    /\ blocks' = [blocks EXCEPT ![t] = @ \ {b}]
    /\ UNCHANGED time

\* Mutant: a waiter is woken only if no block was free before.
rt_mp_free_first_only(t, b) ==
    /\ Enters(t) /\ b \in blocks[t]
    /\ Give(t, b)
    /\ IF block_free_count = 0 THEN Wake(t, "pool") ELSE UNCHANGED k /\ Leave(t, "run")
    /\ UNCHANGED object

\* A thread gives back a block it holds; the first waiter is woken.
rt_mp_free(t, b) ==
    /\ Enters(t) /\ b \in blocks[t]
    /\ Give(t, b)
    /\ Wake(t, "pool")
    /\ UNCHANGED object

\* A block passed on to a device comes back in an interrupt.
IsrFree(t, b) ==
    /\ life = "yes" /\ b \in blocks[t]
    /\ Give(t, b)
    /\ IsrWake("pool")
    /\ UNCHANGED <<pc, list, object>>

-----------------------------------------------------------------------------
\* A pool is deleted only when no call on it is left in the middle: a woken
\* caller that has not run yet would test the freed pool again.
rt_mp_detach(t) ==
    /\ Called("pool") = {}
    /\ StartDetach(t, <<"pool">>)
    /\ UNCHANGED mempool

MpNext ==
    \/ \E t \in Thread :
           \/ CallSteps(t) /\ UNCHANGED mempool
           \/ AllocRetry(t) \/ rt_mp_detach(t)
           \/ \E d \in Time : rt_mp_alloc(t, d)
           \/ \E b \in BlockId : rt_mp_free(t, b) \/ IsrFree(t, b)
    \/ Background /\ UNCHANGED mempool

MpSpec == CallsInit /\ MpInit /\ [][MpNext]_<<calls, mempool>>

-----------------------------------------------------------------------------
(* Properties *)

\* What is reached from block_list in n links.
Reach[n \in 0 .. Cardinality(BlockId)] ==
    IF n = 0 THEN block_list
    ELSE IF Reach[n - 1] \in BlockId THEN header[Reach[n - 1]] ELSE Null

FreeBlocks == {Reach[n] : n \in 0 .. Cardinality(BlockId)} \ {Null}

\* No block is handed out twice or lost: each one is on the free list, or held
\* by one thread and pointing to its pool, and the counter rt_mp_alloc tests is
\* the length of the list it then takes from (so its assertion holds).
BlocksConserved ==
    /\ block_free_count = Cardinality(FreeBlocks)
    /\ Reach[block_free_count] = Null
    /\ \A b \in BlockId :
           /\ b \notin FreeBlocks <=> \E t \in Thread : b \in blocks[t]
           /\ b \notin FreeBlocks => header[b] = Mp
           /\ \A t, u \in Thread : b \in blocks[t] \intersect blocks[u] => t = u

\* While callers are left on the wait list, every free block has a woken caller
\* on its way: a wake-up used up by a caller that was overtaken is not lost.
BlockIsClaimed == k.wait["pool"] # <<>> => block_free_count <= Cardinality(Called("pool"))

\* No block is lost, given twice, or left lying beside waiters nobody has woken.
BlocksKept == BlocksConserved /\ BlockIsClaimed
=============================================================================
