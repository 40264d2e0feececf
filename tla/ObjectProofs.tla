----------------------------- MODULE ObjectProofs -----------------------------
(***************************************************************************)
(* The safety properties of the semaphore, the completion, the event, the  *)
(* memory pool and the work queue, for any threads, priorities, disciplines*)
(* and limits, and those of the heap, for any sizes.  CallsProofs.tla says *)
(* what the steps of the calls do to the waiters; what is left here is     *)
(* what they do to the object.                                             *)
(***************************************************************************)
EXTENDS Semaphore, Completion, Event, Mempool, WorkQueue, Heap, CallsProofs

-----------------------------------------------------------------------------
(* The semaphore *)

SemInv ==
    /\ CallsInv /\ SemTypeOK /\ Uses("sem")
    /\ NoTokenWhileWaiting /\ TokensConserved

(* A step that wakes nobody, and after which nobody new waits, leaves the      *)
(* account of the tokens as it is.                                           *)
LEMMA SemQuiet ==
    ASSUME SemInv, Quiet, UNCHANGED semaphore, pc' \in [Thread -> CallPoint],
           \A t \in Thread : list'[t] \in {"sem", "none"}
    PROVE  SemInv'
<1>1. Called("sem")' = Called("sem") /\ ToSet(k'.wait["sem"]) \subseteq ToSet(k.wait["sem"])
  BY SemaphoreAssumption DEF Quiet, SameCalled, NobodyJoins
<1>2. waiters' # <<>> => waiters # <<>>
  <2>1. k.wait["sem"] \in Seq(Thread) /\ k'.wait["sem"] \in Seq(Thread)
    BY SemaphoreAssumption, StateFields DEF Quiet, CallsInv, CallsTypeOK, SemInv
  <2>2. ASSUME k.wait["sem"] = <<>> PROVE k'.wait["sem"] = <<>>
    <3>1. ToSet(k.wait["sem"]) = {}
      BY <2>1, <2>2, EmptyList
    <3>2. ToSet(k'.wait["sem"]) = {}
      BY <1>1, <3>1
    <3> QED
      BY <2>1, <3>2, EmptyList
  <2> QED
    BY <2>2 DEF waiters
<1>3. CallsInv' /\ Uses("sem")'
  BY DEF Quiet, Uses
<1>4. SemTypeOK'
  BY <1>3 DEF SemInv, SemTypeOK, CallsInv, semaphore
<1>5. NoTokenWhileWaiting' /\ TokensConserved'
  BY <1>1, <1>2 DEF SemInv, NoTokenWhileWaiting, TokensConserved, semaphore
<1> QED
  BY <1>3, <1>4, <1>5 DEF SemInv

(* The steps every object has.                                               *)
LEMMA SemCommon ==
    ASSUME SemInv, UNCHANGED semaphore,
           (\E t \in Thread : CallSteps(t)) \/ Background \/ UNCHANGED calls
    PROVE  SemInv'
<1>1. CallsInv /\ pc \in [Thread -> CallPoint] /\ \A t \in Thread : list[t] \in {"sem", "none"}
  BY DEF SemInv, SemTypeOK, Uses
<1>2. ASSUME NEW t \in Thread, CallSteps(t) PROVE SemInv'
  <2>1. Quiet
    BY <1>1, <1>2, CallStepsKeep
  <2>2. pc' \in [Thread -> CallPoint] /\ list' = list
    BY <1>1, <1>2, CallStepsPoints
  <2> QED
    BY <1>1, <2>1, <2>2, SemQuiet
<1>3. ASSUME Background PROVE SemInv'
  BY <1>1, <1>3, BackgroundKeeps, BackgroundPoints, SemQuiet
<1>4. ASSUME UNCHANGED calls PROVE SemInv'
  BY <1>1, <1>4, CallsStutter, SemQuiet DEF calls
<1> QED
  BY <1>2, <1>3, <1>4

(* rt_sem_take, with a token or without.                                     *)
LEMMA SemTake ==
    ASSUME SemInv, NEW t \in Thread, rt_sem_take(t) PROVE SemInv'
<1>1. /\ CallsInv /\ k.cur = t /\ t # Idle /\ life = "yes" /\ UNCHANGED object
      /\ pc[t] = "run" /\ k.stat[t] = "ready" /\ "sem" \in WaitList
      /\ pc \in [Thread -> CallPoint] /\ list \in [Thread -> WaitList \union {"none"}]
      /\ value \in Nat /\ value <= SemMax /\ SemMax \in Nat /\ net \in Nat
      /\ Cardinality(Called("sem")) \in Nat
  BY SemaphoreAssumption, CalledFinite
     DEF SemInv, SemTypeOK, rt_sem_take, Enters, At, CallsInv, CallsTypeOK, Runner
<1>2. CASE TakeNow(t)
  <2>1. /\ k' = k /\ pc' = pc /\ list' = list /\ value > 0
        /\ value' = value - 1 /\ net' = net - 1
    BY <1>2 DEF TakeNow
  <2>2. Quiet
    BY <1>1, <2>1, CallsStutter DEF calls
  <2>3. Called("sem")' = Called("sem") /\ waiters' = waiters
    BY <1>1, <2>1, <2>2 DEF Quiet, SameCalled, waiters
  <2>4. NoTokenWhileWaiting' /\ TokensConserved'
    BY <1>1, <2>1, <2>3 DEF SemInv, NoTokenWhileWaiting, TokensConserved
  <2>5. net' \in Nat /\ value' \in 0 .. SemMax
    BY <1>1, <2>1 DEF SemInv, TokensConserved
  <2>6. CallsInv' /\ Uses("sem")' /\ SemTypeOK'
    BY <2>1, <2>2, <2>5 DEF SemInv, SemTypeOK, Uses, Quiet, CallsInv
  <2> QED
    BY <2>4, <2>6 DEF SemInv
<1>3. ASSUME NEW d \in Time, TakeBlock(t, d) PROVE SemInv'
  <2>1. PICK f : f = flag
    OBVIOUS
  <2>2. PICK s : s = Queue(t, "sem", f)
    OBVIOUS
  <2>3. /\ s \in KernelState /\ KernelConsistent(s)
        /\ s.stat = [k.stat EXCEPT ![t] = "suspend"]
        /\ s.timer = [k.timer EXCEPT ![t] = FALSE]
        /\ s.err = [k.err EXCEPT ![t] = "EOK"]
        /\ s.cur = k.cur /\ s.nest = k.nest /\ WaitAdds(s, k, "sem", t)
    BY <1>1, <2>2, QueueEffect
  <2>4. Block(t, s, "sem", d) /\ value = 0 /\ value' = value /\ net' = net
    BY <1>3, <2>1, <2>2 DEF TakeBlock, semaphore
  <2>5. CallsInv' /\ Joins(t, "sem")
    BY <1>1, <2>3, <2>4, BlockKeeps
  <2>6. Called("sem")' = Called("sem")
    <3>1. t \notin Called("sem")
      BY <1>1 DEF Called, InWait
    <3>2. Called("sem")' = Called("sem") \ {t}
      BY <1>1, <2>5 DEF Joins
    <3> QED
      BY <3>1, <3>2
  <2>7. NoTokenWhileWaiting' /\ TokensConserved'
    BY <2>4, <2>6 DEF SemInv, NoTokenWhileWaiting, TokensConserved
  <2>8. pc' \in [Thread -> CallPoint] /\ Uses("sem")'
    BY <1>1, <2>4 DEF Block, CallPoint, Uses, SemInv
  <2>9. SemTypeOK'
    BY <2>4, <2>5, <2>8 DEF SemInv, SemTypeOK, CallsInv
  <2> QED
    BY <2>5, <2>7, <2>8, <2>9 DEF SemInv
<1> QED
  BY <1>2, <1>3 DEF rt_sem_take

(* rt_sem_take returns to a caller that had to wait.                          *)
LEMMA SemTakeReturn ==
    ASSUME SemInv, NEW t \in Thread, TakeReturn(t) PROVE SemInv'
<1>1. /\ CallsInv /\ UNCHANGED <<k, object>> /\ At(t, "woken") /\ Leave(t, "run")
      /\ "sem" \in WaitList /\ pc \in [Thread -> CallPoint]
      /\ list \in [Thread -> WaitList \union {"none"}]
      /\ value' = value /\ net' = IF k.err[t] = "EOK" THEN net - 1 ELSE net
      /\ value \in 0 .. SemMax /\ SemMax \in Nat /\ net \in Nat
  BY SemaphoreAssumption DEF SemInv, SemTypeOK, TakeReturn, CallsInv, CallsTypeOK
<1>2. /\ CallsInv'
      /\ Called("sem")' = Called("sem") \ {t}
      /\ list[t] \in WaitList /\ (k.err[t] = "EOK" <=> t \in Called(list[t]))
  BY <1>1, LeaveKeeps
<1>3. list[t] = "sem"
  BY <1>2, CallsAssumption DEF SemInv, Uses
<1>4. PICK C : C = Called("sem")
  OBVIOUS
<1>5. IsFiniteSet(C) /\ Cardinality(C) \in Nat
  BY <1>4, CalledFinite
<1>6. Cardinality(C \ {t}) = Cardinality(C) - IF t \in C THEN 1 ELSE 0
  <2>1. CASE t \in C
    BY <1>5, <2>1, FS_RemoveElement
  <2>2. CASE t \notin C
    <3>1. C \ {t} = C
      BY <2>2
    <3> QED
      BY <1>5, <2>2, <3>1
  <2> QED
    BY <2>1, <2>2
<1>7. Cardinality(C \ {t}) \in Nat
  BY <1>5, FS_RemoveElement, FS_CardinalityType, FS_Subset
<1>8. net = value + Cardinality(C)
  BY <1>4 DEF SemInv, TokensConserved
<1>9. net' = value' + Cardinality(C \ {t})
  BY <1>1, <1>2, <1>3, <1>4, <1>5, <1>6, <1>8
<1>10. NoTokenWhileWaiting' /\ TokensConserved'
  BY <1>1, <1>2, <1>4, <1>9 DEF SemInv, NoTokenWhileWaiting, TokensConserved, waiters
<1>11. net' \in Nat
  BY <1>1, <1>7, <1>9
<1>12. pc' \in [Thread -> CallPoint] /\ Uses("sem")'
  BY <1>1 DEF Leave, CallPoint, Uses, SemInv
<1>13. SemTypeOK'
  BY <1>1, <1>2, <1>11, <1>12 DEF SemTypeOK, CallsInv
<1> QED
  BY <1>2, <1>10, <1>12, <1>13 DEF SemInv

(* What a release does to the count and to the waiters, together.             *)
LEMMA SemRelease ==
    ASSUME SemInv, Count, "sem" \in WaitList, pc' \in [Thread -> CallPoint], Uses("sem")',
           waiters = <<>> => Quiet,
           waiters # <<>> => CallsInv' /\ \E h \in Thread : Wakes(h, "sem")
    PROVE  SemInv'
<1>1. /\ value \in 0 .. SemMax /\ SemMax \in Nat /\ net \in Nat
      /\ net = value + Cardinality(Called("sem"))
      /\ k.wait["sem"] \in Seq(Thread)
  BY SemaphoreAssumption, StateFields
     DEF SemInv, SemTypeOK, TokensConserved, CallsInv, CallsTypeOK
<1>2. PICK C : C = Called("sem")
  OBVIOUS
<1>3. IsFiniteSet(C) /\ Cardinality(C) \in Nat
  BY <1>2, CalledFinite
<1>4. CASE waiters = <<>>
  <2>1. /\ CallsInv' /\ Called("sem")' = C
        /\ ToSet(k'.wait["sem"]) \subseteq ToSet(k.wait["sem"])
    BY <1>2, <1>4 DEF Quiet, SameCalled, NobodyJoins
  <2>2. waiters' = <<>>
    <3>1. k'.wait["sem"] \in Seq(Thread)
      BY <2>1, StateFields DEF CallsInv, CallsTypeOK
    <3>2. ToSet(k'.wait["sem"]) = {}
      BY <1>1, <1>4, <2>1, EmptyList DEF waiters
    <3> QED
      BY <3>1, <3>2, EmptyList DEF waiters
  <2>3. value' = value + 1 /\ net' = net + 1 /\ value < SemMax
    BY <1>4 DEF Count
  <2>4. net' = value' + Cardinality(C) /\ value' \in 0 .. SemMax /\ net' \in Nat
    BY <1>1, <1>2, <1>3, <2>3
  <2> QED
    BY <2>1, <2>2, <2>4
       DEF SemInv, SemTypeOK, NoTokenWhileWaiting, TokensConserved, CallsInv
<1>5. CASE waiters # <<>>
  <2>1. PICK h \in Thread : Wakes(h, "sem")
    BY <1>5
  <2>2. CallsInv' /\ h \notin C /\ Called("sem")' = C \union {h}
    BY <1>2, <1>5, <2>1 DEF Wakes
  <2>3. Cardinality(C \union {h}) = Cardinality(C) + 1
    BY <1>3, <2>2, FS_AddElement
  <2>4. value' = value /\ net' = net + 1 /\ value = 0
    BY <1>5 DEF Count, SemInv, NoTokenWhileWaiting
  <2>5. net' = value' + Cardinality(C \union {h}) /\ net' \in Nat
    BY <1>1, <1>2, <1>3, <2>3, <2>4
  <2> QED
    BY <1>1, <2>2, <2>4, <2>5
       DEF SemInv, SemTypeOK, NoTokenWhileWaiting, TokensConserved, CallsInv
<1> QED
  BY <1>4, <1>5

(* A release by a thread or by an interrupt handler.                          *)
LEMMA SemReleases ==
    ASSUME SemInv, (\E t \in Thread : rt_sem_release(t)) \/ IsrRelease PROVE SemInv'
<1>1. /\ CallsInv /\ "sem" \in WaitList /\ pc \in [Thread -> CallPoint]
      /\ list \in [Thread -> WaitList \union {"none"}]
  BY SemaphoreAssumption DEF SemInv, SemTypeOK, CallsInv, CallsTypeOK
<1>2. ASSUME NEW t \in Thread, rt_sem_release(t) PROVE SemInv'
  <2>1. /\ life = "yes" /\ UNCHANGED object /\ k.cur = t /\ ~InWait(t)
        /\ Count /\ Wake(t, "sem")
    BY <1>2 DEF rt_sem_release, Enters, At, InWait
  <2>2. pc' \in [Thread -> CallPoint] /\ Uses("sem")'
    BY <1>1, <2>1 DEF Wake, Leave, CallPoint, Uses, SemInv
  <2>3. /\ k.wait["sem"] = <<>> => Quiet
        /\ k.wait["sem"] # <<>> => CallsInv' /\ \E h \in Thread : Wakes(h, "sem")
    BY <1>1, <2>1, WakeKeeps
  <2> QED
    BY <1>1, <2>1, <2>2, <2>3, SemRelease DEF waiters
<1>3. ASSUME IsrRelease PROVE SemInv'
  <2>1. life = "yes" /\ UNCHANGED <<pc, list, object>> /\ Count /\ IsrWake("sem")
    BY <1>3 DEF IsrRelease
  <2>2. pc' \in [Thread -> CallPoint] /\ Uses("sem")'
    BY <1>1, <2>1 DEF Uses, SemInv
  <2>3. /\ k.wait["sem"] = <<>> => Quiet
        /\ k.wait["sem"] # <<>> => CallsInv' /\ \E h \in Thread : Wakes(h, "sem")
    BY <1>1, <2>1, IsrWakeKeeps
  <2> QED
    BY <1>1, <2>1, <2>2, <2>3, SemRelease DEF waiters
<1> QED
  BY <1>2, <1>3

(* RT_IPC_CMD_RESET and rt_sem_detach.                                        *)
LEMMA SemControl ==
    ASSUME SemInv, NEW t \in Thread,
           (\E v \in 0 .. SemMax : rt_sem_control(t, v)) \/ rt_sem_detach(t)
    PROVE  SemInv'
<1>1. /\ CallsInv /\ "sem" \in WaitList /\ pc \in [Thread -> CallPoint]
      /\ SemMax \in Nat /\ IsFiniteSet(Called("sem")) /\ Cardinality(Called("sem")) \in Nat
  BY SemaphoreAssumption, CalledFinite DEF SemInv, SemTypeOK
<1>2. ASSUME NEW v \in 0 .. SemMax, rt_sem_control(t, v) PROVE SemInv'
  <2>1. /\ life = "yes" /\ UNCHANGED object /\ At(t, "run") /\ Goto(t, "schedule")
        /\ k' = rt_ipc_list_resume_all(k, "sem")
        /\ value' = v /\ net' = v + Cardinality(Called("sem"))
    BY <1>2 DEF rt_sem_control, Enters
  <2>2. Quiet /\ k'.wait["sem"] = <<>>
    BY <1>1, <2>1, ResumeAllKeeps
  <2>3. Called("sem")' = Called("sem") /\ CallsInv'
    BY <1>1, <2>2 DEF Quiet, SameCalled
  <2>4. pc' \in [Thread -> CallPoint] /\ Uses("sem")'
    BY <1>1, <2>1 DEF Goto, CallPoint, Uses, SemInv
  <2>5. value' \in 0 .. SemMax /\ net' \in Nat
    BY <1>1, <2>1
  <2> QED
    BY <2>1, <2>2, <2>3, <2>4, <2>5
       DEF SemInv, SemTypeOK, NoTokenWhileWaiting, TokensConserved, waiters, CallsInv
<1>3. ASSUME rt_sem_detach(t) PROVE SemInv'
  <2>1. StartDetach(t, <<"sem">>) /\ UNCHANGED semaphore
    BY <1>3 DEF rt_sem_detach
  <2>2. \A x \in Thread, l \in WaitList : On(x, l) => l \in ToSet(<<"sem">>)
    <3>1. "sem" \in ToSet(<<"sem">>)
      BY DEF ToSet
    <3> QED
      BY <1>1, <3>1, UsesOne DEF SemInv
  <2>3. Quiet
    <3>1. <<"sem">> \in Seq(WaitList) /\ <<"sem">> # <<>>
      BY <1>1
    <3> QED
      BY <1>1, <2>1, <2>2, <3>1, DetachStarts
  <2>4. pc' \in [Thread -> CallPoint] /\ list' = list
    BY <1>1, <2>1 DEF StartDetach, Goto, CallPoint
  <2> QED
    BY <2>1, <2>3, <2>4, SemQuiet DEF SemInv, Uses
<1> QED
  BY <1>2, <1>3

(* The inductive invariant of the semaphore, whatever takes, releases, resets, *)
(* timeouts, interrupts and a detach race with one another.                   *)
THEOREM SemaphoreInvariance == SemSpec => []SemInv
<1>1. CallsInit /\ SemInit => SemInv
  <2> SUFFICES ASSUME CallsInit, SemInit PROVE SemInv
    OBVIOUS
  <2>1. /\ CallsInv /\ Called("sem") = {} /\ k.wait["sem"] = <<>>
        /\ \A t \in Thread : list[t] = "none"
    BY CallsStart, SemaphoreAssumption
  <2>2. Cardinality({}) = 0
    BY FS_EmptySet
  <2>3. pc \in [Thread -> CallPoint]
    BY DEF CallsInit, CallPoint
  <2>4. value \in 0 .. SemMax /\ net \in Nat /\ net = value + 0
    BY SemaphoreAssumption DEF SemInit
  <2> QED
    BY <2>1, <2>2, <2>3, <2>4
       DEF SemInv, SemTypeOK, Uses, NoTokenWhileWaiting, TokensConserved, waiters, CallsInv
<1>2. SemInv /\ [SemNext]_<<calls, semaphore>> => SemInv'
  <2> SUFFICES ASSUME SemInv, [SemNext]_<<calls, semaphore>> PROVE SemInv'
    OBVIOUS
  <2>1. CASE UNCHANGED <<calls, semaphore>>
    BY <2>1, SemCommon
  <2>2. CASE SemNext
    BY <2>2, SemCommon, SemTake, SemTakeReturn, SemReleases, SemControl
       DEF SemNext, SemSteps
  <2> QED
    BY <2>1, <2>2
<1> QED
  BY <1>1, <1>2, PTL DEF SemSpec

(* No token of a semaphore is lost or given twice: what was released is counted *)
(* in value or was given to one woken thread, and rt_sem_take returns RT_EOK   *)
(* for nothing else, however timeouts race with releases and resets.  Nobody   *)
(* sleeps in rt_sem_take beside a token.                                      *)
THEOREM TokensAlwaysKept == SemSpec => []TokensKept
<1>1. SemInv => TokensKept
  BY DEF SemInv, TokensKept
<1> QED
  BY <1>1, SemaphoreInvariance, PTL

(* A semaphore whose waiters are untimed when it is detached forgets nobody,   *)
(* and rt_ipc_list_resume_all resumes nothing but threads.                    *)
THEOREM SemaphoreForgetsNobody ==
    ASSUME ~DetachTimed PROVE SemSpec => []NobodyForgotten
<1>1. SemInv => NobodyForgotten
  BY NothingForgotten DEF SemInv, NobodyForgotten
<1> QED
  BY <1>1, SemaphoreInvariance, PTL
-----------------------------------------------------------------------------
(* The completion *)

\* One thread at a time is inside rt_completion_wait, as it asserts.
OneWaits == \A t, u \in Thread : InWait(t) /\ InWait(u) => t = u

\* A completion is static: nobody detaches it.
CompletionInv ==
    /\ CallsInv /\ CompletionTypeOK /\ life = "yes" /\ ~wild
    /\ Uses("completion") /\ OneWaits
    /\ SignalKept /\ NoWaiterOnCompleted

\* What the steps of a completion keep besides the report itself.
CompletionFrame ==
    /\ life' = "yes" /\ ~wild' /\ Uses("completion")' /\ OneWaits'
    /\ pc' \in [Thread -> CompletionPoint]

(* What an action is given, in the terms of CallsProofs.tla.                  *)
LEMMA CompletionFacts ==
    ASSUME CompletionInv
    PROVE  /\ CallsInv /\ life = "yes" /\ ~wild /\ "completion" \in WaitList
           /\ pc \in [Thread -> CompletionPoint]
           /\ list \in [Thread -> WaitList \union {"none"}]
           /\ completed \in BOOLEAN /\ signal \in {"none", "raised", "dropped"}
           /\ k.wait["completion"] \in Seq(Thread)
           /\ \A t \in Thread : t \in ToSet(k.wait["completion"]) => InWait(t)
           /\ \A t \in Thread : t \in Called("completion") => InWait(t)
           /\ Called("completion") \subseteq Thread
           /\ ToSet(k.wait["completion"]) \subseteq Thread
<1>1. /\ CallsInv /\ life = "yes" /\ ~wild /\ "completion" \in WaitList
      /\ pc \in [Thread -> CompletionPoint]
      /\ list \in [Thread -> WaitList \union {"none"}]
      /\ completed \in BOOLEAN /\ signal \in {"none", "raised", "dropped"}
  BY CompletionAssumption DEF CompletionInv, CompletionTypeOK, CallsTypeOK
<1>2. k \in KernelState
  BY <1>1 DEF CallsInv, CallsTypeOK
<1>3. k.wait["completion"] \in Seq(Thread) /\ ToSet(k.wait["completion"]) \subseteq Thread
  BY <1>1, <1>2, StateFields
<1>4. \A t \in Thread : t \in ToSet(k.wait["completion"]) => InWait(t)
  BY <1>1 DEF CallsInv, ThreadOK, On, Waiting
<1>5. \A t \in Thread : t \in Called("completion") => InWait(t)
  BY DEF Called
<1>6. Called("completion") \subseteq Thread
  BY DEF Called
<1> QED
  BY <1>1, <1>3, <1>4, <1>5, <1>6

(* A step that makes no report and wakes nobody.                              *)
LEMMA CompletionQuiet ==
    ASSUME CompletionInv, Quiet, UNCHANGED completion, CompletionFrame
    PROVE  CompletionInv'
<1>1. /\ Called("completion")' = Called("completion")
      /\ ToSet(k'.wait["completion"]) \subseteq ToSet(k.wait["completion"])
  BY CompletionAssumption DEF Quiet, SameCalled, NobodyJoins
<1>2. k.wait["completion"] \in Seq(Thread) /\ k'.wait["completion"] \in Seq(Thread)
  BY CompletionAssumption, StateFields DEF Quiet, CallsInv, CallsTypeOK, CompletionInv
<1>3. ASSUME k.wait["completion"] = <<>> PROVE k'.wait["completion"] = <<>>
  <2>1. ToSet(k'.wait["completion"]) = {}
    BY <1>1, <1>2, <1>3, EmptyList
  <2> QED
    BY <1>2, <2>1, EmptyList
<1>4. SignalKept' /\ NoWaiterOnCompleted'
  BY <1>1, <1>3 DEF CompletionInv, SignalKept, NoWaiterOnCompleted, completion
<1>5. CallsInv' /\ CompletionTypeOK'
  BY DEF CompletionInv, CompletionFrame, CompletionTypeOK, Quiet, CallsInv, completion
<1> QED
  BY <1>4, <1>5 DEF CompletionInv, CompletionFrame

(* The steps every object has.                                               *)
LEMMA CompletionCommon ==
    ASSUME CompletionInv, UNCHANGED completion,
           (\E t \in Thread : CallSteps(t)) \/ Background \/ UNCHANGED calls
    PROVE  CompletionInv'
<1>1. /\ CallsInv /\ life = "yes" /\ ~wild /\ pc \in [Thread -> CompletionPoint]
  BY CompletionFacts
<1>2. ASSUME UNCHANGED <<list, object>>, Quiet, pc' \in [Thread -> CompletionPoint],
             \A x \in Thread : InWait(x)' = InWait(x)
      PROVE  CompletionInv'
  <2>1. CompletionFrame
    BY <1>1, <1>2 DEF CompletionFrame, CompletionInv, Uses, OneWaits, object
  <2> QED
    BY <1>2, <2>1, CompletionQuiet
<1>3. ASSUME NEW t \in Thread, CallSteps(t) PROVE CompletionInv'
  <2>1. Quiet
    BY <1>1, <1>3, CallStepsKeep
  <2>2. CallPoint \subseteq CompletionPoint
    BY DEF CompletionPoint
  <2>3. /\ pc' \in [Thread -> CompletionPoint] /\ list' = list
        /\ \A x \in Thread : InWait(x)' = InWait(x)
    BY <1>1, <1>3, <2>2, CallStepsPoints
  <2>4. UNCHANGED object
    <3>1. ~Sweeps(t)
      BY <1>1 DEF CallsInv, SweepOK
    <3> QED
      BY <1>3, <3>1 DEF CallSteps, SweepTest, SweepResume, At, Sweeps
  <2> QED
    BY <1>2, <2>1, <2>3, <2>4
<1>4. ASSUME Background PROVE CompletionInv'
  BY <1>1, <1>2, <1>4, BackgroundKeeps, BackgroundPoints
<1>5. ASSUME UNCHANGED calls PROVE CompletionInv'
  <2>1. UNCHANGED <<list, object, pc>>
    BY <1>5 DEF calls
  <2>2. Quiet
    BY <1>1, <1>5, CallsStutter
  <2> QED
    BY <1>1, <1>2, <2>1, <2>2 DEF InWait
<1> QED
  BY <1>3, <1>4, <1>5

(* While nobody waits, nobody is on the list and nobody was called.           *)
LEMMA NobodyInWait ==
    ASSUME CompletionInv, \A t \in Thread : ~InWait(t)
    PROVE  Called("completion") = {} /\ k.wait["completion"] = <<>>
<1>1. Called("completion") = {} /\ ToSet(k.wait["completion"]) = {}
  BY CompletionFacts
<1> QED
  BY <1>1, CompletionFacts, EmptyList

(* rt_completion_init and the wait that finds the flag set.                   *)
LEMMA CompletionClears ==
    ASSUME CompletionInv, NEW t \in Thread, \A u \in Thread : ~InWait(u),
           UNCHANGED calls, completed' = FALSE, signal' = "none"
    PROVE  CompletionInv'
<1>1. Called("completion") = {}
  BY NobodyInWait
<1>2. UNCHANGED <<k, pc, list, object>>
  BY DEF calls
<1>3. Quiet
  BY CallsStutter, CompletionFacts
<1>4. Called("completion")' = {} /\ CallsInv'
  BY <1>1, <1>3, CompletionAssumption DEF Quiet, SameCalled
<1>5. CompletionFrame
  BY <1>2 DEF CompletionFrame, CompletionInv, CompletionTypeOK, Uses, OneWaits, InWait, object
<1>6. CompletionTypeOK'
  BY <1>4, <1>5 DEF CompletionTypeOK, CompletionFrame, CallsInv
<1>7. SignalKept' /\ NoWaiterOnCompleted'
  BY <1>4 DEF SignalKept, NoWaiterOnCompleted
<1> QED
  BY <1>4, <1>5, <1>6, <1>7 DEF CompletionInv, CompletionFrame

(* rt_completion_wait.                                                       *)
LEMMA CompletionWait ==
    ASSUME CompletionInv, NEW t \in Thread, rt_completion_wait(t) PROVE CompletionInv'
<1>1. /\ CallsInv /\ k.cur = t /\ t # Idle /\ life = "yes" /\ UNCHANGED object
      /\ pc[t] = "run" /\ k.stat[t] = "ready" /\ "completion" \in WaitList
      /\ pc \in [Thread -> CompletionPoint] /\ ~wild
      /\ list \in [Thread -> WaitList \union {"none"}]
      /\ completed \in BOOLEAN /\ signal \in {"none", "raised", "dropped"}
  BY CompletionFacts DEF rt_completion_wait, Enters, At, CallsInv, Runner
<1>2. \A u \in Thread : ~InWait(u)
  BY <1>1 DEF rt_completion_wait, OnlyWaiter, InWait
<1>3. Called("completion") = {}
  BY <1>2, NobodyInWait
<1>4. CASE WaitNow(t)
  <2>1. UNCHANGED calls /\ completed' = FALSE /\ signal' = "none"
    BY <1>1, <1>4 DEF WaitNow, calls
  <2> QED
    BY <1>2, <2>1, CompletionClears
<1>5. ASSUME NEW d \in Time, WaitBlock(t, d) PROVE CompletionInv'
  <2>1. PICK s : s = Queue(t, "completion", "FIFO")
    OBVIOUS
  <2>2. /\ s \in KernelState /\ KernelConsistent(s)
        /\ s.stat = [k.stat EXCEPT ![t] = "suspend"]
        /\ s.timer = [k.timer EXCEPT ![t] = FALSE]
        /\ s.err = [k.err EXCEPT ![t] = "EOK"]
        /\ s.cur = k.cur /\ s.nest = k.nest /\ WaitAdds(s, k, "completion", t)
    BY <1>1, <2>1, QueueEffect
  <2>3. Block(t, s, "completion", d) /\ ~completed /\ UNCHANGED completion
    BY <1>5, <2>1 DEF WaitBlock
  <2>4. CallsInv' /\ Joins(t, "completion")
    BY <1>1, <2>2, <2>3, BlockKeeps
  <2>5. Called("completion")' = {}
    BY <1>1, <1>3, <2>4 DEF Joins
  <2>6. SignalKept' /\ NoWaiterOnCompleted'
    BY <1>3, <2>3, <2>5 DEF CompletionInv, SignalKept, NoWaiterOnCompleted, completion
  <2>7. /\ pc' = [pc EXCEPT ![t] = "wait"]
        /\ list' = [list EXCEPT ![t] = "completion"]
    BY <2>3 DEF Block
  <2>8. pc' \in [Thread -> CompletionPoint]
    BY <1>1, <2>7 DEF CompletionPoint, CallPoint
  <2>9. Uses("completion")' /\ OneWaits'
    BY <1>1, <1>2, <2>7 DEF CompletionInv, Uses, OneWaits, InWait
  <2>10. CompletionTypeOK'
    BY <1>1, <2>3, <2>4, <2>8 DEF CompletionTypeOK, CallsInv, completion
  <2> QED
    BY <1>1, <2>4, <2>6, <2>9, <2>10 DEF CompletionInv, object
<1> QED
  BY <1>4, <1>5 DEF rt_completion_wait

(* rt_completion_wait returns to a caller that had to wait.                    *)
LEMMA CompletionReturn ==
    ASSUME CompletionInv, NEW t \in Thread, WaitReturn(t) PROVE CompletionInv'
<1>1. /\ CallsInv /\ UNCHANGED <<k, object>> /\ At(t, "woken") /\ Leave(t, "run")
      /\ completed' = FALSE
      /\ signal' = IF k.err[t] = "EOK" THEN "none"
                   ELSE IF signal = "raised" THEN "dropped" ELSE signal
  BY CompletionFacts DEF WaitReturn
<1>2. CallsInv' /\ Called("completion")' = Called("completion") \ {t}
  BY <1>1, LeaveKeeps, CompletionAssumption
<1>3. InWait(t)
  BY <1>1 DEF At, InWait
<1>4. Called("completion")' = {}
  BY <1>2, <1>3, CompletionFacts DEF CompletionInv, OneWaits
<1>5. signal' \in {"none", "dropped"}
  BY <1>1, CompletionFacts
<1>6. SignalKept' /\ NoWaiterOnCompleted'
  BY <1>1, <1>4, <1>5 DEF SignalKept, NoWaiterOnCompleted
<1>7. /\ pc' = [pc EXCEPT ![t] = "run"]
      /\ list' = [list EXCEPT ![t] = "none"]
  BY <1>1 DEF Leave
<1>8. pc' \in [Thread -> CompletionPoint] /\ Uses("completion")' /\ OneWaits'
  BY <1>7, CompletionFacts DEF CompletionInv, Uses, OneWaits, InWait, CompletionPoint, CallPoint
<1>9. CompletionTypeOK'
  BY <1>1, <1>2, <1>5, <1>8 DEF CompletionTypeOK, CallsInv
<1> QED
  BY <1>1, <1>2, <1>6, <1>8, <1>9 DEF CompletionInv, object

(* A report: the only waiter, if there is one, is woken.                       *)
LEMMA CompletionReport ==
    ASSUME CompletionInv, completed' = TRUE, signal' = "raised", CompletionFrame,
           k.wait["completion"] = <<>> => Quiet,
           k.wait["completion"] # <<>> => CallsInv' /\ \E h \in Thread : Wakes(h, "completion")
    PROVE  CompletionInv'
<1>1. /\ CallsInv' /\ ToSet(k'.wait["completion"]) = {}
  <2>1. CASE k.wait["completion"] = <<>>
    <3>1. ToSet(k.wait["completion"]) = {}
      BY <2>1, CompletionFacts, EmptyList
    <3> QED
      BY <2>1, <3>1, CompletionAssumption DEF Quiet, NobodyJoins
  <2>2. CASE k.wait["completion"] # <<>>
    <3>1. PICK h \in Thread : CallsInv' /\ Wakes(h, "completion")
      BY <2>2
    <3>2. /\ h \in ToSet(k.wait["completion"])
          /\ ToSet(k'.wait["completion"]) = ToSet(k.wait["completion"]) \ {h}
      BY <3>1, CompletionAssumption DEF Wakes
    <3>3. \A u \in ToSet(k.wait["completion"]) : u = h
      BY <3>2, CompletionFacts DEF CompletionInv, OneWaits
    <3> QED
      BY <3>1, <3>2, <3>3
  <2> QED
    BY <2>1, <2>2
<1>2. k' \in KernelState
  BY <1>1 DEF CallsInv, CallsTypeOK
<1>3. k'.wait["completion"] \in Seq(Thread)
  BY <1>2, StateFields, CompletionAssumption
<1>4. k'.wait["completion"] = <<>>
  BY <1>1, <1>3, EmptyList
<1>5. SignalKept' /\ NoWaiterOnCompleted'
  BY <1>4 DEF SignalKept, NoWaiterOnCompleted
<1>6. CompletionTypeOK'
  BY <1>1 DEF CompletionTypeOK, CompletionFrame, CallsInv
<1> QED
  BY <1>1, <1>5, <1>6 DEF CompletionInv, CompletionFrame

(* rt_completion_done, by a thread or by an interrupt handler.                 *)
LEMMA CompletionDone ==
    ASSUME CompletionInv,
           (\E t \in Thread : DoneTest(t) \/ DoneSet(t)) \/ IsrDone
    PROVE  CompletionInv'
<1>1. /\ CallsInv /\ life = "yes" /\ ~wild /\ "completion" \in WaitList
      /\ pc \in [Thread -> CompletionPoint]
      /\ list \in [Thread -> WaitList \union {"none"}]
  BY CompletionFacts
<1>2. ASSUME NEW t \in Thread, DoneTest(t) PROVE CompletionInv'
  <2>1. /\ pc' = [pc EXCEPT ![t] = "done"] /\ UNCHANGED <<k, list, object, completion>>
        /\ pc[t] = "run" /\ k.cur = t
    BY <1>2 DEF DoneTest, Goto, Enters, At
  <2>2. /\ pc' \in [Thread -> CompletionPoint]
        /\ \A x \in Thread : InWait(x)' = InWait(x)
        /\ \A x \in Thread : Stays(x)
    BY <1>1, <2>1 DEF CompletionPoint, InWait, Stays, Sweeps
  <2>3. Call
    BY <1>1, <2>1, <2>2 DEF Call
  <2>4. KernelOK /\ Runner'
    BY <1>1, <2>1 DEF KernelOK, CallsInv, CallsTypeOK, Runner
  <2>5. \A x \in Thread : SameView(k', k, x)
    BY <2>1 DEF SameView
  <2>6. Quiet
    BY <1>1, <2>2, <2>3, <2>4, <2>5, PlainCall
  <2>7. CompletionFrame
    BY <1>1, <2>1, <2>2 DEF CompletionFrame, CompletionInv, Uses, OneWaits, object
  <2> QED
    BY <2>1, <2>6, <2>7, CompletionQuiet
<1>3. ASSUME NEW t \in Thread, DoneSet(t) PROVE CompletionInv'
  <2>1. /\ UNCHANGED object /\ k.cur = t /\ pc[t] = "done" /\ Wake(t, "completion")
        /\ completed' = TRUE /\ signal' = "raised"
    BY <1>3 DEF DoneSet, At
  <2>2. ~InWait(t)
    BY <2>1 DEF InWait
  <2>3. PICK c \in {"run", "schedule"} : Leave(t, c)
    BY <2>1 DEF Wake
  <2>4. /\ pc' \in [Thread -> CompletionPoint] /\ Uses("completion")' /\ OneWaits'
    BY <1>1, <2>3
       DEF Leave, CompletionInv, Uses, OneWaits, InWait, CompletionPoint, CallPoint
  <2>5. CompletionFrame
    BY <1>1, <2>1, <2>4 DEF CompletionFrame, object
  <2>6. /\ k.wait["completion"] = <<>> => Quiet
        /\ k.wait["completion"] # <<>> =>
               CallsInv' /\ \E h \in Thread : Wakes(h, "completion")
    BY <1>1, <2>1, <2>2, WakeKeeps
  <2> QED
    BY <2>1, <2>5, <2>6, CompletionReport
<1>4. ASSUME IsrDone PROVE CompletionInv'
  <2>1. /\ UNCHANGED <<pc, list, object>> /\ IsrWake("completion")
        /\ completed' = TRUE /\ signal' = "raised"
    BY <1>4 DEF IsrDone
  <2>2. CompletionFrame
    BY <1>1, <2>1 DEF CompletionFrame, CompletionInv, Uses, OneWaits, InWait, object
  <2>3. /\ k.wait["completion"] = <<>> => Quiet
        /\ k.wait["completion"] # <<>> =>
               CallsInv' /\ \E h \in Thread : Wakes(h, "completion")
    BY <1>1, <2>1, IsrWakeKeeps
  <2> QED
    BY <2>1, <2>2, <2>3, CompletionReport
<1> QED
  BY <1>2, <1>3, <1>4

(* The inductive invariant of the completion.                                 *)
THEOREM CompletionInvariance == CompletionSpec => []CompletionInv
<1>1. CallsInit /\ CompletionInit => CompletionInv
  <2> SUFFICES ASSUME CallsInit, CompletionInit PROVE CompletionInv
    OBVIOUS
  <2>1. /\ CallsInv /\ Called("completion") = {} /\ k.wait["completion"] = <<>>
        /\ \A t \in Thread : pc[t] = "run" /\ list[t] = "none"
    BY CallsStart, CompletionAssumption
  <2>2. pc \in [Thread -> CompletionPoint] /\ life = "yes" /\ ~wild
    BY DEF CallsInit, CompletionPoint, CallPoint
  <2>3. Uses("completion") /\ OneWaits
    BY <2>1 DEF Uses, OneWaits, InWait
  <2> QED
    BY <2>1, <2>2, <2>3
       DEF CompletionInv, CompletionTypeOK, CompletionInit, CallsInv, SignalKept,
           NoWaiterOnCompleted
<1>2. CompletionInv /\ [CompletionNext]_<<calls, completion>> => CompletionInv'
  <2> SUFFICES ASSUME CompletionInv, [CompletionNext]_<<calls, completion>>
               PROVE  CompletionInv'
    OBVIOUS
  <2>1. CASE UNCHANGED <<calls, completion>>
    BY <2>1, CompletionCommon
  <2>2. ASSUME NEW t \in Thread, rt_completion_init(t) PROVE CompletionInv'
    BY <2>2, CompletionClears DEF rt_completion_init
  <2>3. CASE CompletionNext
    BY <2>2, <2>3, CompletionCommon, CompletionWait, CompletionReturn, CompletionDone
       DEF CompletionNext
  <2> QED
    BY <2>1, <2>3
<1> QED
  BY <1>1, <1>2, PTL DEF CompletionSpec

(* A report of rt_completion_done is neither lost nor received twice, whatever *)
(* time out, done and interrupt race: until a wait receives it the flag is     *)
(* set, or the woken waiter is about to return RT_EOK.  Nobody sleeps in       *)
(* rt_completion_wait beside a completed operation.                           *)
THEOREM ReportAlwaysKept == CompletionSpec => []ReportKept
<1>1. CompletionInv => ReportKept
  BY DEF CompletionInv, ReportKept
<1> QED
  BY <1>1, CompletionInvariance, PTL

(* Neither a timeout nor a report leaves a waiter of a completion suspended on *)
(* no list, or on the list after it has gone on.                              *)
THEOREM CompletionForgetsNobody == CompletionSpec => []NobodyForgotten
<1>1. CompletionInv => NobodyForgotten
  BY NothingForgotten DEF CompletionInv, NobodyForgotten, ResumesThreads
<1> QED
  BY <1>1, CompletionInvariance, PTL
-----------------------------------------------------------------------------
(* The event *)

\* Those on the wait list still want what they asked for.
WaitersAsk ==
    \A t \in Thread :
        t \in ToSet(k.wait["event"]) =>
            event_info[t] \in EventRequest /\ event_set[t] = event_info[t].set

EventInv ==
    /\ CallsInv /\ EventTypeOK /\ Uses("event")
    /\ NoSatisfiedWaiter /\ ReceivedWhatWasAsked /\ WaitersAsk

\* The bits a waiter gets: all it wants, or some of them.
Granted(got, want, all) == IF all THEN got = want ELSE got # {} /\ got \subseteq want

\* What the walk of rt_event_send works on.
WalkState ==
    [k : {s \in KernelState : KernelConsistent(s)}, set : SUBSET Bit,
     event_set : [Thread -> SUBSET Bit]]

\* The walk is in state w, has passed the waiters D and served H of them.
Walked(w, H, D) ==
    /\ w \in WalkState /\ H \subseteq D
    /\ w.k.cur = k.cur /\ w.k.nest = k.nest
    /\ \A x \in Thread \ H : SameView(w.k, k, x) /\ w.event_set[x] = event_set[x]
    /\ \A x \in H : /\ Roused(w.k, x)
                    /\ Granted(w.event_set[x], event_set[x], event_info[x].all)
                    /\ event_info[x].clear => w.event_set[x] \intersect w.set = {}
    /\ \A x, y \in H : x # y /\ event_info[x].clear /\ event_info[y].clear
                           => w.event_set[x] \intersect w.event_set[y] = {}
    /\ \A x \in D \ H : ~Satisfied(w.set, event_set[x], event_info[x].all)

(* Bits that are missing from a set are missing from any part of it.          *)
LEMMA SatisfiedMonotone ==
    ASSUME NEW a, NEW b, a \subseteq b, NEW want, NEW all, Satisfied(a, want, all)
    PROVE  Satisfied(b, want, all)
BY DEF Satisfied

(* One round of the walk.                                                     *)
LEMMA ServeEffect ==
    ASSUME NEW w \in WalkState, NEW t \in Thread, NEW q, q = Serve(w, t),
           w.k.stat[t] = "suspend", w.k.err[t] = "EOK",
           Satisfied(w.set, w.event_set[t], event_info[t].all)
    PROVE  /\ q \in WalkState /\ q.k.cur = w.k.cur /\ q.k.nest = w.k.nest
           /\ q.set \subseteq w.set
           /\ \A x \in Thread \ {t} :
                  SameView(q.k, w.k, x) /\ q.event_set[x] = w.event_set[x]
           /\ Roused(q.k, t)
           /\ Granted(q.event_set[t], w.event_set[t], event_info[t].all)
           /\ q.event_set[t] \subseteq w.set
           /\ event_info[t].clear => q.event_set[t] \intersect q.set = {}
<1>1. PICK s : s = w.k
  OBVIOUS
<1>2. /\ s \in KernelState /\ KernelConsistent(s)
      /\ w.set \in SUBSET Bit /\ w.event_set \in [Thread -> SUBSET Bit]
  BY <1>1 DEF WalkState
<1>3. PICK got : got = IF event_info[t].all THEN w.event_set[t]
                       ELSE w.event_set[t] \intersect w.set
  OBVIOUS
<1>4. PICK r : r = rt_thread_resume(s, t)
  OBVIOUS
<1>5. q = [k |-> r, set |-> IF event_info[t].clear THEN w.set \ got ELSE w.set,
           event_set |-> [w.event_set EXCEPT ![t] = got]]
  BY <1>1, <1>3, <1>4 DEF Serve
<1>6. /\ q.k = r /\ q.event_set = [w.event_set EXCEPT ![t] = got]
      /\ q.set = IF event_info[t].clear THEN w.set \ got ELSE w.set
  BY <1>5
<1>7. /\ r \in KernelState
      /\ KernelConsistent(r)
      /\ r.stat = [s.stat EXCEPT ![t] = "ready"]
      /\ r.timer = [s.timer EXCEPT ![t] = FALSE]
      /\ r.prio = s.prio /\ r.cur = s.cur /\ r.nest = s.nest /\ r.err = s.err
      /\ WaitDrops(r, s, t)
  <2>1. s.stat[t] = "suspend"
    BY <1>1
  <2> QED
    BY ONLY <1>2, <1>4, <2>1, t \in Thread, ResumeEffect
<1>8. got \subseteq w.set /\ got \in SUBSET Bit /\ Granted(got, w.event_set[t], event_info[t].all)
  BY <1>2, <1>3 DEF Satisfied, Granted
<1>9. q \in WalkState
  BY <1>2, <1>5, <1>7, <1>8 DEF WalkState
<1>10. s.stat \in [Thread -> Stat] /\ s.timer \in [Thread -> BOOLEAN]
  BY <1>2, StateFields
<1>11. \A m \in WaitList : ToSet(r.wait[m]) = ToSet(s.wait[m]) \ {t}
  BY <1>7 DEF WaitDrops
<1>12. \A x \in Thread \ {t} : SameView(r, s, x)
  BY <1>7, <1>10, <1>11 DEF SameView
<1>13. Roused(r, t)
  BY <1>1, <1>7, <1>10, <1>11 DEF Roused
<1>14. q.event_set[t] = got /\ \A x \in Thread \ {t} : q.event_set[x] = w.event_set[x]
  BY <1>2, <1>6
<1>15. q.set \subseteq w.set /\ (event_info[t].clear => got \intersect q.set = {})
  BY <1>6
<1> QED
  BY <1>1, <1>6, <1>7, <1>8, <1>9, <1>12, <1>13, <1>14, <1>15

(* The walk passes one more waiter, and serves it if its condition holds.      *)
LEMMA WalkStep ==
    ASSUME NEW w, NEW H, NEW D, Walked(w, H, D), NEW t \in Thread, t \notin D,
           D \subseteq Thread, k.stat[t] = "suspend", k.err[t] = "EOK",
           NEW q, q = Serve(w, t)
    PROVE  \E G : Walked(q, G, D \union {t})
<1>1. /\ w \in WalkState /\ H \subseteq D /\ t \in Thread \ H
      /\ w.k.cur = k.cur /\ w.k.nest = k.nest
      /\ SameView(w.k, k, t) /\ w.event_set[t] = event_set[t]
  BY DEF Walked
<1>2. CASE ~Satisfied(w.set, w.event_set[t], event_info[t].all)
  <2>1. q = w
    BY <1>2 DEF Serve
  <2>2. Walked(q, H, D \union {t})
    BY <1>1, <1>2, <2>1 DEF Walked
  <2> QED
    BY <2>2
<1>3. CASE Satisfied(w.set, w.event_set[t], event_info[t].all)
  <2> DEFINE G == H \union {t}
  <2>1. w.k.stat[t] = "suspend" /\ w.k.err[t] = "EOK"
    BY <1>1 DEF SameView
  <2>2. /\ q \in WalkState /\ q.k.cur = w.k.cur /\ q.k.nest = w.k.nest
        /\ q.set \subseteq w.set
        /\ \A x \in Thread \ {t} :
               SameView(q.k, w.k, x) /\ q.event_set[x] = w.event_set[x]
        /\ Roused(q.k, t)
        /\ Granted(q.event_set[t], w.event_set[t], event_info[t].all)
        /\ q.event_set[t] \subseteq w.set
        /\ event_info[t].clear => q.event_set[t] \intersect q.set = {}
    BY ONLY <1>1, <1>3, <2>1, t \in Thread, q = Serve(w, t), ServeEffect
  <2>3. ASSUME NEW x \in Thread \ G
        PROVE  SameView(q.k, k, x) /\ q.event_set[x] = event_set[x]
    <3>1. SameView(q.k, w.k, x) /\ SameView(w.k, k, x)
          /\ q.event_set[x] = w.event_set[x] /\ w.event_set[x] = event_set[x]
      BY <2>2, <2>3 DEF Walked
    <3> QED
      BY <3>1 DEF SameView
  <2>4. ASSUME NEW x \in H
        PROVE  /\ x \in Thread \ {t} /\ Roused(q.k, x) /\ q.event_set[x] = w.event_set[x]
               /\ Granted(q.event_set[x], event_set[x], event_info[x].all)
               /\ event_info[x].clear => /\ q.event_set[x] \intersect q.set = {}
                                         /\ q.event_set[x] \intersect q.event_set[t] = {}
    <3>1. /\ x \in Thread \ {t} /\ Roused(w.k, x)
          /\ Granted(w.event_set[x], event_set[x], event_info[x].all)
          /\ event_info[x].clear => w.event_set[x] \intersect w.set = {}
      BY <1>1, <2>4 DEF Walked
    <3>2. SameView(q.k, w.k, x) /\ q.event_set[x] = w.event_set[x]
      BY <2>2, <3>1
    <3>3. Roused(q.k, x)
      BY <3>1, <3>2 DEF Roused, SameView
    <3> QED
      BY <2>2, <3>1, <3>2, <3>3
  <2>5. ASSUME NEW x \in G
        PROVE  /\ Roused(q.k, x)
               /\ Granted(q.event_set[x], event_set[x], event_info[x].all)
               /\ event_info[x].clear => q.event_set[x] \intersect q.set = {}
    BY <1>1, <2>2, <2>4
  <2>6. ASSUME NEW x \in G, NEW y \in G, x # y, event_info[x].clear, event_info[y].clear
        PROVE  q.event_set[x] \intersect q.event_set[y] = {}
    <3>1. CASE x \in H /\ y \in H
      BY <2>4, <2>6, <3>1 DEF Walked
    <3>2. CASE x = t \/ y = t
      BY <2>4, <2>6, <3>2
    <3> QED
      BY <3>1, <3>2
  <2>7. ASSUME NEW x \in (D \union {t}) \ G
        PROVE  ~Satisfied(q.set, event_set[x], event_info[x].all)
    <3>1. ~Satisfied(w.set, event_set[x], event_info[x].all)
      BY <2>7 DEF Walked
    <3> QED
      BY <2>2, <3>1, SatisfiedMonotone
  <2>8. G \subseteq D \union {t} /\ q.k.cur = k.cur /\ q.k.nest = k.nest
    BY <1>1, <2>2
  <2> HIDE DEF G
  <2>9. Walked(q, G, D \union {t})
    BY <2>2, <2>3, <2>5, <2>6, <2>7, <2>8 DEF Walked
  <2> QED
    BY <2>9
<1> QED
  BY <1>2, <1>3
(* Whatever it is given, a round of the walk leads to a state of the walk.     *)
LEMMA ServeStays ==
    ASSUME NEW w \in WalkState, NEW t \in Thread PROVE Serve(w, t) \in WalkState
<1>1. /\ w.k \in KernelState /\ KernelConsistent(w.k)
      /\ w.set \in SUBSET Bit /\ w.event_set \in [Thread -> SUBSET Bit]
  BY DEF WalkState
<1>2. PICK s : s = w.k
  OBVIOUS
<1>3. PICK r : r = rt_thread_resume(s, t)
  OBVIOUS
<1>4. r \in KernelState /\ KernelConsistent(r)
  <2>1. CASE s.stat[t] = "suspend"
    BY ONLY <1>1, <1>2, <1>3, <2>1, t \in Thread, ResumeEffect
  <2>2. CASE s.stat[t] # "suspend"
    BY <1>1, <1>2, <1>3, <2>2 DEF rt_thread_resume
  <2> QED
    BY <2>1, <2>2
<1>5. PICK got : got = IF event_info[t].all THEN w.event_set[t]
                       ELSE w.event_set[t] \intersect w.set
  OBVIOUS
<1>6. got \in SUBSET Bit
  BY <1>1, <1>5
<1>7. \/ Serve(w, t) = w
      \/ Serve(w, t) = [k |-> r, set |-> IF event_info[t].clear THEN w.set \ got ELSE w.set,
                        event_set |-> [w.event_set EXCEPT ![t] = got]]
  BY <1>2, <1>3, <1>5 DEF Serve
<1> QED
  BY <1>1, <1>4, <1>6, <1>7 DEF WalkState

(* The walk of rt_event_send over the whole list, however long it is.          *)
LEMMA SendWalkEffect ==
    ASSUME EventInv, NEW bits \in SUBSET Bit, NEW w, w = SendWalk(bits)
    PROVE  \E H : Walked(w, H, ToSet(k.wait["event"]))
<1>1. /\ k \in KernelState /\ KernelConsistent(k) /\ "event" \in WaitList
      /\ set \in SUBSET Bit /\ event_set \in [Thread -> SUBSET Bit]
  BY EventAssumption DEF EventInv, EventTypeOK, CallsInv, CallsTypeOK
<1>2. PICK v \in Seq(Thread) : v = k.wait["event"]
  BY <1>1, StateFields
<1>3. PICK N \in Nat : N = Len(v)
  OBVIOUS
<1>4. IsInjective(v) /\ \A n \in 1 .. N : v[n] \in Thread
  BY <1>1, <1>2, <1>3 DEF KernelConsistent, ListsAreSets
<1>5. ASSUME NEW n \in 1 .. N PROVE k.stat[v[n]] = "suspend" /\ k.err[v[n]] = "EOK"
  <2>1. v[n] \in ToSet(k.wait["event"])
    BY <1>2, <1>3, ToSetIsRange
  <2> QED
    BY <1>1, <1>4, <2>1 DEF EventInv, CallsInv, ThreadOK, On, Waiting
<1>6. PICK a : a = [k |-> k, set |-> set \union bits, event_set |-> event_set]
  OBVIOUS
<1>7. /\ a \in WalkState /\ a.k = k /\ a.event_set = event_set
  BY <1>1, <1>6 DEF WalkState
<1> DEFINE Walk(f) == f = [n \in 0 .. N |-> IF n = 0 THEN a ELSE Serve(f[n - 1], v[n])]
<1>8. \E f : Walk(f)
  <2> DEFINE Step == [n \in 1 .. N |-> [s \in WalkState |-> Serve(s, v[n])]]
  <2>1. Step \in [1 .. N -> [WalkState -> WalkState]]
    BY <1>4, ServeStays
  <2> HIDE DEF Step
  <2>2. PICK f : Rounds(f, a, N, WalkState, Step)
    BY ONLY N \in Nat, <1>7, <2>1, RoundsExist
  <2>3. ASSUME NEW n \in 0 .. N
        PROVE  f[n] = IF n = 0 THEN a ELSE Serve(f[n - 1], v[n])
    <3>1. CASE n = 0
      BY <2>2, <3>1 DEF Rounds
    <3>2. CASE n # 0
      <4>1. n \in 1 .. N /\ n - 1 \in 0 .. N
        BY <3>2
      <4>2. f[n - 1] \in WalkState
        BY <2>2, <4>1 DEF Rounds
      <4> QED
        BY <2>2, <3>2, <4>1, <4>2 DEF Rounds, Step
    <3> QED
      BY <3>1, <3>2
  <2>4. f = [n \in 0 .. N |-> f[n]]
    BY <2>2 DEF Rounds
  <2> QED
    BY <2>3, <2>4
<1>9. PICK f : Walk(f) /\ w = f[N]
  <2>1. w = (CHOOSE f : Walk(f))[N]
    BY <1>2, <1>3, <1>6 DEF SendWalk
  <2>2. Walk(CHOOSE f : Walk(f))
    BY <1>8
  <2> QED
    BY <2>1, <2>2
<1>10. f[0] = a /\ \A n \in 1 .. N : f[n] = Serve(f[n - 1], v[n])
  BY <1>9
<1> HIDE DEF Walk
<1> DEFINE Done(n) == {v[i] : i \in 1 .. n}
           Good(n) == \E H : Walked(f[n], H, Done(n))
<1>11. Good(0)
  <2>1. Done(0) = {}
    OBVIOUS
  <2>2. Walked(f[0], {}, {})
    BY <1>7, <1>10 DEF Walked, SameView
  <2> QED
    BY <2>1, <2>2
<1>12. ASSUME NEW n \in 1 .. N, Good(n - 1) PROVE Good(n)
  <2>1. PICK H : Walked(f[n - 1], H, Done(n - 1))
    BY <1>12
  <2>2. PICK t \in Thread : t = v[n]
    BY <1>4
  <2>3. Done(n) = Done(n - 1) \union {t}
    <3>1. \A i \in 1 .. n : i \in 1 .. n - 1 \/ i = n
      OBVIOUS
    <3> QED
      BY <2>2, <3>1
  <2>4. t \notin Done(n - 1)
    <3> SUFFICES ASSUME NEW i \in 1 .. n - 1, v[i] = v[n] PROVE FALSE
      BY <2>2
    <3> QED
      BY <1>3, <1>4 DEF IsInjective
  <2>5. Done(n - 1) \subseteq Thread
    BY <1>4
  <2>6. k.stat[t] = "suspend" /\ k.err[t] = "EOK"
    BY <1>5, <2>2
  <2>7. f[n] = Serve(f[n - 1], t)
    BY <1>10, <2>2
  <2> HIDE DEF Done
  <2>8. \E G : Walked(f[n], G, Done(n - 1) \union {t})
    BY <2>1, <2>4, <2>5, <2>6, <2>7, WalkStep
  <2> QED
    BY <2>3, <2>8
<1>13. Good(N)
  <2> DEFINE G == {n \in 0 .. N : Good(n)}
  <2>1. 0 \in G
    <3> HIDE DEF Good
    <3> QED
      BY <1>11
  <2>2. ASSUME NEW n \in 1 .. N, n - 1 \in G PROVE n \in G
    <3> HIDE DEF Good
    <3> QED
      BY <1>12, <2>2
  <2>3. N \in G
    <3> HIDE DEF G
    <3> QED
      BY ONLY N \in Nat, <2>1, <2>2, CountUp
  <2> HIDE DEF Good
  <2> QED
    BY <2>3
<1>14. Done(N) = ToSet(k.wait["event"])
  BY <1>2, <1>3 DEF ToSet
<1> QED
  BY <1>9, <1>13, <1>14

\* What ClearedOnce says of one step.
ClearsOnce ==
    \A t \in Called("event")' \ Called("event") :
        event_info[t].clear =>
            /\ event_set'[t] \intersect set' = {}
            /\ \A u \in (Called("event")' \ Called("event")) \ {t} :
                   event_info[u].clear => event_set'[t] \intersect event_set'[u] = {}

(* What an action is given, in the terms of CallsProofs.tla.                  *)
LEMMA EventFacts ==
    ASSUME EventInv
    PROVE  /\ CallsInv /\ "event" \in WaitList /\ pc \in [Thread -> CallPoint]
           /\ list \in [Thread -> WaitList \union {"none"}]
           /\ set \in SUBSET Bit /\ event_set \in [Thread -> SUBSET Bit]
           /\ event_info \in [Thread -> EventRequest \union {NoRequest}]
           /\ ToSet(k.wait["event"]) \subseteq Thread /\ Called("event") \subseteq Thread
<1>1. /\ CallsInv /\ "event" \in WaitList /\ pc \in [Thread -> CallPoint]
      /\ list \in [Thread -> WaitList \union {"none"}]
      /\ set \in SUBSET Bit /\ event_set \in [Thread -> SUBSET Bit]
      /\ event_info \in [Thread -> EventRequest \union {NoRequest}]
  BY EventAssumption DEF EventInv, EventTypeOK, CallsTypeOK
<1>2. k \in KernelState
  BY <1>1 DEF CallsInv, CallsTypeOK
<1> QED
  BY <1>1, <1>2, StateFields DEF Called

(* A step that serves nobody: the threads that were served and those that wait *)
(* are as they were, or fewer, and no bit is added.                           *)
LEMMA EventQuiet ==
    ASSUME EventInv, CallsInv', set' \subseteq set, UNCHANGED <<event_set, event_info>>,
           pc' \in [Thread -> CallPoint], Uses("event")',
           Called("event")' \subseteq Called("event"),
           ToSet(k'.wait["event"]) \subseteq ToSet(k.wait["event"])
    PROVE  EventInv' /\ ClearsOnce
<1>1. /\ set \in SUBSET Bit /\ event_set \in [Thread -> SUBSET Bit]
      /\ event_info \in [Thread -> EventRequest \union {NoRequest}]
  BY EventFacts
<1>2. EventTypeOK'
  BY <1>1 DEF EventTypeOK, CallsInv
<1>3. NoSatisfiedWaiter'
  <2> SUFFICES ASSUME NEW t \in ToSet(k'.wait["event"])
               PROVE  ~Satisfied(set', event_set'[t], event_info'[t].all)
    BY DEF NoSatisfiedWaiter
  <2>1. ~Satisfied(set, event_set[t], event_info[t].all)
    BY DEF EventInv, NoSatisfiedWaiter
  <2> QED
    BY <2>1, SatisfiedMonotone
<1>4. ReceivedWhatWasAsked' /\ WaitersAsk'
  BY DEF EventInv, ReceivedWhatWasAsked, WaitersAsk
<1>5. ClearsOnce
  BY DEF ClearsOnce
<1> QED
  BY <1>2, <1>3, <1>4, <1>5 DEF EventInv

(* The steps every object has, and the detach.                                *)
LEMMA EventCommon ==
    ASSUME EventInv, UNCHANGED event,
           \/ \E t \in Thread : CallSteps(t) \/ StartDetach(t, <<"event">>)
           \/ Background \/ UNCHANGED calls
    PROVE  EventInv' /\ ClearsOnce
<1>1. CallsInv /\ "event" \in WaitList /\ pc \in [Thread -> CallPoint]
  BY EventFacts
<1>2. ASSUME Quiet, pc' \in [Thread -> CallPoint], list' = list
      PROVE  EventInv' /\ ClearsOnce
  <2>1. /\ CallsInv' /\ Called("event")' = Called("event")
        /\ ToSet(k'.wait["event"]) \subseteq ToSet(k.wait["event"])
    BY <1>1, <1>2 DEF Quiet, SameCalled, NobodyJoins
  <2>2. Uses("event")' /\ set' \subseteq set /\ UNCHANGED <<event_set, event_info>>
    BY <1>2 DEF EventInv, Uses, event
  <2> QED
    BY <1>2, <2>1, <2>2, EventQuiet
<1>3. ASSUME NEW t \in Thread, CallSteps(t) PROVE EventInv' /\ ClearsOnce
  <2>1. Quiet
    BY <1>1, <1>3, CallStepsKeep
  <2>2. pc' \in [Thread -> CallPoint] /\ list' = list
    BY <1>1, <1>3, CallStepsPoints
  <2> QED
    BY <1>2, <2>1, <2>2
<1>4. ASSUME Background PROVE EventInv' /\ ClearsOnce
  BY <1>1, <1>2, <1>4, BackgroundKeeps, BackgroundPoints
<1>5. ASSUME UNCHANGED calls PROVE EventInv' /\ ClearsOnce
  BY <1>1, <1>2, <1>5, CallsStutter DEF calls
<1>6. ASSUME NEW t \in Thread, StartDetach(t, <<"event">>) PROVE EventInv' /\ ClearsOnce
  <2>1. \A x \in Thread, l \in WaitList : On(x, l) => l \in ToSet(<<"event">>)
    <3>1. "event" \in ToSet(<<"event">>)
      BY DEF ToSet
    <3> QED
      BY <1>1, <3>1, UsesOne DEF EventInv
  <2>2. Quiet
    <3>1. <<"event">> \in Seq(WaitList) /\ <<"event">> # <<>>
      BY <1>1
    <3> QED
      BY <1>1, <1>6, <2>1, <3>1, DetachStarts
  <2>3. pc' \in [Thread -> CallPoint] /\ list' = list
    BY <1>1, <1>6 DEF StartDetach, Goto, CallPoint
  <2> QED
    BY <1>2, <2>2, <2>3
<1> QED
  BY <1>3, <1>4, <1>5, <1>6
(* rt_event_recv, with the bits there or not.                                 *)
LEMMA EventRecv ==
    ASSUME EventInv, NEW t \in Thread, NEW r \in EventRequest, rt_event_recv(t, r)
    PROVE  EventInv' /\ ClearsOnce
<1>1. /\ CallsInv /\ k.cur = t /\ t # Idle /\ life = "yes" /\ UNCHANGED object
      /\ At(t, "run") /\ pc[t] = "run" /\ k.stat[t] = "ready" /\ "event" \in WaitList
      /\ pc \in [Thread -> CallPoint] /\ list \in [Thread -> WaitList \union {"none"}]
      /\ set \in SUBSET Bit /\ event_set \in [Thread -> SUBSET Bit]
      /\ event_info \in [Thread -> EventRequest \union {NoRequest}]
      /\ Called("event") \subseteq Thread /\ ToSet(k.wait["event"]) \subseteq Thread
  BY EventFacts DEF rt_event_recv, Enters, At, CallsInv, Runner
<1>2. t \notin Called("event")
  BY <1>1 DEF Called, InWait
<1>3. CASE RecvNow(t, r) \/ RecvBusy(t, r)
  <2>1. PICK e \in {"EOK", "ETIMEOUT"} : k' = [k EXCEPT !.err[t] = e]
    BY <1>3 DEF RecvNow, RecvBusy
  <2>2. /\ set' \subseteq set /\ UNCHANGED <<pc, list, event_set, event_info>>
    BY <1>3 DEF RecvNow, RecvBusy, event
  <2>3. /\ CallsInv' /\ Called("event")' = Called("event") \ {t}
        /\ k'.wait = k.wait
    <3>1. e \in Error
      BY DEF Error
    <3>2. pc' = [pc EXCEPT ![t] = "run"]
      BY <1>1, <2>2
    <3> QED
      BY <1>1, <2>1, <2>2, <3>1, <3>2, ErrorKeeps
  <2>4. Uses("event")'
    BY <2>2 DEF EventInv, Uses
  <2> QED
    BY <1>1, <2>2, <2>3, <2>4, EventQuiet
<1>4. ASSUME NEW d \in Time, RecvBlock(t, r, d) PROVE EventInv' /\ ClearsOnce
  <2>1. PICK f : f = flag
    OBVIOUS
  <2>2. PICK s : s = Queue(t, "event", f)
    OBVIOUS
  <2>3. /\ s \in KernelState /\ KernelConsistent(s)
        /\ s.stat = [k.stat EXCEPT ![t] = "suspend"]
        /\ s.timer = [k.timer EXCEPT ![t] = FALSE]
        /\ s.err = [k.err EXCEPT ![t] = "EOK"]
        /\ s.cur = k.cur /\ s.nest = k.nest /\ WaitAdds(s, k, "event", t)
    BY <1>1, <2>2, QueueEffect
  <2>4. /\ Block(t, s, "event", d) /\ set' = set
        /\ event_set' = [event_set EXCEPT ![t] = r.set]
        /\ event_info' = [event_info EXCEPT ![t] = r]
        /\ ~Satisfied(set, r.set, r.all)
    BY <1>4, <2>1, <2>2 DEF RecvBlock
  <2>5. CallsInv' /\ Joins(t, "event")
    BY <1>1, <2>3, <2>4, BlockKeeps
  <2>6. /\ Called("event")' = Called("event")
        /\ ToSet(k'.wait["event"]) = ToSet(k.wait["event"]) \union {t}
    <3>1. /\ Called("event")' = Called("event") \ {t}
          /\ ToSet(k'.wait["event"]) = ToSet(k.wait["event"]) \union {t}
      BY <1>1, <2>5 DEF Joins
    <3>2. Called("event") \ {t} = Called("event")
      BY <1>2
    <3> QED
      BY <3>1, <3>2
  <2>7. /\ event_set'[t] = r.set /\ event_info'[t] = r
        /\ \A x \in Thread \ {t} : event_set'[x] = event_set[x] /\ event_info'[x] = event_info[x]
    BY <1>1, <2>4
  <2>8. NoSatisfiedWaiter'
    <3> SUFFICES ASSUME NEW x \in ToSet(k'.wait["event"])
                 PROVE  ~Satisfied(set', event_set'[x], event_info'[x].all)
      BY DEF NoSatisfiedWaiter
    <3>1. CASE x = t
      BY <2>4, <2>7, <3>1
    <3>2. CASE x # t
      <4>1. x \in ToSet(k.wait["event"]) /\ x \in Thread \ {t}
        BY <1>1, <2>6, <3>2
      <4>2. ~Satisfied(set, event_set[x], event_info[x].all)
        BY <4>1 DEF EventInv, NoSatisfiedWaiter
      <4> QED
        BY <2>4, <2>7, <4>1, <4>2
    <3> QED
      BY <3>1, <3>2
  <2>9. ReceivedWhatWasAsked'
    <3>1. \A x \in Called("event") : x \in Thread \ {t}
      BY <1>1, <1>2
    <3> QED
      BY <2>6, <2>7, <3>1 DEF EventInv, ReceivedWhatWasAsked
  <2>10. WaitersAsk'
    BY <2>6, <2>7 DEF EventInv, WaitersAsk
  <2>11. pc' \in [Thread -> CallPoint] /\ Uses("event")'
    BY <1>1, <2>4 DEF Block, CallPoint, Uses, EventInv
  <2>12. r.set \in SUBSET Bit
    BY EventAssumption
  <2>13. EventTypeOK'
    BY <1>1, <2>4, <2>5, <2>11, <2>12 DEF EventTypeOK, CallsInv
  <2>14. ClearsOnce
    BY <2>6 DEF ClearsOnce
  <2> QED
    BY <2>5, <2>8, <2>9, <2>10, <2>11, <2>13, <2>14 DEF EventInv
<1> QED
  BY <1>3, <1>4 DEF rt_event_recv

(* rt_event_recv returns to a caller that had to wait.                         *)
LEMMA EventReturn ==
    ASSUME EventInv, NEW t \in Thread, RecvReturn(t) PROVE EventInv' /\ ClearsOnce
<1>1. /\ CallsInv /\ "event" \in WaitList /\ pc \in [Thread -> CallPoint]
      /\ list \in [Thread -> WaitList \union {"none"}]
      /\ set \in SUBSET Bit /\ event_set \in [Thread -> SUBSET Bit]
      /\ event_info \in [Thread -> EventRequest \union {NoRequest}]
      /\ Called("event") \subseteq Thread /\ ToSet(k.wait["event"]) \subseteq Thread
  BY EventFacts
<1>2. /\ At(t, "woken") /\ Leave(t, "run") /\ UNCHANGED <<k, set, object>>
      /\ event_set' = [event_set EXCEPT ![t] = {}]
      /\ event_info' = [event_info EXCEPT ![t] = NoRequest]
  BY DEF RecvReturn
<1>3. CallsInv' /\ Called("event")' = Called("event") \ {t}
  BY <1>1, <1>2, LeaveKeeps
<1>4. t \notin ToSet(k.wait["event"])
  <2>1. k.stat[t] = "ready"
    BY <1>1, <1>2 DEF CallsInv, Runner, At
  <2> QED
    BY <1>1, <2>1 DEF CallsInv, ThreadOK, On, Waiting
<1>5. \A x \in Thread \ {t} : event_set'[x] = event_set[x] /\ event_info'[x] = event_info[x]
  BY <1>1, <1>2
<1>6. \A x \in ToSet(k.wait["event"]) : x \in Thread \ {t}
  BY <1>1, <1>4
<1>7. NoSatisfiedWaiter' /\ WaitersAsk'
  BY <1>2, <1>5, <1>6 DEF EventInv, NoSatisfiedWaiter, WaitersAsk
<1>8. ReceivedWhatWasAsked'
  BY <1>1, <1>3, <1>5 DEF EventInv, ReceivedWhatWasAsked
<1>9. pc' \in [Thread -> CallPoint] /\ Uses("event")'
  BY <1>1, <1>2 DEF Leave, CallPoint, Uses, EventInv
<1>10. EventTypeOK'
  BY <1>1, <1>2, <1>3, <1>9 DEF EventTypeOK, CallsInv
<1>11. ClearsOnce
  BY <1>3 DEF ClearsOnce
<1> QED
  BY <1>3, <1>7, <1>8, <1>9, <1>10, <1>11 DEF EventInv

(* RT_IPC_CMD_RESET.                                                         *)
LEMMA EventReset ==
    ASSUME EventInv, NEW t \in Thread, rt_event_control(t) PROVE EventInv' /\ ClearsOnce
<1>1. /\ CallsInv /\ "event" \in WaitList /\ pc \in [Thread -> CallPoint]
  BY EventFacts
<1>2. /\ life = "yes" /\ UNCHANGED <<event_set, event_info, object>> /\ At(t, "run")
      /\ Goto(t, "schedule") /\ k' = rt_ipc_list_resume_all(k, "event") /\ set' = {}
  BY DEF rt_event_control, Enters
<1>3. Quiet
  BY <1>1, <1>2, ResumeAllKeeps
<1>4. /\ CallsInv' /\ Called("event")' = Called("event")
      /\ ToSet(k'.wait["event"]) \subseteq ToSet(k.wait["event"])
  BY <1>1, <1>3 DEF Quiet, SameCalled, NobodyJoins
<1>5. pc' \in [Thread -> CallPoint] /\ Uses("event")' /\ set' \subseteq set
  BY <1>1, <1>2 DEF Goto, CallPoint, Uses, EventInv
<1> QED
  BY <1>2, <1>4, <1>5, EventQuiet

(* What the walk has done becomes the state.                                  *)
LEMMA EventServed ==
    ASSUME EventInv, Call, KernelOK, Runner', \A x \in Thread : Stays(x),
           NEW w, NEW H, Walked(w, H, ToSet(k.wait["event"])),
           \A x \in Thread : SameView(k', w.k, x),
           set' = w.set, event_set' = w.event_set, event_info' = event_info,
           pc' \in [Thread -> CallPoint], Uses("event")'
    PROVE  EventInv' /\ ClearsOnce
<1>1. /\ CallsInv /\ "event" \in WaitList
      /\ event_info \in [Thread -> EventRequest \union {NoRequest}]
      /\ Called("event") \subseteq Thread /\ ToSet(k.wait["event"]) \subseteq Thread
  BY EventFacts
<1>2. H \subseteq ToSet(k.wait["event"]) /\ H \subseteq Thread
  BY <1>1 DEF Walked
<1>3. ASSUME NEW x \in H PROVE Roused(k', x)
  <2>1. Roused(w.k, x) /\ SameView(k', w.k, x)
    BY <1>2 DEF Walked
  <2> QED
    BY <2>1 DEF Roused, SameView
<1>4. ASSUME NEW x \in Thread \ H PROVE SameView(k', k, x) /\ event_set'[x] = event_set[x]
  <2>1. SameView(k', w.k, x) /\ SameView(w.k, k, x) /\ w.event_set[x] = event_set[x]
    BY DEF Walked
  <2> QED
    BY <2>1 DEF SameView
<1>5. /\ CallsInv'
      /\ Called("event")' = Called("event") \union H /\ H \intersect Called("event") = {}
      /\ ToSet(k'.wait["event"]) = ToSet(k.wait["event"]) \ H
  BY <1>1, <1>2, <1>3, <1>4, WakingMany
<1>6. EventTypeOK'
  <2>1. w.set \in SUBSET Bit /\ w.event_set \in [Thread -> SUBSET Bit]
    BY DEF Walked, WalkState
  <2> QED
    BY <1>1, <1>5, <2>1 DEF EventTypeOK, CallsInv
<1>7. NoSatisfiedWaiter'
  <2> SUFFICES ASSUME NEW x \in ToSet(k'.wait["event"])
               PROVE  ~Satisfied(set', event_set'[x], event_info'[x].all)
    BY DEF NoSatisfiedWaiter
  <2>1. x \in ToSet(k.wait["event"]) \ H /\ x \in Thread \ H
    BY <1>1, <1>5
  <2>2. ~Satisfied(w.set, event_set[x], event_info[x].all)
    BY <2>1 DEF Walked
  <2> QED
    BY <1>4, <2>1, <2>2
<1>8. ReceivedWhatWasAsked'
  <2> SUFFICES ASSUME NEW x \in Called("event")'
               PROVE  Granted(event_set'[x], event_info[x].set, event_info[x].all)
    BY DEF ReceivedWhatWasAsked, Granted
  <2>1. CASE x \in H
    <3>1. Granted(w.event_set[x], event_set[x], event_info[x].all)
      BY <2>1 DEF Walked
    <3>2. event_set[x] = event_info[x].set
      BY <1>2, <2>1 DEF EventInv, WaitersAsk
    <3> QED
      BY <3>1, <3>2
  <2>2. CASE x \notin H
    <3>1. x \in Called("event") /\ x \in Thread \ H
      BY <1>1, <1>5, <2>2
    <3>2. event_set'[x] = event_set[x]
      BY <1>4, <3>1
    <3> QED
      BY <3>1, <3>2 DEF EventInv, ReceivedWhatWasAsked, Granted
  <2> QED
    BY <2>1, <2>2
<1>9. WaitersAsk'
  BY <1>4, <1>5 DEF EventInv, WaitersAsk
<1>10. ClearsOnce
  <2>1. Called("event")' \ Called("event") = H
    BY <1>5
  <2>2. \A x \in H : event_info[x].clear => w.event_set[x] \intersect w.set = {}
    BY DEF Walked
  <2>3. \A x, y \in H : x # y /\ event_info[x].clear /\ event_info[y].clear
                            => w.event_set[x] \intersect w.event_set[y] = {}
    BY DEF Walked
  <2> QED
    BY <2>1, <2>2, <2>3 DEF ClearsOnce
<1> QED
  BY <1>5, <1>6, <1>7, <1>8, <1>9, <1>10 DEF EventInv

(* rt_event_send, by a thread or by an interrupt handler.                      *)
LEMMA EventSend ==
    ASSUME EventInv, NEW bits \in SUBSET Bit,
           (\E t \in Thread : rt_event_send(t, bits)) \/ IsrEventSend(bits)
    PROVE  EventInv' /\ ClearsOnce
<1>1. /\ CallsInv /\ "event" \in WaitList /\ pc \in [Thread -> CallPoint]
      /\ list \in [Thread -> WaitList \union {"none"}] /\ k.nest = 0
      /\ ToSet(k.wait["event"]) \subseteq Thread
  BY EventFacts DEF CallsInv, Runner
<1>2. PICK w : w = SendWalk(bits)
  OBVIOUS
<1>3. PICK H : Walked(w, H, ToSet(k.wait["event"]))
  BY <1>2, SendWalkEffect
<1>4. /\ w.k \in KernelState /\ KernelConsistent(w.k) /\ w.k.nest = 0 /\ w.k.cur = k.cur
  BY <1>1, <1>3 DEF Walked, WalkState
<1>5. ASSUME NEW t \in Thread, rt_event_send(t, bits) PROVE EventInv' /\ ClearsOnce
  <2>1. /\ k.cur = t /\ pc[t] = "run" /\ life = "yes" /\ UNCHANGED <<event_info, object>>
        /\ k' = w.k /\ set' = w.set /\ event_set' = w.event_set
        /\ Goto(t, IF Resumed(w) THEN "schedule" ELSE "run")
    BY <1>2, <1>5 DEF rt_event_send, Enters, At
  <2>2. PICK c \in {"schedule", "run"} : Goto(t, c)
    BY <2>1
  <2>3. /\ pc' = [pc EXCEPT ![t] = c] /\ list' = list
    BY <2>2 DEF Goto
  <2>4. pc' \in [Thread -> CallPoint] /\ Uses("event")'
    BY <1>1, <2>3 DEF CallPoint, EventInv, Uses
  <2>5. Call /\ \A x \in Thread : Stays(x)
    BY <1>1, <2>1, <2>3 DEF Call, Stays, InWait, Sweeps
  <2>6. KernelOK
    BY <1>4, <2>1 DEF KernelOK
  <2>7. Runner'
    <3>1. k.stat[t] = "ready"
      BY <1>1, <2>1 DEF CallsInv, Runner
    <3>2. t \notin H
      BY <1>1, <1>3, <3>1 DEF Walked, CallsInv, ThreadOK, On, Waiting
    <3>3. SameView(w.k, k, t)
      BY <1>3, <3>2 DEF Walked
    <3> QED
      BY <1>4, <2>1, <3>1, <3>3 DEF Runner, SameView
  <2>8. \A x \in Thread : SameView(k', w.k, x)
    BY <2>1 DEF SameView
  <2> QED
    BY <1>3, <2>1, <2>4, <2>5, <2>6, <2>7, <2>8, EventServed
<1>6. ASSUME IsrEventSend(bits) PROVE EventInv' /\ ClearsOnce
  <2>1. /\ life = "yes" /\ UNCHANGED <<pc, list, event_info, object>>
        /\ k' = IF Resumed(w) THEN rt_schedule(w.k) ELSE k
        /\ set' = w.set /\ event_set' = w.event_set
    BY <1>2, <1>6 DEF IsrEventSend
  <2>2. pc' \in [Thread -> CallPoint] /\ Uses("event")'
    BY <1>1, <2>1 DEF EventInv, Uses
  <2>3. Call /\ \A x \in Thread : Stays(x)
    BY <1>1, <2>1 DEF Call, Stays
  <2>4. KernelOK /\ Runner' /\ \A x \in Thread : SameView(k', w.k, x)
    <3>1. CASE Resumed(w)
      <4>1. PICK s : s = w.k
        OBVIOUS
      <4>2. PICK r : r = k'
        OBVIOUS
      <4>3. r = rt_schedule(s) /\ s \in KernelState /\ KernelConsistent(s)
        BY <1>4, <2>1, <3>1, <4>1, <4>2
      <4>4. /\ r \in KernelState
            /\ KernelConsistent(r)
            /\ s.nest = 0 => r.stat[r.cur] = "ready"
            /\ r.stat = s.stat /\ r.prio = s.prio /\ r.nest = s.nest
            /\ r.err = s.err /\ r.timer = s.timer /\ r.wait = s.wait
        BY ONLY <4>3, ScheduleEffect
      <4> QED
        BY <1>4, <4>1, <4>2, <4>4 DEF KernelOK, Runner, SameView
    <3>2. CASE ~Resumed(w)
      <4>1. k' = k /\ w.k = k
        BY <2>1, <3>2 DEF Resumed
      <4>2. Runner'
        BY <1>1, <2>1, <4>1 DEF CallsInv, Runner
      <4> QED
        BY <1>4, <4>1, <4>2 DEF KernelOK, SameView
    <3> QED
      BY <3>1, <3>2
  <2> QED
    BY <1>3, <2>1, <2>2, <2>3, <2>4, EventServed
<1> QED
  BY <1>5, <1>6

(* Every step keeps the invariant of the event and clears a bit at most once.  *)
LEMMA EventStep ==
    ASSUME EventInv, [EventNext]_<<calls, event>> PROVE EventInv' /\ ClearsOnce
<1>1. CASE UNCHANGED <<calls, event>>
  BY <1>1, EventCommon
<1>2. CASE EventNext
  BY <1>2, EventCommon, EventRecv, EventReturn, EventReset, EventSend
     DEF EventNext, rt_event_detach
<1> QED
  BY <1>1, <1>2

(* The inductive invariant of the event.                                      *)
THEOREM EventInvariance == EventSpec => []EventInv
<1>1. CallsInit /\ EventInit => EventInv
  <2> SUFFICES ASSUME CallsInit, EventInit PROVE EventInv
    OBVIOUS
  <2>1. /\ CallsInv /\ Called("event") = {} /\ k.wait["event"] = <<>>
        /\ \A t \in Thread : list[t] = "none"
    BY CallsStart, EventAssumption
  <2>2. ToSet(k.wait["event"]) = {}
    BY <2>1 DEF ToSet
  <2>3. pc \in [Thread -> CallPoint]
    BY DEF CallsInit, CallPoint
  <2>4. EventTypeOK
    BY <2>1, <2>3 DEF EventTypeOK, EventInit, CallsInv
  <2> QED
    BY <2>1, <2>2, <2>4
       DEF EventInv, Uses, NoSatisfiedWaiter, ReceivedWhatWasAsked, WaitersAsk
<1>2. EventInv /\ [EventNext]_<<calls, event>> => EventInv'
  BY EventStep
<1> QED
  BY <1>1, <1>2, PTL DEF EventSpec

(* rt_event_recv returns RT_EOK with what was asked for, for any bits and any   *)
(* number of waiters: all of it with AND, a part that is not empty with OR; and *)
(* nobody sleeps in it whose condition holds.                                 *)
THEOREM RequestsAlwaysMet == EventSpec => []RequestsMet
<1>1. EventInv => RequestsMet
  BY DEF EventInv, RequestsMet
<1> QED
  BY <1>1, EventInvariance, PTL

(* A bit taken with RT_EVENT_FLAG_CLEAR goes to one of the waiters a send       *)
(* resumes, and does not stay in the event set.                               *)
THEOREM ClearedOnceAlways == EventSpec => ClearedOnce
<1>1. EventInv /\ [EventNext]_<<calls, event>> => [ClearsOnce]_<<calls, event>>
  BY EventStep
<1>2. EventSpec => [][ClearsOnce]_<<calls, event>>
  BY <1>1, EventInvariance, PTL DEF EventSpec
<1> QED
  BY <1>2 DEF ClearedOnce, ClearsOnce

(* An event whose waiters are untimed when it is detached forgets nobody.       *)
THEOREM EventForgetsNobody ==
    ASSUME ~DetachTimed PROVE EventSpec => []NobodyForgotten
<1>1. EventInv => NobodyForgotten
  BY NothingForgotten DEF EventInv, NobodyForgotten
<1> QED
  BY <1>1, EventInvariance, PTL
-----------------------------------------------------------------------------
(* The memory pool *)

\* p lists the n free blocks in the order of their links h, and then the end.
FreePath(p, n, first, h) ==
    /\ n \in Nat /\ p \in [0 .. n -> BlockId \union {Null}]
    /\ p[0] = first /\ p[n] = Null
    /\ \A i \in 0 .. n - 1 : p[i] \in BlockId /\ p[i + 1] = h[p[i]]
    /\ \A i, j \in 0 .. n - 1 : p[i] = p[j] => i = j

OnPath(p, n) == {p[i] : i \in 0 .. n - 1}

\* The blocks that are not free, F, are those held, each by one thread.
Held(F, h, bl) ==
    \A b \in BlockId :
        /\ b \notin F <=> \E t \in Thread : b \in bl[t]
        /\ b \notin F => h[b] = Mp
        /\ \A t, u \in Thread : b \in bl[t] \intersect bl[u] => t = u

PoolOK(n, first, h, bl) ==
    \E p : FreePath(p, n, first, h) /\ Held(OnPath(p, n), h, bl)

\* The headers g are h with that of block b pointing to v.
Relinked(g, h, b, v) == h \in [BlockId -> BlockId \union {Null, Mp}] /\ g = [h EXCEPT ![b] = v]

(* As many blocks are on the free list as it is long.                          *)
LEMMA PathSize ==
    ASSUME NEW p, NEW n, NEW first, NEW h, FreePath(p, n, first, h)
    PROVE  /\ OnPath(p, n) \subseteq BlockId /\ IsFiniteSet(OnPath(p, n))
           /\ Cardinality(OnPath(p, n)) = n /\ n \in 0 .. Cardinality(BlockId)
<1>1. /\ n \in Nat /\ \A i \in 0 .. n - 1 : p[i] \in BlockId
      /\ \A i, j \in 0 .. n - 1 : p[i] = p[j] => i = j
  BY DEF FreePath
<1>2. OnPath(p, n) \subseteq BlockId
  BY <1>1 DEF OnPath
<1>3. IsFiniteSet(0 .. n - 1) /\ Cardinality(0 .. n - 1) = n
  <2>1. 0 \in Int /\ n - 1 \in Int
    BY <1>1
  <2>2. IsFiniteSet(0 .. n - 1)
        /\ Cardinality(0 .. n - 1) = IF 0 > n - 1 THEN 0 ELSE (n - 1) - 0 + 1
    BY ONLY <2>1, FS_Interval
  <2> QED
    BY <1>1, <2>2
<1>4. ExistsBijection(0 .. n - 1, OnPath(p, n))
  <2> DEFINE f == [i \in 0 .. n - 1 |-> p[i]]
  <2>1. f \in [0 .. n - 1 -> OnPath(p, n)]
    BY DEF OnPath
  <2>2. IsInjective(f)
    BY <1>1 DEF IsInjective
  <2>3. \A b \in OnPath(p, n) : \E i \in 0 .. n - 1 : f[i] = b
    BY DEF OnPath
  <2>4. f \in Bijection(0 .. n - 1, OnPath(p, n))
    BY <2>1, <2>2, <2>3 DEF Bijection, Injection, Surjection, IsInjective
  <2> QED
    BY <2>4 DEF ExistsBijection
<1>5. IsFiniteSet(OnPath(p, n)) /\ Cardinality(OnPath(p, n)) = n
  BY <1>3, <1>4, FS_Bijection
<1>6. IsFiniteSet(BlockId) /\ Cardinality(BlockId) \in Nat
  BY MempoolAssumption, FS_CardinalityType
<1>7. Cardinality(OnPath(p, n)) <= Cardinality(BlockId)
  BY <1>2, <1>6, FS_Subset
<1> QED
  BY <1>1, <1>2, <1>5, <1>6, <1>7

(* The first free block is unlinked.                                          *)
LEMMA TakePath ==
    ASSUME NEW p, NEW n, NEW first, NEW h, NEW g,
           FreePath(p, n, first, h), n # 0, Relinked(g, h, first, Mp)
    PROVE  /\ first \in OnPath(p, n) /\ first \in BlockId
           /\ \E q : /\ FreePath(q, n - 1, h[first], g)
                     /\ OnPath(q, n - 1) = OnPath(p, n) \ {first}
<1>1. /\ n \in Nat /\ p \in [0 .. n -> BlockId \union {Null}]
      /\ p[0] = first /\ p[n] = Null
      /\ \A i \in 0 .. n - 1 : p[i] \in BlockId /\ p[i + 1] = h[p[i]]
      /\ \A i, j \in 0 .. n - 1 : p[i] = p[j] => i = j
  BY DEF FreePath
<1>2. 0 \in 0 .. n - 1 /\ n - 1 \in Nat
  BY <1>1
<1>3. first \in OnPath(p, n) /\ first \in BlockId
  BY <1>1, <1>2 DEF OnPath
<1> DEFINE q == [i \in 0 .. n - 1 |-> p[i + 1]]
<1>4. \A i \in 0 .. (n - 1) - 1 : i + 1 \in 0 .. n - 1 /\ i \in 0 .. n - 1 /\ i + 1 # 0
  BY <1>1
<1>5. \A i \in 0 .. (n - 1) - 1 : p[i + 1] # first
  BY <1>1, <1>2, <1>4
<1>6. FreePath(q, n - 1, h[first], g)
  <2>1. q \in [0 .. n - 1 -> BlockId \union {Null}]
    BY <1>1
  <2>2. q[0] = h[first] /\ q[n - 1] = Null
    BY <1>1, <1>2
  <2>3. ASSUME NEW i \in 0 .. (n - 1) - 1 PROVE q[i] \in BlockId /\ q[i + 1] = g[q[i]]
    <3>1. q[i] = p[i + 1] /\ q[i + 1] = p[(i + 1) + 1] /\ p[i + 1] \in BlockId
      BY <1>1, <1>4
    <3>2. p[(i + 1) + 1] = h[p[i + 1]]
      BY <1>1, <1>4
    <3>3. g[p[i + 1]] = h[p[i + 1]]
      BY <1>5, <3>1 DEF Relinked
    <3> QED
      BY <3>1, <3>2, <3>3
  <2>4. ASSUME NEW i \in 0 .. (n - 1) - 1, NEW j \in 0 .. (n - 1) - 1, q[i] = q[j]
        PROVE  i = j
    <3>1. p[i + 1] = p[j + 1] /\ i + 1 \in 0 .. n - 1 /\ j + 1 \in 0 .. n - 1
      BY <1>4, <2>4
    <3>2. i + 1 = j + 1
      BY <1>1, <3>1
    <3> QED
      BY <3>2
  <2> HIDE DEF q
  <2> QED
    BY <1>2, <2>1, <2>2, <2>3, <2>4 DEF FreePath
<1>7. OnPath(q, n - 1) = OnPath(p, n) \ {first}
  <2>1. ASSUME NEW i \in 0 .. (n - 1) - 1 PROVE q[i] \in OnPath(p, n) \ {first}
    BY <1>4, <1>5 DEF OnPath
  <2>2. ASSUME NEW j \in 0 .. n - 1, p[j] # first PROVE p[j] \in OnPath(q, n - 1)
    <3>1. j - 1 \in 0 .. (n - 1) - 1 /\ (j - 1) + 1 = j /\ j - 1 \in 0 .. n - 1
      BY <1>1, <2>2
    <3>2. q[j - 1] = p[j]
      BY <3>1
    <3> QED
      BY <3>1, <3>2 DEF OnPath
  <2> QED
    BY <2>1, <2>2 DEF OnPath
<1> QED
  BY <1>3, <1>6, <1>7

(* A block that is not free is linked in front.                               *)
LEMMA GivePath ==
    ASSUME NEW p, NEW n, NEW first, NEW h, NEW g, FreePath(p, n, first, h),
           NEW b \in BlockId, b \notin OnPath(p, n), Relinked(g, h, b, first)
    PROVE  \E q : /\ FreePath(q, n + 1, b, g)
                  /\ OnPath(q, n + 1) = OnPath(p, n) \union {b}
<1>1. /\ n \in Nat /\ p \in [0 .. n -> BlockId \union {Null}]
      /\ p[0] = first /\ p[n] = Null
      /\ \A i \in 0 .. n - 1 : p[i] \in BlockId /\ p[i + 1] = h[p[i]]
      /\ \A i, j \in 0 .. n - 1 : p[i] = p[j] => i = j
  BY DEF FreePath
<1> DEFINE q == [i \in 0 .. n + 1 |-> IF i = 0 THEN b ELSE p[i - 1]]
<1>2. \A i \in 0 .. (n + 1) - 1 :
          i = 0 \/ (i - 1 \in 0 .. n - 1 /\ i # 0 /\ (i - 1) + 1 = i)
  BY <1>1
<1>3. \A i \in 0 .. n - 1 : p[i] # b
  BY DEF OnPath
<1>4. \A i \in 1 .. n + 1 : q[i] = p[i - 1]
  BY <1>1
<1>5. q[0] = b
  BY <1>1
<1>6. q \in [0 .. n + 1 -> BlockId \union {Null}]
  BY <1>1
<1> HIDE DEF q
<1>7. FreePath(q, n + 1, b, g)
  <2>1. n + 1 \in Nat /\ q[n + 1] = Null
    <3>1. n + 1 \in 1 .. n + 1 /\ (n + 1) - 1 = n /\ n + 1 \in Nat
      BY <1>1
    <3> QED
      BY <1>1, <1>4, <3>1
  <2>2. ASSUME NEW i \in 0 .. (n + 1) - 1 PROVE q[i] \in BlockId /\ q[i + 1] = g[q[i]]
    <3>1. i + 1 \in 1 .. n + 1 /\ (i + 1) - 1 = i
      BY <1>1
    <3>2. q[i + 1] = p[i]
      BY <1>4, <3>1
    <3>3. CASE i = 0
      BY <1>1, <1>5, <3>2, <3>3 DEF Relinked
    <3>4. CASE i # 0
      <4>1. i - 1 \in 0 .. n - 1 /\ (i - 1) + 1 = i /\ i \in 1 .. n + 1
        BY <1>1, <1>2, <3>4
      <4>2. q[i] = p[i - 1] /\ p[i - 1] \in BlockId /\ p[i - 1] # b
            /\ p[(i - 1) + 1] = h[p[i - 1]]
        BY <1>1, <1>3, <1>4, <4>1
      <4>3. g[p[i - 1]] = h[p[i - 1]]
        BY <4>2 DEF Relinked
      <4> QED
        BY <3>2, <4>1, <4>2, <4>3
    <3> QED
      BY <3>3, <3>4
  <2>3. ASSUME NEW i \in 0 .. (n + 1) - 1, NEW j \in 0 .. (n + 1) - 1, q[i] = q[j]
        PROVE  i = j
    <3>1. ASSUME NEW m \in 0 .. (n + 1) - 1, m # 0
          PROVE  m - 1 \in 0 .. n - 1 /\ q[m] = p[m - 1] /\ q[m] # b
      <4>1. m - 1 \in 0 .. n - 1 /\ m \in 1 .. n + 1
        BY <1>1, <1>2, <3>1
      <4> QED
        BY <1>3, <1>4, <4>1
    <3>2. CASE i # 0 /\ j # 0
      <4>1. p[i - 1] = p[j - 1] /\ i - 1 \in 0 .. n - 1 /\ j - 1 \in 0 .. n - 1
        BY <2>3, <3>1, <3>2
      <4>2. i - 1 = j - 1
        BY <1>1, <4>1
      <4> QED
        BY <4>2
    <3>3. CASE i = 0 \/ j = 0
      BY <1>5, <2>3, <3>1, <3>3
    <3> QED
      BY <3>2, <3>3
  <2> QED
    BY <1>5, <1>6, <2>1, <2>2, <2>3 DEF FreePath
<1>8. OnPath(q, n + 1) = OnPath(p, n) \union {b}
  <2>1. ASSUME NEW i \in 0 .. (n + 1) - 1 PROVE q[i] \in OnPath(p, n) \union {b}
    <3>1. CASE i = 0
      BY <1>5, <3>1
    <3>2. CASE i # 0
      <4>1. i - 1 \in 0 .. n - 1 /\ i \in 1 .. n + 1
        BY <1>1, <1>2, <3>2
      <4> QED
        BY <1>4, <4>1 DEF OnPath
    <3> QED
      BY <3>1, <3>2
  <2>2. ASSUME NEW j \in 0 .. n - 1 PROVE p[j] \in OnPath(q, n + 1)
    <3>1. j + 1 \in 0 .. (n + 1) - 1 /\ j + 1 \in 1 .. n + 1 /\ (j + 1) - 1 = j
      BY <1>1
    <3>2. q[j + 1] = p[j]
      BY <1>4, <3>1
    <3> QED
      BY <3>1, <3>2 DEF OnPath
  <2>3. b \in OnPath(q, n + 1)
    <3>1. 0 \in 0 .. (n + 1) - 1
      BY <1>1
    <3> QED
      BY <1>5, <3>1 DEF OnPath
  <2>4. OnPath(q, n + 1) \subseteq OnPath(p, n) \union {b}
    BY <2>1 DEF OnPath
  <2>5. OnPath(p, n) \subseteq OnPath(q, n + 1)
    BY <2>2 DEF OnPath
  <2> QED
    BY <2>3, <2>4, <2>5
<1> QED
  BY <1>7, <1>8

(* FreeBlocks is what the path lists, and its length the number of links.       *)
LEMMA ReachPath ==
    ASSUME NEW p, NEW n, n = block_free_count, FreePath(p, n, block_list, header)
    PROVE  FreeBlocks = OnPath(p, n) /\ Reach[n] = Null
<1> DEFINE N == Cardinality(BlockId)
           F(r) == [i \in 0 .. N |-> IF i = 0 THEN block_list
                                     ELSE IF r[i - 1] \in BlockId THEN header[r[i - 1]] ELSE Null]
           g == [i \in 0 .. N |-> IF i <= n THEN p[i] ELSE Null]
<1>1. /\ n \in Nat /\ p[0] = block_list /\ p[n] = Null
      /\ \A i \in 0 .. n - 1 : p[i] \in BlockId /\ p[i + 1] = header[p[i]]
  BY DEF FreePath
<1>2. N \in Nat /\ n <= N /\ Null \notin BlockId
  <2>1. N \in Nat
    BY MempoolAssumption, FS_CardinalityType
  <2>2. n \in 0 .. N
    BY PathSize
  <2> QED
    BY <2>1, <2>2, MempoolAssumption
<1> HIDE DEF N
<1>3. g = F(g)
  <2>1. ASSUME NEW i \in 0 .. N PROVE g[i] = F(g)[i]
    <3>1. CASE i = 0
      BY <1>1, <3>1
    <3>2. CASE i # 0 /\ i <= n
      <4>1. i - 1 \in 0 .. N /\ i - 1 \in 0 .. n - 1 /\ (i - 1) + 1 = i /\ i - 1 <= n
        BY <1>1, <1>2, <3>2
      <4>2. g[i - 1] = p[i - 1] /\ p[i - 1] \in BlockId /\ p[i] = header[p[i - 1]] /\ g[i] = p[i]
        BY <1>1, <3>2, <4>1
      <4> QED
        BY <3>2, <4>2
    <3>3. CASE ~(i <= n)
      <4>1. i - 1 \in 0 .. N /\ i # 0 /\ (i - 1 <= n => i - 1 = n)
        BY <1>1, <1>2, <3>3
      <4>2. g[i - 1] = Null /\ g[i] = Null
        BY <1>1, <3>3, <4>1
      <4> QED
        BY <1>2, <4>1, <4>2
    <3> QED
      BY <3>1, <3>2, <3>3
  <2> QED
    BY <2>1
<1>4. Reach = F(Reach)
  <2>1. Reach = CHOOSE r : r = F(r)
    BY DEF Reach, N
  <2> HIDE DEF F, g
  <2> QED
    BY <1>3, <2>1
<1>5. ASSUME NEW i \in 0 .. N PROVE Reach[i] = g[i]
  <2> DEFINE G == {j \in 0 .. i : Reach[j] = g[j]}
  <2>1. i \in Nat /\ 0 .. i \subseteq 0 .. N
    BY <1>2
  <2>2. 0 \in G
    <3>1. 0 \in 0 .. i /\ 0 \in 0 .. N /\ 0 <= n
      BY <1>1, <1>2, <2>1
    <3>2. Reach[0] = block_list
      BY <1>4, <3>1
    <3> QED
      BY <1>1, <3>1, <3>2
  <2>3. ASSUME NEW j \in 1 .. i, j - 1 \in G PROVE j \in G
    <3>1. j \in 0 .. N /\ j \in 0 .. i /\ j # 0
      BY <2>1
    <3>2. Reach[j] = F(Reach)[j] /\ g[j] = F(g)[j]
      BY <1>3, <1>4
    <3>3. Reach[j - 1] = g[j - 1]
      BY <2>3
    <3>4. F(Reach)[j] = F(g)[j]
      <4> HIDE DEF g
      <4> QED
        BY <3>1, <3>3
    <3> QED
      BY <3>1, <3>2, <3>4
  <2> HIDE DEF G
  <2>4. i \in G
    BY <2>1, <2>2, <2>3, CountUp
  <2> QED
    BY <2>4 DEF G
<1>6. Reach[n] = Null
  BY <1>1, <1>2, <1>5
<1>7. FreeBlocks \subseteq OnPath(p, n)
  <2>1. ASSUME NEW i \in 0 .. N, Reach[i] # Null PROVE Reach[i] \in OnPath(p, n)
    <3>1. i <= n /\ Reach[i] = p[i]
      BY <1>5, <2>1
    <3>2. i \in 0 .. n - 1
      BY <1>1, <1>2, <2>1, <3>1
    <3> QED
      BY <3>1, <3>2 DEF OnPath
  <2> QED
    BY <2>1 DEF FreeBlocks, N
<1>8. OnPath(p, n) \subseteq FreeBlocks
  <2>1. ASSUME NEW i \in 0 .. n - 1 PROVE p[i] \in FreeBlocks
    <3>1. i \in 0 .. N /\ i <= n /\ p[i] \in BlockId
      BY <1>1, <1>2
    <3>2. Reach[i] = p[i] /\ p[i] # Null
      BY <1>2, <1>5, <3>1
    <3> QED
      BY <3>1, <3>2 DEF FreeBlocks, N
  <2> QED
    BY <2>1 DEF OnPath
<1> QED
  BY <1>6, <1>7, <1>8

(* PoolOK is what BlocksConserved says.                                       *)
LEMMA PoolConserves ==
    ASSUME PoolOK(block_free_count, block_list, header, blocks) PROVE BlocksConserved
<1>1. PICK n : n = block_free_count
  OBVIOUS
<1>2. PICK p : FreePath(p, n, block_list, header) /\ Held(OnPath(p, n), header, blocks)
  BY <1>1 DEF PoolOK
<1>3. FreeBlocks = OnPath(p, n) /\ Reach[n] = Null
  BY <1>1, <1>2, ReachPath
<1>4. Cardinality(OnPath(p, n)) = n
  BY <1>2, PathSize
<1>5. Held(FreeBlocks, header, blocks)
  BY <1>2, <1>3
<1>6. block_free_count = Cardinality(FreeBlocks) /\ Reach[block_free_count] = Null
  BY <1>1, <1>3, <1>4
<1> QED
  BY <1>5, <1>6 DEF BlocksConserved, Held

(* The counter and the list head have their types.                            *)
LEMMA PoolTypes ==
    ASSUME NEW n, NEW first, NEW h, NEW bl, PoolOK(n, first, h, bl)
    PROVE  n \in 0 .. Cardinality(BlockId) /\ first \in BlockId \union {Null}
<1>1. PICK p : FreePath(p, n, first, h)
  BY DEF PoolOK
<1>2. n \in Nat /\ p \in [0 .. n -> BlockId \union {Null}] /\ p[0] = first /\ 0 \in 0 .. n
  BY <1>1 DEF FreePath
<1> QED
  BY <1>1, <1>2, PathSize

(* A block is handed out.                                                    *)
LEMMA PoolTake ==
    ASSUME NEW n, NEW first, NEW h \in [BlockId -> BlockId \union {Null, Mp}],
           NEW bl \in [Thread -> SUBSET BlockId], PoolOK(n, first, h, bl), n > 0,
           NEW t \in Thread
    PROVE  /\ first \in BlockId
           /\ PoolOK(n - 1, h[first], [h EXCEPT ![first] = Mp],
                     [bl EXCEPT ![t] = @ \union {first}])
<1>1. PICK p : FreePath(p, n, first, h) /\ Held(OnPath(p, n), h, bl)
  BY DEF PoolOK
<1>2. PICK g, bm : g = [h EXCEPT ![first] = Mp] /\ bm = [bl EXCEPT ![t] = @ \union {first}]
  OBVIOUS
<1>3. /\ first \in OnPath(p, n) /\ first \in BlockId
      /\ \E q : /\ FreePath(q, n - 1, h[first], g)
                /\ OnPath(q, n - 1) = OnPath(p, n) \ {first}
  <2>1. Relinked(g, h, first, Mp) /\ n # 0
    BY <1>2 DEF Relinked
  <2> QED
    BY <1>1, <2>1, TakePath
<1>4. PICK P : P = OnPath(p, n)
  OBVIOUS
<1>5. ASSUME NEW b \in BlockId
      PROVE  /\ b \notin P \ {first} <=> \E u \in Thread : b \in bm[u]
             /\ b \notin P \ {first} => g[b] = Mp
             /\ \A u, v \in Thread : b \in bm[u] \intersect bm[v] => u = v
  <2>1. /\ b \notin P <=> \E u \in Thread : b \in bl[u]
        /\ b \notin P => h[b] = Mp
        /\ \A u, v \in Thread : b \in bl[u] \intersect bl[v] => u = v
    BY <1>1, <1>4 DEF Held
  <2>2. \A u \in Thread : b \in bm[u] <=> b \in bl[u] \/ (u = t /\ b = first)
    BY <1>2
  <2>3. g[b] = IF b = first THEN Mp ELSE h[b]
    BY <1>2
  <2>4. CASE b = first
    BY <1>3, <1>4, <2>1, <2>2, <2>3, <2>4
  <2>5. CASE b # first
    BY <2>1, <2>2, <2>3, <2>5
  <2> QED
    BY <2>4, <2>5
<1>6. Held(P \ {first}, g, bm)
  BY <1>5 DEF Held
<1>7. PoolOK(n - 1, h[first], g, bm)
  BY <1>3, <1>4, <1>6 DEF PoolOK
<1> QED
  BY <1>2, <1>3, <1>7

(* A block is given back.                                                    *)
LEMMA PoolGive ==
    ASSUME NEW n, NEW first, NEW h \in [BlockId -> BlockId \union {Null, Mp}],
           NEW bl \in [Thread -> SUBSET BlockId], PoolOK(n, first, h, bl),
           NEW t \in Thread, NEW b \in bl[t]
    PROVE  PoolOK(n + 1, b, [h EXCEPT ![b] = first], [bl EXCEPT ![t] = @ \ {b}])
<1>1. PICK p : FreePath(p, n, first, h) /\ Held(OnPath(p, n), h, bl)
  BY DEF PoolOK
<1>2. b \in BlockId /\ b \notin OnPath(p, n)
  BY <1>1 DEF Held
<1>3. PICK g, bm : g = [h EXCEPT ![b] = first] /\ bm = [bl EXCEPT ![t] = @ \ {b}]
  OBVIOUS
<1>4. \E q : /\ FreePath(q, n + 1, b, g)
            /\ OnPath(q, n + 1) = OnPath(p, n) \union {b}
  <2>1. Relinked(g, h, b, first)
    BY <1>3 DEF Relinked
  <2> QED
    BY <1>1, <1>2, <2>1, GivePath
<1>5. PICK P : P = OnPath(p, n)
  OBVIOUS
<1>6. ASSUME NEW c \in BlockId
      PROVE  /\ c \notin P \union {b} <=> \E u \in Thread : c \in bm[u]
             /\ c \notin P \union {b} => g[c] = Mp
             /\ \A u, v \in Thread : c \in bm[u] \intersect bm[v] => u = v
  <2>1. /\ c \notin P <=> \E u \in Thread : c \in bl[u]
        /\ c \notin P => h[c] = Mp
        /\ \A u, v \in Thread : c \in bl[u] \intersect bl[v] => u = v
    BY <1>1, <1>5 DEF Held
  <2>2. \A u \in Thread : c \in bm[u] <=> c \in bl[u] /\ ~(u = t /\ c = b)
    BY <1>3
  <2>3. c # b => g[c] = h[c]
    BY <1>3
  <2>4. CASE c = b
    BY <2>1, <2>2, <2>4
  <2>5. CASE c # b
    BY <2>1, <2>2, <2>3, <2>5
  <2> QED
    BY <2>4, <2>5
<1>7. Held(P \union {b}, g, bm)
  BY <1>6 DEF Held
<1>8. PoolOK(n + 1, b, g, bm)
  BY <1>4, <1>5, <1>7 DEF PoolOK
<1> QED
  BY <1>3, <1>8

(* rt_mp_init links all blocks.                                              *)
LEMMA PoolStart ==
    ASSUME MpInit
    PROVE  /\ PoolOK(block_free_count, block_list, header, blocks)
           /\ header \in [BlockId -> BlockId \union {Null, Mp}]
<1>1. PICK s : s = SetToSeq(BlockId)
  OBVIOUS
<1>2. s \in Seq(BlockId) /\ ToSet(s) = BlockId /\ IsInjective(s)
  BY <1>1, MempoolAssumption, SetToSeqLists
<1>3. PICK n : n = Len(s)
  OBVIOUS
<1>4. /\ n \in Nat /\ DOMAIN s = 1 .. n /\ \A i \in 1 .. n : s[i] \in BlockId
      /\ \A i, j \in 1 .. n : s[i] = s[j] => i = j
      /\ \A b \in BlockId : \E i \in 1 .. n : s[i] = b
  BY <1>2, <1>3 DEF ToSet, IsInjective
<1>5. n > 0
  BY <1>4, MempoolAssumption
<1>6. /\ block_list = s[1] /\ block_free_count = n
      /\ header = [b \in BlockId |-> LET i == CHOOSE i \in DOMAIN s : s[i] = b
                                    IN  IF i = n THEN Null ELSE s[i + 1]]
      /\ blocks = [t \in Thread |-> {}]
  BY <1>1, <1>3 DEF MpInit
<1>7. ASSUME NEW j \in 1 .. n PROVE header[s[j]] = IF j = n THEN Null ELSE s[j + 1]
  <2>1. (CHOOSE i \in DOMAIN s : s[i] = s[j]) = j
    BY <1>4
  <2> QED
    BY <1>4, <1>6, <2>1
<1>8. header \in [BlockId -> BlockId \union {Null, Mp}]
  <2>1. ASSUME NEW b \in BlockId PROVE header[b] \in BlockId \union {Null, Mp}
    <3>1. PICK j \in 1 .. n : s[j] = b
      BY <1>4
    <3>2. j # n => j + 1 \in 1 .. n
      BY <1>4
    <3> QED
      BY <1>4, <1>7, <3>1, <3>2
  <2> QED
    BY <1>6, <2>1
<1> DEFINE p == [i \in 0 .. n |-> IF i = n THEN Null ELSE s[i + 1]]
<1>9. \A i \in 0 .. n - 1 : i + 1 \in 1 .. n /\ i \in 0 .. n /\ i # n /\ i + 1 \in 0 .. n
  BY <1>4
<1>10. \A i \in 0 .. n - 1 : p[i] = s[i + 1] /\ p[i + 1] = IF i + 1 = n THEN Null ELSE s[(i + 1) + 1]
  BY <1>9
<1>11. p \in [0 .. n -> BlockId \union {Null}]
  BY <1>4, <1>9
<1>12. p[0] = s[1] /\ p[n] = Null
  BY <1>4, <1>5
<1> HIDE DEF p
<1>13. FreePath(p, n, s[1], header)
  <2>1. \A i \in 0 .. n - 1 : p[i] \in BlockId /\ p[i + 1] = header[p[i]]
    BY <1>4, <1>7, <1>9, <1>10
  <2>2. ASSUME NEW i \in 0 .. n - 1, NEW j \in 0 .. n - 1, p[i] = p[j] PROVE i = j
    <3>1. i + 1 = j + 1
      BY <1>4, <1>9, <1>10, <2>2
    <3> QED
      BY <3>1
  <2> QED
    BY <1>4, <1>11, <1>12, <2>1, <2>2 DEF FreePath
<1>14. OnPath(p, n) = BlockId
  <2>1. ASSUME NEW b \in BlockId PROVE b \in OnPath(p, n)
    <3>1. PICK j \in 1 .. n : s[j] = b
      BY <1>4
    <3>2. j - 1 \in 0 .. n - 1 /\ (j - 1) + 1 = j
      BY <1>4
    <3> QED
      BY <1>10, <3>1, <3>2 DEF OnPath
  <2> QED
    BY <1>13, <2>1, PathSize
<1>15. Held(BlockId, header, blocks)
  BY <1>6 DEF Held
<1> QED
  BY <1>6, <1>8, <1>13, <1>14, <1>15 DEF PoolOK

\* Nobody has been called to a pool that is being deleted: rt_mp_detach waits for
\* them, and nobody is called afterwards.
MpInv ==
    /\ CallsInv /\ MpTypeOK /\ Uses("pool")
    /\ PoolOK(block_free_count, block_list, header, blocks)
    /\ BlockIsClaimed
    /\ life # "yes" => Called("pool") = {}

(* A step that wakes nobody, and after which nobody new waits, leaves the       *)
(* account of the blocks as it is.                                           *)
LEMMA MpQuiet ==
    ASSUME MpInv, Quiet, UNCHANGED mempool, pc' \in [Thread -> CallPoint],
           \A t \in Thread : list'[t] \in {"pool", "none"},
           life = "yes" /\ life' # "yes" => Called("pool") = {}
    PROVE  MpInv'
<1>1. /\ Called("pool")' = Called("pool")
      /\ ToSet(k'.wait["pool"]) \subseteq ToSet(k.wait["pool"])
  BY MempoolAssumption DEF Quiet, SameCalled, NobodyJoins
<1>2. k'.wait["pool"] # <<>> => k.wait["pool"] # <<>>
  <2>1. k.wait["pool"] \in Seq(Thread) /\ k'.wait["pool"] \in Seq(Thread)
    BY MempoolAssumption, StateFields DEF Quiet, CallsInv, CallsTypeOK, MpInv
  <2> SUFFICES ASSUME k.wait["pool"] = <<>> PROVE k'.wait["pool"] = <<>>
    OBVIOUS
  <2>2. ToSet(k.wait["pool"]) = {}
    BY <2>1, EmptyList
  <2>3. ToSet(k'.wait["pool"]) = {}
    BY <1>1, <2>2
  <2> QED
    BY <2>1, <2>3, EmptyList
<1>3. CallsInv' /\ Uses("pool")'
  BY DEF Quiet, Uses
<1>4. MpTypeOK'
  BY <1>3 DEF MpInv, MpTypeOK, CallsInv, mempool
<1>5. PoolOK(block_free_count', block_list', header', blocks')
  BY DEF MpInv, mempool
<1>6. BlockIsClaimed' /\ (life' # "yes" => Called("pool")' = {})
  BY <1>1, <1>2 DEF MpInv, BlockIsClaimed, mempool
<1> QED
  BY <1>3, <1>4, <1>5, <1>6 DEF MpInv

(* The steps every object has, and rt_mp_detach.                              *)
LEMMA MpCommon ==
    ASSUME MpInv, UNCHANGED mempool,
           \/ \E t \in Thread : CallSteps(t) \/ rt_mp_detach(t)
           \/ Background \/ UNCHANGED calls
    PROVE  MpInv'
<1>1. /\ CallsInv /\ pc \in [Thread -> CallPoint]
      /\ \A t \in Thread : list[t] \in {"pool", "none"}
  BY DEF MpInv, MpTypeOK, Uses
<1>2. ASSUME NEW t \in Thread, CallSteps(t) PROVE MpInv'
  <2>1. Quiet
    BY <1>1, <1>2, CallStepsKeep
  <2>2. pc' \in [Thread -> CallPoint] /\ list' = list
    BY <1>1, <1>2, CallStepsPoints
  <2>3. life = "yes" => life' = "yes"
    <3>1. pc[t] = "test" => life = "detaching"
      BY <1>1 DEF CallsInv, SweepOK, Sweeps
    <3> QED
      BY <1>2, <3>1 DEF CallSteps, object, SweepTest, SweepResume, At
  <2> QED
    BY <1>1, <2>1, <2>2, <2>3, MpQuiet
<1>3. ASSUME Background PROVE MpInv'
  BY <1>1, <1>3, BackgroundKeeps, BackgroundPoints, MpQuiet DEF object
<1>4. ASSUME UNCHANGED calls PROVE MpInv'
  BY <1>1, <1>4, CallsStutter, MpQuiet DEF calls, object
<1>5. ASSUME NEW t \in Thread, rt_mp_detach(t) PROVE MpInv'
  <2>1. StartDetach(t, <<"pool">>) /\ Called("pool") = {} /\ "pool" \in WaitList
    BY <1>5, MempoolAssumption DEF rt_mp_detach
  <2>2. \A x \in Thread, l \in WaitList : On(x, l) => l \in ToSet(<<"pool">>)
    <3>1. "pool" \in ToSet(<<"pool">>)
      BY DEF ToSet
    <3> QED
      BY <1>1, <2>1, <3>1, UsesOne DEF MpInv
  <2>3. Quiet
    <3>1. <<"pool">> \in Seq(WaitList) /\ <<"pool">> # <<>>
      BY <2>1
    <3> QED
      BY <1>1, <2>1, <2>2, <3>1, DetachStarts
  <2>4. pc' \in [Thread -> CallPoint] /\ list' = list
    BY <1>1, <2>1 DEF StartDetach, Goto, CallPoint
  <2> QED
    BY <1>1, <2>1, <2>3, <2>4, MpQuiet
<1> QED
  BY <1>2, <1>3, <1>4, <1>5

(* One round of the loop of rt_mp_alloc: a block is taken, the call is given up *)
(* or the caller waits (again).                                              *)
LEMMA MpTry ==
    ASSUME MpInv, NEW t \in Thread, t # Idle, life = "yes", UNCHANGED object,
           At(t, "run") \/ At(t, "woken"), NEW d \in Time, AllocTry(t, d)
    PROVE  MpInv'
<1>1. /\ CallsInv /\ k.cur = t /\ k.stat[t] = "ready" /\ "pool" \in WaitList
      /\ pc \in [Thread -> CallPoint] /\ list \in [Thread -> WaitList \union {"none"}]
      /\ k \in KernelState /\ time \in [Thread -> Time]
      /\ header \in [BlockId -> BlockId \union {Null, Mp}]
      /\ blocks \in [Thread -> SUBSET BlockId]
      /\ block_free_count \in 0 .. Cardinality(BlockId)
      /\ Cardinality(BlockId) \in Nat
      /\ block_list \in BlockId \union {Null}
  BY MempoolAssumption, FS_CardinalityType
     DEF MpInv, MpTypeOK, At, CallsInv, CallsTypeOK, Runner
<1>2. PICK C : C = Called("pool")
  OBVIOUS
<1>3. IsFiniteSet(C) /\ Cardinality(C) \in Nat
  BY <1>2, CalledFinite
<1>4. IsFiniteSet(Called("pool")') /\ Cardinality(Called("pool")') \in Nat
  <2>1. Called("pool")' \subseteq Thread
    BY DEF Called
  <2> QED
    BY <2>1, KernelAssumption, FS_Subset, FS_CardinalityType
<1>5. ASSUME NEW c \in CallPoint, pc' = [pc EXCEPT ![t] = c],
             NEW l \in {"pool", "none"}, list' = [list EXCEPT ![t] = l]
      PROVE  /\ pc' \in [Thread -> CallPoint] /\ Uses("pool")'
             /\ list' \in [Thread -> WaitList \union {"none"}]
             /\ \A x \in Thread \ {t} : list'[x] = list[x]
  BY <1>1, <1>5 DEF MpInv, Uses
<1>6. life' = "yes"
  BY DEF object
<1>7. CASE /\ block_free_count > 0 /\ Take(t)
           /\ time' = [time EXCEPT ![t] = "none"] /\ Leave(t, "run") /\ UNCHANGED k
  <2>1. k.err \in [Thread -> Error] /\ k.err[t] \in Error /\ DOMAIN k.err = Thread
    BY <1>1, StateFields
  <2>2. k' = [k EXCEPT !.err[t] = k.err[t]]
    <3>1. k = [k EXCEPT !.err[t] = k.err[t]]
      <4>1. [k.err EXCEPT ![t] = k.err[t]] = k.err
        BY <2>1
      <4> QED
        BY <1>1, <4>1 DEF KernelState
    <3> QED
      BY <1>7, <3>1
  <2>3. /\ pc' = [pc EXCEPT ![t] = "run"] /\ list' = [list EXCEPT ![t] = "none"]
        /\ "run" \in CallPoint
    BY <1>7 DEF Leave, CallPoint
  <2>4. /\ pc' \in [Thread -> CallPoint] /\ Uses("pool")'
        /\ list' \in [Thread -> WaitList \union {"none"}]
        /\ \A x \in Thread \ {t} : list'[x] = list[x]
    BY <1>5, <2>3
  <2>5. CallsInv' /\ Called("pool")' = C \ {t} /\ k'.wait = k.wait
    BY <1>1, <1>2, <2>1, <2>2, <2>3, <2>4, ErrorKeeps
  <2>6. Cardinality(C \ {t}) \in Nat /\ Cardinality(C \ {t}) >= Cardinality(C) - 1
    <3>1. CASE t \in C
      <4>1. Cardinality(C \ {t}) = Cardinality(C) - 1 /\ IsFiniteSet(C \ {t})
        BY <1>3, <3>1, FS_RemoveElement
      <4>2. Cardinality(C \ {t}) \in Nat
        BY <4>1, FS_CardinalityType
      <4> QED
        BY <1>3, <4>1, <4>2
    <3>2. CASE t \notin C
      <4>1. C \ {t} = C
        BY <3>2
      <4> QED
        BY <1>3, <4>1
    <3> QED
      BY <3>1, <3>2
  <2>7. /\ block_free_count' = block_free_count - 1
        /\ block_list' = header[block_list]
        /\ header' = [header EXCEPT ![block_list] = Mp]
        /\ blocks' = [blocks EXCEPT ![t] = @ \union {block_list}]
    BY <1>7 DEF Take
  <2>8. /\ block_list \in BlockId
        /\ PoolOK(block_free_count', block_list', header', blocks')
    <3>1. PoolOK(block_free_count, block_list, header, blocks)
      BY DEF MpInv
    <3>2. /\ block_list \in BlockId
          /\ PoolOK(block_free_count - 1, header[block_list], [header EXCEPT ![block_list] = Mp],
                    [blocks EXCEPT ![t] = @ \union {block_list}])
      BY <1>1, <1>7, <3>1, PoolTake
    <3> QED
      BY <2>7, <3>2
  <2>9. BlockIsClaimed'
    <3>1. ASSUME k.wait["pool"] # <<>> PROVE block_free_count <= Cardinality(C)
      BY <1>2, <3>1 DEF MpInv, BlockIsClaimed
    <3>2. ASSUME k.wait["pool"] # <<>> PROVE block_free_count - 1 <= Cardinality(C \ {t})
      BY <1>1, <1>3, <2>6, <3>1, <3>2
    <3> QED
      BY <2>5, <2>7, <3>2 DEF BlockIsClaimed
  <2>10. /\ block_free_count' \in 0 .. Cardinality(BlockId)
         /\ block_list' \in BlockId \union {Null}
    BY <2>8, PoolTypes
  <2>11. /\ header' \in [BlockId -> BlockId \union {Null, Mp}]
         /\ time' \in [Thread -> Time]
         /\ blocks' \in [Thread -> SUBSET BlockId]
    BY <1>1, <1>7, <2>7, <2>8 DEF Time
  <2>12. MpTypeOK'
    BY <2>4, <2>5, <2>10, <2>11 DEF MpTypeOK, CallsInv
  <2> QED
    BY <1>6, <2>4, <2>5, <2>8, <2>9, <2>12 DEF MpInv
<1>8. ASSUME UNCHANGED <<block_list, header, block_free_count, blocks>>,
             block_free_count = 0, CallsInv', pc' \in [Thread -> CallPoint],
             Uses("pool")', time' \in [Thread -> Time]
      PROVE  MpInv'
  <2>1. PoolOK(block_free_count', block_list', header', blocks')
    BY <1>8 DEF MpInv
  <2>2. BlockIsClaimed'
    BY <1>4, <1>8 DEF BlockIsClaimed
  <2>3. MpTypeOK'
    BY <1>1, <1>8 DEF MpTypeOK, CallsInv
  <2> QED
    BY <1>6, <1>8, <2>1, <2>2, <2>3 DEF MpInv
<1>9. CASE /\ block_free_count = 0 /\ d = "none"
           /\ k' = [k EXCEPT !.err[t] = "ETIMEOUT"]
           /\ time' = [time EXCEPT ![t] = "none"]
           /\ Leave(t, "run")
           /\ UNCHANGED <<block_list, header, block_free_count, blocks>>
  <2>1. /\ pc' = [pc EXCEPT ![t] = "run"] /\ list' = [list EXCEPT ![t] = "none"]
        /\ "run" \in CallPoint /\ "ETIMEOUT" \in Error
    BY <1>9 DEF Leave, CallPoint, Error
  <2>2. /\ pc' \in [Thread -> CallPoint] /\ Uses("pool")'
        /\ list' \in [Thread -> WaitList \union {"none"}]
        /\ \A x \in Thread \ {t} : list'[x] = list[x]
    BY <1>5, <2>1
  <2>3. CallsInv'
    BY <1>1, <1>9, <2>1, <2>2, ErrorKeeps
  <2>4. time' \in [Thread -> Time]
    BY <1>1, <1>9 DEF Time
  <2> QED
    BY <1>8, <1>9, <2>2, <2>3, <2>4
<1>10. CASE block_free_count = 0 /\ d # "none" /\ WaitForBlock(t, d)
  <2>1. PICK s : s = FrontQueue(t, "pool")
    OBVIOUS
  <2>2. /\ s \in KernelState /\ KernelConsistent(s)
        /\ s.stat = [k.stat EXCEPT ![t] = "suspend"]
        /\ s.timer = [k.timer EXCEPT ![t] = FALSE]
        /\ s.err = [k.err EXCEPT ![t] = "EOK"]
        /\ s.cur = k.cur /\ s.nest = k.nest /\ WaitAdds(s, k, "pool", t)
    BY <1>1, <2>1, FrontQueueEffect
  <2>3. /\ Block(t, s, "pool", d)
        /\ UNCHANGED <<block_list, header, block_free_count, blocks>>
        /\ time' = [time EXCEPT ![t] = d]
    BY <1>10, <2>1 DEF WaitForBlock, FrontQueue
  <2>4. CallsInv'
    BY <1>1, <2>2, <2>3, BlockKeeps
  <2>5. pc' \in [Thread -> CallPoint] /\ Uses("pool")'
    BY <1>5, <2>3 DEF Block, CallPoint
  <2>6. time' \in [Thread -> Time]
    BY <1>1, <2>3
  <2> QED
    BY <1>8, <1>10, <2>3, <2>4, <2>5, <2>6
<1> QED
  BY <1>7, <1>9, <1>10 DEF AllocTry

(* rt_mp_alloc, and the same once the caller runs again.                       *)
LEMMA MpAlloc ==
    ASSUME MpInv, NEW t \in Thread, (\E d \in Time : rt_mp_alloc(t, d)) \/ AllocRetry(t)
    PROVE  MpInv'
<1>1. ASSUME NEW d \in Time, rt_mp_alloc(t, d) PROVE MpInv'
  BY <1>1, MpTry DEF rt_mp_alloc, Enters
<1>2. ASSUME At(t, "woken"), UNCHANGED object, k.err[t] # "EOK",
             time' = [time EXCEPT ![t] = "none"], Leave(t, "run"),
             UNCHANGED <<k, block_list, header, block_free_count, blocks>>
      PROVE  MpInv'
  <2>1. /\ CallsInv /\ "pool" \in WaitList /\ pc \in [Thread -> CallPoint]
        /\ list \in [Thread -> WaitList \union {"none"}] /\ time \in [Thread -> Time]
    BY MempoolAssumption DEF MpInv, MpTypeOK, CallsInv, CallsTypeOK
  <2>2. /\ CallsInv' /\ Called("pool")' = Called("pool") \ {t}
        /\ (k.err[t] = "EOK" <=> t \in Called(list[t]))
        /\ (t \in Called("pool") => "pool" = list[t])
    BY <1>2, <2>1, LeaveKeeps
  <2>3. Called("pool")' = Called("pool")
    BY <1>2, <2>2
  <2>4. pc' \in [Thread -> CallPoint] /\ Uses("pool")' /\ time' \in [Thread -> Time]
    BY <1>2, <2>1 DEF Leave, CallPoint, Uses, MpInv, Time
  <2>5. PoolOK(block_free_count', block_list', header', blocks')
    BY <1>2 DEF MpInv
  <2>6. BlockIsClaimed' /\ (life' # "yes" => Called("pool")' = {})
    BY <1>2, <2>3 DEF MpInv, BlockIsClaimed, object
  <2>7. MpTypeOK'
    BY <1>2, <2>2, <2>4 DEF MpInv, MpTypeOK, CallsInv
  <2> QED
    BY <2>2, <2>4, <2>5, <2>6, <2>7 DEF MpInv
<1>3. ASSUME At(t, "woken"), UNCHANGED object, k.err[t] = "EOK",
             NEW d \in TimeLeft(time[t]), AllocTry(t, d)
      PROVE  MpInv'
  <2>1. /\ CallsInv /\ k.cur = t /\ k.stat[t] = "ready" /\ InWait(t) /\ ThreadOK(t)
        /\ time[t] \in Time
    BY <1>3 DEF MpInv, MpTypeOK, CallsInv, CallsTypeOK, Runner, At, InWait
  <2>2. t # Idle /\ list[t] \in WaitList
    BY <2>1 DEF ThreadOK
  <2>3. list[t] = "pool"
    BY <2>2, CallsAssumption DEF MpInv, Uses
  <2>4. t \in Called("pool")
    BY <1>3, <2>1, <2>3 DEF Called
  <2>5. life = "yes"
    BY <2>4 DEF MpInv
  <2>6. d \in Time
    BY <1>3, <2>1 DEF TimeLeft, Time
  <2> QED
    BY <1>3, <2>2, <2>5, <2>6, MpTry
<1> QED
  BY <1>1, <1>2, <1>3 DEF AllocRetry

(* What giving back a block does to the pool and to the waiters, together.      *)
LEMMA MpGive ==
    ASSUME MpInv, NEW t \in Thread, NEW b \in blocks[t], Give(t, b), life' = "yes",
           pc' \in [Thread -> CallPoint], Uses("pool")',
           k.wait["pool"] = <<>> => Quiet,
           k.wait["pool"] # <<>> => CallsInv' /\ \E h \in Thread : Wakes(h, "pool")
    PROVE  MpInv'
<1>1. /\ header \in [BlockId -> BlockId \union {Null, Mp}]
      /\ blocks \in [Thread -> SUBSET BlockId] /\ time \in [Thread -> Time]
      /\ PoolOK(block_free_count, block_list, header, blocks)
      /\ block_free_count \in Nat /\ "pool" \in WaitList
      /\ k.wait["pool"] \in Seq(Thread) /\ block_list \in BlockId \union {Null}
      /\ b \in BlockId
  BY MempoolAssumption, StateFields DEF MpInv, MpTypeOK, CallsInv, CallsTypeOK
<1>2. /\ block_free_count' = block_free_count + 1
      /\ header' = [header EXCEPT ![b] = block_list]
      /\ block_list' = b
      /\ blocks' = [blocks EXCEPT ![t] = @ \ {b}]
      /\ time' = time
  BY DEF Give
<1>3. PoolOK(block_free_count', block_list', header', blocks')
  <2>1. PoolOK(block_free_count + 1, b, [header EXCEPT ![b] = block_list],
               [blocks EXCEPT ![t] = @ \ {b}])
    BY <1>1, PoolGive
  <2> QED
    BY <1>2, <2>1
<1>4. /\ block_free_count' \in 0 .. Cardinality(BlockId)
      /\ block_list' \in BlockId \union {Null}
  BY <1>3, PoolTypes
<1>5. /\ header' \in [BlockId -> BlockId \union {Null, Mp}]
      /\ time' \in [Thread -> Time] /\ blocks' \in [Thread -> SUBSET BlockId]
  BY <1>1, <1>2
<1>6. CallsInv' /\ BlockIsClaimed'
  <2>1. CASE k.wait["pool"] = <<>>
    <3>1. CallsInv' /\ ToSet(k'.wait["pool"]) \subseteq ToSet(k.wait["pool"])
      BY <1>1, <2>1 DEF Quiet, NobodyJoins
    <3>2. k'.wait["pool"] \in Seq(Thread)
      BY <1>1, <3>1, StateFields DEF CallsInv, CallsTypeOK
    <3>3. ToSet(k'.wait["pool"]) = {}
      BY <1>1, <2>1, <3>1, EmptyList
    <3> QED
      BY <3>1, <3>2, <3>3, EmptyList DEF BlockIsClaimed
  <2>2. CASE k.wait["pool"] # <<>>
    <3>1. PICK h \in Thread : Wakes(h, "pool")
      BY <2>2
    <3>2. PICK C : C = Called("pool")
      OBVIOUS
    <3>3. IsFiniteSet(C) /\ Cardinality(C) \in Nat /\ block_free_count <= Cardinality(C)
      BY <2>2, <3>2, CalledFinite DEF MpInv, BlockIsClaimed
    <3>4. h \notin C /\ Called("pool")' = C \union {h}
      BY <1>1, <3>1, <3>2 DEF Wakes
    <3>5. Cardinality(C \union {h}) = Cardinality(C) + 1
      BY <3>3, <3>4, FS_AddElement
    <3>6. block_free_count + 1 <= Cardinality(C \union {h})
      BY <1>1, <3>3, <3>5
    <3>7. BlockIsClaimed'
      BY <1>2, <3>4, <3>6 DEF BlockIsClaimed
    <3> QED
      BY <2>2, <3>7
  <2> QED
    BY <2>1, <2>2
<1>7. MpTypeOK'
  BY <1>4, <1>5, <1>6 DEF MpTypeOK, CallsInv
<1> QED
  BY <1>3, <1>6, <1>7 DEF MpInv

(* rt_mp_free by a thread or by an interrupt handler.                          *)
LEMMA MpFree ==
    ASSUME MpInv, NEW t \in Thread, NEW b \in BlockId, rt_mp_free(t, b) \/ IsrFree(t, b)
    PROVE  MpInv'
<1>1. /\ CallsInv /\ "pool" \in WaitList /\ pc \in [Thread -> CallPoint]
      /\ list \in [Thread -> WaitList \union {"none"}]
  BY MempoolAssumption DEF MpInv, MpTypeOK, CallsInv, CallsTypeOK
<1>2. CASE rt_mp_free(t, b)
  <2>1. /\ life = "yes" /\ UNCHANGED object /\ k.cur = t /\ ~InWait(t)
        /\ b \in blocks[t] /\ Give(t, b) /\ Wake(t, "pool") /\ life' = "yes"
    BY <1>2 DEF rt_mp_free, Enters, At, InWait, object
  <2>2. pc' \in [Thread -> CallPoint] /\ Uses("pool")'
    BY <1>1, <2>1 DEF Wake, Leave, CallPoint, Uses, MpInv
  <2>3. /\ k.wait["pool"] = <<>> => Quiet
        /\ k.wait["pool"] # <<>> => CallsInv' /\ \E h \in Thread : Wakes(h, "pool")
    BY <1>1, <2>1, WakeKeeps
  <2> QED
    BY <2>1, <2>2, <2>3, MpGive
<1>3. CASE IsrFree(t, b)
  <2>1. /\ life = "yes" /\ UNCHANGED <<pc, list, object>> /\ b \in blocks[t]
        /\ Give(t, b) /\ IsrWake("pool") /\ life' = "yes"
    BY <1>3 DEF IsrFree, object
  <2>2. pc' \in [Thread -> CallPoint] /\ Uses("pool")'
    BY <1>1, <2>1 DEF Uses, MpInv
  <2>3. /\ k.wait["pool"] = <<>> => Quiet
        /\ k.wait["pool"] # <<>> => CallsInv' /\ \E h \in Thread : Wakes(h, "pool")
    BY <1>1, <2>1, IsrWakeKeeps
  <2> QED
    BY <2>1, <2>2, <2>3, MpGive
<1> QED
  BY <1>2, <1>3

(* The inductive invariant of the memory pool, for any number of blocks.        *)
THEOREM MempoolInvariance == MpSpec => []MpInv
<1>1. CallsInit /\ MpInit => MpInv
  <2> SUFFICES ASSUME CallsInit, MpInit PROVE MpInv
    OBVIOUS
  <2>1. /\ CallsInv /\ Called("pool") = {} /\ k.wait["pool"] = <<>>
        /\ \A t \in Thread : list[t] = "none"
    BY CallsStart, MempoolAssumption
  <2>2. /\ PoolOK(block_free_count, block_list, header, blocks)
        /\ header \in [BlockId -> BlockId \union {Null, Mp}]
    BY PoolStart
  <2>3. /\ block_free_count \in 0 .. Cardinality(BlockId)
        /\ block_list \in BlockId \union {Null}
    BY <2>2, PoolTypes
  <2>4. pc \in [Thread -> CallPoint]
    BY DEF CallsInit, CallPoint
  <2>5. time \in [Thread -> Time] /\ blocks \in [Thread -> SUBSET BlockId]
    BY DEF MpInit, Time
  <2> QED
    BY <2>1, <2>2, <2>3, <2>4, <2>5 DEF MpInv, MpTypeOK, Uses, BlockIsClaimed, CallsInv
<1>2. MpInv /\ [MpNext]_<<calls, mempool>> => MpInv'
  <2> SUFFICES ASSUME MpInv, [MpNext]_<<calls, mempool>> PROVE MpInv'
    OBVIOUS
  <2>1. CASE UNCHANGED <<calls, mempool>>
    BY <2>1, MpCommon
  <2>2. CASE MpNext
    BY <2>2, MpCommon, MpAlloc, MpFree DEF MpNext, rt_mp_detach
  <2> QED
    BY <2>1, <2>2
<1> QED
  BY <1>1, <1>2, PTL DEF MpSpec

(* No block of a pool is handed out twice or lost, the free list has no cycle,  *)
(* and the counter that rt_mp_alloc tests is the length of that list, however  *)
(* allocations, retries and frees from threads and interrupts interleave.      *)
(* While callers are left on the list of a pool, every free block has a woken   *)
(* caller on its way: a block given back is not forgotten when the caller that  *)
(* it woke is overtaken.                                                     *)
THEOREM BlocksAlwaysKept == MpSpec => []BlocksKept
<1>1. MpInv => BlocksKept
  BY PoolConserves DEF MpInv, BlocksKept
<1> QED
  BY <1>1, MempoolInvariance, PTL

(* A pool whose waiters are untimed when it is detached forgets nobody.         *)
THEOREM MempoolForgetsNobody ==
    ASSUME ~DetachTimed PROVE MpSpec => []NobodyForgotten
<1>1. MpInv => NobodyForgotten
  BY NothingForgotten DEF MpInv, NobodyForgotten
<1> QED
  BY <1>1, MempoolInvariance, PTL

-----------------------------------------------------------------------------
(* The work queue, when neither calls nor the tick come between a test and   *)
(* the section that relies on it.                                            *)

WorkRecords == [work : Work \union {NoWork}, next : {"run", "attach"}]
Queued == ToSet(work_list)
ListOK == work_list \in Seq(Work) /\ IsInjective(work_list)

\* Delayed work is in the list or has its timer running, never both, and what is
\* in the list is pending; pending work may have left the list (cancel_all).
DelaysAgree ==
    /\ Queued \intersect submitting = {}
    /\ Queued \intersect Delayable \subseteq pending
    /\ submitting \intersect pending = {}
    /\ submitting \subseteq delayed /\ submitting \subseteq attached
    /\ delayed \subseteq Delayable

\* One call at a time is between the sections of a cancellation, and what the
\* sections so far have established still holds.
InSections ==
    /\ \A t, u \in Thread : pc[t] \in CancelPoint /\ pc[u] \in CancelPoint => t = u
    /\ \A t \in Thread :
           /\ pc[t] \in CancelPoint => call[t].work \in delayed
           /\ pc[t] \in {"unqueue", "detach", "attach"} => call[t].work \notin submitting
           /\ pc[t] \in {"untimer", "detach", "attach"} => call[t].work \notin Queued
           /\ pc[t] = "attach" => call[t].work \notin pending

WorkInv ==
    /\ pc \in [Thread -> WorkPoint] /\ call \in [Thread -> WorkRecords]
    /\ ListOK /\ AcceptedIsQueued /\ DelaysAgree /\ InSections

(* What the worker, the scheduler, timers and woken callers do changes       *)
(* neither the list nor the flags, nor where a cancellation is.               *)
LEMMA WorkFrame ==
    ASSUME WorkInv, UNCHANGED <<work_list, flags, call, due>>,
           pc' \in [Thread -> WorkPoint],
           \A t \in Thread : pc'[t] \in CancelPoint => pc'[t] = pc[t]
    PROVE  WorkInv'
<1>1. /\ UNCHANGED <<work_list, pending, submitting, delayed, attached, call, due>>
      /\ Queued' = Queued
  BY DEF flags, Queued
<1>2. InSections'
  BY <1>1 DEF WorkInv, InSections, CancelPoint
<1> QED
  BY <1>1, <1>2 DEF WorkInv, ListOK, AcceptedIsQueued, DelaysAgree, Queued

(* The empty list.                                                           *)
LEMMA EmptyWork ==
    <<>> \in Seq(Work) /\ IsInjective(<<>>) /\ ToSet(<<>>) = {}
<1>1. <<>> \in Seq(Work) /\ DOMAIN <<>> = {}
  OBVIOUS
<1>2. IsInjective(<<>>)
  BY <1>1 DEF IsInjective
<1>3. ToSet(<<>>) = {}
  BY <1>1 DEF ToSet
<1> QED
  BY <1>1, <1>2, <1>3

(* The first entry of the list leaves it.                                    *)
LEMMA WorkTail ==
    ASSUME NEW s, s \in Seq(Work), IsInjective(s), s # <<>>
    PROVE  /\ Tail(s) \in Seq(Work) /\ IsInjective(Tail(s))
           /\ ToSet(Tail(s)) = ToSet(s) \ {Head(s)} /\ Head(s) \in ToSet(s)
           /\ Head(s) \in Work
<1>1. PICK q : q = Tail(s)
  OBVIOUS
<1>2. /\ q \in Seq(Work) /\ Len(q) = Len(s) - 1 /\ Len(s) \in Nat \ {0}
      /\ \A i \in 1 .. Len(s) - 1 : q[i] = s[i + 1]
      /\ Head(s) = s[1]
  BY <1>1
<1>3. \A i, j \in 1 .. Len(s) : s[i] = s[j] => i = j
  BY DEF IsInjective
<1>4. DOMAIN q = 1 .. Len(s) - 1
  BY <1>2
<1>5. IsInjective(q)
  BY <1>2, <1>3, <1>4 DEF IsInjective
<1>6. ASSUME NEW x PROVE x \in ToSet(q) <=> x \in ToSet(s) \ {Head(s)}
  <2>1. x \in ToSet(q) <=> \E i \in 1 .. Len(s) - 1 : s[i + 1] = x
    BY <1>2, ToSetIsRange
  <2>2. x \in ToSet(s) <=> \E i \in 1 .. Len(s) : s[i] = x
    BY ToSetIsRange
  <2>3. ASSUME NEW i \in 1 .. Len(s) - 1, s[i + 1] = x PROVE x \in ToSet(s) \ {Head(s)}
    <3>1. i + 1 \in 1 .. Len(s) /\ 1 \in 1 .. Len(s) /\ i + 1 # 1
      BY <1>2
    <3> QED
      BY <1>2, <1>3, <2>2, <2>3, <3>1
  <2>4. ASSUME NEW i \in 1 .. Len(s), s[i] = x, x # Head(s) PROVE x \in ToSet(q)
    <3>1. i - 1 \in 1 .. Len(s) - 1 /\ (i - 1) + 1 = i
      BY <1>2, <2>4
    <3> QED
      BY <2>1, <2>4, <3>1
  <2> QED
    BY <2>1, <2>2, <2>3, <2>4
<1>7. Head(s) \in ToSet(s) /\ Head(s) \in Work
  BY HeadIsElement
<1> QED
  BY <1>1, <1>2, <1>5, <1>6, <1>7

(* Queueing and dropping work.                                               *)
LEMMA WithoutEffect ==
    ASSUME ListOK, NEW w, NEW r, r = Without(w)
    PROVE  r \in Seq(Work) /\ IsInjective(r) /\ ToSet(r) = Queued \ {w}
BY RemoveFirstRemoves DEF ListOK, Queued, Without

LEMMA EnqueueEffect ==
    ASSUME ListOK, NEW w \in Work, Enqueue(w)
    PROVE  ListOK' /\ Queued' = Queued \union {w} /\ due' = due \union {w}
<1>1. PICK r, a : r = Without(w) /\ a = Append(r, w)
  OBVIOUS
<1>2. r \in Seq(Work) /\ IsInjective(r) /\ ToSet(r) = Queued \ {w}
  BY <1>1, WithoutEffect
<1>3. w \notin ToSet(r)
  BY <1>2
<1>4. a \in Seq(Work) /\ ToSet(a) = ToSet(r) \union {w} /\ IsInjective(a)
  BY ONLY <1>1, <1>2, <1>3, w \in Work, AppendInserts
<1>5. work_list' = a /\ due' = due \union {w}
  BY <1>1 DEF Enqueue
<1> QED
  BY <1>2, <1>4, <1>5 DEF ListOK, Queued

LEMMA DropEffect ==
    ASSUME ListOK, NEW w, Drop(w)
    PROVE  /\ ListOK' /\ Queued' = Queued \ {w} /\ due' = due \ {w}
           /\ pending' = pending \ {w}
<1>1. PICK r : r = Without(w)
  OBVIOUS
<1>2. r \in Seq(Work) /\ IsInjective(r) /\ ToSet(r) = Queued \ {w}
  BY <1>1, WithoutEffect
<1> QED
  BY <1>1, <1>2 DEF Drop, ListOK, Queued

(* The worker takes the first entry.                                          *)
LEMMA TakeHolds ==
    ASSUME WorkInv, WorkTake PROVE WorkInv'
<1>1. pc' = [pc EXCEPT ![Worker] = "work"] /\ UNCHANGED call /\ Worker \in Thread
  BY WorkAssumption DEF WorkTake, Goto
<1>2. pc' \in [Thread -> WorkPoint] /\ \A t \in Thread : pc'[t] \in CancelPoint => pc'[t] = pc[t]
  BY <1>1 DEF WorkInv, WorkPoint, CancelPoint
<1>3. CASE work_list = <<>>
  BY <1>1, <1>2, <1>3, WorkFrame DEF WorkTake
<1>4. CASE work_list # <<>>
  <2>1. PICK w : w = Head(work_list)
    OBVIOUS
  <2>2. /\ work_list' = Tail(work_list) /\ pending' = pending \ {w}
        /\ attached' = attached \ {w} /\ due' = due \ {w}
        /\ UNCHANGED <<submitting, delayed>>
    BY <1>4, <2>1 DEF WorkTake
  <2>3. ListOK' /\ Queued' = Queued \ {w} /\ w \in Queued
    BY <1>4, <2>1, <2>2, WorkTail DEF WorkInv, ListOK, Queued
  <2>4. AcceptedIsQueued' /\ DelaysAgree'
    BY <2>2, <2>3 DEF WorkInv, AcceptedIsQueued, DelaysAgree, Queued
  <2>5. InSections'
    BY <1>1, <1>2, <2>2, <2>3 DEF WorkInv, InSections, CancelPoint
  <2> QED
    BY <1>1, <1>2, <2>3, <2>4, <2>5 DEF WorkInv
<1> QED
  BY <1>3, <1>4

(* Steps of the worker and of woken callers, and the rest of the system.      *)
LEMMA WorkQuiet ==
    ASSUME WorkInv,
           \/ _workqueue_thread_entry
           \/ \E t \in Thread : \/ LastSchedule(t) /\ UNCHANGED <<object, workqueue>>
                                \/ ResumeWorker(t) \/ SyncReturn(t)
           \/ Background /\ UNCHANGED workqueue
           \/ UNCHANGED <<calls, workqueue>>
    PROVE  WorkInv'
<1>1. ASSUME NEW t \in Thread, NEW c \in WorkPoint \ CancelPoint,
             pc' = [pc EXCEPT ![t] = c], UNCHANGED <<work_list, flags, call, due>>
      PROVE  WorkInv'
  <2>1. pc' \in [Thread -> WorkPoint] /\ \A x \in Thread : pc'[x] \in CancelPoint => pc'[x] = pc[x]
    BY <1>1 DEF WorkInv
  <2> QED
    BY <1>1, <2>1, WorkFrame
<1>2. ASSUME UNCHANGED <<pc, work_list, flags, call, due>> PROVE WorkInv'
  BY <1>2, WorkFrame DEF WorkInv
<1>3. /\ Worker \in Thread
      /\ {"run", "suspend", "sched", "take", "work", "ack", "schedule"} \subseteq WorkPoint \ CancelPoint
  BY WorkAssumption DEF WorkPoint, CallPoint, CancelPoint
<1>4. CASE WorkTest \/ WorkSuspend \/ WorkSchedule \/ WorkDone \/ WorkAck
  BY <1>1, <1>3, <1>4
     DEF WorkTest, WorkSuspend, WorkSchedule, WorkDone, WorkAck, Goto, workqueue
<1>5. CASE WorkSleep
  BY <1>2, <1>5 DEF WorkSleep, workqueue
<1>6. ASSUME NEW t \in Thread,
             \/ LastSchedule(t) /\ UNCHANGED <<object, workqueue>>
             \/ ResumeWorker(t) \/ SyncReturn(t)
      PROVE  WorkInv'
  BY <1>1, <1>3, <1>6 DEF LastSchedule, ResumeWorker, SyncReturn, Goto, Leave, workqueue
<1>7. CASE (Background /\ UNCHANGED workqueue) \/ UNCHANGED <<calls, workqueue>>
  BY <1>2, <1>7 DEF Background, workqueue, calls
<1> QED
  BY <1>4, <1>5, <1>6, <1>7, TakeHolds DEF _workqueue_thread_entry

(* A call that starts while nobody is between two sections.                   *)
LEMMA NobodyBetween ==
    ASSUME Settled PROVE \A t \in Thread : pc[t] \notin CancelPoint
BY DEF Settled

(* Submissions, cancellations and expiries that nobody else is in the way of:  *)
(* w joins or leaves the list.                                               *)
LEMMA SettledHolds ==
    ASSUME WorkInv, Settled, ListOK', AcceptedIsQueued', DelaysAgree',
           call' \in [Thread -> WorkRecords], pc' \in [Thread -> WorkPoint],
           \A t \in Thread : pc'[t] \in CancelPoint => pc'[t] = pc[t]
    PROVE  WorkInv'
<1>1. InSections'
  BY NobodyBetween DEF InSections, CancelPoint
<1> QED
  BY <1>1 DEF WorkInv

LEMMA CallHolds ==
    ASSUME WorkInv, ~Races, NEW t \in Thread,
           \/ rt_workqueue_cancel_all_work(t)
           \/ \E w \in Work :
                  \/ rt_workqueue_dowork(t, w) \/ rt_workqueue_critical_work(t, w)
                  \/ rt_workqueue_cancel_work(t, w) \/ rt_workqueue_cancel_work_sync(t, w)
    PROVE  WorkInv'
<1>1. /\ pc \in [Thread -> WorkPoint] /\ call \in [Thread -> WorkRecords] /\ ListOK
      /\ {"run", "wake", "woken"} \subseteq WorkPoint \ CancelPoint
  BY DEF WorkInv, WorkPoint, CallPoint, CancelPoint
<1>2. ASSUME NEW c \in WorkPoint \ CancelPoint, pc' = pc \/ pc' = [pc EXCEPT ![t] = c],
             Settled, UNCHANGED call, ListOK', AcceptedIsQueued', DelaysAgree'
      PROVE  WorkInv'
  <2>1. pc' \in [Thread -> WorkPoint] /\ \A x \in Thread : pc'[x] \in CancelPoint => pc'[x] = pc[x]
    BY <1>1, <1>2
  <2> QED
    BY <1>1, <1>2, <2>1, SettledHolds
<1>3. CASE rt_workqueue_cancel_all_work(t)
  <2>1. /\ Settled /\ UNCHANGED <<pc, call, pending, submitting, delayed, attached>>
        /\ work_list' = <<>> /\ due' = due \ Queued
    BY <1>3 DEF rt_workqueue_cancel_all_work, FromThread, flags, Queued
  <2>2. ListOK' /\ Queued' = {}
    BY <2>1, EmptyWork DEF ListOK, Queued
  <2>3. AcceptedIsQueued' /\ DelaysAgree'
    BY <2>1, <2>2 DEF WorkInv, AcceptedIsQueued, DelaysAgree, Queued
  <2> QED
    BY <1>1, <1>2, <2>1, <2>2, <2>3
<1>4. ASSUME NEW w \in Work, rt_workqueue_dowork(t, w) PROVE WorkInv'
  <2>1. /\ Settled /\ w \notin delayed /\ Enqueue(w) /\ pending' = pending \union {w}
        /\ UNCHANGED <<call, submitting, delayed, attached>>
    BY <1>4 DEF rt_workqueue_dowork, Submit, FromThread
  <2>2. PICK c \in {"run", "wake"} : pc' = [pc EXCEPT ![t] = c]
    BY <1>4 DEF rt_workqueue_dowork, Submit, Goto
  <2>3. ListOK' /\ Queued' = Queued \union {w} /\ due' = due \union {w}
    BY <1>1, <2>1, EnqueueEffect
  <2>4. AcceptedIsQueued' /\ DelaysAgree'
    BY <2>1, <2>3 DEF WorkInv, AcceptedIsQueued, DelaysAgree, Queued
  <2> QED
    BY <1>1, <1>2, <2>1, <2>2, <2>3, <2>4
<1>5. ASSUME NEW w \in Work, rt_workqueue_critical_work(t, w) PROVE WorkInv'
  <2>1. /\ Settled /\ w \notin Delayable /\ Enqueue(w)
        /\ UNCHANGED <<call, pending, submitting, delayed, attached>>
    BY <1>5 DEF rt_workqueue_critical_work, FromThread, flags
  <2>2. PICK c \in {"run", "wake"} : pc' = [pc EXCEPT ![t] = c]
    BY <1>5 DEF rt_workqueue_critical_work, Goto
  <2>3. ListOK' /\ Queued' = Queued \union {w} /\ due' = due \union {w}
    BY <1>1, <2>1, EnqueueEffect
  <2>4. AcceptedIsQueued' /\ DelaysAgree'
    BY <2>1, <2>3 DEF WorkInv, AcceptedIsQueued, DelaysAgree, Queued
  <2> QED
    BY <1>1, <1>2, <2>1, <2>2, <2>3, <2>4
<1>6. ASSUME NEW w \in Work, Drop(w), w \notin delayed, Settled,
             UNCHANGED <<pc, call, submitting, delayed, attached>>
      PROVE  WorkInv'
  <2>1. ListOK' /\ Queued' = Queued \ {w} /\ due' = due \ {w} /\ pending' = pending \ {w}
    BY <1>1, <1>6, DropEffect
  <2>2. AcceptedIsQueued' /\ DelaysAgree'
    BY <1>6, <2>1 DEF WorkInv, AcceptedIsQueued, DelaysAgree, Queued
  <2> QED
    BY <1>1, <1>2, <1>6, <2>1, <2>2
<1>7. ASSUME NEW w \in Work, rt_workqueue_cancel_work(t, w) PROVE WorkInv'
  BY <1>6, <1>7 DEF rt_workqueue_cancel_work, FromThread
<1>8. ASSUME NEW w \in Work, rt_workqueue_cancel_work_sync(t, w) PROVE WorkInv'
  <2>1. /\ Settled /\ w \notin Delayable /\ w \notin delayed
        /\ UNCHANGED <<call, submitting, delayed, attached>>
    BY <1>8 DEF rt_workqueue_cancel_work_sync, FromThread, WorkInv, DelaysAgree
  <2>2. CASE Drop(w) /\ UNCHANGED pc
    BY <1>6, <2>1, <2>2
  <2>3. CASE /\ pending' = pending \ {w} /\ pc' = [pc EXCEPT ![t] = "woken"]
             /\ UNCHANGED <<work_list, due>>
    <3>1. ListOK' /\ Queued' = Queued
      BY <1>1, <2>3 DEF ListOK, Queued
    <3>2. AcceptedIsQueued' /\ DelaysAgree'
      BY <2>1, <2>3, <3>1 DEF WorkInv, AcceptedIsQueued, DelaysAgree, Queued
    <3> QED
      BY <1>1, <1>2, <2>1, <2>3, <3>1, <3>2
  <2> QED
    BY <1>8, <2>2, <2>3 DEF rt_workqueue_cancel_work_sync
<1> QED
  BY <1>3, <1>4, <1>5, <1>7, <1>8

(* Delayed work: the sections of a submission and of a cancellation.          *)
LEMMA BeginHolds ==
    ASSUME WorkInv, ~Races, NEW t \in Thread, NEW w \in Work,
           SubmitDelayed(t, w) \/ CancelDelayed(t, w)
    PROVE  WorkInv'
<1>1. /\ Settled /\ UNCHANGED <<work_list, pending, submitting, attached, due>>
      /\ delayed' \in {delayed, delayed \union {w}} /\ w \in Delayable /\ w \in delayed'
  BY DEF SubmitDelayed, CancelDelayed, FromThread, flags, WorkInv, DelaysAgree
<1>2. PICK c \in {"cancel", "attach"}, n \in {"run", "attach"} :
          /\ pc' = [pc EXCEPT ![t] = c]
          /\ call' = [call EXCEPT ![t] = [work |-> w, next |-> n]]
          /\ c = "attach" => w \notin attached /\ w \notin pending \union Queued
  BY DEF SubmitDelayed, CancelDelayed, Begin, Goto, Queued
<1>3. /\ pc' \in [Thread -> WorkPoint] /\ pc'[t] = c
      /\ \A u \in Thread : u # t => pc'[u] = pc[u]
  BY <1>2 DEF WorkInv, WorkPoint
<1>4. call' \in [Thread -> WorkRecords] /\ call'[t].work = w
  BY <1>2 DEF WorkInv, WorkRecords
<1>5. \A u \in Thread : pc'[u] \in CancelPoint => u = t
  BY <1>1, <1>3, NobodyBetween
<1>6. Queued' = Queued /\ ListOK' /\ AcceptedIsQueued' /\ DelaysAgree'
  BY <1>1 DEF WorkInv, Queued, ListOK, AcceptedIsQueued, DelaysAgree
<1>7. InSections'
  <2>1. c = "attach" => w \notin submitting' /\ w \notin Queued' /\ w \notin pending'
    BY <1>1, <1>2, <1>6 DEF WorkInv, DelaysAgree
  <2>2. ASSUME NEW u \in Thread
        PROVE  /\ pc'[u] \in CancelPoint => call'[u].work \in delayed'
               /\ pc'[u] \in {"unqueue", "detach", "attach"} => call'[u].work \notin submitting'
               /\ pc'[u] \in {"untimer", "detach", "attach"} => call'[u].work \notin Queued'
               /\ pc'[u] = "attach" => call'[u].work \notin pending'
    <3>1. CASE u = t
      BY <1>1, <1>2, <1>3, <1>4, <2>1, <3>1
    <3>2. CASE u # t
      BY <1>5, <3>2 DEF CancelPoint
    <3> QED
      BY <3>1, <3>2
  <2> QED
    BY <1>5, <2>2 DEF InSections
<1> QED
  BY <1>3, <1>4, <1>6, <1>7 DEF WorkInv

(* The thread inside a cancellation is the only one, and goes on to point c.   *)
LEMMA SectionHolds ==
    ASSUME WorkInv, NEW t \in Thread, pc[t] \in CancelPoint, NEW c \in WorkPoint,
           pc' = [pc EXCEPT ![t] = c], call' \in [Thread -> WorkRecords],
           ListOK', AcceptedIsQueued', DelaysAgree',
           /\ c \in CancelPoint => call'[t].work \in delayed'
           /\ c \in {"unqueue", "detach", "attach"} => call'[t].work \notin submitting'
           /\ c \in {"untimer", "detach", "attach"} => call'[t].work \notin Queued'
           /\ c = "attach" => call'[t].work \notin pending'
    PROVE  WorkInv'
<1>1. /\ pc' \in [Thread -> WorkPoint] /\ pc'[t] = c
      /\ \A u \in Thread : u # t => pc'[u] = pc[u]
  BY DEF WorkInv
<1>2. \A u \in Thread : pc'[u] \in CancelPoint => u = t
  BY <1>1 DEF WorkInv, InSections
<1>3. InSections'
  <2>1. ASSUME NEW u \in Thread
        PROVE  /\ pc'[u] \in CancelPoint => call'[u].work \in delayed'
               /\ pc'[u] \in {"unqueue", "detach", "attach"} => call'[u].work \notin submitting'
               /\ pc'[u] \in {"untimer", "detach", "attach"} => call'[u].work \notin Queued'
               /\ pc'[u] = "attach" => call'[u].work \notin pending'
    <3>1. CASE u = t
      BY <1>1, <3>1
    <3>2. CASE u # t
      BY <1>2, <3>2 DEF CancelPoint
    <3> QED
      BY <3>1, <3>2
  <2> QED
    BY <1>2, <2>1 DEF InSections
<1> QED
  BY <1>1, <1>3 DEF WorkInv

(* What is known of the call that stands at a point of a cancellation.         *)
LEMMA SectionFacts ==
    ASSUME WorkInv, NEW t \in Thread, pc[t] \in CancelPoint,
           NEW w, w = call[t].work
    PROVE  /\ w \in delayed /\ w \in Delayable /\ w \in Work
           /\ call \in [Thread -> WorkRecords] /\ ListOK
           /\ pc[t] \in {"unqueue", "detach", "attach"} => w \notin submitting
           /\ pc[t] \in {"untimer", "detach", "attach"} => w \notin Queued
           /\ pc[t] = "attach" => w \notin pending
           /\ CancelPoint \union {"run", "wake"} \subseteq WorkPoint
           /\ [call EXCEPT ![t] = NoCall] \in [Thread -> WorkRecords]
<1>1. /\ w \in delayed /\ call \in [Thread -> WorkRecords] /\ ListOK
      /\ pc[t] \in {"unqueue", "detach", "attach"} => w \notin submitting
      /\ pc[t] \in {"untimer", "detach", "attach"} => w \notin Queued
      /\ pc[t] = "attach" => w \notin pending
  BY DEF WorkInv, InSections
<1>2. w \in Delayable /\ w \in Work
  BY <1>1, WorkAssumption DEF WorkInv, DelaysAgree
<1>3. CancelPoint \union {"run", "wake"} \subseteq WorkPoint
  BY DEF CancelPoint, WorkPoint, CallPoint
<1>4. [call EXCEPT ![t] = NoCall] \in [Thread -> WorkRecords]
  BY <1>1 DEF NoCall, WorkRecords
<1> QED
  BY <1>1, <1>2, <1>3, <1>4

LEMMA CancelTestHolds ==
    ASSUME WorkInv, NEW t \in Thread, CancelTest(t) PROVE WorkInv'
<1>1. PICK w : w = call[t].work
  OBVIOUS
<1>2. /\ pc[t] = "cancel" /\ pc[t] \in CancelPoint
      /\ UNCHANGED <<work_list, pending, submitting, delayed, attached, due, call>>
  BY DEF CancelTest, At, workqueue, flags, CancelPoint
<1>3. PICK c \in {"unqueue", "untimer", "detach"} :
          /\ pc' = [pc EXCEPT ![t] = c]
          /\ c = "unqueue" => w \in pending
          /\ c = "untimer" => w \in submitting
          /\ c = "detach" => w \notin pending /\ w \notin submitting
  <2>1. CASE w \in pending
    BY <1>1, <2>1 DEF CancelTest, Goto
  <2>2. CASE w \in submitting \ pending
    BY <1>1, <2>2 DEF CancelTest, Goto
  <2>3. CASE w \notin pending /\ w \notin submitting
    BY <1>1, <2>3 DEF CancelTest, Goto
  <2> QED
    BY <2>1, <2>2, <2>3
<1>4. w \in delayed /\ w \in Delayable /\ CancelPoint \subseteq WorkPoint /\ c \in CancelPoint
  BY <1>1, <1>2, SectionFacts DEF CancelPoint
<1>5. /\ c \in {"unqueue", "detach", "attach"} => w \notin submitting
      /\ c \in {"untimer", "detach", "attach"} => w \notin Queued
      /\ c # "attach"
  BY <1>3, <1>4 DEF WorkInv, DelaysAgree
<1>6. Queued' = Queued /\ ListOK' /\ AcceptedIsQueued' /\ DelaysAgree' /\ call' \in [Thread -> WorkRecords]
  BY <1>2 DEF WorkInv, Queued, ListOK, AcceptedIsQueued, DelaysAgree
<1> QED
  BY <1>1, <1>2, <1>3, <1>4, <1>5, <1>6, SectionHolds

LEMMA CancelUnqueueHolds ==
    ASSUME WorkInv, NEW t \in Thread, CancelUnqueue(t) PROVE WorkInv'
<1>1. PICK w : w = call[t].work
  OBVIOUS
<1>2. /\ pc[t] = "unqueue" /\ pc[t] \in CancelPoint
      /\ UNCHANGED <<submitting, delayed, attached>>
  BY DEF CancelUnqueue, At, CancelPoint
<1>3. /\ w \in delayed /\ w \in Delayable /\ w \notin submitting /\ ListOK
      /\ call \in [Thread -> WorkRecords] /\ {"run", "detach"} \subseteq WorkPoint
      /\ [call EXCEPT ![t] = NoCall] \in [Thread -> WorkRecords]
  BY <1>1, <1>2, SectionFacts DEF CancelPoint
<1>4. CASE work_current = w
  <2>1. /\ pc' = [pc EXCEPT ![t] = "run"] /\ call' = [call EXCEPT ![t] = NoCall]
        /\ UNCHANGED <<work_list, pending, due>>
    BY <1>1, <1>4 DEF CancelUnqueue, Finish, Goto
  <2>2. ListOK' /\ AcceptedIsQueued' /\ DelaysAgree'
    BY <1>2, <2>1 DEF WorkInv, Queued, ListOK, AcceptedIsQueued, DelaysAgree
  <2> QED
    BY <1>2, <1>3, <2>1, <2>2, SectionHolds DEF CancelPoint
<1>5. CASE work_current # w
  <2>1. Drop(w) /\ pc' = [pc EXCEPT ![t] = "detach"] /\ UNCHANGED call
    BY <1>1, <1>5 DEF CancelUnqueue, Goto
  <2>2. ListOK' /\ Queued' = Queued \ {w} /\ due' = due \ {w} /\ pending' = pending \ {w}
    BY <1>3, <2>1, DropEffect
  <2>3. AcceptedIsQueued' /\ DelaysAgree'
    BY <1>2, <1>3, <2>2 DEF WorkInv, AcceptedIsQueued, DelaysAgree, Queued
  <2> QED
    BY <1>1, <1>2, <1>3, <2>1, <2>2, <2>3, SectionHolds
<1> QED
  BY <1>4, <1>5

LEMMA CancelTimerHolds ==
    ASSUME WorkInv, NEW t \in Thread, CancelTimer(t) PROVE WorkInv'
<1>1. PICK w : w = call[t].work
  OBVIOUS
<1>2. /\ pc[t] = "untimer" /\ pc[t] \in CancelPoint /\ pc' = [pc EXCEPT ![t] = "detach"]
      /\ submitting' = submitting \ {w} /\ due' = due \ {w}
      /\ UNCHANGED <<work_list, pending, delayed, attached, call>>
  BY <1>1 DEF CancelTimer, At, Goto, CancelPoint
<1>3. /\ w \in delayed /\ w \notin Queued /\ call \in [Thread -> WorkRecords]
      /\ "detach" \in WorkPoint /\ ListOK
  BY <1>1, <1>2, SectionFacts DEF CancelPoint
<1>4. ListOK' /\ Queued' = Queued /\ AcceptedIsQueued' /\ DelaysAgree'
  BY <1>2, <1>3 DEF WorkInv, Queued, ListOK, AcceptedIsQueued, DelaysAgree
<1> QED
  BY <1>1, <1>2, <1>3, <1>4, SectionHolds

LEMMA CancelDetachHolds ==
    ASSUME WorkInv, NEW t \in Thread, CancelDetach(t) PROVE WorkInv'
<1>1. PICK w : w = call[t].work
  OBVIOUS
<1>2. /\ pc[t] = "detach" /\ pc[t] \in CancelPoint
      /\ attached' = attached \ {w} /\ pending' = pending \ {w}
      /\ UNCHANGED <<work_list, submitting, delayed, due>>
  BY <1>1 DEF CancelDetach, At, CancelPoint
<1>3. /\ w \in delayed /\ w \notin Queued /\ w \notin submitting /\ ListOK
      /\ call \in [Thread -> WorkRecords] /\ {"run", "attach"} \subseteq WorkPoint
      /\ [call EXCEPT ![t] = NoCall] \in [Thread -> WorkRecords]
  BY <1>1, <1>2, SectionFacts DEF CancelPoint
<1>4. ListOK' /\ Queued' = Queued /\ AcceptedIsQueued' /\ DelaysAgree'
  BY <1>2, <1>3 DEF WorkInv, Queued, ListOK, AcceptedIsQueued, DelaysAgree
<1>5. CASE pc' = [pc EXCEPT ![t] = "run"] /\ call' = [call EXCEPT ![t] = NoCall]
  BY <1>2, <1>3, <1>4, <1>5, SectionHolds DEF CancelPoint
<1>6. CASE pc' = [pc EXCEPT ![t] = "attach"] /\ UNCHANGED call
  BY <1>1, <1>2, <1>3, <1>4, <1>6, SectionHolds
<1> QED
  BY <1>5, <1>6 DEF CancelDetach, Finish, Goto

LEMMA AttachHolds ==
    ASSUME WorkInv, NEW t \in Thread, Attach(t) PROVE WorkInv'
<1>1. PICK w : w = call[t].work
  OBVIOUS
<1>2. /\ pc[t] = "attach" /\ pc[t] \in CancelPoint /\ attached' = attached \union {w}
      /\ call' = [call EXCEPT ![t] = NoCall] /\ UNCHANGED delayed
  BY <1>1 DEF Attach, At, CancelPoint
<1>3. /\ w \in delayed /\ w \in Work /\ w \notin Queued /\ w \notin submitting
      /\ w \notin pending /\ ListOK /\ {"run", "wake"} \subseteq WorkPoint
      /\ [call EXCEPT ![t] = NoCall] \in [Thread -> WorkRecords]
  BY <1>1, <1>2, SectionFacts DEF CancelPoint
<1>4. PICK c \in {"run", "wake"} : pc' = [pc EXCEPT ![t] = c]
  BY DEF Attach, Submit, Goto
<1>5. ASSUME ListOK', AcceptedIsQueued', DelaysAgree' PROVE WorkInv'
  BY <1>2, <1>3, <1>4, <1>5, SectionHolds DEF CancelPoint
<1>6. CASE submitting' = submitting \union {w} /\ due' = due \union {w}
           /\ UNCHANGED <<work_list, pending>>
  BY <1>2, <1>3, <1>5, <1>6 DEF WorkInv, Queued, ListOK, AcceptedIsQueued, DelaysAgree
<1>7. CASE Enqueue(w) /\ pending' = pending \union {w} /\ UNCHANGED submitting
  <2>1. ListOK' /\ Queued' = Queued \union {w} /\ due' = due \union {w}
    BY <1>3, <1>7, EnqueueEffect
  <2>2. AcceptedIsQueued' /\ DelaysAgree'
    BY <1>2, <1>3, <1>7, <2>1 DEF WorkInv, AcceptedIsQueued, DelaysAgree, Queued
  <2> QED
    BY <1>5, <2>1, <2>2
<1>8. CASE UNCHANGED <<work_list, pending, due, submitting>>
  BY <1>2, <1>5, <1>8 DEF WorkInv, Queued, ListOK, AcceptedIsQueued, DelaysAgree
<1> QED
  BY <1>1, <1>6, <1>7, <1>8 DEF Attach, Submit

(* The delay of a work ends.                                                  *)
LEMMA DelayHolds ==
    ASSUME WorkInv, ~Races, NEW w \in Work, DelayExpires(w) PROVE WorkInv'
<1>1. /\ Settled /\ work_current # w /\ w \in submitting /\ UNCHANGED <<pc, attached, call>>
      /\ submitting' = submitting \ {w} /\ delayed' = delayed \ {w}
  BY DEF DelayExpires
<1>2. w \notin pending /\ w \notin Queued /\ ListOK
  BY <1>1 DEF WorkInv, DelaysAgree
<1>3. Enqueue(w) /\ pending' = pending \union {w}
  BY <1>1, <1>2 DEF DelayExpires, Accepts
<1>4. ListOK' /\ Queued' = Queued \union {w} /\ due' = due \union {w}
  BY <1>2, <1>3, EnqueueEffect
<1>5. AcceptedIsQueued' /\ DelaysAgree'
  BY <1>1, <1>2, <1>3, <1>4 DEF WorkInv, AcceptedIsQueued, DelaysAgree, Queued
<1> QED
  BY <1>1, <1>4, <1>5, SettledHolds DEF WorkInv

(* The inductive invariant of the work queue, for any work, delayed or not, and *)
(* any number of callers, however urgent the worker is.                       *)
THEOREM WorkInvariance == ASSUME ~Races PROVE WorkSpec => []WorkInv
<1>1. CallsInit /\ WorkInit => WorkInv
  <2> SUFFICES ASSUME CallsInit, WorkInit PROVE WorkInv
    OBVIOUS
  <2>1. /\ pc = [t \in Thread |-> "run"] /\ work_list = <<>> /\ pending = {}
        /\ submitting = {} /\ delayed = {} /\ attached = {} /\ due = {}
        /\ call = [t \in Thread |-> NoCall]
    BY DEF CallsInit, WorkInit
  <2>2. ListOK /\ Queued = {}
    BY <2>1, EmptyWork DEF ListOK, Queued
  <2>3. pc \in [Thread -> WorkPoint] /\ \A t \in Thread : pc[t] \notin CancelPoint /\ pc[t] = "run"
    BY <2>1 DEF WorkPoint, CallPoint, CancelPoint
  <2>4. call \in [Thread -> WorkRecords]
    BY <2>1 DEF NoCall, WorkRecords
  <2>5. AcceptedIsQueued /\ DelaysAgree /\ InSections
    BY <2>1, <2>2, <2>3 DEF AcceptedIsQueued, DelaysAgree, InSections, Queued
  <2> QED
    BY <2>2, <2>3, <2>4, <2>5 DEF WorkInv
<1>2. WorkInv /\ [WorkNext]_<<calls, workqueue>> => WorkInv'
  BY WorkQuiet, CallHolds, BeginHolds, CancelTestHolds, CancelUnqueueHolds,
     CancelTimerHolds, CancelDetachHolds, AttachHolds, DelayHolds DEF WorkNext
<1> QED
  BY <1>1, <1>2, PTL DEF WorkSpec

(* Work that was accepted is in the list or its timer runs until it is begun or *)
(* cancelled, and no other work is: nothing accepted is lost, nothing cancelled *)
(* is begun and nothing is begun twice, as long as calls and the tick keep out  *)
(* of each other's sections.                                                 *)
THEOREM AcceptedAlwaysQueued == ASSUME ~Races PROVE WorkSpec => []AcceptedIsQueued
<1>1. WorkInv => AcceptedIsQueued
  BY DEF WorkInv
<1> QED
  BY <1>1, WorkInvariance, PTL

-----------------------------------------------------------------------------
(* The worker, when it is more urgent than every other thread.               *)

WorkerUrgent == \A t \in Thread \ {Worker} : init_priority[Worker] < init_priority[t]

WorkerPoint == {"run", "suspend", "sched", "take", "work", "ack"}
Between == {"wake"} \union CancelPoint

Kern(s) ==
    /\ s \in KernelState /\ KernelConsistent(s)
    /\ s.nest = 0 /\ s.prio = init_priority

\* Threads are READY or suspended; those with a timer sleep outside all calls,
\* the worker in its work.
ThreadsOK ==
    \A t \in Thread :
        /\ k.stat[t] \in {"ready", "suspend"}
        /\ k.timer[t] => k.stat[t] = "suspend" /\ pc[t] = IF t = Worker THEN "work" ELSE "run"

\* A READY worker runs, or whoever made it READY is about to call rt_schedule.
WhoRuns ==
    /\ k.stat[k.cur] = "ready" \/ (k.cur = Worker /\ pc[Worker] = "sched")
    /\ k.stat[Worker] = "ready" => k.cur = Worker \/ pc[k.cur] = "schedule"

PointsOK ==
    /\ pc[Worker] \in WorkerPoint
    /\ \A t \in Thread \ {Worker} : pc[t] \in {"run", "schedule", "woken"} \union Between

\* The worker has work exactly while it works; it suspends itself beside an empty
\* list, and is READY for the rest of its loop only beside one with work.
WorkerLoop ==
    /\ ~headtaken
    /\ pc[Worker] = "work" <=> work_current # NoWork
    /\ pc[Worker] \in {"run", "suspend", "ack"} => k.stat[Worker] = "ready"
    /\ pc[Worker] = "suspend" => Queued = {}
    /\ pc[Worker] \in {"sched", "take"} /\ k.stat[Worker] = "ready" => Queued # {}
    /\ pc[Worker] \in {"sched", "take"} /\ k.stat[Worker] = "suspend" /\ Queued # {}
           => \E t \in Thread : pc[t] = "wake"

\* Whoever is about to resume the worker finds it suspended beside its work.
WakersOK ==
    /\ \A t, u \in Thread : pc[t] \in Between /\ pc[u] \in Between => t = u
    /\ \A t \in Thread : pc[t] = "wake" => /\ Queued # {} /\ k.stat[Worker] = "suspend"
                                           /\ pc[Worker] \in {"sched", "take"}

\* Those who wait for the end of work wait while the worker has yet to report it.
SyncersOK ==
    /\ WaitersAreQueued /\ life = "yes" /\ ~wild
    /\ list \in [Thread -> WaitList \union {"none"}]
    /\ \A t \in Thread : pc[t] = "woken" => list[t] = "work"
    /\ \A t \in Thread : pc[t] = "woken" /\ k.stat[t] = "suspend" => pc[Worker] \in {"work", "ack"}

WorkerInv ==
    /\ Kern(k) /\ ThreadsOK /\ WhoRuns /\ PointsOK
    /\ WorkerLoop /\ WakersOK /\ SyncersOK

(* rt_schedule switches to a READY worker.                                   *)
LEMMA UrgentRuns ==
    ASSUME WorkerUrgent, NEW s, Kern(s), NEW r, r = rt_schedule(s)
    PROVE  /\ Kern(r) /\ r.stat[r.cur] = "ready"
           /\ r.stat = s.stat /\ r.timer = s.timer /\ r.wait = s.wait /\ r.err = s.err
           /\ s.stat[Worker] = "ready" => r.cur = Worker
<1>1. s \in KernelState /\ KernelConsistent(s) /\ s.nest = 0 /\ s.prio = init_priority
  BY DEF Kern
<1>2. /\ r \in KernelState
      /\ KernelConsistent(r)
      /\ s.nest = 0 => r.stat[r.cur] = "ready"
      /\ r.stat = s.stat /\ r.prio = s.prio /\ r.nest = s.nest
      /\ r.err = s.err /\ r.timer = s.timer /\ r.wait = s.wait
  BY ONLY <1>1, r = rt_schedule(s), ScheduleEffect
<1>3. ASSUME s.stat[Worker] = "ready" PROVE r.cur = Worker
  <2>1. PICK p, h, q : p = init_priority[Worker] /\ h = HighestReady(s) /\ q = s.ready[h]
    OBVIOUS
  <2>2. Worker \in Thread /\ p \in Priority /\ Priority \subseteq Nat
    BY <2>1, WorkAssumption, KernelAssumption
  <2>3. p \in s.group
    <3>1. Listed(s, Worker) = {p}
      BY <1>1, <1>3, <2>1, <2>2 DEF KernelConsistent, LinkedByStat
    <3>2. Worker \in ToSet(s.ready[p]) /\ s.ready[p] \in Seq(Thread)
      BY <1>1, <2>2, <3>1 DEF Listed, KernelState
    <3>3. s.ready[p] # <<>>
      BY <3>2, EmptyList
    <3> QED
      BY <1>1, <2>2, <3>3 DEF KernelConsistent, GroupMatchesTable
  <2>4. s.group \in SUBSET Nat /\ s.group # {}
    BY <1>1, <2>2, <2>3 DEF KernelState
  <2>5. h \in s.group /\ h <= p
    BY <2>1, <2>3, <2>4, MinIsLeast DEF HighestReady
  <2>6. h \in Priority /\ q \in Seq(Thread) /\ q # <<>>
    BY <1>1, <2>1, <2>5 DEF KernelConsistent, GroupMatchesTable, KernelState
  <2>7. PICK c : c = Head(q)
    OBVIOUS
  <2>8. c \in ToSet(q) /\ c \in Thread
    BY <2>6, <2>7, HeadIsElement
  <2>9. init_priority[c] = h
    <3>1. h \in Listed(s, c)
      BY <2>1, <2>6, <2>8 DEF Listed
    <3> QED
      BY <1>1, <2>8, <3>1 DEF KernelConsistent, LinkedByStat
  <2>10. c = Worker
    BY <2>1, <2>2, <2>5, <2>6, <2>8, <2>9 DEF WorkerUrgent
  <2>11. r.cur = c
    BY <1>1, <2>1, <2>7 DEF rt_schedule, KernelState
  <2> QED
    BY <2>10, <2>11
<1> QED
  BY <1>1, <1>2, <1>3 DEF Kern

(* The fields of a kernel state.                                             *)
LEMMA KernFields ==
    ASSUME NEW s, Kern(s)
    PROVE  /\ s.stat \in [Thread -> Stat] /\ s.timer \in [Thread -> BOOLEAN]
           /\ s.cur \in Thread /\ Worker \in Thread /\ Worker # Idle /\ "work" \in WaitList
BY StateFields, WorkAssumption DEF Kern

\* r is s with thread t in state c, its timer set to b, and off the wait lists.
Sets(r, s, t, c, b) ==
    /\ Kern(r)
    /\ r.stat[t] = c /\ (r.timer[t] <=> b)
    /\ \A x \in Thread \ {t} : r.stat[x] = s.stat[x] /\ (r.timer[x] <=> s.timer[x])
    /\ \A m \in WaitList : ToSet(r.wait[m]) = ToSet(s.wait[m]) \ {t}

(* A READY thread that suspends itself, its timer running or not.             *)
LEMMA KernSuspend ==
    ASSUME NEW s, Kern(s), NEW t \in Thread, t # Idle, s.stat[t] = "ready",
           NEW r, r = rt_thread_suspend(s, t)
    PROVE  Sets(r, s, t, "suspend", FALSE) /\ r.cur = s.cur
<1>1. /\ s \in KernelState /\ KernelConsistent(s) /\ s.nest = 0 /\ s.prio = init_priority
  BY DEF Kern
<1>2. /\ r \in KernelState
      /\ KernelConsistent(r)
      /\ r.stat = [s.stat EXCEPT ![t] = "suspend"]
      /\ r.timer = [s.timer EXCEPT ![t] = FALSE]
      /\ r.prio = s.prio /\ r.cur = s.cur /\ r.nest = s.nest /\ r.err = s.err
      /\ SameWaits(r, s)
  BY ONLY <1>1, t \in Thread, t # Idle, s.stat[t] = "ready", r = rt_thread_suspend(s, t),
          SuspendEffect
<1>3. \A m \in WaitList : t \notin ToSet(s.wait[m])
  BY <1>1 DEF KernelConsistent, LinkedByStat
<1>4. s.stat \in [Thread -> Stat] /\ s.timer \in [Thread -> BOOLEAN]
  BY KernFields
<1> QED
  BY <1>1, <1>2, <1>3, <1>4 DEF Sets, Kern, SameWaits

LEMMA KernSleep ==
    ASSUME WorkerUrgent, NEW s, Kern(s), NEW t \in Thread, t # Idle, s.stat[t] = "ready",
           NEW r, r = rt_schedule(StartTimer(rt_thread_suspend(s, t), t))
    PROVE  /\ Sets(r, s, t, "suspend", TRUE) /\ r.stat[r.cur] = "ready"
           /\ r.stat[Worker] = "ready" => r.cur = Worker
<1>1. PICK a, b : a = rt_thread_suspend(s, t) /\ b = StartTimer(a, t)
  OBVIOUS
<1>2. Sets(a, s, t, "suspend", FALSE)
  BY <1>1, KernSuspend
<1>3. a \in KernelState /\ KernelConsistent(a) /\ a.nest = 0 /\ a.prio = init_priority
  BY <1>2 DEF Sets, Kern
<1>4. /\ b \in KernelState
      /\ KernelConsistent(b)
      /\ b.timer = [a.timer EXCEPT ![t] = TRUE]
      /\ b.stat = a.stat /\ b.prio = a.prio /\ b.cur = a.cur
      /\ b.nest = a.nest /\ b.err = a.err /\ b.wait = a.wait
  BY ONLY <1>1, <1>3, t \in Thread, TimerEffect
<1>5. Kern(b) /\ a.timer \in [Thread -> BOOLEAN]
  BY <1>2, <1>3, <1>4, KernFields DEF Kern
<1>6. Sets(b, s, t, "suspend", TRUE)
  BY <1>2, <1>4, <1>5 DEF Sets
<1>7. /\ Kern(r) /\ r.stat[r.cur] = "ready"
      /\ r.stat = b.stat /\ r.timer = b.timer /\ r.wait = b.wait /\ r.err = b.err
      /\ b.stat[Worker] = "ready" => r.cur = Worker
  BY <1>1, <1>5, UrgentRuns
<1> QED
  BY <1>6, <1>7 DEF Sets

(* A suspended thread that is resumed.                                        *)
LEMMA KernResume ==
    ASSUME NEW s, Kern(s), NEW t \in Thread, s.stat[t] = "suspend",
           NEW r, r = rt_thread_resume(s, t)
    PROVE  Sets(r, s, t, "ready", FALSE) /\ r.cur = s.cur
<1>1. /\ s \in KernelState /\ KernelConsistent(s) /\ s.nest = 0 /\ s.prio = init_priority
  BY DEF Kern
<1>2. /\ r \in KernelState
      /\ KernelConsistent(r)
      /\ r.stat = [s.stat EXCEPT ![t] = "ready"]
      /\ r.timer = [s.timer EXCEPT ![t] = FALSE]
      /\ r.prio = s.prio /\ r.cur = s.cur /\ r.nest = s.nest /\ r.err = s.err
      /\ WaitDrops(r, s, t)
  BY ONLY <1>1, t \in Thread, s.stat[t] = "suspend", r = rt_thread_resume(s, t), ResumeEffect
<1>3. s.stat \in [Thread -> Stat] /\ s.timer \in [Thread -> BOOLEAN]
  BY KernFields
<1> QED
  BY <1>1, <1>2, <1>3 DEF Sets, Kern, WaitDrops

(* The expiry of a sleep.                                                    *)
LEMMA KernTimeout ==
    ASSUME WorkerUrgent, NEW s, Kern(s), NEW t \in Thread, s.stat[t] = "suspend",
           NEW e, e = rt_thread_timeout(s, t), NEW r, r = WithError(e, t, s.err[t])
    PROVE  /\ Sets(r, s, t, "ready", FALSE) /\ r.stat[r.cur] = "ready"
           /\ r.stat[Worker] = "ready" => r.cur = Worker
<1>1. PICK w : w = rt_schedule_insert_thread(Woken(s, t, "ETIMEOUT"), t)
  OBVIOUS
<1>2. e = rt_schedule(w)
  BY <1>1 DEF rt_thread_timeout, Woken
<1>3. /\ s \in KernelState /\ KernelConsistent(s) /\ s.nest = 0 /\ s.prio = init_priority
      /\ "ETIMEOUT" \in Error
  BY DEF Kern, Error
<1>4. /\ w \in KernelState
      /\ KernelConsistent(w)
      /\ w.stat = [s.stat EXCEPT ![t] = "ready"]
      /\ w.timer = [s.timer EXCEPT ![t] = FALSE]
      /\ w.err = [s.err EXCEPT ![t] = "ETIMEOUT"]
      /\ w.prio = s.prio /\ w.cur = s.cur /\ w.nest = s.nest
      /\ WaitDrops(w, s, t)
  BY ONLY <1>1, <1>3, t \in Thread, s.stat[t] = "suspend", WakeEffect
<1>5. s.stat \in [Thread -> Stat] /\ s.timer \in [Thread -> BOOLEAN] /\ s.err \in [Thread -> Error]
  BY <1>3, KernFields, StateFields
<1>6. Kern(w) /\ Sets(w, s, t, "ready", FALSE)
  BY <1>3, <1>4, <1>5 DEF Sets, Kern, WaitDrops
<1>7. /\ Kern(e) /\ e.stat[e.cur] = "ready"
      /\ e.stat = w.stat /\ e.timer = w.timer /\ e.wait = w.wait /\ e.err = w.err
      /\ w.stat[Worker] = "ready" => e.cur = Worker
  BY <1>2, <1>6, UrgentRuns
<1>8. PICK x \in Error : x = s.err[t]
  BY <1>5
<1>9. r = WithError(e, t, x)
  BY <1>8
<1>10. e \in KernelState /\ KernelConsistent(e) /\ e.nest = 0 /\ e.prio = init_priority
  BY <1>7 DEF Kern
<1>11. /\ r \in KernelState
       /\ KernelConsistent(r)
       /\ r.err = [e.err EXCEPT ![t] = x]
       /\ r.stat = e.stat /\ r.prio = e.prio /\ r.cur = e.cur
       /\ r.nest = e.nest /\ r.timer = e.timer /\ r.wait = e.wait
  BY ONLY <1>9, <1>10, t \in Thread, x \in Error, ErrorEffect
<1>12. Kern(r)
  BY <1>10, <1>11 DEF Kern
<1> QED
  BY <1>6, <1>7, <1>11, <1>12 DEF Sets

(* A caller that joins the list of those who wait for the end of work.         *)
LEMMA KernQueue ==
    ASSUME WorkerUrgent, Kern(k), NEW t \in Thread, t # Idle, k.stat[t] = "ready",
           NEW r, r = rt_schedule(Queue(t, "work", "FIFO"))
    PROVE  /\ Kern(r) /\ r.stat[r.cur] = "ready"
           /\ r.stat[Worker] = "ready" => r.cur = Worker
           /\ r.stat[t] = "suspend" /\ ~r.timer[t]
           /\ \A x \in Thread \ {t} : r.stat[x] = k.stat[x] /\ (r.timer[x] <=> k.timer[x])
           /\ WaitAdds(r, k, "work", t)
<1>1. PICK a, b : a = WithError(k, t, "EOK") /\ b = rt_ipc_list_suspend(a, "work", t, "FIFO")
  OBVIOUS
<1>2. r = rt_schedule(b)
  BY <1>1 DEF Queue, WithError
<1>3. /\ k \in KernelState /\ KernelConsistent(k) /\ k.nest = 0 /\ k.prio = init_priority
      /\ "EOK" \in Error /\ "work" \in WaitList
  BY KernFields DEF Kern, Error
<1>4. /\ a \in KernelState
      /\ KernelConsistent(a)
      /\ a.err = [k.err EXCEPT ![t] = "EOK"]
      /\ a.stat = k.stat /\ a.prio = k.prio /\ a.cur = k.cur
      /\ a.nest = k.nest /\ a.timer = k.timer /\ a.wait = k.wait
  BY ONLY <1>1, <1>3, t \in Thread, ErrorEffect
<1>5. a.stat[t] = "ready"
  BY <1>4
<1>6. /\ b \in KernelState
      /\ KernelConsistent(b)
      /\ b.stat = [a.stat EXCEPT ![t] = "suspend"]
      /\ b.timer = [a.timer EXCEPT ![t] = FALSE]
      /\ b.prio = a.prio /\ b.cur = a.cur /\ b.nest = a.nest /\ b.err = a.err
      /\ WaitAdds(b, a, "work", t)
  BY ONLY <1>1, <1>3, <1>4, <1>5, t \in Thread, t # Idle, ListSuspendEffect
<1>7. Kern(b)
  BY <1>3, <1>4, <1>6 DEF Kern
<1>8. /\ Kern(r) /\ r.stat[r.cur] = "ready"
      /\ r.stat = b.stat /\ r.timer = b.timer /\ r.wait = b.wait /\ r.err = b.err
      /\ b.stat[Worker] = "ready" => r.cur = Worker
  BY <1>2, <1>7, UrgentRuns
<1>9. k.stat \in [Thread -> Stat] /\ k.timer \in [Thread -> BOOLEAN]
  BY KernFields
<1>10. /\ r.stat[t] = "suspend" /\ ~r.timer[t]
       /\ \A x \in Thread \ {t} : r.stat[x] = k.stat[x] /\ (r.timer[x] <=> k.timer[x])
  BY <1>4, <1>6, <1>8, <1>9
<1>11. WaitAdds(r, k, "work", t)
  BY <1>4, <1>6, <1>8 DEF WaitAdds
<1> QED
  BY <1>8, <1>10, <1>11

\* Thread x has been resumed.
Awake(r, x) ==
    /\ r.stat[x] = "ready" /\ ~r.timer[x]
    /\ \A m \in WaitList : x \notin ToSet(r.wait[m])

(* The report of the end of work resumes everybody who waits for it.          *)
LEMMA ResumeWaitersEffect ==
    ASSUME Kern(k), \A x \in ToSet(k.wait["work"]) : k.stat[x] = "suspend",
           NEW r, r = ResumeWaiters
    PROVE  /\ Kern(r) /\ r.cur = k.cur
           /\ \A x \in ToSet(k.wait["work"]) : Awake(r, x)
           /\ \A x \in Thread \ ToSet(k.wait["work"]) : SameView(r, k, x)
<1>0. k \in KernelState /\ KernelConsistent(k) /\ "work" \in WaitList
  BY KernFields DEF Kern
<1>1. PICK w \in Seq(Thread) : w = k.wait["work"]
  BY <1>0 DEF KernelState
<1>2. PICK N \in Nat : N = Len(w)
  OBVIOUS
<1>3. IsInjective(w) /\ \A n \in 1 .. N : w[n] \in Thread
  BY <1>0, <1>1, <1>2 DEF KernelConsistent, ListsAreSets
<1>4. ASSUME NEW s, Kern(s), NEW t \in Thread, NEW q, q = rt_thread_resume(s, t)
      PROVE  /\ Kern(q) /\ q.cur = s.cur
             /\ \A x \in Thread \ {t} : SameView(q, s, x)
             /\ s.stat[t] = "suspend" => Awake(q, t)
  <2>1. CASE s.stat[t] # "suspend"
    BY <1>4, <2>1 DEF rt_thread_resume, SameView
  <2>2. CASE s.stat[t] = "suspend"
    <3>1. /\ s \in KernelState /\ KernelConsistent(s) /\ s.nest = 0 /\ s.prio = init_priority
          /\ q = rt_thread_resume(s, t) /\ t \in Thread /\ s.stat[t] = "suspend"
      BY <1>4, <2>2 DEF Kern
    <3>2. /\ q \in KernelState
          /\ KernelConsistent(q)
          /\ q.stat = [s.stat EXCEPT ![t] = "ready"]
          /\ q.timer = [s.timer EXCEPT ![t] = FALSE]
          /\ q.prio = s.prio /\ q.cur = s.cur /\ q.nest = s.nest /\ q.err = s.err
          /\ WaitDrops(q, s, t)
      BY ONLY <3>1, ResumeEffect
    <3>3. s.stat \in [Thread -> Stat] /\ s.timer \in [Thread -> BOOLEAN]
      BY <1>4, KernFields
    <3>4. Kern(q)
      BY <3>1, <3>2 DEF Kern
    <3>5. Awake(q, t)
      BY <3>2, <3>3 DEF Awake, WaitDrops
    <3>6. \A x \in Thread \ {t} : SameView(q, s, x)
      BY <3>2, <3>3 DEF SameView, WaitDrops
    <3> QED
      BY <3>2, <3>4, <3>5, <3>6
  <2> QED
    BY <2>1, <2>2
<1> DEFINE Walk(f) == f = [n \in 0 .. N |-> IF n = 0 THEN k
                                            ELSE rt_thread_resume(f[n - 1], w[n])]
<1>5. \E f : Walk(f)
  <2> DEFINE S == {s \in KernelState : Kern(s)}
             Step == [n \in 1 .. N |-> [s \in S |-> rt_thread_resume(s, w[n])]]
  <2>1. k \in S
    BY <1>0
  <2>2. Step \in [1 .. N -> [S -> S]]
    <3> SUFFICES ASSUME NEW n \in 1 .. N, NEW s \in S PROVE rt_thread_resume(s, w[n]) \in S
      OBVIOUS
    <3>1. Kern(rt_thread_resume(s, w[n]))
      BY <1>3, <1>4
    <3> QED
      BY <3>1 DEF Kern
  <2> HIDE DEF Step, S
  <2>3. PICK f : Rounds(f, k, N, S, Step)
    BY ONLY N \in Nat, <2>1, <2>2, RoundsExist
  <2>4. ASSUME NEW n \in 0 .. N
        PROVE  f[n] = IF n = 0 THEN k ELSE rt_thread_resume(f[n - 1], w[n])
    <3>1. CASE n = 0
      BY <2>3, <3>1 DEF Rounds
    <3>2. CASE n # 0
      <4>1. n \in 1 .. N /\ n - 1 \in 0 .. N
        BY <3>2
      <4>2. f[n - 1] \in S
        BY <2>3, <4>1 DEF Rounds
      <4> QED
        BY <2>3, <3>2, <4>1, <4>2 DEF Rounds, Step
    <3> QED
      BY <3>1, <3>2
  <2>5. f = [n \in 0 .. N |-> f[n]]
    BY <2>3 DEF Rounds
  <2> QED
    BY <2>4, <2>5
<1>6. PICK f : Walk(f) /\ r = f[N]
  <2>1. r = (CHOOSE f : Walk(f))[N]
    BY <1>1, <1>2 DEF ResumeWaiters
  <2>2. Walk(CHOOSE f : Walk(f))
    BY <1>5
  <2> QED
    BY <2>1, <2>2
<1>7. f[0] = k /\ \A n \in 1 .. N : f[n] = rt_thread_resume(f[n - 1], w[n])
  BY <1>6
<1> HIDE DEF Walk
<1> DEFINE Done(n) == {w[i] : i \in 1 .. n}
           Good(n) ==
               /\ Kern(f[n]) /\ f[n].cur = k.cur
               /\ \A x \in Done(n) : Awake(f[n], x)
               /\ \A x \in Thread \ Done(n) : SameView(f[n], k, x)
<1>8. Good(0)
  <2>1. Done(0) = {}
    OBVIOUS
  <2> QED
    BY <1>7, <2>1 DEF SameView
<1>9. ASSUME NEW n \in 1 .. N, Good(n - 1) PROVE Good(n)
  <2>1. PICK s, q : s = f[n - 1] /\ q = f[n]
    OBVIOUS
  <2>2. PICK t \in Thread : t = w[n]
    BY <1>3
  <2>3. /\ Kern(s) /\ s.cur = k.cur
        /\ \A x \in Done(n - 1) : Awake(s, x)
        /\ \A x \in Thread \ Done(n - 1) : SameView(s, k, x)
    BY <1>9, <2>1
  <2>4. Done(n) = Done(n - 1) \union {t}
    <3>1. /\ \A i \in 1 .. n : i \in 1 .. n - 1 \/ i = n
          /\ \A i \in 1 .. n - 1 : i \in 1 .. n
          /\ n \in 1 .. n
      OBVIOUS
    <3>2. ASSUME NEW x \in Done(n) PROVE x \in Done(n - 1) \union {t}
      <4>1. PICK i \in 1 .. n : x = w[i]
        OBVIOUS
      <4>2. CASE i = n
        BY <2>2, <4>1, <4>2
      <4>3. CASE i \in 1 .. n - 1
        BY <4>1, <4>3
      <4> QED
        BY <3>1, <4>2, <4>3
    <3>3. ASSUME NEW x \in Done(n - 1) PROVE x \in Done(n)
      <4>1. PICK i \in 1 .. n - 1 : x = w[i]
        OBVIOUS
      <4> QED
        BY <3>1, <4>1
    <3>4. t \in Done(n)
      BY <2>2, <3>1
    <3> QED
      BY <3>2, <3>3, <3>4
  <2>5. t \notin Done(n - 1)
    <3> SUFFICES ASSUME NEW i \in 1 .. n - 1, w[i] = w[n] PROVE FALSE
      BY <2>2
    <3> QED
      BY <1>2, <1>3 DEF IsInjective
  <2>6. s.stat[t] = "suspend"
    <3>1. t \in ToSet(k.wait["work"])
      BY <1>1, <1>2, <2>2, ToSetIsRange
    <3> QED
      BY <2>3, <2>5, <3>1 DEF SameView
  <2>7. /\ Kern(q) /\ q.cur = s.cur /\ Awake(q, t)
        /\ \A x \in Thread \ {t} : SameView(q, s, x)
    BY <1>4, <1>7, <2>1, <2>2, <2>3, <2>6
  <2>8. Done(n) \subseteq Thread
    BY <1>3
  <2> HIDE DEF Done
  <2>9. ASSUME NEW x \in Done(n) PROVE Awake(q, x)
    <3>1. CASE x = t
      BY <2>7, <3>1
    <3>2. CASE x # t
      <4>1. x \in Done(n - 1) /\ x \in Thread \ {t}
        BY <2>4, <2>8, <3>2
      <4> QED
        BY <2>3, <2>7, <4>1 DEF Awake, SameView
    <3> QED
      BY <3>1, <3>2
  <2>10. ASSUME NEW x \in Thread \ Done(n) PROVE SameView(q, k, x)
    <3>1. x \in Thread \ {t} /\ x \in Thread \ Done(n - 1)
      BY <2>4
    <3>2. SameView(q, s, x) /\ SameView(s, k, x)
      BY <2>3, <2>7, <3>1
    <3> QED
      BY <3>2 DEF SameView
  <2> QED
    BY <2>1, <2>3, <2>7, <2>9, <2>10
<1>10. Good(N)
  <2> DEFINE G == {n \in 0 .. N : Good(n)}
  <2>1. 0 \in G
    BY <1>8
  <2>2. ASSUME NEW n \in 1 .. N, n - 1 \in G PROVE n \in G
    <3> HIDE DEF Good
    <3> QED
      BY <1>9, <2>2
  <2>3. N \in G
    <3> HIDE DEF G
    <3> QED
      BY ONLY N \in Nat, <2>1, <2>2, CountUp
  <2> HIDE DEF Good
  <2> QED
    BY <2>3
<1>11. Done(N) = ToSet(k.wait["work"])
  BY <1>1, <1>2 DEF ToSet
<1> QED
  BY <1>6, <1>10, <1>11

(* Steps of the running worker that leave the kernel alone.                   *)
LEMMA WorkerMoves ==
    ASSUME WorkInv, WorkerInv, k.cur = Worker, k.stat[Worker] = "ready",
           NEW c, c \in WorkerPoint \ {"sched"}, pc' = [pc EXCEPT ![Worker] = c],
           UNCHANGED <<k, list, object>>, ~headtaken', c = "work" <=> work_current' # NoWork,
           c = "suspend" => Queued' = {}, c = "take" => Queued' # {},
           pc[Worker] \in {"work", "ack"} => c \in {"work", "ack"} \/ k.wait["work"] = <<>>
    PROVE  WorkerInv'
<1>1. /\ Kern(k) /\ Worker \in Thread /\ "work" \in WaitList /\ pc'[Worker] = c
      /\ \A t \in Thread \ {Worker} : pc'[t] = pc[t]
  BY KernFields DEF WorkerInv, WorkInv
<1>2. \A t \in Thread : pc[t] # "wake"
  BY DEF WorkerInv, WakersOK
<1>3. c # "wake" /\ c \notin Between /\ c # "woken" /\ c # "wait" /\ pc[Worker] \in WorkerPoint
  BY DEF WorkerPoint, Between, CancelPoint, WorkerInv, PointsOK
<1>4. \A t \in Thread : InWait(t)' <=> InWait(t)
  BY <1>1, <1>3 DEF InWait, WorkerPoint
<1>5. ThreadsOK' /\ WhoRuns' /\ PointsOK'
  BY <1>1, <1>3 DEF WorkerInv, ThreadsOK, WhoRuns, PointsOK
<1>6. WorkerLoop'
  BY <1>1, <1>3 DEF WorkerInv, WorkerLoop
<1>7. WakersOK'
  BY <1>1, <1>2, <1>3 DEF WorkerInv, WakersOK
<1>8. SyncersOK'
  <2>1. WaitersAreQueued'
    BY <1>4 DEF WorkerInv, SyncersOK, WaitersAreQueued
  <2>2. ASSUME NEW t \in Thread, pc'[t] = "woken", k.stat[t] = "suspend"
        PROVE  c \in {"work", "ack"}
    <3>1. t # Worker /\ pc[t] = "woken" /\ list[t] = "work" /\ pc[Worker] \in {"work", "ack"}
      BY <1>1, <1>3, <2>2 DEF WorkerInv, SyncersOK
    <3>2. t \in ToSet(k.wait["work"])
      BY <1>1, <2>2, <3>1 DEF WorkerInv, SyncersOK, WaitersAreQueued, InWait
    <3>3. k.wait["work"] # <<>>
      BY <1>1, <3>2, EmptyList, StateFields DEF Kern
    <3> QED
      BY <3>1, <3>3
  <2> QED
    BY <1>1, <1>3, <2>1, <2>2 DEF WorkerInv, SyncersOK, object
<1> QED
  BY <1>1, <1>5, <1>6, <1>7, <1>8 DEF WorkerInv

(* The running thread, unless it is the worker in rt_schedule, is READY; while   *)
(* another thread makes its way through a call the worker is suspended.         *)
LEMMA WorkerRests ==
    ASSUME WorkerInv, NEW t \in Thread, k.cur = t, t # Worker
    PROVE  /\ k.stat[t] = "ready"
           /\ pc[t] # "schedule" => k.stat[Worker] = "suspend"
BY KernFields DEF WorkerInv, WhoRuns, ThreadsOK

(* Sections of callers that leave the kernel alone.                           *)
LEMMA CallerMoves ==
    ASSUME WorkInv, WorkerInv, NEW t \in Thread, k.cur = t, t # Worker,
           pc[t] \in CancelPoint \/ (pc[t] = "run" /\ Settled),
           NEW c, c \in {"run"} \union Between, pc' = [pc EXCEPT ![t] = c],
           UNCHANGED <<k, list, object, work_current, headtaken>>,
           c = "wake" => Queued' # {} /\ work_current = NoWork,
           Queued' \subseteq Queued \/ c = "wake" \/ work_current # NoWork
    PROVE  WorkerInv'
<1>1. /\ Kern(k) /\ Worker \in Thread /\ pc'[t] = c /\ pc'[Worker] = pc[Worker]
      /\ \A u \in Thread \ {t} : pc'[u] = pc[u]
  BY KernFields DEF WorkerInv, WorkInv
<1>2. k.stat[Worker] = "suspend" /\ k.stat[t] = "ready"
  BY WorkerRests DEF CancelPoint
<1>3. \A u \in Thread : pc[u] # "wake"
  <2>1. CASE pc[t] \in CancelPoint
    BY <2>1 DEF WorkerInv, WakersOK, Between, CancelPoint
  <2>2. CASE Settled
    BY <2>2 DEF Settled
  <2> QED
    BY <2>1, <2>2
<1>4. \A u \in Thread \ {t} : pc[u] \notin Between
  <2>1. CASE pc[t] \in CancelPoint
    BY <2>1 DEF WorkerInv, WakersOK, Between
  <2>2. CASE Settled
    BY <2>2 DEF Settled, Between
  <2> QED
    BY <2>1, <2>2
<1>5. pc[t] # "woken" /\ pc[t] # "wait" /\ c # "woken" /\ c # "wait"
  BY DEF CancelPoint, Between
<1>6. ThreadsOK' /\ WhoRuns' /\ PointsOK'
  <2>1. ~k.timer[t]
    BY <1>2 DEF WorkerInv, ThreadsOK
  <2>2. ThreadsOK'
    BY <1>1, <2>1 DEF WorkerInv, ThreadsOK
  <2>3. WhoRuns'
    BY <1>1, <1>2 DEF WhoRuns
  <2>4. PointsOK'
    BY <1>1 DEF WorkerInv, PointsOK
  <2> QED
    BY <2>2, <2>3, <2>4
<1>7. WorkerLoop'
  <2>1. pc[Worker] \notin {"run", "suspend", "ack"}
    BY <1>2 DEF WorkerInv, WorkerLoop
  <2>2. ASSUME pc[Worker] \in {"sched", "take"}, Queued' # {} PROVE c = "wake"
    <3>1. Queued = {} /\ work_current = NoWork
      BY <1>2, <1>3, <2>2 DEF WorkerInv, WorkerLoop
    <3> QED
      BY <2>2, <3>1
  <2>3. ASSUME pc[Worker] \in {"sched", "take"}, Queued' # {}
        PROVE  \E u \in Thread : pc'[u] = "wake"
    BY <1>1, <2>2, <2>3
  <2> QED
    BY <1>1, <1>2, <2>1, <2>3 DEF WorkerInv, WorkerLoop
<1>8. WakersOK'
  <2>1. \A u \in Thread : pc'[u] \in Between => u = t
    BY <1>1, <1>4
  <2>2. c = "wake" => pc[Worker] \in {"sched", "take"}
    BY <1>2 DEF WorkerInv, WorkerLoop, PointsOK, WorkerPoint
  <2> QED
    BY <1>1, <1>2, <2>1, <2>2 DEF WakersOK, Between
<1>9. SyncersOK'
  <2>1. \A u \in Thread : InWait(u)' <=> InWait(u)
    BY <1>1, <1>5 DEF InWait
  <2>2. WaitersAreQueued'
    BY <2>1 DEF WorkerInv, SyncersOK, WaitersAreQueued
  <2> QED
    BY <1>1, <1>5, <2>2 DEF WorkerInv, SyncersOK, object
<1> QED
  BY <1>1, <1>6, <1>7, <1>8, <1>9 DEF WorkerInv

(* Steps that change nobody's state and end in rt_schedule.                    *)
LEMMA RescheduleHolds ==
    ASSUME WorkInv, WorkerInv, Kern(k'), k'.stat[k'.cur] = "ready",
           k'.stat[Worker] = "ready" => k'.cur = Worker,
           k'.stat = k.stat, k'.timer = k.timer, k'.wait = k.wait,
           UNCHANGED <<list, object, work_current, headtaken, work_list>>,
           \/ pc' = pc
           \/ pc[Worker] = "sched" /\ pc' = [pc EXCEPT ![Worker] = "take"]
           \/ \E t \in Thread : pc[t] = "schedule" /\ pc' = [pc EXCEPT ![t] = "run"]
    PROVE  WorkerInv'
<1>1. /\ Worker \in Thread /\ pc \in [Thread -> WorkPoint] /\ Queued' = Queued
      /\ pc[Worker] \in WorkerPoint /\ k'.cur \in Thread
  BY KernFields DEF WorkerInv, PointsOK, WorkInv, Queued
<1>2. PICK y \in Thread : /\ \A t \in Thread \ {y} : pc'[t] = pc[t]
                          /\ \/ pc'[y] = pc[y]
                             \/ y = Worker /\ pc[y] = "sched" /\ pc'[y] = "take"
                             \/ y # Worker /\ pc[y] = "schedule" /\ pc'[y] = "run"
  BY <1>1 DEF WorkerPoint
<1>3. /\ \A t \in Thread : pc'[t] \in Between => pc'[t] = pc[t]
      /\ \A t \in Thread : pc[t] = "wake" => pc'[t] = "wake"
      /\ \A t \in Thread : pc'[t] \in {"wait", "woken"} <=> pc[t] \in {"wait", "woken"}
      /\ \A t \in Thread : pc'[t] = "woken" <=> pc[t] = "woken"
  BY <1>2 DEF Between, CancelPoint
<1>4. /\ pc'[Worker] = pc[Worker] \/ (pc[Worker] = "sched" /\ pc'[Worker] = "take")
  BY <1>1, <1>2
<1>5. ThreadsOK'
  <2>1. ASSUME NEW t \in Thread, k.timer[t] PROVE pc'[t] = pc[t]
    BY <1>1, <1>2, <2>1 DEF WorkerInv, ThreadsOK
  <2> QED
    BY <2>1 DEF WorkerInv, ThreadsOK
<1>6. WhoRuns' /\ PointsOK'
  <2>1. ASSUME NEW t \in Thread \ {Worker}
        PROVE  pc'[t] \in {"run", "schedule", "woken"} \union Between
    BY <1>2 DEF WorkerInv, PointsOK
  <2> QED
    BY <1>1, <1>4, <2>1 DEF WhoRuns, PointsOK, WorkerPoint
<1>7. WorkerLoop'
  BY <1>1, <1>3, <1>4 DEF WorkerInv, WorkerLoop
<1>8. WakersOK'
  BY <1>1, <1>3, <1>4 DEF WorkerInv, WakersOK, Between
<1>9. SyncersOK'
  <2>1. WaitersAreQueued'
    BY <1>3 DEF WorkerInv, SyncersOK, WaitersAreQueued, InWait
  <2> QED
    BY <1>3, <1>4, <2>1 DEF WorkerInv, SyncersOK, object
<1> QED
  BY <1>5, <1>6, <1>7, <1>8, <1>9 DEF WorkerInv

(* The worker between two tests of its list.                                  *)
LEMMA WorkerTests ==
    ASSUME WorkInv, WorkInv', WorkerInv, WorkTest \/ WorkTake \/ WorkDone
    PROVE  WorkerInv'
<1>1. /\ k.cur = Worker /\ UNCHANGED <<k, list, object>>
      /\ pc[Worker] \in {"run", "take", "work"}
  BY DEF WorkTest, WorkTake, WorkDone, At, Goto
<1>2. k.stat[Worker] = "ready"
  BY <1>1 DEF WorkerInv, WhoRuns
<1>3. /\ work_list = <<>> <=> Queued = {}
      /\ pc[Worker] = "work" <=> work_current # NoWork
      /\ ~headtaken
  BY EmptyList DEF WorkInv, ListOK, Queued, WorkerInv, WorkerLoop
<1>4. CASE WorkTest
  <2>1. PICK c \in {"suspend", "take"} : /\ pc' = [pc EXCEPT ![Worker] = c]
                                         /\ c = "suspend" => Queued = {}
                                         /\ c = "take" => Queued # {}
    BY <1>3, <1>4 DEF WorkTest, Goto
  <2>2. /\ UNCHANGED <<work_current, headtaken>> /\ Queued' = Queued /\ pc[Worker] = "run"
    BY <1>4 DEF WorkTest, workqueue, Queued, At
  <2>3. c \in WorkerPoint \ {"sched"} /\ c # "work"
    BY DEF WorkerPoint
  <2> QED
    BY <1>1, <1>2, <1>3, <2>1, <2>2, <2>3, WorkerMoves
<1>5. CASE WorkTake
  <2>1. pc[Worker] = "take" /\ pc' = [pc EXCEPT ![Worker] = "work"]
    BY <1>5 DEF WorkTake, At, Goto
  <2>2. work_list # <<>>
    BY <1>2, <1>3, <2>1 DEF WorkerInv, WorkerLoop
  <2>3. work_current' = Head(work_list) /\ UNCHANGED headtaken
    BY <1>5, <2>2 DEF WorkTake
  <2>4. work_current' # NoWork
    BY <2>2, <2>3, WorkAssumption, HeadIsElement DEF WorkInv, ListOK
  <2>5. "work" \in WorkerPoint \ {"sched"}
    BY DEF WorkerPoint
  <2> QED
    BY <1>1, <1>2, <1>3, <2>1, <2>3, <2>4, <2>5, WorkerMoves
<1>6. CASE WorkDone
  <2>1. /\ pc' = [pc EXCEPT ![Worker] = "ack"] /\ work_current' = NoWork
        /\ UNCHANGED headtaken
    BY <1>6 DEF WorkDone, Goto
  <2>2. "ack" \in WorkerPoint \ {"sched"}
    BY DEF WorkerPoint
  <2> QED
    BY <1>1, <1>2, <1>3, <2>1, <2>2, WorkerMoves
<1> QED
  BY <1>4, <1>5, <1>6

(* The worker suspends itself, or sleeps in its work.                          *)
LEMMA WorkerSuspends ==
    ASSUME WorkInv, WorkInv', WorkerInv, WorkerUrgent, WorkSuspend \/ WorkSleep
    PROVE  WorkerInv'
<1>1. /\ Kern(k) /\ Worker \in Thread /\ Worker # Idle /\ k.cur = Worker
      /\ pc[Worker] \in {"suspend", "work"} /\ pc \in [Thread -> WorkPoint]
      /\ UNCHANGED <<list, object, work_current, headtaken>> /\ Queued' = Queued
      /\ list' \in [Thread -> WaitList \union {"none"}]
  BY KernFields DEF WorkSuspend, WorkSleep, At, Goto, workqueue, Queued, WorkerInv,
                    WorkInv, SyncersOK
<1>2. k.stat[Worker] = "ready"
  BY <1>1 DEF WorkerInv, WhoRuns
<1>3. \A t \in Thread : pc[t] # "wake"
  BY <1>2 DEF WorkerInv, WakersOK
<1>4. PICK b \in BOOLEAN, c \in {"sched", "work"} :
          /\ Sets(k', k, Worker, "suspend", b) /\ pc' = [pc EXCEPT ![Worker] = c]
          /\ \/ b = FALSE /\ c = "sched" /\ pc[Worker] = "suspend" /\ k'.cur = Worker
             \/ b = TRUE /\ c = "work" /\ pc[Worker] = "work" /\ k'.stat[k'.cur] = "ready"
  <2>1. CASE WorkSuspend
    <3>1. /\ k' = rt_thread_suspend(k, Worker) /\ pc' = [pc EXCEPT ![Worker] = "sched"]
          /\ pc[Worker] = "suspend"
      BY <2>1 DEF WorkSuspend, At, Goto
    <3>2. Sets(k', k, Worker, "suspend", FALSE) /\ k'.cur = k.cur
      BY <1>1, <1>2, <3>1, KernSuspend
    <3> QED
      BY <1>1, <3>1, <3>2
  <2>2. CASE WorkSleep
    <3>1. /\ k' = rt_schedule(StartTimer(rt_thread_suspend(k, Worker), Worker))
          /\ pc' = pc /\ pc[Worker] = "work"
      BY <2>2 DEF WorkSleep, At
    <3>4. /\ WorkerUrgent /\ Kern(k) /\ Worker \in Thread /\ Worker # Idle
          /\ k.stat[Worker] = "ready"
          /\ k' = rt_schedule(StartTimer(rt_thread_suspend(k, Worker), Worker))
      BY <1>1, <1>2, <3>1
    <3>5. PICK s, r, y : s = k /\ r = k' /\ y = Worker
      OBVIOUS
    <3>6. /\ WorkerUrgent /\ Kern(s) /\ y \in Thread /\ y # Idle /\ s.stat[y] = "ready"
          /\ r = rt_schedule(StartTimer(rt_thread_suspend(s, y), y))
      BY ONLY <3>4, <3>5
    <3>7. /\ Sets(r, s, y, "suspend", TRUE) /\ r.stat[r.cur] = "ready"
          /\ r.stat[Worker] = "ready" => r.cur = Worker
      BY ONLY <3>6, KernSleep
    <3>2. Sets(k', k, Worker, "suspend", TRUE) /\ k'.stat[k'.cur] = "ready"
      BY ONLY <3>5, <3>7
    <3>3. pc' = [pc EXCEPT ![Worker] = "work"]
      BY <1>1, <3>1
    <3> QED
      BY <3>1, <3>2, <3>3
  <2> QED
    BY <2>1, <2>2
<1>5. /\ Kern(k') /\ k'.stat[Worker] = "suspend" /\ (k'.timer[Worker] <=> b)
      /\ \A x \in Thread \ {Worker} : k'.stat[x] = k.stat[x] /\ (k'.timer[x] <=> k.timer[x])
      /\ \A m \in WaitList : ToSet(k'.wait[m]) = ToSet(k.wait[m]) \ {Worker}
  BY <1>4 DEF Sets
<1>6. pc'[Worker] = c /\ \A x \in Thread \ {Worker} : pc'[x] = pc[x]
  BY <1>1, <1>4
<1>7. WhoRuns'
  BY <1>4, <1>5, <1>6 DEF WhoRuns
<1>8. WorkerLoop'
  BY <1>1, <1>3, <1>4, <1>5, <1>6 DEF WorkerInv, WorkerLoop
<1>9. WakersOK'
  BY <1>3, <1>4, <1>6 DEF WorkerInv, WakersOK, Between, CancelPoint
<1>10. c \in WorkerPoint /\ c \notin {"wait", "woken"} /\ (b => c = "work")
  BY <1>4 DEF WorkerPoint
<1>11. ThreadsOK' /\ PointsOK'
  BY <1>1, <1>5, <1>6, <1>10 DEF WorkerInv, ThreadsOK, PointsOK
<1>12. SyncersOK'
  <2>1. pc[Worker] \notin {"wait", "woken"} /\ (pc[Worker] = "work" => c = "work")
        /\ pc[Worker] # "ack"
    BY <1>1, <1>4
  <2>2. \A x \in Thread : InWait(x)' <=> InWait(x)
    BY <1>6, <1>10, <2>1 DEF InWait
  <2>3. ~InWait(Worker)
    BY <2>1 DEF InWait
  <2>4. WaitersAreQueued'
    BY <1>1, <1>5, <2>2, <2>3 DEF WorkerInv, SyncersOK, WaitersAreQueued
  <2> QED
    BY <1>1, <1>5, <1>6, <1>10, <2>1, <2>4 DEF WorkerInv, SyncersOK, object
<1> QED
  BY <1>5, <1>7, <1>8, <1>9, <1>11, <1>12 DEF WorkerInv

(* A caller resumes the worker.                                               *)
LEMMA WorkerResumed ==
    ASSUME WorkInv, WorkInv', WorkerInv, NEW t \in Thread, ResumeWorker(t)
    PROVE  WorkerInv'
<1>1. /\ Kern(k) /\ Worker \in Thread /\ k.cur = t /\ pc[t] = "wake" /\ pc \in [Thread -> WorkPoint]
      /\ pc' = [pc EXCEPT ![t] = "schedule"] /\ k' = rt_thread_resume(k, Worker)
      /\ UNCHANGED <<list, object, work_current, headtaken>> /\ Queued' = Queued
      /\ list \in [Thread -> WaitList \union {"none"}]
  BY KernFields DEF ResumeWorker, At, Goto, workqueue, Queued, WorkerInv, WorkInv, SyncersOK
<1>2. /\ Queued # {} /\ k.stat[Worker] = "suspend" /\ pc[Worker] \in {"sched", "take"}
      /\ \A u \in Thread \ {t} : pc[u] \notin Between
  BY <1>1 DEF WorkerInv, WakersOK, Between
<1>3. t # Worker /\ k.stat[t] = "ready"
  BY <1>1, <1>2, WorkerRests
<1>4. Sets(k', k, Worker, "ready", FALSE) /\ k'.cur = k.cur
  BY <1>1, <1>2, KernResume
<1>5. /\ Kern(k') /\ k'.stat[Worker] = "ready" /\ ~k'.timer[Worker]
      /\ \A x \in Thread \ {Worker} : k'.stat[x] = k.stat[x] /\ (k'.timer[x] <=> k.timer[x])
      /\ \A m \in WaitList : ToSet(k'.wait[m]) = ToSet(k.wait[m]) \ {Worker}
  BY <1>4 DEF Sets
<1>6. pc'[t] = "schedule" /\ \A x \in Thread \ {t} : pc'[x] = pc[x]
  BY <1>1
<1>7. WhoRuns'
  BY <1>1, <1>3, <1>4, <1>5, <1>6 DEF WhoRuns
<1>8. WorkerLoop'
  BY <1>1, <1>2, <1>3, <1>5, <1>6 DEF WorkerInv, WorkerLoop
<1>9. WakersOK'
  BY <1>2, <1>6 DEF WakersOK, Between, CancelPoint
<1>10. ThreadsOK' /\ PointsOK'
  <2>1. ~k.timer[t]
    BY <1>3 DEF WorkerInv, ThreadsOK
  <2> QED
    BY <1>1, <1>3, <1>5, <1>6, <2>1 DEF WorkerInv, ThreadsOK, PointsOK
<1>11. SyncersOK'
  <2>1. \A x \in Thread : InWait(x)' <=> InWait(x)
    BY <1>1, <1>6 DEF InWait
  <2>2. ~InWait(Worker)
    BY <1>2 DEF InWait
  <2>3. WaitersAreQueued'
    BY <1>1, <1>5, <2>1, <2>2 DEF WorkerInv, SyncersOK, WaitersAreQueued
  <2> QED
    BY <1>1, <1>2, <1>3, <1>5, <1>6, <2>3 DEF WorkerInv, SyncersOK, object
<1> QED
  BY <1>5, <1>7, <1>8, <1>9, <1>10, <1>11 DEF WorkerInv

(* The worker reports the end of work to everybody who waits for it.            *)
LEMMA WorkerReports ==
    ASSUME WorkInv, WorkInv', WorkerInv, WorkerUrgent, WorkAck PROVE WorkerInv'
<1>1. PICK r, W : r = ResumeWaiters /\ W = ToSet(k.wait["work"])
  OBVIOUS
<1>2. /\ Kern(k) /\ Worker \in Thread /\ k.cur = Worker /\ pc[Worker] = "ack"
      /\ pc \in [Thread -> WorkPoint] /\ "work" \in WaitList
      /\ pc' = [pc EXCEPT ![Worker] = "run"] /\ k' = rt_schedule(r)
      /\ UNCHANGED <<list, object, work_current, headtaken>> /\ Queued' = Queued
      /\ list \in [Thread -> WaitList \union {"none"}]
  BY <1>1, KernFields DEF WorkAck, At, Goto, workqueue, Queued, WorkerInv, WorkInv, SyncersOK
<1>3. /\ \A x \in Thread : x \in W <=> pc[x] = "woken" /\ k.stat[x] = "suspend"
      /\ \A x \in Thread, m \in WaitList : x \in ToSet(k.wait[m]) => x \in W
      /\ W \subseteq Thread /\ k.stat[Worker] = "ready" /\ Worker \notin W
  <2>1. ASSUME NEW x \in Thread, NEW m \in WaitList
        PROVE  x \in ToSet(k.wait[m])
                   <=> pc[x] = "woken" /\ k.stat[x] = "suspend" /\ list[x] = m
    <3>1. pc[x] # "wait"
      BY <1>2 DEF WorkerInv, PointsOK, WorkerPoint, Between, CancelPoint
    <3> QED
      BY <3>1 DEF WorkerInv, SyncersOK, WaitersAreQueued, InWait
  <2>2. \A x \in Thread : pc[x] = "woken" => list[x] = "work"
    BY DEF WorkerInv, SyncersOK
  <2>3. W \subseteq Thread
    BY <1>1, <1>2, StateFields DEF Kern
  <2>4. k.stat[Worker] = "ready"
    BY <1>2 DEF WorkerInv, WorkerLoop
  <2> QED
    BY <1>1, <1>2, <2>1, <2>2, <2>3, <2>4
<1>4. /\ Kern(r) /\ r.cur = k.cur
      /\ \A x \in W : Awake(r, x)
      /\ \A x \in Thread \ W : SameView(r, k, x)
  BY <1>1, <1>2, <1>3, ResumeWaitersEffect
<1>5. /\ Kern(k') /\ k'.stat[k'.cur] = "ready"
      /\ k'.stat = r.stat /\ k'.timer = r.timer /\ k'.wait = r.wait
      /\ r.stat[Worker] = "ready" => k'.cur = Worker
  BY <1>2, <1>4, UrgentRuns
<1>6. /\ \A x \in W : k'.stat[x] = "ready" /\ ~k'.timer[x]
      /\ \A x \in Thread \ W : k'.stat[x] = k.stat[x] /\ k'.timer[x] = k.timer[x]
      /\ \A x \in Thread, m \in WaitList : x \notin ToSet(k'.wait[m])
      /\ k'.stat[Worker] = "ready" /\ k'.cur = Worker
  BY <1>2, <1>3, <1>4, <1>5 DEF Awake, SameView
<1>7. pc'[Worker] = "run" /\ \A x \in Thread \ {Worker} : pc'[x] = pc[x]
  BY <1>2
<1>8. \A x \in Thread : pc[x] # "wake"
  BY <1>2 DEF WorkerInv, WakersOK
<1>9. ThreadsOK' /\ WhoRuns' /\ PointsOK'
  <2>1. ThreadsOK'
    BY <1>2, <1>3, <1>6, <1>7 DEF WorkerInv, ThreadsOK
  <2>2. PointsOK'
    BY <1>7 DEF WorkerInv, PointsOK, WorkerPoint
  <2> QED
    BY <1>6, <2>1, <2>2 DEF WhoRuns
<1>10. WorkerLoop'
  BY <1>2, <1>6, <1>7 DEF WorkerInv, WorkerLoop
<1>11. WakersOK'
  BY <1>2, <1>7, <1>8 DEF WorkerInv, WakersOK, Between, CancelPoint
<1>12. SyncersOK'
  <2>1. \A x \in Thread : InWait(x)' <=> InWait(x)
    BY <1>2, <1>7 DEF InWait
  <2>2. ASSUME NEW x \in Thread PROVE ~(pc'[x] = "woken" /\ k'.stat[x] = "suspend")
    BY <1>3, <1>6, <1>7
  <2>3. \A x \in Thread : pc[x] # "wait"
    BY <1>2 DEF WorkerInv, PointsOK, WorkerPoint, Between, CancelPoint
  <2>4. WaitersAreQueued'
    BY <1>6, <1>7, <2>2, <2>3 DEF WaitersAreQueued, InWait
  <2> QED
    BY <1>2, <1>7, <2>2, <2>4 DEF WorkerInv, SyncersOK, object
<1> QED
  BY <1>5, <1>9, <1>10, <1>11, <1>12 DEF WorkerInv


(* A thread falls asleep outside the kernel, the worker in its work, or wakes.   *)
LEMMA NapHolds ==
    ASSUME WorkInv, WorkerInv, NEW y \in Thread, NEW z \in {"ready", "suspend"},
           NEW b \in BOOLEAN, Sets(k', k, y, z, b), b => z = "suspend",
           pc[y] = IF y = Worker THEN "work" ELSE "run", k'.stat[k'.cur] = "ready",
           k'.stat[Worker] = "ready" => k'.cur = Worker,
           UNCHANGED <<pc, list, object, work_current, headtaken, work_list>>
    PROVE  WorkerInv'
<1>1. /\ Kern(k') /\ k'.stat[y] = z /\ (k'.timer[y] <=> b)
      /\ \A x \in Thread \ {y} : k'.stat[x] = k.stat[x] /\ (k'.timer[x] <=> k.timer[x])
      /\ \A m \in WaitList : ToSet(k'.wait[m]) = ToSet(k.wait[m]) \ {y}
  BY DEF Sets
<1>2. Worker \in Thread /\ Queued' = Queued /\ UNCHANGED <<pc, list, work_current, headtaken>>
  BY WorkAssumption DEF Queued
<1>3. pc[y] \notin {"wait", "woken", "suspend", "ack", "sched", "take"}
      /\ (y = Worker => pc[Worker] = "work")
  BY <1>2
<1>4. ThreadsOK' /\ PointsOK'
  BY <1>1, <1>2 DEF WorkerInv, ThreadsOK, PointsOK
<1>5. WhoRuns'
  BY DEF WhoRuns
<1>6. WorkerLoop' /\ WakersOK'
  <2>1. pc[Worker] # "work" => k'.stat[Worker] = k.stat[Worker]
    BY <1>1, <1>2, <1>3
  <2> QED
    BY <1>2, <2>1 DEF WorkerInv, WorkerLoop, WakersOK
<1>7. SyncersOK'
  <2>1. ~InWait(y) /\ \A x \in Thread : InWait(x)' <=> InWait(x)
    BY <1>2, <1>3 DEF InWait
  <2>2. WaitersAreQueued'
    BY <1>1, <1>2, <2>1 DEF WorkerInv, SyncersOK, WaitersAreQueued
  <2> QED
    BY <1>1, <1>2, <1>3, <2>2 DEF WorkerInv, SyncersOK, object
<1> QED
  BY <1>1, <1>4, <1>5, <1>6, <1>7 DEF WorkerInv

(* Calls of rt_schedule, and the end of a time slice.                          *)
LEMMA SwitchHolds ==
    ASSUME WorkInv, WorkerInv, WorkerUrgent, UNCHANGED <<object, workqueue>>,
           \/ WorkSchedule
           \/ \E t \in Thread : LastSchedule(t)
           \/ SliceEnd /\ UNCHANGED <<pc, list>>
    PROVE  WorkerInv'
<1>1. PICK s : /\ Kern(s) /\ s.stat = k.stat /\ s.timer = k.timer /\ s.wait = k.wait
               /\ k' = rt_schedule(s)
  <2>1. CASE SliceEnd
    <3>1. PICK s : s = Requeue(k) /\ k' = rt_schedule(s) /\ Yields(k)
      BY <2>1 DEF SliceEnd
    <3>2. k \in KernelState /\ KernelConsistent(k) /\ k.nest = 0 /\ k.prio = init_priority
      BY DEF WorkerInv, Kern
    <3>3. /\ s \in KernelState
          /\ KernelConsistent(s)
          /\ s.stat = k.stat /\ s.prio = k.prio /\ s.cur = k.cur
          /\ s.nest = k.nest /\ s.err = k.err /\ s.timer = k.timer
          /\ s.wait = k.wait
      BY ONLY <3>1, <3>2, RequeueEffect
    <3> QED
      BY <3>1, <3>2, <3>3 DEF Kern
  <2>2. CASE k' = rt_schedule(k)
    BY <2>2 DEF WorkerInv
  <2> QED
    BY <2>1, <2>2 DEF WorkSchedule, LastSchedule
<1>2. /\ Kern(k') /\ k'.stat[k'.cur] = "ready"
      /\ k'.stat = s.stat /\ k'.timer = s.timer /\ k'.wait = s.wait
      /\ s.stat[Worker] = "ready" => k'.cur = Worker
  BY <1>1, UrgentRuns
<1>3. UNCHANGED <<list, object, work_current, headtaken, work_list>>
  BY DEF workqueue, WorkSchedule, LastSchedule, Goto
<1>4. \/ pc' = pc
      \/ pc[Worker] = "sched" /\ pc' = [pc EXCEPT ![Worker] = "take"]
      \/ \E t \in Thread : pc[t] = "schedule" /\ pc' = [pc EXCEPT ![t] = "run"]
  BY DEF WorkSchedule, LastSchedule, Goto, At
<1>5. k'.stat = k.stat /\ k'.timer = k.timer /\ k'.wait = k.wait
  BY <1>1, <1>2
<1> QED
  BY <1>1, <1>2, <1>3, <1>4, <1>5, RescheduleHolds

(* Sleeps, expiries and time slices.                                           *)
LEMMA RestHolds ==
    ASSUME WorkInv, WorkerInv, WorkerUrgent, Background, UNCHANGED workqueue,
           At(Worker, "run") => k'.stat[Worker] = "ready"
    PROVE  WorkerInv'
<1>1. /\ Kern(k) /\ Worker \in Thread
      /\ UNCHANGED <<pc, list, object, work_current, headtaken, work_list>>
  BY KernFields DEF Background, workqueue, WorkerInv
<1>2. ASSUME NEW t \in Thread, rt_thread_sleep(t) PROVE WorkerInv'
  <2>1. /\ At(t, "run") /\ t # Idle
        /\ k' = rt_schedule(StartTimer(rt_thread_suspend(k, t), t))
    BY <1>2, CallsAssumption DEF rt_thread_sleep
  <2>2. k.stat[t] = "ready"
    BY <2>1 DEF WorkerInv, WhoRuns, At
  <2>3. PICK s, r : s = k /\ r = k'
    OBVIOUS
  <2>4. /\ WorkerUrgent /\ Kern(s) /\ t \in Thread /\ t # Idle /\ s.stat[t] = "ready"
        /\ r = rt_schedule(StartTimer(rt_thread_suspend(s, t), t))
    BY ONLY WorkerUrgent, <1>1, <1>2, <2>1, <2>2, <2>3
  <2>5. /\ Sets(r, s, t, "suspend", TRUE) /\ r.stat[r.cur] = "ready"
        /\ r.stat[Worker] = "ready" => r.cur = Worker
    BY ONLY <2>4, KernSleep
  <2>6. t # Worker
    <3>1. k'.stat[t] = "suspend"
      BY <2>3, <2>5 DEF Sets
    <3> QED
      BY <2>1, <3>1
  <2> QED
    BY <1>1, <2>1, <2>3, <2>5, <2>6, NapHolds DEF At
<1>3. ASSUME NEW u \in Thread, Timeout(u) PROVE WorkerInv'
  <2>1. k.stat[u] = "suspend" /\ pc[u] = IF u = Worker THEN "work" ELSE "run"
    BY <1>3 DEF WorkerInv, ThreadsOK, Timeout
  <2>2. ~InWait(u)
    BY <2>1 DEF InWait
  <2>3. PICK s, e, r : s = k /\ r = k' /\ e = rt_thread_timeout(k, u)
    OBVIOUS
  <2>4. r = WithError(e, u, s.err[u])
    BY <1>3, <2>2, <2>3 DEF Timeout, WithError
  <2>5. /\ WorkerUrgent /\ Kern(s) /\ u \in Thread /\ s.stat[u] = "suspend"
        /\ e = rt_thread_timeout(s, u) /\ r = WithError(e, u, s.err[u])
    BY ONLY WorkerUrgent, <1>1, <1>3, <2>1, <2>3, <2>4
  <2>6. /\ Sets(r, s, u, "ready", FALSE) /\ r.stat[r.cur] = "ready"
        /\ r.stat[Worker] = "ready" => r.cur = Worker
    BY ONLY <2>5, KernTimeout
  <2> QED
    BY <1>1, <2>1, <2>3, <2>6, NapHolds
<1>4. CASE SliceEnd
  BY <1>1, <1>4, SwitchHolds
<1> QED
  BY <1>2, <1>3, <1>4 DEF Background

(* A caller that waited for the end of work returns.                           *)
LEMMA SyncReturnHolds ==
    ASSUME WorkInv, WorkerInv, NEW t \in Thread, SyncReturn(t) PROVE WorkerInv'
<1>1. /\ k.cur = t /\ pc[t] = "woken" /\ pc' = [pc EXCEPT ![t] = "run"]
      /\ list' = [list EXCEPT ![t] = "none"] /\ Queued' = Queued
      /\ UNCHANGED <<k, object, work_current, headtaken>>
      /\ pc \in [Thread -> WorkPoint] /\ list \in [Thread -> WaitList \union {"none"}]
  BY DEF SyncReturn, At, Leave, workqueue, Queued, WorkInv, WorkerInv, SyncersOK
<1>2. Worker \in Thread /\ t # Worker /\ k.stat[t] = "ready" /\ k.stat[Worker] = "suspend"
  BY <1>1, WorkAssumption, WorkerRests DEF WorkerInv, PointsOK, WorkerPoint
<1>3. /\ pc'[t] = "run" /\ \A x \in Thread \ {t} : pc'[x] = pc[x] /\ list'[x] = list[x]
      /\ list' \in [Thread -> WaitList \union {"none"}] /\ pc'[Worker] = pc[Worker]
  BY <1>1, <1>2
<1>4. ~k.timer[t] /\ \A m \in WaitList : t \notin ToSet(k.wait[m])
  BY <1>2 DEF WorkerInv, ThreadsOK, SyncersOK, WaitersAreQueued
<1>5. ThreadsOK' /\ WhoRuns' /\ PointsOK'
  BY <1>1, <1>2, <1>3, <1>4 DEF WorkerInv, ThreadsOK, WhoRuns, PointsOK
<1>6. WorkerLoop' /\ WakersOK'
  <2>1. WakersOK'
    BY <1>1, <1>3 DEF WorkerInv, WakersOK, Between, CancelPoint
  <2>2. WorkerLoop'
    BY <1>1, <1>3 DEF WorkerInv, WorkerLoop
  <2> QED
    BY <2>1, <2>2
<1>7. SyncersOK'
  <2>1. ~InWait(t)' /\ \A x \in Thread \ {t} : InWait(x)' <=> InWait(x)
    BY <1>3 DEF InWait
  <2>2. WaitersAreQueued'
    BY <1>1, <1>3, <1>4, <2>1 DEF WorkerInv, SyncersOK, WaitersAreQueued
  <2> QED
    BY <1>1, <1>3, <2>2 DEF WorkerInv, SyncersOK, object
<1> QED
  BY <1>1, <1>5, <1>6, <1>7 DEF WorkerInv

(* Calls that leave the kernel alone, and the sections of those on delayed work. *)
LEMMA CallsRest ==
    ASSUME WorkInv, WorkerInv, ~Races, NEW t \in Thread,
           \/ rt_workqueue_cancel_all_work(t)
           \/ \E w \in Work :
                  \/ rt_workqueue_dowork(t, w) \/ rt_workqueue_critical_work(t, w)
                  \/ rt_workqueue_cancel_work(t, w)
                  \/ rt_workqueue_cancel_work_sync(t, w) /\ work_current # w
                  \/ SubmitDelayed(t, w) \/ CancelDelayed(t, w)
    PROVE  WorkerInv'
<1>1. /\ FromThread(t) /\ UNCHANGED <<k, list, object, work_current, headtaken>>
  <2>1. CASE rt_workqueue_cancel_all_work(t)
    BY <2>1 DEF rt_workqueue_cancel_all_work
  <2>2. ASSUME NEW w \in Work,
               \/ rt_workqueue_dowork(t, w) \/ rt_workqueue_critical_work(t, w)
               \/ rt_workqueue_cancel_work(t, w)
               \/ rt_workqueue_cancel_work_sync(t, w) /\ work_current # w
               \/ SubmitDelayed(t, w) \/ CancelDelayed(t, w)
        PROVE  FromThread(t) /\ UNCHANGED <<k, list, object, work_current, headtaken>>
    BY <2>2 DEF rt_workqueue_dowork, rt_workqueue_critical_work, rt_workqueue_cancel_work,
           rt_workqueue_cancel_work_sync, SubmitDelayed, CancelDelayed, Submit, Begin, Goto
  <2> QED
    BY <2>1, <2>2
<1>2. /\ k.cur = t /\ pc[t] = "run" /\ t # Worker /\ Settled /\ ListOK
      /\ pc \in [Thread -> WorkPoint]
  BY <1>1 DEF FromThread, Enters, At, WorkInv
<1>3. pc = [pc EXCEPT ![t] = "run"]
  BY <1>2
<1>4. ASSUME NEW c \in {"run"} \union Between, pc' = [pc EXCEPT ![t] = c],
             c = "wake" => Queued' # {} /\ work_current = NoWork,
             Queued' \subseteq Queued \/ c = "wake" \/ work_current # NoWork
      PROVE  WorkerInv'
  BY <1>1, <1>2, <1>4, CallerMoves
<1>5. {"run", "wake", "cancel", "attach"} \subseteq {"run"} \union Between
  BY DEF Between, CancelPoint
<1>6. ASSUME NEW w \in Work, Enqueue(w),
             pc' = [pc EXCEPT ![t] = IF work_current = NoWork THEN "wake" ELSE "run"]
      PROVE  WorkerInv'
  <2>1. Queued' = Queued \union {w}
    BY <1>2, <1>6, EnqueueEffect
  <2> QED
    BY <1>4, <1>5, <1>6, <2>1
<1>7. ASSUME NEW w \in Work, Drop(w), pc' = pc PROVE WorkerInv'
  <2>1. Queued' = Queued \ {w}
    BY <1>2, <1>7, DropEffect
  <2> QED
    BY <1>3, <1>4, <1>5, <1>7, <2>1
<1>8. CASE rt_workqueue_cancel_all_work(t)
  <2>1. work_list' = <<>> /\ pc' = pc
    BY <1>8 DEF rt_workqueue_cancel_all_work
  <2>2. Queued' = {}
    BY <2>1, EmptyWork DEF Queued
  <2> QED
    BY <1>3, <1>4, <1>5, <2>1, <2>2
<1>9. ASSUME NEW w \in Work,
             rt_workqueue_dowork(t, w) \/ rt_workqueue_critical_work(t, w)
      PROVE  WorkerInv'
  BY <1>6, <1>9 DEF rt_workqueue_dowork, rt_workqueue_critical_work, Submit, Goto
<1>10. ASSUME NEW w \in Work,
              \/ rt_workqueue_cancel_work(t, w)
              \/ rt_workqueue_cancel_work_sync(t, w) /\ work_current # w
       PROVE  WorkerInv'
  BY <1>7, <1>10 DEF rt_workqueue_cancel_work, rt_workqueue_cancel_work_sync
<1>11. ASSUME NEW w \in Work, SubmitDelayed(t, w) \/ CancelDelayed(t, w) PROVE WorkerInv'
  <2>1. PICK c \in {"cancel", "attach"} : pc' = [pc EXCEPT ![t] = c]
    BY <1>11 DEF SubmitDelayed, CancelDelayed, Begin, Goto
  <2>2. Queued' = Queued
    BY <1>11 DEF SubmitDelayed, CancelDelayed, Queued
  <2> QED
    BY <1>4, <1>5, <2>1, <2>2
<1> QED
  BY <1>8, <1>9, <1>10, <1>11

LEMMA SectionsRest ==
    ASSUME WorkInv, WorkerInv, NEW t \in Thread,
           CancelTest(t) \/ CancelUnqueue(t) \/ CancelTimer(t) \/ CancelDetach(t) \/ Attach(t)
    PROVE  WorkerInv'
<1>1. PICK w : w = call[t].work
  OBVIOUS
<1>2. /\ k.cur = t /\ pc[t] \in CancelPoint
      /\ UNCHANGED <<k, list, object, work_current, headtaken>>
  BY DEF CancelTest, CancelUnqueue, CancelTimer, CancelDetach, Attach, Submit, Finish,
         Goto, At, workqueue, CancelPoint
<1>3. t # Worker /\ ListOK /\ w \in Work
  BY <1>1, <1>2, SectionFacts DEF WorkerInv, PointsOK, WorkerPoint, CancelPoint
<1>4. ASSUME NEW c \in {"run"} \union Between, pc' = [pc EXCEPT ![t] = c],
             c = "wake" => Queued' # {} /\ work_current = NoWork,
             Queued' \subseteq Queued \/ c = "wake" \/ work_current # NoWork
      PROVE  WorkerInv'
  BY <1>2, <1>3, <1>4, CallerMoves
<1>5. /\ CancelPoint \union {"wake", "run"} \subseteq {"run"} \union Between
      /\ {"unqueue", "untimer", "detach", "attach"} \subseteq CancelPoint
  BY DEF Between, CancelPoint
<1>6. ASSUME NEW c \in {"run", "unqueue", "untimer", "detach", "attach"},
             pc' = [pc EXCEPT ![t] = c], Queued' \subseteq Queued
      PROVE  WorkerInv'
  BY <1>4, <1>5, <1>6
<1>7. CASE CancelTest(t)
  <2>1. Queued' = Queued
    BY <1>7 DEF CancelTest, workqueue, Queued
  <2>2. CASE w \in pending
    BY <1>1, <1>6, <1>7, <2>1, <2>2 DEF CancelTest, Goto
  <2>3. CASE w \in submitting \ pending
    BY <1>1, <1>6, <1>7, <2>1, <2>3 DEF CancelTest, Goto
  <2>4. CASE w \notin pending /\ w \notin submitting
    BY <1>1, <1>6, <1>7, <2>1, <2>4 DEF CancelTest, Goto
  <2> QED
    BY <2>2, <2>3, <2>4
<1>8. CASE CancelUnqueue(t)
  <2>1. CASE work_current = w
    <3>1. pc' = [pc EXCEPT ![t] = "run"] /\ Queued' = Queued
      BY <1>1, <1>8, <2>1 DEF CancelUnqueue, Finish, Goto, Queued
    <3> QED
      BY <1>6, <3>1
  <2>2. CASE work_current # w
    <3>1. Drop(w) /\ pc' = [pc EXCEPT ![t] = "detach"]
      BY <1>1, <1>8, <2>2 DEF CancelUnqueue, Goto
    <3>2. Queued' = Queued \ {w}
      BY <1>3, <3>1, DropEffect
    <3> QED
      BY <1>6, <3>1, <3>2
  <2> QED
    BY <2>1, <2>2
<1>9. CASE CancelTimer(t)
  BY <1>6, <1>9 DEF CancelTimer, Goto, Queued
<1>10. CASE CancelDetach(t)
  BY <1>6, <1>10 DEF CancelDetach, Finish, Goto, Queued
<1>11. CASE Attach(t)
  <2>1. CASE UNCHANGED work_list /\ pc' = [pc EXCEPT ![t] = "run"]
    BY <1>6, <2>1 DEF Queued
  <2>2. CASE Submit(t, w)
    <3>1. Enqueue(w)
          /\ pc' = [pc EXCEPT ![t] = IF work_current = NoWork THEN "wake" ELSE "run"]
      BY <2>2 DEF Submit, Goto
    <3>2. Queued' = Queued \union {w}
      BY <1>3, <3>1, EnqueueEffect
    <3> QED
      BY <1>4, <1>5, <3>1, <3>2
  <2> QED
    BY <1>1, <1>11, <2>1, <2>2 DEF Attach, Goto
<1> QED
  BY <1>7, <1>8, <1>9, <1>10, <1>11

(* A caller that waits for the end of running work.                            *)
LEMMA SyncWaitHolds ==
    ASSUME WorkInv, WorkerInv, WorkerUrgent, ~Races, NEW t \in Thread, NEW w \in Work,
           rt_workqueue_cancel_work_sync(t, w), work_current = w
    PROVE  WorkerInv'
<1>1. /\ k.cur = t /\ pc[t] = "run" /\ t # Worker /\ t # Idle /\ Settled
      /\ k' = rt_schedule(Queue(t, "work", "FIFO"))
      /\ pc' = [pc EXCEPT ![t] = "woken"] /\ list' = [list EXCEPT ![t] = "work"]
      /\ Queued' = Queued /\ UNCHANGED <<object, work_current, headtaken>>
      /\ pc \in [Thread -> WorkPoint] /\ list \in [Thread -> WaitList \union {"none"}]
  BY DEF rt_workqueue_cancel_work_sync, FromThread, Enters, At, Queued, WorkInv, WorkerInv,
         SyncersOK
<1>2. /\ Kern(k) /\ Worker \in Thread /\ "work" \in WaitList
      /\ k.stat[t] = "ready" /\ pc[Worker] = "work"
  BY <1>1, KernFields, WorkerRests, WorkAssumption DEF WorkerInv, WorkerLoop
<1>3. PICK r : r = k'
  OBVIOUS
<1>4. /\ WorkerUrgent /\ Kern(k) /\ t \in Thread /\ t # Idle /\ k.stat[t] = "ready"
      /\ r = rt_schedule(Queue(t, "work", "FIFO"))
  BY ONLY WorkerUrgent, t \in Thread, <1>1, <1>2, <1>3
<1>5. /\ Kern(r) /\ r.stat[r.cur] = "ready"
      /\ r.stat[Worker] = "ready" => r.cur = Worker
      /\ r.stat[t] = "suspend" /\ ~r.timer[t]
      /\ \A x \in Thread \ {t} : r.stat[x] = k.stat[x] /\ (r.timer[x] <=> k.timer[x])
      /\ WaitAdds(r, k, "work", t)
  BY ONLY <1>4, KernQueue
<1>6. /\ pc'[t] = "woken" /\ list'[t] = "work" /\ pc'[Worker] = "work"
      /\ \A x \in Thread \ {t} : pc'[x] = pc[x] /\ list'[x] = list[x]
      /\ list' \in [Thread -> WaitList \union {"none"}]
  BY <1>1, <1>2
<1>7. /\ \A m \in WaitList : \A x \in Thread \ {t} :
             x \in ToSet(k'.wait[m]) <=> x \in ToSet(k.wait[m])
      /\ \A m \in WaitList : t \in ToSet(k'.wait[m]) <=> m = "work"
  <2>1. \A m \in WaitList : t \notin ToSet(k.wait[m])
    BY <1>2 DEF WorkerInv, SyncersOK, WaitersAreQueued
  <2> QED
    BY <1>2, <1>3, <1>5, <2>1 DEF WaitAdds
<1>8. WhoRuns' /\ ThreadsOK' /\ PointsOK'
  BY <1>1, <1>2, <1>3, <1>5, <1>6 DEF WhoRuns, WorkerInv, ThreadsOK, PointsOK
<1>9. WorkerLoop' /\ WakersOK'
  <2>1. \A x \in Thread : pc[x] \notin Between /\ pc'[x] \notin Between /\ pc'[x] # "wake"
    BY <1>1, <1>6 DEF Settled, Between, CancelPoint
  <2>2. WakersOK'
    BY <2>1 DEF WakersOK
  <2> QED
    BY <1>1, <1>2, <1>6, <2>2 DEF WorkerInv, WorkerLoop
<1>10. SyncersOK'
  <2>1. InWait(t)' /\ \A x \in Thread \ {t} : InWait(x)' <=> InWait(x)
    BY <1>6 DEF InWait
  <2>2. WaitersAreQueued'
    BY <1>3, <1>5, <1>6, <1>7, <2>1 DEF WorkerInv, SyncersOK, WaitersAreQueued
  <2> QED
    BY <1>1, <1>6, <2>2 DEF WorkerInv, SyncersOK, object
<1> QED
  BY <1>3, <1>5, <1>8, <1>9, <1>10 DEF WorkerInv

(* The delay of a work ends.                                                   *)
LEMMA DelayRest ==
    ASSUME WorkInv, WorkerInv, WorkerUrgent, ~Races, NEW w \in Work, DelayExpires(w)
    PROVE  WorkerInv'
<1>1. /\ Settled /\ w \in submitting /\ work_current # w
      /\ UNCHANGED <<pc, list, object, work_current, headtaken>>
      /\ Kern(k) /\ Worker \in Thread
  BY KernFields DEF DelayExpires, WorkerInv
<1>2. w \notin pending /\ ListOK
  BY <1>1 DEF WorkInv, DelaysAgree
<1>3. /\ Enqueue(w)
      /\ k' = IF work_current = NoWork THEN rt_schedule(rt_thread_resume(k, Worker)) ELSE k
  BY <1>1, <1>2 DEF DelayExpires, Accepts
<1>4. Queued' = Queued \union {w}
  BY <1>2, <1>3, EnqueueEffect
<1>5. \A x \in Thread : pc[x] \notin Between /\ pc[x] # "wake" /\ pc[x] # "suspend"
  BY <1>1 DEF Settled, Between
<1>6. PointsOK' /\ WakersOK' /\ (\A x \in Thread : InWait(x)' <=> InWait(x))
  BY <1>1, <1>5 DEF WorkerInv, PointsOK, WakersOK, InWait
<1>7. CASE work_current # NoWork
  <2>1. pc[Worker] = "work" /\ UNCHANGED k
    BY <1>3, <1>7 DEF WorkerInv, WorkerLoop
  <2>2. ThreadsOK' /\ WhoRuns' /\ WorkerLoop'
    BY <1>1, <2>1 DEF WorkerInv, ThreadsOK, WhoRuns, WorkerLoop
  <2>3. WaitersAreQueued'
    BY <1>1, <1>6, <2>1 DEF WorkerInv, SyncersOK, WaitersAreQueued
  <2>4. SyncersOK'
    BY <1>1, <2>1, <2>3 DEF WorkerInv, SyncersOK, object
  <2> QED
    BY <1>1, <1>6, <2>1, <2>2, <2>4 DEF WorkerInv
<1>8. CASE work_current = NoWork
  <2>1. PICK r : r = rt_thread_resume(k, Worker) /\ k' = rt_schedule(r)
    BY <1>3, <1>8
  <2>2. pc[Worker] \in {"run", "sched", "take", "ack"} /\ k.stat[Worker] \in {"ready", "suspend"}
        /\ ~k.timer[Worker]
    BY <1>1, <1>5, <1>8 DEF WorkerInv, WorkerLoop, PointsOK, WorkerPoint, ThreadsOK
  <2>3. \A m \in WaitList : Worker \notin ToSet(k.wait[m])
    BY <1>1, <2>2 DEF WorkerInv, SyncersOK, WaitersAreQueued, InWait
  <2>4. Sets(r, k, Worker, "ready", FALSE)
    <3>1. CASE k.stat[Worker] = "suspend"
      BY <1>1, <2>1, <3>1, KernResume
    <3>2. CASE k.stat[Worker] = "ready"
      <4>1. r = k
        BY <2>1, <3>2 DEF rt_thread_resume
      <4> QED
        BY <1>1, <2>2, <2>3, <3>2, <4>1 DEF Sets
    <3> QED
      BY <2>2, <3>1, <3>2
  <2>5. /\ Kern(k') /\ k'.stat[k'.cur] = "ready"
        /\ k'.stat = r.stat /\ k'.timer = r.timer /\ k'.wait = r.wait
        /\ r.stat[Worker] = "ready" => k'.cur = Worker
    BY <2>1, <2>4, UrgentRuns DEF Sets
  <2>6. /\ k'.stat[Worker] = "ready" /\ ~k'.timer[Worker] /\ k'.cur = Worker
        /\ \A x \in Thread \ {Worker} : k'.stat[x] = k.stat[x] /\ (k'.timer[x] <=> k.timer[x])
        /\ \A m \in WaitList : ToSet(k'.wait[m]) = ToSet(k.wait[m]) \ {Worker}
    BY <2>4, <2>5 DEF Sets
  <2>7. ThreadsOK' /\ WhoRuns'
    BY <1>1, <2>5, <2>6 DEF WorkerInv, ThreadsOK, WhoRuns
  <2>8. WorkerLoop'
    BY <1>1, <1>4, <2>2, <2>6 DEF WorkerInv, WorkerLoop
  <2>9. WaitersAreQueued'
    BY <1>1, <1>6, <2>2, <2>3, <2>6 DEF WorkerInv, SyncersOK, WaitersAreQueued, InWait
  <2>10. SyncersOK'
    BY <1>1, <2>6, <2>2, <2>9 DEF WorkerInv, SyncersOK, object
  <2> QED
    BY <1>6, <2>5, <2>7, <2>8, <2>10 DEF WorkerInv
<1> QED
  BY <1>7, <1>8

(* Every step of the work queue and of the system around it.                   *)
LEMMA WorkerStep ==
    ASSUME WorkInv, WorkInv', WorkerInv, WorkerUrgent, ~Races, WorkNext
    PROVE  WorkerInv'
<1>1. CASE _workqueue_thread_entry
  <2>1. CASE WorkSchedule
    BY <2>1, SwitchHolds DEF WorkSchedule
  <2> QED
    BY <1>1, <2>1, WorkerTests, WorkerSuspends, WorkerReports DEF _workqueue_thread_entry
<1>2. ASSUME NEW t \in Thread,
             \/ LastSchedule(t) /\ UNCHANGED <<object, workqueue>>
             \/ ResumeWorker(t) \/ SyncReturn(t)
             \/ CancelTest(t) \/ CancelUnqueue(t) \/ CancelTimer(t) \/ CancelDetach(t)
             \/ Attach(t)
      PROVE  WorkerInv'
  BY <1>2, SwitchHolds, WorkerResumed, SyncReturnHolds, SectionsRest
<1>3. ASSUME NEW t \in Thread, rt_workqueue_cancel_all_work(t) PROVE WorkerInv'
  BY <1>3, CallsRest
<1>4. ASSUME NEW t \in Thread, NEW w \in Work,
             \/ rt_workqueue_dowork(t, w) \/ rt_workqueue_critical_work(t, w)
             \/ rt_workqueue_cancel_work(t, w) \/ rt_workqueue_cancel_work_sync(t, w)
             \/ SubmitDelayed(t, w) \/ CancelDelayed(t, w)
      PROVE  WorkerInv'
  BY <1>4, CallsRest, SyncWaitHolds
<1>5. ASSUME NEW w \in Work, DelayExpires(w) PROVE WorkerInv'
  BY <1>5, DelayRest
<1>6. CASE /\ Background /\ UNCHANGED workqueue
           /\ At(Worker, "run") => k'.stat[Worker] = "ready"
  BY <1>6, RestHolds
<1> QED
  BY <1>1, <1>2, <1>3, <1>4, <1>5, <1>6 DEF WorkNext

(* The inductive invariant of a worker that is more urgent than every other    *)
(* thread, when neither calls nor the tick come between two sections.          *)
THEOREM WorkerInvariance ==
    ASSUME ~Races, WorkerUrgent PROVE WorkSpec => [](WorkInv /\ WorkerInv)
<1>1. CallsInit /\ WorkInit => WorkerInv
  <2> SUFFICES ASSUME CallsInit, WorkInit PROVE WorkerInv
    OBVIOUS
  <2>1. /\ k = KernelInit(Thread) /\ pc = [t \in Thread |-> "run"] /\ Worker \in Thread
        /\ list = [t \in Thread |-> "none"] /\ life = "yes" /\ ~wild
        /\ work_current = NoWork /\ ~headtaken
    BY WorkAssumption DEF CallsInit, WorkInit
  <2>2. /\ k \in KernelState
        /\ KernelConsistent(k)
        /\ k.nest = 0
        /\ k.prio = init_priority
        /\ \A t \in Thread : k.stat[t] = "ready" /\ ~k.timer[t]
        /\ \A l \in WaitList : k.wait[l] = <<>>
    BY ONLY <2>1, InitEffect
  <2>3. PICK r : r = rt_schedule(k)
    OBVIOUS
  <2>4. Kern(k) /\ k.stat[Worker] = "ready"
    BY <2>1, <2>2 DEF Kern
  <2>5. r.cur = Worker
    BY <2>3, <2>4, UrgentRuns
  <2>6. k.cur = Worker
    <3>1. r.cur = Head(k.ready[Min(k.group)])
      BY <2>2, <2>3 DEF rt_schedule, HighestReady, KernelState
    <3>2. k.cur = Head(k.ready[Min(k.group)])
      BY <2>1 DEF KernelInit
    <3> QED
      BY <2>5, <3>1, <3>2
  <2>7. \A t \in Thread : pc[t] = "run" /\ list[t] = "none"
    BY <2>1
  <2>8. ThreadsOK /\ WhoRuns /\ PointsOK
    BY <2>1, <2>2, <2>4, <2>6, <2>7 DEF ThreadsOK, WhoRuns, PointsOK, WorkerPoint
  <2>9. WorkerLoop /\ WakersOK
    BY <2>1, <2>4, <2>7 DEF WorkerLoop, WakersOK, Between, CancelPoint
  <2>10. WaitersAreQueued
    <3>1. \A m \in WaitList : ToSet(k.wait[m]) = {}
      BY <2>2, EmptyWork
    <3> QED
      BY <2>7, <3>1 DEF WaitersAreQueued, InWait
  <2>11. SyncersOK
    BY <2>1, <2>7, <2>10 DEF SyncersOK
  <2> QED
    BY <2>4, <2>8, <2>9, <2>11 DEF WorkerInv
<1>2. WorkInv /\ WorkInv' /\ WorkerInv /\ [WorkNext]_<<calls, workqueue>> => WorkerInv'
  <2> SUFFICES ASSUME WorkInv, WorkInv', WorkerInv, [WorkNext]_<<calls, workqueue>>
               PROVE  WorkerInv'
    OBVIOUS
  <2>1. CASE UNCHANGED <<calls, workqueue>>
    <3>1. UNCHANGED <<k, pc, list, life, wild, work_list, work_current, headtaken>>
      BY <2>1 DEF calls, object, workqueue
    <3>2. Queued' = Queued /\ (\A x \in Thread : InWait(x)' <=> InWait(x))
      BY <3>1 DEF Queued, InWait
    <3>3. ThreadsOK' /\ WhoRuns' /\ PointsOK' /\ WorkerLoop' /\ WakersOK'
      BY <3>1, <3>2 DEF WorkerInv, ThreadsOK, WhoRuns, PointsOK, WorkerLoop, WakersOK
    <3>4. SyncersOK'
      BY <3>1, <3>2 DEF WorkerInv, SyncersOK, WaitersAreQueued
    <3> QED
      BY <3>1, <3>3, <3>4 DEF WorkerInv
  <2> QED
    BY <2>1, WorkerStep
<1> QED
  BY <1>1, <1>2, WorkInvariance, PTL DEF WorkSpec

(* Accepted work is accounted for until it is begun or cancelled, and the worker *)
(* finds work in its list whenever it takes the first entry, which it does        *)
(* without a second test after it has slept.                                   *)
THEOREM WorkAlwaysAccounted ==
    ASSUME ~Races, WorkerUrgent PROVE WorkSpec => []WorkAccounted
<1>1. WorkInv /\ WorkerInv => WorkAccounted
  BY DEF WorkInv, WorkerInv, WorkerLoop, WorkAccounted, WorkToDo
<1> QED
  BY <1>1, WorkerInvariance, PTL

(* The worker never stays suspended beside queued work unless whoever queued it *)
(* is about to resume it, and those who wait for the end of work wait for a      *)
(* worker that has yet to report it.                                            *)
THEOREM WorkerAlwaysAnswers ==
    ASSUME ~Races, WorkerUrgent PROVE WorkSpec => []WorkerAnswers
<1>1. WorkInv /\ WorkerInv => NoWorkWhileAsleep
  <2> SUFFICES ASSUME WorkInv, WorkerInv, k.stat[Worker] = "suspend",
                      pc[Worker] \in {"sched", "take"}, work_list # <<>>
               PROVE  \E t \in Thread : pc[t] = "wake"
    BY DEF NoWorkWhileAsleep
  <2>1. Queued # {}
    BY EmptyList DEF WorkInv, ListOK, Queued
  <2> QED
    BY <2>1 DEF WorkerInv, WorkerLoop
<1>2. WorkInv /\ WorkerInv => SyncWaits
  <2> SUFFICES ASSUME WorkInv, WorkerInv, k.wait["work"] # <<>>
               PROVE  work_current # NoWork \/ pc[Worker] = "ack"
    BY DEF SyncWaits
  <2>1. k.wait["work"] \in Seq(Thread) /\ "work" \in WaitList
    BY KernFields, StateFields DEF WorkerInv, Kern
  <2>2. PICK t : t \in Thread /\ t \in ToSet(k.wait["work"])
    BY <2>1, HeadIsElement
  <2>3. InWait(t) /\ k.stat[t] = "suspend" /\ pc[t] # "wait"
    BY <2>1, <2>2 DEF WorkerInv, SyncersOK, WaitersAreQueued, PointsOK, WorkerPoint, Between,
                      CancelPoint
  <2>4. pc[Worker] \in {"work", "ack"}
    BY <2>2, <2>3 DEF InWait, WorkerInv, SyncersOK
  <2> QED
    BY <2>4 DEF WorkerInv, WorkerLoop
<1>3. WorkInv /\ WorkerInv => WorkerAnswers
  BY <1>1, <1>2 DEF WorkerAnswers
<1> QED
  BY <1>3, WorkerInvariance, PTL

(* Those who wait for the end of work are exactly the suspended callers.         *)
THEOREM WorkForgetsNobody ==
    ASSUME ~Races, WorkerUrgent PROVE WorkSpec => []NobodyForgotten
<1>1. WorkInv /\ WorkerInv => NobodyForgotten
  BY DEF WorkerInv, SyncersOK, NobodyForgotten, DetachedIsEmpty, ResumesThreads
<1> QED
  BY <1>1, WorkerInvariance, PTL

-----------------------------------------------------------------------------
(* The heap: rounding to the alignment.                                       *)

LEMMA QuotientExists ==
    ASSUME NEW A, A \in Nat \ {0}, NEW n, n \in Nat
    PROVE  \E q \in Nat : n = (q * A) + (n % A)
<1> DEFINE G == {x \in Nat : \E q \in Nat, r \in 0 .. A - 1 : x = (q * A) + r}
<1>1. 0 \in G
  <2>1. 0 = (0 * A) + 0 /\ 0 \in 0 .. A - 1
    OBVIOUS
  <2> QED
    BY <2>1
<1>2. ASSUME NEW x \in 1 .. n, x - 1 \in G PROVE x \in G
  <2>1. PICK q \in Nat, r \in 0 .. A - 1 : x - 1 = (q * A) + r
    BY <1>2
  <2>2. CASE r < A - 1
    <3>1. x = (q * A) + (r + 1) /\ r + 1 \in 0 .. A - 1
      BY <2>1, <2>2
    <3> QED
      BY <3>1
  <2>3. CASE r = A - 1
    <3>1. (q + 1) * A = (q * A) + A
      OBVIOUS
    <3>2. x = ((q + 1) * A) + 0 /\ 0 \in 0 .. A - 1 /\ q + 1 \in Nat
      BY <2>1, <2>3, <3>1
    <3> QED
      BY <3>2
  <2> QED
    BY <2>2, <2>3
<1>3. n \in G
  <2> HIDE DEF G
  <2> QED
    BY <1>1, <1>2, CountUp
<1>4. PICK q \in Nat, r \in 0 .. A - 1 : n = (q * A) + r
  BY <1>3
<1>5. n % A = r
  BY <1>4
<1> QED
  BY <1>4, <1>5

LEMMA AlignedIsMultiple ==
    ASSUME NEW A, A \in Nat \ {0}, NEW n, n \in Nat
    PROVE  n % A = 0 <=> \E q \in Nat : n = q * A
<1>1. ASSUME n % A = 0 PROVE \E q \in Nat : n = q * A
  <2>1. PICK q \in Nat : n = (q * A) + (n % A)
    BY QuotientExists
  <2> QED
    BY <1>1, <2>1
<1>2. ASSUME NEW q \in Nat, n = q * A PROVE n % A = 0
  <2>1. n = (A * q) + 0 /\ 0 \in 0 .. A - 1
    BY <1>2
  <2> QED
    BY <2>1
<1> QED
  BY <1>1, <1>2

LEMMA AlignedSum ==
    ASSUME NEW A, A \in Nat \ {0}, NEW m, m \in Nat, NEW n, n \in Nat,
           m % A = 0, n % A = 0
    PROVE  (m + n) % A = 0
<1>1. PICK a \in Nat : m = a * A
  BY AlignedIsMultiple
<1>2. PICK b \in Nat : n = b * A
  BY AlignedIsMultiple
<1>3. m + n = (a + b) * A /\ a + b \in Nat /\ m + n \in Nat
  BY <1>1, <1>2
<1> QED
  BY <1>3, AlignedIsMultiple

LEMMA AlignUp ==
    ASSUME NEW n, n \in Nat
    PROVE  /\ RT_ALIGN(n) \in Nat /\ n <= RT_ALIGN(n)
           /\ RT_ALIGN(n) % RT_ALIGN_SIZE = 0
<1>1. PICK A : A = RT_ALIGN_SIZE /\ A \in Nat \ {0}
  BY HeapAssumption
<1>2. PICK x : x = n + A - 1 /\ x \in Nat
  BY <1>1
<1>3. x % A \in 0 .. A - 1
  BY <1>1, <1>2
<1>4. PICK q \in Nat : x = (q * A) + (x % A)
  BY <1>1, <1>2, QuotientExists
<1>5. RT_ALIGN(n) = x - (x % A)
  BY <1>1, <1>2 DEF RT_ALIGN
<1>6. RT_ALIGN(n) = q * A /\ q * A \in Nat /\ n <= q * A
  <2>1. PICK r, y : r = x % A /\ y = q * A
    OBVIOUS
  <2>2. y \in Nat
    BY <1>1, <2>1
  <2> QED
    BY <1>1, <1>2, <1>3, <1>4, <1>5, <2>1, <2>2
<1>7. (q * A) % A = 0
  BY <1>1, <1>6, AlignedIsMultiple
<1> QED
  BY <1>1, <1>6, <1>7

LEMMA HeapSizes ==
    /\ SIZEOF_STRUCT_MEM \in Nat \ {0} /\ mem_size_aligned \in Nat
    /\ SIZEOF_STRUCT_MEM % RT_ALIGN_SIZE = 0 /\ mem_size_aligned % RT_ALIGN_SIZE = 0
    /\ RT_ALIGN_SIZE \in Nat \ {0} /\ MIN_SIZE \in Nat \ {0}
    /\ MIN_SIZE_ALIGNED \in Nat /\ MIN_SIZE_ALIGNED % RT_ALIGN_SIZE = 0
    /\ heap_end = mem_size_aligned + SIZEOF_STRUCT_MEM /\ heap_end \in Nat
    /\ MIN_SIZE <= MIN_SIZE_ALIGNED /\ MIN_SIZE_ALIGNED <= mem_size_aligned
<1>1. /\ SIZEOF_STRUCT_MEM \in Nat \ {0} /\ RT_ALIGN_SIZE \in Nat \ {0}
      /\ MIN_SIZE \in Nat \ {0} /\ MIN_SIZE_ALIGNED <= mem_size_aligned
  BY HeapAssumption
<1>2. PICK m \in 0 .. mem_size_aligned : mem_size_aligned = RT_ALIGN(m)
  BY HeapAssumption
<1>3. PICK n \in 0 .. mem_size_aligned : SIZEOF_STRUCT_MEM = RT_ALIGN(n)
  BY HeapAssumption
<1>4. m \in Nat /\ n \in Nat
  BY <1>2, <1>3
<1> QED
  BY <1>1, <1>2, <1>3, <1>4, AlignUp DEF MIN_SIZE_ALIGNED, heap_end

(* Offsets and sizes that are multiples of the alignment.                      *)
LEMMA OffsetFacts ==
    /\ 0 \in Offset /\ heap_end \in Offset /\ heap_end \in Nat \ {0}
    /\ Offset \subseteq Nat /\ \A p \in Offset : p <= heap_end
<1>1. heap_end % RT_ALIGN_SIZE = 0
  BY HeapSizes, AlignedSum
<1>2. 0 % RT_ALIGN_SIZE = 0
  BY HeapSizes
<1> QED
  BY <1>1, <1>2, HeapSizes DEF Offset

LEMMA OffsetSum ==
    ASSUME NEW p, p \in Offset, NEW size, size \in Nat, size % RT_ALIGN_SIZE = 0,
           p + SIZEOF_STRUCT_MEM + size <= heap_end
    PROVE  p + SIZEOF_STRUCT_MEM + size \in Offset
<1>1. p \in Nat /\ p % RT_ALIGN_SIZE = 0
  BY OffsetFacts DEF Offset
<1>2. PICK x : x = p + SIZEOF_STRUCT_MEM
  OBVIOUS
<1>3. x \in Nat /\ x % RT_ALIGN_SIZE = 0
  <2>1. x \in Nat
    BY <1>1, <1>2, HeapSizes
  <2>2. (p + SIZEOF_STRUCT_MEM) % RT_ALIGN_SIZE = 0
    BY <1>1, HeapSizes, AlignedSum
  <2> QED
    BY <1>2, <2>1, <2>2
<1>4. (x + size) % RT_ALIGN_SIZE = 0
  BY <1>3, HeapSizes, AlignedSum
<1> QED
  BY <1>1, <1>2, <1>3, <1>4, HeapSizes DEF Offset

LEMMA SizeFacts ==
    ASSUME NEW request, request \in Nat
    PROVE  /\ Size(request) \in Nat /\ Size(request) % RT_ALIGN_SIZE = 0
           /\ request <= Size(request) /\ RT_ALIGN(request) <= Size(request)
           /\ RT_ALIGN(request) <= mem_size_aligned => Size(request) <= mem_size_aligned
<1>1. /\ RT_ALIGN(request) \in Nat /\ RT_ALIGN(request) % RT_ALIGN_SIZE = 0
      /\ request <= RT_ALIGN(request)
  BY AlignUp
<1>2. PICK a, b : a = RT_ALIGN(request) /\ b = MIN_SIZE_ALIGNED
  OBVIOUS
<1>3. a \in Nat /\ b \in Nat
  BY <1>1, <1>2, HeapSizes
<1>4. Size(request) \in {a, b} /\ a <= Size(request) /\ b <= Size(request)
  <2>1. \E x \in {a, b} : \A y \in {a, b} : x >= y
    BY <1>3
  <2>2. Size(request) = CHOOSE x \in {a, b} : \A y \in {a, b} : x >= y
    BY <1>2 DEF Size, Max
  <2>3. Size(request) \in {a, b} /\ \A y \in {a, b} : Size(request) >= y
    BY <2>1, <2>2
  <2> QED
    BY <1>3, <2>3
<1> QED
  BY <1>1, <1>2, <1>3, <1>4, HeapSizes

-----------------------------------------------------------------------------
(* The chain of headers.  H stands for the set of its headers.                *)

HeapType == [mem : [Offset -> [used : BOOLEAN, next : Offset, prev : Offset]],
             lfree : Offset, used_mem : Int]

\* The header at p leads to the next one up, which leads back, but the last
\* header, which nobody follows back.
Links(h, H, p) ==
    /\ h.mem[p].next \in H /\ p < h.mem[p].next
    /\ \A q \in H : q <= p \/ h.mem[p].next <= q
    /\ h.mem[p].next # heap_end => h.mem[h.mem[p].next].prev = p

Laid(h, H) ==
    /\ h \in HeapType
    /\ H \subseteq Offset /\ 0 \in H /\ heap_end \in H
    /\ \A p \in H \ {heap_end} : Links(h, H, p)
    /\ h.mem[0].prev = 0
    /\ h.mem[heap_end].used /\ h.mem[heap_end].next = heap_end
    /\ \A p \in Offset \ H : h.mem[p] = Stale

FreeOf(h, H) == {p \in H \ {heap_end} : ~h.mem[p].used}
UsedOf(h, H) == {p \in H \ {heap_end} : h.mem[p].used}

(* A set of headers that contains each header whose higher headers it contains *)
(* contains them all.                                                        *)
LEMMA CountDown ==
    ASSUME NEW H, H \subseteq Offset, NEW G,
           \A p \in H : (\A q \in H : p < q => q \in G) => p \in G
    PROVE  H \subseteq G
<1> DEFINE Bad == {n \in Nat : \E p \in H : p \notin G /\ n = heap_end - p}
<1>1. CASE Bad = {}
  <2>1. ASSUME NEW p \in H PROVE p \in G
    <3>1. heap_end - p \in Nat
      BY OffsetFacts
    <3>2. heap_end - p \notin Bad
      BY <1>1
    <3> QED
      BY <3>1, <3>2
  <2> QED
    BY <2>1
<1>2. CASE Bad # {}
  <2>1. Bad \in SUBSET Nat
    OBVIOUS
  <2>2. PICK m \in Bad : \A y \in Bad : m <= y
    <3> HIDE DEF Bad
    <3> QED
      BY <1>2, <2>1, MinIsLeast
  <2>3. PICK p \in H : p \notin G /\ m = heap_end - p
    OBVIOUS
  <2>4. ASSUME NEW q \in H, p < q PROVE q \in G
    <3>1. p \in Nat /\ q \in Nat /\ q <= heap_end /\ heap_end \in Nat
      BY OffsetFacts
    <3>2. heap_end - q \in Nat /\ ~(m <= heap_end - q)
      BY <2>3, <2>4, <3>1
    <3> QED
      BY <2>2, <3>2
  <2> QED
    BY <2>3, <2>4
<1> QED
  BY <1>1, <1>2

(* Every header but the last one leads to the least header above it.          *)
LEMMA Leads ==
    ASSUME NEW h, NEW H, Laid(h, H), NEW p, p \in H, p # heap_end
    PROVE  /\ h.mem[p].next \in H /\ p < h.mem[p].next
           /\ \A q \in H : q <= p \/ h.mem[p].next <= q
           /\ \A q \in H : p <= q <=> (q = p \/ h.mem[p].next <= q)
           /\ p \in Nat /\ h.mem[p].next \in Nat /\ h.mem[p].next <= heap_end
<1>1. /\ h.mem[p].next \in H /\ p < h.mem[p].next
      /\ \A q \in H : q <= p \/ h.mem[p].next <= q
  BY DEF Laid, Links
<1>2. H \subseteq Nat /\ \A q \in H : q <= heap_end
  BY OffsetFacts DEF Laid
<1>3. PICK n : n = h.mem[p].next
  OBVIOUS
<1>4. n \in Nat /\ p \in Nat /\ p < n /\ \A q \in H : q \in Nat /\ (q <= p \/ n <= q)
  BY <1>1, <1>2, <1>3
<1>5. \A q \in H : p <= q <=> (q = p \/ n <= q)
  BY <1>4
<1> QED
  BY <1>1, <1>2, <1>3, <1>5

\* g follows the headers from any place until one it stops at.
Walk(g, h, stop, v) == g = [p \in Offset |-> IF stop[p] THEN v[p] ELSE g[h.mem[p].next]]

(* Such a walk exists.                                                       *)
LEMMA WalkExists ==
    ASSUME NEW h, NEW H, Laid(h, H), NEW stop, NEW v, stop \in [Offset -> BOOLEAN],
           stop[heap_end]
    PROVE  \E g : Walk(g, h, stop, v)
<1> DEFINE Above(p) == {q \in H : p <= q /\ stop[q]}
           g == [p \in Offset |-> IF stop[p] THEN v[p]
                                  ELSE IF p \in H THEN v[Min(Above(p))]
                                  ELSE v[heap_end]]
<1>0. H \subseteq Nat /\ heap_end \in H /\ H \subseteq Offset /\ \A q \in H : q <= heap_end
  BY OffsetFacts DEF Laid
<1>1. ASSUME NEW p \in Offset, ~stop[p] PROVE g[p] = g[h.mem[p].next]
  <2>1. CASE p \notin H
    <3>1. h.mem[p].next = heap_end /\ heap_end \in Offset
      BY <2>1, OffsetFacts DEF Laid, Stale
    <3> QED
      BY <1>1, <2>1, <3>1
  <2>2. CASE p \in H
    <3>1. PICK n : n = h.mem[p].next
      OBVIOUS
    <3>2. p # heap_end
      BY <1>1
    <3>3. n \in H /\ \A q \in H : p <= q <=> (q = p \/ n <= q)
      BY <2>2, <3>1, <3>2, Leads
    <3>4. Above(p) = Above(n)
      BY <1>1, <3>3
    <3>5. n \in Offset
      BY <1>0, <3>3
    <3>6. CASE stop[n]
      <4>1. n \in Above(n) /\ \A q \in Above(n) : n <= q
        BY <1>0, <3>3, <3>6
      <4>2. Above(n) \in SUBSET Nat /\ Above(n) # {}
        BY <1>0, <4>1
      <4>3. PICK S : S = Above(n)
        OBVIOUS
      <4>4. Min(S) \in S /\ \A y \in S : Min(S) <= y
        BY <4>2, <4>3, MinIsLeast
      <4>5. Min(S) <= n /\ n <= Min(S) /\ Min(S) \in Nat /\ n \in Nat
        BY <1>0, <3>3, <4>1, <4>2, <4>3, <4>4
      <4>6. Min(S) = n
        BY <4>5
      <4> QED
        BY <1>1, <2>2, <3>1, <3>4, <3>5, <3>6, <4>3, <4>6
    <3>7. CASE ~stop[n]
      BY <1>1, <2>2, <3>1, <3>3, <3>4, <3>5, <3>7
    <3> QED
      BY <3>6, <3>7
  <2> QED
    BY <2>1, <2>2
<1>2. Walk(g, h, stop, v)
  BY <1>1 DEF Walk
<1> QED
  BY <1>2

(* Where a walk that begins at a header stops.                               *)
LEMMA WalkStops ==
    ASSUME NEW h, NEW H, Laid(h, H), NEW stop, NEW v, stop \in [Offset -> BOOLEAN],
           stop[heap_end], NEW g, Walk(g, h, stop, v), NEW p, p \in H
    PROVE  \E q \in H : /\ p <= q /\ stop[q] /\ g[p] = v[q]
                        /\ \A x \in H : p <= x /\ x < q => ~stop[x]
<1> DEFINE Ends(y) == \E q \in H : /\ y <= q /\ stop[q] /\ g[y] = v[q]
                                    /\ \A x \in H : y <= x /\ x < q => ~stop[x]
           G == {y \in H : Ends(y)}
<1>0. H \subseteq Nat /\ heap_end \in H /\ H \subseteq Offset /\ \A q \in H : q <= heap_end
  BY OffsetFacts DEF Laid
<1>1. ASSUME NEW y \in H, \A q \in H : y < q => q \in G PROVE y \in G
  <2>1. g[y] = IF stop[y] THEN v[y] ELSE g[h.mem[y].next]
    BY <1>0 DEF Walk
  <2>2. CASE stop[y]
    <3>1. y <= y /\ g[y] = v[y] /\ \A x \in H : ~(y <= x /\ x < y)
      BY <1>0, <2>1, <2>2
    <3> QED
      BY <2>2, <3>1
  <2>3. CASE ~stop[y]
    <3>1. PICK n : n = h.mem[y].next
      OBVIOUS
    <3>2. /\ n \in H /\ y < n /\ \A q \in H : y <= q <=> (q = y \/ n <= q)
      BY <2>3, <3>1, Leads
    <3>3. Ends(n)
      BY <1>1, <3>2
    <3>4. PICK q \in H : /\ n <= q /\ stop[q] /\ g[n] = v[q]
                         /\ \A x \in H : n <= x /\ x < q => ~stop[x]
      BY <3>3
    <3>5. y <= q /\ g[y] = v[q] /\ \A x \in H : y <= x /\ x < q => ~stop[x]
      BY <1>0, <2>1, <2>3, <3>1, <3>2, <3>4
    <3> QED
      BY <3>4, <3>5
  <2> QED
    BY <2>2, <2>3
<1>2. H \subseteq G
  <2> HIDE DEF G
  <2> QED
    BY <1>0, <1>1, CountDown
<1> QED
  BY <1>2

(* The walk of Headers finds H.                                              *)
LEMMA HeadersAre ==
    ASSUME NEW H, Laid(heap, H) PROVE Headers = H
<1> DEFINE Body(g) == [p \in Offset |->
                         IF heap.mem[p].next <= p THEN {p}
                         ELSE {p} \union g[heap.mem[p].next]]
           from == CHOOSE g : g = Body(g)
           Up(p) == {q \in H : p <= q}
           w == [p \in Offset |-> IF p \in H THEN Up(p) ELSE {p, heap_end}]
<1>0. /\ H \subseteq Nat /\ heap_end \in H /\ H \subseteq Offset /\ 0 \in H
      /\ \A q \in H : q <= heap_end
      /\ heap.mem[heap_end].next = heap_end /\ Offset \subseteq Nat
      /\ \A q \in Offset : q <= heap_end
  BY OffsetFacts DEF Laid
<1>1. Headers = from[0]
  BY DEF Headers
<1>2. ASSUME NEW p \in H, p # heap_end
      PROVE  /\ ~(heap.mem[p].next <= p) /\ heap.mem[p].next \in H
             /\ p < heap.mem[p].next /\ Up(p) = {p} \union Up(heap.mem[p].next)
  <2>1. PICK n : n = heap.mem[p].next
    OBVIOUS
  <2>2. n \in H /\ p < n /\ \A q \in H : p <= q <=> (q = p \/ n <= q)
    BY <1>2, <2>1, Leads
  <2>3. Up(p) = {p} \union Up(n)
    BY <2>2
  <2> QED
    BY <1>0, <2>1, <2>2, <2>3
<1>3. Up(heap_end) = {heap_end}
  <2>1. ASSUME NEW q \in H PROVE heap_end <= q <=> q = heap_end
    <3>1. q \in Nat /\ heap_end \in Nat /\ q <= heap_end
      BY <1>0
    <3> QED
      BY ONLY <3>1
  <2> QED
    BY <1>0, <2>1
<1>4. \E g : g = Body(g)
  <2>1. ASSUME NEW p \in Offset
        PROVE  w[p] = IF heap.mem[p].next <= p THEN {p} ELSE {p} \union w[heap.mem[p].next]
    <3>1. CASE p \notin H
      <4>1. heap.mem[p].next = heap_end /\ heap_end \in Offset /\ ~(heap_end <= p)
        BY <1>0, <3>1, OffsetFacts DEF Laid, Stale
      <4>2. w[heap_end] = {heap_end}
        BY <1>0, <1>3, <4>1
      <4> QED
        BY <3>1, <4>1, <4>2
    <3>2. CASE p = heap_end
      <4>1. heap.mem[p].next <= p
        BY <1>0, <3>2
      <4> QED
        BY <1>0, <1>3, <3>2, <4>1
    <3>3. CASE p \in H /\ p # heap_end
      BY <1>0, <1>2, <3>3
    <3> QED
      BY <3>1, <3>2, <3>3
  <2>2. w = Body(w)
    BY <2>1
  <2> QED
    BY <2>2
<1>5. from = Body(from)
  <2> HIDE DEF Body
  <2> QED
    BY <1>4
<1>6. PICK f : f = from
  OBVIOUS
<1>7. \A p \in Offset : f[p] = IF heap.mem[p].next <= p THEN {p}
                               ELSE {p} \union f[heap.mem[p].next]
  <2>1. f = Body(f)
    BY <1>5, <1>6
  <2> QED
    BY <2>1
<1> DEFINE G == {p \in H : f[p] = Up(p)}
<1>8. ASSUME NEW p \in H, \A q \in H : p < q => q \in G PROVE p \in G
  <2>1. CASE p = heap_end
    <3>1. heap.mem[p].next <= p
      BY <1>0, <2>1
    <3> QED
      BY <1>0, <1>3, <1>7, <2>1, <3>1
  <2>2. CASE p # heap_end
    <3>1. f[p] = {p} \union f[heap.mem[p].next]
      BY <1>0, <1>2, <1>7, <2>2
    <3>2. f[heap.mem[p].next] = Up(heap.mem[p].next)
      BY <1>2, <1>8, <2>2
    <3> QED
      BY <1>2, <2>2, <3>1, <3>2
  <2> QED
    BY <2>1, <2>2
<1>9. H \subseteq G
  <2> HIDE DEF G
  <2> QED
    BY <1>0, <1>8, CountDown
<1>10. Up(0) = H
  <2>1. \A q \in H : 0 <= q
    BY <1>0
  <2> QED
    BY <2>1
<1> QED
  BY <1>0, <1>1, <1>6, <1>9, <1>10

-----------------------------------------------------------------------------
(* Searching the chain.                                                      *)

Lowest(h, H) ==
    /\ h.lfree \in FreeOf(h, H) \union {heap_end}
    /\ \A p \in FreeOf(h, H) : h.lfree <= p

(* rt_malloc finds a free block that is large enough, or there is none below    *)
(* the limit.                                                                *)
LEMMA FirstFitEffect ==
    ASSUME NEW h, NEW H, Laid(h, H), Lowest(h, H), NEW size, size \in Nat,
           NEW limit, limit \in Nat, limit <= heap_end,
           NEW f, f = FirstFit(h, size, limit)
    PROVE  \/ f = None /\ \A p \in FreeOf(h, H) : p < limit => Room(h, p) < size
           \/ f \in FreeOf(h, H) /\ f < limit /\ Room(h, f) >= size
<1> DEFINE Body(g) ==
               [p \in Offset |->
                   CASE p >= limit -> None
                     [] p < limit /\ ~h.mem[p].used /\ Room(h, p) >= size -> p
                     [] OTHER -> g[h.mem[p].next]]
           fit == CHOOSE g : g = Body(g)
<1>0. /\ Offset \subseteq Nat /\ heap_end \in Offset /\ H \subseteq Offset /\ heap_end \in Nat
      /\ h.lfree \in H /\ heap_end \in H
  BY OffsetFacts DEF Laid, Lowest, FreeOf
<1>1. f = fit[h.lfree]
  BY DEF FirstFit
<1>2. PICK stop, v :
          /\ stop \in [Offset -> BOOLEAN]
          /\ \A p \in Offset : stop[p] <=> p >= limit \/ (~h.mem[p].used /\ Room(h, p) >= size)
          /\ v = [p \in Offset |-> IF p >= limit THEN None ELSE p]
  <2>1. [p \in Offset |-> p >= limit \/ (~h.mem[p].used /\ Room(h, p) >= size)]
            \in [Offset -> BOOLEAN]
    OBVIOUS
  <2> QED
    BY <2>1
<1>10. stop[heap_end]
  BY <1>0, <1>2
<1>3. ASSUME NEW g
      PROVE  g = Body(g) <=> Walk(g, h, stop, v)
  <2>1. ASSUME NEW p \in Offset
        PROVE  (CASE p >= limit -> None
                  [] p < limit /\ ~h.mem[p].used /\ Room(h, p) >= size -> p
                  [] OTHER -> g[h.mem[p].next])
               = IF stop[p] THEN v[p] ELSE g[h.mem[p].next]
    <3>1. p \in Nat
      BY <1>0
    <3>2. v[p] = IF p >= limit THEN None ELSE p
      BY <1>2
    <3>3. CASE p >= limit
      <4>1. stop[p]
        BY <1>2, <3>3
      <4> QED
        BY <3>1, <3>2, <3>3, <4>1
    <3>4. CASE ~(p >= limit)
      <4>1. p < limit
        BY <3>1, <3>4
      <4> QED
        BY <1>2, <3>2, <3>4, <4>1
    <3> QED
      BY <3>3, <3>4
  <2>2. Body(g) = [p \in Offset |-> IF stop[p] THEN v[p] ELSE g[h.mem[p].next]]
    BY <2>1
  <2> QED
    BY <2>2 DEF Walk
<1>4. \E g : g = Body(g)
  <2>1. PICK g : Walk(g, h, stop, v)
    BY <1>2, <1>10, WalkExists
  <2> QED
    BY <1>3, <2>1
<1>5. fit = Body(fit)
  <2> HIDE DEF Body
  <2> QED
    BY <1>4
<1>6. PICK q \in H : /\ h.lfree <= q /\ stop[q] /\ fit[h.lfree] = v[q]
                     /\ \A x \in H : h.lfree <= x /\ x < q => ~stop[x]
  <2>1. Walk(fit, h, stop, v)
    BY <1>3, <1>5
  <2>2. PICK g, p : g = fit /\ p = h.lfree
    OBVIOUS
  <2>3. /\ Laid(h, H) /\ stop \in [Offset -> BOOLEAN] /\ stop[heap_end] /\ p \in H
        /\ Walk(g, h, stop, v)
    BY <1>0, <1>2, <1>10, <2>1, <2>2
  <2>4. \E q \in H : /\ p <= q /\ stop[q] /\ g[p] = v[q]
                     /\ \A x \in H : p <= x /\ x < q => ~stop[x]
    BY ONLY <2>3, WalkStops
  <2> QED
    BY <2>2, <2>4
<1>7. q \in Nat /\ q \in Offset /\ q <= heap_end
  BY <1>0, OffsetFacts
<1>8. CASE q >= limit
  <2>1. f = None
    BY <1>1, <1>2, <1>6, <1>7, <1>8
  <2>2. ASSUME NEW p \in FreeOf(h, H), p < limit PROVE Room(h, p) < size
    <3>1. p \in H /\ p \in Offset /\ p \in Nat /\ h.lfree <= p /\ ~h.mem[p].used
      BY <1>0 DEF FreeOf, Lowest
    <3>2. ~stop[p]
      BY <1>0, <1>6, <1>7, <1>8, <2>2, <3>1
    <3>3. ~(Room(h, p) >= size)
      BY <1>2, <3>1, <3>2
    <3>4. Room(h, p) \in Int
      <4>1. h.mem[p].next \in Nat
        BY <2>2, <3>1, Leads DEF FreeOf
      <4> QED
        BY <3>1, <4>1, HeapSizes DEF Room
    <3> QED
      BY <3>3, <3>4
  <2> QED
    BY <2>1, <2>2
<1>9. CASE ~(q >= limit)
  <2>1. f = q /\ q < limit /\ ~h.mem[q].used /\ Room(h, q) >= size
    BY <1>1, <1>2, <1>6, <1>7, <1>9
  <2>2. q # heap_end
    BY <1>0, <1>7, <2>1
  <2> QED
    BY <2>1, <2>2 DEF FreeOf
<1> QED
  BY <1>8, <1>9

(* After the lowest free block was given away, lfree moves on to the next one.  *)
LEMMA NextFreeEffect ==
    ASSUME NEW h, NEW H, Laid(h, H), h.lfree \in H,
           \A p \in FreeOf(h, H) : h.lfree <= p,
           NEW r, r = NextFree(h)
    PROVE  /\ r \in HeapType /\ r.mem = h.mem /\ r.used_mem = h.used_mem
           /\ Lowest(r, H)
<1> DEFINE Body(g) ==
               [p \in Offset |->
                   IF h.mem[p].used /\ p # heap_end THEN g[h.mem[p].next] ELSE p]
           free == CHOOSE g : g = Body(g)
<1>0. /\ Offset \subseteq Nat /\ heap_end \in Offset /\ H \subseteq Offset /\ heap_end \in Nat
      /\ heap_end \in H /\ h \in HeapType
  BY OffsetFacts DEF Laid
<1>1. r = [h EXCEPT !.lfree = free[@]]
  BY DEF NextFree
<1>2. PICK stop, v :
          /\ stop \in [Offset -> BOOLEAN]
          /\ \A p \in Offset : stop[p] <=> ~(h.mem[p].used /\ p # heap_end)
          /\ v = [p \in Offset |-> p]
  <2>1. [p \in Offset |-> ~(h.mem[p].used /\ p # heap_end)] \in [Offset -> BOOLEAN]
    OBVIOUS
  <2> QED
    BY <2>1
<1>11. stop[heap_end]
  BY <1>0, <1>2
<1>3. ASSUME NEW g
      PROVE  g = Body(g) <=> Walk(g, h, stop, v)
  <2>1. Body(g) = [p \in Offset |-> IF stop[p] THEN v[p] ELSE g[h.mem[p].next]]
    BY <1>2
  <2> QED
    BY <2>1 DEF Walk
<1>4. \E g : g = Body(g)
  <2>1. PICK g : Walk(g, h, stop, v)
    BY <1>2, <1>11, WalkExists
  <2> QED
    BY <1>3, <2>1
<1>5. free = Body(free)
  <2> HIDE DEF Body
  <2> QED
    BY <1>4
<1>6. PICK q \in H : /\ h.lfree <= q /\ stop[q] /\ free[h.lfree] = v[q]
                     /\ \A x \in H : h.lfree <= x /\ x < q => ~stop[x]
  <2>1. Walk(free, h, stop, v)
    BY <1>3, <1>5
  <2>2. PICK g, p : g = free /\ p = h.lfree
    OBVIOUS
  <2>3. /\ Laid(h, H) /\ stop \in [Offset -> BOOLEAN] /\ stop[heap_end] /\ p \in H
        /\ Walk(g, h, stop, v)
    BY <1>0, <1>2, <1>11, <2>1, <2>2
  <2>4. \E q \in H : /\ p <= q /\ stop[q] /\ g[p] = v[q]
                     /\ \A x \in H : p <= x /\ x < q => ~stop[x]
    BY ONLY <2>3, WalkStops
  <2> QED
    BY <2>2, <2>4
<1>7. q \in Nat /\ q \in Offset /\ (~h.mem[q].used \/ q = heap_end) /\ free[h.lfree] = q
  BY <1>0, <1>2, <1>6
<1>8. r \in HeapType /\ r.mem = h.mem /\ r.used_mem = h.used_mem /\ r.lfree = q
  <2> HIDE DEF free
  <2> QED
    BY <1>0, <1>1, <1>7 DEF HeapType
<1>9. ASSUME NEW p \in FreeOf(r, H) PROVE q <= p
  <2>1. p \in H /\ p \in Offset /\ p \in Nat /\ ~h.mem[p].used /\ h.lfree <= p
    BY <1>0, <1>8 DEF FreeOf
  <2>2. ~(p < q)
    BY <1>0, <1>2, <1>6, <2>1 DEF FreeOf
  <2> QED
    BY <1>7, <2>1, <2>2
<1>10. q \in FreeOf(r, H) \union {heap_end}
  BY <1>7, <1>8 DEF FreeOf
<1> QED
  BY <1>8, <1>9, <1>10 DEF Lowest

-----------------------------------------------------------------------------
(* Counting bytes.                                                           *)

Adds(h, U, p) ==
    /\ Cardinality(Bytes(h, U)) \in Nat
    /\ Cardinality(Bytes(h, U \union {p})) = Cardinality(Bytes(h, U)) + (h.mem[p].next - p)

(* A block beside other blocks adds its bytes to theirs.                     *)
LEMMA BlockAdds ==
    ASSUME NEW h, NEW H, Laid(h, H), NEW U, U \subseteq H \ {heap_end},
           NEW p, p \in H \ {heap_end}, p \notin U
    PROVE  Adds(h, U, p)
<1>1. PICK n : n = h.mem[p].next
  OBVIOUS
<1>2. /\ p \in Nat /\ n \in Nat /\ p < n /\ n <= heap_end /\ heap_end \in Nat
  BY <1>1, Leads, OffsetFacts
<1>3. PICK B, C, D : B = Bytes(h, U) /\ C = p .. n - 1 /\ D = Bytes(h, U \union {p})
  OBVIOUS
<1>4. B \subseteq 0 .. heap_end - 1 /\ IsFiniteSet(B)
  <2>1. B \subseteq 0 .. heap_end - 1
    BY <1>3 DEF Bytes
  <2>2. IsFiniteSet(0 .. heap_end - 1)
    BY <1>2, FS_Interval
  <2> QED
    BY <2>1, <2>2, FS_Subset
<1>5. IsFiniteSet(C) /\ Cardinality(C) = n - p
  BY <1>2, <1>3, FS_Interval
<1>6. D = B \union C
  <2>1. C = {x \in 0 .. heap_end - 1 : p <= x /\ x < n}
    BY <1>2, <1>3
  <2> QED
    BY <1>1, <1>3, <2>1 DEF Bytes
<1>7. B \intersect C = {}
  <2> SUFFICES ASSUME NEW x \in C, x \in B PROVE FALSE
    OBVIOUS
  <2>1. PICK q \in U : q <= x /\ x < h.mem[q].next
    BY <1>3 DEF Bytes
  <2>2. PICK m : m = h.mem[q].next
    OBVIOUS
  <2>3. q \in H /\ q # heap_end /\ q # p
    OBVIOUS
  <2>4. q \in Nat /\ m \in Nat /\ (p <= q \/ m > p \/ m <= p)
    BY <2>2, <2>3, <1>2, Leads
  <2>5. p <= q \/ m <= p
    <3>1. p \in H
      OBVIOUS
    <3>2. p <= q \/ m <= p
      BY <2>2, <2>3, <3>1, Leads
    <3> QED
      BY <3>2
  <2>6. q <= p \/ n <= q
    BY <1>1, <2>3, Leads
  <2>7. x \in Nat /\ p <= x /\ x < n
    BY <1>2, <1>3
  <2> QED
    BY <1>2, <2>1, <2>2, <2>3, <2>4, <2>5, <2>6, <2>7
<1>8. Cardinality(D) = Cardinality(B) + Cardinality(C) - Cardinality(B \intersect C)
  BY <1>4, <1>5, <1>6, FS_Union
<1>9. Cardinality(B \intersect C) = 0 /\ Cardinality(B) \in Nat
  BY <1>4, <1>7, FS_EmptySet, FS_CardinalityType
<1> QED
  BY <1>1, <1>2, <1>3, <1>5, <1>8, <1>9 DEF Adds

(* The bytes of blocks depend on nothing but where the blocks end.            *)
LEMMA BytesSame ==
    ASSUME NEW h, NEW r, NEW U, \A p \in U : r.mem[p].next = h.mem[p].next
    PROVE  Bytes(r, U) = Bytes(h, U)
BY DEF Bytes

-----------------------------------------------------------------------------
(* Joining, cutting and marking blocks.                                      *)

Joined(h, r, p, n, m) ==
    /\ r \in HeapType /\ r.used_mem = h.used_mem
    /\ r.lfree = IF h.lfree = n THEN p ELSE h.lfree
    /\ r.mem[n] = Stale
    /\ \A x \in Offset \ {n} :
           /\ r.mem[x].used = h.mem[x].used
           /\ r.mem[x].next = IF x = p THEN m ELSE h.mem[x].next
           /\ r.mem[x].prev = IF x = m THEN p ELSE h.mem[x].prev
    /\ \A x \in Offset \ {n, p, m} : r.mem[x] = h.mem[x]

LEMMA JoinFields ==
    ASSUME NEW h, h \in HeapType, NEW p, p \in Offset, NEW n, n \in Offset,
           NEW m, m = h.mem[n].next, p # n, n # m, p # m, NEW r, r = Join(h, p, n)
    PROVE  Joined(h, r, p, n, m)
<1>1. m \in Offset
  BY DEF HeapType
<1>2. Stale \in [used : BOOLEAN, next : Offset, prev : Offset]
  BY OffsetFacts DEF Stale
<1>3. PICK M : M = [h.mem EXCEPT ![p].next = m, ![m].prev = p, ![n] = Stale]
  OBVIOUS
<1>4. /\ M \in [Offset -> [used : BOOLEAN, next : Offset, prev : Offset]]
      /\ M[n] = Stale
      /\ M[p] = [h.mem[p] EXCEPT !.next = m]
      /\ M[m] = [h.mem[m] EXCEPT !.prev = p]
      /\ \A x \in Offset \ {n, p, m} : M[x] = h.mem[x]
  <2>1. h.mem \in [Offset -> [used : BOOLEAN, next : Offset, prev : Offset]]
    BY DEF HeapType
  <2>2. PICK A : A = [h.mem EXCEPT ![p].next = m]
    OBVIOUS
  <2>3. PICK B : B = [A EXCEPT ![m].prev = p]
    OBVIOUS
  <2>4. M = [B EXCEPT ![n] = Stale]
    BY <1>3, <2>2, <2>3
  <2>5. /\ A \in [Offset -> [used : BOOLEAN, next : Offset, prev : Offset]]
        /\ A[p] = [h.mem[p] EXCEPT !.next = m]
        /\ \A x \in Offset \ {p} : A[x] = h.mem[x]
    BY <1>1, <2>1, <2>2
  <2>6. /\ B \in [Offset -> [used : BOOLEAN, next : Offset, prev : Offset]]
        /\ B[m] = [A[m] EXCEPT !.prev = p]
        /\ \A x \in Offset \ {m} : B[x] = A[x]
    BY <1>1, <2>3, <2>5
  <2>7. /\ M \in [Offset -> [used : BOOLEAN, next : Offset, prev : Offset]]
        /\ M[n] = Stale
        /\ \A x \in Offset \ {n} : M[x] = B[x]
    BY <1>2, <2>4, <2>6
  <2> QED
    BY <1>1, <2>5, <2>6, <2>7
<1>5. /\ M[p].used = h.mem[p].used /\ M[p].next = m /\ M[p].prev = h.mem[p].prev
      /\ M[m].used = h.mem[m].used /\ M[m].next = h.mem[m].next /\ M[m].prev = p
  BY <1>1, <1>4 DEF HeapType
<1>6. r = [h EXCEPT !.mem = M, !.lfree = IF @ = n THEN p ELSE @]
  BY <1>3 DEF Join, HeapType
<1>7. /\ r.mem = M /\ r.used_mem = h.used_mem
      /\ r.lfree = IF h.lfree = n THEN p ELSE h.lfree
      /\ r \in HeapType
  BY <1>4, <1>6 DEF HeapType
<1> QED
  BY <1>1, <1>4, <1>5, <1>7 DEF Joined

CanJoin(h, H, p, n, m, r, J) ==
    /\ Laid(h, H) /\ Lowest(h, H) /\ p \in FreeOf(h, H) /\ n = h.mem[p].next
    /\ n \in FreeOf(h, H) /\ m = h.mem[n].next /\ r = Join(h, p, n) /\ J = H \ {n}

AfterJoin(h, H, p, n, m, r, J) ==
    /\ Laid(r, J) /\ Lowest(r, J)
    /\ FreeOf(r, J) = FreeOf(h, H) \ {n} /\ UsedOf(r, J) = UsedOf(h, H)
    /\ r.used_mem = h.used_mem
    /\ \A x \in J : r.mem[x].next = IF x = p THEN m ELSE h.mem[x].next

(* Two free neighbours become one free block.                                *)
LEMMA JoinEffect ==
    ASSUME NEW h, NEW H, NEW p, NEW n, NEW m, NEW r, NEW J, CanJoin(h, H, p, n, m, r, J)
    PROVE  AfterJoin(h, H, p, n, m, r, J)
<1> USE DEF CanJoin
<1>0. /\ h \in HeapType /\ H \subseteq Offset /\ H \subseteq Nat /\ heap_end \in H /\ 0 \in H
      /\ Offset \subseteq Nat
  BY OffsetFacts DEF Laid
<1>1. p \in H /\ p # heap_end /\ n \in H /\ n # heap_end /\ ~h.mem[p].used /\ ~h.mem[n].used
  BY DEF FreeOf
<1>2. /\ p < n /\ n < m /\ m \in H
      /\ \A q \in H : (q <= p \/ n <= q) /\ (q <= n \/ m <= q)
  BY <1>1, Leads
<1>3. p \in Nat /\ n \in Nat /\ m \in Nat /\ p # n /\ n # m /\ p # m /\ n # 0 /\ m # 0
  <2>1. p \in Nat /\ n \in Nat /\ m \in Nat
    BY <1>0, <1>1, <1>2
  <2> QED
    BY <1>2, <2>1
<1>4. Joined(h, r, p, n, m)
  BY <1>0, <1>1, <1>3, JoinFields
<1>5. /\ r \in HeapType /\ r.mem[n] = Stale /\ r.used_mem = h.used_mem
      /\ r.lfree = IF h.lfree = n THEN p ELSE h.lfree
      /\ \A x \in J : /\ r.mem[x].used = h.mem[x].used
                      /\ r.mem[x].next = IF x = p THEN m ELSE h.mem[x].next
                      /\ r.mem[x].prev = IF x = m THEN p ELSE h.mem[x].prev
      /\ \A x \in Offset \ H : r.mem[x] = h.mem[x]
  BY <1>0, <1>1, <1>2, <1>4 DEF Joined
<1>6. J \subseteq Offset /\ 0 \in J /\ heap_end \in J /\ m \in J /\ p \in J
  BY <1>0, <1>1, <1>2, <1>3
<1>7. ASSUME NEW x \in J \ {heap_end} PROVE Links(r, J, x)
  <2>1. CASE x = p
    <3>1. r.mem[x].next = m
      BY <1>5, <2>1
    <3>2. \A q \in J : q <= p \/ m <= q
      <4> SUFFICES ASSUME NEW q \in J PROVE q <= p \/ m <= q
        OBVIOUS
      <4>1. q \in Nat /\ q # n /\ (q <= p \/ n <= q) /\ (q <= n \/ m <= q)
        BY <1>0, <1>2
      <4> QED
        BY <1>3, <4>1
    <3>3. r.mem[m].prev = p
      BY <1>5, <1>6
    <3>4. m \in J /\ p < m
      BY ONLY <1>2, <1>3, <1>6
    <3> QED
      BY ONLY <2>1, <3>1, <3>2, <3>3, <3>4 DEF Links
  <2>2. CASE x # p
    <3>1. PICK y : y = h.mem[x].next
      OBVIOUS
    <3>2. /\ y \in H /\ x < y /\ (\A q \in H : q <= x \/ y <= q)
          /\ (y # heap_end => h.mem[y].prev = x)
      BY <3>1 DEF Laid, Links
    <3>3. h.mem[n].prev = p
      BY <1>1 DEF Laid, Links
    <3>4. y # n
      BY <1>1, <2>2, <3>2, <3>3
    <3>5. y = m => y = heap_end
      <4>1. m # heap_end => h.mem[m].prev = n
        BY <1>1 DEF Laid, Links
      <4>2. x # n
        OBVIOUS
      <4> QED
        BY <3>2, <4>1, <4>2
    <3>6. r.mem[x].next = y /\ y \in J /\ (y # heap_end => r.mem[y].prev = x)
      BY <1>5, <2>2, <3>1, <3>2, <3>4, <3>5
    <3> QED
      BY <3>2, <3>6 DEF Links
  <2> QED
    BY <2>1, <2>2
<1>8. /\ r.mem[0].prev = 0 /\ r.mem[heap_end].used /\ r.mem[heap_end].next = heap_end
  <2>1. h.mem[0].prev = 0 /\ h.mem[heap_end].used /\ h.mem[heap_end].next = heap_end
    BY DEF Laid
  <2> QED
    BY ONLY <1>1, <1>3, <1>5, <1>6, <2>1
<1>9. ASSUME NEW x \in Offset \ J PROVE r.mem[x] = Stale
  BY <1>5 DEF Laid
<1>10. Laid(r, J)
  BY <1>5, <1>6, <1>7, <1>8, <1>9 DEF Laid
<1>11. FreeOf(r, J) = FreeOf(h, H) \ {n} /\ UsedOf(r, J) = UsedOf(h, H)
  BY <1>1, <1>5 DEF FreeOf, UsedOf
<1>12. Lowest(r, J)
  <2>1. r.lfree \in FreeOf(r, J) \union {heap_end}
    BY <1>1, <1>3, <1>5, <1>11 DEF Lowest
  <2>2. ASSUME NEW x \in FreeOf(r, J) PROVE r.lfree <= x
    <3>1. x \in FreeOf(h, H) /\ x # n /\ h.lfree <= x /\ h.lfree <= p /\ x \in H
      BY <1>11 DEF Lowest, FreeOf
    <3>2. CASE h.lfree = n
      BY <1>2, <1>3, <3>1, <3>2
    <3>3. CASE h.lfree # n
      BY <1>5, <3>1, <3>3
    <3> QED
      BY <3>2, <3>3
  <2> QED
    BY <2>1, <2>2 DEF Lowest
<1> QED
  BY <1>5, <1>10, <1>11, <1>12 DEF AfterJoin


CutAt(h, r, p, c, n) ==
    /\ r \in HeapType /\ r.used_mem = h.used_mem /\ r.lfree = h.lfree
    /\ r.mem[c] = [used |-> FALSE, next |-> n, prev |-> p]
    /\ \A x \in Offset \ {c} :
           /\ r.mem[x].used = h.mem[x].used
           /\ r.mem[x].next = IF x = p THEN c ELSE h.mem[x].next
           /\ r.mem[x].prev = IF x = n /\ n # heap_end THEN c ELSE h.mem[x].prev
    /\ \A x \in Offset \ {c, p, n} : r.mem[x] = h.mem[x]

LEMMA SplitFields ==
    ASSUME NEW h, h \in HeapType, NEW p, p \in Offset, NEW n, n = h.mem[p].next,
           NEW size, NEW c, c = p + SIZEOF_STRUCT_MEM + size, c \in Offset,
           p # c, c # n, p # n, NEW r, r = Split(h, p, size)
    PROVE  CutAt(h, r, p, c, n)
<1>1. n \in Offset
  BY DEF HeapType
<1> DEFINE Memory == [Offset -> [used : BOOLEAN, next : Offset, prev : Offset]]
<1>2. h.mem \in Memory
  BY DEF HeapType
<1>3. PICK A : A = [h.mem EXCEPT ![c] = [used |-> FALSE, next |-> n, prev |-> p]]
  OBVIOUS
<1>4. PICK B : B = [A EXCEPT ![p].next = c]
  OBVIOUS
<1>5. PICK M : M = IF n # heap_end THEN [B EXCEPT ![n].prev = c] ELSE B
  OBVIOUS
<1>6. /\ A \in Memory /\ A[c] = [used |-> FALSE, next |-> n, prev |-> p]
      /\ \A x \in Offset \ {c} : A[x] = h.mem[x]
  BY <1>1, <1>2, <1>3
<1>7. /\ B \in Memory /\ B[p] = [A[p] EXCEPT !.next = c]
      /\ \A x \in Offset \ {p} : B[x] = A[x]
  BY <1>4, <1>6
<1>8. /\ M \in Memory
      /\ M[n] = IF n # heap_end THEN [B[n] EXCEPT !.prev = c] ELSE B[n]
      /\ \A x \in Offset \ {n} : M[x] = B[x]
  BY <1>1, <1>5, <1>7
<1>9. /\ M[c] = [used |-> FALSE, next |-> n, prev |-> p]
      /\ M[p] = [h.mem[p] EXCEPT !.next = c]
      /\ M[n] = IF n # heap_end THEN [h.mem[n] EXCEPT !.prev = c] ELSE h.mem[n]
      /\ \A x \in Offset \ {c, p, n} : M[x] = h.mem[x]
  BY <1>1, <1>6, <1>7, <1>8
<1>10. /\ M[p].used = h.mem[p].used /\ M[p].next = c /\ M[p].prev = h.mem[p].prev
       /\ M[n].used = h.mem[n].used /\ M[n].next = h.mem[n].next
       /\ M[n].prev = IF n # heap_end THEN c ELSE h.mem[n].prev
  BY <1>1, <1>2, <1>9
<1>11. r = [h EXCEPT !.mem = M]
  <2>1. CASE n # heap_end
    BY <1>3, <1>4, <1>5, <2>1 DEF Split, HeapType
  <2>2. CASE n = heap_end
    BY <1>3, <1>4, <1>5, <2>2 DEF Split, HeapType
  <2> QED
    BY <2>1, <2>2
<1>12. r \in HeapType /\ r.mem = M /\ r.used_mem = h.used_mem /\ r.lfree = h.lfree
  BY <1>8, <1>11 DEF HeapType
<1> QED
  BY <1>1, <1>9, <1>10, <1>12 DEF CutAt

CanCut(h, H, p, n, size, c, r, J) ==
    /\ Laid(h, H) /\ p \in H \ {heap_end} /\ n = h.mem[p].next
    /\ size \in Nat /\ c = p + SIZEOF_STRUCT_MEM + size /\ c \in Offset
    /\ c < n /\ r = Split(h, p, size) /\ J = H \union {c}

AfterCut(h, H, p, n, c, r, J) ==
    /\ Laid(r, J) /\ c \notin H /\ c # heap_end /\ p < c
    /\ r.used_mem = h.used_mem /\ r.lfree = h.lfree
    /\ ~r.mem[c].used /\ r.mem[c].next = n
    /\ \A x \in H : /\ r.mem[x].used = h.mem[x].used
                    /\ r.mem[x].next = IF x = p THEN c ELSE h.mem[x].next

(* The rest of a block that is cut is a free block of its own.                *)
LEMMA SplitEffect ==
    ASSUME NEW h, NEW H, NEW p, NEW n, NEW size, NEW c, NEW r, NEW J,
           CanCut(h, H, p, n, size, c, r, J)
    PROVE  AfterCut(h, H, p, n, c, r, J)
<1> USE DEF CanCut
<1>0. /\ h \in HeapType /\ H \subseteq Offset /\ H \subseteq Nat /\ heap_end \in H /\ 0 \in H
      /\ Offset \subseteq Nat
  BY OffsetFacts DEF Laid
<1>1. p \in H /\ p # heap_end /\ p \in Offset
  BY <1>0
<1>2. n \in H /\ p < n /\ (\A q \in H : q <= p \/ n <= q) /\ n <= heap_end
  BY <1>1, Leads
<1>3. p \in Nat /\ c \in Nat /\ n \in Nat /\ heap_end \in Nat
  BY <1>0, <1>1, <1>2, OffsetFacts
<1>4. p < c /\ c # heap_end
  BY <1>2, <1>3, HeapSizes
<1>5. c \notin H /\ p # c /\ c # n /\ p # n /\ c # 0 /\ n # 0
  BY <1>2, <1>3, <1>4
<1>6. CutAt(h, r, p, c, n)
  BY <1>0, <1>1, <1>5, SplitFields
<1>7. /\ r \in HeapType /\ r.used_mem = h.used_mem /\ r.lfree = h.lfree
      /\ ~r.mem[c].used /\ r.mem[c].next = n /\ r.mem[c].prev = p
      /\ \A x \in H : /\ r.mem[x].used = h.mem[x].used
                      /\ r.mem[x].next = IF x = p THEN c ELSE h.mem[x].next
                      /\ r.mem[x].prev = IF x = n /\ n # heap_end THEN c ELSE h.mem[x].prev
      /\ \A x \in Offset \ J : r.mem[x] = h.mem[x]
  BY <1>0, <1>1, <1>2, <1>5, <1>6 DEF CutAt
<1>8. J \subseteq Offset /\ 0 \in J /\ heap_end \in J /\ n \in J /\ p \in J /\ c \in J
  BY <1>0, <1>1, <1>2
<1>9. ASSUME NEW x \in J \ {heap_end} PROVE Links(r, J, x)
  <2>1. CASE x = p
    <3>1. r.mem[x].next = c /\ r.mem[c].prev = p
      BY <1>1, <1>7, <2>1
    <3>2. \A q \in J : q <= p \/ c <= q
      <4> SUFFICES ASSUME NEW q \in H PROVE q <= p \/ c <= q
        BY <1>3
      <4>1. q \in Nat /\ (q <= p \/ n <= q)
        BY <1>0, <1>2
      <4> QED
        BY <1>3, <4>1
    <3> QED
      BY <1>4, <1>8, <2>1, <3>1, <3>2 DEF Links
  <2>2. CASE x = c
    <3>1. r.mem[x].next = n /\ (n # heap_end => r.mem[n].prev = c)
      BY <1>2, <1>7, <2>2
    <3>2. \A q \in J : q <= c \/ n <= q
      <4> SUFFICES ASSUME NEW q \in H PROVE q <= c \/ n <= q
        BY <1>3
      <4>1. q \in Nat /\ (q <= p \/ n <= q)
        BY <1>0, <1>2
      <4> QED
        BY <1>3, <1>4, <4>1
    <3> QED
      BY <1>8, <2>2, <3>1, <3>2 DEF Links
  <2>3. CASE x # p /\ x # c
    <3>1. PICK y : y = h.mem[x].next
      OBVIOUS
    <3>2. x \in H /\ x # heap_end
      BY <2>3
    <3>3. /\ y \in H /\ x < y /\ (\A q \in H : q <= x \/ y <= q)
          /\ (y # heap_end => h.mem[y].prev = x)
      BY <3>1, <3>2 DEF Laid, Links
    <3>4. y = n => y = heap_end
      <4>1. n # heap_end => h.mem[n].prev = p
        BY <1>1 DEF Laid, Links
      <4> QED
        BY <2>3, <3>3, <4>1
    <3>5. r.mem[x].next = y /\ y \in J /\ (y # heap_end => r.mem[y].prev = x)
      BY <1>7, <2>3, <3>1, <3>2, <3>3, <3>4
    <3>6. c <= x \/ y <= c
      <4>1. x \in Nat /\ y \in Nat
        BY <1>0, <3>2, <3>3
      <4>2. (x <= p \/ n <= x) /\ (p <= x \/ y <= p)
        BY <1>1, <1>2, <3>2, <3>3
      <4>3. CASE y <= p
        BY <1>3, <1>4, <4>1, <4>3
      <4>4. CASE n <= x
        BY <1>3, <1>4, <4>1, <4>4
      <4> QED
        BY <1>3, <2>3, <4>1, <4>2, <4>3, <4>4
    <3>7. \A q \in J : q <= x \/ y <= q
      BY <3>3, <3>6
    <3> QED
      BY <3>3, <3>5, <3>7 DEF Links
  <2> QED
    BY <2>1, <2>2, <2>3
<1>10. /\ r.mem[0].prev = 0 /\ r.mem[heap_end].used /\ r.mem[heap_end].next = heap_end
  BY <1>0, <1>1, <1>5, <1>7 DEF Laid
<1>11. ASSUME NEW x \in Offset \ J PROVE r.mem[x] = Stale
  BY <1>7 DEF Laid
<1>12. Laid(r, J)
  BY <1>7, <1>8, <1>9, <1>10, <1>11 DEF Laid
<1> QED
  BY <1>4, <1>5, <1>7, <1>12 DEF AfterCut

Marked(h, r, p, b) == r \in HeapType /\ r.mem = [h.mem EXCEPT ![p].used = b]

AfterMark(h, H, r, p, b) ==
    /\ Laid(r, H)
    /\ \A x \in Offset : r.mem[x].next = h.mem[x].next
    /\ \A x \in H \ {p} : r.mem[x].used = h.mem[x].used
    /\ r.mem[p].used = b

(* A block is marked as used or free.                                        *)
LEMMA MarkEffect ==
    ASSUME NEW h, NEW H, Laid(h, H), NEW p, p \in H \ {heap_end}, NEW b, b \in BOOLEAN,
           NEW r, Marked(h, r, p, b)
    PROVE  AfterMark(h, H, r, p, b)
<1> USE DEF Marked
<1>0. h \in HeapType /\ H \subseteq Offset /\ heap_end \in H /\ 0 \in H /\ p \in Offset
  BY OffsetFacts DEF Laid
<1>1. /\ r.mem[p] = [h.mem[p] EXCEPT !.used = b]
      /\ \A x \in Offset \ {p} : r.mem[x] = h.mem[x]
  BY <1>0 DEF HeapType
<1>2. r.mem[p].used = b /\ r.mem[p].next = h.mem[p].next /\ r.mem[p].prev = h.mem[p].prev
  BY <1>0, <1>1 DEF HeapType
<1>3. \A x \in Offset : r.mem[x].next = h.mem[x].next /\ r.mem[x].prev = h.mem[x].prev
  BY <1>1, <1>2
<1>4. ASSUME NEW x \in H \ {heap_end} PROVE Links(r, H, x)
  <2>1. Links(h, H, x) /\ x \in Offset /\ h.mem[x].next \in Offset
    BY <1>0 DEF Laid, HeapType
  <2> QED
    BY <1>3, <2>1 DEF Links
<1>5. \A x \in H \ {p} : r.mem[x].used = h.mem[x].used
  BY <1>0, <1>1
<1>6. Laid(r, H)
  <2>1. r.mem[0].prev = 0 /\ r.mem[heap_end].used /\ r.mem[heap_end].next = heap_end
    BY <1>0, <1>3, <1>5 DEF Laid
  <2>2. \A x \in Offset \ H : r.mem[x] = Stale
    BY <1>0, <1>1 DEF Laid
  <2> QED
    BY <1>0, <1>4, <2>1, <2>2 DEF Laid
<1> QED
  BY <1>2, <1>3, <1>5, <1>6 DEF AfterMark

-----------------------------------------------------------------------------
(* plug_holes                                                                *)

(* Every header but the first has one before it, to which it leads back.      *)
LEMMA Before ==
    ASSUME NEW h, NEW H, Laid(h, H), NEW p, p \in H, p # 0, p # heap_end,
           NEW q, q = h.mem[p].prev
    PROVE  q \in H /\ q # heap_end /\ q # p /\ h.mem[q].next = p
<1>0. H \subseteq Offset /\ H \subseteq Nat /\ 0 \in H /\ \A x \in H : x <= heap_end
  BY OffsetFacts DEF Laid
<1>1. \E x \in H \ {heap_end} : h.mem[x].next = p
  <2> SUFFICES ASSUME \A x \in H \ {heap_end} : h.mem[x].next # p PROVE FALSE
    OBVIOUS
  <2> DEFINE G == {x \in H : p <= x}
  <2>1. ASSUME NEW x \in H, \A y \in H : x < y => y \in G PROVE x \in G
    <3>1. CASE x = heap_end
      BY <1>0, <3>1
    <3>2. CASE x # heap_end
      <4>1. PICK n : n = h.mem[x].next
        OBVIOUS
      <4>2. n \in H /\ x < n /\ (p <= x \/ n <= p)
        BY <3>2, <4>1, Leads
      <4>3. n # p /\ p <= n
        BY <2>1, <3>2, <4>1, <4>2
      <4>4. p <= x
        BY <1>0, <4>2, <4>3
      <4> QED
        BY <4>4
    <3> QED
      BY <3>1, <3>2
  <2>2. H \subseteq G
    <3> HIDE DEF G
    <3> QED
      BY <1>0, <2>1, CountDown
  <2>3. p <= 0
    BY <1>0, <2>2
  <2> QED
    BY <1>0, <2>3
<1>2. PICK x \in H \ {heap_end} : h.mem[x].next = p
  BY <1>1
<1>3. h.mem[p].prev = x /\ x < p
  BY <1>2 DEF Laid, Links
<1> QED
  BY <1>0, <1>2, <1>3

Coal(h, H) == \A x \in FreeOf(h, H) : h.mem[x].next \notin FreeOf(h, H)

\* Nothing that is used has changed.
SameUsed(h, H, r, J) ==
    /\ UsedOf(r, J) = UsedOf(h, H) /\ r.used_mem = h.used_mem
    /\ \A x \in UsedOf(h, H) : r.mem[x].next = h.mem[x].next

(* The freed block at p takes in a free block after it.                       *)
LEMMA ForwardEffect ==
    ASSUME NEW h, NEW H, Laid(h, H), Lowest(h, H), NEW p, p \in FreeOf(h, H),
           \A x \in FreeOf(h, H) :
               h.mem[x].next \in FreeOf(h, H) => x = p \/ h.mem[x].next = p,
           NEW r, r = PlugForward(h, p)
    PROVE  \E J : /\ Laid(r, J) /\ Lowest(r, J) /\ p \in FreeOf(r, J) /\ SameUsed(h, H, r, J)
                  /\ \A x \in FreeOf(r, J) :
                         r.mem[x].next \in FreeOf(r, J) => r.mem[x].next = p
<1>1. PICK n : n = h.mem[p].next
  OBVIOUS
<1>2. p \in H /\ p # heap_end
  BY DEF FreeOf
<1>3. n \in H /\ p < n /\ p \in Nat /\ n \in Nat
  BY <1>1, <1>2, Leads
<1>4. CASE n \in FreeOf(h, H)
  <2>1. n # heap_end /\ ~h.mem[n].used /\ p # n
    BY <1>3, <1>4 DEF FreeOf
  <2>2. r = Join(h, p, n)
    BY <1>1, <2>1 DEF PlugForward
  <2>3. PICK m, J : m = h.mem[n].next /\ J = H \ {n}
    OBVIOUS
  <2>4. n < m /\ m \in Nat
    BY <1>3, <2>1, <2>3, Leads
  <2>5. CanJoin(h, H, p, n, m, r, J)
    BY <1>1, <1>4, <2>2, <2>3 DEF CanJoin
  <2>6. /\ Laid(r, J) /\ Lowest(r, J)
        /\ FreeOf(r, J) = FreeOf(h, H) \ {n} /\ UsedOf(r, J) = UsedOf(h, H)
        /\ r.used_mem = h.used_mem
        /\ \A x \in J : r.mem[x].next = IF x = p THEN m ELSE h.mem[x].next
    BY <2>5, JoinEffect DEF AfterJoin
  <2>7. p \in FreeOf(r, J)
    BY <2>1, <2>6
  <2>8. SameUsed(h, H, r, J)
    <3>1. \A x \in UsedOf(h, H) : x \in J /\ x # p
      BY <1>4, <2>3 DEF UsedOf, FreeOf
    <3> QED
      BY <2>6, <3>1 DEF SameUsed
  <2>9. ASSUME NEW x \in FreeOf(r, J), r.mem[x].next \in FreeOf(r, J)
        PROVE  r.mem[x].next = p
    <3>1. x \in FreeOf(h, H) /\ x \in J
      BY <2>6 DEF FreeOf
    <3>2. CASE x = p
      <4>1. m \in FreeOf(h, H)
        BY <2>6, <2>9, <3>1, <3>2
      <4>2. n = p \/ m = p
        BY <1>4, <2>3, <4>1
      <4> QED
        BY <1>3, <2>4, <4>2
    <3>3. CASE x # p
      BY <2>6, <2>9, <3>1, <3>3
    <3> QED
      BY <3>2, <3>3
  <2> QED
    BY <2>6, <2>7, <2>8, <2>9
<1>5. CASE n \notin FreeOf(h, H)
  <2>1. n = heap_end \/ h.mem[n].used
    BY <1>3, <1>5 DEF FreeOf
  <2>2. r = h
    BY <1>1, <2>1 DEF PlugForward
  <2>3. SameUsed(h, H, r, H)
    BY <2>2 DEF SameUsed
  <2>4. ASSUME NEW x \in FreeOf(h, H), h.mem[x].next \in FreeOf(h, H)
        PROVE  h.mem[x].next = p
    BY <1>1, <1>5, <2>4
  <2> QED
    BY <2>2, <2>3, <2>4
<1> QED
  BY <1>4, <1>5

(* The free block before the one at p takes it in.                           *)
LEMMA BackwardEffect ==
    ASSUME NEW h, NEW H, Laid(h, H), Lowest(h, H), NEW p, p \in FreeOf(h, H),
           \A x \in FreeOf(h, H) : h.mem[x].next \in FreeOf(h, H) => h.mem[x].next = p,
           NEW r, r = PlugBackward(h, p)
    PROVE  \E J : Laid(r, J) /\ Lowest(r, J) /\ Coal(r, J) /\ SameUsed(h, H, r, J)
<1>1. PICK q : q = h.mem[p].prev
  OBVIOUS
<1>2. p \in H /\ p # heap_end /\ ~h.mem[p].used
  BY DEF FreeOf
<1>3. PICK m : m = h.mem[p].next
  OBVIOUS
<1>4. m \in H /\ p < m /\ p \in Nat /\ m \in Nat
  BY <1>2, <1>3, Leads
<1>5. CASE q # p /\ ~h.mem[q].used
  <2>1. p # 0
    BY <1>1, <1>5 DEF Laid
  <2>2. q \in H /\ q # heap_end /\ h.mem[q].next = p
    BY <1>1, <1>2, <2>1, Before
  <2>3. q \in FreeOf(h, H)
    BY <1>5, <2>2 DEF FreeOf
  <2>4. PICK J : J = H \ {p}
    OBVIOUS
  <2>5. r = Join(h, q, p)
    BY <1>1, <1>5 DEF PlugBackward
  <2>6. CanJoin(h, H, q, p, m, r, J)
    BY <1>3, <2>2, <2>3, <2>4, <2>5 DEF CanJoin
  <2>7. /\ Laid(r, J) /\ Lowest(r, J)
        /\ FreeOf(r, J) = FreeOf(h, H) \ {p} /\ UsedOf(r, J) = UsedOf(h, H)
        /\ r.used_mem = h.used_mem
        /\ \A x \in J : r.mem[x].next = IF x = q THEN m ELSE h.mem[x].next
    BY <2>6, JoinEffect DEF AfterJoin
  <2>8. SameUsed(h, H, r, J)
    <3>1. \A x \in UsedOf(h, H) : x \in J /\ x # q
      BY <1>2, <1>5, <2>4 DEF UsedOf
    <3> QED
      BY <2>7, <3>1 DEF SameUsed
  <2>9. ASSUME NEW x \in FreeOf(r, J), r.mem[x].next \in FreeOf(r, J) PROVE FALSE
    <3>1. x \in FreeOf(h, H) /\ x \in J
      BY <2>7 DEF FreeOf
    <3>2. CASE x = q
      <4>1. m \in FreeOf(h, H)
        BY <2>7, <2>9, <3>1, <3>2
      <4>2. m = p
        BY <1>3, <4>1
      <4> QED
        BY <1>4, <4>2
    <3>3. CASE x # q
      <4>1. h.mem[x].next \in FreeOf(h, H) \ {p}
        BY <2>7, <2>9, <3>1, <3>3
      <4> QED
        BY <3>1, <4>1
    <3> QED
      BY <3>2, <3>3
  <2>10. Coal(r, J)
    BY <2>9 DEF Coal
  <2> QED
    BY <2>7, <2>8, <2>10
<1>6. CASE ~(q # p /\ ~h.mem[q].used)
  <2>1. r = h
    BY <1>1, <1>6 DEF PlugBackward
  <2>2. SameUsed(h, H, r, H)
    BY <2>1 DEF SameUsed
  <2>3. ASSUME NEW x \in FreeOf(h, H), h.mem[x].next \in FreeOf(h, H) PROVE FALSE
    <3>1. h.mem[x].next = p /\ x \in H \ {heap_end} /\ ~h.mem[x].used
      BY <2>3 DEF FreeOf
    <3>2. h.mem[p].prev = x /\ x < p
      BY <1>2, <3>1 DEF Laid, Links
    <3>3. x \in Nat
      BY <3>1, OffsetFacts DEF Laid
    <3> QED
      BY <1>1, <1>4, <1>6, <3>1, <3>2, <3>3
  <2> QED
    BY <2>1, <2>2, <2>3 DEF Coal
<1> QED
  BY <1>5, <1>6

LEMMA PlugEffect ==
    ASSUME NEW h, NEW H, Laid(h, H), Lowest(h, H), NEW p, p \in FreeOf(h, H),
           \A x \in FreeOf(h, H) :
               h.mem[x].next \in FreeOf(h, H) => x = p \/ h.mem[x].next = p,
           NEW r, r = plug_holes(h, p)
    PROVE  \E J : Laid(r, J) /\ Lowest(r, J) /\ Coal(r, J) /\ SameUsed(h, H, r, J)
<1>1. PICK f : f = PlugForward(h, p)
  OBVIOUS
<1>2. r = PlugBackward(f, p)
  BY <1>1 DEF plug_holes
<1>3. PICK F : /\ Laid(f, F) /\ Lowest(f, F) /\ p \in FreeOf(f, F) /\ SameUsed(h, H, f, F)
               /\ \A x \in FreeOf(f, F) :
                      f.mem[x].next \in FreeOf(f, F) => f.mem[x].next = p
  BY <1>1, ForwardEffect
<1>4. PICK J : Laid(r, J) /\ Lowest(r, J) /\ Coal(r, J) /\ SameUsed(f, F, r, J)
  BY <1>2, <1>3, BackwardEffect
<1>5. SameUsed(h, H, r, J)
  BY <1>3, <1>4 DEF SameUsed
<1> QED
  BY <1>4, <1>5

-----------------------------------------------------------------------------
(* What rt_malloc, rt_free and rt_realloc do to the chain.                   *)

\* The chain with everything that is said of it.
Sound(h, H) ==
    /\ Laid(h, H) /\ Lowest(h, H) /\ Coal(h, H)
    /\ h.used_mem = Cardinality(Bytes(h, UsedOf(h, H)))

SameEnds(h, r, U) == \A x \in U : r.mem[x].next = h.mem[x].next

LEMMA LaidSame ==
    ASSUME NEW h, NEW H, Laid(h, H), NEW r, r \in HeapType, r.mem = h.mem
    PROVE  Laid(r, H) /\ FreeOf(r, H) = FreeOf(h, H) /\ UsedOf(r, H) = UsedOf(h, H)
BY DEF Laid, Links, FreeOf, UsedOf

(* A free block with room for the request, before it is marked.               *)
Fits(h, H, p, size) ==
    /\ Sound(h, H) /\ p \in FreeOf(h, H) /\ size \in Nat /\ size % RT_ALIGN_SIZE = 0
    /\ Room(h, p) >= size

Fitted(h, H, p, size, s, J) ==
    /\ Laid(s, J) /\ p \in FreeOf(s, J) /\ FreeOf(h, H) \subseteq FreeOf(s, J)
    /\ s.used_mem = h.used_mem /\ s.lfree = h.lfree
    /\ UsedOf(s, J) = UsedOf(h, H) /\ SameEnds(h, s, UsedOf(h, H))
    /\ \A x \in FreeOf(s, J) : s.lfree <= x
    /\ \A x \in FreeOf(s, J) \ {p} : s.mem[x].next \notin FreeOf(s, J) \ {p}
    /\ Room(s, p) >= size

LEMMA FitEffect ==
    ASSUME NEW h, NEW H, NEW p, NEW size, Fits(h, H, p, size), NEW s,
           s = IF Room(h, p) >= size + SIZEOF_STRUCT_MEM + MIN_SIZE_ALIGNED
               THEN Split(h, p, size) ELSE h
    PROVE  \E J : Fitted(h, H, p, size, s, J)
<1>0. Laid(h, H) /\ Lowest(h, H) /\ Coal(h, H) /\ size \in Nat /\ size % RT_ALIGN_SIZE = 0
  BY DEF Fits, Sound
<1>1. p \in FreeOf(h, H) /\ p \in H /\ p # heap_end /\ ~h.mem[p].used /\ Room(h, p) >= size
  BY DEF Fits, FreeOf
<1>2. PICK n : n = h.mem[p].next
  OBVIOUS
<1>3. n \in H /\ p < n /\ p \in Nat /\ n \in Nat /\ n <= heap_end /\ p \in Offset
  BY <1>0, <1>1, <1>2, Leads, OffsetFacts DEF Laid
<1>4. \A x \in FreeOf(h, H) : h.lfree <= x
  BY <1>0 DEF Lowest
<1>5. CASE ~(Room(h, p) >= size + SIZEOF_STRUCT_MEM + MIN_SIZE_ALIGNED)
  <2>1. s = h
    BY <1>5
  <2>2. SameEnds(h, s, UsedOf(h, H))
    BY <2>1 DEF SameEnds
  <2>3. \A x \in FreeOf(h, H) \ {p} : h.mem[x].next \notin FreeOf(h, H) \ {p}
    BY <1>0 DEF Coal
  <2> QED
    BY <1>0, <1>1, <1>4, <2>1, <2>2, <2>3 DEF Fitted
<1>6. CASE Room(h, p) >= size + SIZEOF_STRUCT_MEM + MIN_SIZE_ALIGNED
  <2>1. PICK c : c = p + SIZEOF_STRUCT_MEM + size
    OBVIOUS
  <2>2. c < n /\ c <= heap_end /\ c \in Nat
    BY <1>0, <1>2, <1>3, <1>6, <2>1, HeapSizes DEF Room
  <2>3. c \in Offset
    BY <1>0, <1>3, <2>1, <2>2, OffsetSum
  <2>4. PICK J : J = H \union {c}
    OBVIOUS
  <2>5. s = Split(h, p, size)
    BY <1>6
  <2>0. CanCut(h, H, p, n, size, c, s, J)
    BY <1>0, <1>1, <1>2, <2>1, <2>2, <2>3, <2>4, <2>5 DEF CanCut
  <2>6. /\ Laid(s, J) /\ c \notin H /\ c # heap_end /\ p < c
        /\ s.used_mem = h.used_mem /\ s.lfree = h.lfree
        /\ ~s.mem[c].used /\ s.mem[c].next = n
        /\ \A x \in H : /\ s.mem[x].used = h.mem[x].used
                        /\ s.mem[x].next = IF x = p THEN c ELSE h.mem[x].next
    BY <2>0, SplitEffect DEF AfterCut
  <2>7. FreeOf(s, J) = FreeOf(h, H) \union {c} /\ UsedOf(s, J) = UsedOf(h, H)
    BY <2>4, <2>6 DEF FreeOf, UsedOf
  <2>8. SameEnds(h, s, UsedOf(h, H))
    BY <1>1, <2>6 DEF SameEnds, UsedOf
  <2>9. ASSUME NEW x \in FreeOf(s, J) PROVE s.lfree <= x
    <3>1. h.lfree <= p /\ h.lfree \in Nat
      BY <1>0, <1>1, <1>4, OffsetFacts DEF Laid, HeapType
    <3>2. CASE x = c
      BY <1>3, <2>2, <2>6, <3>1, <3>2
    <3>3. CASE x # c
      BY <1>4, <2>6, <2>7, <3>3
    <3> QED
      BY <3>2, <3>3
  <2>10. ASSUME NEW x \in FreeOf(s, J) \ {p} PROVE s.mem[x].next \notin FreeOf(s, J) \ {p}
    <3>1. n \notin FreeOf(h, H)
      BY <1>0, <1>1, <1>2 DEF Coal
    <3>2. CASE x = c
      BY <2>2, <2>6, <2>7, <3>1, <3>2
    <3>3. CASE x # c
      <4>1. x \in FreeOf(h, H) /\ x \in H /\ x # heap_end
        BY <2>7, <3>3 DEF FreeOf
      <4>2. s.mem[x].next = h.mem[x].next
        BY <2>6, <4>1
      <4>3. h.mem[x].next \in H
        BY <1>0, <4>1, Leads
      <4>4. h.mem[x].next \notin FreeOf(h, H)
        BY <1>0, <4>1 DEF Coal
      <4> QED
        BY <2>6, <2>7, <4>2, <4>3, <4>4
    <3> QED
      BY <3>2, <3>3
  <2>11. Room(s, p) >= size
    <3>1. s.mem[p].next = c
      BY <1>1, <2>6
    <3> QED
      BY <1>0, <1>3, <2>1, <3>1, HeapSizes DEF Room
  <2> QED
    BY <1>1, <2>6, <2>7, <2>8, <2>9, <2>10, <2>11 DEF Fitted
<1> QED
  BY <1>5, <1>6

GivenAway(h, H, p, size, r, J) ==
    /\ Sound(r, J) /\ UsedOf(r, J) = UsedOf(h, H) \union {p}
    /\ SameEnds(h, r, UsedOf(h, H)) /\ Room(r, p) >= size

(* The block that is given away is used from then on; the others stay.        *)
LEMMA GrantEffect ==
    ASSUME NEW h, NEW H, NEW p, NEW size, Fits(h, H, p, size), NEW r, r = Grant(h, p, size)
    PROVE  \E J : GivenAway(h, H, p, size, r, J)
<1>1. PICK s : s = IF Room(h, p) >= size + SIZEOF_STRUCT_MEM + MIN_SIZE_ALIGNED
                   THEN Split(h, p, size) ELSE h
  OBVIOUS
<1>2. PICK J : Fitted(h, H, p, size, s, J)
  BY <1>1, FitEffect
<1>3. PICK u : u = [s EXCEPT !.mem[p].used = TRUE, !.used_mem = @ + s.mem[p].next - p]
  OBVIOUS
<1>4. r = IF p = h.lfree THEN NextFree(u) ELSE u
  BY <1>1, <1>3 DEF Grant
<1>5. /\ Laid(s, J) /\ p \in J /\ p # heap_end /\ s \in HeapType /\ ~s.mem[p].used
      /\ p \in Offset /\ s.mem[p].next \in Offset /\ Offset \subseteq Nat
  BY <1>2, OffsetFacts DEF Fitted, FreeOf, Laid, HeapType
<1>6. /\ Marked(s, u, p, TRUE) /\ u.lfree = s.lfree
      /\ u.used_mem = s.used_mem + s.mem[p].next - p
  <2>1. PICK e : e = s.used_mem + s.mem[p].next - p
    OBVIOUS
  <2>2. s.used_mem \in Int /\ s.mem[p].next \in Nat /\ p \in Nat
    BY <1>5 DEF HeapType
  <2>3. e \in Int
    BY <2>1, <2>2
  <2>4. PICK M : M = [s.mem EXCEPT ![p].used = TRUE]
    OBVIOUS
  <2>5. M \in [Offset -> [used : BOOLEAN, next : Offset, prev : Offset]]
    <3>1. s.mem \in [Offset -> [used : BOOLEAN, next : Offset, prev : Offset]]
      BY <1>5 DEF HeapType
    <3>2. PICK b \in BOOLEAN : b = TRUE
      OBVIOUS
    <3>3. M = [s.mem EXCEPT ![p].used = b]
      BY <2>4, <3>2
    <3>4. p \in Offset
      BY <1>5
    <3> QED
      BY ONLY <3>1, <3>3, <3>4, b \in BOOLEAN
  <2>6. u = [s EXCEPT !.mem = M, !.used_mem = e]
    BY <1>3, <1>5, <2>1, <2>4 DEF HeapType
  <2>7. u \in HeapType /\ u.mem = M /\ u.lfree = s.lfree /\ u.used_mem = e
    BY <1>5, <2>3, <2>5, <2>6 DEF HeapType
  <2> QED
    BY <2>1, <2>4, <2>7 DEF Marked
<1>7. /\ Laid(u, J)
      /\ \A x \in Offset : u.mem[x].next = s.mem[x].next
      /\ \A x \in J \ {p} : u.mem[x].used = s.mem[x].used
      /\ u.mem[p].used = TRUE
  <2>1. AfterMark(s, J, u, p, TRUE)
    BY <1>5, <1>6, MarkEffect
  <2> QED
    BY <2>1 DEF AfterMark
<1>8. FreeOf(u, J) = FreeOf(s, J) \ {p} /\ UsedOf(u, J) = UsedOf(s, J) \union {p}
  BY <1>5, <1>7 DEF FreeOf, UsedOf
<1>9. /\ UsedOf(u, J) = UsedOf(h, H) \union {p} /\ UsedOf(h, H) \subseteq J \ {heap_end}
      /\ p \notin UsedOf(h, H) /\ UsedOf(h, H) \subseteq Offset
  BY <1>2, <1>5, <1>8 DEF Fitted, UsedOf, Laid
<1>10. SameEnds(h, u, UsedOf(h, H))
  BY <1>2, <1>7, <1>9 DEF Fitted, SameEnds
<1>11. u.used_mem = Cardinality(Bytes(u, UsedOf(u, J)))
  <2>1. Bytes(u, UsedOf(h, H)) = Bytes(h, UsedOf(h, H))
    BY <1>10, BytesSame DEF SameEnds
  <2>2. Adds(u, UsedOf(h, H), p)
    BY <1>5, <1>7, <1>9, BlockAdds
  <2>3. s.used_mem = Cardinality(Bytes(h, UsedOf(h, H)))
    BY <1>2 DEF Fitted, Fits, Sound
  <2>4. u.mem[p].next = s.mem[p].next /\ s.mem[p].next \in Nat /\ p \in Nat
    BY <1>5, <1>7
  <2> QED
    BY <1>6, <1>9, <2>1, <2>2, <2>3, <2>4 DEF Adds
<1>12. Coal(u, J)
  <2>1. ASSUME NEW x \in FreeOf(u, J) PROVE u.mem[x].next \notin FreeOf(u, J)
    <3>1. x \in FreeOf(s, J) \ {p} /\ x \in Offset
      BY <1>5, <1>8 DEF FreeOf, Laid
    <3> QED
      BY <1>2, <1>7, <1>8, <3>1 DEF Fitted
  <2> QED
    BY <2>1 DEF Coal
<1>13. Room(u, p) >= size
  BY <1>2, <1>5, <1>7 DEF Fitted, Room
<1>14. /\ u.lfree = h.lfree /\ u.lfree \in FreeOf(s, J)
       /\ \A x \in FreeOf(u, J) : u.lfree <= x
  <2>1. u.lfree = h.lfree /\ \A x \in FreeOf(u, J) : u.lfree <= x
    BY <1>2, <1>6, <1>8 DEF Fitted
  <2>2. h.lfree <= p /\ h.lfree \in FreeOf(h, H) \union {heap_end} /\ p < heap_end
    <3>1. p <= heap_end /\ p \in Nat /\ heap_end \in Nat
      BY <1>5, OffsetFacts
    <3> QED
      BY <1>5, <3>1 DEF Fits, Sound, Lowest
  <2>3. h.lfree # heap_end
    BY <1>5, <2>2, OffsetFacts
  <2> QED
    BY <1>2, <2>1, <2>2, <2>3 DEF Fitted
<1>15. CASE p = h.lfree
  <2>1. r = NextFree(u) /\ u.lfree \in J
    BY <1>4, <1>5, <1>14, <1>15
  <2>2. r \in HeapType /\ r.mem = u.mem /\ r.used_mem = u.used_mem /\ Lowest(r, J)
    BY <1>7, <1>14, <2>1, NextFreeEffect
  <2>3. Laid(r, J) /\ FreeOf(r, J) = FreeOf(u, J) /\ UsedOf(r, J) = UsedOf(u, J)
    BY <1>7, <2>2, LaidSame
  <2>4. Coal(r, J) /\ SameEnds(h, r, UsedOf(h, H)) /\ Room(r, p) >= size
    BY <1>10, <1>12, <1>13, <2>2, <2>3 DEF Coal, SameEnds, Room
  <2>5. Bytes(r, UsedOf(u, J)) = Bytes(u, UsedOf(u, J))
    BY <2>2, BytesSame
  <2> QED
    BY <1>9, <1>11, <2>2, <2>3, <2>4, <2>5 DEF GivenAway, Sound
<1>16. CASE p # h.lfree
  <2>1. r = u
    BY <1>4, <1>16
  <2>2. Lowest(u, J)
    BY <1>8, <1>14, <1>16 DEF Lowest
  <2> QED
    BY <1>7, <1>9, <1>10, <1>11, <1>12, <1>13, <2>1, <2>2 DEF GivenAway, Sound
<1> QED
  BY <1>15, <1>16

Released(h, H, p, r, J) ==
    /\ Sound(r, J) /\ UsedOf(r, J) = UsedOf(h, H) \ {p}
    /\ SameEnds(h, r, UsedOf(h, H) \ {p})

(* A freed block is free, alone or within its neighbours; the others stay.     *)
LEMMA ReleaseEffect ==
    ASSUME NEW h, NEW H, Sound(h, H), NEW p, p \in UsedOf(h, H), NEW r, r = Release(h, p)
    PROVE  \E J : Released(h, H, p, r, J)
<1>1. PICK U : U = UsedOf(h, H) \ {p}
  OBVIOUS
<1>2. PICK u : u = [h EXCEPT !.mem[p].used = FALSE,
                             !.lfree = IF p < @ THEN p ELSE @,
                             !.used_mem = @ - (h.mem[p].next - p)]
  OBVIOUS
<1>3. r = plug_holes(u, p)
  BY <1>2 DEF Release
<1>4. /\ Laid(h, H) /\ Lowest(h, H) /\ Coal(h, H)
      /\ h.used_mem = Cardinality(Bytes(h, UsedOf(h, H)))
  BY DEF Sound
<1>5. /\ p \in H /\ p # heap_end /\ h \in HeapType /\ h.mem[p].used
      /\ p \in Offset /\ h.mem[p].next \in Offset /\ Offset \subseteq Nat /\ H \subseteq Offset
  BY <1>4, OffsetFacts DEF UsedOf, Laid, HeapType
<1>6. /\ Marked(h, u, p, FALSE) /\ u.lfree = IF p < h.lfree THEN p ELSE h.lfree
      /\ u.used_mem = h.used_mem - (h.mem[p].next - p)
  <2>1. PICK e : e = h.used_mem - (h.mem[p].next - p)
    OBVIOUS
  <2>2. h.used_mem \in Int /\ h.mem[p].next \in Nat /\ p \in Nat
    BY <1>5 DEF HeapType
  <2>3. e \in Int
    BY <2>1, <2>2
  <2>4. PICK M : M = [h.mem EXCEPT ![p].used = FALSE]
    OBVIOUS
  <2>5. M \in [Offset -> [used : BOOLEAN, next : Offset, prev : Offset]]
    <3>1. h.mem \in [Offset -> [used : BOOLEAN, next : Offset, prev : Offset]]
      BY <1>5 DEF HeapType
    <3> QED
      BY <1>5, <2>4, <3>1
  <2>6. PICK l : l = IF p < h.lfree THEN p ELSE h.lfree
    OBVIOUS
  <2>7. l \in Offset
    BY <1>5, <2>6 DEF HeapType
  <2>8. u = [h EXCEPT !.mem = M, !.lfree = l, !.used_mem = e]
    BY <1>2, <1>5, <2>1, <2>4, <2>6 DEF HeapType
  <2>9. u \in HeapType /\ u.mem = M /\ u.lfree = l /\ u.used_mem = e
    BY <1>5, <2>3, <2>5, <2>7, <2>8 DEF HeapType
  <2> QED
    BY <2>1, <2>4, <2>6, <2>9 DEF Marked
<1>7. /\ Laid(u, H)
      /\ \A x \in Offset : u.mem[x].next = h.mem[x].next
      /\ \A x \in H \ {p} : u.mem[x].used = h.mem[x].used
      /\ u.mem[p].used = FALSE
  <2>1. AfterMark(h, H, u, p, FALSE)
    BY <1>4, <1>5, <1>6, MarkEffect
  <2> QED
    BY <2>1 DEF AfterMark
<1>8. FreeOf(u, H) = FreeOf(h, H) \union {p} /\ UsedOf(u, H) = U
  BY <1>1, <1>5, <1>7 DEF FreeOf, UsedOf
<1>9. Lowest(u, H)
  <2>1. p \in Nat /\ h.lfree \in Nat /\ FreeOf(h, H) \subseteq Nat
    BY <1>5 DEF HeapType, FreeOf
  <2>2. h.lfree \in FreeOf(h, H) \union {heap_end} /\ \A x \in FreeOf(h, H) : h.lfree <= x
    BY <1>4 DEF Lowest
  <2>3. u.lfree \in FreeOf(u, H) \union {heap_end}
    BY <1>6, <1>8, <2>2
  <2>4. ASSUME NEW x \in FreeOf(u, H) PROVE u.lfree <= x
    <3>1. x = p \/ (h.lfree <= x /\ x \in Nat)
      BY <1>8, <2>1, <2>2
    <3>2. CASE p < h.lfree
      BY <1>6, <2>1, <3>1, <3>2
    <3>3. CASE ~(p < h.lfree)
      BY <1>6, <2>1, <3>1, <3>3
    <3> QED
      BY <3>2, <3>3
  <2> QED
    BY <2>3, <2>4 DEF Lowest
<1>10. ASSUME NEW x \in FreeOf(u, H), u.mem[x].next \in FreeOf(u, H)
       PROVE  x = p \/ u.mem[x].next = p
  <2>1. x \in Offset
    BY <1>5 DEF FreeOf
  <2> QED
    BY <1>4, <1>7, <1>8, <1>10, <2>1 DEF Coal
<1>11. PICK J : Laid(r, J) /\ Lowest(r, J) /\ Coal(r, J) /\ SameUsed(u, H, r, J)
  <2>1. p \in FreeOf(u, H)
    BY <1>8
  <2> QED
    BY <1>3, <1>7, <1>9, <1>10, <2>1, PlugEffect
<1>12. UsedOf(r, J) = U /\ r.used_mem = u.used_mem /\ SameEnds(h, r, U)
  <2>1. U \subseteq Offset
    BY <1>1, <1>5 DEF UsedOf
  <2> QED
    BY <1>7, <1>8, <1>11, <2>1 DEF SameUsed, SameEnds
<1>13. r.used_mem = Cardinality(Bytes(r, U))
  <2>1. Bytes(r, U) = Bytes(h, U)
    BY <1>12, BytesSame DEF SameEnds
  <2>2. U \subseteq H \ {heap_end} /\ p \notin U /\ UsedOf(h, H) = U \union {p}
    BY <1>1 DEF UsedOf
  <2>3. Adds(h, U, p)
    BY <1>4, <1>5, <2>2, BlockAdds
  <2>4. h.mem[p].next \in Nat /\ p \in Nat
    BY <1>5
  <2> QED
    BY <1>4, <1>6, <1>12, <2>1, <2>2, <2>3, <2>4 DEF Adds
<1> QED
  BY <1>1, <1>11, <1>12, <1>13 DEF Released, Sound

Shortened(h, H, p, size, r, J) ==
    /\ Sound(r, J) /\ UsedOf(r, J) = UsedOf(h, H)
    /\ SameEnds(h, r, UsedOf(h, H) \ {p}) /\ Room(r, p) = size

(* A block that is cut keeps its place, and what is cut off is free.           *)
LEMMA ShrinkEffect ==
    ASSUME NEW h, NEW H, Sound(h, H), NEW p, p \in UsedOf(h, H), NEW size, size \in Nat,
           size % RT_ALIGN_SIZE = 0, size + SIZEOF_STRUCT_MEM + MIN_SIZE < Room(h, p),
           NEW r, r = Shrunk(h, p, size)
    PROVE  \E J : Shortened(h, H, p, size, r, J)
<1>1. PICK c, s : c = p + SIZEOF_STRUCT_MEM + size /\ s = Split(h, p, size)
  OBVIOUS
<1>2. PICK u : u = [s EXCEPT !.used_mem = @ - (Room(h, p) - size),
                             !.lfree = IF c < @ THEN c ELSE @]
  OBVIOUS
<1>3. r = plug_holes(u, c)
  BY <1>1, <1>2 DEF Shrunk
<1>4. /\ Laid(h, H) /\ Lowest(h, H) /\ Coal(h, H)
      /\ h.used_mem = Cardinality(Bytes(h, UsedOf(h, H)))
  BY DEF Sound
<1>5. /\ p \in H /\ p # heap_end /\ h \in HeapType /\ h.mem[p].used
      /\ p \in Offset /\ h.mem[p].next \in Offset /\ Offset \subseteq Nat /\ H \subseteq Offset
  BY <1>4, OffsetFacts DEF UsedOf, Laid, HeapType
<1>6. PICK n, G : n = h.mem[p].next /\ G = H \union {c}
  OBVIOUS
<1>7. n \in Nat /\ p \in Nat /\ n <= heap_end /\ heap_end \in Nat /\ n \in Offset
  BY <1>5, <1>6, OffsetFacts
<1>8. c < n /\ c <= heap_end /\ c \in Nat /\ Room(h, p) - size = n - c
  BY <1>1, <1>6, <1>7, HeapSizes DEF Room
<1>9. c \in Offset
  BY <1>1, <1>5, <1>8, OffsetSum
<1>10. /\ Laid(s, G) /\ c \notin H /\ c # heap_end /\ p < c
       /\ s.used_mem = h.used_mem /\ s.lfree = h.lfree
       /\ ~s.mem[c].used /\ s.mem[c].next = n
       /\ \A x \in H : /\ s.mem[x].used = h.mem[x].used
                       /\ s.mem[x].next = IF x = p THEN c ELSE h.mem[x].next
  <2>1. CanCut(h, H, p, n, size, c, s, G)
    BY <1>1, <1>4, <1>5, <1>6, <1>8, <1>9 DEF CanCut
  <2> QED
    BY <2>1, SplitEffect DEF AfterCut
<1>11. /\ u \in HeapType /\ u.mem = s.mem /\ u.lfree = IF c < h.lfree THEN c ELSE h.lfree
       /\ u.used_mem = h.used_mem - (n - c)
  <2>1. PICK e : e = h.used_mem - (n - c)
    OBVIOUS
  <2>2. s \in HeapType /\ h.used_mem \in Int
    BY <1>5, <1>10 DEF Laid, HeapType
  <2>3. e \in Int
    BY <1>7, <1>8, <2>1, <2>2
  <2>4. PICK l : l = IF c < h.lfree THEN c ELSE h.lfree
    OBVIOUS
  <2>5. l \in Offset
    BY <1>5, <1>9, <2>4 DEF HeapType
  <2>6. u = [s EXCEPT !.used_mem = e, !.lfree = l]
    BY <1>2, <1>8, <1>10, <2>1, <2>2, <2>4 DEF HeapType
  <2>7. u \in HeapType /\ u.mem = s.mem /\ u.lfree = l /\ u.used_mem = e
    BY <2>2, <2>3, <2>5, <2>6 DEF HeapType
  <2> QED
    BY <2>1, <2>4, <2>7
<1>12. Laid(u, G) /\ FreeOf(u, G) = FreeOf(h, H) \union {c} /\ UsedOf(u, G) = UsedOf(h, H)
  <2>1. Laid(u, G) /\ FreeOf(u, G) = FreeOf(s, G) /\ UsedOf(u, G) = UsedOf(s, G)
    BY <1>10, <1>11, LaidSame
  <2>2. FreeOf(s, G) = FreeOf(h, H) \union {c} /\ UsedOf(s, G) = UsedOf(h, H)
    BY <1>6, <1>10 DEF FreeOf, UsedOf
  <2> QED
    BY <2>1, <2>2
<1>13. Lowest(u, G)
  <2>1. c \in Nat /\ h.lfree \in Nat /\ FreeOf(h, H) \subseteq Nat
    BY <1>5, <1>8 DEF HeapType, FreeOf
  <2>2. h.lfree \in FreeOf(h, H) \union {heap_end} /\ \A x \in FreeOf(h, H) : h.lfree <= x
    BY <1>4 DEF Lowest
  <2>3. u.lfree \in FreeOf(u, G) \union {heap_end}
    BY <1>11, <1>12, <2>2
  <2>4. ASSUME NEW x \in FreeOf(u, G) PROVE u.lfree <= x
    <3>1. x = c \/ (h.lfree <= x /\ x \in Nat)
      BY <1>12, <2>1, <2>2
    <3>2. CASE c < h.lfree
      BY <1>11, <2>1, <3>1, <3>2
    <3>3. CASE ~(c < h.lfree)
      BY <1>11, <2>1, <3>1, <3>3
    <3> QED
      BY <3>2, <3>3
  <2> QED
    BY <2>3, <2>4 DEF Lowest
<1>14. ASSUME NEW x \in FreeOf(u, G), u.mem[x].next \in FreeOf(u, G)
       PROVE  x = c \/ u.mem[x].next = c
  <2>1. CASE x # c
    <3>1. x \in FreeOf(h, H) /\ x \in H /\ x # p
      BY <1>5, <1>12, <2>1 DEF FreeOf
    <3>2. u.mem[x].next = h.mem[x].next
      BY <1>10, <1>11, <3>1
    <3> QED
      BY <1>4, <1>12, <1>14, <3>1, <3>2 DEF Coal
  <2> QED
    BY <2>1
<1>15. PICK J : Laid(r, J) /\ Lowest(r, J) /\ Coal(r, J) /\ SameUsed(u, G, r, J)
  <2>1. c \in FreeOf(u, G)
    BY <1>12
  <2> QED
    BY <1>3, <1>12, <1>13, <1>14, <2>1, PlugEffect
<1>16. PICK U : U = UsedOf(h, H) \ {p}
  OBVIOUS
<1>17. /\ UsedOf(r, J) = UsedOf(h, H) /\ r.used_mem = u.used_mem
       /\ SameEnds(h, r, U) /\ r.mem[p].next = c
  <2>1. U \subseteq H /\ p \notin U /\ U \subseteq UsedOf(h, H)
    BY <1>16 DEF UsedOf
  <2> QED
    BY <1>5, <1>10, <1>11, <1>12, <1>15, <2>1 DEF SameUsed, SameEnds
<1>18. r.used_mem = Cardinality(Bytes(r, UsedOf(h, H)))
  <2>1. U \subseteq H \ {heap_end} /\ p \notin U /\ UsedOf(h, H) = U \union {p}
    BY <1>16 DEF UsedOf
  <2>2. Bytes(r, U) = Bytes(h, U)
    BY <1>17, BytesSame DEF SameEnds
  <2>3. Adds(h, U, p)
    BY <1>4, <1>5, <2>1, BlockAdds
  <2>4. U \subseteq J \ {heap_end} /\ p \in J \ {heap_end}
    BY <1>16, <1>17 DEF UsedOf
  <2>5. Adds(r, U, p)
    BY <1>15, <2>1, <2>4, BlockAdds
  <2> QED
    BY <1>4, <1>6, <1>7, <1>8, <1>11, <1>17, <2>1, <2>2, <2>3, <2>5 DEF Adds
<1>19. Room(r, p) = size
  BY <1>1, <1>7, <1>17, HeapSizes DEF Room
<1> QED
  BY <1>15, <1>16, <1>17, <1>18, <1>19 DEF Shortened, Sound

-----------------------------------------------------------------------------
(* The heap with the programs that use it.                                   *)

\* What programs hold are the data of the used blocks, each large enough.
Holds(h, d, H) ==
    /\ Sound(h, H)
    /\ {Header(b) : b \in DOMAIN d} = UsedOf(h, H)
    /\ DOMAIN d \subseteq Offset
    /\ \A b \in DOMAIN d : d[b] \in Sizes /\ d[b] <= Room(h, Header(b))

\* A block that is being reallocated is held, and by one call.
Moves(m, d) ==
    /\ m \in [HeapThread -> [at : {"none", "expand", "free"}, rmem : Offset \union {None},
                             newsize : Sizes \union {0}]]
    /\ \A t \in HeapThread :
           IF m[t].at = "none" THEN m[t].rmem = None
                               ELSE m[t].rmem \in DOMAIN d /\ m[t].newsize \in Sizes
    /\ \A t, v \in HeapThread : t # v /\ m[t].rmem = m[v].rmem => m[t].rmem = None

HeapInv == (\E H : Holds(heap, held, H)) /\ Moves(realloc, held)

LEMMA NoneIsNoOffset == None \notin Offset
BY OffsetFacts DEF None

LEMMA HeldFacts ==
    ASSUME NEW h, NEW d, NEW H, Holds(h, d, H), NEW b, b \in DOMAIN d
    PROVE  /\ Header(b) \in UsedOf(h, H) /\ b \in Nat /\ b \in Offset
           /\ Header(b) \in Int /\ b = Header(b) + SIZEOF_STRUCT_MEM
<1>1. Header(b) \in UsedOf(h, H) /\ b \in Offset
  BY DEF Holds
<1>2. b \in Nat /\ SIZEOF_STRUCT_MEM \in Nat
  BY <1>1, OffsetFacts, HeapSizes
<1> QED
  BY <1>1, <1>2 DEF Header

(* A block found for a request is given away.                                *)
LEMMA GrantStep ==
    ASSUME NEW H, Holds(heap, held, H), NEW request, request \in Nat, NEW p,
           p = Found(heap, request), p # None, NEW asked, asked \in Sizes,
           asked <= Size(request), heap' = Grant(heap, p, Size(request)),
           held' = Owns(Data(p), asked)
    PROVE  \E J : Holds(heap', held', J)
<1>1. PICK size : size = Size(request)
  OBVIOUS
<1>2. /\ size \in Nat /\ size % RT_ALIGN_SIZE = 0 /\ asked <= size /\ asked \in Nat
  BY <1>1, SizeFacts, HeapAssumption
<1>3. PICK limit : limit = mem_size_aligned - size
  OBVIOUS
<1>4. p = FirstFit(heap, size, limit) /\ RT_ALIGN(request) <= mem_size_aligned
  <2>1. RT_ALIGN(request) \in Nat /\ mem_size_aligned \in Nat
    BY AlignUp, HeapSizes
  <2> QED
    BY <1>1, <1>3, <2>1 DEF Found
<1>5. limit \in Nat /\ limit <= heap_end
  <2>1. size <= mem_size_aligned
    BY <1>1, <1>4, SizeFacts
  <2> QED
    BY <1>2, <1>3, <2>1, HeapSizes
<1>6. Laid(heap, H) /\ Lowest(heap, H)
  BY DEF Holds, Sound
<1>7. p \in FreeOf(heap, H) /\ Room(heap, p) >= size
  BY <1>2, <1>4, <1>5, <1>6, FirstFitEffect
<1>8. Fits(heap, H, p, size)
  BY <1>2, <1>7 DEF Fits, Holds
<1>9. heap' = Grant(heap, p, size)
  BY <1>1
<1>10. PICK J : GivenAway(heap, H, p, size, heap', J)
  BY <1>8, <1>9, GrantEffect
<1>11. p \in Nat /\ p \in Offset /\ p \in H /\ p # heap_end
  BY <1>6, <1>7, OffsetFacts DEF FreeOf, Laid
<1>12. PICK b : b = p + SIZEOF_STRUCT_MEM
  OBVIOUS
<1>13. b \in Offset /\ Header(b) = p /\ held' = Owns(b, asked)
  <2>1. heap.mem[p].next <= heap_end /\ heap.mem[p].next \in Nat
    <3>1. heap.mem[p].next \in H
      BY <1>6, <1>11, Leads
    <3> QED
      BY <1>6, <3>1, OffsetFacts DEF Laid
  <2>2. p + SIZEOF_STRUCT_MEM + 0 <= heap_end
    BY <1>2, <1>7, <1>11, <2>1, HeapSizes DEF Room
  <2>3. 0 % RT_ALIGN_SIZE = 0
    BY HeapSizes
  <2>4. p + SIZEOF_STRUCT_MEM + 0 \in Offset
    BY <1>11, <2>2, <2>3, OffsetSum
  <2>5. p + SIZEOF_STRUCT_MEM + 0 = b /\ b - SIZEOF_STRUCT_MEM = p
    BY <1>11, <1>12, HeapSizes
  <2> QED
    BY <1>12, <2>4, <2>5 DEF Header, Data
<1>14. /\ DOMAIN held' = DOMAIN held \union {b} /\ held'[b] = asked
       /\ \A c \in DOMAIN held \ {b} : held'[c] = held[c]
  BY <1>13 DEF Owns
<1>15. {Header(c) : c \in DOMAIN held'} = UsedOf(heap', J)
  BY <1>10, <1>13, <1>14 DEF GivenAway, Holds
<1>16. ASSUME NEW c \in DOMAIN held' PROVE held'[c] \in Sizes /\ held'[c] <= Room(heap', Header(c))
  <2>1. CASE c = b
    <3>1. heap' \in HeapType
      BY <1>10 DEF GivenAway, Sound, Laid
    <3>2. PICK g : g = heap'
      OBVIOUS
    <3>3. g.mem[p].next \in Offset
      BY <1>11, <3>1, <3>2 DEF HeapType
    <3>4. g.mem[p].next \in Nat
      BY <3>3, OffsetFacts
    <3>5. Room(g, p) \in Int
      BY <1>11, <3>4, HeapSizes DEF Room
    <3>6. Room(heap', p) >= size /\ Room(heap', p) \in Int
      BY <1>10, <3>2, <3>5 DEF GivenAway
    <3> QED
      BY <1>2, <1>13, <1>14, <2>1, <3>6
  <2>2. CASE c # b
    <3>1. c \in DOMAIN held /\ held'[c] = held[c]
      BY <1>14, <2>2
    <3>2. Header(c) \in UsedOf(heap, H) /\ held[c] \in Sizes /\ held[c] <= Room(heap, Header(c))
      BY <3>1 DEF Holds
    <3>3. Room(heap', Header(c)) = Room(heap, Header(c))
      BY <1>10, <3>2 DEF GivenAway, SameEnds, Room
    <3> QED
      BY <3>1, <3>2, <3>3
  <2> QED
    BY <2>1, <2>2
<1>17. DOMAIN held' \subseteq Offset
  BY <1>13, <1>14 DEF Holds
<1>18. Sound(heap', J)
  BY <1>10 DEF GivenAway
<1> QED
  BY <1>15, <1>16, <1>17, <1>18 DEF Holds

(* A block that is held is freed.                                            *)
LEMMA FreeStep ==
    ASSUME NEW H, Holds(heap, held, H), NEW b, b \in DOMAIN held, Free(b)
    PROVE  (\E J : Holds(heap', held', J)) /\ DOMAIN held' = DOMAIN held \ {b}
<1>1. PICK p : p = Header(b)
  OBVIOUS
<1>2. Sound(heap, H) /\ p \in UsedOf(heap, H) /\ heap' = Release(heap, p)
  BY <1>1 DEF Free, Holds
<1>3. PICK J : Released(heap, H, p, heap', J)
  BY <1>2, ReleaseEffect
<1>4. held' = [c \in DOMAIN held \ {b} |-> held[c]]
  BY DEF Free
<1>5. DOMAIN held' = DOMAIN held \ {b} /\ \A c \in DOMAIN held' : held'[c] = held[c]
  BY <1>4
<1>6. ASSUME NEW c \in DOMAIN held' PROVE Header(c) \in UsedOf(heap, H) \ {p}
  <2>1. /\ Header(c) \in UsedOf(heap, H) /\ c = Header(c) + SIZEOF_STRUCT_MEM
        /\ b = Header(b) + SIZEOF_STRUCT_MEM /\ c # b
    BY <1>5, HeldFacts
  <2> QED
    BY <1>1, <2>1
<1>7. {Header(c) : c \in DOMAIN held'} = UsedOf(heap', J)
  <2>1. UsedOf(heap', J) = UsedOf(heap, H) \ {p}
    BY <1>3 DEF Released
  <2>2. {Header(c) : c \in DOMAIN held} = UsedOf(heap, H)
    BY DEF Holds
  <2>3. ASSUME NEW q \in UsedOf(heap, H) \ {p} PROVE \E c \in DOMAIN held' : q = Header(c)
    BY <1>1, <1>5, <2>2
  <2> QED
    BY <1>6, <2>1, <2>3
<1>8. ASSUME NEW c \in DOMAIN held' PROVE held'[c] \in Sizes /\ held'[c] <= Room(heap', Header(c))
  <2>1. c \in DOMAIN held /\ held'[c] = held[c] /\ Header(c) \in UsedOf(heap, H) \ {p}
    BY <1>5, <1>6
  <2>2. Room(heap', Header(c)) = Room(heap, Header(c))
    BY <1>3, <2>1 DEF Released, SameEnds, Room
  <2> QED
    BY <2>1, <2>2 DEF Holds
<1>9. DOMAIN held' \subseteq Offset
  BY <1>5 DEF Holds
<1>10. Holds(heap', held', J)
  BY <1>3, <1>7, <1>8, <1>9 DEF Holds, Released
<1> QED
  BY <1>5, <1>10

(* A block that is held gets another size, in place.                          *)
LEMMA ResizeStep ==
    ASSUME NEW H, Holds(heap, held, H), NEW b, b \in DOMAIN held, NEW request, request \in Sizes,
           NEW J, Sound(heap', J), UsedOf(heap', J) = UsedOf(heap, H),
           SameEnds(heap, heap', UsedOf(heap, H) \ {Header(b)}),
           request <= Room(heap', Header(b)), held' = Owns(b, request)
    PROVE  Holds(heap', held', J) /\ DOMAIN held' = DOMAIN held
<1>1. /\ DOMAIN held' = DOMAIN held /\ held'[b] = request
      /\ \A c \in DOMAIN held \ {b} : held'[c] = held[c]
  BY DEF Owns
<1>2. ASSUME NEW c \in DOMAIN held' PROVE held'[c] \in Sizes /\ held'[c] <= Room(heap', Header(c))
  <2>1. CASE c = b
    BY <1>1, <2>1
  <2>2. CASE c # b
    <3>1. /\ c \in DOMAIN held /\ held'[c] = held[c]
      BY <1>1, <2>2
    <3>2. /\ Header(c) \in UsedOf(heap, H) /\ c = Header(c) + SIZEOF_STRUCT_MEM
          /\ b = Header(b) + SIZEOF_STRUCT_MEM
      BY <3>1, HeldFacts
    <3>3. Header(c) \in UsedOf(heap, H) \ {Header(b)}
      BY <2>2, <3>2
    <3>4. Room(heap', Header(c)) = Room(heap, Header(c))
      BY <3>3 DEF SameEnds, Room
    <3> QED
      BY <3>1, <3>4 DEF Holds
  <2> QED
    BY <2>1, <2>2
<1> QED
  BY <1>1, <1>2 DEF Holds

LEMMA MovesSame ==
    ASSUME NEW m, NEW d, Moves(m, d), NEW e, DOMAIN d \subseteq DOMAIN e
    PROVE  Moves(m, e)
BY DEF Moves

(* A block nobody is reallocating may go.                                     *)
LEMMA MovesWithout ==
    ASSUME NEW m, NEW d, Moves(m, d), NEW b, \A t \in HeapThread : m[t].rmem # b,
           NEW e, DOMAIN e = DOMAIN d \ {b}
    PROVE  Moves(m, e)
<1>1. \A t \in HeapThread :
          IF m[t].at = "none" THEN m[t].rmem = None
                              ELSE m[t].rmem \in DOMAIN e /\ m[t].newsize \in Sizes
  BY DEF Moves
<1> QED
  BY <1>1 DEF Moves

\* The call of one thread has moved on.
ReallocCall == [at : {"none", "expand", "free"}, rmem : Offset \union {None},
         newsize : Sizes \union {0}]

Onward(m, n, t, entry, e) ==
    /\ entry \in ReallocCall /\ n = [m EXCEPT ![t] = entry]
    /\ \A v \in HeapThread \ {t} : m[v].at # "none" => m[v].rmem \in DOMAIN e
    /\ IF entry.at = "none" THEN entry.rmem = None
                            ELSE entry.rmem \in DOMAIN e /\ entry.newsize \in Sizes
    /\ \A v \in HeapThread \ {t} : entry.rmem = m[v].rmem => entry.rmem = None

LEMMA MovesOn ==
    ASSUME NEW m, NEW d, Moves(m, d), NEW t, t \in HeapThread, NEW entry, NEW n, NEW e,
           Onward(m, n, t, entry, e)
    PROVE  Moves(n, e)
<1> USE DEF Onward
<1>1. m \in [HeapThread -> ReallocCall]
  BY DEF Moves, ReallocCall
<1>2. n \in [HeapThread -> ReallocCall] /\ n[t] = entry /\ \A v \in HeapThread \ {t} : n[v] = m[v]
  BY <1>1
<1>3. ASSUME NEW v \in HeapThread
      PROVE  IF n[v].at = "none" THEN n[v].rmem = None
                                 ELSE n[v].rmem \in DOMAIN e /\ n[v].newsize \in Sizes
  <2>1. CASE v = t
    BY <1>2, <2>1
  <2>2. CASE v # t
    <3>1. n[v] = m[v]
      BY <1>2, <2>2
    <3>2. IF m[v].at = "none" THEN m[v].rmem = None
                              ELSE m[v].rmem \in DOMAIN d /\ m[v].newsize \in Sizes
      BY DEF Moves
    <3> QED
      BY <2>2, <3>1, <3>2
  <2> QED
    BY <2>1, <2>2
<1>4. ASSUME NEW x \in HeapThread, NEW y \in HeapThread, x # y, n[x].rmem = n[y].rmem
      PROVE  n[x].rmem = None
  <2>1. CASE x = t
    BY <1>2, <1>4, <2>1
  <2>2. CASE y = t
    BY <1>2, <1>4, <2>2
  <2>3. CASE x # t /\ y # t
    BY <1>2, <1>4, <2>3 DEF Moves
  <2> QED
    BY <2>1, <2>2, <2>3
<1> QED
  BY <1>2, <1>3, <1>4 DEF Moves, ReallocCall

LEMMA HeapInitially == HeapInit => HeapInv
<1> SUFFICES ASSUME HeapInit PROVE HeapInv
  OBVIOUS
<1>1. PICK H : H = {0, heap_end}
  OBVIOUS
<1>2. PICK M : M = [[p \in Offset |-> Stale] EXCEPT ![heap_end].used = TRUE,
                                                    ![heap_end].prev = heap_end]
  OBVIOUS
<1>3. heap = [mem |-> M, lfree |-> 0, used_mem |-> 0] /\ held = [b \in {} |-> 0]
      /\ realloc = [t \in HeapThread |-> Idling]
  BY <1>2 DEF HeapInit
<1>4. 0 \in Offset /\ heap_end \in Offset /\ heap_end \in Nat /\ heap_end # 0
  BY OffsetFacts
<1>5. /\ Stale \in [used : BOOLEAN, next : Offset, prev : Offset] /\ ~Stale.used
      /\ Stale.next = heap_end /\ Stale.prev = 0
  BY <1>4 DEF Stale
<1>6. /\ \A p \in Offset \ {heap_end} : M[p] = Stale
      /\ M[heap_end] = [used |-> TRUE, next |-> heap_end, prev |-> heap_end]
      /\ DOMAIN M = Offset /\ M = [p \in Offset |-> M[p]]
  BY <1>2, <1>4, <1>5 DEF Stale
<1>7. M \in [Offset -> [used : BOOLEAN, next : Offset, prev : Offset]]
  <2>1. PICK b \in BOOLEAN : b = TRUE
    OBVIOUS
  <2>2. M[heap_end] = [used |-> b, next |-> heap_end, prev |-> heap_end]
    BY <1>6, <2>1
  <2>3. M[heap_end] \in [used : BOOLEAN, next : Offset, prev : Offset]
    BY ONLY <1>4, <2>2, b \in BOOLEAN
  <2>4. \A p \in Offset : M[p] \in [used : BOOLEAN, next : Offset, prev : Offset]
    BY <1>5, <1>6, <2>3
  <2> QED
    BY <1>6, <2>4
<1>8. /\ heap.mem = M /\ heap.lfree = 0 /\ heap.used_mem = 0 /\ heap \in HeapType
  BY <1>3, <1>4, <1>7 DEF HeapType
<1>9. M[0] = Stale /\ M[heap_end].used /\ M[heap_end].next = heap_end
  BY <1>4, <1>6
<1>10. Laid(heap, H)
  <2>1. ASSUME NEW p \in H \ {heap_end} PROVE Links(heap, H, p)
    <3>1. p = 0
      BY <1>1
    <3> QED
      BY <1>1, <1>4, <1>5, <1>8, <1>9, <3>1 DEF Links
  <2>2. \A p \in Offset \ H : heap.mem[p] = Stale
    BY <1>1, <1>6, <1>8
  <2> QED
    BY <1>1, <1>4, <1>5, <1>8, <1>9, <2>1, <2>2 DEF Laid
<1>11. FreeOf(heap, H) = {0} /\ UsedOf(heap, H) = {}
  BY <1>1, <1>4, <1>5, <1>8, <1>9 DEF FreeOf, UsedOf
<1>12. Lowest(heap, H) /\ Coal(heap, H)
  BY <1>4, <1>5, <1>8, <1>9, <1>11 DEF Lowest, Coal
<1>13. Cardinality(Bytes(heap, {})) = 0
  <2>1. Bytes(heap, {}) = {}
    BY DEF Bytes
  <2> QED
    BY <2>1, FS_EmptySet
<1>14. DOMAIN held = {}
  BY <1>3
<1>15. Holds(heap, held, H)
  BY <1>8, <1>10, <1>11, <1>12, <1>13, <1>14 DEF Holds, Sound
<1>16. Moves(realloc, held)
  BY <1>3 DEF Moves, Idling
<1> QED
  BY <1>15, <1>16 DEF HeapInv

LEMMA MallocStep ==
    ASSUME HeapInv, NEW request, request \in Sizes, rt_malloc(request)
    PROVE  HeapInv'
<1>1. PICK H : Holds(heap, held, H)
  BY DEF HeapInv
<1>2. PICK p : p = Found(heap, request)
  OBVIOUS
<1>3. realloc' = realloc /\ Moves(realloc, held)
  BY DEF rt_malloc, HeapInv
<1>4. CASE p = None
  <2>1. heap' = heap /\ held' = held
    BY <1>2, <1>4 DEF rt_malloc, Malloc
  <2> QED
    BY <1>1, <1>3, <2>1 DEF HeapInv
<1>5. CASE p # None
  <2>1. heap' = Grant(heap, p, Size(request)) /\ held' = Owns(Data(p), request)
    BY <1>2, <1>5 DEF rt_malloc, Malloc
  <2>2. request \in Nat /\ request <= Size(request)
    BY HeapAssumption, SizeFacts
  <2>3. \E J : Holds(heap', held', J)
    BY <1>1, <1>2, <1>5, <2>1, <2>2, GrantStep
  <2>4. DOMAIN held \subseteq DOMAIN held'
    BY <2>1 DEF Owns
  <2>5. Moves(realloc', held')
    BY <1>3, <2>4, MovesSame
  <2> QED
    BY <2>3, <2>5 DEF HeapInv
<1> QED
  BY <1>4, <1>5

LEMMA FreeKeeps ==
    ASSUME HeapInv, NEW b, Mine(b), Free(b), realloc' = realloc
    PROVE  HeapInv'
<1>1. PICK H : Holds(heap, held, H)
  BY DEF HeapInv
<1>2. b \in DOMAIN held /\ \A t \in HeapThread : realloc[t].rmem # b
  BY DEF Mine
<1>3. (\E J : Holds(heap', held', J)) /\ DOMAIN held' = DOMAIN held \ {b}
  BY <1>1, <1>2, FreeStep
<1>4. Moves(realloc, held)
  BY DEF HeapInv
<1>5. Moves(realloc, held')
  BY <1>2, <1>3, <1>4, MovesWithout
<1> QED
  BY <1>3, <1>5 DEF HeapInv

LEMMA ReallocStep ==
    ASSUME HeapInv, NEW t, t \in HeapThread, NEW b, NEW request, request \in Sizes,
           rt_realloc(t, b, request)
    PROVE  HeapInv'
<1>1. PICK H : Holds(heap, held, H)
  BY DEF HeapInv
<1>2. PICK size, p : size = RT_ALIGN(request) /\ p = Header(b)
  OBVIOUS
<1>3. Mine(b) /\ b \in DOMAIN held /\ realloc[t] = Idling /\ Moves(realloc, held)
  BY DEF rt_realloc, Mine, HeapInv
<1>4. /\ size \in Nat /\ request \in Nat /\ request <= size /\ size % RT_ALIGN_SIZE = 0
  BY <1>2, AlignUp, HeapAssumption
<1>5. p \in UsedOf(heap, H) /\ Sound(heap, H) /\ b \in Offset
  BY <1>1, <1>2, <1>3, HeldFacts DEF Holds
<1>6. CASE Free(b) /\ UNCHANGED realloc
  BY <1>3, <1>6, FreeKeeps
<1>7. CASE size = Room(heap, p) /\ held' = Owns(b, request) /\ UNCHANGED <<heap, realloc>>
  <2>1. /\ Sound(heap', H) /\ UsedOf(heap', H) = UsedOf(heap, H)
        /\ SameEnds(heap, heap', UsedOf(heap, H) \ {Header(b)})
        /\ request <= Room(heap', Header(b))
    BY <1>2, <1>4, <1>5, <1>7 DEF SameEnds
  <2>2. Holds(heap', held', H) /\ DOMAIN held' = DOMAIN held
    BY <1>1, <1>3, <1>7, <2>1, ResizeStep
  <2>3. Moves(realloc', held')
    BY <1>3, <1>7, <2>2, MovesSame
  <2> QED
    BY <2>2, <2>3 DEF HeapInv
<1>8. CASE /\ size + SIZEOF_STRUCT_MEM + MIN_SIZE < Room(heap, p)
           /\ heap' = Shrunk(heap, p, size) /\ held' = Owns(b, request) /\ UNCHANGED realloc
  <2>1. PICK J : Shortened(heap, H, p, size, heap', J)
    BY <1>4, <1>5, <1>8, ShrinkEffect
  <2>2. /\ Sound(heap', J) /\ UsedOf(heap', J) = UsedOf(heap, H)
        /\ SameEnds(heap, heap', UsedOf(heap, H) \ {Header(b)})
        /\ request <= Room(heap', Header(b))
    BY <1>2, <1>4, <2>1 DEF Shortened
  <2>3. Holds(heap', held', J) /\ DOMAIN held' = DOMAIN held
    BY <1>1, <1>3, <1>8, <2>2, ResizeStep
  <2>4. Moves(realloc', held')
    BY <1>3, <1>8, <2>3, MovesSame
  <2> QED
    BY <2>3, <2>4 DEF HeapInv
<1>9. CASE /\ realloc' = [realloc EXCEPT ![t] = [at |-> "expand", rmem |-> b,
                                                 newsize |-> request]]
           /\ UNCHANGED <<heap, held>>
  <2>1. PICK entry : entry = [at |-> "expand", rmem |-> b, newsize |-> request]
    OBVIOUS
  <2>2. entry \in ReallocCall /\ entry.at = "expand" /\ entry.rmem = b /\ entry.newsize = request
    BY <1>5, <2>1 DEF ReallocCall
  <2>3. \A v \in HeapThread : realloc[v].rmem # b
    BY <1>3 DEF Mine
  <2>4. \A v \in HeapThread \ {t} : realloc[v].at # "none" => realloc[v].rmem \in DOMAIN held
    BY <1>3 DEF Moves
  <2>5. realloc' = [realloc EXCEPT ![t] = entry]
    BY <1>9, <2>1
  <2>6. /\ IF entry.at = "none" THEN entry.rmem = None
                           ELSE entry.rmem \in DOMAIN held /\ entry.newsize \in Sizes
        /\ \A v \in HeapThread \ {t} : entry.rmem = realloc[v].rmem => entry.rmem = None
    BY <1>3, <2>2, <2>3
  <2>7. Onward(realloc, realloc', t, entry, held)
    BY <2>2, <2>4, <2>5, <2>6 DEF Onward
  <2>8. Moves(realloc', held)
    BY <1>3, <2>7, MovesOn
  <2> QED
    BY <1>1, <1>9, <2>8 DEF HeapInv
<1> QED
  BY <1>2, <1>6, <1>7, <1>8, <1>9 DEF rt_realloc

LEMMA ReallocMallocStep ==
    ASSUME HeapInv, NEW t, t \in HeapThread, ReallocMalloc(t)
    PROVE  HeapInv'
<1>1. PICK H : Holds(heap, held, H)
  BY DEF HeapInv
<1>2. PICK asked, request, p : /\ asked = realloc[t].newsize /\ request = RT_ALIGN(asked)
                               /\ p = Found(heap, request)
  OBVIOUS
<1>3. /\ heap' = IF p = None THEN heap ELSE Grant(heap, p, Size(request))
      /\ held' = IF p = None THEN held ELSE Owns(Data(p), asked)
      /\ realloc' = [realloc EXCEPT ![t] = IF p = None THEN Idling
                                           ELSE [realloc[t] EXCEPT !.at = "free"]]
      /\ realloc[t].at = "expand"
  BY <1>2 DEF ReallocMalloc
<1>4. Moves(realloc, held)
  BY DEF HeapInv
<1>5. /\ realloc[t].rmem \in DOMAIN held /\ asked \in Sizes /\ realloc[t] \in ReallocCall
      /\ \A v \in HeapThread \ {t} : realloc[v].at # "none" => realloc[v].rmem \in DOMAIN held
      /\ \A v \in HeapThread \ {t} : realloc[t].rmem = realloc[v].rmem => realloc[t].rmem = None
  BY <1>2, <1>3, <1>4 DEF Moves, ReallocCall
<1>6. CASE p = None
  <2>1. heap' = heap /\ held' = held /\ realloc' = [realloc EXCEPT ![t] = Idling]
    BY <1>3, <1>6
  <2>2. Idling \in ReallocCall /\ Idling.at = "none" /\ Idling.rmem = None
    BY DEF Idling, ReallocCall
  <2>3. Moves(realloc', held)
    <3>1. Onward(realloc, realloc', t, Idling, held)
      BY <1>5, <2>1, <2>2 DEF Onward
    <3> QED
      BY <1>4, <3>1, MovesOn
  <2> QED
    BY <1>1, <2>1, <2>3 DEF HeapInv
<1>7. CASE p # None
  <2>1. asked \in Nat /\ request \in Nat /\ asked <= request /\ request <= Size(request)
    BY <1>2, <1>5, HeapAssumption, AlignUp, SizeFacts
  <2>2. asked <= Size(request)
    BY <2>1, SizeFacts
  <2>3. heap' = Grant(heap, p, Size(request)) /\ held' = Owns(Data(p), asked)
    BY <1>3, <1>7
  <2>4. \E J : Holds(heap', held', J)
    BY <1>1, <1>2, <1>5, <1>7, <2>1, <2>2, <2>3, GrantStep
  <2>5. DOMAIN held \subseteq DOMAIN held'
    BY <2>3 DEF Owns
  <2>6. PICK entry : entry = [realloc[t] EXCEPT !.at = "free"]
    OBVIOUS
  <2>7. /\ entry \in ReallocCall /\ entry.at = "free"
        /\ entry.rmem = realloc[t].rmem /\ entry.newsize = asked
    BY <1>2, <1>5, <2>6 DEF ReallocCall
  <2>8. realloc' = [realloc EXCEPT ![t] = entry]
    BY <1>3, <1>7, <2>6
  <2>9. /\ IF entry.at = "none" THEN entry.rmem = None
                            ELSE entry.rmem \in DOMAIN held' /\ entry.newsize \in Sizes
        /\ \A v \in HeapThread \ {t} : entry.rmem = realloc[v].rmem => entry.rmem = None
        /\ \A v \in HeapThread \ {t} : realloc[v].at # "none" => realloc[v].rmem \in DOMAIN held'
    BY <1>5, <2>5, <2>7
  <2>10. Moves(realloc', held')
    <3>1. Onward(realloc, realloc', t, entry, held')
      BY <2>7, <2>8, <2>9 DEF Onward
    <3> QED
      BY <1>4, <3>1, MovesOn
  <2> QED
    BY <2>4, <2>10 DEF HeapInv
<1> QED
  BY <1>6, <1>7

LEMMA ReallocFreeStep ==
    ASSUME HeapInv, NEW t, t \in HeapThread, ReallocFree(t)
    PROVE  HeapInv'
<1>1. PICK H : Holds(heap, held, H)
  BY DEF HeapInv
<1>2. PICK b : b = realloc[t].rmem
  OBVIOUS
<1>3. realloc[t].at = "free" /\ Free(b) /\ realloc' = [realloc EXCEPT ![t] = Idling]
  BY <1>2 DEF ReallocFree
<1>4. Moves(realloc, held)
  BY DEF HeapInv
<1>5. b \in DOMAIN held /\ b # None
  <2>1. b \in DOMAIN held
    BY <1>2, <1>3, <1>4 DEF Moves
  <2>2. b \in Offset
    BY <1>1, <2>1, HeldFacts
  <2> QED
    BY <2>1, <2>2, NoneIsNoOffset
<1>6. (\E J : Holds(heap', held', J)) /\ DOMAIN held' = DOMAIN held \ {b}
  BY <1>1, <1>3, <1>5, FreeStep
<1>7. \A v \in HeapThread \ {t} : realloc[v].at # "none" => realloc[v].rmem \in DOMAIN held'
  <2>1. \A v \in HeapThread \ {t} : realloc[v].rmem # b
    BY <1>2, <1>4, <1>5 DEF Moves
  <2>2. \A v \in HeapThread : realloc[v].at # "none" => realloc[v].rmem \in DOMAIN held
    BY <1>4 DEF Moves
  <2> QED
    BY <1>6, <2>1, <2>2
<1>8. Idling \in ReallocCall /\ Idling.at = "none" /\ Idling.rmem = None
  BY DEF Idling, ReallocCall
<1>9. Moves(realloc', held')
  <2>1. Onward(realloc, realloc', t, Idling, held')
    BY <1>3, <1>7, <1>8 DEF Onward
  <2> QED
    BY <1>4, <2>1, MovesOn
<1> QED
  BY <1>6, <1>9 DEF HeapInv

LEMMA HeapStep == HeapInv /\ [HeapNext]_memory => HeapInv'
<1> SUFFICES ASSUME HeapInv, [HeapNext]_memory PROVE HeapInv'
  OBVIOUS
<1>1. CASE \E request \in Sizes : rt_malloc(request)
  BY <1>1, MallocStep
<1>2. CASE \E b \in DOMAIN held : rt_free(b)
  BY <1>2, FreeKeeps DEF rt_free
<1>3. CASE \E b \in DOMAIN held, t \in HeapThread, request \in Sizes : rt_realloc(t, b, request)
  BY <1>3, ReallocStep
<1>4. CASE \E t \in HeapThread : ReallocMalloc(t)
  BY <1>4, ReallocMallocStep
<1>5. CASE \E t \in HeapThread : ReallocFree(t)
  BY <1>5, ReallocFreeStep
<1>6. CASE UNCHANGED memory
  BY <1>6 DEF memory, HeapInv
<1> QED
  BY <1>1, <1>2, <1>3, <1>4, <1>5, <1>6 DEF HeapNext

(* The heap: the chain of headers with the blocks programs hold, and with the   *)
(* calls of rt_realloc that gave up the lock, is kept by every operation.       *)
THEOREM HeapInvariance == HeapSpec => []HeapInv
<1>1. HeapInit => HeapInv
  BY HeapInitially
<1>2. HeapInv /\ [HeapNext]_memory => HeapInv'
  BY HeapStep
<1> QED
  BY <1>1, <1>2, PTL DEF HeapSpec

LEMMA ConsistentHeap == HeapInv => HeapConsistent
<1> SUFFICES ASSUME HeapInv PROVE HeapConsistent
  OBVIOUS
<1>1. PICK H : Holds(heap, held, H)
  BY DEF HeapInv
<1>2. /\ Laid(heap, H) /\ Lowest(heap, H) /\ Coal(heap, H)
      /\ heap.used_mem = Cardinality(Bytes(heap, UsedOf(heap, H)))
  BY <1>1 DEF Holds, Sound
<1>3. Headers = H
  BY <1>2, HeadersAre
<1>4. FreeHeaders = FreeOf(heap, H)
  BY <1>3 DEF FreeHeaders, FreeOf
<1>5. H \ (FreeOf(heap, H) \union {heap_end}) = UsedOf(heap, H)
  BY DEF FreeOf, UsedOf
<1>6. BlocksApart
  <2>1. heap_end \in H
    BY <1>2 DEF Laid
  <2>2. ASSUME NEW b \in DOMAIN held PROVE Room(heap, Header(b)) >= held[b]
    BY <1>1 DEF Holds
  <2> QED
    BY <1>1, <1>3, <1>4, <1>5, <2>1, <2>2 DEF BlocksApart, Holds
<1>7. Coalesced
  BY <1>2, <1>4 DEF Coalesced, Coal
<1>8. LowestFree
  <2>1. PICK S : S = FreeOf(heap, H) \union {heap_end}
    OBVIOUS
  <2>2. S \subseteq Nat /\ heap_end \in Nat /\ \A x \in S : x <= heap_end
    BY <1>2, <2>1, OffsetFacts DEF Laid, FreeOf
  <2>3. heap.lfree \in S /\ \A x \in S : heap.lfree <= x
    BY <1>2, <2>1, <2>2 DEF Lowest
  <2>4. ASSUME NEW x \in S, \A y \in S : x <= y PROVE x = heap.lfree
    <3>1. x <= heap.lfree /\ heap.lfree <= x
      BY <2>3, <2>4
    <3>2. x \in Nat /\ heap.lfree \in Nat
      BY <2>2, <2>3
    <3> QED
      BY ONLY <3>1, <3>2
  <2>5. Min(S) = heap.lfree
    BY <2>3, <2>4 DEF Min
  <2> QED
    BY <1>4, <2>1, <2>5 DEF LowestFree
<1>9. UsedCounted
  BY <1>2, <1>3, <1>4, <1>5 DEF UsedCounted
<1> QED
  BY <1>6, <1>7, <1>8, <1>9 DEF HeapConsistent

(* The heap is consistent for every size, every alignment and any number of     *)
(* threads: the chain covers it, what programs hold are its used blocks, large  *)
(* enough and apart, free blocks are joined, lfree is the lowest of them and     *)
(* used_mem counts the used bytes.                                            *)
THEOREM HeapAlwaysConsistent == HeapSpec => []HeapConsistent
BY HeapInvariance, ConsistentHeap, PTL

LEMMA RefusalMeansFull == HeapInv => RefusesOnlyWhenFull
<1> SUFFICES ASSUME HeapInv, NEW request \in Sizes \ {0},
                    RT_ALIGN(request) <= mem_size_aligned, Found(heap, request) = None,
                    NEW p \in FreeHeaders, Room(heap, p) >= Size(request)
             PROVE  p + SIZEOF_STRUCT_MEM + Size(request) = heap_end
  BY DEF RefusesOnlyWhenFull
<1>1. PICK H : Holds(heap, held, H)
  BY DEF HeapInv
<1>2. Laid(heap, H) /\ Lowest(heap, H)
  BY <1>1 DEF Holds, Sound
<1>3. p \in FreeOf(heap, H)
  BY <1>2, HeadersAre DEF FreeHeaders, FreeOf
<1>4. PICK size, limit : size = Size(request) /\ limit = mem_size_aligned - size
  OBVIOUS
<1>5. size \in Nat /\ size <= mem_size_aligned /\ request \in Nat
  BY <1>4, SizeFacts, HeapAssumption
<1>6. limit \in Nat /\ limit <= heap_end
  BY <1>4, <1>5, HeapSizes
<1>7. FirstFit(heap, size, limit) = None
  <2>1. RT_ALIGN(request) \in Nat /\ mem_size_aligned \in Nat
    BY <1>5, AlignUp, HeapSizes
  <2>2. ~(request = 0 \/ RT_ALIGN(request) > mem_size_aligned)
    BY <2>1
  <2> QED
    BY <1>4, <2>2 DEF Found
<1>8. None \notin FreeOf(heap, H)
  BY <1>2, NoneIsNoOffset DEF FreeOf, Laid
<1>9. \A q \in FreeOf(heap, H) : q < limit => Room(heap, q) < size
  BY <1>2, <1>5, <1>6, <1>7, <1>8, FirstFitEffect
<1>10. PICK n : n = heap.mem[p].next
  OBVIOUS
<1>11. n \in Nat /\ p \in Nat /\ n <= heap_end
  BY <1>2, <1>3, <1>10, Leads, OffsetFacts DEF FreeOf, Laid
<1>12. n - p - SIZEOF_STRUCT_MEM >= size
  BY <1>4, <1>10 DEF Room
<1>13. ~(p < limit)
  BY <1>3, <1>4, <1>5, <1>9, <1>10, <1>11, <1>12, HeapSizes DEF Room
<1> QED
  BY <1>4, <1>5, <1>6, <1>11, <1>12, <1>13, HeapSizes

(* rt_malloc returns RT_NULL only when no free block has the room, but for one   *)
(* that the request would fill to the very end of the heap.                    *)
THEOREM RefusesOnlyWhenFullAlways == HeapSpec => []RefusesOnlyWhenFull
BY HeapInvariance, RefusalMeansFull, PTL

LEMMA TypedHeap == HeapInv => HeapTypeOK
<1> SUFFICES ASSUME HeapInv PROVE HeapTypeOK
  OBVIOUS
<1>1. PICK H : Holds(heap, held, H)
  BY DEF HeapInv
<1>2. heap \in HeapType /\ heap.used_mem = Cardinality(Bytes(heap, UsedOf(heap, H)))
  BY <1>1 DEF Holds, Sound, Laid
<1>3. heap.used_mem \in 0 .. heap_end
  <2>1. PICK B, I : B = Bytes(heap, UsedOf(heap, H)) /\ I = 0 .. heap_end - 1
    OBVIOUS
  <2>2. B \subseteq I
    BY <2>1 DEF Bytes
  <2>3. heap_end \in Nat \ {0}
    BY OffsetFacts
  <2>4. IsFiniteSet(I) /\ Cardinality(I) = heap_end
    <3>1. 0 \in Int /\ heap_end - 1 \in Int
      BY <2>3
    <3>2. /\ IsFiniteSet(0 .. heap_end - 1)
          /\ Cardinality(0 .. heap_end - 1)
                 = IF 0 > heap_end - 1 THEN 0 ELSE heap_end - 1 - 0 + 1
      BY <3>1, FS_Interval
    <3> QED
      BY <2>1, <2>3, <3>2
  <2>5. IsFiniteSet(B) /\ Cardinality(B) <= Cardinality(I)
    BY <2>2, <2>4, FS_Subset
  <2>6. Cardinality(B) \in Nat
    BY <2>5, FS_CardinalityType
  <2> QED
    BY <1>2, <2>1, <2>3, <2>4, <2>5, <2>6
<1>4. heap \in [mem : [Offset -> [used : BOOLEAN, next : Offset, prev : Offset]],
                lfree : Offset, used_mem : 0 .. heap_end]
  BY <1>2, <1>3 DEF HeapType
<1>5. DOMAIN held \subseteq Offset /\ \A b \in DOMAIN held : held[b] \in Sizes
  BY <1>1 DEF Holds
<1>6. realloc \in [HeapThread -> [at : {"none", "expand", "free"}, rmem : Offset \union {None},
                                 newsize : Sizes \union {0}]]
  BY DEF HeapInv, Moves
<1> QED
  BY <1>4, <1>5, <1>6 DEF HeapTypeOK

(* Every header, lfree and used_mem, which never exceeds the heap, have their   *)
(* types.                                                                   *)
THEOREM HeapTyped == HeapSpec => []HeapTypeOK
BY HeapInvariance, TypedHeap, PTL
=============================================================================
