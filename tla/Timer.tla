-------------------------------- MODULE Timer --------------------------------
(***************************************************************************)
(* The timer list of os/timer.c and the tick of os/clock.c.  Ticks are     *)
(* unsigned integers of W values that wrap around; the code compares them  *)
(* by their difference.  RT_TIMER_SKIP_LIST_LEVEL is 1, so the skip list   *)
(* is one list.                                                            *)
(*                                                                         *)
(* rt_timer_check runs with interrupts disabled; between two of its steps  *)
(* only the callback it has called may act, and that may call any timer    *)
(* function.  Threads call them between two ticks.                         *)
(***************************************************************************)
EXTENDS Integers, Sequences, SequencesExt, FiniteSets

CONSTANTS
    Timer,      \* the timer objects
    None,       \* no timer
    W,          \* the number of values of rt_tick_t
    Time,       \* the periods timers are given
    Stoppable,  \* timers that rt_timer_stop is used on
    Settable,   \* timers that rt_timer_control is used on
    Recreated,  \* timers that are detached and initialised again
    CallbackSetsOneshot \* whether a callback may make its own timer one-shot

RT_TICK_MAX == W - 1
Half == RT_TICK_MAX \div 2

\* RT_ASSERT(timer->init_tick < RT_TICK_MAX / 2) bounds the periods.  A timer
\* started with 0 is found one tick late, which has to be less than Half.
ASSUME TimerAssumption ==
    /\ IsFiniteSet(Timer) /\ None \notin Timer
    /\ W \in Nat /\ W >= 5
    /\ Time # {} /\ Time \subseteq 0 .. Half - 1
    /\ Stoppable \union Settable \union Recreated \subseteq Timer
    /\ CallbackSetsOneshot \in BOOLEAN

VARIABLES
    rt_tick,        \* the tick counter
    rt_timer_list,  \* the started timers, next to fire first
    timeout_tick, init_tick, \* the fields of each timer
    activated, periodic, \* the timers with that flag set
    alive,          \* the timers that are initialised
    stopping,       \* a timer rt_timer_stop has found active, or None
    checking,       \* rt_timer_check is running
    firing,         \* the timer whose callback is running, or None
    listed,         \* firing is still on the temporary list of rt_timer_check
    due,            \* history: the ticks that will pass before a timer fires
    started         \* history: the timers in the list, in the order of their starts

vars == <<rt_tick, rt_timer_list, timeout_tick, init_tick, activated, periodic,
          alive, stopping, checking, firing, listed, due, started>>

TypeOK ==
    /\ rt_tick \in 0 .. RT_TICK_MAX
    /\ rt_timer_list \in Seq(Timer) /\ IsInjective(rt_timer_list)
    /\ timeout_tick \in [Timer -> 0 .. RT_TICK_MAX]
    /\ init_tick \in [Timer -> Time]
    /\ activated \subseteq alive /\ periodic \subseteq Timer /\ alive \subseteq Timer
    /\ stopping \in Timer \union {None}
    /\ checking \in BOOLEAN /\ listed \in BOOLEAN
    /\ firing \in Timer \union {None}
    /\ due \in [Timer -> 0 .. Half]
    /\ started \in Seq(Timer) /\ ToSet(started) = ToSet(rt_timer_list)

\* Every timer has been initialised, with some period and kind.
Init ==
    /\ rt_tick = 0
    /\ rt_timer_list = <<>>
    /\ timeout_tick = [t \in Timer |-> 0]
    /\ init_tick \in [Timer -> Time]
    /\ activated = {} /\ periodic \in SUBSET Timer /\ alive = Timer
    /\ stopping = None
    /\ checking = FALSE /\ firing = None /\ listed = FALSE
    /\ due = [t \in Timer |-> 0]
    /\ started = <<>>

-----------------------------------------------------------------------------
(* The operations, by a thread between two ticks or by the callback that   *)
(* rt_timer_check has called.                                              *)

MayCall == ~checking \/ firing # None

\* _rt_timer_remove: off the list it is on, the temporary one included.
_rt_timer_remove(t) ==
    /\ rt_timer_list' = RemoveFirst(rt_timer_list, t)
    /\ started' = RemoveFirst(started, t)
    /\ listed' = (listed /\ firing # t)

Distance(a, b) == (a - b) % W

\* Mutant: ticks are compared by their values.
Later_plain(a, b) == a > b

\* a is a later tick than b, wrapping around.
Later(a, b) == Distance(a, b) # 0 /\ Distance(a, b) < Half

\* The new timer goes before the first that times out later.
Position(l, tick) ==
    LET after == {i \in 1 .. Len(l) : Later(timeout_tick[l[i]], tick)}
    IN  IF after = {} THEN Len(l) + 1 ELSE CHOOSE i \in after : \A j \in after : i <= j

\* The promise: a timer started with n fires at the n-th tick from now; with
\* 0 it fires at the next tick, or at once when a callback starts it.
DueIn(n) == IF n = 0 /\ ~checking THEN 1 ELSE n

\* rt_timer_start on a timer that is on the lists l (rt_timer_list) and s
\* (started) after it was removed from them.
Insert(t, l, s) ==
    LET tick == (rt_tick + init_tick[t]) % W
    IN  /\ timeout_tick' = [timeout_tick EXCEPT ![t] = tick]
        /\ rt_timer_list' = InsertAt(l, Position(l, tick), t)
        /\ started' = Append(s, t)
        /\ due' = [due EXCEPT ![t] = DueIn(init_tick[t])]
        /\ activated' = activated \union {t}

rt_timer_start(t) ==
    /\ MayCall /\ t \in alive
    /\ Insert(t, RemoveFirst(rt_timer_list, t), RemoveFirst(started, t))
    /\ listed' = (listed /\ firing # t)
    /\ UNCHANGED <<rt_tick, init_tick, periodic, alive, stopping, checking, firing>>

\* rt_timer_stop by a thread: it looks at the flag before it disables
\* interrupts, so a tick may come between the two.
StopTest(t) ==
    /\ ~checking /\ stopping = None
    /\ t \in activated \intersect Stoppable
    /\ stopping' = t
    /\ UNCHANGED <<rt_tick, rt_timer_list, timeout_tick, init_tick, activated,
                   periodic, alive, checking, firing, listed, due, started>>

\* The section of rt_timer_stop in which interrupts are disabled.
Stop(t) ==
    /\ _rt_timer_remove(t)
    /\ activated' = activated \ {t}
    /\ UNCHANGED <<rt_tick, timeout_tick, init_tick, periodic, alive, checking,
                   firing, due>>

StopRemove ==
    /\ ~checking /\ stopping # None
    /\ Stop(stopping)
    /\ stopping' = None

\* rt_timer_stop by a callback: nothing can come between its two parts.
CallbackStop(t) ==
    /\ firing # None
    /\ t \in activated \intersect Stoppable
    /\ Stop(t)
    /\ UNCHANGED stopping

\* rt_timer_detach, and rt_timer_delete, which differs in how the object is
\* given back.  No thread deletes a timer another thread is stopping.
rt_timer_detach(t) ==
    /\ MayCall /\ t \in alive \intersect Recreated /\ t # stopping
    /\ _rt_timer_remove(t)
    /\ activated' = activated \ {t}
    /\ alive' = alive \ {t}
    /\ UNCHANGED <<rt_tick, timeout_tick, init_tick, periodic, stopping,
                   checking, firing, due>>

\* rt_timer_init and rt_timer_create: not active, on no list.
rt_timer_init(t, time, p) ==
    /\ MayCall /\ t \notin alive
    /\ alive' = alive \union {t}
    /\ periodic' = IF p THEN periodic \union {t} ELSE periodic \ {t}
    /\ timeout_tick' = [timeout_tick EXCEPT ![t] = 0]
    /\ init_tick' = [init_tick EXCEPT ![t] = time]
    /\ UNCHANGED <<rt_tick, rt_timer_list, activated, stopping, checking,
                   firing, listed, due, started>>

\* rt_timer_control: SET_TIME takes effect at the next start.
SetTime(t, time) ==
    /\ MayCall /\ t \in alive \intersect Settable
    /\ init_tick' = [init_tick EXCEPT ![t] = time]
    /\ UNCHANGED <<rt_tick, rt_timer_list, timeout_tick, activated, periodic,
                   alive, stopping, checking, firing, listed, due, started>>

SetPeriodic(t, p) ==
    /\ MayCall /\ t \in alive \intersect Settable
    /\ firing = t => p \/ CallbackSetsOneshot
    /\ periodic' = IF p THEN periodic \union {t} ELSE periodic \ {t}
    /\ UNCHANGED <<rt_tick, rt_timer_list, timeout_tick, init_tick, activated,
                   alive, stopping, checking, firing, listed, due, started>>

-----------------------------------------------------------------------------
(* rt_tick_increase and rt_timer_check *)

\* The tick interrupt: the counter goes up, wraps, and the check begins.
rt_tick_increase ==
    /\ ~checking
    /\ rt_tick' = (rt_tick + 1) % W
    /\ checking' = TRUE
    /\ due' = [t \in Timer |->
                  IF t \in ToSet(rt_timer_list) THEN due[t] - 1 ELSE due[t]]
    /\ UNCHANGED <<rt_timer_list, timeout_tick, init_tick, activated, periodic,
                   alive, stopping, firing, listed, started>>

\* Mutant: the comparison also takes the timers that fire one tick later.
Expired_early ==
    /\ rt_timer_list # <<>>
    /\ Distance(rt_tick + 1, timeout_tick[Head(rt_timer_list)]) < Half

\* Mutant: a timer fires only after its tick has passed.
Expired_late ==
    /\ rt_timer_list # <<>>
    /\ Later(rt_tick, timeout_tick[Head(rt_timer_list)])

\* The first timer of the list has reached its time.
Expired ==
    /\ rt_timer_list # <<>>
    /\ Distance(rt_tick, timeout_tick[Head(rt_timer_list)]) < Half

\* The timer moves to the temporary list and its callback is called.
CheckFire ==
    /\ checking /\ firing = None /\ Expired
    /\ LET t == Head(rt_timer_list)
       IN  /\ firing' = t
           /\ activated' = IF t \in periodic THEN activated ELSE activated \ {t}
           /\ started' = RemoveFirst(started, t)
    /\ rt_timer_list' = Tail(rt_timer_list)
    /\ listed' = TRUE
    /\ UNCHANGED <<rt_tick, timeout_tick, init_tick, periodic, alive, stopping,
                   checking, due>>

\* Mutant: a periodic timer is not started again.
CheckReturn_once ==
    /\ firing # None
    /\ firing' = None /\ listed' = FALSE
    /\ UNCHANGED <<rt_tick, rt_timer_list, timeout_tick, init_tick, activated,
                   periodic, alive, stopping, checking, due, started>>

\* The callback returns.  Unless it detached, stopped or started its timer, a
\* periodic timer is started again, from the present tick.
CheckReturn ==
    /\ firing # None
    /\ IF listed /\ firing \in periodic \intersect activated
       THEN Insert(firing, rt_timer_list, started)
       ELSE UNCHANGED <<timeout_tick, rt_timer_list, started, due, activated>>
    /\ firing' = None /\ listed' = FALSE
    /\ UNCHANGED <<rt_tick, init_tick, periodic, alive, stopping, checking>>

\* No timer of the list has reached its time.
CheckDone ==
    /\ checking /\ firing = None /\ ~Expired
    /\ checking' = FALSE
    /\ UNCHANGED <<rt_tick, rt_timer_list, timeout_tick, init_tick, activated,
                   periodic, alive, stopping, firing, listed, due, started>>

Call ==
    \/ \E t \in Timer :
           \/ rt_timer_start(t) \/ StopTest(t) \/ CallbackStop(t)
           \/ rt_timer_detach(t)
           \/ \E time \in Time :
                  \/ SetTime(t, time)
                  \/ \E p \in BOOLEAN : rt_timer_init(t, time, p)
           \/ \E p \in BOOLEAN : SetPeriodic(t, p)
    \/ StopRemove

Check == CheckFire \/ CheckReturn \/ CheckDone

Next == Call \/ rt_tick_increase \/ Check

Spec == Init /\ [][Next]_vars

-----------------------------------------------------------------------------
(* Properties *)

\* The list is in the order in which its timers will really fire, whether or
\* not the tick counter wraps before they do.
ListInOrder ==
    \A i \in 1 .. Len(rt_timer_list), j \in 1 .. Len(rt_timer_list) :
        i < j => due[rt_timer_list[i]] <= due[rt_timer_list[j]]

\* Of two timers that time out at the same tick the one that was started
\* first comes first (the comment in rt_timer_start).
EarlyStartedFirst ==
    \A i \in 1 .. Len(rt_timer_list), j \in 1 .. Len(rt_timer_list) :
        LET a == rt_timer_list[i]  b == rt_timer_list[j]
        IN  i < j /\ timeout_tick[a] = timeout_tick[b]
                => \E m \in 1 .. Len(started), n \in 1 .. Len(started) :
                       m < n /\ started[m] = a /\ started[n] = b

\* rt_timer_check calls a timer at the tick it is due, not before...
NeverEarly == [][\A t \in Timer : CheckFire /\ firing' = t => due[t] = 0]_vars

\* ... and never leaves one that is due in the list.
NeverLate == ~checking => \A t \in ToSet(rt_timer_list) : due[t] > 0

\* Between two ticks exactly the active timers are in the list, so what
\* RT_TIMER_CTRL_GET_STATE answers is so.
ActiveIsListed == ~checking => activated = ToSet(rt_timer_list)

\* No list holds a timer that is detached, and rt_timer_check does not touch
\* one after its callback has detached it.
DetachedIsUnlinked ==
    /\ ToSet(rt_timer_list) \subseteq alive
    /\ listed => firing \in alive

\* The timer list and the flags of the timers agree whatever threads and
\* callbacks do while rt_timer_check walks the list: the active timers, each
\* once, and no detached one.
TimersConsistent == TypeOK /\ ActiveIsListed /\ DetachedIsUnlinked

\* rt_timer_start puts each timer where it will fire, ties in the order of the
\* starts, across the wrap of the tick counter.
FiringOrder == ListInOrder /\ EarlyStartedFirst
=============================================================================
