---------------------------- MODULE TimerManager ----------------------------
(***************************************************************************)
(* FTimerManager: the timers of a world, in the containers it keeps them   *)
(* in, and the Tick that calls them.  A callback may call any operation of *)
(* the manager, on the timer that is being called too, so Tick is cut at   *)
(* every call.  Time is counted in whole units.                            *)
(***************************************************************************)
EXTENDS Integers, FiniteSets

CONSTANTS Index,        \* places of the sparse array Timers
          MaxSerial,    \* bound of the model: how many timers are ever set
          MaxTime,      \* bound of the model: InternalTime
          DeltaTimes,   \* what a frame may take
          Object,       \* what the delegates are bound to
          Holder,       \* the FTimerHandle variables of the game
          TimerKinds    \* how timers are set: rate, first, loop, once, object

ASSUME TimerAssumption ==
    /\ IsFiniteSet(Index) /\ 0 \in Index
    /\ MaxSerial \in Nat /\ MaxTime \in Nat
    /\ DeltaTimes \subseteq Nat
    /\ TimerKinds \subseteq [rate : Nat \ {0}, first : Nat, loop : BOOLEAN,
                             once : BOOLEAN, object : Object]

VARIABLES
    manager,  \* the fields of FTimerManager
    tick,     \* where Tick is, CallCount, the calls that are left
    held,     \* the value of each FTimerHandle of the game
    bound,    \* the objects that are still there
    history   \* for the properties: see Began, Called and Cleared

vars == <<manager, tick, held, bound, history>>

-----------------------------------------------------------------------------
Free == [status |-> "Free"]
NoHandle == [index |-> 0, serial |-> 0]
Handle == [index : Index, serial : 0 .. MaxSerial]

\* GetTimer
Timer(m, h) == m.Timers[h.index]
Allocated(m, h) == Timer(m, h) # Free /\ Timer(m, h).serial = h.serial

\* Mutant of FindTimer: a timer that was cleared is found until it is popped.
FindTimerMutantPendingRemoval(m, h) == h # NoHandle /\ Allocated(m, h)

FindTimer(m, h) ==
    h # NoHandle /\ Allocated(m, h) /\ Timer(m, h).status # "ActivePendingRemoval"

Init ==
    /\ manager = [Timers |-> [i \in Index |-> Free],
                  ActiveTimerHeap |-> {}, PausedTimerSet |-> {}, PendingTimerSet |-> {},
                  ObjectToTimers |-> [o \in Object |-> {}],
                  CurrentlyExecutingTimer |-> NoHandle,
                  InternalTime |-> 0, LastAssignedSerialNumber |-> 0,
                  HasBeenTickedThisFrame |-> FALSE]
    /\ tick = [at |-> "idle", CallCount |-> 0, left |-> 0]
    /\ held = [v \in Holder |-> NoHandle]
    /\ bound = Object
    /\ history = [remaining |-> [i \in Index |-> 0], cleared |-> {},
                  calledInTick |-> {}, called |-> {},
                  delayed |-> {}, pausedInCall |-> {}]

\* A looping timer paused in its own callback keeps the time it was called
\* for: PauseTimer does not add the periods it has been called for.
KeepsItsTime(i) == manager.Timers[i].serial \notin history.pausedInCall

\* The history: the time each timer has left, counted down only while it is
\* active and up with each period it is called for; the timers that were
\* cleared; those that were called, in this tick if once per frame is the
\* most, and ever if they do not loop; those that were paused by a callback
\* of the tick that was about to call them; those that were ever paused while
\* they were being called.
Began(i, delay) == [history EXCEPT !.remaining[i] = delay]
Cleared(hist, handles) == [hist EXCEPT !.cleared = @ \cup {h.serial : h \in handles}]
Called(h, time) ==
    [history EXCEPT !.remaining[h.index] = IF KeepsItsTime(h.index) THEN @ + time ELSE 0,
                    !.calledInTick = IF Timer(manager, h).bMaxOncePerFrame
                                     THEN @ \cup {h.serial} ELSE @,
                    !.called = IF Timer(manager, h).bLoop THEN @ ELSE @ \cup {h.serial}]

-----------------------------------------------------------------------------
(***************************************************************************)
(* Helpers: functions from manager to manager.                             *)
(***************************************************************************)
SetStatus(m, h, status) == [m EXCEPT !.Timers[h.index].status = status]

\* AddTimer and GenerateHandle, at a free place of Timers
NewHandle(m, i) == [index |-> i, serial |-> m.LastAssignedSerialNumber + 1]
AddTimer(m, i, kind, status, expire) ==
    [m EXCEPT !.Timers[i] = [serial |-> m.LastAssignedSerialNumber + 1,
                             status |-> status, Rate |-> kind.rate,
                             ExpireTime |-> expire, bLoop |-> kind.loop,
                             bMaxOncePerFrame |-> kind.once, object |-> kind.object],
              !.LastAssignedSerialNumber = @ + 1,
              !.ObjectToTimers[kind.object] = @ \cup {NewHandle(m, i)}]

\* RemoveTimer, for each of a set
RemoveTimers(m, handles) ==
    [m EXCEPT !.Timers = [i \in Index |->
                IF \E h \in handles : h.index = i THEN Free ELSE m.Timers[i]],
              !.ObjectToTimers = [o \in Object |-> m.ObjectToTimers[o] \ handles]]

\* Mutant of InternalClearTimers: a timer that is being called stays the one
\* that is being called.
InternalClearTimersMutantExecuting(m, handles) ==
    LET now == {h \in handles : Timer(m, h).status \in {"Pending", "Paused", "Executing"}}
        later == {h \in handles : Timer(m, h).status = "Active"}
    IN  RemoveTimers(
          [m EXCEPT
             !.Timers = [i \in Index |->
               IF \E h \in later : h.index = i
               THEN [m.Timers[i] EXCEPT !.status = "ActivePendingRemoval"]
               ELSE m.Timers[i]],
             !.PendingTimerSet = @ \ now, !.PausedTimerSet = @ \ now], now)

\* InternalClearTimer, for each of a set: a timer in the heap stays there
\* until it is popped.
InternalClearTimers(m, handles) ==
    LET now == {h \in handles : Timer(m, h).status \in {"Pending", "Paused", "Executing"}}
        later == {h \in handles : Timer(m, h).status = "Active"}
    IN  RemoveTimers(
          [m EXCEPT
             !.Timers = [i \in Index |->
               IF \E h \in later : h.index = i
               THEN [m.Timers[i] EXCEPT !.status = "ActivePendingRemoval"]
               ELSE m.Timers[i]],
             !.PendingTimerSet = @ \ now, !.PausedTimerSet = @ \ now,
             !.CurrentlyExecutingTimer = IF @ \in now THEN NoHandle ELSE @], now)

-----------------------------------------------------------------------------
(***************************************************************************)
(* The operations of the game, between ticks or from a callback.           *)
(***************************************************************************)
InTick == tick.at # "idle"
GameRuns == tick.at \in {"idle", "callback"}

\* Timers set before the tick of this frame only start with its end.
Queued(m, i, kind, delay) ==
    IF m.HasBeenTickedThisFrame
    THEN [AddTimer(m, i, kind, "Active", m.InternalTime + delay)
            EXCEPT !.ActiveTimerHeap = @ \cup {NewHandle(m, i)}]
    ELSE [AddTimer(m, i, kind, "Pending", delay)
            EXCEPT !.PendingTimerSet = @ \cup {NewHandle(m, i)}]

\* InternalSetTimer with InRate > 0: the timer the handle stands for is
\* cleared first.
SetTimer(v, kind) ==
    LET old == {h \in {held[v]} : FindTimer(manager, h)}
        m == InternalClearTimers(manager, old)
    IN  /\ GameRuns
        /\ kind.object \in bound
        /\ m.LastAssignedSerialNumber < MaxSerial
        /\ \E i \in Index :
             /\ m.Timers[i] = Free
             /\ manager' = Queued(m, i, kind, kind.first)
             /\ held' = [held EXCEPT ![v] = NewHandle(m, i)]
             /\ history' = Cleared(Began(i, kind.first), old)
        /\ UNCHANGED <<tick, bound>>

SetTimerForNextTick(v, object) ==
    LET m == manager
        kind == [rate |-> 0, loop |-> FALSE, once |-> FALSE, object |-> object]
    IN  /\ GameRuns
        /\ object \in bound
        /\ m.LastAssignedSerialNumber < MaxSerial
        /\ \E i \in Index :
             /\ m.Timers[i] = Free
             /\ manager' = [AddTimer(m, i, kind, "Active", m.InternalTime)
                              EXCEPT !.ActiveTimerHeap = @ \cup {NewHandle(m, i)}]
             /\ held' = [held EXCEPT ![v] = NewHandle(m, i)]
             /\ history' = Began(i, 0)
        /\ UNCHANGED <<tick, bound>>

\* ClearTimer, and SetTimer with InRate <= 0
ClearTimer(v) ==
    LET found == {h \in {held[v]} : FindTimer(manager, h)} IN
    /\ GameRuns
    /\ held[v] # NoHandle
    /\ manager' = InternalClearTimers(manager, found)
    /\ held' = [held EXCEPT ![v] = NoHandle]
    /\ history' = Cleared(history, found)
    /\ UNCHANGED <<tick, bound>>

\* InternalClearAllTimers; those that wait for their removal are among them.
ClearAllTimersForObject(o) ==
    /\ GameRuns
    /\ manager.ObjectToTimers[o] # {}
    /\ manager' = InternalClearTimers(manager, manager.ObjectToTimers[o])
    /\ history' = Cleared(history, manager.ObjectToTimers[o])
    /\ UNCHANGED <<tick, held, bound>>

\* Mutant of TimeLeft: a pending timer's time is taken for a point in time.
TimeLeftMutantPending(m, timer) == timer.ExpireTime - m.InternalTime

\* The time left, as PauseTimer stores it
TimeLeft(m, timer) ==
    IF timer.status = "Pending" THEN timer.ExpireTime
    ELSE timer.ExpireTime - m.InternalTime

\* Mutant of OutOfQueues: the heap keeps the handle.
OutOfQueuesMutantHeap(m, h) ==
    [m EXCEPT !.PendingTimerSet = @ \ {h},
              !.CurrentlyExecutingTimer = IF @ = h THEN NoHandle ELSE @]

OutOfQueues(m, h) ==
    [m EXCEPT !.ActiveTimerHeap = @ \ {h}, !.PendingTimerSet = @ \ {h},
              !.CurrentlyExecutingTimer = IF @ = h THEN NoHandle ELSE @]

PauseTimer(v) ==
    LET h == held[v]
        timer == Timer(manager, h)
        m == OutOfQueues(manager, h)
    IN  /\ GameRuns
        /\ FindTimer(manager, h) /\ timer.status # "Paused"
        /\ manager' = IF timer.status = "Executing" /\ ~timer.bLoop
                      THEN RemoveTimers(m, {h})
                      ELSE [m EXCEPT !.PausedTimerSet = @ \cup {h},
                              !.Timers[h.index].status = "Paused",
                              !.Timers[h.index].ExpireTime = TimeLeft(m, timer)]
        /\ history' = [history EXCEPT
             !.delayed = IF InTick THEN @ \cup {h.serial} ELSE @,
             !.pausedInCall = IF timer.status = "Executing" THEN @ \cup {h.serial} ELSE @]
        /\ UNCHANGED <<tick, held, bound>>

UnPauseTimer(v) ==
    LET h == held[v]
        m == [manager EXCEPT !.PausedTimerSet = @ \ {h}]
    IN  /\ GameRuns
        /\ FindTimer(manager, h) /\ Timer(manager, h).status = "Paused"
        /\ manager' = IF m.HasBeenTickedThisFrame
                      THEN [m EXCEPT !.ActiveTimerHeap = @ \cup {h},
                              !.Timers[h.index].status = "Active",
                              !.Timers[h.index].ExpireTime = @ + m.InternalTime]
                      ELSE [m EXCEPT !.PendingTimerSet = @ \cup {h},
                              !.Timers[h.index].status = "Pending"]
        /\ UNCHANGED <<tick, held, bound, history>>

\* An object is destroyed: the delegates bound to it are not bound any more.
ObjectDestroyed(o) ==
    /\ GameRuns
    /\ o \in bound
    /\ bound' = bound \ {o}
    /\ UNCHANGED <<manager, tick, held, history>>

\* GFrameCounter is counted up.
NextFrame ==
    /\ tick.at = "idle"
    /\ manager.HasBeenTickedThisFrame
    /\ manager' = [manager EXCEPT !.HasBeenTickedThisFrame = FALSE]
    /\ UNCHANGED <<tick, held, bound, history>>

-----------------------------------------------------------------------------
(***************************************************************************)
(* Tick                                                                    *)
(***************************************************************************)
IsActive(i) == manager.Timers[i].status = "Active"

TickBegins(DeltaTime) ==
    /\ tick.at = "idle"
    /\ ~manager.HasBeenTickedThisFrame
    /\ manager.InternalTime + DeltaTime <= MaxTime
    /\ manager' = [manager EXCEPT !.InternalTime = @ + DeltaTime]
    /\ tick' = [tick EXCEPT !.at = "heap"]
    /\ history' =
         [history EXCEPT
            !.calledInTick = {},
            !.delayed = @ \cap {h.serial : h \in manager.PausedTimerSet
                                                \cup manager.PendingTimerSet},
            !.remaining = [i \in Index |-> IF IsActive(i) /\ KeepsItsTime(i)
                                           THEN @[i] - DeltaTime ELSE @[i]]]
    /\ UNCHANGED <<held, bound>>

IsTop(h) ==
    /\ h \in manager.ActiveTimerHeap
    /\ \A g \in manager.ActiveTimerHeap :
         Timer(manager, h).ExpireTime <= Timer(manager, g).ExpireTime

Expired(h) == manager.InternalTime > Timer(manager, h).ExpireTime
WasCleared(h) == Timer(manager, h).status = "ActivePendingRemoval"

PopCleared(h) ==
    /\ tick.at = "heap"
    /\ IsTop(h) /\ WasCleared(h)
    /\ manager' = RemoveTimers([manager EXCEPT !.ActiveTimerHeap = @ \ {h}], {h})
    /\ UNCHANGED <<tick, held, bound, history>>

\* Mutants of CallCount: the period that has ended is not counted; one more
\* is counted than have ended.
CallCountMutantShort(timer) ==
    IF timer.bLoop THEN (manager.InternalTime - timer.ExpireTime) \div timer.Rate ELSE 1
CallCountMutantOver(timer) ==
    IF timer.bLoop THEN (manager.InternalTime - timer.ExpireTime) \div timer.Rate + 2 ELSE 1

\* How many periods of the timer are over
CallCount(timer) ==
    IF timer.bLoop
    THEN (manager.InternalTime - timer.ExpireTime) \div timer.Rate + 1
    ELSE 1

PopExpired(h) ==
    LET calls == CallCount(Timer(manager, h)) IN
    /\ tick.at = "heap"
    /\ IsTop(h) /\ ~WasCleared(h) /\ Expired(h)
    /\ manager' = SetStatus([manager EXCEPT !.ActiveTimerHeap = @ \ {h},
                                            !.CurrentlyExecutingTimer = h],
                            h, "Executing")
    /\ tick' = [at |-> "call", CallCount |-> calls, left |-> calls]
    /\ UNCHANGED <<held, bound, history>>

\* The next call, if one is left; a delegate that is not bound does nothing.
Execute ==
    LET h == manager.CurrentlyExecutingTimer
        timer == Timer(manager, h)
    IN  /\ tick.at = "call" /\ tick.left > 0
        /\ tick' = [tick EXCEPT !.left = @ - 1,
                      !.at = IF timer.object \in bound THEN "callback" ELSE "returned"]
        /\ history' = Called(h, timer.Rate *
                              (IF timer.bMaxOncePerFrame THEN tick.CallCount ELSE 1))
        /\ UNCHANGED <<manager, held, bound>>

GoesOn(timer) == tick.left > 0 /\ ~timer.bMaxOncePerFrame

Rearmed(timer) == timer.bLoop /\ timer.object \in bound

\* Back from the callback: the timer may be gone, or paused.
Returned ==
    LET h == manager.CurrentlyExecutingTimer
        timer == Timer(manager, h)
        m == [manager EXCEPT !.CurrentlyExecutingTimer = NoHandle]
    IN  /\ tick.at \in {"callback", "returned"} \/ (tick.at = "call" /\ tick.left = 0)
        /\ \/ /\ ~FindTimer(manager, h)
              /\ tick' = [tick EXCEPT !.at = "heap"]
              /\ UNCHANGED manager
           \/ /\ FindTimer(manager, h) /\ GoesOn(timer)
              /\ tick' = [tick EXCEPT !.at = "call"]
              /\ UNCHANGED manager
           \/ /\ FindTimer(manager, h) /\ ~GoesOn(timer)
              /\ tick' = [tick EXCEPT !.at = "heap"]
              /\ manager' = IF Rearmed(timer)
                            THEN [m EXCEPT !.ActiveTimerHeap = @ \cup {h},
                                    !.Timers[h.index].status = "Active",
                                    !.Timers[h.index].ExpireTime =
                                       @ + tick.CallCount * timer.Rate]
                            ELSE RemoveTimers(m, {h})
        /\ UNCHANGED <<held, bound, history>>

IsPending(i) == manager.Timers[i].status = "Pending"

TickEnds ==
    /\ tick.at = "heap"
    /\ \A h \in manager.ActiveTimerHeap : IsTop(h) => ~WasCleared(h) /\ ~Expired(h)
    /\ tick' = [tick EXCEPT !.at = "idle"]
    /\ manager' = [manager EXCEPT
         !.HasBeenTickedThisFrame = TRUE,
         !.ActiveTimerHeap = @ \cup manager.PendingTimerSet,
         !.PendingTimerSet = {},
         !.Timers = [i \in Index |->
           IF IsPending(i)
           THEN [manager.Timers[i] EXCEPT !.status = "Active",
                                          !.ExpireTime = @ + manager.InternalTime]
           ELSE manager.Timers[i]]]
    /\ UNCHANGED <<held, bound, history>>

-----------------------------------------------------------------------------
TickGoesOn ==
    \/ \E h \in manager.ActiveTimerHeap : PopCleared(h) \/ PopExpired(h)
    \/ Execute \/ Returned \/ TickEnds

Next ==
    \/ \E v \in Holder :
         \/ \E kind \in TimerKinds : SetTimer(v, kind)
         \/ \E o \in Object : SetTimerForNextTick(v, o)
         \/ ClearTimer(v) \/ PauseTimer(v) \/ UnPauseTimer(v)
    \/ \E o \in Object : ClearAllTimersForObject(o) \/ ObjectDestroyed(o)
    \/ NextFrame
    \/ \E DeltaTime \in DeltaTimes : TickBegins(DeltaTime)
    \/ TickGoesOn

\* Tick goes on when the callbacks return.
Spec == Init /\ [][Next]_vars
FairSpec == Spec /\ WF_vars(TickGoesOn)

-----------------------------------------------------------------------------
\* What the checks on places and handles in GetTimer and
\* SetIndexAndSerialNumber ask for.  No timer has waited for longer than the
\* manager has run.
TypeOK ==
    /\ \A i \in Index : manager.Timers[i] # Free =>
         /\ manager.Timers[i] \in
              [serial : 1 .. manager.LastAssignedSerialNumber, Rate : Nat, ExpireTime : Int,
               status : {"Pending", "Active", "Paused", "Executing", "ActivePendingRemoval"},
               bLoop : BOOLEAN, bMaxOncePerFrame : BOOLEAN, object : Object]
         /\ manager.Timers[i].ExpireTime >= -MaxTime
    /\ manager.LastAssignedSerialNumber \in 0 .. MaxSerial
    /\ manager.InternalTime \in 0 .. MaxTime
    /\ manager.CurrentlyExecutingTimer \in Handle
    /\ held \in [Holder -> Handle]
    /\ tick.at \in {"idle", "heap", "call", "callback", "returned"}
    /\ tick.at = "call" => manager.CurrentlyExecutingTimer # NoHandle

\* Every timer is in the container its status says, and nothing else is
\* there: what the checks of RemoveTimer, PauseTimer and WillRemoveTimerAssert
\* and every use of a handle without looking it up rely on.
ContainersAgree ==
    /\ manager.ActiveTimerHeap = {h \in Handle : Allocated(manager, h)
         /\ Timer(manager, h).status \in {"Active", "ActivePendingRemoval"}}
    /\ manager.PausedTimerSet = {h \in Handle : Allocated(manager, h)
         /\ Timer(manager, h).status = "Paused"}
    /\ manager.PendingTimerSet = {h \in Handle : Allocated(manager, h)
         /\ Timer(manager, h).status = "Pending"}
    /\ {manager.CurrentlyExecutingTimer} \ {NoHandle} = {h \in Handle :
         Allocated(manager, h) /\ Timer(manager, h).status = "Executing"}
    /\ \A o \in Object : manager.ObjectToTimers[o] = {h \in Handle :
         Allocated(manager, h) /\ Timer(manager, h).object = o}

\* The state of the manager agrees with itself, so no check of the code fails
\* and no handle leads to another timer.
ManagerAgrees == TypeOK /\ ContainersAgree

\* What InternalGetTimerRemaining tells of a timer that waits is the time
\* that is left of its delay, however often it was paused.
RemainingIsRight ==
    \A i \in Index : manager.Timers[i] # Free /\ KeepsItsTime(i) =>
        /\ manager.Timers[i].status = "Active" =>
             manager.Timers[i].ExpireTime - manager.InternalTime = history.remaining[i]
        /\ manager.Timers[i].status \in {"Paused", "Pending"} =>
             manager.Timers[i].ExpireTime = history.remaining[i]

\* When Tick is done no timer is overdue, but one that was paused in a tick
\* and is unpaused since then.
NoneOverdue ==
    manager.HasBeenTickedThisFrame /\ ~InTick =>
        \A i \in Index : IsActive(i) =>
            history.remaining[i] >= 0 \/ manager.Timers[i].serial \in history.delayed

\* What the manager says of its timers' times is so, between and within ticks.
TimesAreRight == RemainingIsRight /\ NoneOverdue

Calls(h) == /\ tick.at = "call" /\ tick'.at \in {"callback", "returned"}
            /\ h = manager.CurrentlyExecutingTimer

\* A timer is called when its time is up: a looping one at the intervals of
\* its rate, and not again because it was paused.
CalledWhenDue ==
    [][\A h \in Handle : Calls(h) /\ KeepsItsTime(h.index) =>
         history.remaining[h.index] <= 0]_vars

\* A timer that was cleared, also by its own callback, is never called again;
\* one that does not loop is called once, and one that asked for it at most once
\* in a frame.
NotCalledAgain ==
    [][\A h \in Handle : Calls(h) =>
         /\ h.serial \notin history.cleared
         /\ ~Timer(manager, h).bLoop => h.serial \notin history.called
         /\ Timer(manager, h).bMaxOncePerFrame => h.serial \notin history.calledInTick]_vars

\* The heap is ordered by ExpireTime: a timer that stays in the heap, cleared
\* or not, keeps its place of the array and its ExpireTime.
HeapStaysOrdered ==
    [][\A h \in manager.ActiveTimerHeap \cap manager'.ActiveTimerHeap :
         /\ Allocated(manager', h)
         /\ Timer(manager', h).ExpireTime = Timer(manager, h).ExpireTime]_vars

\* Tick ends, if the callbacks return: it does not call a timer for ever.
TickIsFinite == InTick ~> ~InTick
=============================================================================
