------------------------ MODULE TimerManagerInvariant ------------------------
(***************************************************************************)
(* What every state of FTimerManager keeps, and every step of the game and *)
(* of Tick preserves.                                                      *)
(***************************************************************************)
EXTENDS TimerManager

Status == {"Pending", "Active", "Paused", "Executing", "ActivePendingRemoval"}

TimerData == [serial : Nat \ {0}, status : Status, Rate : Nat, ExpireTime : Int,
              bLoop : BOOLEAN, bMaxOncePerFrame : BOOLEAN, object : Object]

Manager == [Timers : [Index -> TimerData \cup {Free}],
            ActiveTimerHeap : SUBSET Handle, PausedTimerSet : SUBSET Handle,
            PendingTimerSet : SUBSET Handle, ObjectToTimers : [Object -> SUBSET Handle],
            CurrentlyExecutingTimer : Handle, InternalTime : 0 .. MaxTime,
            LastAssignedSerialNumber : 0 .. MaxSerial, HasBeenTickedThisFrame : BOOLEAN]

History == [remaining : [Index -> Int], cleared : SUBSET Nat, calledInTick : SUBSET Nat,
            called : SUBSET Nat, delayed : SUBSET Nat, pausedInCall : SUBSET Nat]

Types ==
    /\ manager \in Manager
    /\ tick \in [at : {"idle", "heap", "call", "callback", "returned"},
                 CallCount : Nat, left : Nat]
    /\ held \in [Holder -> Handle]
    /\ history \in History

Used(i) == manager.Timers[i] # Free
Has(i, status) == manager.Timers[i].status = status
In(i, serials) == manager.Timers[i].serial \in serials

\* Nothing is known of timers that are yet to be set.
HistoryIsPast ==
    \A n \in history.cleared \cup history.calledInTick \cup history.called
               \cup history.delayed \cup history.pausedInCall :
        n <= manager.LastAssignedSerialNumber

\* Every timer has a serial number of its own.
SerialsDistinct ==
    \A i, j \in Index :
        Used(i) /\ Used(j) /\ manager.Timers[i].serial = manager.Timers[j].serial => i = j

\* The frame of a tick is over with the tick.
TickIsBeforeTheEnd ==
    /\ InTick => ~manager.HasBeenTickedThisFrame
    /\ tick.at = "call" => manager.CurrentlyExecutingTimer # NoHandle

-----------------------------------------------------------------------------
(* What is so of the timer at a place of Timers                            *)

\* It was set before those to come, at a time when the manager ran, and has
\* a rate if it loops.
SetBefore(i) ==
    /\ manager.Timers[i].serial <= manager.LastAssignedSerialNumber
    /\ manager.Timers[i].bLoop => manager.Timers[i].Rate > 0
    /\ manager.Timers[i].ExpireTime >=
         (IF manager.Timers[i].status \in {"Paused", "Pending"} THEN -manager.InternalTime
          ELSE 0)

\* The calls it has had, when it is executing
CallsMade(timer) ==
    IF ~timer.bMaxOncePerFrame THEN tick.CallCount - tick.left
    ELSE IF tick.at = "call" THEN 0 ELSE tick.CallCount

\* While it is executing Tick is there for it, because it expired; its time
\* goes up with every call.
ExecutingExpired(i) ==
    LET timer == manager.Timers[i] IN
    Has(i, "Executing") =>
        /\ tick.at \in {"call", "callback", "returned"}
        /\ timer.ExpireTime < manager.InternalTime
        /\ tick.CallCount = CallCount(timer)
        /\ tick.left <= tick.CallCount
        /\ IF tick.at = "call" THEN tick.left > 0 ELSE tick.left < tick.CallCount
        /\ KeepsItsTime(i) =>
             history.remaining[i] =
               timer.ExpireTime - manager.InternalTime + timer.Rate * CallsMade(timer)
        /\ ~KeepsItsTime(i) /\ tick.at # "call" => history.remaining[i] = 0

\* When it was cleared it only waits for its removal.
ClearedIsGone(i) == In(i, history.cleared) => Has(i, "ActivePendingRemoval")

\* If it does not loop and was called, it is in its call.
CalledIsExecuting(i) ==
    ~manager.Timers[i].bLoop /\ In(i, history.called) =>
        Has(i, "Executing") /\ tick.at # "call"

\* If it is called once per frame, it is not due again in a tick that called it.
OnceIsNotDue(i) ==
    InTick /\ manager.Timers[i].bMaxOncePerFrame /\ In(i, history.calledInTick) =>
        /\ Has(i, "Executing") => tick.at # "call"
        /\ Has(i, "Active") => manager.Timers[i].ExpireTime >= manager.InternalTime

\* The time it has left, if it waits
Waits(i) == manager.Timers[i].status \in {"Active", "Paused", "Pending"}
Left(i) == IF Has(i, "Active") THEN manager.Timers[i].ExpireTime - manager.InternalTime
           ELSE manager.Timers[i].ExpireTime

\* That is the time that is left of its delay; if it paused itself in a call
\* it is at least not later than it seems.
LeftIsRight(i) ==
    Waits(i) =>
        /\ KeepsItsTime(i) => history.remaining[i] = Left(i)
        /\ ~KeepsItsTime(i) /\ history.remaining[i] < 0 => Left(i) < 0

\* It is late only while Tick is on its way to it, or because it was paused
\* in a tick.
LateIsKnown(i) ==
    Waits(i) /\ history.remaining[i] < 0 =>
        \/ In(i, history.delayed)
        \/ InTick /\ Has(i, "Active") /\ manager.Timers[i].ExpireTime < manager.InternalTime

TimerIsRight(i) ==
    Used(i) =>
        /\ SetBefore(i) /\ ExecutingExpired(i)
        /\ ClearedIsGone(i) /\ CalledIsExecuting(i) /\ OnceIsNotDue(i)
        /\ LeftIsRight(i) /\ LateIsKnown(i)

IInv ==
    /\ Types /\ ContainersAgree
    /\ HistoryIsPast /\ SerialsDistinct /\ TickIsBeforeTheEnd
    /\ \A i \in Index : TimerIsRight(i)
=============================================================================
