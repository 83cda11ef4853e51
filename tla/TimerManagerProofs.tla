-------------------------- MODULE TimerManagerProofs --------------------------
(***************************************************************************)
(* FTimerManager keeps its containers and its promises of time for any     *)
(* timers, handles, objects and frames, whatever callbacks do.             *)
(***************************************************************************)
EXTENDS TimerManagerInvariant, WellFoundedInduction, TLAPS

-----------------------------------------------------------------------------
(* Containers, as functions of the manager                                 *)

\* Containers and statuses agree on every timer, but on those of the handles
\* hs, which are in no container.
AgreeBut(m, hs) ==
    /\ \A h \in Handle \ hs :
         /\ h \in m.ActiveTimerHeap <=>
              Allocated(m, h) /\ Timer(m, h).status \in {"Active", "ActivePendingRemoval"}
         /\ h \in m.PausedTimerSet <=> Allocated(m, h) /\ Timer(m, h).status = "Paused"
         /\ h \in m.PendingTimerSet <=> Allocated(m, h) /\ Timer(m, h).status = "Pending"
         /\ h # NoHandle /\ h = m.CurrentlyExecutingTimer <=>
              Allocated(m, h) /\ Timer(m, h).status = "Executing"
    /\ \A h \in hs :
         /\ h \notin m.ActiveTimerHeap /\ h \notin m.PausedTimerSet
         /\ h \notin m.PendingTimerSet /\ h # m.CurrentlyExecutingTimer
    /\ \A o \in Object : \A h \in Handle :
         h \in m.ObjectToTimers[o] <=> Allocated(m, h) /\ Timer(m, h).object = o

Agree(m) == AgreeBut(m, {})
AgreeButOn(m, h) == AgreeBut(m, {h})

\* n has the timer t at place i, and the other timers of m.
Replaced(n, m, i, t) ==
    /\ n.Timers[i] = t
    /\ \A j \in Index : j # i => n.Timers[j] = m.Timers[j]

\* Agree says of a manager what ContainersAgree says of the state: the two
\* are the same, so that lemmas can speak of managers in the middle of a call.
LEMMA AgreeIsContainersAgree ==
  ASSUME manager \in Manager
  PROVE  ContainersAgree <=> Agree(manager)
<1>1. ASSUME ContainersAgree PROVE Agree(manager)
  BY <1>1 DEF ContainersAgree, Agree, AgreeBut
<1>2. ASSUME Agree(manager) PROVE ContainersAgree
  <2>1. manager.ActiveTimerHeap = {h \in Handle : Allocated(manager, h)
         /\ Timer(manager, h).status \in {"Active", "ActivePendingRemoval"}}
    BY <1>2 DEF Agree, AgreeBut, Manager
  <2>2. manager.PausedTimerSet = {h \in Handle : Allocated(manager, h)
         /\ Timer(manager, h).status = "Paused"}
    BY <1>2 DEF Agree, AgreeBut, Manager
  <2>3. manager.PendingTimerSet = {h \in Handle : Allocated(manager, h)
         /\ Timer(manager, h).status = "Pending"}
    BY <1>2 DEF Agree, AgreeBut, Manager
  <2>4. {manager.CurrentlyExecutingTimer} \ {NoHandle} = {h \in Handle :
         Allocated(manager, h) /\ Timer(manager, h).status = "Executing"}
    BY <1>2 DEF Agree, AgreeBut, Manager
  <2>5. \A o \in Object : manager.ObjectToTimers[o] = {h \in Handle :
         Allocated(manager, h) /\ Timer(manager, h).object = o}
    BY <1>2 DEF Agree, AgreeBut, Manager
  <2> QED BY <2>1, <2>2, <2>3, <2>4, <2>5 DEF ContainersAgree
<1> QED BY <1>1, <1>2

\* The same of the next state
LEMMA AgreeIsContainersAgreeNext ==
  ASSUME manager' \in Manager, Agree(manager')
  PROVE  ContainersAgree'
<1>1. manager'.ActiveTimerHeap = {h \in Handle : Allocated(manager', h)
       /\ Timer(manager', h).status \in {"Active", "ActivePendingRemoval"}}
  BY DEF Agree, AgreeBut, Manager
<1>2. manager'.PausedTimerSet = {h \in Handle : Allocated(manager', h)
       /\ Timer(manager', h).status = "Paused"}
  BY DEF Agree, AgreeBut, Manager
<1>3. manager'.PendingTimerSet = {h \in Handle : Allocated(manager', h)
       /\ Timer(manager', h).status = "Pending"}
  BY DEF Agree, AgreeBut, Manager
<1>4. {manager'.CurrentlyExecutingTimer} \ {NoHandle} = {h \in Handle :
       Allocated(manager', h) /\ Timer(manager', h).status = "Executing"}
  BY DEF Agree, AgreeBut, Manager
<1>5. \A o \in Object : manager'.ObjectToTimers[o] = {h \in Handle :
       Allocated(manager', h) /\ Timer(manager', h).object = o}
  BY DEF Agree, AgreeBut, Manager
<1> QED BY <1>1, <1>2, <1>3, <1>4, <1>5 DEF ContainersAgree

\* A handle is its index and its serial number (FTimerHandle compares them
\* as one number).
LEMMA HandleIs ==
  ASSUME NEW g \in Handle, NEW h \in Handle, g.index = h.index, g.serial = h.serial
  PROVE  g = h
BY DEF Handle

\* A timer is not a free place.
LEMMA TimerIsNotFree == Free \notin TimerData
BY DEF Free, TimerData, Status

\* Timers that are in no container are removed.
LEMMA RemoveTimersAgrees ==
  ASSUME NEW m \in Manager, NEW hs \in SUBSET Handle, AgreeBut(m, hs),
         \A h \in hs : Allocated(m, h)
  PROVE  RemoveTimers(m, hs) \in Manager /\ Agree(RemoveTimers(m, hs))
<1> DEFINE n == RemoveTimers(m, hs)
<1>1. n \in Manager
  BY DEF RemoveTimers, Manager
<1>2. \A i \in Index : n.Timers[i] = IF \E h \in hs : h.index = i THEN Free ELSE m.Timers[i]
  BY DEF RemoveTimers, Manager
<1>3. /\ n.ActiveTimerHeap = m.ActiveTimerHeap /\ n.PausedTimerSet = m.PausedTimerSet
      /\ n.PendingTimerSet = m.PendingTimerSet
      /\ n.CurrentlyExecutingTimer = m.CurrentlyExecutingTimer
      /\ \A o \in Object : n.ObjectToTimers[o] = m.ObjectToTimers[o] \ hs
  BY DEF RemoveTimers, Manager
<1> HIDE DEF n
<1>4. ASSUME NEW h \in Handle
      PROVE  /\ h \in hs => ~Allocated(n, h)
             /\ h \notin hs => (Allocated(n, h) <=> Allocated(m, h))
             /\ h \notin hs /\ Allocated(m, h) => Timer(n, h) = Timer(m, h)
  <2>1. h.index \in Index
    BY DEF Handle
  <2>2. CASE h \in hs
    BY <1>2, <2>1, <2>2 DEF Allocated, Timer
  <2>3. CASE h \notin hs /\ ~(\E g \in hs : g.index = h.index)
    BY <1>2, <2>1, <2>3 DEF Allocated, Timer
  <2>4. CASE h \notin hs /\ \E g \in hs : g.index = h.index
    <3>1. PICK g \in hs : g.index = h.index
      BY <2>4
    <3>2. g.serial # h.serial
      BY <3>1, <2>4, HandleIs
    <3> QED BY <1>2, <2>1, <2>4, <3>1, <3>2 DEF Allocated, Timer
  <2> QED BY <2>2, <2>3, <2>4
<1>5. \A h \in hs : h # NoHandle
  <2> SUFFICES ASSUME NEW h \in hs, h = NoHandle PROVE FALSE
    OBVIOUS
  <2> QED BY DEF Allocated, Timer, Manager, TimerData, NoHandle, Handle
<1>6. Agree(n)
  BY <1>3, <1>4, <1>5 DEF Agree, AgreeBut
<1> QED BY <1>1, <1>6 DEF n

\* What is left alone of the manager
SameClock(n, m) ==
    /\ n.InternalTime = m.InternalTime
    /\ n.LastAssignedSerialNumber = m.LastAssignedSerialNumber
    /\ n.HasBeenTickedThisFrame = m.HasBeenTickedThisFrame

\* The places of timers that are cleared are free, or wait for their removal.
IsCleared(n, m, hs) ==
    \A i \in Index :
        \/ /\ \A h \in hs : h.index # i
           /\ n.Timers[i] = m.Timers[i]
        \/ /\ \E h \in hs : h.index = i
           /\ m.Timers[i].status \in {"Pending", "Paused", "Executing"}
           /\ n.Timers[i] = Free
        \/ /\ \E h \in hs : h.index = i
           /\ m.Timers[i].status \in {"Active", "ActivePendingRemoval"}
           /\ n.Timers[i] = [m.Timers[i] EXCEPT !.status = "ActivePendingRemoval"]

\* InternalClearTimers takes every timer out of the one container it is in, and
\* the containers agree again; timers in the heap only get the status of those
\* to be removed, and stay in it.
LEMMA InternalClearTimersAgrees ==
  ASSUME NEW m \in Manager, NEW hs \in SUBSET Handle, Agree(m),
         \A h \in hs : Allocated(m, h)
  PROVE  LET n == InternalClearTimers(m, hs) IN
         /\ n \in Manager /\ Agree(n)
         /\ SameClock(n, m) /\ IsCleared(n, m, hs)
         /\ n.ActiveTimerHeap = m.ActiveTimerHeap
         /\ n.CurrentlyExecutingTimer \in {m.CurrentlyExecutingTimer, NoHandle}
<1> DEFINE now == {h \in hs : Timer(m, h).status \in {"Pending", "Paused", "Executing"}}
           later == {h \in hs : Timer(m, h).status = "Active"}
           Timers == [i \in Index |->
               IF \E h \in later : h.index = i
               THEN [m.Timers[i] EXCEPT !.status = "ActivePendingRemoval"]
               ELSE m.Timers[i]]
           k == [m EXCEPT
             !.Timers = Timers,
             !.PendingTimerSet = @ \ now, !.PausedTimerSet = @ \ now,
             !.CurrentlyExecutingTimer = IF @ \in now THEN NoHandle ELSE @]
<1>1. InternalClearTimers(m, hs) = RemoveTimers(k, now)
  BY Zenon DEF InternalClearTimers
<1>2. /\ now \in SUBSET Handle /\ later \in SUBSET Handle
      /\ NoHandle \in Handle
  BY TimerAssumption DEF NoHandle, Handle
<1>3. \A h \in Handle : Allocated(m, h) => Timer(m, h) \in TimerData /\ h # NoHandle
  BY DEF Allocated, Timer, Manager, Handle, NoHandle, TimerData
<1>4. \A i \in Index : Timers[i] \in TimerData \cup {Free}
  <2> SUFFICES ASSUME NEW i \in Index PROVE Timers[i] \in TimerData \cup {Free}
    OBVIOUS
  <2>1. m.Timers[i] \in TimerData \cup {Free}
    BY DEF Manager
  <2>2. (\E h \in later : h.index = i) => m.Timers[i] \in TimerData
    BY <1>3 DEF Timer
  <2>3. m.Timers[i] \in TimerData =>
          [m.Timers[i] EXCEPT !.status = "ActivePendingRemoval"] \in TimerData
    BY DEF TimerData, Status
  <2> QED BY <2>1, <2>2, <2>3
<1>5. /\ k.Timers = Timers /\ k.ActiveTimerHeap = m.ActiveTimerHeap
      /\ k.PausedTimerSet = m.PausedTimerSet \ now
      /\ k.PendingTimerSet = m.PendingTimerSet \ now
      /\ k.ObjectToTimers = m.ObjectToTimers
      /\ k.CurrentlyExecutingTimer = IF m.CurrentlyExecutingTimer \in now
                                     THEN NoHandle ELSE m.CurrentlyExecutingTimer
      /\ SameClock(k, m)
  <2> HIDE DEF Timers, now
  <2> QED BY DEF Manager, SameClock
<1>6. k \in Manager
  <2>1. Timers \in [Index -> TimerData \cup {Free}]
    BY <1>4
  <2> HIDE DEF Timers, now
  <2> QED BY <1>2, <2>1 DEF Manager
<1> HIDE DEF k
<1>7. ASSUME NEW h \in Handle
      PROVE  /\ Allocated(k, h) <=> Allocated(m, h)
             /\ \/ Timer(k, h) = Timer(m, h)
                \/ /\ Timer(m, h) \in TimerData
                   /\ Timer(m, h).status = "Active"
                   /\ Timer(k, h) = [Timer(m, h) EXCEPT !.status = "ActivePendingRemoval"]
  <2>1. h.index \in Index
    BY DEF Handle
  <2>2. CASE \E g \in later : g.index = h.index
    <3>1. Timer(m, h).status = "Active" /\ Timer(m, h) \in TimerData
      BY <1>3, <1>2, <2>2 DEF Timer
    <3>2. Timer(k, h) = [Timer(m, h) EXCEPT !.status = "ActivePendingRemoval"]
      BY <1>5, <2>1, <2>2 DEF Timer
    <3>3. /\ Timer(k, h) \in TimerData /\ Timer(k, h).serial = Timer(m, h).serial
      BY <3>1, <3>2 DEF TimerData, Status
    <3> QED BY <3>1, <3>2, <3>3, TimerIsNotFree DEF Allocated
  <2>3. CASE ~\E g \in later : g.index = h.index
    <3>1. Timer(k, h) = Timer(m, h)
      BY <1>5, <2>1, <2>3 DEF Timer
    <3> QED BY <3>1 DEF Allocated
  <2> QED BY <2>2, <2>3
<1>8. AgreeBut(k, now)
  <2>1. ASSUME NEW h \in Handle
        PROVE  /\ \/ Timer(k, h).status = Timer(m, h).status
                  \/ /\ Timer(k, h).status = "ActivePendingRemoval"
                     /\ Timer(m, h).status = "Active"
               /\ Timer(k, h).object = Timer(m, h).object
    <3>1. CASE Timer(k, h) = Timer(m, h)
      BY <3>1
    <3>2. CASE /\ Timer(m, h) \in TimerData
               /\ Timer(m, h).status = "Active"
               /\ Timer(k, h) = [Timer(m, h) EXCEPT !.status = "ActivePendingRemoval"]
      BY <3>2 DEF TimerData
    <3> QED BY <1>7, <3>1, <3>2
  <2>2. ASSUME NEW h \in now
        PROVE  /\ h \notin k.ActiveTimerHeap /\ h \notin k.PausedTimerSet
               /\ h \notin k.PendingTimerSet /\ h # k.CurrentlyExecutingTimer
    BY <1>2, <1>3, <1>5 DEF Agree, AgreeBut
  <2>3. ASSUME NEW h \in Handle \ now
        PROVE  /\ h \in k.ActiveTimerHeap <=> h \in m.ActiveTimerHeap
               /\ h \in k.PausedTimerSet <=> h \in m.PausedTimerSet
               /\ h \in k.PendingTimerSet <=> h \in m.PendingTimerSet
               /\ h # NoHandle /\ h = k.CurrentlyExecutingTimer
                    <=> h # NoHandle /\ h = m.CurrentlyExecutingTimer
    <3> HIDE DEF now
    <3> QED BY <1>5
  <2> HIDE DEF now, later
  <2> QED BY <1>2, <1>5, <1>7, <2>1, <2>2, <2>3 DEF Agree, AgreeBut
<1> DEFINE n == RemoveTimers(k, now)
<1>9. n \in Manager /\ Agree(n)
  BY <1>2, <1>6, <1>7, <1>8, RemoveTimersAgrees
<1>10. /\ n.ActiveTimerHeap = m.ActiveTimerHeap
       /\ n.CurrentlyExecutingTimer \in {m.CurrentlyExecutingTimer, NoHandle}
       /\ SameClock(n, m)
       /\ \A i \in Index : n.Timers[i] = IF \E h \in now : h.index = i THEN Free ELSE Timers[i]
  <2> HIDE DEF now, Timers
  <2> QED BY <1>5, <1>6 DEF RemoveTimers, Manager, SameClock
<1>11. IsCleared(n, m, hs)
  <2> SUFFICES ASSUME NEW i \in Index
        PROVE  \/ /\ \A h \in hs : h.index # i
                  /\ n.Timers[i] = m.Timers[i]
               \/ /\ \E h \in hs : h.index = i
                  /\ m.Timers[i].status \in {"Pending", "Paused", "Executing"}
                  /\ n.Timers[i] = Free
               \/ /\ \E h \in hs : h.index = i
                  /\ m.Timers[i].status \in {"Active", "ActivePendingRemoval"}
                  /\ n.Timers[i] = [m.Timers[i] EXCEPT !.status = "ActivePendingRemoval"]
    BY DEF IsCleared
  <2>1. n.Timers[i] = IF \E h \in now : h.index = i THEN Free ELSE Timers[i]
    BY <1>10
  <2>2. CASE \A h \in hs : h.index # i
    BY <2>1, <2>2
  <2>3. CASE \E h \in hs : h.index = i
    <3>1. PICK h \in hs : h.index = i
      BY <2>3
    <3>2. Timer(m, h) = m.Timers[i] /\ m.Timers[i] \in TimerData
      BY <3>1, <1>3 DEF Timer
    <3>3. CASE m.Timers[i].status \in {"Pending", "Paused", "Executing"}
      BY <2>1, <3>1, <3>2, <3>3
    <3>4. CASE m.Timers[i].status = "Active"
      <4>1. ~\E g \in now : g.index = i
        BY <3>4 DEF Timer
      <4>2. \E g \in later : g.index = i
        BY <3>1, <3>2, <3>4
      <4> QED BY <2>1, <3>1, <3>4, <4>1, <4>2
    <3>5. CASE m.Timers[i].status = "ActivePendingRemoval"
      <4>1. (~\E g \in now : g.index = i) /\ (~\E g \in later : g.index = i)
        BY <3>5 DEF Timer
      <4>2. m.Timers[i] = [m.Timers[i] EXCEPT !.status = "ActivePendingRemoval"]
        BY <3>2, <3>5 DEF TimerData
      <4> QED BY <2>1, <3>1, <3>5, <4>1, <4>2
    <3> QED BY <3>2, <3>3, <3>4, <3>5 DEF TimerData, Status
  <2> QED BY <2>2, <2>3
<1> HIDE DEF now
<1> QED BY <1>1, <1>9, <1>10, <1>11

\* The invalid handle names no timer, and an allocated place holds a timer.
LEMMA NoHandleIs ==
  /\ NoHandle \in Handle
  /\ \A m \in Manager : ~Allocated(m, NoHandle)
  /\ \A m \in Manager, h \in Handle : Allocated(m, h) => Timer(m, h) \in TimerData
<1>1. NoHandle \in Handle
  BY TimerAssumption DEF NoHandle, Handle
<1>2. \A m \in Manager, h \in Handle : Allocated(m, h) => Timer(m, h) \in TimerData
  BY DEF Allocated, Timer, Manager, Handle
<1>3. \A m \in Manager : Allocated(m, NoHandle) => FALSE
  BY <1>1, <1>2 DEF Allocated, NoHandle, TimerData
<1> QED BY <1>1, <1>2, <1>3

\* A timer that is in no container gets into that of its status.
LEMMA RequeuedAgrees ==
  ASSUME NEW m \in Manager, NEW n \in Manager, NEW h \in Handle, NEW t \in TimerData,
         AgreeButOn(m, h), Allocated(m, h),
         t.serial = h.serial, t.object = Timer(m, h).object,
         t.status # "ActivePendingRemoval",
         t.status = "Executing" => m.CurrentlyExecutingTimer = NoHandle,
         Replaced(n, m, h.index, t),
         n.ObjectToTimers = m.ObjectToTimers,
         n.ActiveTimerHeap = IF t.status = "Active" THEN m.ActiveTimerHeap \cup {h}
                             ELSE m.ActiveTimerHeap,
         n.PausedTimerSet = IF t.status = "Paused" THEN m.PausedTimerSet \cup {h}
                            ELSE m.PausedTimerSet,
         n.PendingTimerSet = IF t.status = "Pending" THEN m.PendingTimerSet \cup {h}
                             ELSE m.PendingTimerSet,
         n.CurrentlyExecutingTimer = IF t.status = "Executing" THEN h
                                     ELSE m.CurrentlyExecutingTimer
  PROVE  Agree(n)
<1>1. h # NoHandle
  BY NoHandleIs
<1>2. Timer(n, h) = t /\ Allocated(n, h)
  BY TimerIsNotFree DEF Timer, Allocated, Replaced
<1>3. ASSUME NEW g \in Handle, g # h
      PROVE  /\ Allocated(n, g) <=> Allocated(m, g)
             /\ Allocated(m, g) => Timer(n, g) = Timer(m, g)
  <2>1. CASE g.index = h.index
    <3>1. g.serial # h.serial
      BY <1>3, <2>1, HandleIs
    <3>2. ~Allocated(n, g)
      BY <1>2, <2>1, <3>1 DEF Allocated, Timer
    <3>3. ~Allocated(m, g)
      BY <2>1, <3>1 DEF Allocated, Timer
    <3> QED BY <3>2, <3>3
  <2>2. CASE g.index # h.index
    BY <2>2 DEF Allocated, Timer, Replaced, Handle
  <2> QED BY <2>1, <2>2
<1>4. ASSUME NEW g \in Handle, g # h
      PROVE  /\ g \in n.ActiveTimerHeap <=> g \in m.ActiveTimerHeap
             /\ g \in n.PausedTimerSet <=> g \in m.PausedTimerSet
             /\ g \in n.PendingTimerSet <=> g \in m.PendingTimerSet
             /\ g # NoHandle /\ g = n.CurrentlyExecutingTimer
                  <=> g # NoHandle /\ g = m.CurrentlyExecutingTimer
  BY <1>4
<1>5. ASSUME NEW g \in Handle
      PROVE  /\ g \in n.ActiveTimerHeap <=>
                  Allocated(n, g) /\ Timer(n, g).status \in {"Active", "ActivePendingRemoval"}
             /\ g \in n.PausedTimerSet <=> Allocated(n, g) /\ Timer(n, g).status = "Paused"
             /\ g \in n.PendingTimerSet <=> Allocated(n, g) /\ Timer(n, g).status = "Pending"
             /\ g # NoHandle /\ g = n.CurrentlyExecutingTimer <=>
                  Allocated(n, g) /\ Timer(n, g).status = "Executing"
  <2>1. CASE g = h
    <3>1. /\ h \notin m.ActiveTimerHeap /\ h \notin m.PausedTimerSet
          /\ h \notin m.PendingTimerSet /\ h # m.CurrentlyExecutingTimer
      BY DEF AgreeBut, AgreeButOn
    <3>2. t.status \in Status
      BY DEF TimerData
    <3> QED BY <1>1, <1>2, <2>1, <3>1, <3>2 DEF Status
  <2>2. CASE g # h
    <3>1. g \in Handle \ {h}
      BY <2>2
    <3> QED BY <1>3, <1>4, <2>2, <3>1 DEF AgreeBut, AgreeButOn
  <2> QED BY <2>1, <2>2
<1>6. ASSUME NEW o \in Object, NEW g \in Handle
      PROVE  g \in n.ObjectToTimers[o] <=> Allocated(n, g) /\ Timer(n, g).object = o
  <2>1. g \in m.ObjectToTimers[o] <=> Allocated(m, g) /\ Timer(m, g).object = o
    BY DEF AgreeBut, AgreeButOn
  <2> QED BY <1>2, <1>3, <2>1
<1> QED BY <1>5, <1>6 DEF Agree, AgreeBut

\* What a timer is set to
IsKind(kind) ==
    /\ kind.rate \in Nat /\ kind.loop \in BOOLEAN /\ kind.once \in BOOLEAN
    /\ kind.object \in Object

\* The timer that AddTimer adds
TimerAdded(m, kind, status, expire) ==
    [serial |-> m.LastAssignedSerialNumber + 1,
     status |-> status, Rate |-> kind.rate,
     ExpireTime |-> expire, bLoop |-> kind.loop,
     bMaxOncePerFrame |-> kind.once, object |-> kind.object]

\* A new timer is in no container yet.
LEMMA AddTimerAgrees ==
  ASSUME NEW m \in Manager, Agree(m), NEW i \in Index, m.Timers[i] = Free,
         NEW kind, IsKind(kind),
         NEW status \in {"Active", "Pending"}, NEW expire \in Int,
         m.LastAssignedSerialNumber < MaxSerial
  PROVE  LET n == AddTimer(m, i, kind, status, expire)
             h == NewHandle(m, i)
             t == TimerAdded(m, kind, status, expire)
         IN
         /\ n \in Manager /\ h \in Handle /\ t \in TimerData
         /\ AgreeButOn(n, h) /\ Allocated(n, h) /\ Timer(n, h) = t
         /\ Replaced(n, m, i, t)
         /\ n.InternalTime = m.InternalTime
         /\ n.LastAssignedSerialNumber = m.LastAssignedSerialNumber + 1
         /\ n.HasBeenTickedThisFrame = m.HasBeenTickedThisFrame
<1> DEFINE n == AddTimer(m, i, kind, status, expire)
           h == NewHandle(m, i)
           t == TimerAdded(m, kind, status, expire)
<1>1. n = [m EXCEPT !.Timers = [m.Timers EXCEPT ![i] = t],
                    !.LastAssignedSerialNumber = m.LastAssignedSerialNumber + 1,
                    !.ObjectToTimers[kind.object] = @ \cup {h}]
  BY DEF AddTimer, Manager, TimerAdded
<1>2. /\ m.LastAssignedSerialNumber \in Nat
      /\ m.LastAssignedSerialNumber + 1 \in 0 .. MaxSerial
      /\ kind.object \in Object
  BY TimerAssumption DEF Manager, IsKind
<1>3. h \in Handle /\ h.index = i /\ h.serial = m.LastAssignedSerialNumber + 1
  BY <1>2 DEF NewHandle, Handle
<1>4. t \in TimerData /\ t.serial = h.serial /\ t.object = kind.object
  BY <1>2, <1>3 DEF TimerData, Status, TimerAdded, IsKind
<1> HIDE DEF t, h, n
<1>5. /\ n.Timers = [m.Timers EXCEPT ![i] = t]
      /\ n.ActiveTimerHeap = m.ActiveTimerHeap /\ n.PausedTimerSet = m.PausedTimerSet
      /\ n.PendingTimerSet = m.PendingTimerSet
      /\ n.CurrentlyExecutingTimer = m.CurrentlyExecutingTimer
      /\ n.ObjectToTimers = [m.ObjectToTimers EXCEPT ![kind.object] = @ \cup {h}]
  BY <1>1 DEF Manager
<1>6. n \in Manager
  BY <1>1, <1>2, <1>3, <1>4 DEF Manager
<1>7. Timer(n, h) = t /\ Allocated(n, h)
  BY <1>3, <1>4, <1>5, TimerIsNotFree DEF Timer, Allocated, Manager
<1>8. ASSUME NEW g \in Handle, g # h
      PROVE  /\ Allocated(n, g) <=> Allocated(m, g)
             /\ Allocated(m, g) => Timer(n, g) = Timer(m, g)
  <2>1. CASE g.index = i
    <3>1. g.serial # h.serial
      BY <1>3, <1>8, <2>1, HandleIs
    <3>2. ~Allocated(n, g)
      BY <1>3, <1>7, <2>1, <3>1 DEF Allocated, Timer
    <3> QED BY <2>1, <3>2 DEF Allocated, Timer
  <2>2. CASE g.index # i
    BY <1>5, <2>2 DEF Allocated, Timer, Manager, Handle
  <2> QED BY <2>1, <2>2
<1>9. ~Allocated(m, h)
  BY <1>3 DEF Allocated, Timer
<1>10. AgreeButOn(n, h)
  <2>1. ASSUME NEW g \in Handle \ {h}
        PROVE  /\ g \in n.ActiveTimerHeap <=>
                  Allocated(n, g) /\ Timer(n, g).status \in {"Active", "ActivePendingRemoval"}
               /\ g \in n.PausedTimerSet <=> Allocated(n, g) /\ Timer(n, g).status = "Paused"
               /\ g \in n.PendingTimerSet <=> Allocated(n, g) /\ Timer(n, g).status = "Pending"
               /\ g # NoHandle /\ g = n.CurrentlyExecutingTimer <=>
                  Allocated(n, g) /\ Timer(n, g).status = "Executing"
    BY <1>5, <1>8 DEF Agree, AgreeBut
  <2>2. /\ h \notin n.ActiveTimerHeap /\ h \notin n.PausedTimerSet
        /\ h \notin n.PendingTimerSet /\ h # n.CurrentlyExecutingTimer
    <3>1. h # NoHandle
      BY <1>6, <1>7, NoHandleIs
    <3> QED BY <1>3, <1>5, <1>9, <3>1 DEF Agree, AgreeBut
  <2>3. ASSUME NEW o \in Object, NEW g \in Handle
        PROVE  g \in n.ObjectToTimers[o] <=> Allocated(n, g) /\ Timer(n, g).object = o
    <3>1. g \in m.ObjectToTimers[o] <=> Allocated(m, g) /\ Timer(m, g).object = o
      BY DEF Agree, AgreeBut
    <3>2. g \in n.ObjectToTimers[o] <=> g \in m.ObjectToTimers[o] \/ (o = kind.object /\ g = h)
      BY <1>2, <1>5 DEF Manager
    <3>3. CASE g = h
      BY <1>4, <1>7, <1>9, <3>1, <3>2, <3>3
    <3>4. CASE g # h
      BY <1>8, <3>1, <3>2, <3>4
    <3> QED BY <3>3, <3>4
  <2> QED BY <2>1, <2>2, <2>3 DEF AgreeBut, AgreeButOn
<1>11. /\ Replaced(n, m, i, t)
       /\ n.InternalTime = m.InternalTime
       /\ n.LastAssignedSerialNumber = m.LastAssignedSerialNumber + 1
       /\ n.HasBeenTickedThisFrame = m.HasBeenTickedThisFrame
  BY <1>1, <1>5 DEF Manager, Replaced
<1> QED BY <1>3, <1>4, <1>6, <1>7, <1>10, <1>11 DEF n, h, t

-----------------------------------------------------------------------------
(* Timers that a step leaves alone, and those that it clears               *)

\* The history knows as much of the timer at a place as before.
KnownAsBefore(i) ==
    /\ history'.remaining[i] = history.remaining[i]
    /\ In(i, history'.cleared) <=> In(i, history.cleared)
    /\ In(i, history'.calledInTick) <=> In(i, history.calledInTick)
    /\ In(i, history'.called) <=> In(i, history.called)
    /\ In(i, history'.delayed) <=> In(i, history.delayed)
    /\ In(i, history'.pausedInCall) <=> In(i, history.pausedInCall)

\* The clock stands still, and timers are only added.
ClockStands ==
    /\ manager'.InternalTime = manager.InternalTime
    /\ manager'.LastAssignedSerialNumber >= manager.LastAssignedSerialNumber

\* Tick is not at the timer, or it does not go on.
TickKeeps(i) ==
    \/ tick' = tick
    \/ (Used(i) => ~Has(i, "Executing")) /\ (InTick' <=> InTick)

\* A timer stays right if it is left alone, by a step of Tick too unless it
\* is the timer that is being called.
LEMMA KeptTimer ==
  ASSUME Types, Types', ClockStands,
         NEW i \in Index, TimerIsRight(i),
         manager'.Timers[i] = manager.Timers[i],
         Used(i) => KnownAsBefore(i), TickKeeps(i)
  PROVE  TimerIsRight(i)'
<1> SUFFICES ASSUME Used(i) PROVE TimerIsRight(i)'
  BY DEF TimerIsRight, Used
<1>1. manager.Timers[i] \in TimerData
  BY DEF Types, Manager, Used
<1>2. manager.LastAssignedSerialNumber \in Int /\ manager'.LastAssignedSerialNumber \in Int
      /\ manager.InternalTime \in Int
  BY DEF Types, Manager
<1>3. SetBefore(i)'
  BY <1>1, <1>2 DEF TimerIsRight, SetBefore, ClockStands, TimerData
<1>4. ExecutingExpired(i)'
  BY DEF TickKeeps, TimerIsRight, ExecutingExpired, ClockStands, KnownAsBefore, Has, In, KeepsItsTime,
         CallCount, CallsMade
<1>5. ClearedIsGone(i)' /\ CalledIsExecuting(i)' /\ OnceIsNotDue(i)'
  BY DEF TickKeeps, InTick, TimerIsRight, ClearedIsGone, CalledIsExecuting, OnceIsNotDue, ClockStands,
         KnownAsBefore, Has, In
<1>6. LeftIsRight(i)' /\ LateIsKnown(i)'
  BY DEF TickKeeps, InTick, TimerIsRight, LeftIsRight, LateIsKnown, Waits, Left, ClockStands, KnownAsBefore,
         Has, In, KeepsItsTime
<1> QED BY <1>3, <1>4, <1>5, <1>6 DEF TimerIsRight

\* InternalClearTimer leaves the timers it clears free, or waiting for their
\* removal, and the others as they were.
LEMMA ClearedTimers ==
  ASSUME IInv, Types', ClockStands, tick' = tick,
         NEW hs \in SUBSET Handle, \A h \in hs : Allocated(manager, h),
         NEW n, IsCleared(n, manager, hs),
         NEW i \in Index, manager'.Timers[i] = n.Timers[i],
         history'.cleared = history.cleared \cup {h.serial : h \in hs},
         history'.remaining[i] = history.remaining[i],
         history'.calledInTick = history.calledInTick, history'.called = history.called,
         history'.delayed = history.delayed, history'.pausedInCall = history.pausedInCall
  PROVE  TimerIsRight(i)'
<1>1. Types /\ TimerIsRight(i) /\ SerialsDistinct
  BY DEF IInv
<1>2. CASE /\ \A h \in hs : h.index # i
           /\ n.Timers[i] = manager.Timers[i]
  <2>1. Used(i) => ~(\E h \in hs : h.serial = manager.Timers[i].serial)
    <3> SUFFICES ASSUME Used(i), NEW h \in hs, h.serial = manager.Timers[i].serial PROVE FALSE
      OBVIOUS
    <3>1. /\ h.index \in Index /\ manager.Timers[h.index].serial = h.serial
          /\ Used(h.index)
      BY DEF Handle, Allocated, Timer, Used
    <3> QED BY <1>1, <1>2, <3>1 DEF SerialsDistinct
  <2>2. Used(i) => KnownAsBefore(i)
    BY <2>1 DEF KnownAsBefore, In
  <2>3. manager'.Timers[i] = manager.Timers[i]
    BY <1>2
  <2>4. TickKeeps(i)
    BY DEF TickKeeps
  <2> QED BY <1>1, <2>2, <2>3, <2>4, KeptTimer
<1>3. CASE n.Timers[i] = Free
  BY <1>3 DEF TimerIsRight, Used
<1>4. CASE /\ manager.Timers[i].status \in {"Active", "ActivePendingRemoval"}
           /\ n.Timers[i] = [manager.Timers[i] EXCEPT !.status = "ActivePendingRemoval"]
  <2>1. manager.Timers[i] \in TimerData
    BY <1>1, <1>4 DEF Types, Manager, Free
  <2>2. /\ manager'.Timers[i].status = "ActivePendingRemoval"
        /\ manager'.Timers[i].serial = manager.Timers[i].serial
        /\ manager'.Timers[i].bLoop = manager.Timers[i].bLoop
        /\ manager'.Timers[i].Rate = manager.Timers[i].Rate
        /\ manager'.Timers[i].ExpireTime = manager.Timers[i].ExpireTime
    BY <1>4, <2>1 DEF TimerData
  <2>3. Used(i)
    BY <1>4 DEF Used, Free
  <2>4. SetBefore(i)'
    BY <1>1, <1>4, <2>1, <2>2, <2>3
       DEF TimerIsRight, SetBefore, ClockStands, TimerData, Types, Manager
  <2>5. ExecutingExpired(i)' /\ ClearedIsGone(i)' /\ OnceIsNotDue(i)'
    BY <2>2 DEF ExecutingExpired, ClearedIsGone, OnceIsNotDue, Has
  <2>6. CalledIsExecuting(i)'
    BY <1>1, <1>4, <2>2, <2>3 DEF TimerIsRight, CalledIsExecuting, Has, In
  <2>7. LeftIsRight(i)' /\ LateIsKnown(i)'
    BY <2>2 DEF LeftIsRight, LateIsKnown, Waits
  <2> QED BY <2>4, <2>5, <2>6, <2>7 DEF TimerIsRight
<1> QED BY <1>2, <1>3, <1>4 DEF IsCleared

\* A timer that was just set, active or pending, is right.
LEMMA NewTimer ==
  ASSUME Types', HistoryIsPast,
         manager.LastAssignedSerialNumber \in Nat,
         manager'.LastAssignedSerialNumber = manager.LastAssignedSerialNumber + 1,
         NEW i \in Index,
         Used(i)',
         manager'.Timers[i].serial = manager.LastAssignedSerialNumber + 1,
         manager'.Timers[i].bLoop => manager'.Timers[i].Rate > 0,
         NEW delay \in Nat, history'.remaining[i] = delay,
         \/ /\ manager'.Timers[i].status = "Active"
            /\ manager'.Timers[i].ExpireTime = manager'.InternalTime + delay
         \/ /\ manager'.Timers[i].status = "Pending"
            /\ manager'.Timers[i].ExpireTime = delay,
         \A s \in history'.cleared : s <= manager.LastAssignedSerialNumber,
         history'.calledInTick = history.calledInTick, history'.called = history.called,
         history'.delayed = history.delayed, history'.pausedInCall = history.pausedInCall
  PROVE  TimerIsRight(i)'
<1>1. \A s \in history'.cleared \cup history'.calledInTick \cup history'.called
               \cup history'.delayed \cup history'.pausedInCall :
         s # manager.LastAssignedSerialNumber + 1
  BY DEF HistoryIsPast
<1>2. manager'.InternalTime \in Nat
  BY DEF Types, Manager
<1>3. SetBefore(i)'
  BY <1>2 DEF SetBefore
<1>4. ExecutingExpired(i)' /\ ClearedIsGone(i)' /\ CalledIsExecuting(i)' /\ OnceIsNotDue(i)'
  BY <1>1 DEF ExecutingExpired, ClearedIsGone, CalledIsExecuting, OnceIsNotDue, Has, In
<1>5. LeftIsRight(i)' /\ LateIsKnown(i)'
  BY <1>2 DEF LeftIsRight, LateIsKnown, Waits, Left, Has
<1> QED BY <1>3, <1>4, <1>5 DEF TimerIsRight

-----------------------------------------------------------------------------
(* Steps of the game                                                       *)

LEMMA Unpacked ==
  ASSUME IInv
  PROVE  /\ Types /\ manager \in Manager /\ history \in History /\ held \in [Holder -> Handle]
         /\ manager.InternalTime \in Nat /\ manager.LastAssignedSerialNumber \in Nat
         /\ Agree(manager)
         /\ \A i \in Index : TimerIsRight(i)
         /\ \A h \in Handle : Allocated(manager, h) =>
              /\ h.index \in Index /\ Used(h.index) /\ TimerIsRight(h.index)
              /\ Timer(manager, h) = manager.Timers[h.index]
              /\ manager.Timers[h.index] \in TimerData
              /\ manager.Timers[h.index].serial = h.serial
              /\ h.serial \in Nat
              /\ h.serial <= manager.LastAssignedSerialNumber
<1>1. /\ Types /\ manager \in Manager /\ history \in History /\ held \in [Holder -> Handle]
      /\ \A i \in Index : TimerIsRight(i)
  BY DEF IInv, Types
<1>2. manager.InternalTime \in Nat /\ manager.LastAssignedSerialNumber \in Nat
  BY <1>1, TimerAssumption DEF Manager
<1>3. Agree(manager)
  BY <1>1, AgreeIsContainersAgree DEF IInv
<1>4. ASSUME NEW h \in Handle, Allocated(manager, h)
      PROVE  /\ h.index \in Index /\ Used(h.index) /\ TimerIsRight(h.index)
             /\ Timer(manager, h) = manager.Timers[h.index]
             /\ manager.Timers[h.index] \in TimerData
             /\ manager.Timers[h.index].serial = h.serial
             /\ h.serial \in Nat
             /\ h.serial <= manager.LastAssignedSerialNumber
  <2>1. h.index \in Index /\ h.serial \in Nat
    BY TimerAssumption DEF Handle
  <2>2. /\ Timer(manager, h) = manager.Timers[h.index] /\ Used(h.index)
        /\ manager.Timers[h.index].serial = h.serial
    BY <1>4 DEF Allocated, Timer, Used
  <2>3. manager.Timers[h.index] \in TimerData
    BY <1>1, <1>4, <2>2, NoHandleIs
  <2> QED BY <1>1, <2>1, <2>2, <2>3 DEF TimerIsRight, SetBefore
<1> QED BY <1>1, <1>2, <1>3, <1>4

\* The timer at a place has a handle, which tells it from every other timer.
LEMMA HandleOf ==
  ASSUME IInv, NEW i \in Index, Used(i)
  PROVE  LET h == [index |-> i, serial |-> manager.Timers[i].serial] IN
         /\ h \in Handle /\ Allocated(manager, h) /\ Timer(manager, h) = manager.Timers[i]
         /\ h # NoHandle
         /\ \A g \in Handle : Allocated(manager, g) /\ (g.index = i \/ g.serial = h.serial) => g = h
<1> DEFINE h == [index |-> i, serial |-> manager.Timers[i].serial]
<1>1. /\ manager \in Manager /\ manager.Timers[i] \in TimerData
      /\ manager.Timers[i].serial <= manager.LastAssignedSerialNumber
      /\ manager.LastAssignedSerialNumber <= MaxSerial
  BY Unpacked, TimerAssumption DEF Manager, Used, TimerIsRight, SetBefore
<1>2. h \in Handle /\ h.index = i /\ h.serial = manager.Timers[i].serial
  <2>1. manager.Timers[i].serial \in Nat
    BY <1>1 DEF TimerData
  <2>2. manager.Timers[i].serial \in 0 .. MaxSerial
    BY <1>1, <2>1, Unpacked, TimerAssumption
  <2> QED BY <2>2 DEF Handle
<1>3. Allocated(manager, h) /\ Timer(manager, h) = manager.Timers[i]
  BY <1>2 DEF Allocated, Timer, Used
<1>4. ASSUME NEW g \in Handle, Allocated(manager, g), g.index = i \/ g.serial = h.serial
      PROVE  g = h
  <2>1. g.index \in Index /\ Used(g.index) /\ manager.Timers[g.index].serial = g.serial
    BY <1>4, Unpacked
  <2>2. g.index = i
    BY <1>2, <1>4, <2>1 DEF IInv, SerialsDistinct
  <2> QED BY <1>2, <2>1, <2>2, HandleIs
<1>5. h # NoHandle
  BY <1>1, <1>3, NoHandleIs
<1> QED BY <1>2, <1>3, <1>4, <1>5

\* A step that gives out at most one serial number, the next one, keeps them
\* distinct (AddTimer counts LastAssignedSerialNumber up).
LEMMA SerialsStayDistinct ==
  ASSUME IInv, NEW i,
         \A j \in Index : manager'.Timers[j] # Free =>
            \/ manager.Timers[j] # Free /\ manager'.Timers[j].serial = manager.Timers[j].serial
            \/ j = i /\ manager'.Timers[j].serial = manager.LastAssignedSerialNumber + 1
  PROVE  SerialsDistinct'
<1>1. \A j \in Index : manager.Timers[j] # Free =>
        manager.Timers[j].serial <= manager.LastAssignedSerialNumber
  BY DEF IInv, TimerIsRight, SetBefore, Used
<1>2. \A j, k \in Index :
        manager.Timers[j] # Free /\ manager.Timers[k] # Free
          /\ manager.Timers[j].serial = manager.Timers[k].serial => j = k
  BY DEF IInv, SerialsDistinct, Used
<1>3. manager.LastAssignedSerialNumber \in Nat
  BY Unpacked
<1> SUFFICES ASSUME NEW j \in Index, NEW k \in Index,
                    manager'.Timers[j] # Free, manager'.Timers[k] # Free,
                    manager'.Timers[j].serial = manager'.Timers[k].serial
             PROVE  j = k
  BY DEF SerialsDistinct, Used
<1> QED BY <1>1, <1>2, <1>3

\* What is left to show of a step of the game
LEMMA GameStep ==
  ASSUME IInv, GameRuns, tick' = tick, ClockStands,
         manager'.HasBeenTickedThisFrame = manager.HasBeenTickedThisFrame,
         manager' \in Manager, Agree(manager'), held' \in [Holder -> Handle],
         history' \in History, HistoryIsPast', SerialsDistinct',
         \A i \in Index : TimerIsRight(i)'
  PROVE  IInv'
<1>1. Types'
  BY DEF IInv, Types
<1>2. ContainersAgree'
  BY AgreeIsContainersAgreeNext
<1>3. TickIsBeforeTheEnd'
  BY DEF IInv, TickIsBeforeTheEnd, GameRuns, InTick
<1> QED BY <1>1, <1>2, <1>3 DEF IInv

\* A new timer gets into the heap, or waits for the end of the next tick.
LEMMA AddedTimerAgrees ==
  ASSUME NEW m \in Manager, Agree(m), NEW i \in Index, m.Timers[i] = Free,
         NEW kind, IsKind(kind),
         NEW status \in {"Active", "Pending"}, NEW expire \in Int,
         m.LastAssignedSerialNumber < MaxSerial
  PROVE  LET k == AddTimer(m, i, kind, status, expire)
             h == NewHandle(m, i)
             n == IF status = "Active"
                  THEN [k EXCEPT !.ActiveTimerHeap = @ \cup {h}]
                  ELSE [k EXCEPT !.PendingTimerSet = @ \cup {h}]
         IN
         /\ n \in Manager /\ Agree(n) /\ h \in Handle
         /\ n.InternalTime = m.InternalTime
         /\ n.LastAssignedSerialNumber = m.LastAssignedSerialNumber + 1
         /\ n.HasBeenTickedThisFrame = m.HasBeenTickedThisFrame
         /\ \A j \in Index : j # i => n.Timers[j] = m.Timers[j]
         /\ n.Timers[i] = TimerAdded(m, kind, status, expire)
         /\ n.Timers[i] \in TimerData
<1> DEFINE k == AddTimer(m, i, kind, status, expire)
           h == NewHandle(m, i)
           t == TimerAdded(m, kind, status, expire)
           n == IF status = "Active"
                THEN [k EXCEPT !.ActiveTimerHeap = @ \cup {h}]
                ELSE [k EXCEPT !.PendingTimerSet = @ \cup {h}]
<1>1. /\ k \in Manager /\ h \in Handle /\ t \in TimerData
      /\ AgreeButOn(k, h) /\ Allocated(k, h) /\ Timer(k, h) = t
      /\ Replaced(k, m, i, t)
      /\ k.InternalTime = m.InternalTime
      /\ k.LastAssignedSerialNumber = m.LastAssignedSerialNumber + 1
      /\ k.HasBeenTickedThisFrame = m.HasBeenTickedThisFrame
  BY AddTimerAgrees
<1>2. h.index = i /\ h.serial = t.serial /\ t.status = status
  BY DEF NewHandle, TimerAdded
<1> HIDE DEF k, h, t
<1>3. /\ n \in Manager
      /\ n.Timers = k.Timers /\ n.ObjectToTimers = k.ObjectToTimers
      /\ n.PausedTimerSet = k.PausedTimerSet
      /\ n.ActiveTimerHeap = IF status = "Active" THEN k.ActiveTimerHeap \cup {h}
                             ELSE k.ActiveTimerHeap
      /\ n.PendingTimerSet = IF status = "Pending" THEN k.PendingTimerSet \cup {h}
                             ELSE k.PendingTimerSet
      /\ n.CurrentlyExecutingTimer = k.CurrentlyExecutingTimer /\ SameClock(n, k)
  BY <1>1 DEF Manager, SameClock
<1>5. Replaced(n, k, h.index, t)
  BY <1>1, <1>2, <1>3 DEF Replaced
<1>6. Agree(n)
  <2> HIDE DEF n
  <2> QED BY <1>1, <1>2, <1>3, <1>5, RequeuedAgrees
<1>7. /\ \A j \in Index : j # i => n.Timers[j] = m.Timers[j]
      /\ n.Timers[i] = t
  BY <1>1, <1>3 DEF Replaced
<1> QED BY <1>1, <1>3, <1>6, <1>7 DEF n, k, h, t, SameClock

\* Timers that are cleared are of the past.
LEMMA ClearedAreOfThePast ==
  ASSUME IInv, NEW hs \in SUBSET Handle, \A h \in hs : Allocated(manager, h)
  PROVE  /\ {h.serial : h \in hs} \in SUBSET Nat
         /\ \A s \in history.cleared \cup {h.serial : h \in hs} :
              s <= manager.LastAssignedSerialNumber
BY Unpacked DEF IInv, HistoryIsPast

\* InternalClearTimers alone, of timers of one handle or of an object
LEMMA ClearStep ==
  ASSUME IInv, GameRuns, tick' = tick,
         NEW hs \in SUBSET Handle, \A h \in hs : Allocated(manager, h),
         manager' = InternalClearTimers(manager, hs),
         history' = Cleared(history, hs), held' \in [Holder -> Handle]
  PROVE  IInv'
<1>1. /\ manager' \in Manager /\ Agree(manager')
      /\ SameClock(manager', manager) /\ IsCleared(manager', manager, hs)
  BY Unpacked, InternalClearTimersAgrees
<1>2. /\ history' \in History
      /\ history'.cleared = history.cleared \cup {h.serial : h \in hs}
      /\ history'.remaining = history.remaining
      /\ history'.calledInTick = history.calledInTick /\ history'.called = history.called
      /\ history'.delayed = history.delayed /\ history'.pausedInCall = history.pausedInCall
  <2> DEFINE S == {h.serial : h \in hs}
  <2>1. S \in SUBSET Nat /\ history \in History
    BY ClearedAreOfThePast, Unpacked
  <2>2. history' = [history EXCEPT !.cleared = @ \cup S]
    BY DEF Cleared
  <2> HIDE DEF S
  <2>3. /\ history' \in History
        /\ history'.cleared = history.cleared \cup S
        /\ history'.remaining = history.remaining
        /\ history'.calledInTick = history.calledInTick /\ history'.called = history.called
        /\ history'.delayed = history.delayed /\ history'.pausedInCall = history.pausedInCall
    BY <2>1, <2>2 DEF History
  <2> QED BY <2>3 DEF S
<1>3. ClockStands /\ manager'.HasBeenTickedThisFrame = manager.HasBeenTickedThisFrame
  BY <1>1, Unpacked DEF ClockStands, SameClock
<1>4. HistoryIsPast'
  BY <1>1, <1>2, ClearedAreOfThePast DEF IInv, HistoryIsPast, SameClock
<1>5. SerialsDistinct'
  <2>1. \A j \in Index : manager'.Timers[j] # Free =>
          manager.Timers[j] # Free /\ manager'.Timers[j].serial = manager.Timers[j].serial
    <3> SUFFICES ASSUME NEW j \in Index, manager'.Timers[j] # Free
                 PROVE  /\ manager.Timers[j] # Free
                        /\ manager'.Timers[j].serial = manager.Timers[j].serial
      OBVIOUS
    <3>1. CASE manager'.Timers[j] = manager.Timers[j]
      BY <3>1
    <3>2. CASE /\ manager.Timers[j].status \in {"Active", "ActivePendingRemoval"}
               /\ manager'.Timers[j] = [manager.Timers[j] EXCEPT !.status = "ActivePendingRemoval"]
      <4>1. manager.Timers[j] # Free /\ manager.Timers[j] \in TimerData
        BY <3>2, Unpacked DEF Manager, Free
      <4> QED BY <3>2, <4>1 DEF TimerData
    <3> QED BY <1>1, <3>1, <3>2 DEF IsCleared
  <2> QED BY <2>1, SerialsStayDistinct
<1>6. Types'
  BY <1>1, <1>2, Unpacked DEF Types
<1>7. ASSUME NEW i \in Index PROVE TimerIsRight(i)'
  BY <1>1, <1>2, <1>3, <1>6, ClearedTimers
<1> QED BY <1>1, <1>2, <1>3, <1>4, <1>5, <1>7, GameStep

\* What the history becomes with a timer that is set, and others that are
\* cleared for it
LEMMA BeganAndCleared ==
  ASSUME IInv, NEW hs \in SUBSET Handle, \A h \in hs : Allocated(manager, h),
         NEW i \in Index, NEW delay \in Nat,
         history' = Cleared(Began(i, delay), hs)
  PROVE  /\ history' \in History
         /\ history'.cleared = history.cleared \cup {h.serial : h \in hs}
         /\ history'.remaining[i] = delay
         /\ \A j \in Index : j # i => history'.remaining[j] = history.remaining[j]
         /\ history'.calledInTick = history.calledInTick /\ history'.called = history.called
         /\ history'.delayed = history.delayed /\ history'.pausedInCall = history.pausedInCall
<1> DEFINE S == {h.serial : h \in hs}
           began == Began(i, delay)
<1>1. S \in SUBSET Nat /\ history \in History
  BY ClearedAreOfThePast, Unpacked
<1>2. /\ began \in History
      /\ began.remaining[i] = delay
      /\ \A j \in Index : j # i => began.remaining[j] = history.remaining[j]
      /\ began.cleared = history.cleared
      /\ began.calledInTick = history.calledInTick /\ began.called = history.called
      /\ began.delayed = history.delayed /\ began.pausedInCall = history.pausedInCall
  <2>1. /\ began = [history EXCEPT !.remaining = [history.remaining EXCEPT ![i] = delay]]
        /\ [history.remaining EXCEPT ![i] = delay] \in [Index -> Int]
    BY <1>1 DEF Began, History
  <2> HIDE DEF began
  <2> QED BY <1>1, <2>1 DEF History
<1>3. history' = [began EXCEPT !.cleared = @ \cup S]
  BY DEF Cleared
<1> HIDE DEF S, began
<1>4. /\ history' \in History
      /\ history'.cleared = history.cleared \cup S
      /\ history'.remaining = began.remaining
      /\ history'.calledInTick = history.calledInTick /\ history'.called = history.called
      /\ history'.delayed = history.delayed /\ history'.pausedInCall = history.pausedInCall
  BY <1>1, <1>2, <1>3 DEF History
<1> QED BY <1>2, <1>4 DEF S

\* A timer that is set, after those of hs were cleared, keeps the invariant: its
\* handle is new, it is in the container of its status, and has all its time.
LEMMA NewTimerStep ==
  ASSUME IInv, GameRuns, tick' = tick,
         NEW hs \in SUBSET Handle, \A h \in hs : Allocated(manager, h),
         NEW m \in Manager, Agree(m), SameClock(m, manager), IsCleared(m, manager, hs),
         NEW i \in Index, m.Timers[i] = Free, m.LastAssignedSerialNumber < MaxSerial,
         NEW kind, IsKind(kind), kind.loop => kind.rate > 0,
         NEW delay \in Nat, NEW status \in {"Active", "Pending"}, NEW expire \in Int,
         expire = IF status = "Active" THEN m.InternalTime + delay ELSE delay,
         manager' = IF status = "Active"
                    THEN [AddTimer(m, i, kind, status, expire)
                            EXCEPT !.ActiveTimerHeap = @ \cup {NewHandle(m, i)}]
                    ELSE [AddTimer(m, i, kind, status, expire)
                            EXCEPT !.PendingTimerSet = @ \cup {NewHandle(m, i)}],
         history' = Cleared(Began(i, delay), hs),
         NEW v, held' = [held EXCEPT ![v] = NewHandle(m, i)]
  PROVE  IInv'
<1> DEFINE t == TimerAdded(m, kind, status, expire)
<1>1. /\ manager' \in Manager /\ Agree(manager') /\ NewHandle(m, i) \in Handle
      /\ manager'.InternalTime = m.InternalTime
      /\ manager'.LastAssignedSerialNumber = m.LastAssignedSerialNumber + 1
      /\ manager'.HasBeenTickedThisFrame = m.HasBeenTickedThisFrame
      /\ \A j \in Index : j # i => manager'.Timers[j] = m.Timers[j]
      /\ manager'.Timers[i] = t
      /\ manager'.Timers[i] \in TimerData
  BY AddedTimerAgrees
<1>2. /\ t.serial = manager.LastAssignedSerialNumber + 1
      /\ t.status = status /\ t.ExpireTime = expire
      /\ t.bLoop = kind.loop /\ t.Rate = kind.rate
  BY DEF TimerAdded, SameClock
<1> HIDE DEF t
<1>3. /\ history' \in History
      /\ history'.cleared = history.cleared \cup {h.serial : h \in hs}
      /\ history'.remaining[i] = delay
      /\ \A j \in Index : j # i => history'.remaining[j] = history.remaining[j]
      /\ history'.calledInTick = history.calledInTick /\ history'.called = history.called
      /\ history'.delayed = history.delayed /\ history'.pausedInCall = history.pausedInCall
  BY BeganAndCleared
<1>4. ClockStands /\ manager'.HasBeenTickedThisFrame = manager.HasBeenTickedThisFrame
  BY <1>1, Unpacked DEF ClockStands, SameClock
<1>5. /\ HistoryIsPast /\ manager.LastAssignedSerialNumber \in Nat
      /\ manager'.LastAssignedSerialNumber = manager.LastAssignedSerialNumber + 1
      /\ \A s \in history'.cleared : s \in Nat /\ s <= manager.LastAssignedSerialNumber
  <2>1. \A s \in history'.cleared : s \in Nat
    BY <1>3 DEF History
  <2> QED BY <1>1, <1>3, <2>1, Unpacked, ClearedAreOfThePast DEF IInv, SameClock
<1>6. HistoryIsPast'
  <2>1. \A s \in history.calledInTick \cup history.called \cup history.delayed
                \cup history.pausedInCall :
          s \in Nat /\ s <= manager.LastAssignedSerialNumber
    BY <1>5, Unpacked DEF HistoryIsPast, History
  <2> QED BY <1>3, <1>5, <2>1 DEF HistoryIsPast
<1>7. SerialsDistinct'
  <2> SUFFICES ASSUME NEW j \in Index, manager'.Timers[j] # Free
               PROVE  \/ /\ manager.Timers[j] # Free
                         /\ manager'.Timers[j].serial = manager.Timers[j].serial
                      \/ /\ j = i
                         /\ manager'.Timers[j].serial = manager.LastAssignedSerialNumber + 1
    BY SerialsStayDistinct
  <2>1. CASE j = i
    BY <1>1, <1>2, <2>1
  <2>2. CASE j # i /\ m.Timers[j] = manager.Timers[j]
    BY <1>1, <2>2
  <2>3. CASE /\ manager.Timers[j].status \in {"Active", "ActivePendingRemoval"}
             /\ m.Timers[j] = [manager.Timers[j] EXCEPT !.status = "ActivePendingRemoval"]
             /\ j # i
    <3>1. manager.Timers[j] # Free /\ manager.Timers[j] \in TimerData
      BY <2>3, Unpacked DEF Manager, Free
    <3>2. m.Timers[j].serial = manager.Timers[j].serial
      BY <2>3, <3>1 DEF TimerData
    <3> QED BY <1>1, <2>3, <3>1, <3>2
  <2> QED BY <1>1, <2>1, <2>2, <2>3 DEF IsCleared
<1>8. held' \in [Holder -> Handle]
  BY <1>1, Unpacked
<1>9. Types'
  BY <1>1, <1>3, <1>8, Unpacked DEF Types
<1>10. ASSUME NEW j \in Index PROVE TimerIsRight(j)'
  <2>1. CASE j # i
    BY <1>1, <1>3, <1>4, <1>9, <2>1, ClearedTimers
  <2>2. CASE j = i
    <3>1. Used(i)'
      BY <1>1, TimerIsNotFree DEF Used
    <3>2. manager'.Timers[i].serial = manager.LastAssignedSerialNumber + 1
      BY <1>1, <1>2
    <3>3. manager'.Timers[i].bLoop => manager'.Timers[i].Rate > 0
      BY <1>1, <1>2
    <3>4. \/ /\ manager'.Timers[i].status = "Active"
             /\ manager'.Timers[i].ExpireTime = manager'.InternalTime + delay
          \/ /\ manager'.Timers[i].status = "Pending"
             /\ manager'.Timers[i].ExpireTime = delay
      BY <1>1, <1>2
    <3>5. TimerIsRight(i)'
      BY <1>3, <1>5, <1>9, <3>1, <3>2, <3>3, <3>4, NewTimer
    <3> QED BY <2>2, <3>5
  <2> QED BY <2>1, <2>2
<1> QED BY <1>1, <1>3, <1>4, <1>6, <1>7, <1>8, <1>10, GameStep

\* The timer a handle of the game stands for, if FindTimer finds it
LEMMA Found ==
  ASSUME IInv, NEW v \in Holder
  PROVE  LET found == {h \in {held[v]} : FindTimer(manager, h)} IN
         /\ found \in SUBSET Handle
         /\ \A h \in found : Allocated(manager, h)
BY Unpacked DEF FindTimer

\* SetTimer keeps the invariant: it clears the timer of the handle, and adds
\* one.
LEMMA SetTimerStep ==
  ASSUME IInv, NEW v \in Holder, NEW kind \in TimerKinds, SetTimer(v, kind)
  PROVE  IInv'
<1> DEFINE old == {h \in {held[v]} : FindTimer(manager, h)}
           m == InternalClearTimers(manager, old)
<1>1. PICK i \in Index :
        /\ m.Timers[i] = Free
        /\ manager' = Queued(m, i, kind, kind.first)
        /\ held' = [held EXCEPT ![v] = NewHandle(m, i)]
        /\ history' = Cleared(Began(i, kind.first), old)
  BY Zenon DEF SetTimer
<1>2. GameRuns /\ tick' = tick /\ m.LastAssignedSerialNumber < MaxSerial
  BY Zenon DEF SetTimer
<1>3. old \in SUBSET Handle /\ \A h \in old : Allocated(manager, h)
  BY Found
<1> HIDE DEF old
<1>4. /\ m \in Manager /\ Agree(m) /\ SameClock(m, manager) /\ IsCleared(m, manager, old)
  BY <1>3, Unpacked, InternalClearTimersAgrees
<1> HIDE DEF m
<1>5. IsKind(kind) /\ kind.rate > 0 /\ kind.first \in Nat
  BY TimerAssumption DEF IsKind
<1> DEFINE status == IF m.HasBeenTickedThisFrame THEN "Active" ELSE "Pending"
           expire == IF status = "Active" THEN m.InternalTime + kind.first ELSE kind.first
<1>6. status \in {"Active", "Pending"} /\ expire \in Int
  BY <1>4, <1>5, TimerAssumption DEF Manager
<1>7. manager' = IF status = "Active"
                 THEN [AddTimer(m, i, kind, status, expire)
                         EXCEPT !.ActiveTimerHeap = @ \cup {NewHandle(m, i)}]
                 ELSE [AddTimer(m, i, kind, status, expire)
                         EXCEPT !.PendingTimerSet = @ \cup {NewHandle(m, i)}]
  BY <1>1 DEF Queued
<1> HIDE DEF status, expire
<1>8. expire = IF status = "Active" THEN m.InternalTime + kind.first ELSE kind.first
  BY DEF expire
<1> QED BY <1>1, <1>2, <1>3, <1>4, <1>5, <1>6, <1>7, <1>8, NewTimerStep

\* SetTimerForNextTick keeps the invariant: the timer is due at once, and will be
\* called by the next tick, not by one that goes on.
LEMMA SetTimerForNextTickStep ==
  ASSUME IInv, NEW v \in Holder, NEW object \in Object, SetTimerForNextTick(v, object)
  PROVE  IInv'
<1> DEFINE kind == [rate |-> 0, loop |-> FALSE, once |-> FALSE, object |-> object]
           hs == {}
<1>1. PICK i \in Index :
        /\ manager.Timers[i] = Free
        /\ manager' = [AddTimer(manager, i, kind, "Active", manager.InternalTime)
                         EXCEPT !.ActiveTimerHeap = @ \cup {NewHandle(manager, i)}]
        /\ held' = [held EXCEPT ![v] = NewHandle(manager, i)]
        /\ history' = Began(i, 0)
  BY Zenon DEF SetTimerForNextTick
<1>2. GameRuns /\ tick' = tick /\ manager.LastAssignedSerialNumber < MaxSerial
  BY DEF SetTimerForNextTick
<1>3. IsKind(kind) /\ (kind.loop => kind.rate > 0)
  BY DEF IsKind
<1> HIDE DEF kind
<1>4. /\ manager \in Manager /\ Agree(manager) /\ SameClock(manager, manager)
      /\ manager.InternalTime \in Int
      /\ manager.InternalTime = manager.InternalTime + 0
  BY Unpacked DEF SameClock
<1>5. /\ hs \in SUBSET Handle /\ \A h \in hs : Allocated(manager, h)
      /\ IsCleared(manager, manager, hs)
  BY DEF IsCleared
<1>6. history' = Cleared(Began(i, 0), hs)
  <2>1. {h.serial : h \in hs} = {}
    OBVIOUS
  <2>2. Began(i, 0) = [Began(i, 0) EXCEPT !.cleared = @ \cup {}]
    <3>1. history \in History
      BY Unpacked
    <3>2. Began(i, 0) \in History
      <4>1. Began(i, 0) = [history EXCEPT !.remaining = [history.remaining EXCEPT ![i] = 0]]
        BY <3>1 DEF Began, History
      <4>2. [history.remaining EXCEPT ![i] = 0] \in [Index -> Int]
        BY <3>1 DEF History
      <4> QED BY <3>1, <4>1, <4>2 DEF History
    <3> QED BY <3>2 DEF History
  <2> QED BY <1>1, <2>1, <2>2 DEF Cleared
<1> HIDE DEF hs
<1> QED BY <1>1, <1>2, <1>3, <1>4, <1>5, <1>6, NewTimerStep

\* Clearing the timer of a handle, or those of an object, keeps the invariant.
LEMMA ClearTimerStep ==
  ASSUME IInv, NEW v \in Holder, ClearTimer(v)
  PROVE  IInv'
<1> DEFINE found == {h \in {held[v]} : FindTimer(manager, h)}
<1>1. /\ GameRuns /\ tick' = tick
      /\ manager' = InternalClearTimers(manager, found)
      /\ history' = Cleared(history, found)
      /\ held' = [held EXCEPT ![v] = NoHandle]
  BY DEF ClearTimer
<1>2. found \in SUBSET Handle /\ \A h \in found : Allocated(manager, h)
  BY Found
<1>3. held' \in [Holder -> Handle]
  BY <1>1, Unpacked, NoHandleIs
<1> HIDE DEF found
<1> QED BY <1>1, <1>2, <1>3, ClearStep

\* ClearAllTimersForObject keeps the invariant: what ObjectToTimers lists for the
\* object is what it clears, and that is all the timers of the object.
LEMMA ClearAllTimersForObjectStep ==
  ASSUME IInv, NEW o \in Object, ClearAllTimersForObject(o)
  PROVE  IInv'
<1> DEFINE all == manager.ObjectToTimers[o]
<1>1. /\ GameRuns /\ tick' = tick /\ held' = held
      /\ manager' = InternalClearTimers(manager, all)
      /\ history' = Cleared(history, all)
  BY DEF ClearAllTimersForObject
<1>2. all \in SUBSET Handle /\ \A h \in all : Allocated(manager, h)
  BY Unpacked DEF Manager, Agree, AgreeBut
<1>3. held' \in [Holder -> Handle]
  BY <1>1, Unpacked
<1> HIDE DEF all
<1> QED BY <1>1, <1>2, <1>3, ClearStep

\* The delegates' objects are no part of it.
LEMMA ObjectDestroyedStep ==
  ASSUME IInv, NEW o \in Object, ObjectDestroyed(o)
  PROVE  IInv'
<1>1. manager' = manager /\ tick' = tick /\ held' = held /\ history' = history /\ GameRuns
  BY DEF ObjectDestroyed
<1>2. Types /\ Types'
  BY <1>1, Unpacked DEF Types
<1>3. ClockStands
  BY <1>1, Unpacked DEF ClockStands
<1>4. ASSUME NEW i \in Index PROVE TimerIsRight(i)'
  <2>1. KnownAsBefore(i) /\ TickKeeps(i)
    BY <1>1 DEF KnownAsBefore, TickKeeps
  <2>2. manager'.Timers[i] = manager.Timers[i]
    BY <1>1
  <2> QED BY <1>2, <1>3, <2>1, <2>2, Unpacked, KeptTimer
<1>5. HistoryIsPast' /\ SerialsDistinct'
  BY <1>1 DEF IInv, HistoryIsPast, SerialsDistinct, Used
<1> QED BY <1>1, <1>3, <1>4, <1>5, Unpacked, GameStep

\* A frame that begins changes no timer.
LEMMA NextFrameStep ==
  ASSUME IInv, NextFrame
  PROVE  IInv'
<1>1. /\ manager' = [manager EXCEPT !.HasBeenTickedThisFrame = FALSE]
      /\ tick' = tick /\ held' = held /\ history' = history
  BY DEF NextFrame
<1>2. /\ manager' \in Manager /\ manager'.Timers = manager.Timers
      /\ manager'.ActiveTimerHeap = manager.ActiveTimerHeap
      /\ manager'.PausedTimerSet = manager.PausedTimerSet
      /\ manager'.PendingTimerSet = manager.PendingTimerSet
      /\ manager'.CurrentlyExecutingTimer = manager.CurrentlyExecutingTimer
      /\ manager'.ObjectToTimers = manager.ObjectToTimers
      /\ manager'.InternalTime = manager.InternalTime
      /\ manager'.LastAssignedSerialNumber = manager.LastAssignedSerialNumber
      /\ manager'.HasBeenTickedThisFrame = FALSE
  BY <1>1, Unpacked DEF Manager
<1>3. Agree(manager')
  BY <1>2, Unpacked DEF Agree, AgreeBut, Allocated, Timer
<1>4. ContainersAgree'
  BY <1>2, <1>3, AgreeIsContainersAgreeNext
<1>5. Types /\ Types'
  BY <1>1, <1>2, Unpacked DEF Types
<1>6. ClockStands
  BY <1>2, Unpacked DEF ClockStands
<1>7. ASSUME NEW i \in Index PROVE TimerIsRight(i)'
  <2>1. KnownAsBefore(i) /\ TickKeeps(i)
    BY <1>1 DEF KnownAsBefore, TickKeeps
  <2>2. manager'.Timers[i] = manager.Timers[i]
    BY <1>2
  <2> QED BY <1>5, <1>6, <2>1, <2>2, Unpacked, KeptTimer
<1>8. HistoryIsPast' /\ SerialsDistinct' /\ TickIsBeforeTheEnd'
  BY <1>1, <1>2 DEF IInv, HistoryIsPast, SerialsDistinct, TickIsBeforeTheEnd, Used, InTick
<1> QED BY <1>4, <1>5, <1>7, <1>8 DEF IInv

-----------------------------------------------------------------------------
(* Steps about one timer                                                   *)

\* A step changes no timer but that of the handle h, and learns of no other.
OnlyOf(h) ==
    /\ \A j \in Index : j # h.index =>
         /\ manager'.Timers[j] = manager.Timers[j]
         /\ history'.remaining[j] = history.remaining[j]
    /\ manager'.Timers[h.index] # Free => manager'.Timers[h.index].serial = h.serial
    /\ \A s \in Nat : s # h.serial =>
         /\ s \in history'.cleared <=> s \in history.cleared
         /\ s \in history'.calledInTick <=> s \in history.calledInTick
         /\ s \in history'.called <=> s \in history.called
         /\ s \in history'.delayed <=> s \in history.delayed
         /\ s \in history'.pausedInCall <=> s \in history.pausedInCall
    /\ manager'.InternalTime = manager.InternalTime
    /\ manager'.LastAssignedSerialNumber = manager.LastAssignedSerialNumber
    /\ manager'.HasBeenTickedThisFrame = manager.HasBeenTickedThisFrame

\* Tick goes on with no timer or with that of h.
TickIsAt(h) ==
    \/ tick' = tick
    \/ /\ \A i \in Index : Used(i) /\ i # h.index => ~Has(i, "Executing")
       /\ InTick' <=> InTick

\* A step that changes no timer but the one of h need only be looked at there.
LEMMA OneTimerStep ==
  ASSUME IInv, NEW h \in Handle, Allocated(manager, h), OnlyOf(h), TickIsAt(h),
         Types', Agree(manager'), TimerIsRight(h.index)',
         TickIsBeforeTheEnd'
  PROVE  IInv'
<1>1. /\ h.index \in Index /\ manager.Timers[h.index].serial = h.serial /\ Used(h.index)
      /\ h.serial <= manager.LastAssignedSerialNumber
  BY Unpacked
<1>2. ClockStands
  BY Unpacked DEF OnlyOf, ClockStands
<1>3. ASSUME NEW i \in Index PROVE TimerIsRight(i)'
  <2>1. CASE i = h.index
    BY <2>1
  <2>2. CASE i # h.index
    <3>1. Used(i) => manager.Timers[i].serial # h.serial
      BY <1>1, <2>2 DEF IInv, SerialsDistinct
    <3>2. Used(i) => manager.Timers[i].serial \in Nat
      BY Unpacked DEF Manager, TimerData, Used
    <3>3. Used(i) => KnownAsBefore(i)
      BY <2>2, <3>1, <3>2 DEF OnlyOf, KnownAsBefore, In
    <3>4. TickKeeps(i) /\ manager'.Timers[i] = manager.Timers[i]
      BY <2>2 DEF TickKeeps, TickIsAt, OnlyOf
    <3> QED BY <1>2, <3>3, <3>4, Unpacked, KeptTimer
  <2> QED BY <2>1, <2>2
<1>4. SerialsDistinct'
  <2>1. \A j \in Index : manager'.Timers[j] # Free =>
          manager.Timers[j] # Free /\ manager'.Timers[j].serial = manager.Timers[j].serial
    BY <1>1 DEF OnlyOf, Used
  <2> QED BY <2>1, SerialsStayDistinct
<1>5. HistoryIsPast'
  <2>1. history' \in History
    BY DEF Types
  <2> SUFFICES ASSUME NEW s \in history'.cleared \cup history'.calledInTick \cup history'.called
                                \cup history'.delayed \cup history'.pausedInCall
               PROVE  s <= manager'.LastAssignedSerialNumber
    BY DEF HistoryIsPast
  <2>2. s \in Nat
    BY <2>1 DEF History
  <2>3. CASE s = h.serial
    BY <1>1, <2>3 DEF OnlyOf
  <2>4. CASE s # h.serial
    BY <2>2, <2>4 DEF OnlyOf, IInv, HistoryIsPast
  <2> QED BY <2>3, <2>4
<1>6. ContainersAgree'
  BY AgreeIsContainersAgreeNext DEF Types
<1> QED BY <1>3, <1>4, <1>5, <1>6 DEF IInv

\* A timer that is taken out of its container is in none, and keeps its status
\* until it gets into another.
LEMMA OutOfQueuesAgrees ==
  ASSUME NEW m \in Manager, Agree(m), NEW h \in Handle, Allocated(m, h),
         Timer(m, h).status # "Paused"
  PROVE  LET n == OutOfQueues(m, h) IN
         /\ n \in Manager /\ AgreeButOn(n, h) /\ Allocated(n, h)
         /\ SameClock(n, m) /\ n.Timers = m.Timers
         /\ Timer(m, h).status = "Executing" => n.CurrentlyExecutingTimer = NoHandle
<1> DEFINE n == OutOfQueues(m, h)
<1>1. /\ n \in Manager /\ n.Timers = m.Timers
      /\ n.ActiveTimerHeap = m.ActiveTimerHeap \ {h}
      /\ n.PendingTimerSet = m.PendingTimerSet \ {h}
      /\ n.PausedTimerSet = m.PausedTimerSet
      /\ n.CurrentlyExecutingTimer = IF m.CurrentlyExecutingTimer = h THEN NoHandle
                                     ELSE m.CurrentlyExecutingTimer
      /\ n.ObjectToTimers = m.ObjectToTimers /\ SameClock(n, m)
  BY NoHandleIs DEF OutOfQueues, Manager, SameClock
<1> HIDE DEF n
<1>2. \A g : Timer(n, g) = Timer(m, g) /\ (Allocated(n, g) <=> Allocated(m, g))
  BY <1>1 DEF Timer, Allocated
<1>3. h # NoHandle
  BY NoHandleIs
<1>4. h \notin n.PausedTimerSet
  BY <1>1 DEF Agree, AgreeBut
<1>5. AgreeButOn(n, h)
  <2>1. ASSUME NEW g \in Handle \ {h}
        PROVE  /\ g \in n.ActiveTimerHeap <=> g \in m.ActiveTimerHeap
               /\ g \in n.PausedTimerSet <=> g \in m.PausedTimerSet
               /\ g \in n.PendingTimerSet <=> g \in m.PendingTimerSet
               /\ g # NoHandle /\ g = n.CurrentlyExecutingTimer
                    <=> g # NoHandle /\ g = m.CurrentlyExecutingTimer
    BY <1>1
  <2>2. /\ h \notin n.ActiveTimerHeap /\ h \notin n.PendingTimerSet
        /\ h # n.CurrentlyExecutingTimer
    BY <1>1, <1>3
  <2> QED BY <1>1, <1>2, <1>4, <2>1, <2>2 DEF Agree, AgreeBut, AgreeButOn
<1>6. Timer(m, h).status = "Executing" => n.CurrentlyExecutingTimer = NoHandle
  BY <1>1, <1>3 DEF Agree, AgreeBut
<1> QED BY <1>1, <1>2, <1>5, <1>6 DEF n

\* RemoveTimer, of one
LEMMA RemovedTimer ==
  ASSUME NEW m \in Manager, NEW h \in Handle, AgreeButOn(m, h), Allocated(m, h)
  PROVE  LET n == RemoveTimers(m, {h}) IN
         /\ n \in Manager /\ Agree(n) /\ SameClock(n, m)
         /\ Replaced(n, m, h.index, Free)
         /\ n.CurrentlyExecutingTimer = m.CurrentlyExecutingTimer
<1> DEFINE n == RemoveTimers(m, {h})
<1>1. n \in Manager /\ Agree(n)
  BY RemoveTimersAgrees DEF AgreeButOn
<1>2. /\ SameClock(n, m) /\ Replaced(n, m, h.index, Free)
      /\ n.CurrentlyExecutingTimer = m.CurrentlyExecutingTimer
  BY DEF RemoveTimers, Manager, SameClock, Replaced, Handle
<1> QED BY <1>1, <1>2

-----------------------------------------------------------------------------
(* Pausing                                                                 *)

\* A paused timer is in no queue, and keeps the time it has left; one that
\* does not loop and pauses itself is removed.
LEMMA PauseTimerStep ==
  ASSUME IInv, NEW v \in Holder, PauseTimer(v)
  PROVE  IInv'
<1> SUFFICES ASSUME NEW h \in Handle, h = held[v] PROVE IInv'
  BY Unpacked
<1> DEFINE i == h.index
           timer == Timer(manager, h)
           m == OutOfQueues(manager, h)
           t == [timer EXCEPT !.status = "Paused", !.ExpireTime = TimeLeft(m, timer)]
           n == [m EXCEPT !.PausedTimerSet = @ \cup {h},
                          !.Timers[h.index].status = "Paused",
                          !.Timers[h.index].ExpireTime = TimeLeft(m, timer)]
<1>1. /\ GameRuns /\ Allocated(manager, h) /\ tick' = tick /\ held' = held
      /\ timer.status # "Paused" /\ timer.status # "ActivePendingRemoval"
      /\ manager' = IF timer.status = "Executing" /\ ~timer.bLoop
                    THEN RemoveTimers(m, {h}) ELSE n
      /\ history' = [history EXCEPT
             !.delayed = IF InTick THEN @ \cup {h.serial} ELSE @,
             !.pausedInCall = IF timer.status = "Executing" THEN @ \cup {h.serial} ELSE @]
  BY Zenon DEF PauseTimer, FindTimer
<1>2. /\ h \in Handle /\ i \in Index /\ h.serial \in Nat /\ TimerIsRight(i)
      /\ timer = manager.Timers[i] /\ timer \in TimerData /\ timer.serial = h.serial
      /\ Used(i) /\ manager \in Manager /\ history \in History /\ manager.InternalTime \in Nat
      /\ Agree(manager) /\ Types
  BY <1>1, Unpacked
<1>3. /\ m \in Manager /\ AgreeButOn(m, h) /\ Allocated(m, h)
      /\ SameClock(m, manager) /\ m.Timers = manager.Timers
      /\ timer.status = "Executing" => m.CurrentlyExecutingTimer = NoHandle
  BY <1>1, <1>2, OutOfQueuesAgrees
<1> HIDE DEF m
<1>4. /\ history' \in History
      /\ history'.remaining = history.remaining /\ history'.cleared = history.cleared
      /\ history'.calledInTick = history.calledInTick /\ history'.called = history.called
      /\ history'.delayed = IF InTick THEN history.delayed \cup {h.serial} ELSE history.delayed
      /\ history'.pausedInCall = IF timer.status = "Executing"
                                 THEN history.pausedInCall \cup {h.serial}
                                 ELSE history.pausedInCall
  <2> HIDE DEF timer
  <2> QED BY <1>1, <1>2 DEF History
<1>5. TickIsAt(h) /\ TickIsBeforeTheEnd'
  <2>1. manager'.HasBeenTickedThisFrame = manager.HasBeenTickedThisFrame
    <3>1. RemoveTimers(m, {h}).HasBeenTickedThisFrame = m.HasBeenTickedThisFrame
      BY <1>2, <1>3, RemovedTimer DEF SameClock
    <3>2. n.HasBeenTickedThisFrame = m.HasBeenTickedThisFrame
      BY <1>3 DEF Manager
    <3> QED BY <1>1, <1>3, <3>1, <3>2 DEF SameClock
  <2> QED BY <1>1, <2>1 DEF TickIsAt, TickIsBeforeTheEnd, IInv, GameRuns, InTick
<1>6. CASE timer.status = "Executing" /\ ~timer.bLoop
  <2>1. /\ manager' \in Manager /\ Agree(manager') /\ SameClock(manager', m)
        /\ Replaced(manager', m, i, Free)
    BY <1>1, <1>2, <1>3, <1>6, RemovedTimer
  <2>2. Types'
    BY <1>1, <1>2, <1>4, <2>1 DEF Types
  <2>3. OnlyOf(h)
    BY <1>2, <1>3, <1>4, <2>1 DEF OnlyOf, SameClock, Replaced
  <2>4. TimerIsRight(i)'
    BY <2>1 DEF Replaced, TimerIsRight, Used
  <2> QED BY <1>1, <1>2, <1>5, <2>1, <2>2, <2>3, <2>4, OneTimerStep
<1>7. CASE ~(timer.status = "Executing" /\ ~timer.bLoop)
  <2>1. /\ TimeLeft(m, timer) \in Int
        /\ TimeLeft(m, timer) = IF timer.status = "Pending" THEN timer.ExpireTime
                               ELSE timer.ExpireTime - manager.InternalTime
    BY <1>2, <1>3 DEF TimeLeft, TimerData, SameClock
  <2>2. /\ t \in TimerData /\ t.status = "Paused" /\ t.ExpireTime = TimeLeft(m, timer)
        /\ t.serial = h.serial /\ t.object = timer.object
        /\ t.bLoop = timer.bLoop /\ t.Rate = timer.Rate
        /\ t.bMaxOncePerFrame = timer.bMaxOncePerFrame
    <3> HIDE DEF timer
    <3> QED BY <1>2, <2>1 DEF TimerData, Status
  <2>3. /\ n \in Manager /\ SameClock(n, m) /\ Replaced(n, m, i, t)
        /\ n.ObjectToTimers = m.ObjectToTimers
        /\ n.ActiveTimerHeap = m.ActiveTimerHeap
        /\ n.PausedTimerSet = m.PausedTimerSet \cup {h}
        /\ n.PendingTimerSet = m.PendingTimerSet
        /\ n.CurrentlyExecutingTimer = m.CurrentlyExecutingTimer
    <3>1. n = [m EXCEPT !.PausedTimerSet = @ \cup {h}, !.Timers = [m.Timers EXCEPT ![i] = t]]
      <4>1. m.Timers[i] = timer /\ m.Timers \in [Index -> TimerData \cup {Free}]
        BY <1>2, <1>3 DEF Manager
      <4> DEFINE x == TimeLeft(m, timer)
                 Timers == [[m.Timers EXCEPT ![i].status = "Paused"] EXCEPT ![i].ExpireTime = x]
      <4>2. n = [m EXCEPT !.PausedTimerSet = @ \cup {h}, !.Timers = Timers]
        <5> HIDE DEF x
        <5>1. n = [m EXCEPT !.PausedTimerSet = @ \cup {h},
                            !.Timers[i].status = "Paused", !.Timers[i].ExpireTime = x]
          BY DEF x
        <5> HIDE DEF n
        <5> QED BY <1>2, <1>3, <5>1 DEF Manager
      <4>3. Timers = [m.Timers EXCEPT ![i] = t]
        <5> HIDE DEF x
        <5>1. t = [timer EXCEPT !.status = "Paused", !.ExpireTime = x]
          BY DEF x
        <5> HIDE DEF timer, t, i
        <5> QED BY <1>2, <4>1, <5>1 DEF TimerData
      <4> HIDE DEF n, Timers, t
      <4> QED BY <4>2, <4>3
    <3> HIDE DEF t, n, timer
    <3> QED BY <1>2, <1>3, <2>2, <3>1 DEF Manager, SameClock, Replaced
  <2>4. manager' = n
    BY <1>1, <1>7
  <2> HIDE DEF n, t
  <2>5. Agree(n)
    <3>1. Timer(m, h).object = timer.object
      BY <1>2, <1>3 DEF Timer
    <3> QED BY <1>2, <1>3, <2>2, <2>3, <3>1, RequeuedAgrees
  <2>6. Types'
    BY <1>1, <1>2, <1>4, <2>3, <2>4 DEF Types
  <2>7. manager'.Timers[i] = t /\ manager'.InternalTime = manager.InternalTime
    BY <1>3, <2>3, <2>4 DEF Replaced, SameClock
  <2>8. OnlyOf(h)
    BY <1>2, <1>3, <1>4, <2>2, <2>3, <2>4 DEF OnlyOf, SameClock, Replaced
  <2>9. TimerIsRight(i)'
    <3>1. /\ SetBefore(i) /\ ExecutingExpired(i) /\ ClearedIsGone(i) /\ CalledIsExecuting(i)
          /\ LeftIsRight(i) /\ LateIsKnown(i)
      BY <1>2 DEF TimerIsRight
    <3>2. timer.status \in {"Pending", "Active", "Executing"}
      BY <1>1, <1>2 DEF TimerData, Status
    <3>3. /\ manager'.LastAssignedSerialNumber = manager.LastAssignedSerialNumber
          /\ timer.ExpireTime \in Int /\ history.remaining[i] \in Int
          /\ manager.InternalTime \in Nat
      BY <1>2, <1>3, <2>3, <2>4 DEF SameClock, TimerData, History
    <3>4. SetBefore(i)'
      BY <1>2, <2>1, <2>2, <2>7, <3>1, <3>2, <3>3 DEF SetBefore
    <3>5. ExecutingExpired(i)' /\ OnceIsNotDue(i)'
      BY <2>2, <2>7 DEF ExecutingExpired, OnceIsNotDue, Has
    <3>6. ClearedIsGone(i)'
      BY <1>1, <1>2, <1>4, <2>2, <2>7, <3>1 DEF ClearedIsGone, Has, In
    <3>7. CalledIsExecuting(i)'
      BY <1>2, <1>4, <1>7, <2>2, <2>7, <3>1 DEF CalledIsExecuting, Has, In
    <3>8. LeftIsRight(i)'
      <4>1. CASE timer.status = "Executing"
        <5>1. ~KeepsItsTime(i)'
          BY <1>2, <1>4, <2>2, <2>7, <4>1 DEF KeepsItsTime
        <5>2. timer.ExpireTime - manager.InternalTime < 0
          BY <1>2, <3>1, <3>3, <4>1 DEF ExecutingExpired, Has
        <5> QED BY <2>1, <2>2, <2>7, <4>1, <5>1, <5>2 DEF LeftIsRight, Left, Has
      <4>2. CASE timer.status # "Executing"
        <5>1. KeepsItsTime(i)' <=> KeepsItsTime(i)
          BY <1>2, <1>4, <2>2, <2>7, <4>2 DEF KeepsItsTime
        <5>2. Left(i)' = Left(i) /\ Waits(i)
          BY <1>2, <2>1, <2>2, <2>7, <3>2, <4>2 DEF Left, Has, Waits
        <5> QED BY <1>4, <3>1, <5>1, <5>2 DEF LeftIsRight
      <4> QED BY <4>1, <4>2
    <3>9. LateIsKnown(i)'
      <4>1. CASE InTick
        BY <1>2, <1>4, <2>2, <2>7, <4>1 DEF LateIsKnown, In
      <4>2. CASE ~InTick
        <5>1. Waits(i)
          BY <1>2, <3>1, <3>2, <4>2 DEF ExecutingExpired, Has, InTick, Waits
        <5>2. history.remaining[i] < 0 => In(i, history.delayed)
          BY <3>1, <4>2, <5>1 DEF LateIsKnown
        <5> QED BY <1>2, <1>4, <2>2, <2>7, <4>2, <5>2 DEF LateIsKnown, In
      <4> QED BY <4>1, <4>2
    <3> QED BY <3>4, <3>5, <3>6, <3>7, <3>8, <3>9 DEF TimerIsRight
  <2> QED BY <1>1, <1>2, <1>5, <2>4, <2>5, <2>6, <2>8, <2>9, OneTimerStep
<1> QED BY <1>6, <1>7

\* A timer that is unpaused goes on with the time it has left.
LEMMA UnPauseTimerStep ==
  ASSUME IInv, NEW v \in Holder, UnPauseTimer(v)
  PROVE  IInv'
<1> SUFFICES ASSUME NEW h \in Handle, h = held[v] PROVE IInv'
  BY Unpacked
<1> DEFINE i == h.index
           timer == Timer(manager, h)
           m == [manager EXCEPT !.PausedTimerSet = @ \ {h}]
           t == IF m.HasBeenTickedThisFrame
                THEN [timer EXCEPT !.status = "Active",
                                   !.ExpireTime = timer.ExpireTime + m.InternalTime]
                ELSE [timer EXCEPT !.status = "Pending"]
<1>1. /\ GameRuns /\ Allocated(manager, h) /\ tick' = tick /\ held' = held /\ history' = history
      /\ timer.status = "Paused"
      /\ manager' = IF m.HasBeenTickedThisFrame
                    THEN [m EXCEPT !.ActiveTimerHeap = @ \cup {h},
                            !.Timers[h.index].status = "Active",
                            !.Timers[h.index].ExpireTime = @ + m.InternalTime]
                    ELSE [m EXCEPT !.PendingTimerSet = @ \cup {h},
                            !.Timers[h.index].status = "Pending"]
  BY DEF UnPauseTimer, FindTimer
<1>2. /\ i \in Index /\ h.serial \in Nat /\ TimerIsRight(i)
      /\ timer = manager.Timers[i] /\ timer \in TimerData /\ timer.serial = h.serial
      /\ Used(i) /\ manager \in Manager /\ history \in History /\ manager.InternalTime \in Nat
      /\ Agree(manager) /\ Types
  BY <1>1, Unpacked
<1>3. /\ m \in Manager /\ SameClock(m, manager) /\ m.Timers = manager.Timers
      /\ m.ActiveTimerHeap = manager.ActiveTimerHeap
      /\ m.PendingTimerSet = manager.PendingTimerSet
      /\ m.PausedTimerSet = manager.PausedTimerSet \ {h}
      /\ m.CurrentlyExecutingTimer = manager.CurrentlyExecutingTimer
      /\ m.ObjectToTimers = manager.ObjectToTimers
  BY <1>2 DEF Manager, SameClock
<1> HIDE DEF m
<1>4. AgreeButOn(m, h) /\ Allocated(m, h) /\ Timer(m, h) = timer
  <2>1. \A g : Timer(m, g) = Timer(manager, g) /\ (Allocated(m, g) <=> Allocated(manager, g))
    BY <1>3 DEF Timer, Allocated
  <2>2. h # NoHandle
    BY <1>1, <1>2, NoHandleIs
  <2>3. /\ h \notin m.ActiveTimerHeap /\ h \notin m.PendingTimerSet
        /\ h \notin m.PausedTimerSet /\ h # m.CurrentlyExecutingTimer
    BY <1>1, <1>2, <1>3, <2>2 DEF Agree, AgreeBut
  <2> QED BY <1>1, <1>2, <1>3, <2>1, <2>3 DEF Agree, AgreeBut, AgreeButOn
<1>5. /\ t \in TimerData
      /\ \/ /\ m.HasBeenTickedThisFrame /\ t.status = "Active"
            /\ t.ExpireTime = timer.ExpireTime + manager.InternalTime
         \/ /\ ~m.HasBeenTickedThisFrame /\ t.status = "Pending"
            /\ t.ExpireTime = timer.ExpireTime
      /\ t.serial = h.serial /\ t.object = timer.object
      /\ t.bLoop = timer.bLoop /\ t.Rate = timer.Rate
      /\ t.bMaxOncePerFrame = timer.bMaxOncePerFrame
  <2>1. m.InternalTime = manager.InternalTime
    BY <1>3 DEF SameClock
  <2>2. CASE m.HasBeenTickedThisFrame
    <3>1. t = [timer EXCEPT !.status = "Active", !.ExpireTime = timer.ExpireTime + m.InternalTime]
      BY <2>2
    <3> DEFINE x == timer.ExpireTime + m.InternalTime
    <3>2. x \in Int /\ x = timer.ExpireTime + manager.InternalTime
      BY <1>2, <2>1 DEF TimerData
    <3>3. t = [timer EXCEPT !.status = "Active", !.ExpireTime = x]
      BY <3>1
    <3> HIDE DEF timer, t, x
    <3> QED BY <1>2, <2>2, <3>2, <3>3 DEF TimerData, Status
  <2>3. CASE ~m.HasBeenTickedThisFrame
    <3>1. t = [timer EXCEPT !.status = "Pending"]
      BY <2>3
    <3> HIDE DEF timer, t
    <3> QED BY <1>2, <2>1, <2>3, <3>1 DEF TimerData, Status
  <2> QED BY <2>2, <2>3
<1>6. manager' = IF m.HasBeenTickedThisFrame
                 THEN [m EXCEPT !.ActiveTimerHeap = @ \cup {h}, !.Timers = [m.Timers EXCEPT ![i] = t]]
                 ELSE [m EXCEPT !.PendingTimerSet = @ \cup {h}, !.Timers = [m.Timers EXCEPT ![i] = t]]
  <2>1. m.Timers[i] = timer /\ m.Timers \in [Index -> TimerData \cup {Free}]
    BY <1>2, <1>3 DEF Manager
  <2>2. CASE m.HasBeenTickedThisFrame
    <3> DEFINE Timers == [[m.Timers EXCEPT ![i].status = "Active"]
                            EXCEPT ![i].ExpireTime = @ + m.InternalTime]
    <3>1. manager' = [m EXCEPT !.ActiveTimerHeap = @ \cup {h}, !.Timers = Timers]
      <4>1. manager' = [m EXCEPT !.ActiveTimerHeap = @ \cup {h},
                                 !.Timers[h.index].status = "Active",
                                 !.Timers[h.index].ExpireTime = @ + m.InternalTime]
        BY <1>1, <2>2
      <4>2. m.Timers[i] \in TimerData
        BY <1>2, <2>1
      <4> HIDE DEF i, timer
      <4> QED BY <1>2, <1>3, <4>1, <4>2 DEF Manager, TimerData, i
    <3>2. Timers = [m.Timers EXCEPT ![i] = t]
      <4>1. t = [timer EXCEPT !.status = "Active", !.ExpireTime = timer.ExpireTime + m.InternalTime]
        BY <2>2
      <4> HIDE DEF timer, t, i
      <4> QED BY <1>2, <2>1, <4>1 DEF TimerData
    <3> HIDE DEF Timers, t
    <3> QED BY <2>2, <3>1, <3>2
  <2>3. CASE ~m.HasBeenTickedThisFrame
    <3> DEFINE Timers == [m.Timers EXCEPT ![i].status = "Pending"]
    <3>1. manager' = [m EXCEPT !.PendingTimerSet = @ \cup {h}, !.Timers = Timers]
      BY <1>1, <1>2, <1>3, <2>3 DEF Manager
    <3>2. Timers = [m.Timers EXCEPT ![i] = t]
      <4>1. t = [timer EXCEPT !.status = "Pending"]
        BY <2>3
      <4> HIDE DEF timer, t, i
      <4> QED BY <1>2, <2>1, <4>1 DEF TimerData
    <3> HIDE DEF Timers, t
    <3> QED BY <2>3, <3>1, <3>2
  <2> QED BY <2>2, <2>3
<1> HIDE DEF t
<1>7. /\ manager' \in Manager /\ SameClock(manager', m) /\ Replaced(manager', m, i, t)
      /\ manager'.ObjectToTimers = m.ObjectToTimers
      /\ manager'.ActiveTimerHeap = IF t.status = "Active" THEN m.ActiveTimerHeap \cup {h}
                                    ELSE m.ActiveTimerHeap
      /\ manager'.PausedTimerSet = m.PausedTimerSet
      /\ manager'.PendingTimerSet = IF t.status = "Pending" THEN m.PendingTimerSet \cup {h}
                                    ELSE m.PendingTimerSet
      /\ manager'.CurrentlyExecutingTimer = m.CurrentlyExecutingTimer
  <2>1. [m.Timers EXCEPT ![i] = t] \in [Index -> TimerData \cup {Free}]
    BY <1>3, <1>5 DEF Manager
  <2>2. CASE m.HasBeenTickedThisFrame
    BY <1>2, <1>3, <1>5, <1>6, <2>1, <2>2 DEF Manager, SameClock, Replaced
  <2>3. CASE ~m.HasBeenTickedThisFrame
    BY <1>2, <1>3, <1>5, <1>6, <2>1, <2>3 DEF Manager, SameClock, Replaced
  <2> QED BY <2>2, <2>3
<1>8. Agree(manager')
  BY <1>3, <1>4, <1>5, <1>7, RequeuedAgrees
<1>9. Types'
  BY <1>1, <1>2, <1>7 DEF Types
<1>10. /\ manager'.Timers[i] = t /\ manager'.InternalTime = manager.InternalTime
       /\ manager'.LastAssignedSerialNumber = manager.LastAssignedSerialNumber
       /\ manager'.HasBeenTickedThisFrame = manager.HasBeenTickedThisFrame
       /\ m.HasBeenTickedThisFrame = manager.HasBeenTickedThisFrame
  BY <1>3, <1>7 DEF Replaced, SameClock
<1>11. OnlyOf(h) /\ TickIsAt(h)
  BY <1>1, <1>2, <1>3, <1>5, <1>7, <1>10 DEF OnlyOf, Replaced, TickIsAt
<1>12. TickIsBeforeTheEnd'
  BY <1>1, <1>10 DEF TickIsBeforeTheEnd, IInv, GameRuns, InTick
<1>13. TimerIsRight(i)'
  <2>1. /\ SetBefore(i) /\ ClearedIsGone(i) /\ CalledIsExecuting(i)
        /\ LeftIsRight(i) /\ LateIsKnown(i) /\ Waits(i)
        /\ Has(i, "Paused")
    BY <1>1, <1>2 DEF TimerIsRight, Waits, Has
  <2>2. timer.ExpireTime \in Int /\ history.remaining[i] \in Int
    BY <1>2 DEF TimerData, History
  <2>3. SetBefore(i)'
    <3>1. timer.ExpireTime >= -manager.InternalTime
      BY <1>1, <1>2, <2>1 DEF SetBefore
    <3>2. t.ExpireTime >= IF t.status = "Pending" THEN -manager.InternalTime ELSE 0
      BY <1>2, <1>5, <2>2, <3>1
    <3>3. t.status \in {"Active", "Pending"}
      BY <1>5
    <3> HIDE DEF i, timer
    <3> QED BY <1>2, <1>5, <1>10, <2>1, <3>2, <3>3 DEF SetBefore, timer
  <2>4. ExecutingExpired(i)'
    BY <1>5, <1>10 DEF ExecutingExpired, Has
  <2>5. ClearedIsGone(i)' /\ CalledIsExecuting(i)'
    BY <1>1, <1>2, <1>5, <1>10, <2>1 DEF ClearedIsGone, CalledIsExecuting, Has, In
  <2>6. OnceIsNotDue(i)'
    BY <1>1, <1>5, <1>10 DEF OnceIsNotDue, Has, InTick, IInv, TickIsBeforeTheEnd
  <2>7. LeftIsRight(i)'
    <3>1. KeepsItsTime(i)' <=> KeepsItsTime(i)
      BY <1>1, <1>2, <1>5, <1>10 DEF KeepsItsTime
    <3>2. Left(i)' = Left(i)
      <4>1. Left(i) = timer.ExpireTime
        BY <1>1, <1>2 DEF Left, Has
      <4>2. Left(i)' = IF t.status = "Active" THEN t.ExpireTime - manager.InternalTime
                       ELSE t.ExpireTime
        BY <1>10 DEF Left, Has
      <4> HIDE DEF timer
      <4> QED BY <1>2, <1>5, <2>2, <4>1, <4>2
    <3> QED BY <1>1, <2>1, <3>1, <3>2 DEF LeftIsRight
  <2>8. LateIsKnown(i)'
    BY <1>1, <1>2, <1>5, <1>10, <2>1 DEF LateIsKnown, Has, In
  <2> QED BY <2>3, <2>4, <2>5, <2>6, <2>7, <2>8 DEF TimerIsRight
<1> QED BY <1>1, <1>8, <1>9, <1>11, <1>12, <1>13, OneTimerStep

-----------------------------------------------------------------------------
(* Tick                                                                    *)

\* Outside of calls no timer is executing.
LEMMA NoneExecutes ==
  ASSUME IInv, tick.at \in {"idle", "heap"}
  PROVE  \A i \in Index : Used(i) => ~Has(i, "Executing")
BY DEF IInv, TimerIsRight, ExecutingExpired

\* Time passes with a tick: the timers that are active are late now if that
\* was more than they had left; the others wait.
LEMMA TickBeginsStep ==
  ASSUME IInv, NEW DeltaTime \in DeltaTimes, TickBegins(DeltaTime)
  PROVE  IInv'
<1> DEFINE now == manager.InternalTime + DeltaTime
           waiting == {h.serial : h \in manager.PausedTimerSet \cup manager.PendingTimerSet}
           left == [i \in Index |-> IF IsActive(i) /\ KeepsItsTime(i)
                                    THEN history.remaining[i] - DeltaTime
                                    ELSE history.remaining[i]]
<1>1. /\ tick.at = "idle" /\ ~manager.HasBeenTickedThisFrame /\ now <= MaxTime
      /\ manager' = [manager EXCEPT !.InternalTime = now]
      /\ tick' = [tick EXCEPT !.at = "heap"]
      /\ history' = [history EXCEPT !.calledInTick = {}, !.delayed = @ \cap waiting,
                                    !.remaining = left]
      /\ held' = held
  <2>1. history' = [history EXCEPT !.calledInTick = {}, !.delayed = @ \cap waiting,
                       !.remaining = [i \in Index |-> IF IsActive(i) /\ KeepsItsTime(i)
                                                      THEN @[i] - DeltaTime ELSE @[i]]]
    BY DEF TickBegins
  <2> QED BY <2>1 DEF TickBegins
<1>2. /\ manager \in Manager /\ history \in History /\ Types /\ manager.InternalTime \in Nat
      /\ DeltaTime \in Nat /\ Agree(manager)
  BY Unpacked, TimerAssumption
<1>3. now \in 0 .. MaxTime /\ now >= manager.InternalTime
  BY <1>1, <1>2, TimerAssumption
<1>4. left \in [Index -> Int]
  BY <1>2 DEF History
<1> HIDE DEF now, left
<1>5. /\ manager' \in Manager /\ manager'.Timers = manager.Timers
      /\ manager'.ActiveTimerHeap = manager.ActiveTimerHeap
      /\ manager'.PausedTimerSet = manager.PausedTimerSet
      /\ manager'.PendingTimerSet = manager.PendingTimerSet
      /\ manager'.CurrentlyExecutingTimer = manager.CurrentlyExecutingTimer
      /\ manager'.ObjectToTimers = manager.ObjectToTimers
      /\ manager'.InternalTime = now
      /\ manager'.LastAssignedSerialNumber = manager.LastAssignedSerialNumber
      /\ manager'.HasBeenTickedThisFrame = manager.HasBeenTickedThisFrame
  BY <1>1, <1>2, <1>3 DEF Manager
<1>6. /\ history' \in History /\ history'.remaining = left
      /\ history'.cleared = history.cleared /\ history'.called = history.called
      /\ history'.calledInTick = {} /\ history'.delayed = history.delayed \cap waiting
      /\ history'.pausedInCall = history.pausedInCall
  <2> HIDE DEF waiting
  <2> QED BY <1>1, <1>2, <1>4 DEF History
<1>7. Types' /\ tick'.at = "heap" /\ InTick' /\ ~InTick
  BY <1>1, <1>2, <1>5, <1>6 DEF Types, InTick
<1>8. ContainersAgree'
  <2>1. Agree(manager')
    BY <1>2, <1>5 DEF Agree, AgreeBut, Allocated, Timer
  <2> QED BY <1>5, <2>1, AgreeIsContainersAgreeNext
<1>9. HistoryIsPast' /\ SerialsDistinct' /\ TickIsBeforeTheEnd'
  BY <1>1, <1>5, <1>6, <1>7 DEF IInv, HistoryIsPast, SerialsDistinct, TickIsBeforeTheEnd, Used
<1>10. ASSUME NEW i \in Index, Used(i) PROVE TimerIsRight(i)'
  <2> DEFINE timer == manager.Timers[i]
  <2>1. /\ timer \in TimerData /\ timer = manager'.Timers[i]
        /\ timer.ExpireTime \in Int /\ history.remaining[i] \in Int
    BY <1>2, <1>5, <1>10 DEF Manager, Used, TimerData, History
  <2>2. /\ SetBefore(i) /\ ClearedIsGone(i) /\ CalledIsExecuting(i)
        /\ LeftIsRight(i) /\ LateIsKnown(i)
    BY <1>10, Unpacked DEF TimerIsRight
  <2>3. ~Has(i, "Executing")
    BY <1>1, <1>10, NoneExecutes
  <2>4. SetBefore(i)'
    BY <1>2, <1>3, <1>5, <2>1, <2>2 DEF SetBefore
  <2>5. ExecutingExpired(i)' /\ ClearedIsGone(i)' /\ CalledIsExecuting(i)' /\ OnceIsNotDue(i)'
    BY <1>5, <1>6, <2>2, <2>3
       DEF ExecutingExpired, ClearedIsGone, CalledIsExecuting, OnceIsNotDue, Has, In
  <2>6. history'.remaining[i] = IF Has(i, "Active") /\ KeepsItsTime(i)
                                THEN history.remaining[i] - DeltaTime
                                ELSE history.remaining[i]
    BY <1>6 DEF left, IsActive, Has
  <2>7. /\ KeepsItsTime(i)' <=> KeepsItsTime(i)
        /\ Left(i)' = IF Has(i, "Active") THEN Left(i) - DeltaTime ELSE Left(i)
        /\ Waits(i)' <=> Waits(i)
        /\ Left(i) \in Int
    BY <1>2, <1>5, <1>6, <2>1 DEF KeepsItsTime, Left, Waits, Has, now
  <2>8. LeftIsRight(i)'
    BY <1>2, <2>1, <2>2, <2>6, <2>7 DEF LeftIsRight
  <2>9. LateIsKnown(i)'
    <3> SUFFICES ASSUME Waits(i), history'.remaining[i] < 0
                 PROVE  \/ In(i, history'.delayed)
                        \/ Has(i, "Active") /\ timer.ExpireTime < manager'.InternalTime
      BY <1>5, <1>7, <2>7 DEF LateIsKnown, In, Has
    <3>1. CASE Has(i, "Active")
      <4>1. Left(i)' < 0
        BY <2>1, <2>7, <2>8 DEF LeftIsRight
      <4>2. Left(i)' = timer.ExpireTime - manager'.InternalTime
        BY <1>5, <3>1 DEF Left, Has
      <4>3. manager'.InternalTime \in Int
        BY <1>3, <1>5
      <4> QED BY <2>1, <3>1, <4>1, <4>2, <4>3
    <3>2. CASE ~Has(i, "Active")
      <4>1. In(i, history.delayed)
        BY <1>7, <2>2, <2>6, <3>2 DEF LateIsKnown
      <4> DEFINE h == [index |-> i, serial |-> timer.serial]
      <4>2. h \in Handle /\ Allocated(manager, h) /\ Timer(manager, h) = timer
        BY <1>10, HandleOf
      <4>3. timer.status \in {"Paused", "Pending"}
        BY <3>2 DEF Waits, Has
      <4>4. h \in manager.PausedTimerSet \cup manager.PendingTimerSet
        BY <1>2, <4>2, <4>3 DEF Agree, AgreeBut
      <4>5. timer.serial \in waiting
        BY <4>4
      <4> QED BY <1>6, <4>1, <4>5 DEF In
    <3> QED BY <3>1, <3>2
  <2> QED BY <2>4, <2>5, <2>8, <2>9 DEF TimerIsRight
<1>11. ASSUME NEW i \in Index PROVE TimerIsRight(i)'
  <2>1. CASE Used(i)
    BY <1>10, <2>1
  <2>2. CASE ~Used(i)
    BY <1>5, <2>2 DEF TimerIsRight, Used
  <2> QED BY <2>1, <2>2
<1> QED BY <1>7, <1>8, <1>9, <1>11 DEF IInv

\* What is in the heap is a timer that is active or waits for its removal.
LEMMA InTheHeap ==
  ASSUME IInv, NEW h \in manager.ActiveTimerHeap
  PROVE  /\ h \in Handle /\ Allocated(manager, h)
         /\ Timer(manager, h).status \in {"Active", "ActivePendingRemoval"}
BY Unpacked DEF Manager, Agree, AgreeBut

\* A timer that waited for its removal is removed when it is popped.
LEMMA PopClearedStep ==
  ASSUME IInv, NEW h \in manager.ActiveTimerHeap, PopCleared(h)
  PROVE  IInv'
<1> DEFINE m == [manager EXCEPT !.ActiveTimerHeap = @ \ {h}]
           i == h.index
<1>1. /\ tick.at = "heap" /\ manager' = RemoveTimers(m, {h})
      /\ tick' = tick /\ held' = held /\ history' = history
      /\ h \in Handle /\ Allocated(manager, h)
      /\ Timer(manager, h).status = "ActivePendingRemoval"
  BY InTheHeap DEF PopCleared, WasCleared
<1>2. /\ manager \in Manager /\ Agree(manager) /\ Types /\ i \in Index
  BY <1>1, Unpacked
<1>3. /\ m \in Manager /\ SameClock(m, manager) /\ m.Timers = manager.Timers
      /\ m.ActiveTimerHeap = manager.ActiveTimerHeap \ {h}
      /\ m.PausedTimerSet = manager.PausedTimerSet
      /\ m.PendingTimerSet = manager.PendingTimerSet
      /\ m.CurrentlyExecutingTimer = manager.CurrentlyExecutingTimer
      /\ m.ObjectToTimers = manager.ObjectToTimers
  BY <1>2 DEF Manager, SameClock
<1> HIDE DEF m
<1>4. AgreeButOn(m, h) /\ Allocated(m, h)
  <2>1. \A g : Timer(m, g) = Timer(manager, g) /\ (Allocated(m, g) <=> Allocated(manager, g))
    BY <1>3 DEF Timer, Allocated
  <2>2. h # NoHandle
    BY <1>1, <1>2, NoHandleIs
  <2>3. /\ h \notin m.ActiveTimerHeap /\ h \notin m.PendingTimerSet
        /\ h \notin m.PausedTimerSet /\ h # m.CurrentlyExecutingTimer
    BY <1>1, <1>2, <1>3, <2>2 DEF Agree, AgreeBut
  <2> QED BY <1>1, <1>2, <1>3, <2>1, <2>3 DEF Agree, AgreeBut, AgreeButOn
<1>5. /\ manager' \in Manager /\ Agree(manager') /\ SameClock(manager', m)
      /\ Replaced(manager', m, i, Free)
      /\ manager'.CurrentlyExecutingTimer = m.CurrentlyExecutingTimer
  BY <1>1, <1>3, <1>4, RemovedTimer
<1>6. OnlyOf(h) /\ TickIsAt(h)
  BY <1>1, <1>3, <1>5 DEF OnlyOf, TickIsAt, SameClock, Replaced
<1>7. Types' /\ TickIsBeforeTheEnd'
  BY <1>1, <1>2, <1>3, <1>5 DEF Types, IInv, TickIsBeforeTheEnd, SameClock, InTick
<1>8. TimerIsRight(i)'
  BY <1>5 DEF Replaced, TimerIsRight, Used
<1> QED BY <1>1, <1>5, <1>6, <1>7, <1>8, OneTimerStep

\* The periods of a timer that is due are over, and the next is not.
LEMMA CallCountIs ==
  ASSUME NEW timer \in TimerData, timer.bLoop => timer.Rate > 0,
         manager.InternalTime \in Nat, timer.ExpireTime < manager.InternalTime
  PROVE  /\ CallCount(timer) \in Nat /\ CallCount(timer) > 0
         /\ ~timer.bLoop => CallCount(timer) = 1
         /\ timer.bLoop =>
              /\ timer.ExpireTime + CallCount(timer) * timer.Rate > manager.InternalTime
              /\ timer.ExpireTime + (CallCount(timer) - 1) * timer.Rate <= manager.InternalTime
<1>1. timer.ExpireTime \in Int /\ timer.Rate \in Nat
  BY DEF TimerData
<1>2. CASE ~timer.bLoop
  BY <1>2 DEF CallCount
<1>3. CASE timer.bLoop
  <2> DEFINE late == manager.InternalTime - timer.ExpireTime
             q == late \div timer.Rate
             r == late % timer.Rate
  <2>1. late \in Int /\ late > 0 /\ timer.Rate > 0
    BY <1>1, <1>3
  <2> HIDE DEF late
  <2>2. /\ q \in Int /\ r \in Int /\ r >= 0 /\ r < timer.Rate
        /\ late = timer.Rate * q + r
    BY <1>1, <2>1
  <2>3. CallCount(timer) = q + 1
    BY <1>3 DEF CallCount, late
  <2> HIDE DEF q, r
  <2>4. q >= 0
    <3> SUFFICES ASSUME q <= -1 PROVE FALSE
      BY <2>2
    <3>1. timer.Rate * q <= -timer.Rate
      BY <1>1, <2>1, <2>2
    <3> QED BY <1>1, <2>1, <2>2, <3>1
  <2>5. (q + 1) * timer.Rate = timer.Rate * q + timer.Rate /\ (q + 1 - 1) * timer.Rate = timer.Rate * q
    BY <1>1, <2>2
  <2>6. timer.Rate * q \in Int
    BY <1>1, <2>2
  <2> QED BY <1>1, <1>3, <2>1, <2>2, <2>3, <2>4, <2>5, <2>6 DEF late
<1> QED BY <1>2, <1>3 DEF TimerData

\* A timer whose time is up is popped, to be called for each period that is
\* over.
LEMMA PopExpiredStep ==
  ASSUME IInv, NEW h \in manager.ActiveTimerHeap, PopExpired(h)
  PROVE  IInv'
<1> DEFINE m == [manager EXCEPT !.ActiveTimerHeap = @ \ {h}]
           i == h.index
           timer == Timer(manager, h)
           t == [timer EXCEPT !.status = "Executing"]
           calls == CallCount(timer)
<1>1. /\ tick.at = "heap"
      /\ tick' = [at |-> "call", CallCount |-> calls, left |-> calls]
      /\ held' = held /\ history' = history
      /\ h \in Handle /\ Allocated(manager, h)
      /\ timer.status = "Active"
      /\ manager.InternalTime > timer.ExpireTime
  BY InTheHeap DEF PopExpired, WasCleared, Expired
<1>2. /\ i \in Index /\ h.serial \in Nat /\ TimerIsRight(i)
      /\ timer = manager.Timers[i] /\ timer \in TimerData /\ timer.serial = h.serial
      /\ Used(i) /\ manager \in Manager /\ history \in History /\ manager.InternalTime \in Nat
      /\ Agree(manager) /\ Types
  BY <1>1, Unpacked
<1>3. /\ m \in Manager /\ SameClock(m, manager) /\ m.Timers = manager.Timers
      /\ m.ActiveTimerHeap = manager.ActiveTimerHeap \ {h}
      /\ m.PausedTimerSet = manager.PausedTimerSet
      /\ m.PendingTimerSet = manager.PendingTimerSet
      /\ m.CurrentlyExecutingTimer = manager.CurrentlyExecutingTimer
      /\ m.ObjectToTimers = manager.ObjectToTimers
  BY <1>2 DEF Manager, SameClock
<1>4. t \in TimerData /\ t.status = "Executing" /\ t.serial = h.serial
      /\ t.object = timer.object /\ t.bLoop = timer.bLoop /\ t.Rate = timer.Rate
      /\ t.bMaxOncePerFrame = timer.bMaxOncePerFrame /\ t.ExpireTime = timer.ExpireTime
  <2> HIDE DEF timer
  <2> QED BY <1>2 DEF TimerData, Status
<1>5. manager' = [m EXCEPT !.CurrentlyExecutingTimer = h, !.Timers = [m.Timers EXCEPT ![i] = t]]
  <2>1. manager' = [manager EXCEPT !.ActiveTimerHeap = @ \ {h}, !.CurrentlyExecutingTimer = h,
                                   !.Timers[i].status = "Executing"]
    BY <1>2 DEF PopExpired, SetStatus, Manager
  <2> QED BY <1>2, <1>3, <2>1 DEF Manager
<1> HIDE DEF m, t
<1>6. AgreeButOn(m, h) /\ Allocated(m, h) /\ Timer(m, h) = timer
  <2>1. \A g : Timer(m, g) = Timer(manager, g) /\ (Allocated(m, g) <=> Allocated(manager, g))
    BY <1>3 DEF Timer, Allocated
  <2>2. h # NoHandle
    BY <1>1, <1>2, NoHandleIs
  <2>3. /\ h \notin m.ActiveTimerHeap /\ h \notin m.PendingTimerSet
        /\ h \notin m.PausedTimerSet /\ h # m.CurrentlyExecutingTimer
    BY <1>1, <1>2, <1>3, <2>2 DEF Agree, AgreeBut
  <2> QED BY <1>1, <1>2, <1>3, <2>1, <2>3 DEF Agree, AgreeBut, AgreeButOn
<1>7. m.CurrentlyExecutingTimer = NoHandle
  <2> SUFFICES ASSUME m.CurrentlyExecutingTimer # NoHandle PROVE FALSE
    OBVIOUS
  <2> DEFINE c == m.CurrentlyExecutingTimer
  <2>1. c \in Handle /\ Allocated(manager, c) /\ Timer(manager, c).status = "Executing"
    BY <1>2, <1>3 DEF Agree, AgreeBut, Manager
  <2>2. /\ c.index \in Index /\ Used(c.index) /\ Timer(manager, c) = manager.Timers[c.index]
    BY <2>1, Unpacked
  <2> QED BY <1>1, <2>1, <2>2, NoneExecutes DEF Has
<1>8. /\ manager' \in Manager /\ SameClock(manager', m) /\ Replaced(manager', m, i, t)
      /\ manager'.ObjectToTimers = m.ObjectToTimers
      /\ manager'.ActiveTimerHeap = m.ActiveTimerHeap
      /\ manager'.PausedTimerSet = m.PausedTimerSet
      /\ manager'.PendingTimerSet = m.PendingTimerSet
      /\ manager'.CurrentlyExecutingTimer = h
  <2>1. [m.Timers EXCEPT ![i] = t] \in [Index -> TimerData \cup {Free}]
    BY <1>3, <1>4 DEF Manager
  <2> QED BY <1>1, <1>2, <1>3, <1>4, <1>5, <2>1 DEF Manager, SameClock, Replaced
<1>9. Agree(manager')
  BY <1>1, <1>3, <1>4, <1>6, <1>7, <1>8, RequeuedAgrees
<1>10. calls \in Nat /\ calls > 0 /\ (~timer.bLoop => calls = 1)
  <2>1. timer.bLoop => timer.Rate > 0
    BY <1>2 DEF TimerIsRight, SetBefore
  <2> QED BY <1>1, <1>2, <2>1, CallCountIs
<1> HIDE DEF calls
<1>11. /\ manager'.Timers[i] = t /\ manager'.InternalTime = manager.InternalTime
       /\ manager'.LastAssignedSerialNumber = manager.LastAssignedSerialNumber
       /\ manager'.HasBeenTickedThisFrame = manager.HasBeenTickedThisFrame
  BY <1>3, <1>8 DEF Replaced, SameClock
<1>12. Types'
  <2>1. tick' \in [at : {"idle", "heap", "call", "callback", "returned"},
                    CallCount : Nat, left : Nat]
    BY <1>1, <1>10
  <2> QED BY <1>1, <1>2, <1>8, <2>1 DEF Types
<1>13. OnlyOf(h) /\ TickIsAt(h)
  <2>1. OnlyOf(h)
    BY <1>1, <1>3, <1>4, <1>8, <1>11 DEF OnlyOf, Replaced
  <2>2. TickIsAt(h)
    BY <1>1, NoneExecutes DEF TickIsAt, InTick
  <2> QED BY <2>1, <2>2
<1>14. TickIsBeforeTheEnd'
  <2>1. h # NoHandle
    BY <1>1, <1>2, NoHandleIs
  <2> QED BY <1>1, <1>8, <1>11, <2>1 DEF TickIsBeforeTheEnd, IInv, InTick
<1>15. TimerIsRight(i)'
  <2>1. /\ SetBefore(i) /\ ClearedIsGone(i) /\ CalledIsExecuting(i) /\ OnceIsNotDue(i)
        /\ LeftIsRight(i) /\ Has(i, "Active") /\ Waits(i)
    BY <1>1, <1>2 DEF TimerIsRight, Has, Waits
  <2>2. timer.ExpireTime \in Int /\ history.remaining[i] \in Int /\ timer.Rate \in Nat
    BY <1>2 DEF TimerData, History
  <2>3. SetBefore(i)'
    BY <1>1, <1>2, <1>4, <1>11, <2>1 DEF SetBefore
  <2>4. ExecutingExpired(i)'
    <3>1. CallCount(manager.Timers[i])' = calls
      BY <1>4, <1>11 DEF CallCount, calls
    <3>2. CallsMade(manager.Timers[i])' = 0
      BY <1>1, <1>10 DEF CallsMade
    <3>3. KeepsItsTime(i)' => history'.remaining[i] = t.ExpireTime - manager'.InternalTime
      BY <1>1, <1>2, <1>4, <1>11, <2>1 DEF KeepsItsTime, LeftIsRight, Left
    <3>4. t.Rate * 0 = 0 /\ t.ExpireTime - manager'.InternalTime \in Int
      BY <1>2, <1>4, <1>11, <2>2
    <3> HIDE DEF timer
    <3> QED BY <1>1, <1>4, <1>10, <1>11, <2>2, <3>1, <3>2, <3>3, <3>4
            DEF ExecutingExpired, Has
  <2>5. ClearedIsGone(i)' /\ CalledIsExecuting(i)'
    BY <1>1, <1>2, <1>4, <1>11, <2>1 DEF ClearedIsGone, CalledIsExecuting, Has, In
  <2>6. OnceIsNotDue(i)'
    <3>1. ~(timer.bMaxOncePerFrame /\ In(i, history.calledInTick))
      BY <1>1, <1>2, <2>1, <2>2 DEF OnceIsNotDue, InTick
    <3> QED BY <1>1, <1>2, <1>4, <1>11, <3>1 DEF OnceIsNotDue, In
  <2>7. LeftIsRight(i)' /\ LateIsKnown(i)'
    BY <1>4, <1>11 DEF LeftIsRight, LateIsKnown, Waits
  <2> QED BY <2>3, <2>4, <2>5, <2>6, <2>7 DEF TimerIsRight
<1> QED BY <1>1, <1>9, <1>12, <1>13, <1>14, <1>15, OneTimerStep

\* The timer that is being called, if there is one
LEMMA TheExecuting ==
  ASSUME IInv
  PROVE  LET h == manager.CurrentlyExecutingTimer IN
         /\ h \in Handle
         /\ h # NoHandle => /\ Allocated(manager, h) /\ FindTimer(manager, h)
                            /\ Has(h.index, "Executing")
         /\ \A i \in Index : Used(i) /\ Has(i, "Executing") => h # NoHandle /\ i = h.index
<1> DEFINE h == manager.CurrentlyExecutingTimer
<1>1. h \in Handle /\ Agree(manager)
  BY Unpacked DEF Manager
<1>2. ASSUME h # NoHandle
      PROVE  Allocated(manager, h) /\ FindTimer(manager, h) /\ Has(h.index, "Executing")
  BY <1>1, <1>2 DEF Agree, AgreeBut, FindTimer, Has, Timer
<1>3. ASSUME NEW i \in Index, Used(i), Has(i, "Executing")
      PROVE  h # NoHandle /\ i = h.index
  <2> DEFINE g == [index |-> i, serial |-> manager.Timers[i].serial]
  <2>1. /\ g \in Handle /\ Allocated(manager, g) /\ Timer(manager, g) = manager.Timers[i]
        /\ g.index = i
    BY <1>3, HandleOf
  <2> HIDE DEF g
  <2>2. g # NoHandle /\ g = h
    BY <1>1, <1>3, <2>1 DEF Agree, AgreeBut, Has
  <2> QED BY <2>1, <2>2
<1> QED BY <1>1, <1>2, <1>3

\* The time of one more call
LEMMA OneMore == ASSUME NEW a \in Int, NEW b \in Int PROVE a * (b + 1) = a * b + a
OBVIOUS

\* The call of a timer is one of those it is due, and puts off the next by its
\* rate.
LEMMA ExecuteStep ==
  ASSUME IInv, Execute
  PROVE  IInv'
<1> SUFFICES ASSUME NEW h \in Handle, h = manager.CurrentlyExecutingTimer PROVE IInv'
  BY TheExecuting
<1> DEFINE i == h.index
           timer == Timer(manager, h)
           time == timer.Rate * (IF timer.bMaxOncePerFrame THEN tick.CallCount ELSE 1)
<1>1. /\ tick.at = "call" /\ tick.left > 0
      /\ tick' = [tick EXCEPT !.left = @ - 1,
                    !.at = IF timer.object \in bound THEN "callback" ELSE "returned"]
      /\ history' = Called(h, time)
      /\ manager' = manager /\ held' = held
  BY Zenon DEF Execute
<1>2. /\ Allocated(manager, h) /\ h # NoHandle /\ Has(i, "Executing")
      /\ \A j \in Index : Used(j) /\ j # i => ~Has(j, "Executing")
  BY <1>1, TheExecuting DEF IInv, TickIsBeforeTheEnd
<1>3. /\ i \in Index /\ h.serial \in Nat /\ TimerIsRight(i)
      /\ timer = manager.Timers[i] /\ timer \in TimerData /\ timer.serial = h.serial
      /\ Used(i) /\ manager \in Manager /\ history \in History /\ manager.InternalTime \in Nat
      /\ Agree(manager) /\ Types
  BY <1>2, Unpacked
<1>4. /\ tick.CallCount \in Nat /\ tick.left \in Nat
      /\ timer.Rate \in Nat /\ timer.ExpireTime \in Int /\ history.remaining[i] \in Int
      /\ timer.bLoop \in BOOLEAN /\ timer.bMaxOncePerFrame \in BOOLEAN
  BY <1>3 DEF Types, TimerData, History
<1>5. time \in Int
  BY <1>4
<1> HIDE DEF time
<1>6. /\ tick' \in [at : {"callback", "returned"}, CallCount : Nat, left : Nat]
      /\ tick'.CallCount = tick.CallCount /\ tick'.left = tick.left - 1
      /\ tick'.at \in {"callback", "returned"}
  <2> DEFINE at == IF timer.object \in bound THEN "callback" ELSE "returned"
  <2>1. at \in {"callback", "returned"} /\ tick.left - 1 \in Nat
    BY <1>1, <1>4
  <2>2. tick' = [tick EXCEPT !.left = @ - 1, !.at = at]
    BY <1>1
  <2> HIDE DEF at
  <2> QED BY <1>3, <2>1, <2>2 DEF Types
<1>7. /\ history' \in History
      /\ history'.remaining[i] = IF KeepsItsTime(i) THEN history.remaining[i] + time ELSE 0
      /\ \A j \in Index : j # i => history'.remaining[j] = history.remaining[j]
      /\ history'.cleared = history.cleared
      /\ history'.calledInTick = IF timer.bMaxOncePerFrame
                                 THEN history.calledInTick \cup {h.serial}
                                 ELSE history.calledInTick
      /\ history'.called = IF timer.bLoop THEN history.called ELSE history.called \cup {h.serial}
      /\ history'.delayed = history.delayed /\ history'.pausedInCall = history.pausedInCall
  <2> DEFINE r == IF KeepsItsTime(i) THEN history.remaining[i] + time ELSE 0
             once == IF timer.bMaxOncePerFrame
                     THEN history.calledInTick \cup {h.serial} ELSE history.calledInTick
             called == IF timer.bLoop THEN history.called ELSE history.called \cup {h.serial}
             remaining == [history.remaining EXCEPT ![i] = r]
  <2>1. history' = [history EXCEPT !.remaining = remaining, !.calledInTick = once,
                                  !.called = called]
    <3>1. history' = [history EXCEPT !.remaining[i] = IF KeepsItsTime(i) THEN @ + time ELSE 0,
                    !.calledInTick = IF timer.bMaxOncePerFrame
                                     THEN @ \cup {h.serial} ELSE @,
                    !.called = IF timer.bLoop THEN @ ELSE @ \cup {h.serial}]
      BY <1>1, Zenon DEF Called
    <3> HIDE DEF timer, i
    <3> QED BY <1>3, <3>1 DEF History
  <2>2. r \in Int /\ once \in SUBSET Nat /\ called \in SUBSET Nat
    BY <1>3, <1>4, <1>5 DEF History
  <2> HIDE DEF r, once, called
  <2>3. /\ remaining \in [Index -> Int] /\ remaining[i] = r
        /\ \A j \in Index : j # i => remaining[j] = history.remaining[j]
    BY <1>3, <2>2 DEF History
  <2> HIDE DEF remaining
  <2>4. /\ history' \in History /\ history'.remaining = remaining
        /\ history'.calledInTick = once /\ history'.called = called
        /\ history'.cleared = history.cleared
        /\ history'.delayed = history.delayed /\ history'.pausedInCall = history.pausedInCall
    BY <1>3, <2>1, <2>2, <2>3 DEF History
  <2> QED BY <2>3, <2>4 DEF r, once, called
<1>8. Types'
  BY <1>1, <1>3, <1>6, <1>7 DEF Types
<1>9. OnlyOf(h) /\ TickIsAt(h)
  <2>1. OnlyOf(h)
    BY <1>1, <1>3, <1>7 DEF OnlyOf
  <2>2. TickIsAt(h)
    BY <1>1, <1>2, <1>6 DEF TickIsAt, InTick
  <2> QED BY <2>1, <2>2
<1>10. Agree(manager') /\ TickIsBeforeTheEnd'
  BY <1>1, <1>3, <1>6 DEF TickIsBeforeTheEnd, IInv, InTick
<1>11. TimerIsRight(i)'
  <2>1. /\ SetBefore(i) /\ ExecutingExpired(i) /\ ClearedIsGone(i)
    BY <1>3 DEF TimerIsRight
  <2>2. SetBefore(i)' /\ ClearedIsGone(i)' /\ CalledIsExecuting(i)' /\ OnceIsNotDue(i)'
    BY <1>1, <1>2, <1>6, <1>7, <2>1
       DEF SetBefore, ClearedIsGone, CalledIsExecuting, OnceIsNotDue, Has, In
  <2>3. LeftIsRight(i)' /\ LateIsKnown(i)'
    BY <1>1, <1>2 DEF LeftIsRight, LateIsKnown, Waits, Has
  <2>4. ExecutingExpired(i)'
    <3>1. /\ timer.ExpireTime < manager.InternalTime /\ tick.CallCount = CallCount(timer)
          /\ tick.left <= tick.CallCount
          /\ KeepsItsTime(i) => history.remaining[i] =
               timer.ExpireTime - manager.InternalTime + timer.Rate * CallsMade(timer)
      BY <1>2, <1>3, <2>1 DEF ExecutingExpired
    <3>2. CallCount(manager.Timers[i])' = CallCount(timer)
      BY <1>1, <1>3 DEF CallCount
    <3>3. timer.Rate * CallsMade(manager.Timers[i])' = timer.Rate * CallsMade(timer) + time
      <4>1. CASE timer.bMaxOncePerFrame
        <5>1. CallsMade(manager.Timers[i])' = tick.CallCount /\ CallsMade(timer) = 0
          BY <1>1, <1>3, <1>6, <4>1 DEF CallsMade
        <5>2. time = timer.Rate * tick.CallCount
          BY <4>1 DEF time
        <5> HIDE DEF timer
        <5> QED BY <1>4, <5>1, <5>2
      <4>2. CASE ~timer.bMaxOncePerFrame
        <5> DEFINE made == tick.CallCount - tick.left
        <5>1. CallsMade(manager.Timers[i])' = made + 1 /\ CallsMade(timer) = made
          BY <1>1, <1>3, <1>4, <1>6, <4>2 DEF CallsMade
        <5>2. time = timer.Rate /\ made \in Int
          BY <1>4, <4>2 DEF time
        <5> HIDE DEF timer, made
        <5>3. timer.Rate * (made + 1) = timer.Rate * made + timer.Rate
          <6> DEFINE rate == timer.Rate
          <6>1. rate \in Int /\ made \in Int
            BY <1>4, <5>2
          <6> HIDE DEF rate
          <6>2. rate * (made + 1) = rate * made + rate
            BY <6>1, OneMore
          <6> QED BY <6>2 DEF rate
        <5> QED BY <5>1, <5>2, <5>3
      <4> QED BY <4>1, <4>2
    <3>4. CallsMade(timer) \in Int /\ timer.Rate * CallsMade(timer) \in Int
      <4>1. CallsMade(timer) \in Int
        BY <1>4 DEF CallsMade
      <4> HIDE DEF timer
      <4> QED BY <1>4, <4>1
    <3>5. KeepsItsTime(i)' <=> KeepsItsTime(i)
      BY <1>1, <1>7 DEF KeepsItsTime
    <3>6. KeepsItsTime(i) => history'.remaining[i] =
            timer.ExpireTime - manager.InternalTime + timer.Rate * CallsMade(manager.Timers[i])'
      BY <1>3, <1>4, <1>5, <1>7, <3>1, <3>3, <3>4
    <3>7. tick'.left < tick'.CallCount /\ tick'.left <= tick'.CallCount
      BY <1>4, <1>6, <3>1
    <3>8. /\ ~KeepsItsTime(i)' => history'.remaining[i] = 0
          /\ manager'.Timers[i] = timer /\ manager'.InternalTime = manager.InternalTime
      BY <1>1, <1>3, <1>7, <3>5
    <3> QED BY <1>6, <3>1, <3>2, <3>5, <3>6, <3>7, <3>8 DEF ExecutingExpired
  <2> QED BY <2>2, <2>3, <2>4 DEF TimerIsRight
<1> QED BY <1>2, <1>8, <1>9, <1>10, <1>11, OneTimerStep

\* The timer went away in its call.
LEMMA ReturnedGone ==
  ASSUME IInv, Returned, ~FindTimer(manager, manager.CurrentlyExecutingTimer)
  PROVE  IInv'
<1>1. /\ manager' = manager /\ held' = held /\ history' = history
      /\ tick' = [tick EXCEPT !.at = "heap"]
      /\ tick.at \in {"callback", "returned", "call"}
  BY DEF Returned
<1>2. \A i \in Index : Used(i) => ~Has(i, "Executing")
  BY TheExecuting
<1>3. Types /\ Types' /\ InTick /\ InTick'
  BY <1>1, Unpacked DEF Types, InTick
<1>4. ClockStands
  BY <1>1, Unpacked DEF ClockStands
<1>5. ASSUME NEW i \in Index PROVE TimerIsRight(i)'
  <2>1. KnownAsBefore(i) /\ TickKeeps(i)
    BY <1>1, <1>2, <1>3 DEF KnownAsBefore, TickKeeps
  <2>2. manager'.Timers[i] = manager.Timers[i]
    BY <1>1
  <2> QED BY <1>3, <1>4, <2>1, <2>2, Unpacked, KeptTimer
<1>6. HistoryIsPast' /\ SerialsDistinct' /\ TickIsBeforeTheEnd' /\ ContainersAgree'
  <2>1. tick'.at = "heap"
    BY <1>1, <1>3 DEF Types
  <2>2. HistoryIsPast' /\ SerialsDistinct' /\ TickIsBeforeTheEnd'
    BY <1>1, <1>3, <2>1 DEF IInv, HistoryIsPast, SerialsDistinct, TickIsBeforeTheEnd, Used
  <2>3. ContainersAgree'
    BY <1>1, Unpacked, AgreeIsContainersAgreeNext
  <2> QED BY <2>2, <2>3
<1> QED BY <1>3, <1>5, <1>6 DEF IInv

\* What is known of the timer that comes back from its call
LEMMA BackFromCall ==
  ASSUME IInv, Returned, NEW h \in Handle, h = manager.CurrentlyExecutingTimer,
         FindTimer(manager, h)
  PROVE  LET timer == manager.Timers[h.index] IN
         /\ h # NoHandle /\ Allocated(manager, h) /\ Has(h.index, "Executing")
         /\ h.index \in Index /\ Timer(manager, h) = timer /\ timer \in TimerData
         /\ timer.serial = h.serial /\ Used(h.index) /\ TimerIsRight(h.index)
         /\ \A j \in Index : Used(j) /\ j # h.index => ~Has(j, "Executing")
         /\ tick.at \in {"callback", "returned"} /\ InTick
         /\ held' = held /\ history' = history
<1>1. h # NoHandle /\ Allocated(manager, h)
  BY DEF FindTimer
<1>2. /\ Has(h.index, "Executing") /\ h.index \in Index /\ TimerIsRight(h.index) /\ Used(h.index)
      /\ Timer(manager, h) = manager.Timers[h.index] /\ manager.Timers[h.index] \in TimerData
      /\ manager.Timers[h.index].serial = h.serial
      /\ \A j \in Index : Used(j) /\ j # h.index => ~Has(j, "Executing")
  BY <1>1, Unpacked, TheExecuting
<1>3. tick.at = "call" => tick.left > 0
  BY <1>2 DEF TimerIsRight, ExecutingExpired
<1>4. /\ tick.at \in {"callback", "returned"} \/ (tick.at = "call" /\ tick.left = 0)
      /\ held' = held /\ history' = history
  BY DEF Returned
<1>5. tick.at \in {"callback", "returned"}
  BY <1>3, <1>4
<1>6. InTick
  BY <1>5 DEF InTick
<1> QED BY <1>1, <1>2, <1>4, <1>5, <1>6

\* It is called for its next period.
LEMMA ReturnedGoesOn ==
  ASSUME IInv, Returned, NEW h \in Handle, h = manager.CurrentlyExecutingTimer,
         FindTimer(manager, h), GoesOn(Timer(manager, h))
  PROVE  IInv'
<1> DEFINE i == h.index
           timer == manager.Timers[i]
<1>1. /\ h # NoHandle /\ Allocated(manager, h) /\ Has(i, "Executing")
      /\ i \in Index /\ Timer(manager, h) = timer /\ timer \in TimerData
      /\ timer.serial = h.serial /\ Used(i) /\ TimerIsRight(i)
      /\ \A j \in Index : Used(j) /\ j # i => ~Has(j, "Executing")
      /\ tick.at \in {"callback", "returned"} /\ InTick
      /\ held' = held /\ history' = history
  BY BackFromCall
<1>2. /\ manager' = manager /\ tick' = [tick EXCEPT !.at = "call"]
  BY DEF Returned
<1>3. tick.left > 0 /\ ~timer.bMaxOncePerFrame
  BY <1>1 DEF GoesOn
<1>4. Types /\ Types'
  BY <1>1, <1>2, Unpacked DEF Types
<1>5. /\ tick'.at = "call" /\ tick'.CallCount = tick.CallCount /\ tick'.left = tick.left
      /\ InTick' /\ tick.CallCount \in Nat /\ tick.left \in Nat
  BY <1>2, <1>4 DEF Types, InTick
<1>6. OnlyOf(h) /\ TickIsAt(h) /\ Agree(manager') /\ TickIsBeforeTheEnd'
  <2>1. OnlyOf(h)
    BY <1>1, <1>2 DEF OnlyOf
  <2>2. TickIsAt(h)
    BY <1>1, <1>5 DEF TickIsAt
  <2>3. TickIsBeforeTheEnd'
    BY <1>1, <1>2, <1>5 DEF IInv, TickIsBeforeTheEnd
  <2> QED BY <1>2, <2>1, <2>2, <2>3, Unpacked
<1>7. TimerIsRight(i)'
  <2>1. /\ SetBefore(i) /\ ExecutingExpired(i) /\ ClearedIsGone(i) /\ CalledIsExecuting(i)
    BY <1>1 DEF TimerIsRight
  <2>2. /\ timer.ExpireTime < manager.InternalTime /\ tick.CallCount = CallCount(timer)
        /\ tick.left < tick.CallCount
        /\ KeepsItsTime(i) => history.remaining[i] =
             timer.ExpireTime - manager.InternalTime + timer.Rate * CallsMade(timer)
    BY <1>1, <2>1 DEF ExecutingExpired
  <2>3. CallsMade(timer)' = CallsMade(timer) /\ CallCount(timer)' = CallCount(timer)
    BY <1>2, <1>3, <1>5 DEF CallsMade, CallCount
  <2>4. ExecutingExpired(i)'
    BY <1>1, <1>2, <1>3, <1>5, <2>2, <2>3 DEF ExecutingExpired, KeepsItsTime
  <2>5. timer.bLoop
    <3> SUFFICES ASSUME ~timer.bLoop PROVE FALSE
      OBVIOUS
    <3>1. tick.CallCount = 1
      BY <2>2 DEF CallCount
    <3> QED BY <1>3, <1>5, <2>2, <3>1
  <2>6. SetBefore(i)' /\ ClearedIsGone(i)' /\ CalledIsExecuting(i)' /\ OnceIsNotDue(i)'
    BY <1>1, <1>2, <1>3, <2>1, <2>5
       DEF SetBefore, ClearedIsGone, CalledIsExecuting, OnceIsNotDue, Has, In
  <2>7. LeftIsRight(i)' /\ LateIsKnown(i)'
    BY <1>1, <1>2 DEF LeftIsRight, LateIsKnown, Waits, Has
  <2> QED BY <2>4, <2>6, <2>7 DEF TimerIsRight
<1> QED BY <1>1, <1>4, <1>6, <1>7, OneTimerStep

\* It is put off to its next period, or removed.
LEMMA ReturnedDone ==
  ASSUME IInv, Returned, NEW h \in Handle, h = manager.CurrentlyExecutingTimer,
         FindTimer(manager, h), ~GoesOn(Timer(manager, h))
  PROVE  IInv'
<1> DEFINE i == h.index
           timer == manager.Timers[i]
           m == [manager EXCEPT !.CurrentlyExecutingTimer = NoHandle]
           next == timer.ExpireTime + tick.CallCount * timer.Rate
           t == [timer EXCEPT !.status = "Active", !.ExpireTime = next]
<1>1. /\ h # NoHandle /\ Allocated(manager, h) /\ Has(i, "Executing")
      /\ i \in Index /\ Timer(manager, h) = timer /\ timer \in TimerData
      /\ timer.serial = h.serial /\ Used(i) /\ TimerIsRight(i)
      /\ \A j \in Index : Used(j) /\ j # i => ~Has(j, "Executing")
      /\ tick.at \in {"callback", "returned"} /\ InTick
      /\ held' = held /\ history' = history
  BY BackFromCall
<1>2. /\ manager \in Manager /\ Agree(manager) /\ Types /\ history \in History
      /\ manager.InternalTime \in Nat /\ tick.CallCount \in Nat /\ tick.left \in Nat
      /\ timer.Rate \in Nat /\ timer.ExpireTime \in Int /\ history.remaining[i] \in Int
      /\ timer.bLoop \in BOOLEAN /\ timer.bMaxOncePerFrame \in BOOLEAN
  BY <1>1, Unpacked DEF Types, TimerData, History
<1>3. /\ tick' = [tick EXCEPT !.at = "heap"]
      /\ manager' = IF Rearmed(timer)
                    THEN [m EXCEPT !.ActiveTimerHeap = @ \cup {h},
                            !.Timers[i].status = "Active",
                            !.Timers[i].ExpireTime = @ + tick.CallCount * timer.Rate]
                    ELSE RemoveTimers(m, {h})
  BY <1>1 DEF Returned
<1>4. /\ m \in Manager /\ SameClock(m, manager) /\ m.Timers = manager.Timers
      /\ m.ActiveTimerHeap = manager.ActiveTimerHeap
      /\ m.PausedTimerSet = manager.PausedTimerSet
      /\ m.PendingTimerSet = manager.PendingTimerSet
      /\ m.CurrentlyExecutingTimer = NoHandle
      /\ m.ObjectToTimers = manager.ObjectToTimers
  BY <1>2, NoHandleIs DEF Manager, SameClock
<1> HIDE DEF m
<1>5. AgreeButOn(m, h) /\ Allocated(m, h) /\ Timer(m, h) = timer
  <2>1. \A g : Timer(m, g) = Timer(manager, g) /\ (Allocated(m, g) <=> Allocated(manager, g))
    BY <1>4 DEF Timer, Allocated
  <2>2. Timer(manager, h).status = "Executing"
    BY <1>1 DEF Has
  <2>3. /\ h \notin m.ActiveTimerHeap /\ h \notin m.PendingTimerSet
        /\ h \notin m.PausedTimerSet /\ h # m.CurrentlyExecutingTimer
    BY <1>1, <1>2, <1>4, <2>2 DEF Agree, AgreeBut
  <2> QED BY <1>1, <1>2, <1>4, <2>1, <2>3 DEF Agree, AgreeBut, AgreeButOn
<1>6. tick'.at = "heap" /\ InTick' /\ tick' \in [at : {"heap"}, CallCount : Nat, left : Nat]
  BY <1>2, <1>3 DEF Types, InTick
<1>7. TickIsAt(h)
  BY <1>1, <1>6 DEF TickIsAt
<1>8. CASE ~Rearmed(timer)
  <2>1. /\ manager' \in Manager /\ Agree(manager') /\ SameClock(manager', m)
        /\ Replaced(manager', m, i, Free)
    BY <1>3, <1>4, <1>5, <1>8, RemovedTimer
  <2>2. Types'
    BY <1>1, <1>2, <1>6, <2>1 DEF Types
  <2>3. OnlyOf(h)
    BY <1>1, <1>4, <2>1 DEF OnlyOf, SameClock, Replaced
  <2>4. TickIsBeforeTheEnd'
    BY <1>1, <1>4, <1>6, <2>1 DEF IInv, TickIsBeforeTheEnd, SameClock
  <2>5. TimerIsRight(i)'
    BY <2>1 DEF Replaced, TimerIsRight, Used
  <2> QED BY <1>1, <1>7, <2>1, <2>2, <2>3, <2>4, <2>5, OneTimerStep
<1>9. CASE Rearmed(timer)
  <2>1. timer.bLoop /\ timer.Rate > 0
    BY <1>1, <1>9 DEF Rearmed, TimerIsRight, SetBefore
  <2>2. next \in Int
    BY <1>2
  <2>3. /\ SetBefore(i) /\ ExecutingExpired(i) /\ ClearedIsGone(i) /\ CalledIsExecuting(i)
    BY <1>1 DEF TimerIsRight
  <2>4. /\ timer.ExpireTime < manager.InternalTime /\ tick.CallCount = CallCount(timer)
        /\ KeepsItsTime(i) => history.remaining[i] =
             timer.ExpireTime - manager.InternalTime + timer.Rate * CallsMade(timer)
        /\ ~KeepsItsTime(i) => history.remaining[i] = 0
    BY <1>1, <2>3 DEF ExecutingExpired
  <2>5. CallsMade(timer) = tick.CallCount
    BY <1>1, <1>2 DEF CallsMade, GoesOn
  <2>6. next > manager.InternalTime
    BY <1>1, <1>2, <2>1, <2>4, CallCountIs
  <2>7. tick.CallCount * timer.Rate = timer.Rate * tick.CallCount
        /\ timer.Rate * tick.CallCount \in Int
    <3> DEFINE rate == timer.Rate
    <3>1. rate \in Int
      BY <1>2
    <3> HIDE DEF rate
    <3>2. tick.CallCount * rate = rate * tick.CallCount /\ rate * tick.CallCount \in Int
      BY <1>2, <3>1
    <3> QED BY <3>2 DEF rate
  <2>8. KeepsItsTime(i) => history.remaining[i] = next - manager.InternalTime
    BY <1>2, <2>4, <2>5, <2>7
  <2> HIDE DEF next
  <2>9. /\ t \in TimerData /\ t.status = "Active" /\ t.ExpireTime = next
        /\ t.serial = h.serial /\ t.object = timer.object
        /\ t.bLoop = timer.bLoop /\ t.Rate = timer.Rate
        /\ t.bMaxOncePerFrame = timer.bMaxOncePerFrame
    <3> HIDE DEF timer
    <3> QED BY <1>1, <2>2 DEF TimerData, Status
  <2>10. manager' = [m EXCEPT !.ActiveTimerHeap = @ \cup {h}, !.Timers = [m.Timers EXCEPT ![i] = t]]
    <3>1. m.Timers[i] = timer /\ m.Timers \in [Index -> TimerData \cup {Free}]
      BY <1>4 DEF Manager
    <3> DEFINE x == tick.CallCount * timer.Rate
               Timers == [[m.Timers EXCEPT ![i].status = "Active"] EXCEPT ![i].ExpireTime = @ + x]
    <3>2. manager' = [m EXCEPT !.ActiveTimerHeap = @ \cup {h}, !.Timers = Timers]
      <4>1. manager' = [m EXCEPT !.ActiveTimerHeap = @ \cup {h}, !.Timers[i].status = "Active",
                                 !.Timers[i].ExpireTime = @ + x]
        BY <1>3, <1>9
      <4>2. m.Timers[i] \in TimerData
        BY <1>1, <3>1
      <4> HIDE DEF timer, i, x
      <4> QED BY <1>1, <1>4, <4>1, <4>2 DEF Manager, TimerData, i
    <3>3. Timers = [m.Timers EXCEPT ![i] = t]
      <4>1. next = timer.ExpireTime + x
        BY DEF next
      <4> HIDE DEF x, timer, i
      <4> QED BY <1>1, <3>1, <4>1 DEF TimerData
    <3> HIDE DEF Timers, t
    <3> QED BY <3>2, <3>3
  <2> HIDE DEF t
  <2>11. /\ manager' \in Manager /\ SameClock(manager', m) /\ Replaced(manager', m, i, t)
         /\ manager'.ObjectToTimers = m.ObjectToTimers
         /\ manager'.ActiveTimerHeap = m.ActiveTimerHeap \cup {h}
         /\ manager'.PausedTimerSet = m.PausedTimerSet
         /\ manager'.PendingTimerSet = m.PendingTimerSet
         /\ manager'.CurrentlyExecutingTimer = m.CurrentlyExecutingTimer
    <3>1. [m.Timers EXCEPT ![i] = t] \in [Index -> TimerData \cup {Free}]
      BY <1>4, <2>9 DEF Manager
    <3> QED BY <1>1, <1>4, <2>9, <2>10, <3>1 DEF Manager, SameClock, Replaced
  <2>12. Agree(manager')
    BY <1>1, <1>4, <1>5, <2>9, <2>11, RequeuedAgrees
  <2>13. Types'
    BY <1>1, <1>2, <1>6, <2>11 DEF Types
  <2>14. /\ manager'.Timers[i] = t /\ manager'.InternalTime = manager.InternalTime
         /\ manager'.LastAssignedSerialNumber = manager.LastAssignedSerialNumber
         /\ manager'.HasBeenTickedThisFrame = manager.HasBeenTickedThisFrame
    BY <1>4, <2>11 DEF Replaced, SameClock
  <2>15. OnlyOf(h)
    BY <1>1, <1>4, <2>9, <2>11, <2>14 DEF OnlyOf, Replaced
  <2>16. TickIsBeforeTheEnd'
    BY <1>1, <1>6, <2>14 DEF IInv, TickIsBeforeTheEnd
  <2>17. TimerIsRight(i)'
    <3>1. SetBefore(i)'
      <4>1. timer.serial <= manager.LastAssignedSerialNumber
        BY <2>3 DEF SetBefore
      <4>2. next >= 0
        BY <1>2, <2>2, <2>6
      <4> QED BY <1>1, <2>1, <2>9, <2>14, <4>1, <4>2 DEF SetBefore
    <3>2. ExecutingExpired(i)' /\ CalledIsExecuting(i)'
      BY <2>1, <2>9, <2>14 DEF ExecutingExpired, CalledIsExecuting, Has
    <3>3. ClearedIsGone(i)'
      BY <1>1, <2>3, <2>9, <2>14 DEF ClearedIsGone, Has, In
    <3>4. OnceIsNotDue(i)'
      BY <1>2, <2>2, <2>6, <2>9, <2>14 DEF OnceIsNotDue, Has
    <3>5. KeepsItsTime(i)' <=> KeepsItsTime(i)
      BY <1>1, <2>9, <2>14 DEF KeepsItsTime
    <3>6. Left(i)' = next - manager.InternalTime
      BY <2>9, <2>14 DEF Left, Has
    <3>7. LeftIsRight(i)'
      BY <1>1, <2>4, <2>8, <3>5, <3>6 DEF LeftIsRight
    <3>8. LateIsKnown(i)'
      <4>1. history.remaining[i] >= 0
        BY <1>2, <2>2, <2>4, <2>6, <2>8
      <4> QED BY <1>1, <1>2, <4>1 DEF LateIsKnown
    <3> QED BY <3>1, <3>2, <3>3, <3>4, <3>7, <3>8 DEF TimerIsRight
  <2> QED BY <1>1, <1>7, <2>12, <2>13, <2>15, <2>16, <2>17, OneTimerStep
<1> QED BY <1>8, <1>9

\* When a delegate has returned Tick calls it again, or puts the timer back into
\* the heap or removes it, if the delegate has not changed that: in each case the
\* invariant is kept.
LEMMA ReturnedStep ==
  ASSUME IInv, Returned
  PROVE  IInv'
<1> SUFFICES ASSUME NEW h \in Handle, h = manager.CurrentlyExecutingTimer PROVE IInv'
  BY TheExecuting
<1>1. CASE ~FindTimer(manager, h)
  BY <1>1, ReturnedGone
<1>2. CASE FindTimer(manager, h) /\ GoesOn(Timer(manager, h))
  BY <1>2, ReturnedGoesOn
<1>3. CASE FindTimer(manager, h) /\ ~GoesOn(Timer(manager, h))
  BY <1>3, ReturnedDone
<1> QED BY <1>1, <1>2, <1>3

\* The heap has a top, which is not later than any other timer of it.
LEMMA HeapHasTop ==
  ASSUME IInv, manager.ActiveTimerHeap # {}
  PROVE  \E h \in manager.ActiveTimerHeap : IsTop(h)
<1> DEFINE Time(h) == Timer(manager, h).ExpireTime
           Times == {Time(h) : h \in manager.ActiveTimerHeap}
           R == OpToRel(<, Nat)
<1>1. \A h \in manager.ActiveTimerHeap : Time(h) \in Nat
  <2> SUFFICES ASSUME NEW h \in manager.ActiveTimerHeap PROVE Time(h) \in Nat
    OBVIOUS
  <2>1. /\ h.index \in Index /\ Used(h.index) /\ Timer(manager, h) = manager.Timers[h.index]
        /\ manager.Timers[h.index] \in TimerData /\ TimerIsRight(h.index)
        /\ Timer(manager, h).status \in {"Active", "ActivePendingRemoval"}
    BY InTheHeap, Unpacked
  <2>2. Time(h) \in Int
    BY <2>1 DEF TimerData
  <2>3. Time(h) >= 0
    BY <2>1 DEF TimerIsRight, SetBefore
  <2> QED BY <2>2, <2>3
<1>2. Times \subseteq Nat /\ Times # {}
  BY <1>1
<1>3. IsWellFoundedOn(R, Nat)
  BY NatLessThanWellFounded
<1> HIDE DEF Times
<1>4. \A x, y \in Nat : <<x, y>> \in R <=> x < y
  BY DEF OpToRel
<1> HIDE DEF R
<1>5. PICK x \in Times : \A y \in Times : ~(<<y, x>> \in R)
  BY <1>2, <1>3, WFMin
<1>6. \A y \in Times : x <= y
  <2> SUFFICES ASSUME NEW y \in Times PROVE x <= y
    OBVIOUS
  <2>1. x \in Nat /\ y \in Nat
    BY <1>2
  <2>2. ~(y < x)
    BY <1>4, <1>5, <2>1
  <2> QED BY <2>1, <2>2
<1>7. PICK h \in manager.ActiveTimerHeap : Time(h) = x
  BY DEF Times
<1>8. \A g \in manager.ActiveTimerHeap : Time(h) <= Time(g)
  BY <1>6, <1>7 DEF Times
<1> QED BY <1>8 DEF IsTop

\* When Tick stops no timer of the heap is due.
LEMMA NoneIsDue ==
  ASSUME IInv, TickEnds, NEW i \in Index, Used(i), Has(i, "Active")
  PROVE  manager.Timers[i].ExpireTime >= manager.InternalTime
<1> DEFINE h == [index |-> i, serial |-> manager.Timers[i].serial]
<1>1. /\ h \in Handle /\ Allocated(manager, h) /\ Timer(manager, h) = manager.Timers[i]
  BY HandleOf
<1> HIDE DEF h
<1>2. h \in manager.ActiveTimerHeap
  BY <1>1, Unpacked DEF Agree, AgreeBut, Has
<1>3. PICK g \in manager.ActiveTimerHeap : IsTop(g)
  BY <1>2, HeapHasTop
<1>4. ~(manager.InternalTime > Timer(manager, g).ExpireTime)
  BY <1>3 DEF TickEnds, Expired
<1>5. Timer(manager, g).ExpireTime <= Timer(manager, h).ExpireTime
  BY <1>2, <1>3 DEF IsTop
<1>6. Timer(manager, g) \in TimerData /\ Timer(manager, h) \in TimerData
      /\ manager.InternalTime \in Nat
  BY <1>1, <1>2, InTheHeap, NoHandleIs, Unpacked
<1>7. Timer(manager, g).ExpireTime \in Int /\ Timer(manager, h).ExpireTime \in Int
  BY <1>6 DEF TimerData
<1> QED BY <1>1, <1>4, <1>5, <1>6, <1>7

\* The timers that were set or unpaused before the tick start to run with its
\* end.
LEMMA TickEndsStep ==
  ASSUME IInv, TickEnds
  PROVE  IInv'
<1> DEFINE Timers == [i \in Index |->
           IF IsPending(i)
           THEN [manager.Timers[i] EXCEPT !.status = "Active",
                                          !.ExpireTime = @ + manager.InternalTime]
           ELSE manager.Timers[i]]
<1>1. /\ tick.at = "heap" /\ tick' = [tick EXCEPT !.at = "idle"]
      /\ held' = held /\ history' = history
      /\ manager' = [manager EXCEPT
           !.HasBeenTickedThisFrame = TRUE,
           !.ActiveTimerHeap = @ \cup manager.PendingTimerSet,
           !.PendingTimerSet = {}, !.Timers = Timers]
  BY DEF TickEnds
<1>2. /\ manager \in Manager /\ history \in History /\ Types /\ manager.InternalTime \in Nat
      /\ Agree(manager)
  BY Unpacked
<1>3. ASSUME NEW i \in Index, Used(i)
      PROVE  /\ manager.Timers[i] \in TimerData
             /\ Timers[i] \in TimerData
             /\ \/ /\ Has(i, "Pending") /\ Timers[i].status = "Active"
                   /\ Timers[i].ExpireTime = manager.Timers[i].ExpireTime + manager.InternalTime
                \/ /\ ~Has(i, "Pending") /\ Timers[i].status = manager.Timers[i].status
                   /\ Timers[i].ExpireTime = manager.Timers[i].ExpireTime
             /\ Timers[i].serial = manager.Timers[i].serial
             /\ Timers[i].object = manager.Timers[i].object
             /\ Timers[i].bLoop = manager.Timers[i].bLoop
             /\ Timers[i].Rate = manager.Timers[i].Rate
             /\ Timers[i].bMaxOncePerFrame = manager.Timers[i].bMaxOncePerFrame
  <2> DEFINE timer == manager.Timers[i]
             x == timer.ExpireTime + manager.InternalTime
             t == [timer EXCEPT !.status = "Active", !.ExpireTime = x]
  <2>1. timer \in TimerData
    BY <1>2, <1>3 DEF Manager, Used
  <2>2. x \in Int
    BY <1>2, <2>1 DEF TimerData
  <2>3. CASE Has(i, "Pending")
    <3>1. Timers[i] = t
      BY <2>1, <2>3 DEF IsPending, Has, TimerData
    <3> HIDE DEF timer, x, Timers
    <3>2. /\ t \in TimerData /\ t.status = "Active" /\ t.ExpireTime = x
          /\ t.serial = timer.serial /\ t.object = timer.object
          /\ t.bLoop = timer.bLoop /\ t.Rate = timer.Rate
          /\ t.bMaxOncePerFrame = timer.bMaxOncePerFrame
      BY <2>1, <2>2 DEF TimerData, Status
    <3> HIDE DEF t
    <3> QED BY <2>1, <2>3, <3>1, <3>2 DEF timer, x
  <2>4. CASE ~Has(i, "Pending")
    <3>1. Timers[i] = timer
      BY <2>4 DEF IsPending, Has
    <3> HIDE DEF Timers
    <3> QED BY <2>1, <2>4, <3>1
  <2> QED BY <2>3, <2>4
<1>4. \A i \in Index : Used(i) \/ Timers[i] = Free
  BY DEF Used, IsPending, Free
<1>5. Timers \in [Index -> TimerData \cup {Free}]
  BY <1>3, <1>4
<1> HIDE DEF Timers
<1>6. /\ manager' \in Manager /\ manager'.Timers = Timers
      /\ manager'.ActiveTimerHeap = manager.ActiveTimerHeap \cup manager.PendingTimerSet
      /\ manager'.PausedTimerSet = manager.PausedTimerSet
      /\ manager'.PendingTimerSet = {}
      /\ manager'.CurrentlyExecutingTimer = manager.CurrentlyExecutingTimer
      /\ manager'.ObjectToTimers = manager.ObjectToTimers
      /\ manager'.InternalTime = manager.InternalTime
      /\ manager'.LastAssignedSerialNumber = manager.LastAssignedSerialNumber
      /\ manager'.HasBeenTickedThisFrame = TRUE
  BY <1>1, <1>2, <1>5 DEF Manager
<1>7. \A i \in Index : Used(i)' <=> Used(i)
  BY <1>3, <1>4, <1>6, TimerIsNotFree DEF Used
<1>8. tick'.at = "idle" /\ ~InTick' /\ Types' /\ InTick
  BY <1>1, <1>2, <1>6 DEF Types, InTick
<1>9. Agree(manager')
  <2>1. ASSUME NEW h \in Handle
        PROVE  /\ Allocated(manager', h) <=> Allocated(manager, h)
               /\ Allocated(manager, h) =>
                    /\ Timer(manager', h).object = Timer(manager, h).object
                    /\ \/ /\ Timer(manager, h).status = "Pending"
                          /\ Timer(manager', h).status = "Active"
                       \/ /\ Timer(manager, h).status # "Pending"
                          /\ Timer(manager', h).status = Timer(manager, h).status
    <3>1. h.index \in Index
      BY DEF Handle
    <3>2. CASE Used(h.index)
      BY <1>3, <1>6, <3>1, <3>2, TimerIsNotFree DEF Timer, Allocated, Used, Has
    <3>3. CASE ~Used(h.index)
      BY <1>6, <1>7, <3>1, <3>3 DEF Timer, Allocated, Used
    <3> QED BY <3>2, <3>3
  <2> QED BY <1>2, <1>6, <2>1 DEF Agree, AgreeBut
<1>10. ContainersAgree'
  BY <1>6, <1>9, AgreeIsContainersAgreeNext
<1>11. HistoryIsPast' /\ TickIsBeforeTheEnd'
  BY <1>1, <1>6, <1>8 DEF IInv, HistoryIsPast, TickIsBeforeTheEnd
<1>12. SerialsDistinct'
  BY <1>3, <1>6, <1>7 DEF IInv, SerialsDistinct
<1>13. ASSUME NEW i \in Index, Used(i) PROVE TimerIsRight(i)'
  <2> DEFINE timer == manager.Timers[i]
             t == Timers[i]
  <2>1. /\ manager'.Timers[i] = t /\ timer \in TimerData /\ t \in TimerData
        /\ \/ /\ Has(i, "Pending") /\ t.status = "Active"
              /\ t.ExpireTime = timer.ExpireTime + manager.InternalTime
           \/ /\ ~Has(i, "Pending") /\ t.status = timer.status
              /\ t.ExpireTime = timer.ExpireTime
        /\ t.serial = timer.serial /\ t.bLoop = timer.bLoop /\ t.Rate = timer.Rate
        /\ t.bMaxOncePerFrame = timer.bMaxOncePerFrame
    BY <1>3, <1>6, <1>13
  <2> HIDE DEF t
  <2>2. /\ timer.ExpireTime \in Int /\ t.ExpireTime \in Int /\ history.remaining[i] \in Int
    BY <1>2, <2>1 DEF TimerData, History
  <2>3. /\ SetBefore(i) /\ ClearedIsGone(i) /\ CalledIsExecuting(i) /\ OnceIsNotDue(i)
        /\ LeftIsRight(i) /\ LateIsKnown(i) /\ ~Has(i, "Executing")
    BY <1>1, <1>13, Unpacked, NoneExecutes DEF TimerIsRight
  <2>4. SetBefore(i)'
    BY <1>2, <1>6, <2>1, <2>2, <2>3 DEF SetBefore, Has
  <2>5. ExecutingExpired(i)' /\ CalledIsExecuting(i)'
    BY <1>1, <2>1, <2>3 DEF ExecutingExpired, CalledIsExecuting, Has, In
  <2>6. ClearedIsGone(i)' /\ OnceIsNotDue(i)'
    BY <1>1, <1>8, <2>1, <2>3 DEF ClearedIsGone, OnceIsNotDue, Has, In
  <2>7. /\ Waits(i)' <=> Waits(i)
        /\ KeepsItsTime(i)' <=> KeepsItsTime(i)
        /\ Waits(i) => Left(i)' = Left(i)
    BY <1>1, <1>2, <1>6, <2>1, <2>2 DEF Waits, KeepsItsTime, Left, Has
  <2>8. LeftIsRight(i)'
    BY <1>1, <2>3, <2>7 DEF LeftIsRight
  <2>9. LateIsKnown(i)'
    <3>1. Waits(i) /\ history.remaining[i] < 0 => In(i, history.delayed)
      <4>1. Has(i, "Active") => timer.ExpireTime >= manager.InternalTime
        BY <1>13, NoneIsDue
      <4> QED BY <1>2, <2>2, <2>3, <4>1 DEF LateIsKnown
    <3> QED BY <1>1, <2>1, <2>7, <3>1 DEF LateIsKnown, In
  <2> QED BY <2>4, <2>5, <2>6, <2>8, <2>9 DEF TimerIsRight
<1>14. ASSUME NEW i \in Index PROVE TimerIsRight(i)'
  <2>1. CASE Used(i)
    BY <1>13, <2>1
  <2>2. CASE ~Used(i)
    BY <1>7, <2>2 DEF TimerIsRight
  <2> QED BY <2>1, <2>2
<1> QED BY <1>8, <1>10, <1>11, <1>12, <1>14 DEF IInv

-----------------------------------------------------------------------------
(* The invariant                                                           *)

LEMMA InvariantInit ==
  ASSUME Init
  PROVE  IInv
<1>1. /\ \A i \in Index : manager.Timers[i] = Free
      /\ manager.ActiveTimerHeap = {} /\ manager.PausedTimerSet = {}
      /\ manager.PendingTimerSet = {} /\ \A o \in Object : manager.ObjectToTimers[o] = {}
      /\ manager.CurrentlyExecutingTimer = NoHandle
  BY DEF Init
<1>2. manager \in Manager
  BY NoHandleIs, TimerAssumption DEF Init, Manager
<1>3. Types
  BY <1>2, NoHandleIs DEF Init, Types, History
<1>4. Agree(manager)
  BY <1>1 DEF Agree, AgreeBut, Allocated, Timer, Handle
<1>5. ContainersAgree
  BY <1>2, <1>4, AgreeIsContainersAgree
<1>6. \A i \in Index : ~Used(i)
  BY <1>1 DEF Used
<1>7. SerialsDistinct /\ \A i \in Index : TimerIsRight(i)
  BY <1>6 DEF SerialsDistinct, TimerIsRight
<1>8. HistoryIsPast /\ TickIsBeforeTheEnd
  BY DEF Init, HistoryIsPast, TickIsBeforeTheEnd, InTick
<1> QED BY <1>3, <1>5, <1>7, <1>8 DEF IInv

\* Every operation of the manager, and every step of a tick, keeps the invariant.
LEMMA InvariantStep ==
  ASSUME IInv, [Next]_vars
  PROVE  IInv'
<1>1. CASE UNCHANGED vars
  <2>1. manager' = manager /\ tick' = tick /\ held' = held /\ history' = history
    BY <1>1 DEF vars
  <2>2. Types' /\ Types
    BY <2>1, Unpacked DEF Types
  <2>3. ClockStands
    BY <2>1, Unpacked DEF ClockStands
  <2>4. ASSUME NEW i \in Index PROVE TimerIsRight(i)'
    <3>1. KnownAsBefore(i) /\ TickKeeps(i)
      BY <2>1 DEF KnownAsBefore, TickKeeps
    <3>2. manager'.Timers[i] = manager.Timers[i]
      BY <2>1
    <3> QED BY <2>2, <2>3, <3>1, <3>2, Unpacked, KeptTimer
  <2>5. HistoryIsPast' /\ SerialsDistinct' /\ TickIsBeforeTheEnd' /\ ContainersAgree'
    <3>1. HistoryIsPast' /\ SerialsDistinct' /\ TickIsBeforeTheEnd'
      BY <2>1 DEF IInv, HistoryIsPast, SerialsDistinct, TickIsBeforeTheEnd, Used, InTick
    <3>2. ContainersAgree'
      BY <2>1, Unpacked, AgreeIsContainersAgreeNext
    <3> QED BY <3>1, <3>2
  <2> QED BY <2>2, <2>4, <2>5 DEF IInv
<1>2. CASE \E v \in Holder :
             \/ \E kind \in TimerKinds : SetTimer(v, kind)
             \/ \E o \in Object : SetTimerForNextTick(v, o)
             \/ ClearTimer(v) \/ PauseTimer(v) \/ UnPauseTimer(v)
  BY <1>2, SetTimerStep, SetTimerForNextTickStep, ClearTimerStep, PauseTimerStep,
     UnPauseTimerStep
<1>3. CASE \E o \in Object : ClearAllTimersForObject(o) \/ ObjectDestroyed(o)
  BY <1>3, ClearAllTimersForObjectStep, ObjectDestroyedStep
<1>4. CASE NextFrame
  BY <1>4, NextFrameStep
<1>5. CASE \E DeltaTime \in DeltaTimes : TickBegins(DeltaTime)
  BY <1>5, TickBeginsStep
<1>6. CASE TickGoesOn
  <2>1. CASE \E h \in manager.ActiveTimerHeap : PopCleared(h) \/ PopExpired(h)
    BY <2>1, PopClearedStep, PopExpiredStep
  <2>2. CASE Execute
    BY <2>2, ExecuteStep
  <2>3. CASE Returned
    BY <2>3, ReturnedStep
  <2>4. CASE TickEnds
    BY <2>4, TickEndsStep
  <2> QED BY <1>6, <2>1, <2>2, <2>3, <2>4 DEF TickGoesOn
<1> QED BY <1>1, <1>2, <1>3, <1>4, <1>5, <1>6 DEF Next

\* The containers of FTimerManager, the statuses of its timers, the calls that
\* Tick makes and what the game was promised of its timers agree in every state.
THEOREM Invariant == Spec => []IInv
<1>1. Init => IInv
  BY InvariantInit
<1>2. IInv /\ [Next]_vars => IInv'
  BY InvariantStep
<1> QED BY <1>1, <1>2, PTL DEF Spec

\* No check of FTimerManager fails and no handle leads to another timer: every
\* timer is in the container of its status, whatever its callbacks do to it.
THEOREM ManagerAlwaysAgrees == Spec => []ManagerAgrees
<1>1. IInv => ManagerAgrees
  <2> SUFFICES ASSUME IInv PROVE ManagerAgrees
    OBVIOUS
  <2>1. ASSUME NEW i \in Index, manager.Timers[i] # Free
        PROVE  /\ manager.Timers[i] \in
                    [serial : 1 .. manager.LastAssignedSerialNumber, Rate : Nat, ExpireTime : Int,
                     status : {"Pending", "Active", "Paused", "Executing", "ActivePendingRemoval"},
                     bLoop : BOOLEAN, bMaxOncePerFrame : BOOLEAN, object : Object]
               /\ manager.Timers[i].ExpireTime >= -MaxTime
    <3> DEFINE timer == manager.Timers[i]
    <3>1. timer \in TimerData /\ SetBefore(i)
      BY <2>1, Unpacked DEF Manager, TimerIsRight, Used
    <3>2. timer.serial \in 1 .. manager.LastAssignedSerialNumber
      <4>1. timer.serial \in Nat \ {0}
        BY <3>1 DEF TimerData
      <4>2. timer.serial <= manager.LastAssignedSerialNumber
        BY <3>1 DEF SetBefore
      <4> QED BY <4>1, <4>2, Unpacked
    <3>3. timer.ExpireTime >= -MaxTime
      <4>1. manager.InternalTime <= MaxTime /\ manager.InternalTime \in Nat /\ MaxTime \in Nat
        BY Unpacked, TimerAssumption DEF Manager
      <4>2. timer.ExpireTime \in Int
        BY <3>1 DEF TimerData
      <4>3. timer.ExpireTime >= -manager.InternalTime \/ timer.ExpireTime >= 0
        BY <3>1 DEF SetBefore
      <4> QED BY <4>1, <4>2, <4>3
    <3> HIDE DEF timer
    <3>4. timer \in
             [serial : 1 .. manager.LastAssignedSerialNumber, Rate : Nat, ExpireTime : Int,
              status : {"Pending", "Active", "Paused", "Executing", "ActivePendingRemoval"},
              bLoop : BOOLEAN, bMaxOncePerFrame : BOOLEAN, object : Object]
      BY <3>1, <3>2 DEF TimerData, Status
    <3> QED BY <3>3, <3>4 DEF timer
  <2>2. TypeOK
    BY <2>1, Unpacked DEF TypeOK, Types, Manager, IInv, TickIsBeforeTheEnd
  <2> QED BY <2>2 DEF ManagerAgrees, IInv
<1> QED BY <1>1, Invariant, PTL

\* The time left that a timer tells is the time that is left of its delay, and
\* between frames none is overdue but one that was paused in a tick.
THEOREM TimesAlwaysRight == Spec => []TimesAreRight
<1>1. IInv => TimesAreRight
  <2> SUFFICES ASSUME IInv PROVE TimesAreRight
    OBVIOUS
  <2>1. \A i \in Index : Used(i) => LeftIsRight(i) /\ LateIsKnown(i)
    BY DEF IInv, TimerIsRight
  <2>2. RemainingIsRight
    BY <2>1 DEF RemainingIsRight, LeftIsRight, Waits, Left, Has, Used
  <2>3. NoneOverdue
    <3> SUFFICES ASSUME ~InTick, NEW i \in Index, IsActive(i), history.remaining[i] < 0
                 PROVE  manager.Timers[i].serial \in history.delayed
      <4>1. \A i \in Index : history.remaining[i] \in Int
        BY Unpacked DEF History
      <4> QED BY <4>1 DEF NoneOverdue
    <3>1. Used(i) /\ Waits(i)
      BY DEF Used, Waits, IsActive, Free
    <3> QED BY <2>1, <3>1 DEF LateIsKnown, In
  <2> QED BY <2>2, <2>3 DEF TimesAreRight
<1> QED BY <1>1, Invariant, PTL

-----------------------------------------------------------------------------
(* Calls                                                                   *)

LEMMA CallsTheExecuting ==
  ASSUME IInv, NEW h \in Handle, tick.at = "call", h = manager.CurrentlyExecutingTimer
  PROVE  /\ h.index \in Index /\ Used(h.index) /\ TimerIsRight(h.index) /\ Has(h.index, "Executing")
         /\ Timer(manager, h) = manager.Timers[h.index]
         /\ manager.Timers[h.index] \in TimerData
         /\ manager.Timers[h.index].serial = h.serial
<1>1. h # NoHandle
  BY DEF IInv, TickIsBeforeTheEnd
<1> QED BY <1>1, TheExecuting, Unpacked

\* a times a number is at most a times a greater one.
LEMMA NoMore ==
  ASSUME NEW a \in Nat, NEW b \in Int, NEW c \in Int, b <= c
  PROVE  a * b <= c * a /\ a * b \in Int /\ c * a \in Int
<1>1. PICK d \in Nat : c = b + d
  <2>1. c - b \in Nat /\ c = b + (c - b)
    OBVIOUS
  <2> QED BY <2>1
<1>2. c * a = a * b + a * d /\ a * d >= 0 /\ a * b \in Int /\ a * d \in Int
  BY <1>1
<1> QED BY <1>2

\* Tick calls no timer before its time is up, for none of the periods it calls it
\* for.
THEOREM AlwaysCalledWhenDue == Spec => CalledWhenDue
<1>1. IInv => \A h \in Handle : Calls(h) /\ KeepsItsTime(h.index) => history.remaining[h.index] <= 0
  <2> SUFFICES ASSUME IInv, NEW h \in Handle, Calls(h), KeepsItsTime(h.index)
               PROVE  history.remaining[h.index] <= 0
    OBVIOUS
  <2> DEFINE i == h.index
             timer == manager.Timers[i]
             rate == timer.Rate
             made == CallsMade(timer)
             over == tick.CallCount - 1
             late == manager.InternalTime - timer.ExpireTime
  <2>1. tick.at = "call" /\ h = manager.CurrentlyExecutingTimer
    BY DEF Calls
  <2>2. /\ TimerIsRight(i) /\ Used(i) /\ Has(i, "Executing") /\ timer \in TimerData
    BY <2>1, CallsTheExecuting
  <2>3. /\ timer.ExpireTime < manager.InternalTime /\ tick.CallCount = CallCount(timer)
        /\ tick.left > 0 /\ tick.left <= tick.CallCount
        /\ history.remaining[i] = timer.ExpireTime - manager.InternalTime + rate * made
        /\ timer.bLoop => rate > 0
    BY <2>1, <2>2 DEF TimerIsRight, ExecutingExpired, SetBefore
  <2>4. /\ tick.CallCount \in Nat /\ tick.left \in Nat /\ manager.InternalTime \in Nat
        /\ timer.ExpireTime \in Int /\ rate \in Nat /\ timer.bLoop \in BOOLEAN
    BY <2>2, Unpacked DEF Types, TimerData
  <2>5. /\ ~timer.bLoop => tick.CallCount = 1
        /\ timer.bLoop => over * rate <= late
        /\ over >= 0
    <3>1. /\ CallCount(timer) > 0
          /\ ~timer.bLoop => CallCount(timer) = 1
          /\ timer.bLoop =>
               timer.ExpireTime + (CallCount(timer) - 1) * timer.Rate <= manager.InternalTime
      BY <2>2, <2>3, <2>4, CallCountIs
    <3>2. over \in Int /\ over * rate \in Int
      BY <2>4
    <3>3. timer.bLoop => timer.ExpireTime + over * rate <= manager.InternalTime
      BY <2>3, <3>1
    <3> HIDE DEF rate, timer
    <3> QED BY <2>3, <2>4, <3>1, <3>2, <3>3 DEF timer
  <2>6. made \in Int /\ made >= 0 /\ made <= over
    BY <2>1, <2>3, <2>4, <2>5 DEF CallsMade
  <2>7. late > 0 /\ late \in Int /\ history.remaining[i] = rate * made - late
    <3> DEFINE x == rate * made
    <3>1. x \in Int
      <4> HIDE DEF rate, made
      <4> QED BY <2>4, <2>6
    <3>2. history.remaining[i] = timer.ExpireTime - manager.InternalTime + x
      BY <2>3
    <3> HIDE DEF x
    <3> QED BY <2>3, <2>4, <3>1, <3>2 DEF x
  <2> HIDE DEF rate, made, over, late, timer
  <2>8. over \in Int
    BY <2>4 DEF over
  <2>9. rate * made <= over * rate /\ rate * made \in Int /\ over * rate \in Int
    BY <2>4, <2>6, <2>8, NoMore
  <2>10. CASE timer.bLoop
    BY <2>5, <2>7, <2>9, <2>10
  <2>11. CASE ~timer.bLoop
    <3>1. over = 0
      BY <2>5, <2>11 DEF over
    <3>2. over * rate = 0
      BY <2>4, <3>1
    <3> QED BY <2>7, <2>9, <3>2
  <2> QED BY <2>10, <2>11
<1> QED BY <1>1, Invariant, PTL DEF CalledWhenDue

\* A timer that was cleared is never called, one that does not loop is called
\* once, and one that asked for it at most once in a frame.
THEOREM NeverCalledAgain == Spec => NotCalledAgain
<1>1. IInv => \A h \in Handle : Calls(h) =>
         /\ h.serial \notin history.cleared
         /\ ~Timer(manager, h).bLoop => h.serial \notin history.called
         /\ Timer(manager, h).bMaxOncePerFrame => h.serial \notin history.calledInTick
  <2> SUFFICES ASSUME IInv, NEW h \in Handle, Calls(h)
               PROVE  /\ h.serial \notin history.cleared
                      /\ ~Timer(manager, h).bLoop => h.serial \notin history.called
                      /\ Timer(manager, h).bMaxOncePerFrame => h.serial \notin history.calledInTick
    OBVIOUS
  <2>1. tick.at = "call" /\ h = manager.CurrentlyExecutingTimer
    BY DEF Calls
  <2>2. /\ TimerIsRight(h.index) /\ Used(h.index) /\ Has(h.index, "Executing")
        /\ Timer(manager, h) = manager.Timers[h.index]
        /\ manager.Timers[h.index].serial = h.serial
    BY <2>1, CallsTheExecuting
  <2>3. ClearedIsGone(h.index) /\ CalledIsExecuting(h.index) /\ OnceIsNotDue(h.index)
    BY <2>2 DEF TimerIsRight
  <2> QED BY <2>1, <2>2, <2>3
          DEF ClearedIsGone, CalledIsExecuting, OnceIsNotDue, InTick, Has, In
<1> QED BY <1>1, Invariant, PTL DEF NotCalledAgain

-----------------------------------------------------------------------------
(* The heap                                                                *)

\* The timers that stay in the heap stay where they are.
HeapKept ==
    \A h \in manager.ActiveTimerHeap \cap manager'.ActiveTimerHeap :
       Timer(manager', h).ExpireTime = Timer(manager, h).ExpireTime

\* A step that takes a timer out of the heap, or puts it there, does not move
\* the others.
LEMMA OthersStay ==
  ASSUME IInv, NEW h \in Handle, Allocated(manager, h),
         \A j \in Index : j # h.index => manager'.Timers[j] = manager.Timers[j],
         h \notin manager.ActiveTimerHeap \cap manager'.ActiveTimerHeap
  PROVE  HeapKept
<1> SUFFICES ASSUME NEW g \in manager.ActiveTimerHeap, g \in manager'.ActiveTimerHeap
             PROVE  Timer(manager', g).ExpireTime = Timer(manager, g).ExpireTime
  BY DEF HeapKept
<1>1. g \in Handle /\ Allocated(manager, g) /\ g # h
  BY InTheHeap
<1>2. g.index \in Index /\ g.index # h.index
  <2>1. g.index \in Index /\ manager.Timers[g.index].serial = g.serial
    BY <1>1, Unpacked
  <2>2. manager.Timers[h.index].serial = h.serial
    BY Unpacked
  <2> QED BY <1>1, <2>1, <2>2, HandleIs
<1> QED BY <1>2 DEF Timer

\* Clearing timers of the heap leaves them there.
LEMMA ClearedStay ==
  ASSUME IInv, NEW n, NEW hs, IsCleared(n, manager, hs),
         NEW g \in manager.ActiveTimerHeap
  PROVE  /\ g.index \in Index /\ n.Timers[g.index] # Free
         /\ n.Timers[g.index].ExpireTime = Timer(manager, g).ExpireTime
<1>1. /\ g.index \in Index /\ Timer(manager, g) = manager.Timers[g.index]
      /\ manager.Timers[g.index] \in TimerData
      /\ manager.Timers[g.index].status \in {"Active", "ActivePendingRemoval"}
  BY InTheHeap, Unpacked
<1>2. CASE n.Timers[g.index] = manager.Timers[g.index]
  BY <1>1, <1>2, TimerIsNotFree
<1>3. CASE n.Timers[g.index] = [manager.Timers[g.index] EXCEPT !.status = "ActivePendingRemoval"]
  BY <1>1, <1>3 DEF TimerData, Free
<1> QED BY <1>1, <1>2, <1>3 DEF IsCleared

\* SetTimer does not change the key of what is in the heap.
LEMMA HeapStepSet ==
  ASSUME IInv, NEW v \in Holder, NEW kind \in TimerKinds, SetTimer(v, kind)
  PROVE  HeapKept
<1> DEFINE old == {h \in {held[v]} : FindTimer(manager, h)}
           m == InternalClearTimers(manager, old)
<1>1. PICK i \in Index :
        /\ m.Timers[i] = Free
        /\ manager' = Queued(m, i, kind, kind.first)
  BY Zenon DEF SetTimer
<1>2. m.LastAssignedSerialNumber < MaxSerial
  BY Zenon DEF SetTimer
<1>3. old \in SUBSET Handle /\ \A h \in old : Allocated(manager, h)
  BY Found
<1> HIDE DEF old
<1>4. m \in Manager /\ IsCleared(m, manager, old)
  BY <1>3, Unpacked, InternalClearTimersAgrees
<1> HIDE DEF m
<1>5. \A j \in Index : j # i => manager'.Timers[j] = m.Timers[j]
  BY <1>1, <1>4 DEF Queued, AddTimer, Manager
<1> SUFFICES ASSUME NEW g \in manager.ActiveTimerHeap
             PROVE  Timer(manager', g).ExpireTime = Timer(manager, g).ExpireTime
  BY DEF HeapKept
<1> QED BY <1>1, <1>4, <1>5, ClearedStay DEF Timer

\* SetTimerForNextTick does not change the key of what is in the heap.
LEMMA HeapStepSetNext ==
  ASSUME IInv, NEW v \in Holder, NEW object \in Object, SetTimerForNextTick(v, object)
  PROVE  HeapKept
<1> DEFINE kind == [rate |-> 0, loop |-> FALSE, once |-> FALSE, object |-> object]
<1>1. PICK i \in Index :
        /\ manager.Timers[i] = Free
        /\ manager' = [AddTimer(manager, i, kind, "Active", manager.InternalTime)
                         EXCEPT !.ActiveTimerHeap = @ \cup {NewHandle(manager, i)}]
  BY Zenon DEF SetTimerForNextTick
<1>2. \A j \in Index : j # i => manager'.Timers[j] = manager.Timers[j]
  BY <1>1, Unpacked DEF AddTimer, Manager
<1> SUFFICES ASSUME NEW g \in manager.ActiveTimerHeap
             PROVE  Timer(manager', g).ExpireTime = Timer(manager, g).ExpireTime
  BY DEF HeapKept
<1>3. g.index \in Index /\ manager.Timers[g.index] # Free
  BY InTheHeap, Unpacked DEF Used
<1> QED BY <1>1, <1>2, <1>3 DEF Timer

\* Clearing timers does not change the key of what is in the heap: those in the
\* heap only change their status.
LEMMA HeapStepClear ==
  ASSUME IInv, NEW hs \in SUBSET Handle, \A h \in hs : Allocated(manager, h),
         manager' = InternalClearTimers(manager, hs)
  PROVE  HeapKept
<1>1. IsCleared(manager', manager, hs)
  BY Unpacked, InternalClearTimersAgrees
<1> QED BY <1>1, ClearedStay DEF HeapKept, Timer

\* PauseTimer changes the key of a timer only after it has taken it out of the
\* heap.
LEMMA HeapStepPause ==
  ASSUME IInv, NEW v \in Holder, PauseTimer(v)
  PROVE  HeapKept
<1> SUFFICES ASSUME NEW h \in Handle, h = held[v] PROVE HeapKept
  BY Unpacked
<1> DEFINE timer == Timer(manager, h)
           m == OutOfQueues(manager, h)
           x == TimeLeft(m, timer)
           n == [m EXCEPT !.PausedTimerSet = @ \cup {h}, !.Timers[h.index].status = "Paused",
                          !.Timers[h.index].ExpireTime = x]
<1>1. /\ Allocated(manager, h)
      /\ manager' = IF timer.status = "Executing" /\ ~timer.bLoop
                    THEN RemoveTimers(m, {h}) ELSE n
  BY Zenon DEF PauseTimer, FindTimer
<1>2. /\ m \in Manager /\ m.Timers = manager.Timers /\ h \notin m.ActiveTimerHeap
      /\ h.index \in Index
  BY <1>1, Unpacked, NoHandleIs DEF OutOfQueues, Manager
<1> HIDE DEF m, x, timer
<1>3. /\ \A j \in Index : j # h.index => RemoveTimers(m, {h}).Timers[j] = m.Timers[j]
      /\ RemoveTimers(m, {h}).ActiveTimerHeap = m.ActiveTimerHeap
  BY <1>2 DEF RemoveTimers, Manager
<1>4. /\ \A j \in Index : j # h.index => n.Timers[j] = m.Timers[j]
      /\ n.ActiveTimerHeap = m.ActiveTimerHeap
  BY <1>2 DEF Manager
<1> HIDE DEF n
<1> QED BY <1>1, <1>2, <1>3, <1>4, OthersStay

\* UnPauseTimer changes the key of a timer before it puts it into the heap.
LEMMA HeapStepUnPause ==
  ASSUME IInv, NEW v \in Holder, UnPauseTimer(v)
  PROVE  HeapKept
<1> SUFFICES ASSUME NEW h \in Handle, h = held[v] PROVE HeapKept
  BY Unpacked
<1>1. Allocated(manager, h) /\ Timer(manager, h).status = "Paused"
  BY DEF UnPauseTimer, FindTimer
<1>2. \A j \in Index : j # h.index => manager'.Timers[j] = manager.Timers[j]
  <2>1. h.index \in Index
    BY <1>1, Unpacked
  <2> QED BY <2>1, Unpacked DEF UnPauseTimer, Manager
<1>3. h \notin manager.ActiveTimerHeap
  BY <1>1, InTheHeap
<1> QED BY <1>1, <1>2, <1>3, OthersStay

\* Tick changes what it has popped, and nothing that is left in the heap.
LEMMA HeapStepPop ==
  ASSUME IInv, NEW h \in manager.ActiveTimerHeap, PopCleared(h) \/ PopExpired(h)
  PROVE  HeapKept
<1>1. h \in Handle /\ Allocated(manager, h) /\ h.index \in Index /\ manager \in Manager
  BY InTheHeap, Unpacked
<1>2. CASE PopCleared(h)
  <2>1. /\ \A j \in Index : j # h.index => manager'.Timers[j] = manager.Timers[j]
        /\ h \notin manager'.ActiveTimerHeap
    BY <1>1, <1>2 DEF PopCleared, RemoveTimers, Manager
  <2> QED BY <1>1, <2>1, OthersStay
<1>3. CASE PopExpired(h)
  <2>1. /\ \A j \in Index : j # h.index => manager'.Timers[j] = manager.Timers[j]
        /\ h \notin manager'.ActiveTimerHeap
    BY <1>1, <1>3 DEF PopExpired, SetStatus, Manager
  <2> QED BY <1>1, <2>1, OthersStay
<1> QED BY <1>2, <1>3

\* A timer that was called gets its next ExpireTime before it goes into the heap.
LEMMA HeapStepReturned ==
  ASSUME IInv, Returned
  PROVE  HeapKept
<1> SUFFICES ASSUME NEW h \in Handle, h = manager.CurrentlyExecutingTimer PROVE HeapKept
  BY TheExecuting
<1>1. CASE manager' = manager
  BY <1>1 DEF HeapKept
<1>2. CASE manager' # manager
  <2> DEFINE m == [manager EXCEPT !.CurrentlyExecutingTimer = NoHandle]
             x == tick.CallCount * Timer(manager, h).Rate
             n == [m EXCEPT !.ActiveTimerHeap = @ \cup {h},
                            !.Timers[h.index].status = "Active",
                            !.Timers[h.index].ExpireTime = @ + x]
  <2>1. FindTimer(manager, h) /\ manager' \in {n, RemoveTimers(m, {h})}
    BY <1>2 DEF Returned
  <2>2. /\ Allocated(manager, h) /\ h.index \in Index /\ manager \in Manager
        /\ h \notin manager.ActiveTimerHeap
    <3>1. Allocated(manager, h)
      BY <2>1 DEF FindTimer
    <3>2. h # NoHandle
      BY <2>1 DEF FindTimer
    <3>3. Timer(manager, h).status = "Executing"
      BY <3>1, <3>2, Unpacked, TheExecuting DEF Has
    <3> QED BY <3>1, <3>3, InTheHeap, Unpacked
  <2>3. m \in Manager /\ m.Timers = manager.Timers
    BY <2>2, NoHandleIs DEF Manager
  <2> HIDE DEF m, x
  <2>4. /\ \A j \in Index : j # h.index => RemoveTimers(m, {h}).Timers[j] = m.Timers[j]
        /\ \A j \in Index : j # h.index => n.Timers[j] = m.Timers[j]
    BY <2>2, <2>3 DEF RemoveTimers, Manager
  <2> HIDE DEF n
  <2> QED BY <2>1, <2>2, <2>3, <2>4, OthersStay
<1> QED BY <1>1, <1>2

\* The pending timers get their ExpireTime as they go into the heap at the end of
\* a tick; the others keep theirs.
LEMMA HeapStepTickEnds ==
  ASSUME IInv, TickEnds
  PROVE  HeapKept
<1> SUFFICES ASSUME NEW g \in manager.ActiveTimerHeap
             PROVE  Timer(manager', g).ExpireTime = Timer(manager, g).ExpireTime
  BY DEF HeapKept
<1>1. /\ g.index \in Index /\ Timer(manager, g) = manager.Timers[g.index]
      /\ manager.Timers[g.index].status # "Pending" /\ manager \in Manager
  BY InTheHeap, Unpacked
<1>2. manager'.Timers[g.index] = manager.Timers[g.index]
  BY <1>1 DEF TickEnds, IsPending, Manager
<1> QED BY <1>1, <1>2 DEF Timer

\* No step changes the key of a timer that is in the heap before and after it.
LEMMA HeapStep ==
  ASSUME IInv, [Next]_vars
  PROVE  HeapKept
<1>1. CASE manager'.Timers = manager.Timers
  BY <1>1 DEF HeapKept, Timer
<1>2. CASE \E v \in Holder :
             \/ \E kind \in TimerKinds : SetTimer(v, kind)
             \/ \E o \in Object : SetTimerForNextTick(v, o)
             \/ PauseTimer(v) \/ UnPauseTimer(v)
  BY <1>2, HeapStepSet, HeapStepSetNext, HeapStepPause, HeapStepUnPause
<1>3. CASE \E v \in Holder : ClearTimer(v)
  <2>1. PICK v \in Holder : ClearTimer(v)
    BY <1>3
  <2> DEFINE found == {h \in {held[v]} : FindTimer(manager, h)}
  <2>2. /\ manager' = InternalClearTimers(manager, found)
        /\ found \in SUBSET Handle /\ \A h \in found : Allocated(manager, h)
    BY <2>1, Found DEF ClearTimer
  <2> HIDE DEF found
  <2> QED BY <2>2, HeapStepClear
<1>4. CASE \E o \in Object : ClearAllTimersForObject(o)
  <2>1. PICK o \in Object : ClearAllTimersForObject(o)
    BY <1>4
  <2>2. /\ manager' = InternalClearTimers(manager, manager.ObjectToTimers[o])
        /\ manager.ObjectToTimers[o] \in SUBSET Handle
        /\ \A h \in manager.ObjectToTimers[o] : Allocated(manager, h)
    BY <2>1, Unpacked DEF ClearAllTimersForObject, Manager, Agree, AgreeBut
  <2> QED BY <2>2, HeapStepClear
<1>5. CASE \E h \in manager.ActiveTimerHeap : PopCleared(h) \/ PopExpired(h)
  BY <1>5, HeapStepPop
<1>6. CASE Returned \/ TickEnds
  BY <1>6, HeapStepReturned, HeapStepTickEnds
<1>7. CASE \/ \E o \in Object : ObjectDestroyed(o)
           \/ NextFrame \/ Execute
           \/ \E DeltaTime \in DeltaTimes : TickBegins(DeltaTime)
           \/ UNCHANGED vars
  <2>1. manager'.Timers = manager.Timers
    BY <1>7, Unpacked DEF ObjectDestroyed, NextFrame, Execute, TickBegins, vars, Manager
  <2> QED BY <1>1, <2>1
<1> QED BY <1>2, <1>3, <1>4, <1>5, <1>6, <1>7 DEF Next, TickGoesOn

\* A timer that stays in the heap keeps its place of the array and its
\* ExpireTime, so that the heap, which is ordered by it, stays a heap.
THEOREM HeapAlwaysOrdered == Spec => HeapStaysOrdered
<1>1. IInv /\ IInv' /\ [Next]_vars =>
        [\A h \in manager.ActiveTimerHeap \cap manager'.ActiveTimerHeap :
           /\ Allocated(manager', h)
           /\ Timer(manager', h).ExpireTime = Timer(manager, h).ExpireTime]_vars
  <2> SUFFICES ASSUME IInv, IInv', [Next]_vars,
                      NEW h \in manager.ActiveTimerHeap \cap manager'.ActiveTimerHeap
               PROVE  /\ Allocated(manager', h)
                      /\ Timer(manager', h).ExpireTime = Timer(manager, h).ExpireTime
    OBVIOUS
  <2>1. Timer(manager', h).ExpireTime = Timer(manager, h).ExpireTime
    BY HeapStep DEF HeapKept
  <2>2. Allocated(manager', h)
    BY DEF IInv, ContainersAgree
  <2> QED BY <2>1, <2>2
<1>2. Spec => []IInv /\ [][Next]_vars
  BY Invariant, PTL DEF Spec
<1> QED BY <1>1, <1>2, PTL DEF HeapStaysOrdered
=============================================================================
