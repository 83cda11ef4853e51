-------------------------- MODULE RenderAssetUpdate --------------------------
(***************************************************************************)
(* Streaming the mips of one texture in: FRenderAssetUpdate, the object    *)
(* that several threads tick until its steps are done, with the steps of   *)
(* FTexture2DStreamIn_IO_AsyncCreate and the game thread that starts,      *)
(* ticks, aborts, suspends and destroys (UStreamableRenderAsset).          *)
(*                                                                         *)
(* The threads are the game thread, the render thread, the pool task that  *)
(* runs a tick, the pool task that cancels the reads, and the thread that  *)
(* answers the read of each mip.  A step of the model is one access to     *)
(* what they share.  What happens inside the lock of the object is done by *)
(* one thread at a time, so the local variables of Tick are kept once.     *)
(***************************************************************************)
EXTENDS Naturals, Sequences, FiniteSets

CONSTANTS Mips,     \* the mips the update brings in
          NoThread  \* the lock is free

Workers == {"game", "render", "async", "canceller"}
Thread == Workers \cup Mips

ASSUME MipsAssumption ==
    IsFiniteSet(Mips) /\ Mips # {} /\ Mips \cap Workers = {} /\ NoThread \notin Thread

VARIABLES
    update,  \* FRenderAssetUpdate: TaskState, the callbacks of the next task,
             \* TaskSynchronization, bIsCancelled, bSuccess
    cs,      \* CS: its owner, and the locals of Tick and of the step it runs
    tasks,   \* Scheduled*Tasks, NumRefs, whether the object is still there;
             \* the render commands and pool tasks waiting to run
    stream,  \* FTexture2DStreamIn_IO_AsyncCreate: whether MipData is allocated,
             \* IntermediateTextureRHI by what it was made from, whether its
             \* event is to come, IORequests (not null), the reads as the file
             \* system sees them; the texture of the resource
    asset,   \* UStreamableRenderAsset, and GRenderAssetStreamingSuspension
    pc       \* where each thread is

vars == <<update, cs, tasks, stream, asset, pc>>

-----------------------------------------------------------------------------
(***************************************************************************)
(* The steps of the pipeline and where each must run.                      *)
(***************************************************************************)
AsyncSteps  == {"AllocateAndLoadMips", "AsyncCreate", "CancelIO"}
RenderSteps == {"Finalize", "Cancel"}
Steps == AsyncSteps \cup RenderSteps

ThreadOf(step) == CASE step \in AsyncSteps  -> "Async"
                    [] step \in RenderSteps -> "Render"
                    [] OTHER                -> "None"

NoTasks == [task |-> "none", cancel |-> "none"]

RelevantStep == IF update.bIsCancelled THEN update.next.cancel ELSE update.next.task

TickingAs(t) == CASE t = "render" -> "Render"
                  [] t = "async"  -> "Async"
                  [] t = "game"   -> asset.runAs
                  [] OTHER        -> "None"

\* Tick(TT_None) and TT_GameRunningAsync give up when the lock is taken.
OnlyTries(t) == t \in Mips \cup {"game"}

At(t, label) == pc[t] = label
Goto(t, label) == pc' = [pc EXCEPT ![t] = label]

Unlocked == [owner |-> NoThread, checkForSuspension |-> FALSE,
             step |-> "none", result |-> "none", left |-> {}]

NewUpdate == [TaskState |-> "Init", sync |-> 0,
              next |-> [task |-> "AllocateAndLoadMips", cancel |-> "none"],
              bIsCancelled |-> FALSE, bSuccess |-> FALSE]
NewTasks  == [scheduled |-> [kind \in {"Render", "Async"} |-> 0],
              refs |-> 1, alive |-> TRUE, render |-> <<>>, async |-> 0, cancel |-> 0]
NewStream == [memory |-> FALSE, intermediate |-> "none", creating |-> FALSE,
              ioRequests |-> {}, read |-> [m \in Mips |-> "none"],
              loaded |-> {}, failed |-> {},
              bFailedOnIOError |-> FALSE, reported |-> FALSE, shown |-> "old"]

Init ==
    /\ update = NewUpdate
    /\ cs = Unlocked
    /\ tasks = NewTasks
    /\ stream = NewStream
    /\ asset = [pending |-> TRUE, destroying |-> FALSE, resident |-> FALSE,
                suspended |-> FALSE, quiet |-> FALSE, runAs |-> "None"]
    /\ pc = [t \in Thread |-> "idle"]

-----------------------------------------------------------------------------
(***************************************************************************)
(* References and tasks, as functions of tasks.                            *)
(***************************************************************************)
\* The object is deleted with its last reference, unless it is still in use:
\* then it leaks.
Released == [tasks EXCEPT !.refs = @ - 1,
               !.alive = ~(tasks.refs = 1 /\ update.TaskState = "Done" /\ update.sync = 0)]

\* ScheduleRenderTask and ScheduleAsyncTask
Scheduled(kind) ==
    IF kind = "Render"
    THEN [tasks EXCEPT !.scheduled["Render"] = @ + 1, !.refs = @ + 1,
                       !.render = Append(@, "tick")]
    ELSE [tasks EXCEPT !.scheduled["Async"] = @ + 1, !.refs = @ + 1, !.async = @ + 1]

MustSchedule(step) == ThreadOf(step) # "None" /\ tasks.scheduled[ThreadOf(step)] = 0

-----------------------------------------------------------------------------
(***************************************************************************)
(* Tick.  The state is looked at before the lock is taken, and again by    *)
(* TickInternal; bIsCancelled is read twice, with the lock held, but Abort *)
(* and the callbacks of the reads write it without.                        *)
(***************************************************************************)
TickEnter(t) ==
    /\ At(t, "tick")
    /\ Goto(t, IF update.TaskState = "Done" THEN "ticked" ELSE "lock")
    /\ UNCHANGED <<update, cs, tasks, stream, asset>>

TickLock(t) ==
    /\ At(t, "lock")
    /\ \/ /\ cs.owner = NoThread
          /\ cs' = [cs EXCEPT !.owner = t]
          /\ Goto(t, "locked")
       \/ /\ cs.owner # NoThread /\ OnlyTries(t)
          /\ Goto(t, "ticked")
          /\ UNCHANGED cs
    /\ UNCHANGED <<update, tasks, stream, asset>>

TickMarkLocked(t) ==
    /\ At(t, "locked")
    /\ update' = [update EXCEPT !.TaskState = "Locked"]
    /\ Goto(t, "again")
    /\ UNCHANGED <<cs, tasks, stream, asset>>

\* Each round of the loop: suspension only holds up an update that goes on.
TickAgain(t) ==
    /\ At(t, "again")
    /\ cs' = [Unlocked EXCEPT !.owner = t, !.checkForSuspension = ~update.bIsCancelled]
    /\ Goto(t, "choose")
    /\ UNCHANGED <<update, tasks, stream, asset>>

\* TickInternal picks the step ...
ChooseStep(t) ==
    /\ At(t, "choose")
    /\ cs' = [cs EXCEPT !.step = RelevantStep]
    /\ Goto(t, "decide")
    /\ UNCHANGED <<update, tasks, stream, asset>>

Waits == update.sync > 0 \/ (cs.checkForSuspension /\ asset.suspended)

TickResult(t, result) ==
    /\ cs' = [cs EXCEPT !.result = result]
    /\ Goto(t, "store")

\* ... and there is none left,
StepNone(t) ==
    /\ cs.step = "none"
    /\ update' = [update EXCEPT !.next = NoTasks]
    /\ TickResult(t, "Done")
    /\ UNCHANGED tasks

\* ... or it has to wait,
StepWaits(t) ==
    /\ cs.step # "none" /\ Waits
    /\ TickResult(t, "Suspended")
    /\ UNCHANGED <<update, tasks>>

\* ... or this is the thread to run it,
StepRuns(t) ==
    /\ cs.step # "none" /\ ~Waits
    /\ ThreadOf(cs.step) = TickingAs(t)
    /\ update' = [update EXCEPT !.next = NoTasks]
    /\ cs' = [cs EXCEPT !.left = Mips]
    /\ Goto(t, cs.step)
    /\ UNCHANGED tasks

\* ... or another thread is asked to tick, once.
StepScheduled(t) ==
    /\ cs.step # "none" /\ ~Waits
    /\ ThreadOf(cs.step) # TickingAs(t)
    /\ \/ /\ MustSchedule(cs.step)
          /\ tasks' = Scheduled(ThreadOf(cs.step))
          /\ Goto(t, "again")
          /\ UNCHANGED cs
       \/ /\ ~MustSchedule(cs.step)
          /\ TickResult(t, "InProgress")
          /\ UNCHANGED tasks
    /\ UNCHANGED update

TickInternal(t) ==
    /\ At(t, "decide")
    /\ StepNone(t) \/ StepWaits(t) \/ StepRuns(t) \/ StepScheduled(t)
    /\ UNCHANGED <<stream, asset>>

TickStore(t) ==
    /\ At(t, "store")
    /\ update' = [update EXCEPT !.TaskState = cs.result]
    /\ Goto(t, "unlock")
    /\ UNCHANGED <<cs, tasks, stream, asset>>

TickUnlock(t) ==
    /\ At(t, "unlock")
    /\ cs' = Unlocked
    /\ Goto(t, "ticked")
    /\ UNCHANGED <<update, tasks, stream, asset>>

Tick(t) ==
    \/ TickEnter(t) \/ TickLock(t) \/ TickMarkLocked(t)
    \/ TickAgain(t) \/ ChooseStep(t) \/ TickInternal(t)
    \/ TickStore(t) \/ TickUnlock(t)

-----------------------------------------------------------------------------
(***************************************************************************)
(* The steps of FTexture2DStreamIn_IO_AsyncCreate, each run by the owner   *)
(* of CS.  The mips are taken in any order.                                *)
(***************************************************************************)
\* Mutant of PushTask: the callbacks are cleared after the step, not before.
PushTaskMutantCleared(u, task, cancel) == [u EXCEPT !.next = NoTasks]

PushTask(u, task, cancel) == [u EXCEPT !.next = [task |-> task, cancel |-> cancel]]

\* AllocateAndLoadMips: DoAllocateNewMips, then SetIORequests
AllocateNewMips(t) ==
    /\ At(t, "AllocateAndLoadMips")
    /\ stream' = [stream EXCEPT !.memory = ~update.bIsCancelled]
    /\ Goto(t, "request")
    /\ UNCHANGED <<update, cs, tasks, asset>>

\* The next mip is looked for only while the update is not cancelled.
NextRequest(t) ==
    /\ At(t, "request")
    /\ \/ /\ cs.left # {} /\ ~update.bIsCancelled
          /\ Goto(t, "open")
          /\ UNCHANGED update
       \/ /\ cs.left = {} \/ update.bIsCancelled
          /\ update' = PushTask(update, "AsyncCreate", "CancelIO")
          /\ Goto(t, "again")
    /\ UNCHANGED <<cs, tasks, stream, asset>>

OpenRequest(t) ==
    /\ At(t, "open")
    /\ \E m \in cs.left :
         /\ stream' = [stream EXCEPT !.read[m] = "reading", !.ioRequests = @ \cup {m}]
         /\ cs' = [cs EXCEPT !.left = @ \ {m}]
    /\ update' = [update EXCEPT !.sync = @ + 1]
    /\ Goto(t, "request")
    /\ UNCHANGED <<tasks, asset>>

\* The bulk data of a mip has size 0: it is not there.
MipUnavailable(t) ==
    /\ At(t, "open")
    /\ \E m \in cs.left :
         stream' = [stream EXCEPT !.failed = @ \cup {m}, !.bFailedOnIOError = TRUE]
    /\ update' = PushTask([update EXCEPT !.bIsCancelled = TRUE], "AsyncCreate", "CancelIO")
    /\ Goto(t, "again")
    /\ UNCHANGED <<cs, tasks, asset>>

\* AsyncCreate: DoAsyncCreateWithNewMips, with or without an event to wait
\* for, then DoFreeNewMips
AsyncCreate(t) ==
    /\ At(t, "AsyncCreate")
    /\ \/ /\ ~update.bIsCancelled
          /\ \E waits \in BOOLEAN :
               /\ stream' = [stream EXCEPT !.memory = FALSE, !.creating = waits,
                    !.intermediate = IF stream.loaded = Mips THEN "full" ELSE "partial"]
               /\ update' = [update EXCEPT !.sync = IF waits THEN @ + 1 ELSE @]
       \/ /\ update.bIsCancelled
          /\ stream' = [stream EXCEPT !.memory = FALSE]
          /\ UNCHANGED update
    /\ Goto(t, "clear")
    /\ UNCHANGED <<cs, tasks, asset>>

\* A read that is cancelled while the update is not is an IO error.
IOError == stream.bFailedOnIOError \/ ~update.bIsCancelled

\* IBulkDataIORequest::Cancel, from s: the read may still be answered, later,
\* or its callback runs at once.  That callback ticks with the lock held.
CancelRead(s, m) ==
    \/ /\ stream' = [s EXCEPT !.read[m] = "cancelling"]
       /\ UNCHANGED update
    \/ /\ stream' = [s EXCEPT !.read[m] = "complete", !.bFailedOnIOError = IOError]
       /\ update' = [update EXCEPT !.sync = @ - 1, !.bIsCancelled = TRUE]

\* Mutant of Closed: ClearIORequests does not wait for the callback.
ClosedMutantCallback(m) == stream.read[m] \in {"none", "callback", "complete"}

\* PollCompletion, or WaitCompletion has returned: the callback has, too.
Closed(m) == stream.read[m] \in {"none", "complete"}

Clearing(t) == pc[t] \in {"clear", "CancelIO"}
Awaited == {m \in cs.left \ stream.ioRequests : stream.read[m] # "none"}

\* ClearIORequests: one mip after the other, cancelling what is not complete
\* and waiting for it.
ClearRequest(t) ==
    /\ Clearing(t)
    /\ \E m \in cs.left :
         LET cleared == [stream EXCEPT !.ioRequests = @ \ {m}] IN
         /\ Awaited \subseteq {m}
         /\ \/ /\ Closed(m)
               /\ stream' = [cleared EXCEPT !.read[m] = "none"]
               /\ cs' = [cs EXCEPT !.left = @ \ {m}]
               /\ UNCHANGED update
            \/ /\ m \in stream.ioRequests /\ stream.read[m] = "reading"
               /\ CancelRead(cleared, m)
               /\ UNCHANGED cs
            \/ /\ m \in stream.ioRequests
               /\ stream.read[m] # "reading" /\ ~Closed(m)
               /\ stream' = cleared
               /\ UNCHANGED <<update, cs>>
    /\ UNCHANGED <<tasks, asset, pc>>

\* The end of AsyncCreate and of CancelIO
RequestsCleared(t) ==
    /\ Clearing(t)
    /\ cs.left = {}
    /\ update' = PushTask(update,
                   IF cs.step = "AsyncCreate" THEN "Finalize" ELSE "none", "Cancel")
    /\ Goto(t, "again")
    /\ UNCHANGED <<cs, tasks, stream, asset>>

\* DoFinishUpdate uses the new texture only when nothing was cancelled.
Uses == stream.intermediate # "none" /\ ~update.bIsCancelled
FinishUpdate(s) ==
    /\ stream' = [s EXCEPT !.shown = IF Uses THEN s.intermediate ELSE @,
                           !.intermediate = "none"]
    /\ update' = [update EXCEPT !.bSuccess = @ \/ Uses]

Finalize(t) ==
    /\ At(t, "Finalize")
    /\ FinishUpdate(stream)
    /\ Goto(t, "again")
    /\ UNCHANGED <<cs, tasks, asset>>

Cancel(t) ==
    /\ At(t, "Cancel")
    /\ FinishUpdate([stream EXCEPT !.memory = FALSE,
                                   !.reported = stream.bFailedOnIOError])
    /\ Goto(t, "again")
    /\ UNCHANGED <<cs, tasks, asset>>

RunStep(t) ==
    \/ AllocateNewMips(t) \/ NextRequest(t) \/ OpenRequest(t) \/ MipUnavailable(t)
    \/ AsyncCreate(t) \/ ClearRequest(t) \/ RequestsCleared(t)
    \/ Finalize(t) \/ Cancel(t)

-----------------------------------------------------------------------------
(***************************************************************************)
(* What comes from outside: the answers of the reads, on threads of the    *)
(* file system, and the event of the texture.                              *)
(***************************************************************************)
\* The read of m ends; only a read that was not cancelled fails by itself.
ReadEnds(m) ==
    /\ At(m, "idle")
    /\ LET answered == [stream EXCEPT !.read[m] = "callback"] IN
       \/ /\ stream.read[m] \in {"reading", "cancelling"}
          /\ stream' = [answered EXCEPT !.loaded = @ \cup {m}]
       \/ /\ stream.read[m] = "reading"
          /\ stream' = [answered EXCEPT !.failed = @ \cup {m}]
       \/ /\ stream.read[m] = "cancelling"
          /\ stream' = answered
    /\ Goto(m, "answer")
    /\ UNCHANGED <<update, cs, tasks, asset>>

\* AsyncFileCallBack counts down first,
AnswerCounted(m) ==
    /\ At(m, "answer")
    /\ update' = [update EXCEPT !.sync = @ - 1]
    /\ Goto(m, IF m \in stream.loaded THEN "tick" ELSE "answerFailed")
    /\ UNCHANGED <<cs, tasks, stream, asset>>

\* and then cancels the update whose read was cancelled.
AnswerFailed(m) ==
    /\ At(m, "answerFailed")
    /\ stream' = [stream EXCEPT !.bFailedOnIOError = IOError]
    /\ update' = [update EXCEPT !.bIsCancelled = @ \/ update.TaskState # "Done"]
    /\ Goto(m, "tick")
    /\ UNCHANGED <<cs, tasks, asset>>

AnswerEnds(m) ==
    /\ At(m, "ticked")
    /\ stream' = [stream EXCEPT !.read[m] = "complete"]
    /\ Goto(m, "idle")
    /\ UNCHANGED <<update, cs, tasks, asset>>

TextureCreated ==
    /\ stream.creating
    /\ stream' = [stream EXCEPT !.creating = FALSE]
    /\ update' = [update EXCEPT !.sync = @ - 1]
    /\ UNCHANGED <<cs, tasks, asset, pc>>

-----------------------------------------------------------------------------
(***************************************************************************)
(* The render command and the pool tasks.                                  *)
(***************************************************************************)
RenderCommand ==
    /\ At("render", "idle")
    /\ tasks.render # <<>>
    /\ tasks' = [tasks EXCEPT !.render = Tail(@)]
    /\ Goto("render", IF Head(tasks.render) = "tick" THEN "tick" ELSE "idle")
    /\ UNCHANGED <<update, cs, stream, asset>>

\* FMipUpdateTask::DoWork
AsyncTask ==
    /\ At("async", "idle")
    /\ tasks.async > 0
    /\ tasks' = [tasks EXCEPT !.async = @ - 1]
    /\ Goto("async", "tick")
    /\ UNCHANGED <<update, cs, stream, asset>>

\* Mutant of CountedOff: the counter is left as it is.
CountedOffMutantNot(kind) == tasks

CountedOff(kind) == [tasks EXCEPT !.scheduled[kind] = @ - 1]

\* After its tick a task counts itself off, without the lock, and only then
\* lets go of the object.
TaskCounted(t) ==
    /\ t \in {"render", "async"}
    /\ At(t, "ticked")
    /\ tasks' = CountedOff(TickingAs(t))
    /\ Goto(t, "release")
    /\ UNCHANGED <<update, cs, stream, asset>>

TaskReleases(t) ==
    /\ t \in {"render", "async", "canceller"}
    /\ At(t, "release")
    /\ tasks' = Released
    /\ Goto(t, "idle")
    /\ UNCHANGED <<update, cs, stream, asset>>

\* FCancelIORequestsTask::DoWork: DoLock keeps the state for DoUnlock
CancelTask ==
    /\ At("canceller", "idle")
    /\ tasks.cancel > 0 /\ cs.owner = NoThread
    /\ tasks' = [tasks EXCEPT !.cancel = @ - 1]
    /\ cs' = [Unlocked EXCEPT !.owner = "canceller", !.left = Mips,
                              !.result = update.TaskState]
    /\ update' = [update EXCEPT !.TaskState = "Locked"]
    /\ Goto("canceller", "cancel")
    /\ UNCHANGED <<stream, asset>>

\* A callback that runs inside Cancel finds the lock held by its own thread:
\* its tick only gets the next step scheduled.
NestedTick ==
    IF update'.sync < update.sync /\ update'.sync = 0 /\ MustSchedule(update.next.cancel)
    THEN tasks' = Scheduled(ThreadOf(update.next.cancel))
    ELSE UNCHANGED tasks

CancelRequest ==
    /\ At("canceller", "cancel")
    /\ \E m \in cs.left :
         /\ \/ /\ m \in stream.ioRequests /\ stream.read[m] = "reading"
               /\ CancelRead(stream, m)
            \/ /\ m \notin stream.ioRequests \/ stream.read[m] # "reading"
               /\ UNCHANGED <<update, stream>>
         /\ cs' = [cs EXCEPT !.left = @ \ {m}]
    /\ NestedTick
    /\ UNCHANGED <<asset, pc>>

CancelTaskUnlock ==
    /\ At("canceller", "cancel")
    /\ cs.left = {}
    /\ update' = [update EXCEPT !.TaskState = cs.result]
    /\ cs' = Unlocked
    /\ Goto("canceller", "release")
    /\ UNCHANGED <<tasks, stream, asset>>

-----------------------------------------------------------------------------
(***************************************************************************)
(* The game thread.                                                        *)
(***************************************************************************)
GameIdle == At("game", "idle")

\* StreamIn: a new update.  The model has one object: the previous one is
\* deleted first.
StreamIn ==
    /\ GameIdle
    /\ ~asset.pending /\ ~tasks.alive
    /\ update' = NewUpdate
    /\ tasks' = [NewTasks EXCEPT !.render = tasks.render]
    /\ stream' = NewStream
    /\ asset' = [asset EXCEPT !.pending = TRUE, !.destroying = FALSE, !.resident = FALSE]
    /\ UNCHANGED <<cs, pc>>

TickStreaming ==
    /\ GameIdle
    /\ asset.pending /\ ~asset.destroying
    /\ asset' = [asset EXCEPT !.runAs = "None"]
    /\ Goto("game", "tick")
    /\ UNCHANGED <<update, cs, tasks, stream>>

\* IsReadyForFinishDestroy ticks as an async task when that is what the
\* update waits for.
IsReadyForFinishDestroy ==
    /\ GameIdle
    /\ asset.pending /\ asset.destroying
    /\ asset' = [asset EXCEPT
         !.runAs = IF ThreadOf(RelevantStep) = "Async" THEN "Async" ELSE "None"]
    /\ Goto("game", "tick")
    /\ UNCHANGED <<update, cs, tasks, stream>>

\* Mutant of Succeeded: an update that was not cancelled has succeeded.
SucceededMutantNotCancelled == ~update.bIsCancelled

Succeeded == update.bSuccess

\* What both do with an update that is completed
GameTicked ==
    /\ At("game", "ticked")
    /\ \/ /\ update.TaskState = "Done"
          /\ asset' = [asset EXCEPT !.pending = FALSE,
                         !.resident = IF asset.destroying THEN @ ELSE Succeeded]
          /\ tasks' = Released
       \/ /\ update.TaskState # "Done"
          /\ UNCHANGED <<asset, tasks>>
    /\ Goto("game", "idle")
    /\ UNCHANGED <<update, cs, stream>>

MayAbort == asset.pending /\ ~update.bIsCancelled /\ update.TaskState # "Done"

\* CancelPendingStreamingRequest, and the checks of Abort and MarkAsCancelled
CancelPendingStreamingRequest ==
    /\ GameIdle
    /\ ~asset.destroying
    /\ MayAbort
    /\ Goto("game", "abort")
    /\ UNCHANGED <<update, cs, tasks, stream, asset>>

BeginDestroy ==
    /\ GameIdle
    /\ asset.pending /\ ~asset.destroying
    /\ asset' = [asset EXCEPT !.destroying = TRUE]
    /\ Goto("game", IF MayAbort THEN "abort" ELSE "idle")
    /\ UNCHANGED <<update, cs, tasks, stream>>

AbortMarks ==
    /\ At("game", "abort")
    /\ update' = [update EXCEPT !.bIsCancelled = TRUE]
    /\ Goto("game", "abortIO")
    /\ UNCHANGED <<cs, tasks, stream, asset>>

AbortCancelsReads ==
    /\ At("game", "abortIO")
    /\ tasks' = IF stream.ioRequests # {}
                THEN [tasks EXCEPT !.cancel = @ + 1, !.refs = @ + 1]
                ELSE tasks
    /\ Goto("game", "idle")
    /\ UNCHANGED <<update, cs, stream, asset>>

\* Mutant of IsLocked: updates that are locked are not waited for.
IsLockedMutantNever == FALSE

\* Mutant of IsLocked: updates that wait for something are waited for as well.
IsLockedMutantPending == asset.pending

IsLocked == update.TaskState = "Locked"

FenceDone == \A i \in DOMAIN tasks.render : tasks.render[i] # "fence"
FlushThen(label) ==
    /\ tasks' = [tasks EXCEPT !.render = Append(@, "fence")]
    /\ Goto("game", label)
    /\ UNCHANGED asset
SuspensionDone ==
    /\ asset' = [asset EXCEPT !.quiet = TRUE]
    /\ Goto("game", "idle")
    /\ UNCHANGED tasks

\* SuspendRenderAssetStreaming: raise the counter, then wait for an update
\* found locked, flushing the render commands at every look.
SuspensionBegins ==
    /\ GameIdle
    /\ ~asset.suspended
    /\ asset' = [asset EXCEPT !.suspended = TRUE]
    /\ Goto("game", "suspend")
    /\ UNCHANGED <<update, cs, tasks, stream>>

LookForLockedUpdates ==
    /\ At("game", "suspend")
    /\ \/ /\ asset.pending
          /\ FlushThen(IF IsLocked THEN "waitUnlocked" ELSE "flush")
       \/ /\ ~asset.pending
          /\ SuspensionDone
    /\ UNCHANGED <<update, cs, stream>>

WaitForUnlock ==
    /\ At("game", "waitUnlocked")
    /\ FenceDone
    /\ FlushThen(IF IsLocked THEN "waitUnlocked" ELSE "flush")
    /\ UNCHANGED <<update, cs, stream>>

SuspensionReturns ==
    /\ At("game", "flush")
    /\ FenceDone
    /\ SuspensionDone
    /\ UNCHANGED <<update, cs, stream>>

ResumeRenderAssetStreaming ==
    /\ GameIdle
    /\ asset.suspended
    /\ asset' = [asset EXCEPT !.suspended = FALSE, !.quiet = FALSE]
    /\ UNCHANGED <<update, cs, tasks, stream, pc>>

Game ==
    \/ StreamIn \/ TickStreaming \/ IsReadyForFinishDestroy \/ GameTicked
    \/ CancelPendingStreamingRequest \/ BeginDestroy
    \/ AbortMarks \/ AbortCancelsReads
    \/ SuspensionBegins \/ LookForLockedUpdates \/ WaitForUnlock
    \/ SuspensionReturns \/ ResumeRenderAssetStreaming

-----------------------------------------------------------------------------
InUpdate(t) == Tick(t) \/ RunStep(t)

RenderThread == InUpdate("render") \/ TaskCounted("render") \/ TaskReleases("render")
                  \/ RenderCommand
AsyncThread  == InUpdate("async") \/ TaskCounted("async") \/ TaskReleases("async")
                  \/ AsyncTask
CancelThread == CancelTask \/ CancelRequest \/ CancelTaskUnlock
                  \/ TaskReleases("canceller")
ReadThread(m) == ReadEnds(m) \/ AnswerCounted(m) \/ AnswerFailed(m) \/ AnswerEnds(m)
                   \/ Tick(m)
GameThread == Game \/ InUpdate("game")

Next ==
    \/ GameThread \/ RenderThread \/ AsyncThread \/ CancelThread
    \/ \E m \in Mips : ReadThread(m)
    \/ TextureCreated

Spec == Init /\ [][Next]_vars

(***************************************************************************)
(* Fairness: threads run, a thread that blocks on the lock gets it some    *)
(* time, the file system and the RHI answer, and the game thread ticks the *)
(* asset and goes on with what it has begun.  Nothing makes it abort,      *)
(* suspend, resume or destroy.                                             *)
(***************************************************************************)
GameGoesOn ==
    \/ InUpdate("game") \/ GameTicked
    \/ TickStreaming \/ IsReadyForFinishDestroy
    \/ AbortMarks \/ AbortCancelsReads
    \/ LookForLockedUpdates \/ WaitForUnlock \/ SuspensionReturns

Fairness ==
    /\ WF_vars(GameGoesOn)
    /\ WF_vars(RenderThread) /\ SF_vars(TickLock("render"))
    /\ WF_vars(AsyncThread)  /\ SF_vars(TickLock("async"))
    /\ WF_vars(CancelThread) /\ SF_vars(CancelTask)
    /\ \A m \in Mips : WF_vars(ReadThread(m))
    /\ WF_vars(TextureCreated)

FairSpec == Spec /\ Fairness

-----------------------------------------------------------------------------
StepLabels == {"AllocateAndLoadMips", "request", "open", "AsyncCreate",
               "clear", "CancelIO", "Finalize", "Cancel"}
TickLabels == {"tick", "lock", "locked", "again", "choose", "decide",
               "store", "unlock", "ticked"}
GameLabels == {"abort", "abortIO", "suspend", "waitUnlocked", "flush"}
InLock == StepLabels \cup (TickLabels \ {"tick", "lock", "ticked"}) \cup {"cancel"}

\* The type invariant; whoever is inside the lock of the object owns it.
TypeOK ==
    /\ update \in [TaskState : {"Init", "Suspended", "InProgress", "Locked", "Done"},
                   sync : 0 .. Cardinality(Mips) + 1,
                   next : [task : Steps \cup {"none"}, cancel : Steps \cup {"none"}],
                   bIsCancelled : BOOLEAN, bSuccess : BOOLEAN]
    /\ cs.owner \in Thread \cup {NoThread} /\ cs.left \subseteq Mips
    /\ stream.read \in [Mips -> {"none", "reading", "cancelling", "callback", "complete"}]
    /\ stream.ioRequests \subseteq Mips
    /\ {stream.intermediate, stream.shown} \subseteq {"none", "old", "partial", "full"}
    /\ \A t \in Thread :
         /\ pc[t] \in StepLabels \cup TickLabels \cup GameLabels
                        \cup {"idle", "release", "answer", "answerFailed", "cancel"}
         /\ pc[t] \in InLock <=> cs.owner = t

\* Nobody is inside the object, or will be, once it is deleted: the callbacks
\* of the reads and of the texture hold no reference to it.
NoUseAfterDelete ==
    ~tasks.alive =>
        /\ \A t \in Thread \ {"game"} : At(t, "idle")
        /\ pc["game"] \notin TickLabels \cup InLock \cup {"abort", "abortIO"}
        /\ \A i \in DOMAIN tasks.render : tasks.render[i] = "fence"
        /\ tasks.async = 0 /\ tasks.cancel = 0 /\ ~stream.creating
        /\ \A m \in Mips : stream.read[m] = "none"


\* The last reference deletes it: Release never has to leak it.
NeverLeaks == tasks.refs = 0 => ~tasks.alive

\* The file system never writes to memory that was freed (DoFreeNewMips).
ReadsIntoMemory ==
    \A m \in Mips : stream.read[m] \in {"reading", "cancelling"} => stream.memory

\* No thread and no callback uses an update or its buffers after they are
\* freed, and both are freed, whatever the order of threads and callbacks.
MemorySafe == NoUseAfterDelete /\ NeverLeaks /\ ReadsIntoMemory

\* At most one task of a kind is asked for, and its counter, which threads
\* change without the lock, counts it.
CountersMatchTasks ==
    /\ tasks.scheduled["Async"] =
         tasks.async + (IF pc["async"] \in {"idle", "release"} THEN 0 ELSE 1)
    /\ tasks.scheduled["Render"] =
         Cardinality({i \in DOMAIN tasks.render : tasks.render[i] = "tick"})
           + (IF pc["render"] \in {"idle", "release"} THEN 0 ELSE 1)
    /\ \A kind \in {"Render", "Async"} : tasks.scheduled[kind] <= 1

\* An update that is done was successful or was cancelled (TickStreaming), and
\* has given back all it had (the destructors).
DoneLeavesNothing ==
    update.TaskState = "Done" =>
        /\ update.bSuccess \/ update.bIsCancelled
        /\ update.sync = 0 /\ ~stream.memory
        /\ stream.intermediate = "none" /\ stream.ioRequests = {}

\* What the threads share of an update agrees with the tasks, reads and buffers
\* that are under way for it.
UpdateAgrees == TypeOK /\ CountersMatchTasks /\ DoneLeavesNothing

\* A texture that is shown was made from mips that were all read, although
\* a callback counts itself off before it reports the failure.
ShownIsLoaded == stream.shown # "partial"

\* The asset counts the mips as resident when its texture has them.
ResidentIsShown ==
    ~asset.pending /\ ~asset.destroying => (asset.resident <=> stream.shown = "full")

\* Only a read that could not be made is reported as an error of the files,
\* not one that was cancelled with the update.
NoFalseIOErrors == stream.reported => stream.failed # {}

\* The texture that is rendered, the asset's count of its mips and the errors
\* that are reported say the same about what was loaded.
TextureAgrees == ShownIsLoaded /\ ResidentIsShown /\ NoFalseIOErrors

\* Once SuspendRenderAssetStreaming has returned an update that goes on asks
\* for no task, begins no read and changes no texture.
SuspensionIsQuiet ==
    [][asset.quiet /\ asset'.quiet /\ ~update.bIsCancelled
       /\ asset.pending /\ asset'.pending =>
         /\ \A kind \in {"Render", "Async"} :
              tasks'.scheduled[kind] <= tasks.scheduled[kind]
         /\ \A m \in Mips : stream'.read[m] = "reading" => stream.read[m] = "reading"
         /\ stream'.memory = stream.memory
         /\ stream'.intermediate = stream.intermediate
         /\ stream'.shown = stream.shown]_vars

\* Every update comes to its end if streaming is not suspended for ever.
UpdateCompletes == <>[]~asset.suspended => (asset.pending ~> ~asset.pending)

\* SuspendRenderAssetStreaming returns.
SuspensionEnds == asset.suspended ~> (asset.quiet \/ ~asset.suspended)
=============================================================================
