--------------------- MODULE RenderAssetUpdateInvariant ---------------------
(***************************************************************************)
(* The inductive invariant of RenderAssetUpdate: who holds references to   *)
(* the update, how far it has come, and what its reads, its texture and a  *)
(* suspension may therefore be at.                                         *)
(***************************************************************************)
EXTENDS RenderAssetUpdate, Integers

Labels == StepLabels \cup TickLabels
TaskStates == {"Init", "Suspended", "InProgress", "Locked", "Done"}

\* The callbacks of the next task, from one step of the pipeline to the next
ToAllocate == [task |-> "AllocateAndLoadMips", cancel |-> "none"]
ToCreate   == [task |-> "AsyncCreate", cancel |-> "CancelIO"]
ToFinalize == [task |-> "Finalize", cancel |-> "Cancel"]
ToCancel   == [task |-> "none", cancel |-> "Cancel"]

Update == [TaskState : TaskStates, sync : Int,
           next : {ToAllocate, ToCreate, ToFinalize, ToCancel, NoTasks},
           bIsCancelled : BOOLEAN, bSuccess : BOOLEAN]

Lock == [owner : Thread \cup {NoThread}, checkForSuspension : BOOLEAN,
         step : Steps \cup {"none"}, result : TaskStates \cup {"none"}, left : SUBSET Mips]

Tasks == [scheduled : [{"Render", "Async"} -> Nat], refs : Nat, alive : BOOLEAN,
          render : Seq({"tick", "fence"}), async : Nat, cancel : Nat]

Stream == [memory : BOOLEAN, intermediate : {"none", "partial", "full"},
           creating : BOOLEAN, ioRequests : SUBSET Mips,
           read : [Mips -> {"none", "reading", "cancelling", "callback", "complete"}],
           loaded : SUBSET Mips, failed : SUBSET Mips,
           bFailedOnIOError : BOOLEAN, reported : BOOLEAN,
           shown : {"old", "full"}]

Asset == [pending : BOOLEAN, destroying : BOOLEAN, resident : BOOLEAN,
          suspended : BOOLEAN, quiet : BOOLEAN, runAs : {"None", "Async"}]

LabelsOf(t) ==
    CASE t = "game"      -> {"idle"} \cup GameLabels \cup Labels
      [] t = "canceller" -> {"idle", "cancel", "release"}
      [] t \in Mips      -> {"idle", "answer", "answerFailed"} \cup Labels
      [] OTHER           -> {"idle", "release"} \cup Labels

PlacesTyped ==
    /\ pc \in [Thread -> Labels \cup GameLabels
                           \cup {"idle", "release", "answer", "answerFailed", "cancel"}]
    /\ \A t \in Thread : pc[t] \in LabelsOf(t)

Types ==
    /\ update \in Update
    /\ cs \in Lock
    /\ tasks \in Tasks
    /\ stream \in Stream
    /\ asset \in Asset
    /\ PlacesTyped

\* Whoever is inside the lock owns it.
OwnerIsInside == \A t \in Thread : pc[t] \in InLock <=> cs.owner = t

-----------------------------------------------------------------------------
(* References                                                              *)

One(p) == IF p THEN 1 ELSE 0
Ticks(commands) == {i \in DOMAIN commands : commands[i] = "tick"}

\* A reference is held by the asset, by every task until it has released it,
\* and by nobody else.
ReferencesCounted ==
    /\ CountersMatchTasks
    /\ tasks.refs =
         One(asset.pending) + tasks.cancel + One(pc["canceller"] # "idle")
           + tasks.scheduled["Render"] + One(pc["render"] = "release")
           + tasks.scheduled["Async"] + One(pc["async"] = "release")
    /\ tasks.alive <=> tasks.refs > 0

-----------------------------------------------------------------------------
(* How far the update has come                                             *)

\* Where the owner of the lock is
Where == IF cs.owner = NoThread THEN "free" ELSE pc[cs.owner]
InStep == Where \in StepLabels

Requesting == Where \in {"request", "open"}
Loading    == update.next = ToCreate
Creating   == Where = "AsyncCreate"
Ending     == Where \in {"clear", "CancelIO"}
Finishing  == update.next \in {ToFinalize, ToCancel} \/ Where \in {"Finalize", "Cancel"}
Finished   == update.next = NoTasks /\ ~InStep

\* TaskState while the lock is free; after the lock was taken and before it is
\* let go the state that was or will be.
LockedInside ==
    update.TaskState = "Locked" <=>
      InStep \/ Where \in {"again", "choose", "decide", "store", "cancel"}

DoneMeansFinished ==
    /\ Where \in {"free", "locked", "unlock"} => (update.TaskState = "Done" <=> Finished)
    /\ Where \in {"store", "cancel"} => (cs.result = "Done" <=> Finished)
    /\ Where \in {"store", "cancel"} => cs.result \in TaskStates \ {"Locked"}

\* The step that is run, or is about to be, is the one that comes next; steps
\* of the other kind are for updates that were cancelled.
StepIsNext ==
    /\ InStep => update.next = NoTasks
    /\ Where = "decide" =>
         \/ cs.step = update.next.task /\ update.next # ToCancel
         \/ cs.step = update.next.cancel /\ update.bIsCancelled
    /\ Creating \/ Where = "clear" => cs.step = "AsyncCreate"
    /\ Creating \/ Where = "AllocateAndLoadMips" => cs.left = Mips
    /\ Where = "CancelIO" => cs.step = "CancelIO"
    /\ update.next = ToCancel \/ Where \in {"CancelIO", "Cancel"} => update.bIsCancelled

\* The game lets go of an update only when it is finished, and is done with it
\* then.
PendingUntilFinished ==
    /\ ~asset.pending => Finished
    /\ pc["game"] \in Labels \cup {"abort", "abortIO"} => asset.pending

\* Only an update that was aborted has its reads cancelled from outside.
AbortedFirst ==
    tasks.cancel > 0 \/ pc["canceller"] = "cancel" \/ pc["game"] = "abortIO" =>
      update.bIsCancelled

Progress ==
    LockedInside /\ DoneMeansFinished /\ StepIsNext /\ PendingUntilFinished /\ AbortedFirst

-----------------------------------------------------------------------------
(* The reads                                                               *)

Unanswered == {m \in Mips : stream.read[m] \in {"reading", "cancelling"} \/ pc[m] = "answer"}

\* TaskSynchronization counts what is still to call back.
SyncCounts == update.sync = Cardinality(Unanswered) + One(stream.creating)

\* The read of m is made while requests are, gone when they are cleared, and
\* answered in between.
ReadIsRight(m) ==
    /\ pc[m] # "idle" <=> stream.read[m] = "callback"
    /\ m \in stream.ioRequests => stream.read[m] # "none"
    /\ stream.read[m] # "none" =>
         \/ Requesting /\ m \notin cs.left
         \/ Loading \/ Creating
         \/ Ending /\ m \in cs.left
    /\ Creating \/ Ending => m \notin Unanswered
    /\ stream.read[m] \in {"reading", "cancelling"} => stream.memory
    /\ stream.read[m] = "cancelling" => update.bIsCancelled
    /\ pc[m] = "answerFailed" => m \notin stream.loaded

\* A mip that is not there has failed, or the update is cancelled; when its
\* callback has told so the update is cancelled.
MissingIsKnown(m) ==
    ~update.bIsCancelled =>
      /\ (Requesting /\ m \notin cs.left) \/ Loading \/ Creating => stream.read[m] # "none"
      /\ pc[m] \in {"answer", "answerFailed"} => m \in stream.loaded \cup stream.failed
      /\ stream.read[m] \in {"callback", "complete"} =>
           m \in stream.loaded \/ pc[m] \in {"answer", "answerFailed"}

\* Buffers are there while mips are read into them.
MemoryWhileLoading ==
    /\ stream.memory => Requesting \/ Loading \/ Creating \/ update.next = ToCancel
                          \/ Where \in {"CancelIO", "Cancel"}
    /\ Where = "open" \/ (Where = "request" /\ ~update.bIsCancelled) => stream.memory

Reads == SyncCounts /\ MemoryWhileLoading /\ \A m \in Mips : ReadIsRight(m) /\ MissingIsKnown(m)

-----------------------------------------------------------------------------
(* The texture                                                             *)

\* The new texture exists from AsyncCreate to the end.
TextureWhileEnding ==
    /\ stream.intermediate # "none" => Ending \/ Finishing
    /\ stream.creating => Where = "clear" \/ update.next = ToFinalize
    /\ Where \in {"clear", "Finalize"} \/ update.next = ToFinalize =>
         stream.intermediate # "none" \/ update.bIsCancelled

\* If a mip is missing in it, its callback is still to cancel the update.
PartialIsNotUsed ==
    stream.intermediate = "partial" =>
      update.bIsCancelled \/ (\E m \in Mips : pc[m] = "answerFailed")

TextureIsRight ==
    /\ TextureWhileEnding /\ PartialIsNotUsed
    /\ update.bSuccess <=> stream.shown = "full"
    /\ Finished => update.bSuccess \/ update.bIsCancelled
    /\ stream.bFailedOnIOError \/ stream.reported => stream.failed # {}
    /\ ~asset.pending /\ ~asset.destroying => (asset.resident <=> update.bSuccess)

-----------------------------------------------------------------------------
(* Suspension                                                              *)

\* A step that is run in spite of the suspension is one of an update that was
\* cancelled, and so is one that does not look for it.
SuspensionHolds ==
    /\ Where \in {"choose", "decide"} => cs.checkForSuspension \/ update.bIsCancelled
    /\ asset.quiet \/ pc["game"] \in {"suspend", "waitUnlocked", "flush"} => asset.suspended
    /\ asset.quiet \/ pc["game"] = "flush" => ~InStep \/ update.bIsCancelled

IInv ==
    /\ Types /\ OwnerIsInside
    /\ ReferencesCounted /\ Progress /\ Reads /\ TextureIsRight /\ SuspensionHolds
=============================================================================
