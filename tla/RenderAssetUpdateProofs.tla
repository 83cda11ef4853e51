----------------------- MODULE RenderAssetUpdateProofs -----------------------
(***************************************************************************)
(* Proof that RenderAssetUpdateInvariant is inductive.                     *)
(***************************************************************************)
EXTENDS RenderAssetUpdateInvariant, FiniteSetTheorems, TLAPS

\* The threads are different from each other.
LEMMA Threads ==
  /\ {"game", "render", "async", "canceller"} \subseteq Thread /\ Mips \subseteq Thread
  /\ NoThread \notin Thread
  /\ \A m \in Mips : m \notin {"game", "render", "async", "canceller"}
BY MipsAssumption DEF Thread, Workers

\* The callbacks from one step of the pipeline to the next
LEMMA Nexts ==
  /\ ToAllocate.task = "AllocateAndLoadMips" /\ ToAllocate.cancel = "none"
  /\ ToCreate.task = "AsyncCreate" /\ ToCreate.cancel = "CancelIO"
  /\ ToFinalize.task = "Finalize" /\ ToFinalize.cancel = "Cancel"
  /\ ToCancel.task = "none" /\ ToCancel.cancel = "Cancel"
  /\ NoTasks.task = "none" /\ NoTasks.cancel = "none"
BY DEF ToAllocate, ToCreate, ToFinalize, ToCancel, NoTasks

\* A thread goes to one of its labels.
LEMMA Goes ==
  ASSUME Types, NEW t \in Thread, NEW l \in LabelsOf(t), Goto(t, l)
  PROVE  /\ PlacesTyped' /\ pc'[t] = l
         /\ \A s \in Thread : s # t => pc'[s] = pc[s]
<1> DEFINE All == Labels \cup GameLabels
                     \cup {"idle", "release", "answer", "answerFailed", "cancel"}
<1>1. LabelsOf(t) \subseteq All
  BY DEF LabelsOf
<1>2. /\ pc \in [Thread -> All] /\ l \in All
      /\ pc' = [pc EXCEPT ![t] = l]
  BY <1>1 DEF Types, PlacesTyped, Goto
<1>3. pc' \in [Thread -> All] /\ pc'[t] = l /\ \A s \in Thread : s # t => pc'[s] = pc[s]
  <2> HIDE DEF All
  <2>1. pc' \in [Thread -> All]
    BY <1>2
  <2>2. pc'[t] = l /\ \A s \in Thread : s # t => pc'[s] = pc[s]
    BY <1>2
  <2> QED BY <2>1, <2>2
<1> QED BY <1>3 DEF Types, PlacesTyped

\* A thread that goes to a label, in the lock exactly if it owns the lock
LEMMA Moves ==
  ASSUME Types, OwnerIsInside, NEW t \in Thread, NEW l, Goto(t, l), l \in LabelsOf(t),
         cs'.owner = cs.owner, l \in InLock <=> cs.owner = t
  PROVE  /\ PlacesTyped' /\ OwnerIsInside'
         /\ pc'[t] = l /\ \A s \in Thread : s # t => pc'[s] = pc[s]
         /\ Where' = IF cs.owner = t THEN l ELSE Where
<1>1. PlacesTyped' /\ pc'[t] = l /\ \A s \in Thread : s # t => pc'[s] = pc[s]
  BY Goes
<1>2. OwnerIsInside'
  BY <1>1 DEF OwnerIsInside
<1>3. Where' = IF cs.owner = t THEN l ELSE Where
  BY <1>1, Threads DEF Where, Types, Lock
<1> QED BY <1>1, <1>2, <1>3

-----------------------------------------------------------------------------
(* The render commands                                                     *)

Commands == Seq({"tick", "fence"})

\* Render commands that are ticks are finitely many.
LEMMA TicksFinite ==
  ASSUME NEW s \in Commands
  PROVE  IsFiniteSet(Ticks(s)) /\ Cardinality(Ticks(s)) \in Nat
<1>1. Ticks(s) \subseteq 1 .. Len(s) /\ Len(s) \in Nat
  BY DEF Ticks, Commands
<1>2. IsFiniteSet(1 .. Len(s))
  BY <1>1, FS_Interval
<1> QED BY <1>1, <1>2, FS_Subset, FS_CardinalityType

\* A command that is enqueued is one more tick, if it is one.
LEMMA TicksAppended ==
  ASSUME NEW s \in Commands
  PROVE  /\ Cardinality(Ticks(Append(s, "tick"))) = Cardinality(Ticks(s)) + 1
         /\ Ticks(Append(s, "fence")) = Ticks(s)
         /\ Append(s, "tick") \in Commands
         /\ Append(s, "fence") \in Commands
<1>1. \A c \in {"tick", "fence"} :
        /\ Append(s, c) \in Commands
        /\ DOMAIN Append(s, c) = DOMAIN s \cup {Len(s) + 1}
        /\ \A i \in DOMAIN s : Append(s, c)[i] = s[i]
        /\ Append(s, c)[Len(s) + 1] = c
  BY DEF Commands
<1>2. Len(s) + 1 \notin DOMAIN s
  <2>1. DOMAIN s = 1 .. Len(s) /\ Len(s) \in Nat
    BY DEF Commands
  <2> QED BY <2>1
<1>3. Ticks(Append(s, "tick")) = Ticks(s) \cup {Len(s) + 1} /\ Len(s) + 1 \notin Ticks(s)
  BY <1>1, <1>2 DEF Ticks
<1>4. Ticks(Append(s, "fence")) = Ticks(s)
  BY <1>1, <1>2 DEF Ticks
<1>5. Cardinality(Ticks(Append(s, "tick"))) = Cardinality(Ticks(s)) + 1
  BY <1>3, TicksFinite, FS_AddElement
<1> QED BY <1>1, <1>4, <1>5

\* A command that is run is one tick less, if it is one.
LEMMA TicksRun ==
  ASSUME NEW s \in Commands, s # << >>
  PROVE  /\ Tail(s) \in Commands /\ Head(s) \in {"tick", "fence"}
         /\ Cardinality(Ticks(Tail(s))) = Cardinality(Ticks(s)) - One(Head(s) = "tick")
<1>1. /\ Tail(s) \in Commands /\ Head(s) \in {"tick", "fence"} /\ Head(s) = s[1]
      /\ DOMAIN Tail(s) = 1 .. Len(s) - 1 /\ DOMAIN s = 1 .. Len(s) /\ Len(s) \in Nat \ {0}
      /\ \A i \in 1 .. Len(s) - 1 : Tail(s)[i] = s[i + 1]
  BY DEF Commands
<1> DEFINE Later == Ticks(s) \ {1}
<1>2. Cardinality(Ticks(Tail(s))) = Cardinality(Later)
  <2> DEFINE f == [i \in Ticks(Tail(s)) |-> i + 1]
  <2>1. f \in [Ticks(Tail(s)) -> Later]
    BY <1>1 DEF Ticks
  <2>2. \A i, j \in Ticks(Tail(s)) : f[i] = f[j] => i = j
    BY <1>1 DEF Ticks
  <2>3. \A j \in Later : j - 1 \in Ticks(Tail(s)) /\ f[j - 1] = j
    BY <1>1 DEF Ticks
  <2>4. ExistsBijection(Ticks(Tail(s)), Later)
    <3> HIDE DEF f
    <3>1. f \in Bijection(Ticks(Tail(s)), Later)
      BY <2>1, <2>2, <2>3 DEF Bijection, Injection, Surjection, IsInjective
    <3> QED BY <3>1 DEF ExistsBijection
  <2> QED BY <1>1, <2>4, TicksFinite, FS_Bijection
<1>3. CASE Head(s) = "tick"
  <2>1. 1 \in Ticks(s)
    BY <1>1, <1>3 DEF Ticks
  <2>2. Cardinality(Later) = Cardinality(Ticks(s)) - 1
    BY <2>1, TicksFinite, FS_RemoveElement
  <2> QED BY <1>1, <1>2, <1>3, <2>2 DEF One
<1>4. CASE Head(s) # "tick"
  <2>1. Later = Ticks(s)
    BY <1>1, <1>4 DEF Ticks
  <2>2. Cardinality(Ticks(s)) \in Nat /\ One(Head(s) = "tick") = 0
    BY <1>4, TicksFinite DEF One
  <2> HIDE DEF Later
  <2> QED BY <1>1, <1>2, <2>1, <2>2
<1> QED BY <1>3, <1>4

-----------------------------------------------------------------------------
(* What a step leaves as it is                                             *)

\* No thread comes to or leaves one of the places outside of Tick that the
\* invariant speaks of.
PlacesStand ==
    \A t \in Thread : \A l \in {"idle", "release", "answer", "answerFailed", "cancel"} :
        pc'[t] = l <=> pc[t] = l

\* Nor does a thread that answers a read.
AnswersStand ==
    \A m \in Mips : \A l \in {"idle", "answer", "answerFailed"} : pc'[m] = l <=> pc[m] = l

\* The game thread stays in Tick, or where it is.
GameStays ==
    \/ pc'["game"] = pc["game"]
    \/ pc["game"] \in Labels /\ pc'["game"] \in Labels

\* The update comes no step further, or is found cancelled before its first one.
StageStands ==
    /\ \/ update'.next = update.next
       \/ update.next = ToAllocate /\ update'.next = NoTasks /\ update.bIsCancelled
    /\ InStep \/ InStep' => Where' = Where /\ cs'.left = cs.left /\ cs'.step = cs.step

CancelStays == update.bIsCancelled => update'.bIsCancelled

\* What the references are counted of does not change.
LEMMA RefsStand ==
  ASSUME ReferencesCounted, tasks' = tasks, asset'.pending = asset.pending, PlacesStand
  PROVE  ReferencesCounted'
<1>1. /\ \A l \in {"idle", "release"} : /\ pc'["render"] = l <=> pc["render"] = l
                                        /\ pc'["async"] = l <=> pc["async"] = l
      /\ pc'["canceller"] = "idle" <=> pc["canceller"] = "idle"
  BY Threads DEF PlacesStand
<1> QED BY <1>1 DEF ReferencesCounted, CountersMatchTasks, One

\* An update that was aborted stays cancelled.
LEMMA AbortedStands ==
  ASSUME AbortedFirst, tasks'.cancel = tasks.cancel, PlacesStand, CancelStays,
         pc'["game"] = "abortIO" => pc["game"] = "abortIO"
  PROVE  AbortedFirst'
BY Threads DEF AbortedFirst, PlacesStand, CancelStays

\* Reads are only concerned by the steps of the pipeline, and by the answers.
LEMMA ReadsStand ==
  ASSUME Reads, stream' = stream, update'.sync = update.sync, AnswersStand, StageStands,
         CancelStays
  PROVE  Reads'
<1>1. \A m \in Mips : \A l \in {"idle", "answer", "answerFailed"} : pc'[m] = l <=> pc[m] = l
  BY DEF AnswersStand
<1>2. Unanswered' = Unanswered
  BY <1>1 DEF Unanswered
<1>3. SyncCounts'
  BY <1>2 DEF Reads, SyncCounts, One
<1>4. /\ Requesting' <=> Requesting
      /\ Loading' <=> Loading
      /\ Creating' <=> Creating
      /\ Ending' <=> Ending
      /\ Requesting \/ Ending => cs'.left = cs.left
      /\ \A l \in {"open", "request", "CancelIO", "Cancel"} : Where' = l <=> Where = l
  BY Nexts DEF StageStands, InStep, StepLabels, Requesting, Loading, Creating, Ending
<1>5. MemoryWhileLoading'
  BY <1>4, Nexts DEF Reads, MemoryWhileLoading, CancelStays, StageStands
<1>6. ASSUME NEW m \in Mips PROVE ReadIsRight(m)' /\ MissingIsKnown(m)'
  <2>1. ReadIsRight(m)'
    BY <1>1, <1>2, <1>4, <1>6 DEF Reads, ReadIsRight, CancelStays
  <2>2. MissingIsKnown(m)'
    BY <1>1, <1>4, <1>6 DEF Reads, MissingIsKnown, CancelStays
  <2> QED BY <2>1, <2>2
<1> QED BY <1>3, <1>5, <1>6 DEF Reads

\* The texture is only concerned by the steps of the pipeline.
LEMMA TextureStands ==
  ASSUME TextureIsRight, stream' = stream, update'.bSuccess = update.bSuccess, AnswersStand,
         StageStands, CancelStays,
         ~asset'.pending /\ ~asset'.destroying => (asset'.resident <=> update.bSuccess)
  PROVE  TextureIsRight'
<1>1. \A m \in Mips : pc'[m] = "answerFailed" <=> pc[m] = "answerFailed"
  BY DEF AnswersStand
<1>2. /\ Ending' <=> Ending
      /\ Finishing' <=> Finishing
      /\ Finished' => Finished \/ update.bIsCancelled
      /\ \A l \in {"clear", "Finalize"} : Where' = l <=> Where = l
  BY Nexts DEF StageStands, InStep, StepLabels, Ending, Finishing, Finished
<1>3. TextureWhileEnding'
  BY <1>2, Nexts DEF TextureIsRight, TextureWhileEnding, StageStands, CancelStays
<1>4. PartialIsNotUsed'
  BY <1>1 DEF TextureIsRight, PartialIsNotUsed, CancelStays
<1> QED BY <1>2, <1>3, <1>4 DEF TextureIsRight, CancelStays

\* A suspension is only concerned by steps that begin, and by the game.
LEMMA SuspensionStands ==
  ASSUME SuspensionHolds, StageStands, CancelStays, GameStays,
         asset'.quiet = asset.quiet, asset'.suspended = asset.suspended,
         Where' \in {"choose", "decide"} =>
           cs'.checkForSuspension \/ update'.bIsCancelled
  PROVE  SuspensionHolds'
<1>1. \A l \in {"suspend", "waitUnlocked", "flush"} : pc'["game"] = l <=> pc["game"] = l
  BY DEF GameStays, Labels, StepLabels, TickLabels
<1>2. InStep' <=> InStep
  BY DEF StageStands, InStep
<1> QED BY <1>1, <1>2 DEF SuspensionHolds, CancelStays

-----------------------------------------------------------------------------
(* The owner of the lock in Tick                                           *)

TickPlaces == {"locked", "again", "choose", "decide", "store", "unlock"}
InTick == TickPlaces \cup StepLabels

\* The owner goes on, from one place inside the lock to another.
LEMMA OwnerMoves ==
  ASSUME IInv, NEW t \in Thread, NEW a \in InTick, NEW l \in InTick, At(t, a), Goto(t, l),
         cs'.owner = cs.owner
  PROVE  /\ cs.owner = t /\ Where = a /\ Where' = l
         /\ PlacesTyped' /\ OwnerIsInside' /\ PlacesStand /\ GameStays
<1>1. /\ a \in InLock \ {"cancel"} /\ l \in InLock \ {"cancel"} /\ a \in Labels /\ l \in Labels
      /\ a \notin {"idle", "release", "answer", "answerFailed", "cancel"}
      /\ l \notin {"idle", "release", "answer", "answerFailed", "cancel"}
  BY DEF InTick, TickPlaces, InLock, StepLabels, TickLabels, Labels
<1>2. cs.owner = t /\ Where = a
  BY <1>1, Threads DEF IInv, OwnerIsInside, At, Where
<1>3. t # "canceller" /\ l \in LabelsOf(t)
  <2>1. a \in LabelsOf(t)
    BY DEF IInv, Types, PlacesTyped, At
  <2>2. t # "canceller"
    BY <1>1, <2>1, Threads DEF LabelsOf
  <2> QED BY <1>1, <2>2 DEF LabelsOf
<1>4. /\ PlacesTyped' /\ OwnerIsInside' /\ Where' = l
      /\ pc'[t] = l /\ \A s \in Thread : s # t => pc'[s] = pc[s]
  BY <1>1, <1>2, <1>3, Moves DEF IInv
<1>5. PlacesStand
  BY <1>1, <1>4 DEF PlacesStand, At
<1>6. GameStays
  BY <1>1, <1>4, Threads DEF GameStays, At
<1> QED BY <1>2, <1>4, <1>5, <1>6

\* A step of Tick between two of the pipeline
LEMMA TickMoves ==
  ASSUME IInv, NEW t \in Thread, NEW a \in TickPlaces, NEW l \in TickPlaces \ {"locked"},
         At(t, a), Goto(t, l), cs' \in Lock, cs'.owner = cs.owner,
         update' \in Update, update'.sync = update.sync,
         \/ update'.next = update.next
         \/ update.next = ToAllocate /\ update'.next = NoTasks /\ update.bIsCancelled,
         update'.bIsCancelled = update.bIsCancelled, update'.bSuccess = update.bSuccess,
         tasks' \in Tasks, tasks'.cancel = tasks.cancel,
         tasks' = tasks \/ ReferencesCounted',
         stream' = stream, asset' = asset,
         update'.TaskState = "Locked" <=> l # "unlock",
         l = "unlock" => (update'.TaskState = "Done" <=> update'.next = NoTasks),
         l = "store" => /\ cs'.result \in TaskStates \ {"Locked"}
                        /\ cs'.result = "Done" <=> update'.next = NoTasks,
         l \in {"choose", "decide"} => cs'.checkForSuspension \/ update.bIsCancelled,
         l = "decide" =>
           \/ cs'.step = update'.next.task /\ update'.next # ToCancel
           \/ cs'.step = update'.next.cancel /\ update.bIsCancelled
  PROVE  IInv'
<1>1. a \notin StepLabels /\ l \notin StepLabels /\ a \in InTick /\ l \in InTick
  BY DEF TickPlaces, StepLabels, InTick
<1>2. /\ cs.owner = t /\ Where = a /\ Where' = l
      /\ PlacesTyped' /\ OwnerIsInside' /\ PlacesStand /\ GameStays
  BY <1>1, OwnerMoves
<1>3. StageStands /\ CancelStays /\ ~InStep /\ ~InStep'
  BY <1>1, <1>2 DEF StageStands, CancelStays, InStep
<1>4. Types'
  BY <1>2 DEF IInv, Types
<1>5. ReferencesCounted'
  BY <1>2, RefsStand DEF IInv
<1>6. AnswersStand /\ (~asset.pending /\ ~asset.destroying => (asset.resident <=> update.bSuccess))
  BY <1>2, Threads DEF PlacesStand, AnswersStand, IInv, TextureIsRight
<1>7. Reads' /\ TextureIsRight'
  BY <1>3, <1>6, ReadsStand, TextureStands DEF IInv
<1>8. SuspensionHolds'
  BY <1>2, <1>3, SuspensionStands DEF IInv
<1>9. Progress'
  <2>1. LockedInside'
    BY <1>2, <1>3 DEF LockedInside, TickPlaces
  <2>2. Finished' <=> update'.next = NoTasks
    BY <1>3 DEF Finished
  <2>3. DoneMeansFinished'
    BY <1>2, <2>2 DEF DoneMeansFinished, TickPlaces
  <2>4. StepIsNext'
    BY <1>1, <1>2, <1>3, Nexts DEF IInv, Progress, StepIsNext, Creating, InStep, StepLabels
  <2>5. PendingUntilFinished'
    BY <1>2, <1>3 DEF IInv, Progress, PendingUntilFinished, Finished, StageStands, GameStays,
       Labels, StepLabels, TickLabels
  <2>6. AbortedFirst'
    BY <1>2, <1>3, AbortedStands DEF IInv, Progress, GameStays, Labels, StepLabels, TickLabels
  <2> QED BY <2>1, <2>3, <2>4, <2>5, <2>6 DEF Progress
<1> QED BY <1>2, <1>4, <1>5, <1>7, <1>8, <1>9 DEF IInv

\* A task that is scheduled has a reference, and is the only one of its kind.
LEMMA ScheduledCounted ==
  ASSUME Types, ReferencesCounted, tasks.refs > 0,
         NEW kind \in {"Render", "Async"}, tasks.scheduled[kind] = 0,
         tasks' = Scheduled(kind), asset'.pending = asset.pending, PlacesStand
  PROVE  /\ tasks' \in Tasks /\ ReferencesCounted' /\ tasks'.cancel = tasks.cancel
<1>1. /\ \A l \in {"idle", "release"} : /\ pc'["render"] = l <=> pc["render"] = l
                                        /\ pc'["async"] = l <=> pc["async"] = l
      /\ pc'["canceller"] = "idle" <=> pc["canceller"] = "idle"
  BY Threads DEF PlacesStand
<1>2. tasks \in Tasks
  BY DEF Types
<1>3. /\ tasks.scheduled \in [{"Render", "Async"} -> Nat] /\ tasks.refs \in Nat
      /\ tasks.async \in Nat /\ tasks.cancel \in Nat /\ tasks.render \in Commands
      /\ tasks.alive \in BOOLEAN /\ Cardinality(Ticks(tasks.render)) \in Nat
  BY <1>2, TicksFinite DEF Tasks, Commands
<1> DEFINE counters == [tasks.scheduled EXCEPT ![kind] = @ + 1]
<1>4. /\ counters \in [{"Render", "Async"} -> Nat] /\ counters[kind] = 1
      /\ \A k \in {"Render", "Async"} : k # kind => counters[k] = tasks.scheduled[k]
  BY <1>3
<1>5. /\ tasks.scheduled["Async"] =
           tasks.async + (IF pc["async"] \in {"idle", "release"} THEN 0 ELSE 1)
      /\ tasks.scheduled["Render"] = Cardinality(Ticks(tasks.render))
           + (IF pc["render"] \in {"idle", "release"} THEN 0 ELSE 1)
      /\ \A k \in {"Render", "Async"} : tasks.scheduled[k] <= 1
  BY DEF ReferencesCounted, CountersMatchTasks, Ticks
<1>6. ASSUME tasks'.refs = tasks.refs + 1, tasks'.alive = tasks.alive,
             tasks'.cancel = tasks.cancel, tasks'.scheduled = counters,
             tasks'.async = tasks.async + One(kind = "Async"),
             Cardinality(Ticks(tasks'.render)) =
               Cardinality(Ticks(tasks.render)) + One(kind = "Render")
      PROVE  ReferencesCounted'
  <2> HIDE DEF counters
  <2>1. CountersMatchTasks'
    <3>1. /\ tasks'.scheduled["Async"] =
               tasks'.async + (IF pc'["async"] \in {"idle", "release"} THEN 0 ELSE 1)
          /\ tasks'.scheduled["Render"] = Cardinality(Ticks(tasks'.render))
               + (IF pc'["render"] \in {"idle", "release"} THEN 0 ELSE 1)
          /\ \A k \in {"Render", "Async"} : tasks'.scheduled[k] <= 1
      BY <1>1, <1>3, <1>4, <1>5, <1>6 DEF One
    <3> QED BY <3>1 DEF CountersMatchTasks, Ticks
  <2>2. counters["Render"] + counters["Async"] =
          tasks.scheduled["Render"] + tasks.scheduled["Async"] + 1
    BY <1>3, <1>4
  <2> QED BY <1>1, <1>3, <1>4, <1>6, <2>1, <2>2 DEF ReferencesCounted, One
<1>7. CASE kind = "Render"
  <2>1. tasks' = [tasks EXCEPT !.scheduled = counters, !.refs = @ + 1,
                       !.render = Append(@, "tick")]
    BY <1>7 DEF Scheduled
  <2>2. Append(tasks.render, "tick") \in Commands
    BY <1>3, TicksAppended
  <2> HIDE DEF counters
  <2>3. /\ tasks' \in Tasks /\ tasks'.scheduled = counters
        /\ tasks'.refs = tasks.refs + 1 /\ tasks'.alive = tasks.alive
        /\ tasks'.render = Append(tasks.render, "tick")
        /\ tasks'.async = tasks.async /\ tasks'.cancel = tasks.cancel
    <3>0. tasks.refs + 1 \in Nat /\ Append(tasks.render, "tick") \in Seq({"tick", "fence"})
      BY <1>3, <2>2 DEF Commands
    <3> SUFFICES ASSUME NEW n \in Nat, n = tasks.refs + 1,
                        NEW c \in Seq({"tick", "fence"}), c = Append(tasks.render, "tick")
                 PROVE  /\ tasks' \in Tasks /\ tasks'.scheduled = counters
                        /\ tasks'.refs = n /\ tasks'.alive = tasks.alive
                        /\ tasks'.render = c
                        /\ tasks'.async = tasks.async /\ tasks'.cancel = tasks.cancel
      BY <3>0, Zenon
    <3>1. tasks' = [tasks EXCEPT !.scheduled = counters, !.refs = n, !.render = c]
      BY <2>1
    <3> QED BY <1>2, <1>4, <3>1 DEF Tasks
  <2>4. Cardinality(Ticks(tasks'.render)) = Cardinality(Ticks(tasks.render)) + 1
    BY <1>3, <2>3, TicksAppended
  <2> QED BY <1>3, <1>6, <1>7, <2>3, <2>4 DEF One
<1>8. CASE kind = "Async"
  <2>1. tasks' = [tasks EXCEPT !.scheduled = counters, !.refs = @ + 1, !.async = @ + 1]
    BY <1>8 DEF Scheduled
  <2> HIDE DEF counters
  <2>2. /\ tasks' \in Tasks /\ tasks'.scheduled = counters
        /\ tasks'.refs = tasks.refs + 1 /\ tasks'.alive = tasks.alive
        /\ tasks'.render = tasks.render
        /\ tasks'.async = tasks.async + 1 /\ tasks'.cancel = tasks.cancel
    <3> SUFFICES ASSUME NEW n \in Nat, n = tasks.refs + 1, NEW a \in Nat, a = tasks.async + 1
                 PROVE  /\ tasks' \in Tasks /\ tasks'.scheduled = counters
                        /\ tasks'.refs = n /\ tasks'.alive = tasks.alive
                        /\ tasks'.render = tasks.render
                        /\ tasks'.async = a /\ tasks'.cancel = tasks.cancel
      BY <1>3
    <3>1. tasks' = [tasks EXCEPT !.scheduled = counters, !.refs = n, !.async = a]
      BY <2>1
    <3> QED BY <1>2, <1>4, <3>1 DEF Tasks
  <2> QED BY <1>3, <1>6, <1>8, <2>2 DEF One
<1> QED BY <1>7, <1>8

\* The thread that took the lock stores so in TaskState.
LEMMA TickMarkLockedStep ==
  ASSUME IInv, NEW t \in Thread, TickMarkLocked(t)
  PROVE  IInv'
<1>1. /\ update' = [update EXCEPT !.TaskState = "Locked"] /\ update \in Update
      /\ cs' = cs /\ cs \in Lock /\ tasks' = tasks /\ tasks \in Tasks
      /\ stream' = stream /\ asset' = asset
      /\ At(t, "locked") /\ Goto(t, "again")
  BY DEF TickMarkLocked, IInv, Types
<1>2. /\ update' \in Update /\ update'.next = update.next /\ update'.sync = update.sync
      /\ update'.bIsCancelled = update.bIsCancelled /\ update'.bSuccess = update.bSuccess
      /\ update'.TaskState = "Locked"
  BY <1>1 DEF Update, TaskStates
<1>3. "locked" \in TickPlaces /\ "again" \in TickPlaces \ {"locked"}
  BY DEF TickPlaces
<1> QED BY <1>1, <1>2, <1>3, TickMoves

\* TaskState and the locals of Tick at the places of Tick
LEMMA InsideTick ==
  ASSUME IInv, NEW t \in Thread, NEW a \in TickPlaces, At(t, a)
  PROVE  /\ Where = a /\ cs.owner = t /\ ~InStep
         /\ update.TaskState = "Locked" <=> a \notin {"locked", "unlock"}
         /\ Finished <=> update.next = NoTasks
         /\ update \in Update /\ cs \in Lock /\ tasks \in Tasks
<1>1. a \in InLock /\ a \notin StepLabels
  BY DEF TickPlaces, InLock, StepLabels, TickLabels
<1>2. Where = a /\ cs.owner = t
  BY <1>1, Threads DEF IInv, OwnerIsInside, At, Where
<1>3. ~InStep
  BY <1>1, <1>2 DEF InStep
<1>4. update.TaskState = "Locked" <=> a \notin {"locked", "unlock"}
  BY <1>2, <1>3 DEF IInv, Progress, LockedInside, TickPlaces
<1> QED BY <1>2, <1>3, <1>4 DEF Finished, IInv, Types

\* Each round of the loop looks whether it may be held up.
LEMMA TickAgainStep ==
  ASSUME IInv, NEW t \in Thread, TickAgain(t)
  PROVE  IInv'
<1>1. /\ cs' = [Unlocked EXCEPT !.owner = t, !.checkForSuspension = ~update.bIsCancelled]
      /\ update' = update /\ tasks' = tasks /\ stream' = stream /\ asset' = asset
      /\ At(t, "again") /\ Goto(t, "choose")
  BY DEF TickAgain
<1>2. "again" \in TickPlaces /\ "choose" \in TickPlaces \ {"locked"}
  BY DEF TickPlaces
<1>3. /\ cs.owner = t /\ update \in Update /\ tasks \in Tasks /\ update.TaskState = "Locked"
  BY <1>1, <1>2, InsideTick
<1>4. cs' \in Lock /\ cs'.owner = t /\ (cs'.checkForSuspension \/ update.bIsCancelled)
  BY <1>1, <1>3, Threads DEF Unlocked, Lock, Update
<1> QED BY <1>1, <1>2, <1>3, <1>4, TickMoves

\* The step is chosen by whether the update is cancelled.
LEMMA ChooseStepStep ==
  ASSUME IInv, NEW t \in Thread, ChooseStep(t)
  PROVE  IInv'
<1>1. /\ cs' = [cs EXCEPT !.step = RelevantStep]
      /\ update' = update /\ tasks' = tasks /\ stream' = stream /\ asset' = asset
      /\ At(t, "choose") /\ Goto(t, "decide")
  BY DEF ChooseStep
<1>2. "choose" \in TickPlaces /\ "decide" \in TickPlaces \ {"locked"}
  BY DEF TickPlaces
<1>3. /\ cs.owner = t /\ update \in Update /\ tasks \in Tasks /\ update.TaskState = "Locked"
      /\ cs \in Lock /\ Where = "choose"
  BY <1>1, <1>2, InsideTick
<1>4. RelevantStep \in Steps \cup {"none"}
  BY <1>3 DEF RelevantStep, Update, NoTasks, ToAllocate, ToCreate, ToFinalize, ToCancel,
     Steps, AsyncSteps, RenderSteps
<1>5. /\ cs' \in Lock /\ cs'.owner = cs.owner /\ cs'.step = RelevantStep
      /\ cs'.checkForSuspension = cs.checkForSuspension
  BY <1>1, <1>3, <1>4 DEF Lock
<1>6. cs'.checkForSuspension \/ update.bIsCancelled
  BY <1>3, <1>5 DEF IInv, SuspensionHolds
<1>7. \/ cs'.step = update.next.task /\ update.next # ToCancel
      \/ cs'.step = update.next.cancel /\ update.bIsCancelled
  BY <1>5 DEF IInv, Progress, StepIsNext, RelevantStep
<1> QED BY <1>1, <1>2, <1>3, <1>5, <1>6, <1>7, TickMoves

\* What the state at a decision is
LEMMA AtDecide ==
  ASSUME IInv, NEW t \in Thread, At(t, "decide")
  PROVE  /\ Where = "decide" /\ cs.owner = t /\ ~InStep /\ update.TaskState = "Locked"
         /\ Finished <=> update.next = NoTasks
         /\ update \in Update /\ cs \in Lock /\ tasks \in Tasks
         /\ \/ cs.step = update.next.task /\ update.next # ToCancel
            \/ cs.step = update.next.cancel /\ update.bIsCancelled
         /\ cs.checkForSuspension \/ update.bIsCancelled
<1>1. "decide" \in TickPlaces
  BY DEF TickPlaces
<1>2. /\ Where = "decide" /\ cs.owner = t /\ ~InStep /\ update.TaskState = "Locked"
      /\ Finished <=> update.next = NoTasks
      /\ update \in Update /\ cs \in Lock /\ tasks \in Tasks
  BY <1>1, InsideTick
<1> QED BY <1>2 DEF IInv, Progress, StepIsNext, SuspensionHolds

\* There is no step left: the update is done.
LEMMA StepNoneStep ==
  ASSUME IInv, NEW t \in Thread, At(t, "decide"), StepNone(t), stream' = stream, asset' = asset
  PROVE  IInv'
<1>1. /\ update' = [update EXCEPT !.next = NoTasks] /\ cs' = [cs EXCEPT !.result = "Done"]
      /\ cs.step = "none" /\ tasks' = tasks /\ Goto(t, "store")
  BY DEF StepNone, TickResult
<1>2. /\ update.TaskState = "Locked" /\ update \in Update /\ cs \in Lock /\ tasks \in Tasks
      /\ \/ cs.step = update.next.task /\ update.next # ToCancel
         \/ cs.step = update.next.cancel /\ update.bIsCancelled
  BY AtDecide
<1>3. update.next \in {ToAllocate, ToCreate, ToFinalize, ToCancel, NoTasks}
  BY <1>2 DEF Update
<1>4. \/ update.next = NoTasks
      \/ update.next = ToAllocate /\ update.bIsCancelled
  BY <1>1, <1>2, <1>3, Nexts
<1>5. /\ update' \in Update /\ update'.next = NoTasks /\ update'.TaskState = update.TaskState
      /\ update'.sync = update.sync /\ update'.bIsCancelled = update.bIsCancelled
      /\ update'.bSuccess = update.bSuccess
  BY <1>1, <1>2 DEF Update
<1>6. cs' \in Lock /\ cs'.owner = cs.owner /\ cs'.result = "Done"
  BY <1>1, <1>2 DEF Lock, TaskStates
<1>7. "decide" \in TickPlaces /\ "store" \in TickPlaces \ {"locked"} /\ "Done" \in TaskStates
  BY DEF TickPlaces, TaskStates
<1> QED BY <1>1, <1>2, <1>4, <1>5, <1>6, <1>7, TickMoves

\* A step that stays undone leaves the update as it is.
LEMMA StepPutOff ==
  ASSUME IInv, NEW t \in Thread, At(t, "decide"), cs.step # "none",
         NEW result \in {"Suspended", "InProgress"}, TickResult(t, result),
         update' = update, tasks' = tasks, stream' = stream, asset' = asset
  PROVE  IInv'
<1>1. cs' = [cs EXCEPT !.result = result] /\ Goto(t, "store")
  BY DEF TickResult
<1>2. /\ update.TaskState = "Locked" /\ update \in Update /\ cs \in Lock /\ tasks \in Tasks
      /\ \/ cs.step = update.next.task /\ update.next # ToCancel
         \/ cs.step = update.next.cancel /\ update.bIsCancelled
  BY AtDecide
<1>3. update.next # NoTasks
  BY <1>2, Nexts
<1>4. cs' \in Lock /\ cs'.owner = cs.owner /\ cs'.result = result
  BY <1>1, <1>2 DEF Lock, TaskStates
<1>5. /\ "decide" \in TickPlaces /\ "store" \in TickPlaces \ {"locked"}
      /\ result \in TaskStates \ {"Locked"} /\ result # "Done"
  BY DEF TickPlaces, TaskStates
<1> QED BY <1>1, <1>2, <1>3, <1>4, <1>5, TickMoves

\* Another thread is asked to tick, with a task of its own.
LEMMA StepScheduledStep ==
  ASSUME IInv, NEW t \in Thread, At(t, "decide"), StepScheduled(t), stream' = stream,
         asset' = asset
  PROVE  IInv'
<1>1. CASE TickResult(t, "InProgress") /\ tasks' = tasks
  BY <1>1, StepPutOff DEF StepScheduled
<1>2. CASE /\ MustSchedule(cs.step) /\ tasks' = Scheduled(ThreadOf(cs.step))
           /\ Goto(t, "again") /\ cs' = cs
  <2>1. /\ update.TaskState = "Locked" /\ update \in Update /\ cs \in Lock /\ tasks \in Tasks
        /\ \/ cs.step = update.next.task /\ update.next # ToCancel
           \/ cs.step = update.next.cancel /\ update.bIsCancelled
        /\ Finished <=> update.next = NoTasks
    BY AtDecide
  <2>2. cs.step # "none" /\ update' = update
    BY DEF StepScheduled
  <2>3. ~Finished
    BY <2>1, <2>2, Nexts
  <2>4. tasks.refs > 0
    <3>1. asset.pending
      BY <2>3 DEF IInv, Progress, PendingUntilFinished
    <3> QED BY <2>1, <3>1 DEF IInv, ReferencesCounted, Tasks, One
  <2>5. /\ "decide" \in TickPlaces /\ "again" \in TickPlaces \ {"locked"}
        /\ "decide" \in InTick /\ "again" \in InTick
    BY DEF TickPlaces, InTick
  <2>6. PlacesStand
    BY <1>2, <2>5, OwnerMoves
  <2>7. ThreadOf(cs.step) \in {"Render", "Async"} /\ tasks.scheduled[ThreadOf(cs.step)] = 0
    BY <1>2 DEF MustSchedule, ThreadOf
  <2>8. tasks' \in Tasks /\ ReferencesCounted' /\ tasks'.cancel = tasks.cancel
    BY <1>2, <2>4, <2>6, <2>7, ScheduledCounted DEF IInv
  <2> QED BY <1>2, <2>1, <2>2, <2>5, <2>8, TickMoves
<1> QED BY <1>1, <1>2 DEF StepScheduled

\* TaskState is stored.
LEMMA TickStoreStep ==
  ASSUME IInv, NEW t \in Thread, TickStore(t)
  PROVE  IInv'
<1>1. /\ update' = [update EXCEPT !.TaskState = cs.result]
      /\ cs' = cs /\ tasks' = tasks /\ stream' = stream /\ asset' = asset
      /\ At(t, "store") /\ Goto(t, "unlock")
  BY DEF TickStore
<1>2. "store" \in TickPlaces /\ "unlock" \in TickPlaces \ {"locked"}
  BY DEF TickPlaces
<1>3. /\ Where = "store" /\ update \in Update /\ cs \in Lock /\ tasks \in Tasks
      /\ Finished <=> update.next = NoTasks
  BY <1>1, <1>2, InsideTick
<1>4. cs.result \in TaskStates \ {"Locked"} /\ (cs.result = "Done" <=> update.next = NoTasks)
  BY <1>3 DEF IInv, Progress, DoneMeansFinished
<1>5. /\ update' \in Update /\ update'.next = update.next /\ update'.sync = update.sync
      /\ update'.bIsCancelled = update.bIsCancelled /\ update'.bSuccess = update.bSuccess
      /\ update'.TaskState = cs.result
  BY <1>1, <1>3, <1>4 DEF Update
<1> QED BY <1>1, <1>2, <1>3, <1>4, <1>5, TickMoves

-----------------------------------------------------------------------------
(* Tick outside of the lock, and taking it                                 *)

\* A thread outside of the lock goes on outside of it.
LEMMA OutsideMoves ==
  ASSUME IInv, NEW t \in Thread, pc[t] \notin InLock, NEW l, l \notin InLock, l \in LabelsOf(t),
         Goto(t, l), cs' = cs
  PROVE  /\ PlacesTyped' /\ OwnerIsInside' /\ Where' = Where
         /\ pc'[t] = l /\ \A s \in Thread : s # t => pc'[s] = pc[s]
<1>1. cs.owner # t
  BY DEF IInv, OwnerIsInside
<1> QED BY <1>1, Moves DEF IInv

\* Nothing happens but that the lock is taken or let go.
LEMMA LockMoves ==
  ASSUME IInv, PlacesTyped', OwnerIsInside', PlacesStand, GameStays,
         update' = update, tasks' = tasks, stream' = stream, asset' = asset, cs' \in Lock,
         \/ cs' = cs /\ Where' = Where
         \/ Where \in {"free", "locked", "unlock"} /\ Where' \in {"free", "locked", "unlock"}
  PROVE  IInv'
<1>1. /\ StageStands /\ CancelStays /\ (InStep' <=> InStep)
      /\ Where' \in {"choose", "decide"} => cs'.checkForSuspension \/ update'.bIsCancelled
  BY DEF StageStands, CancelStays, InStep, StepLabels, IInv, SuspensionHolds
<1>2. Types'
  BY DEF IInv, Types
<1>3. ReferencesCounted'
  BY RefsStand DEF IInv
<1>4. AnswersStand /\ (~asset.pending /\ ~asset.destroying => (asset.resident <=> update.bSuccess))
  BY Threads DEF PlacesStand, AnswersStand, IInv, TextureIsRight
<1>5. Reads' /\ TextureIsRight'
  BY <1>1, <1>4, ReadsStand, TextureStands DEF IInv
<1>6. SuspensionHolds'
  BY <1>1, SuspensionStands DEF IInv
<1>7. Progress'
  <2>1. Finished' <=> Finished
    BY <1>1 DEF Finished
  <2>2. LockedInside'
    BY <1>1 DEF IInv, Progress, LockedInside
  <2>3. DoneMeansFinished'
    BY <2>1 DEF IInv, Progress, DoneMeansFinished
  <2>4. StepIsNext'
    BY <1>1 DEF IInv, Progress, StepIsNext, Creating
  <2>5. PendingUntilFinished'
    BY <2>1 DEF IInv, Progress, PendingUntilFinished, GameStays, Labels, StepLabels, TickLabels
  <2>6. AbortedFirst'
    BY <1>1, AbortedStands DEF IInv, Progress, GameStays, Labels, StepLabels, TickLabels
  <2> QED BY <2>2, <2>3, <2>4, <2>5, <2>6 DEF Progress
<1> QED BY <1>2, <1>3, <1>5, <1>6, <1>7 DEF IInv

\* A thread in Tick, outside of the lock, goes on outside of it.
LEMMA OutsideStep ==
  ASSUME IInv, NEW t \in Thread, NEW a \in {"tick", "lock"}, NEW l \in {"lock", "ticked"},
         At(t, a), Goto(t, l), cs' = cs,
         update' = update, tasks' = tasks, stream' = stream, asset' = asset
  PROVE  IInv'
<1>1. /\ a \notin InLock /\ l \notin InLock /\ a \in Labels /\ l \in Labels
      /\ a \notin {"idle", "release", "answer", "answerFailed", "cancel"}
      /\ l \notin {"idle", "release", "answer", "answerFailed", "cancel"}
  BY DEF InLock, StepLabels, TickLabels, Labels
<1>2. l \in LabelsOf(t)
  <2>1. a \in LabelsOf(t)
    BY DEF IInv, Types, PlacesTyped, At
  <2>2. t # "canceller"
    BY <1>1, <2>1, Threads DEF LabelsOf
  <2> QED BY <1>1, <2>2 DEF LabelsOf
<1>3. /\ PlacesTyped' /\ OwnerIsInside' /\ Where' = Where
      /\ pc'[t] = l /\ \A s \in Thread : s # t => pc'[s] = pc[s]
  BY <1>1, <1>2, OutsideMoves DEF At
<1>4. PlacesStand
  BY <1>1, <1>3 DEF PlacesStand, At
<1>5. GameStays
  BY <1>1, <1>3, Threads DEF GameStays, At
<1>6. cs' \in Lock
  BY DEF IInv, Types
<1> QED BY <1>3, <1>4, <1>5, <1>6, LockMoves

\* A tick begins.
LEMMA TickEnterStep ==
  ASSUME IInv, NEW t \in Thread, TickEnter(t)
  PROVE  IInv'
<1>1. PICK l \in {"lock", "ticked"} : Goto(t, l)
  BY DEF TickEnter
<1> QED BY <1>1, OutsideStep DEF TickEnter

\* The lock is taken, or the thread gives up.
LEMMA TickLockStep ==
  ASSUME IInv, NEW t \in Thread, TickLock(t)
  PROVE  IInv'
<1>1. /\ At(t, "lock") /\ update' = update /\ tasks' = tasks /\ stream' = stream
      /\ asset' = asset
  BY DEF TickLock
<1>2. CASE Goto(t, "ticked") /\ cs' = cs
  BY <1>1, <1>2, OutsideStep
<1>3. CASE /\ cs.owner = NoThread /\ cs' = [cs EXCEPT !.owner = t] /\ Goto(t, "locked")
  <2>1. /\ "lock" \notin InLock /\ "locked" \in InLock /\ {"lock", "locked"} \subseteq Labels
    BY DEF InLock, StepLabels, TickLabels, Labels
  <2>2. /\ t # "canceller" /\ "locked" \in LabelsOf(t)
    <3>1. "lock" \in LabelsOf(t)
      BY <1>1 DEF IInv, Types, PlacesTyped, At
    <3>2. t # "canceller"
      BY <3>1, Threads DEF LabelsOf
    <3> QED BY <2>1, <3>2 DEF LabelsOf
  <2>3. PlacesTyped' /\ pc'[t] = "locked" /\ \A s \in Thread : s # t => pc'[s] = pc[s]
    BY <1>3, <2>2, Goes DEF IInv
  <2>4. cs' \in Lock /\ cs'.owner = t
    BY <1>3 DEF IInv, Types, Lock
  <2>5. OwnerIsInside'
    <3>1. \A s \in Thread : pc[s] \notin InLock
      BY <1>3, Threads DEF IInv, OwnerIsInside
    <3> QED BY <2>1, <2>3, <2>4, <3>1 DEF OwnerIsInside
  <2>6. Where = "free" /\ Where' = "locked"
    BY <1>3, <2>3, <2>4, Threads DEF Where
  <2>7. PlacesStand
    BY <1>1, <2>3 DEF PlacesStand, At
  <2>8. GameStays
    BY <1>1, <2>1, <2>3, Threads DEF GameStays, At
  <2> QED BY <1>1, <2>3, <2>4, <2>5, <2>6, <2>7, <2>8, LockMoves
<1> QED BY <1>2, <1>3 DEF TickLock

\* The lock is let go.
LEMMA TickUnlockStep ==
  ASSUME IInv, NEW t \in Thread, TickUnlock(t)
  PROVE  IInv'
<1>1. /\ At(t, "unlock") /\ cs' = Unlocked /\ Goto(t, "ticked")
      /\ update' = update /\ tasks' = tasks /\ stream' = stream /\ asset' = asset
  BY DEF TickUnlock
<1>2. /\ "unlock" \in TickPlaces /\ "ticked" \notin InLock /\ "unlock" \in InLock
      /\ {"unlock", "ticked"} \subseteq Labels
  BY DEF TickPlaces, InLock, StepLabels, TickLabels, Labels
<1>3. Where = "unlock" /\ cs.owner = t
  BY <1>1, <1>2, InsideTick
<1>4. /\ t # "canceller" /\ "ticked" \in LabelsOf(t)
  <2>1. "unlock" \in LabelsOf(t)
    BY <1>1 DEF IInv, Types, PlacesTyped, At
  <2>2. t # "canceller"
    BY <2>1, Threads DEF LabelsOf
  <2> QED BY <1>2, <2>2 DEF LabelsOf
<1>5. PlacesTyped' /\ pc'[t] = "ticked" /\ \A s \in Thread : s # t => pc'[s] = pc[s]
  BY <1>1, <1>4, Goes DEF IInv
<1>6. cs' \in Lock /\ cs'.owner = NoThread /\ Where' = "free"
  BY <1>1 DEF Unlocked, Lock, Where
<1>7. OwnerIsInside'
  <2>1. \A s \in Thread : s # t => pc[s] \notin InLock
    BY <1>3 DEF IInv, OwnerIsInside
  <2> QED BY <1>2, <1>5, <1>6, <2>1, Threads DEF OwnerIsInside
<1>8. PlacesStand
  BY <1>1, <1>5 DEF PlacesStand, At
<1>9. GameStays
  BY <1>1, <1>2, <1>5, Threads DEF GameStays, At
<1> QED BY <1>1, <1>3, <1>5, <1>6, <1>7, <1>8, <1>9, LockMoves

-----------------------------------------------------------------------------
(* The steps of the pipeline                                               *)

\* What waits for an answer is a finite set of mips.
LEMMA UnansweredFinite ==
  ASSUME NEW S \in SUBSET Mips
  PROVE  /\ IsFiniteSet(S) /\ Cardinality(S) \in Nat
         /\ Cardinality(S) <= Cardinality(Mips) /\ Cardinality(Mips) \in Nat
         /\ Cardinality(S) = 0 <=> S = {}
         /\ \A m \in Mips : /\ m \notin S => Cardinality(S \cup {m}) = Cardinality(S) + 1
                            /\ m \in S => Cardinality(S \ {m}) = Cardinality(S) - 1
<1>1. IsFiniteSet(Mips)
  BY MipsAssumption
<1>2. IsFiniteSet(S) /\ Cardinality(S) <= Cardinality(Mips)
  BY <1>1, FS_Subset
<1> QED BY <1>1, <1>2, FS_CardinalityType, FS_EmptySet, FS_AddElement, FS_RemoveElement

\* A step of the pipeline changes only the update, its reads and its textures.
LEMMA StepMoves ==
  ASSUME IInv, NEW t \in Thread, NEW a \in StepLabels \cup {"decide"},
         NEW l \in StepLabels \cup {"again"}, At(t, a), Goto(t, l),
         cs' \in Lock, cs'.owner = cs.owner,
         update' \in Update, update'.TaskState = update.TaskState, CancelStays,
         stream' \in Stream, tasks' = tasks, asset' = asset, asset.pending,
         a = "decide" /\ asset.suspended => update.bIsCancelled,
         StepIsNext', Reads', TextureIsRight'
  PROVE  IInv'
<1>1. /\ a \in InTick /\ l \in InTick /\ l \notin {"choose", "decide"}
      /\ a \in StepLabels \/ a = "decide"
      /\ l \in StepLabels \/ l = "again"
      /\ "again" \notin StepLabels /\ "decide" \notin StepLabels
  BY DEF InTick, TickPlaces, StepLabels
<1>2. /\ cs.owner = t /\ Where = a /\ Where' = l
      /\ PlacesTyped' /\ OwnerIsInside' /\ PlacesStand /\ GameStays
  BY <1>1, OwnerMoves
<1>3. Types'
  BY <1>2 DEF IInv, Types
<1>4. ReferencesCounted'
  BY <1>2, RefsStand DEF IInv
<1>5. SuspensionHolds'
  <2>1. \A p \in {"suspend", "waitUnlocked", "flush"} : pc'["game"] = p <=> pc["game"] = p
    BY <1>2 DEF GameStays, Labels, StepLabels, TickLabels
  <2>2. InStep <=> a # "decide"
    BY <1>1, <1>2 DEF InStep
  <2> QED BY <1>1, <1>2, <2>1, <2>2 DEF IInv, SuspensionHolds, CancelStays
<1>6. Progress'
  <2>1. update.TaskState = "Locked"
    BY <1>1, <1>2 DEF IInv, Progress, LockedInside, InStep
  <2>2. LockedInside'
    BY <1>1, <1>2, <2>1 DEF LockedInside, InStep
  <2>3. DoneMeansFinished'
    BY <1>1, <1>2 DEF DoneMeansFinished, StepLabels
  <2>4. PendingUntilFinished'
    BY DEF PendingUntilFinished
  <2>5. AbortedFirst'
    BY <1>2, AbortedStands DEF IInv, Progress, GameStays, Labels, StepLabels, TickLabels
  <2> QED BY <2>2, <2>3, <2>4, <2>5 DEF Progress
<1> QED BY <1>2, <1>3, <1>4, <1>5, <1>6 DEF IInv

\* Where the thread is that runs a step
LEMMA InsideStep ==
  ASSUME IInv, NEW t \in Thread, NEW a \in StepLabels, At(t, a)
  PROVE  /\ Where = a /\ cs.owner = t /\ InStep /\ update.next = NoTasks
         /\ asset.pending
         /\ update \in Update /\ cs \in Lock /\ stream \in Stream
         /\ \A l \in StepLabels \cup {"again"} : Goto(t, l) /\ cs'.owner = cs.owner =>
              Where' = l /\ PlacesStand
<1>1. a \in InLock /\ a \in InTick /\ \A l \in StepLabels \cup {"again"} : l \in InTick
  BY DEF InTick, TickPlaces, InLock, StepLabels
<1>2. Where = a /\ cs.owner = t
  BY <1>1, Threads DEF IInv, OwnerIsInside, At, Where
<1>3. InStep /\ update.next = NoTasks
  BY <1>2 DEF InStep, IInv, Progress, StepIsNext
<1>4. asset.pending
  BY <1>3 DEF IInv, Progress, PendingUntilFinished, Finished
<1>5. ASSUME NEW l \in StepLabels \cup {"again"}, Goto(t, l), cs'.owner = cs.owner
      PROVE  Where' = l /\ PlacesStand
  BY <1>1, <1>5, OwnerMoves
<1> QED BY <1>2, <1>3, <1>4, <1>5 DEF IInv, Types

\* The buffers are allocated, unless the update is cancelled.
LEMMA AllocateNewMipsStep ==
  ASSUME IInv, NEW t \in Thread, AllocateNewMips(t)
  PROVE  IInv'
<1>1. /\ At(t, "AllocateAndLoadMips") /\ Goto(t, "request")
      /\ stream' = [stream EXCEPT !.memory = ~update.bIsCancelled]
      /\ update' = update /\ cs' = cs /\ tasks' = tasks /\ asset' = asset
  BY DEF AllocateNewMips
<1>2. "AllocateAndLoadMips" \in StepLabels /\ "request" \in StepLabels
  BY DEF StepLabels
<1>3. /\ Where = "AllocateAndLoadMips" /\ Where' = "request" /\ update.next = NoTasks
      /\ asset.pending /\ update \in Update /\ cs \in Lock /\ stream \in Stream
      /\ PlacesStand /\ cs.left = Mips
  BY <1>1, <1>2, InsideStep DEF IInv, Progress, StepIsNext
<1>4. /\ stream' \in Stream /\ stream'.memory = ~update.bIsCancelled
      /\ stream'.read = stream.read /\ stream'.ioRequests = stream.ioRequests
      /\ stream'.creating = stream.creating /\ stream'.intermediate = stream.intermediate
      /\ stream'.loaded = stream.loaded /\ stream'.failed = stream.failed
      /\ stream'.bFailedOnIOError = stream.bFailedOnIOError
      /\ stream'.reported = stream.reported /\ stream'.shown = stream.shown
  BY <1>1, <1>3 DEF Stream, Update
<1>5. \A m \in Mips : \A l \in {"idle", "answer", "answerFailed"} : pc'[m] = l <=> pc[m] = l
  BY <1>3, Threads DEF PlacesStand
<1>6. /\ Requesting' /\ ~Loading' /\ ~Creating' /\ ~Ending' /\ ~Finishing' /\ ~Finished'
      /\ ~Requesting /\ ~Loading /\ ~Creating /\ ~Ending /\ ~Finishing
  BY <1>1, <1>2, <1>3, Nexts
     DEF Requesting, Loading, Creating, Ending, Finishing, Finished, InStep
<1>7. Reads'
  <2>1. Unanswered' = Unanswered
    BY <1>4, <1>5 DEF Unanswered
  <2>2. SyncCounts'
    BY <1>1, <1>4, <2>1 DEF IInv, Reads, SyncCounts, One
  <2>3. MemoryWhileLoading'
    BY <1>1, <1>3, <1>4, <1>6 DEF MemoryWhileLoading
  <2>4. ASSUME NEW m \in Mips PROVE ReadIsRight(m)' /\ MissingIsKnown(m)'
    <3>1. ReadIsRight(m) /\ stream.read[m] = "none"
      BY <1>6 DEF IInv, Reads, ReadIsRight
    <3> QED BY <1>1, <1>3, <1>4, <1>5, <1>6, <3>1 DEF ReadIsRight, MissingIsKnown
  <2> QED BY <2>2, <2>3, <2>4 DEF Reads
<1>8. TextureIsRight'
  <2>1. TextureWhileEnding'
    BY <1>1, <1>3, <1>4, <1>6, Nexts DEF IInv, TextureIsRight, TextureWhileEnding
  <2>2. PartialIsNotUsed'
    BY <1>1, <1>4, <1>5 DEF IInv, TextureIsRight, PartialIsNotUsed
  <2> QED BY <1>1, <1>4, <1>6, <2>1, <2>2 DEF IInv, TextureIsRight
<1>9. StepIsNext'
  BY <1>1, <1>3, <1>6, Nexts DEF StepIsNext
<1> QED BY <1>1, <1>2, <1>3, <1>4, <1>7, <1>8, <1>9, StepMoves DEF CancelStays

\* The requests end, or the next one is made.
LEMMA NextRequestStep ==
  ASSUME IInv, NEW t \in Thread, NextRequest(t)
  PROVE  IInv'
<1>1. /\ At(t, "request") /\ cs' = cs /\ tasks' = tasks /\ stream' = stream /\ asset' = asset
  BY DEF NextRequest
<1>2. "request" \in StepLabels /\ "open" \in StepLabels
  BY DEF StepLabels
<1>3. /\ Where = "request" /\ update.next = NoTasks
      /\ asset.pending /\ update \in Update /\ cs \in Lock /\ stream \in Stream
      /\ Requesting /\ ~Loading /\ ~Creating /\ ~Ending /\ ~Finishing
  BY <1>1, <1>2, InsideStep, Nexts DEF Requesting, Loading, Creating, Ending, Finishing
<1>4. CASE ~update.bIsCancelled /\ Goto(t, "open") /\ update' = update
  <2>1. Where' = "open" /\ PlacesStand
    BY <1>1, <1>2, <1>4, InsideStep
  <2>2. \A m \in Mips : \A l \in {"idle", "answer", "answerFailed"} : pc'[m] = l <=> pc[m] = l
    BY <2>1, Threads DEF PlacesStand
  <2>3. /\ Requesting' /\ ~Loading' /\ ~Creating' /\ ~Ending' /\ ~Finishing' /\ ~Finished'
    BY <1>2, <1>3, <1>4, <2>1, Nexts
       DEF Requesting, Loading, Creating, Ending, Finishing, Finished, InStep
  <2>4. Reads'
    <3>1. Unanswered' = Unanswered
      BY <1>1, <2>2 DEF Unanswered
    <3>2. SyncCounts'
      BY <1>1, <1>4, <3>1 DEF IInv, Reads, SyncCounts, One
    <3>3. MemoryWhileLoading'
      BY <1>1, <1>3, <1>4, <2>3 DEF IInv, Reads, MemoryWhileLoading
    <3>4. ASSUME NEW m \in Mips PROVE ReadIsRight(m)' /\ MissingIsKnown(m)'
      BY <1>1, <1>3, <1>4, <2>2, <2>3 DEF IInv, Reads, ReadIsRight, MissingIsKnown
    <3> QED BY <3>2, <3>3, <3>4 DEF Reads
  <2>5. TextureIsRight'
    <3>1. TextureWhileEnding'
      BY <1>1, <1>3, <1>4, <2>1, <2>3, Nexts DEF IInv, TextureIsRight, TextureWhileEnding
    <3>2. PartialIsNotUsed'
      BY <1>1, <1>4, <2>2 DEF IInv, TextureIsRight, PartialIsNotUsed
    <3> QED BY <1>1, <1>4, <2>3, <3>1, <3>2 DEF IInv, TextureIsRight
  <2>6. StepIsNext'
    BY <1>3, <1>4, <2>1, <2>3, Nexts DEF StepIsNext
  <2> QED BY <1>1, <1>2, <1>3, <1>4, <2>4, <2>5, <2>6, StepMoves DEF CancelStays
<1>5. CASE /\ cs.left = {} \/ update.bIsCancelled
           /\ update' = PushTask(update, "AsyncCreate", "CancelIO") /\ Goto(t, "again")
  <2>1. Where' = "again" /\ PlacesStand
    BY <1>1, <1>2, <1>5, InsideStep
  <2>2. \A m \in Mips : \A l \in {"idle", "answer", "answerFailed"} : pc'[m] = l <=> pc[m] = l
    BY <2>1, Threads DEF PlacesStand
  <2>3. /\ update' \in Update /\ update'.next = ToCreate
        /\ update'.TaskState = update.TaskState /\ update'.sync = update.sync
        /\ update'.bIsCancelled = update.bIsCancelled /\ update'.bSuccess = update.bSuccess
    BY <1>3, <1>5 DEF PushTask, ToCreate, Update
  <2>4. /\ ~Requesting' /\ Loading' /\ ~Creating' /\ ~Ending' /\ ~Finishing' /\ ~Finished'
    BY <2>1, <2>3, Nexts
       DEF Requesting, Loading, Creating, Ending, Finishing, Finished, InStep
  <2>5. Reads'
    <3>1. Unanswered' = Unanswered
      BY <1>1, <2>2 DEF Unanswered
    <3>2. SyncCounts'
      BY <1>1, <2>3, <3>1 DEF IInv, Reads, SyncCounts, One
    <3>3. MemoryWhileLoading'
      BY <2>1, <2>4 DEF MemoryWhileLoading
    <3>4. ASSUME NEW m \in Mips PROVE ReadIsRight(m)' /\ MissingIsKnown(m)'
      BY <1>1, <1>3, <1>5, <2>2, <2>3, <2>4, <3>1 DEF IInv, Reads, ReadIsRight, MissingIsKnown
    <3> QED BY <3>2, <3>3, <3>4 DEF Reads
  <2>6. TextureIsRight'
    <3>1. TextureWhileEnding'
      BY <1>1, <1>3, <2>1, <2>3, <2>4, Nexts DEF IInv, TextureIsRight, TextureWhileEnding
    <3>2. PartialIsNotUsed'
      BY <1>1, <2>2, <2>3 DEF IInv, TextureIsRight, PartialIsNotUsed
    <3> QED BY <1>1, <2>3, <2>4, <3>1, <3>2 DEF IInv, TextureIsRight
  <2>7. StepIsNext'
    BY <2>1, <2>3, <2>4, Nexts DEF StepIsNext, InStep, StepLabels
  <2> QED BY <1>1, <1>2, <1>3, <1>5, <2>3, <2>5, <2>6, <2>7, StepMoves DEF CancelStays
<1> QED BY <1>4, <1>5 DEF NextRequest

\* A read begins: there is one more to wait for.
LEMMA OpenRequestStep ==
  ASSUME IInv, NEW t \in Thread, OpenRequest(t)
  PROVE  IInv'
<1>1. /\ At(t, "open") /\ Goto(t, "request") /\ update' = [update EXCEPT !.sync = @ + 1]
      /\ tasks' = tasks /\ asset' = asset
  BY DEF OpenRequest
<1>2. PICK m \in cs.left :
        /\ stream' = [stream EXCEPT !.read[m] = "reading", !.ioRequests = @ \cup {m}]
        /\ cs' = [cs EXCEPT !.left = @ \ {m}]
  BY DEF OpenRequest
<1>3. "request" \in StepLabels /\ "open" \in StepLabels
  BY DEF StepLabels
<1>4. /\ Where = "open" /\ update.next = NoTasks
      /\ asset.pending /\ update \in Update /\ cs \in Lock /\ stream \in Stream
      /\ Requesting /\ ~Loading /\ ~Creating /\ ~Ending /\ ~Finishing
  BY <1>1, <1>3, InsideStep, Nexts DEF Requesting, Loading, Creating, Ending, Finishing
<1>5. cs' \in Lock /\ cs'.owner = cs.owner /\ cs'.left = cs.left \ {m} /\ m \in Mips
  BY <1>2, <1>4 DEF Lock
<1>6. Where' = "request" /\ PlacesStand
  BY <1>1, <1>3, <1>5, InsideStep
<1>7. \A n \in Mips : \A l \in {"idle", "answer", "answerFailed"} : pc'[n] = l <=> pc[n] = l
  BY <1>6, Threads DEF PlacesStand
<1>8. /\ update' \in Update /\ update'.next = update.next
      /\ update'.TaskState = update.TaskState /\ update'.sync = update.sync + 1
      /\ update'.bIsCancelled = update.bIsCancelled /\ update'.bSuccess = update.bSuccess
  BY <1>1, <1>4 DEF Update
<1>9. /\ stream' \in Stream /\ stream'.read[m] = "reading"
      /\ \A n \in Mips : n # m => stream'.read[n] = stream.read[n]
      /\ stream'.ioRequests = stream.ioRequests \cup {m}
      /\ stream'.memory = stream.memory
      /\ stream'.creating = stream.creating /\ stream'.intermediate = stream.intermediate
      /\ stream'.loaded = stream.loaded /\ stream'.failed = stream.failed
      /\ stream'.bFailedOnIOError = stream.bFailedOnIOError
      /\ stream'.reported = stream.reported /\ stream'.shown = stream.shown
  BY <1>2, <1>4, <1>5 DEF Stream
<1>10. /\ Requesting' /\ ~Loading' /\ ~Creating' /\ ~Ending' /\ ~Finishing' /\ ~Finished'
  BY <1>3, <1>4, <1>6, <1>8, Nexts
     DEF Requesting, Loading, Creating, Ending, Finishing, Finished, InStep
<1>11. Reads'
  <2>1. /\ stream.read[m] = "none" /\ pc[m] = "idle" /\ stream.memory
    BY <1>2, <1>4, <1>5 DEF IInv, Reads, ReadIsRight, MemoryWhileLoading
  <2>2. Unanswered' = Unanswered \cup {m} /\ m \notin Unanswered
    BY <1>5, <1>7, <1>9, <2>1 DEF Unanswered
  <2>3. SyncCounts'
    <3>1. Unanswered \subseteq Mips
      BY DEF Unanswered
    <3>2. Cardinality(Unanswered') = Cardinality(Unanswered) + 1 /\ Cardinality(Unanswered) \in Nat
      BY <1>5, <2>2, <3>1, UnansweredFinite
    <3> QED BY <1>8, <1>9, <3>2 DEF IInv, Reads, SyncCounts, One
  <2>4. MemoryWhileLoading'
    BY <1>9, <1>10, <2>1 DEF MemoryWhileLoading
  <2>5. ASSUME NEW n \in Mips PROVE ReadIsRight(n)' /\ MissingIsKnown(n)'
    <3>1. CASE n = m
      BY <1>5, <1>7, <1>8, <1>9, <1>10, <2>1, <3>1 DEF ReadIsRight, MissingIsKnown
    <3>2. CASE n # m
      <4>1. ReadIsRight(n) /\ MissingIsKnown(n)
        BY DEF IInv, Reads
      <4>2. ReadIsRight(n)'
        BY <1>4, <1>5, <1>7, <1>8, <1>9, <1>10, <3>2, <4>1 DEF ReadIsRight
      <4>3. MissingIsKnown(n)'
        BY <1>4, <1>5, <1>7, <1>8, <1>9, <1>10, <3>2, <4>1 DEF MissingIsKnown
      <4> QED BY <4>2, <4>3
    <3> QED BY <3>1, <3>2
  <2> QED BY <2>3, <2>4, <2>5 DEF Reads
<1>12. TextureIsRight'
  <2>1. TextureWhileEnding'
    BY <1>4, <1>6, <1>8, <1>9, <1>10, Nexts DEF IInv, TextureIsRight, TextureWhileEnding
  <2>2. PartialIsNotUsed'
    BY <1>7, <1>8, <1>9 DEF IInv, TextureIsRight, PartialIsNotUsed
  <2> QED BY <1>1, <1>8, <1>9, <1>10, <2>1, <2>2 DEF IInv, TextureIsRight
<1>13. StepIsNext'
  BY <1>4, <1>6, <1>8, <1>10, Nexts DEF StepIsNext
<1> QED BY <1>1, <1>3, <1>4, <1>5, <1>8, <1>9, <1>11, <1>12, <1>13, StepMoves DEF CancelStays

\* A mip that is not there cancels the update before the others are read.
LEMMA MipUnavailableStep ==
  ASSUME IInv, NEW t \in Thread, MipUnavailable(t)
  PROVE  IInv'
<1>1. /\ At(t, "open") /\ Goto(t, "again")
      /\ update' = PushTask([update EXCEPT !.bIsCancelled = TRUE], "AsyncCreate", "CancelIO")
      /\ cs' = cs /\ tasks' = tasks /\ asset' = asset
  BY DEF MipUnavailable
<1>2. PICK m \in cs.left :
        stream' = [stream EXCEPT !.failed = @ \cup {m}, !.bFailedOnIOError = TRUE]
  BY DEF MipUnavailable
<1>3. "open" \in StepLabels
  BY DEF StepLabels
<1>4. /\ Where = "open" /\ update.next = NoTasks
      /\ asset.pending /\ update \in Update /\ cs \in Lock /\ stream \in Stream
      /\ Requesting /\ ~Loading /\ ~Creating /\ ~Ending /\ ~Finishing
  BY <1>1, <1>3, InsideStep, Nexts DEF Requesting, Loading, Creating, Ending, Finishing
<1>5. Where' = "again" /\ PlacesStand
  BY <1>1, <1>3, InsideStep
<1>6. \A n \in Mips : \A l \in {"idle", "answer", "answerFailed"} : pc'[n] = l <=> pc[n] = l
  BY <1>5, Threads DEF PlacesStand
<1>7. /\ update' \in Update /\ update'.next = ToCreate
      /\ update'.TaskState = update.TaskState /\ update'.sync = update.sync
      /\ update'.bIsCancelled /\ update'.bSuccess = update.bSuccess
  BY <1>1, <1>4 DEF PushTask, ToCreate, Update
<1>8. /\ stream' \in Stream /\ stream'.read = stream.read
      /\ stream'.ioRequests = stream.ioRequests /\ stream'.memory = stream.memory
      /\ stream'.creating = stream.creating /\ stream'.intermediate = stream.intermediate
      /\ stream'.loaded = stream.loaded /\ stream'.failed # {}
      /\ stream'.reported = stream.reported /\ stream'.shown = stream.shown
  <2>1. stream.failed \cup {m} \in SUBSET Mips /\ stream.failed \cup {m} # {}
    BY <1>4 DEF Stream, Lock
  <2> SUFFICES ASSUME NEW F \in SUBSET Mips, F # {},
                      stream' = [stream EXCEPT !.failed = F, !.bFailedOnIOError = TRUE]
               PROVE  /\ stream' \in Stream /\ stream'.read = stream.read
                      /\ stream'.ioRequests = stream.ioRequests
                      /\ stream'.memory = stream.memory
                      /\ stream'.creating = stream.creating
                      /\ stream'.intermediate = stream.intermediate
                      /\ stream'.loaded = stream.loaded /\ stream'.failed # {}
                      /\ stream'.reported = stream.reported /\ stream'.shown = stream.shown
    BY <1>2, <2>1, Zenon
  <2> QED BY <1>4 DEF Stream
<1>9. /\ ~Requesting' /\ Loading' /\ ~Creating' /\ ~Ending' /\ ~Finishing' /\ ~Finished'
  BY <1>5, <1>7, Nexts
     DEF Requesting, Loading, Creating, Ending, Finishing, Finished, InStep
<1>10. Reads'
  <2>1. Unanswered' = Unanswered
    BY <1>6, <1>8 DEF Unanswered
  <2>2. SyncCounts'
    BY <1>7, <1>8, <2>1 DEF IInv, Reads, SyncCounts, One
  <2>3. MemoryWhileLoading'
    BY <1>5, <1>9 DEF MemoryWhileLoading
  <2>4. ASSUME NEW n \in Mips PROVE ReadIsRight(n)' /\ MissingIsKnown(n)'
    <3>1. ReadIsRight(n)
      BY DEF IInv, Reads
    <3> QED BY <1>4, <1>6, <1>7, <1>8, <1>9, <2>1, <3>1 DEF ReadIsRight, MissingIsKnown
  <2> QED BY <2>2, <2>3, <2>4 DEF Reads
<1>11. TextureIsRight'
  <2>1. TextureWhileEnding'
    BY <1>4, <1>5, <1>7, <1>8, <1>9, Nexts DEF IInv, TextureIsRight, TextureWhileEnding
  <2>2. PartialIsNotUsed'
    BY <1>7 DEF PartialIsNotUsed
  <2> QED BY <1>1, <1>7, <1>8, <1>9, <2>1, <2>2 DEF IInv, TextureIsRight
<1>12. StepIsNext'
  BY <1>5, <1>7, <1>9, Nexts DEF StepIsNext, InStep, StepLabels
<1> QED BY <1>1, <1>3, <1>4, <1>7, <1>8, <1>10, <1>11, <1>12, StepMoves DEF CancelStays

\* The texture is made, of all mips unless one that is missing is still to
\* cancel the update.
LEMMA AsyncCreateStep ==
  ASSUME IInv, NEW t \in Thread, AsyncCreate(t)
  PROVE  IInv'
<1>1. /\ At(t, "AsyncCreate") /\ Goto(t, "clear") /\ cs' = cs /\ tasks' = tasks /\ asset' = asset
  BY DEF AsyncCreate
<1>2. PICK waits \in BOOLEAN :
        /\ update' = [update EXCEPT !.sync = IF waits THEN @ + 1 ELSE @]
        /\ \/ /\ ~update.bIsCancelled
              /\ stream' = [stream EXCEPT !.memory = FALSE, !.creating = waits,
                   !.intermediate = IF stream.loaded = Mips THEN "full" ELSE "partial"]
           \/ /\ update.bIsCancelled /\ ~waits
              /\ stream' = [stream EXCEPT !.memory = FALSE]
  <2>1. CASE update.bIsCancelled
    <3>1. update' = update /\ stream' = [stream EXCEPT !.memory = FALSE]
      BY <2>1 DEF AsyncCreate
    <3>2. update' = [update EXCEPT !.sync = IF FALSE THEN @ + 1 ELSE @]
      BY <3>1 DEF IInv, Types, Update
    <3> QED BY <2>1, <3>1, <3>2
  <2>2. CASE ~update.bIsCancelled
    <3>1. PICK waits \in BOOLEAN :
            /\ stream' = [stream EXCEPT !.memory = FALSE, !.creating = waits,
                 !.intermediate = IF stream.loaded = Mips THEN "full" ELSE "partial"]
            /\ update' = [update EXCEPT !.sync = IF waits THEN @ + 1 ELSE @]
      BY <2>2, Zenon DEF AsyncCreate
    <3> QED BY <2>2, <3>1, Zenon
  <2> QED BY <2>1, <2>2
<1>3. "AsyncCreate" \in StepLabels /\ "clear" \in StepLabels
  BY DEF StepLabels
<1>4. /\ Where = "AsyncCreate" /\ update.next = NoTasks
      /\ asset.pending /\ update \in Update /\ cs \in Lock /\ stream \in Stream
      /\ ~Requesting /\ ~Loading /\ Creating /\ ~Ending /\ ~Finishing
      /\ cs.step = "AsyncCreate" /\ cs.left = Mips
  BY <1>1, <1>3, InsideStep, Nexts
     DEF Requesting, Loading, Creating, Ending, Finishing, IInv, Progress, StepIsNext
<1>5. Where' = "clear" /\ PlacesStand
  BY <1>1, <1>3, InsideStep
<1>6. \A n \in Mips : \A l \in {"idle", "answer", "answerFailed"} : pc'[n] = l <=> pc[n] = l
  BY <1>5, Threads DEF PlacesStand
<1>7. /\ update' \in Update /\ update'.next = update.next
      /\ update'.TaskState = update.TaskState /\ update'.sync = update.sync + One(waits)
      /\ update'.bIsCancelled = update.bIsCancelled /\ update'.bSuccess = update.bSuccess
  BY <1>2, <1>4 DEF Update, One
<1>8. /\ stream' \in Stream /\ stream'.read = stream.read
      /\ stream'.ioRequests = stream.ioRequests /\ ~stream'.memory
      /\ stream'.loaded = stream.loaded /\ stream'.failed = stream.failed
      /\ stream'.bFailedOnIOError = stream.bFailedOnIOError
      /\ stream'.reported = stream.reported /\ stream'.shown = stream.shown
  BY <1>2, <1>4 DEF Stream
<1>9. /\ ~Requesting' /\ ~Loading' /\ ~Creating' /\ Ending' /\ ~Finishing' /\ ~Finished'
  BY <1>3, <1>4, <1>5, <1>7, Nexts
     DEF Requesting, Loading, Creating, Ending, Finishing, Finished, InStep
<1>10. ~stream.creating /\ stream.intermediate = "none" /\ stream'.creating = waits
  <2>1. ~stream.creating /\ stream.intermediate = "none"
    BY <1>4, Nexts DEF IInv, TextureIsRight, TextureWhileEnding
  <2> QED BY <1>2, <1>4, <2>1 DEF Stream
<1>11. Reads'
  <2>1. Unanswered' = Unanswered
    BY <1>6, <1>8 DEF Unanswered
  <2>2. SyncCounts'
    <3>1. Cardinality(Unanswered) \in Nat
      BY UnansweredFinite DEF Unanswered
    <3> QED BY <1>7, <1>10, <2>1, <3>1 DEF IInv, Reads, SyncCounts, One
  <2>3. MemoryWhileLoading'
    BY <1>5, <1>8, <1>9 DEF MemoryWhileLoading
  <2>4. ASSUME NEW n \in Mips PROVE ReadIsRight(n)' /\ MissingIsKnown(n)'
    <3>1. ReadIsRight(n) /\ MissingIsKnown(n) /\ n \notin Unanswered
      BY <1>4 DEF IInv, Reads, ReadIsRight
    <3>2. ReadIsRight(n)'
      BY <1>1, <1>4, <1>6, <1>7, <1>8, <1>9, <2>1, <3>1 DEF ReadIsRight, Unanswered
    <3>3. MissingIsKnown(n)'
      BY <1>1, <1>4, <1>6, <1>7, <1>8, <1>9, <3>1 DEF MissingIsKnown
    <3> QED BY <3>2, <3>3
  <2> QED BY <2>2, <2>3, <2>4 DEF Reads
<1>12. TextureIsRight'
  <2>1. stream'.intermediate # "none" \/ update'.bIsCancelled
    BY <1>2, <1>4, <1>7 DEF Stream
  <2>2. TextureWhileEnding'
    BY <1>5, <1>9, <2>1 DEF TextureWhileEnding
  <2>3. PartialIsNotUsed'
    <3> SUFFICES ASSUME ~update.bIsCancelled, stream'.intermediate = "partial"
                 PROVE  \E m \in Mips : pc[m] = "answerFailed"
      BY <1>6, <1>7 DEF PartialIsNotUsed
    <3>1. stream.loaded # Mips
      BY <1>2, <1>4 DEF Stream
    <3>2. PICK m \in Mips : m \notin stream.loaded
      BY <1>4, <3>1 DEF Stream
    <3>3. ReadIsRight(m) /\ MissingIsKnown(m)
      BY DEF IInv, Reads
    <3>4. /\ stream.read[m] \in {"none", "reading", "cancelling", "callback", "complete"}
          /\ stream.read[m] # "none" /\ m \notin Unanswered
      BY <1>4, <3>3 DEF ReadIsRight, MissingIsKnown, Stream
    <3>5. stream.read[m] \in {"callback", "complete"} /\ pc[m] # "answer"
      BY <3>4 DEF Unanswered
    <3>6. pc[m] = "answerFailed"
      BY <3>2, <3>3, <3>5 DEF MissingIsKnown
    <3> QED BY <3>6
  <2> QED BY <1>1, <1>7, <1>8, <1>9, <2>2, <2>3 DEF IInv, TextureIsRight
<1>13. StepIsNext'
  BY <1>1, <1>4, <1>5, <1>7, <1>9, Nexts DEF StepIsNext
<1> QED BY <1>1, <1>3, <1>4, <1>7, <1>8, <1>11, <1>12, <1>13, StepMoves DEF CancelStays

\* A step that has to wait is put off.
LEMMA StepWaitsStep ==
  ASSUME IInv, NEW t \in Thread, At(t, "decide"), StepWaits(t), stream' = stream,
         asset' = asset
  PROVE  IInv'
BY StepPutOff DEF StepWaits

\* A step that runs waits for nothing: no read is unanswered and no texture is
\* being created.
LEMMA StepRunsStep ==
  ASSUME IInv, NEW t \in Thread, At(t, "decide"), StepRuns(t), stream' = stream,
         asset' = asset
  PROVE  IInv'
<1>1. /\ cs.step # "none" /\ ~(update.sync > 0) /\ ~(cs.checkForSuspension /\ asset.suspended)
      /\ update' = [update EXCEPT !.next = NoTasks] /\ cs' = [cs EXCEPT !.left = Mips]
      /\ Goto(t, cs.step) /\ tasks' = tasks
  BY DEF StepRuns, Waits
<1>2. /\ Where = "decide" /\ cs.owner = t /\ ~InStep /\ update.TaskState = "Locked"
      /\ Finished <=> update.next = NoTasks
      /\ update \in Update /\ cs \in Lock /\ stream \in Stream
      /\ \/ cs.step = update.next.task /\ update.next # ToCancel
         \/ cs.step = update.next.cancel /\ update.bIsCancelled
      /\ cs.checkForSuspension \/ update.bIsCancelled
  BY AtDecide DEF IInv, Types
<1>3. update.next \in {ToAllocate, ToCreate, ToFinalize, ToCancel}
  BY <1>1, <1>2, Nexts DEF Update
<1>4. asset.pending
  BY <1>2, <1>3, Nexts DEF IInv, Progress, PendingUntilFinished
<1>5. /\ update' \in Update /\ update'.next = NoTasks
      /\ update'.TaskState = update.TaskState /\ update'.sync = update.sync
      /\ update'.bIsCancelled = update.bIsCancelled /\ update'.bSuccess = update.bSuccess
  BY <1>1, <1>2 DEF Update
<1>6. cs' \in Lock /\ cs'.owner = cs.owner /\ cs'.left = Mips /\ cs'.step = cs.step
  BY <1>1, <1>2 DEF Lock
<1>7. Unanswered = {} /\ ~stream.creating
  <2>1. Cardinality(Unanswered) \in Nat /\ (Cardinality(Unanswered) = 0 <=> Unanswered = {})
    BY UnansweredFinite DEF Unanswered
  <2>2. update.sync = Cardinality(Unanswered) + One(stream.creating)
    BY DEF IInv, Reads, SyncCounts
  <2> QED BY <1>1, <2>1, <2>2 DEF One
<1>8. /\ cs.step \in StepLabels
      /\ \/ cs.step = "AllocateAndLoadMips" /\ update.next = ToAllocate
         \/ cs.step = "AsyncCreate" /\ update.next = ToCreate
         \/ cs.step = "CancelIO" /\ update.next = ToCreate /\ update.bIsCancelled
         \/ cs.step = "Finalize" /\ update.next = ToFinalize
         \/ cs.step = "Cancel" /\ update.next \in {ToFinalize, ToCancel} /\ update.bIsCancelled
  BY <1>1, <1>2, <1>3, Nexts DEF StepLabels
<1>9. /\ Where' = cs.step /\ PlacesStand
  <2>1. "decide" \in InTick /\ cs.step \in InTick
    BY <1>8 DEF InTick, TickPlaces
  <2> QED BY <1>1, <1>6, <2>1, OwnerMoves
<1>10. \A n \in Mips : \A l \in {"idle", "answer", "answerFailed"} : pc'[n] = l <=> pc[n] = l
  BY <1>9, Threads DEF PlacesStand
<1>11. /\ ~Requesting /\ ~Creating /\ ~Ending /\ ~Requesting' /\ ~Loading' /\ ~Finished'
       /\ Creating' <=> cs.step = "AsyncCreate"
       /\ Ending' <=> cs.step = "CancelIO"
       /\ Finishing' <=> cs.step \in {"Finalize", "Cancel"}
       /\ Loading <=> update.next = ToCreate
       /\ Finishing <=> update.next \in {ToFinalize, ToCancel}
  BY <1>2, <1>5, <1>8, <1>9, Nexts
     DEF Requesting, Loading, Creating, Ending, Finishing, Finished, InStep
<1>12. Reads'
  <2>1. Unanswered' = Unanswered
    BY <1>10 DEF Unanswered
  <2>2. SyncCounts'
    BY <1>5, <2>1 DEF IInv, Reads, SyncCounts, One
  <2>3. MemoryWhileLoading'
    BY <1>2, <1>5, <1>8, <1>9, <1>11, Nexts DEF IInv, Reads, MemoryWhileLoading
  <2>4. ASSUME NEW m \in Mips PROVE ReadIsRight(m)' /\ MissingIsKnown(m)'
    <3>1. ReadIsRight(m) /\ MissingIsKnown(m)
      BY DEF IInv, Reads
    <3>2. ReadIsRight(m)'
      BY <1>5, <1>6, <1>7, <1>8, <1>10, <1>11, <2>1, <3>1, Nexts DEF ReadIsRight
    <3>3. MissingIsKnown(m)'
      BY <1>5, <1>8, <1>10, <1>11, <3>1, Nexts DEF MissingIsKnown
    <3> QED BY <3>2, <3>3
  <2> QED BY <2>2, <2>3, <2>4 DEF Reads
<1>13. TextureIsRight'
  <2>1. TextureWhileEnding'
    BY <1>2, <1>5, <1>7, <1>8, <1>9, <1>11, Nexts DEF IInv, TextureIsRight, TextureWhileEnding
  <2>2. PartialIsNotUsed'
    BY <1>5, <1>10 DEF IInv, TextureIsRight, PartialIsNotUsed
  <2> QED BY <1>5, <1>11, <2>1, <2>2 DEF IInv, TextureIsRight
<1>14. StepIsNext'
  BY <1>5, <1>6, <1>8, <1>9, <1>11, Nexts DEF StepIsNext
<1>15. "decide" \in StepLabels \cup {"decide"} /\ cs.step \in StepLabels \cup {"again"}
  BY <1>8
<1>16. asset.suspended => update.bIsCancelled
  BY <1>1, <1>2
<1> QED BY <1>1, <1>2, <1>4, <1>5, <1>6, <1>12, <1>13, <1>14, <1>15, <1>16, StepMoves
        DEF CancelStays

-----------------------------------------------------------------------------
(* What is done while the owner of the lock stays where it is              *)

\* The lock is neither taken nor let go, and the update comes no step further.
LEMMA OwnerStands ==
  ASSUME IInv, PlacesTyped', OwnerIsInside', Where' = Where,
         cs' \in Lock, cs'.owner = cs.owner, cs'.step = cs.step, cs'.result = cs.result,
         cs'.checkForSuspension = cs.checkForSuspension,
         cs'.left = cs.left \/ Where \in {"clear", "CancelIO", "cancel"},
         update' \in Update, update'.next = update.next,
         update'.TaskState = update.TaskState, CancelStays,
         tasks' \in Tasks, stream' \in Stream, asset' \in Asset,
         ReferencesCounted', PendingUntilFinished', AbortedFirst', SuspensionHolds',
         Reads', TextureIsRight'
  PROVE  IInv'
<1>1. Types'
  BY DEF Types
<1>2. (InStep' <=> InStep) /\ (Finished' <=> Finished)
  BY DEF InStep, Finished
<1>3. Progress'
  <2>1. LockedInside'
    BY <1>2 DEF IInv, Progress, LockedInside
  <2>2. DoneMeansFinished'
    BY <1>2 DEF IInv, Progress, DoneMeansFinished
  <2>3. StepIsNext'
    BY <1>2 DEF IInv, Progress, StepIsNext, Creating, CancelStays
  <2> QED BY <2>1, <2>2, <2>3 DEF Progress
<1> QED BY <1>1, <1>3 DEF IInv

\* What else the game and the tasks have, and what a suspension says, is not
\* concerned by the owner of the lock and by the answers.
LEMMA OthersStand ==
  ASSUME IInv, Where' = Where, update'.next = update.next, CancelStays,
         tasks' = tasks, asset' = asset, GameStays,
         \A l \in {"idle", "release"} : /\ pc'["render"] = l <=> pc["render"] = l
                                        /\ pc'["async"] = l <=> pc["async"] = l
                                        /\ pc'["canceller"] = l <=> pc["canceller"] = l,
         pc'["canceller"] = "cancel" <=> pc["canceller"] = "cancel",
         cs'.checkForSuspension = cs.checkForSuspension
  PROVE  ReferencesCounted' /\ PendingUntilFinished' /\ AbortedFirst' /\ SuspensionHolds'
<1>1. (InStep' <=> InStep) /\ (Finished' <=> Finished)
  BY DEF InStep, Finished
<1>2. ReferencesCounted'
  BY DEF IInv, ReferencesCounted, CountersMatchTasks, One
<1>3. /\ \A l \in {"suspend", "waitUnlocked", "flush"} : pc'["game"] = l <=> pc["game"] = l
      /\ pc'["game"] = "abortIO" <=> pc["game"] = "abortIO"
      /\ pc'["game"] \in Labels \cup {"abort", "abortIO"} <=>
           pc["game"] \in Labels \cup {"abort", "abortIO"}
  BY DEF GameStays, Labels, StepLabels, TickLabels
<1>4. PendingUntilFinished'
  BY <1>1, <1>3 DEF IInv, Progress, PendingUntilFinished
<1>5. AbortedFirst'
  BY <1>3 DEF IInv, Progress, AbortedFirst, CancelStays
<1>6. SuspensionHolds'
  BY <1>1, <1>3 DEF IInv, SuspensionHolds, CancelStays
<1> QED BY <1>2, <1>4, <1>5, <1>6

\* A request that is closed is forgotten, whoever answered it; none is still
\* to be cancelled, as all were answered before the step began.
LEMMA ClearRequestStep ==
  ASSUME IInv, NEW t \in Thread, ClearRequest(t)
  PROVE  IInv'
<1>1. pc' = pc /\ tasks' = tasks /\ asset' = asset /\ pc[t] \in {"clear", "CancelIO"}
  BY DEF ClearRequest, Clearing
<1>2. PICK m \in cs.left :
        LET cleared == [stream EXCEPT !.ioRequests = @ \ {m}] IN
        \/ /\ Closed(m)
           /\ stream' = [cleared EXCEPT !.read[m] = "none"]
           /\ cs' = [cs EXCEPT !.left = @ \ {m}]
           /\ UNCHANGED update
        \/ /\ m \in stream.ioRequests /\ stream.read[m] = "reading"
           /\ CancelRead(cleared, m)
           /\ UNCHANGED cs
        \/ /\ m \in stream.ioRequests
           /\ stream.read[m] # "reading" /\ ~Closed(m)
           /\ stream' = cleared
           /\ UNCHANGED <<update, cs>>
  BY Zenon DEF ClearRequest
<1>3. /\ Where \in {"clear", "CancelIO"} /\ cs.owner = t /\ update.next = NoTasks
      /\ update \in Update /\ cs \in Lock /\ stream \in Stream
      /\ ~Requesting /\ ~Loading /\ ~Creating /\ Ending /\ InStep
      /\ tasks \in Tasks /\ asset \in Asset /\ PlacesTyped
  <2>1. pc[t] \in StepLabels /\ At(t, pc[t])
    BY <1>1 DEF StepLabels, At
  <2>2. Where = pc[t]
    BY <2>1, InsideStep
  <2> QED BY <1>1, <2>1, <2>2, InsideStep, Nexts
          DEF Requesting, Loading, Creating, Ending, IInv, Types
<1>4. m \in Mips /\ m \notin Unanswered /\ ReadIsRight(m) /\ stream.read[m] # "reading"
  BY <1>3 DEF Lock, IInv, Reads, ReadIsRight, Unanswered
<1>5. /\ update' = update /\ cs' \in Lock /\ cs'.owner = cs.owner /\ cs'.step = cs.step
      /\ cs'.result = cs.result /\ cs'.checkForSuspension = cs.checkForSuspension
      /\ stream' \in Stream
      /\ stream'.ioRequests = stream.ioRequests \ {m} /\ stream'.memory = stream.memory
      /\ stream'.creating = stream.creating /\ stream'.intermediate = stream.intermediate
      /\ stream'.loaded = stream.loaded /\ stream'.failed = stream.failed
      /\ stream'.bFailedOnIOError = stream.bFailedOnIOError
      /\ stream'.reported = stream.reported /\ stream'.shown = stream.shown
      /\ \A n \in Mips : n # m => stream'.read[n] = stream.read[n]
      /\ \/ /\ Closed(m) /\ stream'.read[m] = "none" /\ cs'.left = cs.left \ {m}
         \/ stream'.read[m] = stream.read[m] /\ cs'.left = cs.left
  <2>1. CASE /\ Closed(m)
             /\ stream' = [stream EXCEPT !.ioRequests = @ \ {m}, !.read[m] = "none"]
             /\ cs' = [cs EXCEPT !.left = @ \ {m}]
             /\ update' = update
    BY <1>3, <1>4, <2>1 DEF Stream, Lock
  <2>2. CASE stream' = [stream EXCEPT !.ioRequests = @ \ {m}] /\ update' = update /\ cs' = cs
    BY <1>3, <1>4, <2>2 DEF Stream
  <2> QED BY <1>2, <1>4, <2>1, <2>2
<1>6. /\ Where' = Where /\ OwnerIsInside' /\ PlacesTyped'
      /\ ~Requesting' /\ ~Loading' /\ ~Creating' /\ Ending' /\ InStep'
      /\ (Finishing' <=> Finishing) /\ (Finished' <=> Finished)
  BY <1>1, <1>3, <1>5 DEF Where, IInv, OwnerIsInside, PlacesTyped, Requesting, Loading, Creating,
     Ending, Finishing, Finished, InStep
<1>7. Reads'
  <2>1. Unanswered' = Unanswered
    BY <1>1, <1>4, <1>5 DEF Unanswered, Closed
  <2>2. SyncCounts'
    BY <1>5, <2>1 DEF IInv, Reads, SyncCounts, One
  <2>3. MemoryWhileLoading'
    BY <1>3, <1>5, <1>6 DEF IInv, Reads, MemoryWhileLoading
  <2>4. ASSUME NEW n \in Mips PROVE ReadIsRight(n)' /\ MissingIsKnown(n)'
    <3>1. ReadIsRight(n) /\ MissingIsKnown(n)
      BY DEF IInv, Reads
    <3>2. CASE n = m
      BY <1>1, <1>3, <1>4, <1>5, <1>6, <2>1, <3>1, <3>2 DEF ReadIsRight, MissingIsKnown, Closed
    <3>3. CASE n # m
      <4>1. ReadIsRight(n)'
        BY <1>1, <1>3, <1>4, <1>5, <1>6, <2>1, <3>1, <3>3 DEF ReadIsRight
      <4>2. MissingIsKnown(n)'
        BY <1>1, <1>3, <1>5, <1>6, <3>1, <3>3 DEF MissingIsKnown
      <4> QED BY <4>1, <4>2
    <3> QED BY <3>2, <3>3
  <2> QED BY <2>2, <2>3, <2>4 DEF Reads
<1>8. TextureIsRight'
  <2>1. TextureWhileEnding'
    BY <1>5, <1>6 DEF IInv, TextureIsRight, TextureWhileEnding
  <2>2. PartialIsNotUsed'
    BY <1>1, <1>5 DEF IInv, TextureIsRight, PartialIsNotUsed
  <2> QED BY <1>1, <1>5, <1>6, <2>1, <2>2 DEF IInv, TextureIsRight
<1>9. CancelStays /\ GameStays
  BY <1>1, <1>5 DEF CancelStays, GameStays
<1>10. ReferencesCounted' /\ PendingUntilFinished' /\ AbortedFirst' /\ SuspensionHolds'
  BY <1>1, <1>5, <1>6, <1>9, OthersStand
<1> QED BY <1>1, <1>3, <1>5, <1>6, <1>7, <1>8, <1>9, <1>10, OwnerStands

\* The step after a texture was made is to use it, after a cancellation to
\* give up what is left.
LEMMA RequestsClearedStep ==
  ASSUME IInv, NEW t \in Thread, RequestsCleared(t)
  PROVE  IInv'
<1>1. /\ pc[t] \in {"clear", "CancelIO"} /\ Goto(t, "again") /\ cs.left = {}
      /\ update' = PushTask(update, IF cs.step = "AsyncCreate" THEN "Finalize" ELSE "none",
                            "Cancel")
      /\ cs' = cs /\ tasks' = tasks /\ stream' = stream /\ asset' = asset
  BY DEF RequestsCleared, Clearing
<1>2. pc[t] \in StepLabels /\ At(t, pc[t])
  BY <1>1 DEF StepLabels, At
<1>3. /\ Where = pc[t] /\ update.next = NoTasks /\ asset.pending
      /\ update \in Update /\ cs \in Lock /\ stream \in Stream
      /\ Where' = "again" /\ PlacesStand
  BY <1>1, <1>2, InsideStep
<1>4. \A n \in Mips : \A l \in {"idle", "answer", "answerFailed"} : pc'[n] = l <=> pc[n] = l
  BY <1>3, Threads DEF PlacesStand
<1>5. /\ Where = "clear" => cs.step = "AsyncCreate"
      /\ Where = "CancelIO" => cs.step = "CancelIO" /\ update.bIsCancelled
  BY DEF IInv, Progress, StepIsNext
<1>6. /\ update' \in Update
      /\ update'.TaskState = update.TaskState /\ update'.sync = update.sync
      /\ update'.bIsCancelled = update.bIsCancelled /\ update'.bSuccess = update.bSuccess
      /\ \/ Where = "clear" /\ update'.next = ToFinalize
         \/ Where = "CancelIO" /\ update'.next = ToCancel /\ update.bIsCancelled
  BY <1>1, <1>3, <1>5 DEF PushTask, ToFinalize, ToCancel, Update
<1>7. /\ ~Requesting /\ ~Loading /\ ~Creating /\ Ending /\ ~Finishing
      /\ ~Requesting' /\ ~Loading' /\ ~Creating' /\ ~Ending' /\ Finishing' /\ ~Finished'
  BY <1>1, <1>3, <1>6, Nexts
     DEF Requesting, Loading, Creating, Ending, Finishing, Finished, InStep
<1>8. Reads'
  <2>1. Unanswered' = Unanswered
    BY <1>1, <1>4 DEF Unanswered
  <2>2. SyncCounts'
    BY <1>1, <1>6, <2>1 DEF IInv, Reads, SyncCounts, One
  <2>3. MemoryWhileLoading'
    BY <1>1, <1>3, <1>6, <1>7, Nexts DEF IInv, Reads, MemoryWhileLoading
  <2>4. ASSUME NEW n \in Mips PROVE ReadIsRight(n)' /\ MissingIsKnown(n)'
    <3>1. ReadIsRight(n) /\ MissingIsKnown(n) /\ stream.read[n] = "none"
      BY <1>1, <1>7 DEF IInv, Reads, ReadIsRight
    <3> QED BY <1>1, <1>4, <1>6, <1>7, <2>1, <3>1 DEF ReadIsRight, MissingIsKnown
  <2> QED BY <2>2, <2>3, <2>4 DEF Reads
<1>9. TextureIsRight'
  <2>1. TextureWhileEnding'
    BY <1>1, <1>3, <1>6, <1>7, Nexts DEF IInv, TextureIsRight, TextureWhileEnding
  <2>2. PartialIsNotUsed'
    BY <1>1, <1>4, <1>6 DEF IInv, TextureIsRight, PartialIsNotUsed
  <2> QED BY <1>1, <1>6, <1>7, <2>1, <2>2 DEF IInv, TextureIsRight
<1>10. StepIsNext'
  BY <1>3, <1>6, <1>7, Nexts DEF StepIsNext, InStep, StepLabels
<1> QED BY <1>1, <1>2, <1>3, <1>6, <1>8, <1>9, <1>10, StepMoves DEF CancelStays

\* The update is finished: its texture is used, with all mips, or it was
\* cancelled.
LEMMA FinishStep ==
  ASSUME IInv, NEW t \in Thread, NEW a \in {"Finalize", "Cancel"}, At(t, a), Goto(t, "again"),
         NEW s \in Stream, FinishUpdate(s),
         s.read = stream.read, s.ioRequests = stream.ioRequests, s.creating = stream.creating,
         s.intermediate = stream.intermediate, s.loaded = stream.loaded,
         s.failed = stream.failed, s.bFailedOnIOError = stream.bFailedOnIOError,
         s.shown = stream.shown, s.reported \in {stream.reported, stream.bFailedOnIOError},
         s.memory = IF a = "Cancel" THEN FALSE ELSE stream.memory,
         cs' = cs, tasks' = tasks, asset' = asset
  PROVE  IInv'
<1>1. /\ stream' = [s EXCEPT !.shown = IF Uses THEN s.intermediate ELSE @,
                             !.intermediate = "none"]
      /\ update' = [update EXCEPT !.bSuccess = @ \/ Uses]
  BY DEF FinishUpdate
<1>2. a \in StepLabels /\ "again" \in StepLabels \cup {"again"}
  BY DEF StepLabels
<1>3. /\ Where = a /\ update.next = NoTasks /\ asset.pending
      /\ update \in Update /\ cs \in Lock /\ stream \in Stream
      /\ Where' = "again" /\ PlacesStand
  BY <1>2, InsideStep
<1>4. \A n \in Mips : \A l \in {"idle", "answer", "answerFailed"} : pc'[n] = l <=> pc[n] = l
  BY <1>3, Threads DEF PlacesStand
<1>5. /\ ~Requesting /\ ~Loading /\ ~Creating /\ ~Ending /\ Finishing
      /\ ~Requesting' /\ ~Loading' /\ ~Creating' /\ ~Ending' /\ ~Finishing'
      /\ update'.next = NoTasks
  BY <1>1, <1>3, Nexts DEF Requesting, Loading, Creating, Ending, Finishing, Update
<1>6. \A n \in Mips : stream.read[n] = "none" /\ pc[n] = "idle"
  BY <1>5 DEF IInv, Reads, ReadIsRight
<1>7. Uses => stream.intermediate = "full"
  BY <1>3, <1>6 DEF Uses, IInv, TextureIsRight, PartialIsNotUsed, Stream
<1>8. /\ update' \in Update /\ update'.TaskState = update.TaskState
      /\ update'.sync = update.sync /\ update'.bIsCancelled = update.bIsCancelled
      /\ update'.bSuccess = (update.bSuccess \/ Uses)
  <2>1. Uses \in BOOLEAN
    BY DEF Uses
  <2> SUFFICES ASSUME NEW b \in BOOLEAN, b = Uses
               PROVE  /\ update' \in Update /\ update'.TaskState = update.TaskState
                      /\ update'.sync = update.sync
                      /\ update'.bIsCancelled = update.bIsCancelled
                      /\ update'.bSuccess = (update.bSuccess \/ b)
    BY <2>1
  <2>2. update' = [update EXCEPT !.bSuccess = @ \/ b]
    BY <1>1
  <2> QED BY <1>3, <2>2 DEF Update
<1>9. /\ stream' \in Stream
      /\ stream'.read = stream.read /\ stream'.ioRequests = stream.ioRequests
      /\ stream'.creating = stream.creating /\ stream'.intermediate = "none"
      /\ stream'.memory = s.memory
      /\ stream'.loaded = stream.loaded /\ stream'.failed = stream.failed
      /\ stream'.bFailedOnIOError = stream.bFailedOnIOError
      /\ stream'.reported = s.reported
      /\ stream'.shown = IF Uses THEN "full" ELSE stream.shown
  <2>1. stream' = [s EXCEPT !.shown = IF Uses THEN "full" ELSE @, !.intermediate = "none"]
    BY <1>1, <1>7
  <2>2. PICK shown \in {"old", "full"} :
          /\ shown = IF Uses THEN "full" ELSE stream.shown
          /\ stream' = [s EXCEPT !.shown = shown, !.intermediate = "none"]
    BY <1>3, <2>1 DEF Stream
  <2>3. /\ stream' \in Stream
        /\ stream'.read = s.read /\ stream'.ioRequests = s.ioRequests
        /\ stream'.creating = s.creating /\ stream'.intermediate = "none"
        /\ stream'.memory = s.memory
        /\ stream'.loaded = s.loaded /\ stream'.failed = s.failed
        /\ stream'.bFailedOnIOError = s.bFailedOnIOError
        /\ stream'.reported = s.reported /\ stream'.shown = shown
    BY <2>2 DEF Stream
  <2> QED BY <2>2, <2>3
<1>10. ~stream'.memory /\ ~stream'.creating
  <2>1. ~s.memory
    BY <1>3, <1>5, Nexts DEF IInv, Reads, MemoryWhileLoading
  <2>2. ~stream.creating
    BY <1>3, Nexts DEF IInv, TextureIsRight, TextureWhileEnding
  <2> QED BY <1>9, <2>1, <2>2
<1>11. Reads'
  <2>1. Unanswered' = Unanswered
    BY <1>4, <1>9 DEF Unanswered
  <2>2. SyncCounts'
    BY <1>8, <1>9, <2>1 DEF IInv, Reads, SyncCounts, One
  <2>3. MemoryWhileLoading'
    BY <1>3, <1>10 DEF MemoryWhileLoading
  <2>4. ASSUME NEW n \in Mips PROVE ReadIsRight(n)' /\ MissingIsKnown(n)'
    <3>1. ReadIsRight(n) /\ MissingIsKnown(n)
      BY DEF IInv, Reads
    <3> QED BY <1>4, <1>5, <1>6, <1>8, <1>9, <2>1, <3>1 DEF ReadIsRight, MissingIsKnown
  <2> QED BY <2>2, <2>3, <2>4 DEF Reads
<1>12. TextureIsRight'
  <2>1. TextureWhileEnding'
    BY <1>3, <1>5, <1>9, <1>10, Nexts DEF TextureWhileEnding
  <2>2. PartialIsNotUsed'
    BY <1>9 DEF PartialIsNotUsed
  <2>3. update'.bSuccess <=> stream'.shown = "full"
    BY <1>8, <1>9 DEF IInv, TextureIsRight
  <2>4. update'.bSuccess \/ update'.bIsCancelled
    BY <1>3, <1>8 DEF Uses, IInv, TextureIsRight, TextureWhileEnding, Progress, StepIsNext
  <2>5. stream'.bFailedOnIOError \/ stream'.reported => stream'.failed # {}
    BY <1>9 DEF IInv, TextureIsRight
  <2> QED BY <1>3, <2>1, <2>2, <2>3, <2>4, <2>5 DEF TextureIsRight
<1>13. StepIsNext'
  BY <1>3, <1>5, Nexts DEF StepIsNext, InStep, StepLabels
<1> QED BY <1>2, <1>3, <1>8, <1>9, <1>11, <1>12, <1>13, StepMoves DEF CancelStays

\* DoFinishUpdate
LEMMA FinalizeStep ==
  ASSUME IInv, NEW t \in Thread, Finalize(t)
  PROVE  IInv'
<1>1. stream \in Stream
  BY DEF IInv, Types
<1> QED BY <1>1, FinishStep DEF Finalize

\* DoFinishUpdate with the buffers freed, for an update that was cancelled
LEMMA CancelStep ==
  ASSUME IInv, NEW t \in Thread, Cancel(t)
  PROVE  IInv'
<1>1. /\ At(t, "Cancel") /\ Goto(t, "again") /\ cs' = cs /\ tasks' = tasks /\ asset' = asset
  BY DEF Cancel
<1>2. PICK s : /\ s = [stream EXCEPT !.memory = FALSE, !.reported = stream.bFailedOnIOError]
               /\ FinishUpdate(s)
  BY DEF Cancel
<1>3. /\ s \in Stream
      /\ s.read = stream.read /\ s.ioRequests = stream.ioRequests
      /\ s.creating = stream.creating
      /\ s.intermediate = stream.intermediate /\ s.loaded = stream.loaded
      /\ s.failed = stream.failed /\ s.bFailedOnIOError = stream.bFailedOnIOError
      /\ s.shown = stream.shown /\ s.reported = stream.bFailedOnIOError /\ ~s.memory
  BY <1>2 DEF IInv, Types, Stream
<1>4. s.memory = FALSE
  BY <1>3 DEF Stream
<1> QED BY <1>1, <1>2, <1>3, <1>4, FinishStep

\* Whatever the owner of the lock does keeps the invariant.
LEMMA InUpdateStep ==
  ASSUME IInv, NEW t \in Thread, InUpdate(t)
  PROVE  IInv'
<1>1. CASE TickInternal(t)
  BY <1>1, StepNoneStep, StepWaitsStep, StepRunsStep, StepScheduledStep DEF TickInternal
<1>2. CASE Tick(t) /\ ~TickInternal(t)
  BY <1>2, TickEnterStep, TickLockStep, TickMarkLockedStep, TickAgainStep, ChooseStepStep,
     TickStoreStep, TickUnlockStep DEF Tick
<1>3. CASE RunStep(t)
  BY <1>3, AllocateNewMipsStep, NextRequestStep, OpenRequestStep, MipUnavailableStep,
     AsyncCreateStep, ClearRequestStep, RequestsClearedStep, FinalizeStep, CancelStep DEF RunStep
<1> QED BY <1>1, <1>2, <1>3 DEF InUpdate

-----------------------------------------------------------------------------
(* The answers of the reads, and the event of the texture                  *)

\* An update is done only when it is finished.
LEMMA DoneIsFinished ==
  ASSUME IInv, update.TaskState = "Done"
  PROVE  Finished
<1>1. Where = "free" \/ Where \in InLock
  BY DEF Where, IInv, OwnerIsInside, Types, Lock
<1>2. Where \in {"free", "locked", "unlock"}
  BY <1>1 DEF IInv, Progress, LockedInside, InStep, InLock, TickLabels
<1> QED BY <1>2 DEF IInv, Progress, DoneMeansFinished

\* The update is where it was.
LEMMA StageIsSame ==
  ASSUME Where' = Where, update'.next = update.next
  PROVE  /\ Requesting' <=> Requesting
         /\ Loading' <=> Loading
         /\ Creating' <=> Creating
         /\ Ending' <=> Ending
         /\ Finishing' <=> Finishing
         /\ Finished' <=> Finished
         /\ InStep' <=> InStep
BY DEF Requesting, Loading, Creating, Ending, Finishing, Finished, InStep

\* A thread that answers a read goes on, outside of the lock.
LEMMA AnswerGoes ==
  ASSUME IInv, NEW m \in Mips, pc[m] \notin InLock,
         NEW l \in {"idle", "answer", "answerFailed", "tick"}, Goto(m, l), cs' = cs
  PROVE  /\ PlacesTyped' /\ OwnerIsInside' /\ Where' = Where
         /\ pc'[m] = l /\ \A s \in Thread : s # m => pc'[s] = pc[s]
         /\ \A n \in Mips : n # m => pc'[n] = pc[n]
<1>1. l \notin InLock /\ l \in {"idle", "answer", "answerFailed"} \cup Labels /\ m \in Thread
  BY Threads DEF InLock, StepLabels, TickLabels, Labels
<1>2. l \in LabelsOf(m)
  BY <1>1, Threads DEF LabelsOf
<1> QED BY <1>1, <1>2, OutsideMoves, Threads

\* What an answer changes
LEMMA AnswerMoves ==
  ASSUME IInv, NEW m \in Mips, pc[m] \notin InLock,
         NEW l \in {"idle", "answer", "answerFailed", "tick"}, Goto(m, l),
         cs' = cs, tasks' = tasks, asset' = asset, update' \in Update,
         update'.next = update.next, update'.TaskState = update.TaskState, CancelStays,
         stream' \in Stream, Reads', TextureIsRight'
  PROVE  IInv'
<1>1. /\ PlacesTyped' /\ OwnerIsInside' /\ Where' = Where
      /\ \A s \in Thread : s # m => pc'[s] = pc[s]
  BY AnswerGoes
<1>2. pc'["render"] = pc["render"] /\ pc'["async"] = pc["async"]
      /\ pc'["canceller"] = pc["canceller"] /\ pc'["game"] = pc["game"]
  BY <1>1, Threads
<1>3. GameStays
  BY <1>2 DEF GameStays
<1>4. ReferencesCounted' /\ PendingUntilFinished' /\ AbortedFirst' /\ SuspensionHolds'
  BY <1>1, <1>2, <1>3, OthersStand
<1>5. cs \in Lock /\ tasks \in Tasks /\ asset \in Asset
  BY DEF IInv, Types
<1> QED BY <1>1, <1>4, <1>5, OwnerStands

\* The file system has read the mip, or failed.
LEMMA ReadEndsStep ==
  ASSUME IInv, NEW m \in Mips, ReadEnds(m)
  PROVE  IInv'
<1>1. /\ pc[m] = "idle" /\ Goto(m, "answer") /\ update' = update /\ cs' = cs
      /\ tasks' = tasks /\ asset' = asset /\ "idle" \notin InLock
  BY DEF ReadEnds, At, InLock, StepLabels, TickLabels
<1>2. /\ update \in Update /\ stream \in Stream
  BY DEF IInv, Types
<1>3. /\ stream.read[m] \in {"reading", "cancelling"} /\ stream' \in Stream
      /\ stream'.read[m] = "callback"
      /\ \A n \in Mips : n # m => stream'.read[n] = stream.read[n]
      /\ stream'.ioRequests = stream.ioRequests /\ stream'.memory = stream.memory
      /\ stream'.creating = stream.creating /\ stream'.intermediate = stream.intermediate
      /\ stream'.bFailedOnIOError = stream.bFailedOnIOError
      /\ stream'.reported = stream.reported /\ stream'.shown = stream.shown
      /\ stream.loaded \subseteq stream'.loaded /\ stream.failed \subseteq stream'.failed
      /\ \A n \in Mips : n # m => (n \in stream'.loaded <=> n \in stream.loaded)
      /\ stream.read[m] = "cancelling" \/ m \in stream'.loaded \/ m \in stream'.failed
  <2>1. CASE /\ stream.read[m] \in {"reading", "cancelling"}
             /\ stream' = [stream EXCEPT !.read[m] = "callback", !.loaded = @ \cup {m}]
    BY <1>2, <2>1 DEF Stream
  <2>2. CASE /\ stream.read[m] = "reading"
             /\ stream' = [stream EXCEPT !.read[m] = "callback", !.failed = @ \cup {m}]
    BY <1>2, <2>2 DEF Stream
  <2>3. CASE /\ stream.read[m] = "cancelling"
             /\ stream' = [stream EXCEPT !.read[m] = "callback"]
    BY <1>2, <2>3 DEF Stream
  <2> QED BY <2>1, <2>2, <2>3 DEF ReadEnds
<1>4. /\ Where' = Where /\ pc'[m] = "answer" /\ \A n \in Mips : n # m => pc'[n] = pc[n]
  BY <1>1, AnswerGoes
<1>5. Reads'
  <2>1. Unanswered' = Unanswered
    BY <1>1, <1>3, <1>4 DEF Unanswered
  <2>2. SyncCounts'
    BY <1>1, <1>3, <2>1 DEF IInv, Reads, SyncCounts, One
  <2>3. MemoryWhileLoading'
    BY <1>1, <1>3, <1>4, StageIsSame DEF IInv, Reads, MemoryWhileLoading
  <2>4. ASSUME NEW n \in Mips PROVE ReadIsRight(n)' /\ MissingIsKnown(n)'
    <3>1. ReadIsRight(n) /\ MissingIsKnown(n)
      BY DEF IInv, Reads
    <3>2. CASE n = m
      <4>1. ReadIsRight(m)'
        BY <1>1, <1>3, <1>4, <2>1, <3>1, <3>2, StageIsSame DEF ReadIsRight
      <4>2. MissingIsKnown(m)'
        BY <1>1, <1>3, <1>4, <3>1, <3>2, StageIsSame DEF MissingIsKnown, ReadIsRight
      <4> QED BY <3>2, <4>1, <4>2
    <3>3. CASE n # m
      <4>1. ReadIsRight(n)'
        BY <1>1, <1>3, <1>4, <2>1, <3>1, <3>3, StageIsSame DEF ReadIsRight
      <4>2. MissingIsKnown(n)'
        BY <1>1, <1>3, <1>4, <3>1, <3>3, StageIsSame DEF MissingIsKnown
      <4> QED BY <4>1, <4>2
    <3> QED BY <3>2, <3>3
  <2> QED BY <2>2, <2>3, <2>4 DEF Reads
<1>6. TextureIsRight'
  <2>1. TextureWhileEnding'
    BY <1>1, <1>3, <1>4, StageIsSame DEF IInv, TextureIsRight, TextureWhileEnding
  <2>2. PartialIsNotUsed'
    BY <1>1, <1>3, <1>4 DEF IInv, TextureIsRight, PartialIsNotUsed
  <2> QED BY <1>1, <1>3, <1>4, <2>1, <2>2, StageIsSame DEF IInv, TextureIsRight
<1> QED BY <1>1, <1>2, <1>3, <1>5, <1>6, AnswerMoves DEF CancelStays

\* A callback counts itself off, and has still to say that its read failed.
LEMMA AnswerCountedStep ==
  ASSUME IInv, NEW m \in Mips, AnswerCounted(m)
  PROVE  IInv'
<1>1. /\ pc[m] = "answer" /\ update' = [update EXCEPT !.sync = @ - 1] /\ cs' = cs
      /\ stream' = stream /\ tasks' = tasks /\ asset' = asset /\ "answer" \notin InLock
  BY DEF AnswerCounted, At, InLock, StepLabels, TickLabels
<1>2. PICK l \in {"answerFailed", "tick"} :
        Goto(m, l) /\ (l = "tick" <=> m \in stream.loaded)
  BY DEF AnswerCounted
<1>3. update \in Update /\ stream \in Stream
  BY DEF IInv, Types
<1>4. /\ update' \in Update /\ update'.next = update.next
      /\ update'.TaskState = update.TaskState /\ update'.sync = update.sync - 1
      /\ update'.bIsCancelled = update.bIsCancelled /\ update'.bSuccess = update.bSuccess
  <2> SUFFICES ASSUME NEW k \in Int, k = update.sync - 1
               PROVE  /\ update' \in Update /\ update'.next = update.next
                      /\ update'.TaskState = update.TaskState /\ update'.sync = k
                      /\ update'.bIsCancelled = update.bIsCancelled
                      /\ update'.bSuccess = update.bSuccess
    BY <1>3 DEF Update
  <2>1. update' = [update EXCEPT !.sync = k]
    BY <1>1
  <2> QED BY <1>3, <2>1 DEF Update
<1>5. /\ Where' = Where /\ pc'[m] = l /\ \A n \in Mips : n # m => pc'[n] = pc[n]
  BY <1>1, <1>2, AnswerGoes
<1>6. Reads'
  <2>1. stream.read[m] = "callback" /\ ReadIsRight(m) /\ MissingIsKnown(m)
    BY <1>1 DEF IInv, Reads, ReadIsRight
  <2>2. m \in Unanswered /\ Unanswered' = Unanswered \ {m}
    BY <1>1, <1>2, <1>5, <2>1 DEF Unanswered
  <2>3. SyncCounts'
    <3>1. Cardinality(Unanswered') = Cardinality(Unanswered) - 1
          /\ Cardinality(Unanswered) \in Nat
      BY <2>2, UnansweredFinite DEF Unanswered
    <3> QED BY <1>1, <1>4, <3>1 DEF IInv, Reads, SyncCounts, One
  <2>4. MemoryWhileLoading'
    BY <1>1, <1>4, <1>5, StageIsSame DEF IInv, Reads, MemoryWhileLoading
  <2>5. ASSUME NEW n \in Mips PROVE ReadIsRight(n)' /\ MissingIsKnown(n)'
    <3>1. ReadIsRight(n) /\ MissingIsKnown(n)
      BY DEF IInv, Reads
    <3>2. CASE n = m
      <4>1. ReadIsRight(m)'
        BY <1>1, <1>2, <1>4, <1>5, <2>1, <2>2, StageIsSame DEF ReadIsRight
      <4>2. MissingIsKnown(m)'
        BY <1>1, <1>2, <1>4, <1>5, <2>1, StageIsSame DEF MissingIsKnown
      <4> QED BY <3>2, <4>1, <4>2
    <3>3. CASE n # m
      <4>1. ReadIsRight(n)'
        BY <1>1, <1>4, <1>5, <2>2, <3>1, <3>3, StageIsSame DEF ReadIsRight
      <4>2. MissingIsKnown(n)'
        BY <1>1, <1>4, <1>5, <3>1, <3>3, StageIsSame DEF MissingIsKnown
      <4> QED BY <4>1, <4>2
    <3> QED BY <3>2, <3>3
  <2> QED BY <2>3, <2>4, <2>5 DEF Reads
<1>7. TextureIsRight'
  <2>1. TextureWhileEnding'
    BY <1>1, <1>4, <1>5, StageIsSame DEF IInv, TextureIsRight, TextureWhileEnding
  <2>2. PartialIsNotUsed'
    BY <1>1, <1>4, <1>5 DEF IInv, TextureIsRight, PartialIsNotUsed
  <2> QED BY <1>1, <1>4, <1>5, <2>1, <2>2, StageIsSame DEF IInv, TextureIsRight
<1> QED BY <1>1, <1>2, <1>3, <1>4, <1>6, <1>7, AnswerMoves DEF CancelStays

\* A callback of a read that failed cancels the update: it is not done yet.
LEMMA AnswerFailedStep ==
  ASSUME IInv, NEW m \in Mips, AnswerFailed(m)
  PROVE  IInv'
<1>1. /\ pc[m] = "answerFailed" /\ Goto(m, "tick") /\ cs' = cs /\ tasks' = tasks
      /\ asset' = asset /\ stream' = [stream EXCEPT !.bFailedOnIOError = IOError]
      /\ update' = [update EXCEPT !.bIsCancelled = @ \/ update.TaskState # "Done"]
      /\ "answerFailed" \notin InLock
  BY DEF AnswerFailed, At, InLock, StepLabels, TickLabels
<1>2. update \in Update /\ stream \in Stream
  BY DEF IInv, Types
<1>3. stream.read[m] = "callback" /\ ReadIsRight(m) /\ MissingIsKnown(m)
  BY <1>1 DEF IInv, Reads, ReadIsRight
<1>4. ~Finished
  BY <1>3, Nexts DEF ReadIsRight, Finished, Requesting, Loading, Creating, Ending, InStep,
     StepLabels
<1>5. update' = [update EXCEPT !.bIsCancelled = TRUE]
  BY <1>1, <1>2, <1>4, DoneIsFinished DEF Update
<1>6. /\ update' \in Update /\ update'.next = update.next
      /\ update'.TaskState = update.TaskState /\ update'.sync = update.sync
      /\ update'.bIsCancelled /\ update'.bSuccess = update.bSuccess
  BY <1>2, <1>5 DEF Update
<1>7. /\ stream' \in Stream /\ stream'.read = stream.read
      /\ stream'.ioRequests = stream.ioRequests /\ stream'.memory = stream.memory
      /\ stream'.creating = stream.creating /\ stream'.intermediate = stream.intermediate
      /\ stream'.loaded = stream.loaded /\ stream'.failed = stream.failed
      /\ stream'.bFailedOnIOError = IOError
      /\ stream'.reported = stream.reported /\ stream'.shown = stream.shown
  <2>1. IOError \in BOOLEAN
    BY <1>2 DEF IOError, Stream
  <2> QED BY <1>1, <1>2, <2>1 DEF Stream
<1>8. /\ Where' = Where /\ pc'[m] = "tick" /\ \A n \in Mips : n # m => pc'[n] = pc[n]
  BY <1>1, AnswerGoes
<1>9. Reads'
  <2>1. Unanswered' = Unanswered
    BY <1>1, <1>7, <1>8 DEF Unanswered
  <2>2. SyncCounts'
    BY <1>6, <1>7, <2>1 DEF IInv, Reads, SyncCounts, One
  <2>3. MemoryWhileLoading'
    BY <1>6, <1>7, <1>8, StageIsSame DEF IInv, Reads, MemoryWhileLoading
  <2>4. ASSUME NEW n \in Mips PROVE ReadIsRight(n)' /\ MissingIsKnown(n)'
    <3>1. ReadIsRight(n)
      BY DEF IInv, Reads
    <3>2. ReadIsRight(n)'
      BY <1>1, <1>3, <1>6, <1>7, <1>8, <2>1, <3>1, StageIsSame DEF ReadIsRight
    <3>3. MissingIsKnown(n)'
      BY <1>6 DEF MissingIsKnown
    <3> QED BY <3>2, <3>3
  <2> QED BY <2>2, <2>3, <2>4 DEF Reads
<1>10. TextureIsRight'
  <2>1. TextureWhileEnding'
    BY <1>6, <1>7, <1>8, StageIsSame DEF IInv, TextureIsRight, TextureWhileEnding
  <2>2. PartialIsNotUsed'
    BY <1>6 DEF PartialIsNotUsed
  <2>3. ~update.bIsCancelled => stream.failed # {}
    BY <1>1, <1>3 DEF ReadIsRight, MissingIsKnown
  <2>4. stream'.bFailedOnIOError \/ stream'.reported => stream'.failed # {}
    BY <1>7, <2>3 DEF IOError, IInv, TextureIsRight
  <2> QED BY <1>1, <1>6, <1>7, <1>8, <2>1, <2>2, <2>4, StageIsSame DEF IInv, TextureIsRight
<1> QED BY <1>1, <1>6, <1>7, <1>9, <1>10, AnswerMoves DEF CancelStays

\* The callback returns.
LEMMA AnswerEndsStep ==
  ASSUME IInv, NEW m \in Mips, AnswerEnds(m)
  PROVE  IInv'
<1>1. /\ pc[m] = "ticked" /\ Goto(m, "idle") /\ update' = update /\ cs' = cs
      /\ tasks' = tasks /\ asset' = asset /\ stream' = [stream EXCEPT !.read[m] = "complete"]
      /\ "ticked" \notin InLock
  BY DEF AnswerEnds, At, InLock, StepLabels, TickLabels
<1>2. update \in Update /\ stream \in Stream
  BY DEF IInv, Types
<1>3. stream.read[m] = "callback" /\ ReadIsRight(m) /\ MissingIsKnown(m)
  BY <1>1 DEF IInv, Reads, ReadIsRight
<1>4. /\ stream' \in Stream /\ stream'.read[m] = "complete"
      /\ \A n \in Mips : n # m => stream'.read[n] = stream.read[n]
      /\ stream'.ioRequests = stream.ioRequests /\ stream'.memory = stream.memory
      /\ stream'.creating = stream.creating /\ stream'.intermediate = stream.intermediate
      /\ stream'.loaded = stream.loaded /\ stream'.failed = stream.failed
      /\ stream'.bFailedOnIOError = stream.bFailedOnIOError
      /\ stream'.reported = stream.reported /\ stream'.shown = stream.shown
  BY <1>1, <1>2 DEF Stream
<1>5. /\ Where' = Where /\ pc'[m] = "idle" /\ \A n \in Mips : n # m => pc'[n] = pc[n]
  BY <1>1, AnswerGoes
<1>6. Reads'
  <2>1. Unanswered' = Unanswered
    BY <1>1, <1>3, <1>4, <1>5 DEF Unanswered
  <2>2. SyncCounts'
    BY <1>1, <1>4, <2>1 DEF IInv, Reads, SyncCounts, One
  <2>3. MemoryWhileLoading'
    BY <1>1, <1>4, <1>5, StageIsSame DEF IInv, Reads, MemoryWhileLoading
  <2>4. ASSUME NEW n \in Mips PROVE ReadIsRight(n)' /\ MissingIsKnown(n)'
    <3>1. ReadIsRight(n) /\ MissingIsKnown(n)
      BY DEF IInv, Reads
    <3>2. CASE n = m
      <4>1. ReadIsRight(m)'
        BY <1>1, <1>3, <1>4, <1>5, <2>1, StageIsSame DEF ReadIsRight
      <4>2. MissingIsKnown(m)'
        BY <1>1, <1>3, <1>4, <1>5, StageIsSame DEF MissingIsKnown
      <4> QED BY <3>2, <4>1, <4>2
    <3>3. CASE n # m
      <4>1. ReadIsRight(n)'
        BY <1>1, <1>4, <1>5, <2>1, <3>1, <3>3, StageIsSame DEF ReadIsRight
      <4>2. MissingIsKnown(n)'
        BY <1>1, <1>4, <1>5, <3>1, <3>3, StageIsSame DEF MissingIsKnown
      <4> QED BY <4>1, <4>2
    <3> QED BY <3>2, <3>3
  <2> QED BY <2>2, <2>3, <2>4 DEF Reads
<1>7. TextureIsRight'
  <2>1. TextureWhileEnding'
    BY <1>1, <1>4, <1>5, StageIsSame DEF IInv, TextureIsRight, TextureWhileEnding
  <2>2. PartialIsNotUsed'
    BY <1>1, <1>4, <1>5 DEF IInv, TextureIsRight, PartialIsNotUsed
  <2> QED BY <1>1, <1>4, <1>5, <2>1, <2>2, StageIsSame DEF IInv, TextureIsRight
<1> QED BY <1>1, <1>2, <1>4, <1>6, <1>7, AnswerMoves DEF CancelStays

\* The event of the texture: there is one thing less to wait for.
LEMMA TextureCreatedStep ==
  ASSUME IInv, TextureCreated
  PROVE  IInv'
<1>1. /\ stream.creating /\ stream' = [stream EXCEPT !.creating = FALSE]
      /\ update' = [update EXCEPT !.sync = @ - 1]
      /\ cs' = cs /\ tasks' = tasks /\ asset' = asset /\ pc' = pc
  BY DEF TextureCreated
<1>2. update \in Update /\ stream \in Stream /\ cs \in Lock /\ tasks \in Tasks /\ asset \in Asset
  BY DEF IInv, Types
<1>3. /\ update' \in Update /\ update'.next = update.next
      /\ update'.TaskState = update.TaskState /\ update'.sync = update.sync - 1
      /\ update'.bIsCancelled = update.bIsCancelled /\ update'.bSuccess = update.bSuccess
  <2> SUFFICES ASSUME NEW k \in Int, k = update.sync - 1
               PROVE  /\ update' \in Update /\ update'.next = update.next
                      /\ update'.TaskState = update.TaskState /\ update'.sync = k
                      /\ update'.bIsCancelled = update.bIsCancelled
                      /\ update'.bSuccess = update.bSuccess
    BY <1>2 DEF Update
  <2>1. update' = [update EXCEPT !.sync = k]
    BY <1>1
  <2> QED BY <1>2, <2>1 DEF Update
<1>4. /\ stream' \in Stream /\ ~stream'.creating /\ stream'.read = stream.read
      /\ stream'.ioRequests = stream.ioRequests /\ stream'.memory = stream.memory
      /\ stream'.intermediate = stream.intermediate
      /\ stream'.loaded = stream.loaded /\ stream'.failed = stream.failed
      /\ stream'.bFailedOnIOError = stream.bFailedOnIOError
      /\ stream'.reported = stream.reported /\ stream'.shown = stream.shown
  BY <1>1, <1>2 DEF Stream
<1>5. Where' = Where /\ OwnerIsInside' /\ PlacesTyped'
  BY <1>1 DEF Where, IInv, OwnerIsInside, Types, PlacesTyped
<1>6. Reads'
  <2>1. Unanswered' = Unanswered
    BY <1>1, <1>4 DEF Unanswered
  <2>2. SyncCounts'
    <3>1. Cardinality(Unanswered) \in Nat
      BY UnansweredFinite DEF Unanswered
    <3> QED BY <1>1, <1>3, <1>4, <2>1, <3>1 DEF IInv, Reads, SyncCounts, One
  <2>3. MemoryWhileLoading'
    BY <1>3, <1>4, <1>5, StageIsSame DEF IInv, Reads, MemoryWhileLoading
  <2>4. ASSUME NEW n \in Mips PROVE ReadIsRight(n)' /\ MissingIsKnown(n)'
    <3>1. ReadIsRight(n) /\ MissingIsKnown(n)
      BY DEF IInv, Reads
    <3>2. ReadIsRight(n)'
      BY <1>1, <1>3, <1>4, <1>5, <2>1, <3>1, StageIsSame DEF ReadIsRight
    <3>3. MissingIsKnown(n)'
      BY <1>1, <1>3, <1>4, <1>5, <3>1, StageIsSame DEF MissingIsKnown
    <3> QED BY <3>2, <3>3
  <2> QED BY <2>2, <2>3, <2>4 DEF Reads
<1>7. TextureIsRight'
  <2>1. TextureWhileEnding'
    BY <1>3, <1>4, <1>5, StageIsSame DEF IInv, TextureIsRight, TextureWhileEnding
  <2>2. PartialIsNotUsed'
    BY <1>1, <1>3, <1>4 DEF IInv, TextureIsRight, PartialIsNotUsed
  <2> QED BY <1>1, <1>3, <1>4, <1>5, <2>1, <2>2, StageIsSame DEF IInv, TextureIsRight
<1>8. CancelStays /\ GameStays
  BY <1>1, <1>3 DEF CancelStays, GameStays
<1>9. ReferencesCounted' /\ PendingUntilFinished' /\ AbortedFirst' /\ SuspensionHolds'
  BY <1>1, <1>3, <1>5, <1>8, OthersStand
<1> QED BY <1>1, <1>2, <1>3, <1>4, <1>5, <1>6, <1>7, <1>8, <1>9, OwnerStands

\* Whatever the thread that answers a read does keeps the invariant.
LEMMA ReadThreadStep ==
  ASSUME IInv, NEW m \in Mips, ReadThread(m)
  PROVE  IInv'
<1>1. CASE Tick(m)
  <2>1. m \in Thread
    BY Threads
  <2> QED BY <1>1, <2>1, InUpdateStep DEF InUpdate
<1> QED BY <1>1, ReadEndsStep, AnswerCountedStep, AnswerFailedStep, AnswerEndsStep DEF ReadThread

-----------------------------------------------------------------------------
(* The render command and the pool tasks                                   *)

\* Nothing is concerned but the reads and the texture, by nobody.
LEMMA StreamStands ==
  ASSUME IInv, Where' = Where, cs' = cs, stream' = stream,
         update'.next = update.next, update'.sync = update.sync,
         update'.bSuccess = update.bSuccess, CancelStays,
         \A m \in Mips : pc'[m] = pc[m],
         ~asset'.pending /\ ~asset'.destroying => (asset'.resident <=> update.bSuccess)
  PROVE  Reads' /\ TextureIsRight'
<1>1. StageStands /\ AnswersStand
  BY DEF StageStands, AnswersStand
<1> QED BY <1>1, ReadsStand, TextureStands DEF IInv

\* A task comes, or goes.
LEMMA TaskMoves ==
  ASSUME IInv, NEW t \in {"render", "async", "canceller"}, pc[t] \notin InLock,
         NEW l \in {"idle", "tick", "release"}, l \in LabelsOf(t), Goto(t, l),
         update' = update, cs' = cs, stream' = stream, asset' = asset,
         tasks' \in Tasks, tasks'.cancel = tasks.cancel,
         (PlacesTyped' /\ pc'[t] = l /\ \A s \in Thread : s # t => pc'[s] = pc[s])
           => ReferencesCounted'
  PROVE  IInv'
<1>1. l \notin InLock /\ t \in Thread /\ "cancel" \in InLock
  BY Threads DEF InLock, StepLabels, TickLabels
<1>2. /\ PlacesTyped' /\ OwnerIsInside' /\ Where' = Where
      /\ pc'[t] = l /\ \A s \in Thread : s # t => pc'[s] = pc[s]
  BY <1>1, OutsideMoves
<1>3. /\ pc'["game"] = pc["game"] /\ \A m \in Mips : pc'[m] = pc[m]
      /\ pc'["canceller"] = "cancel" <=> pc["canceller"] = "cancel"
  BY <1>1, <1>2, Threads
<1>4. CancelStays /\ update \in Update /\ stream \in Stream /\ cs \in Lock /\ asset \in Asset
  BY DEF CancelStays, IInv, Types
<1>5. Reads' /\ TextureIsRight'
  BY <1>2, <1>3, <1>4, StreamStands DEF IInv, TextureIsRight
<1>6. PendingUntilFinished' /\ AbortedFirst' /\ SuspensionHolds'
  BY <1>2, <1>3, StageIsSame
     DEF IInv, Progress, PendingUntilFinished, AbortedFirst, SuspensionHolds
<1> QED BY <1>2, <1>4, <1>5, <1>6, OwnerStands

\* What the counters are of
LEMMA Counters ==
  ASSUME Types
  PROVE  /\ tasks.scheduled \in [{"Render", "Async"} -> Nat] /\ tasks.refs \in Nat
         /\ tasks.async \in Nat /\ tasks.cancel \in Nat /\ tasks.render \in Commands
         /\ tasks.alive \in BOOLEAN /\ Cardinality(Ticks(tasks.render)) \in Nat
         /\ tasks.scheduled["Render"] \in Nat /\ tasks.scheduled["Async"] \in Nat
         /\ tasks \in Tasks
<1>1. tasks \in Tasks
  BY DEF Types
<1> QED BY <1>1, TicksFinite DEF Tasks, Commands

\* The counters agree with what waits and what runs.
LEMMA CountersAgree ==
  CountersMatchTasks <=>
    /\ tasks.scheduled["Async"] =
         tasks.async + (IF pc["async"] \in {"idle", "release"} THEN 0 ELSE 1)
    /\ tasks.scheduled["Render"] =
         Cardinality(Ticks(tasks.render)) + (IF pc["render"] \in {"idle", "release"} THEN 0 ELSE 1)
    /\ \A kind \in {"Render", "Async"} : tasks.scheduled[kind] <= 1
BY DEF CountersMatchTasks, Ticks

\* The render thread takes the next command.
LEMMA RenderCommandStep ==
  ASSUME IInv, RenderCommand
  PROVE  IInv'
<1>1. /\ pc["render"] = "idle" /\ tasks.render # << >>
      /\ tasks' = [tasks EXCEPT !.render = Tail(@)]
      /\ Goto("render", IF Head(tasks.render) = "tick" THEN "tick" ELSE "idle")
      /\ update' = update /\ cs' = cs /\ stream' = stream /\ asset' = asset
  BY DEF RenderCommand, At
<1>2. tasks.render \in Commands /\ tasks \in Tasks
  BY Counters DEF IInv
<1>3. /\ Tail(tasks.render) \in Commands
      /\ Cardinality(Ticks(Tail(tasks.render)))
           = Cardinality(Ticks(tasks.render)) - One(Head(tasks.render) = "tick")
  BY <1>1, <1>2, TicksRun
<1>4. /\ tasks' \in Tasks /\ tasks'.render = Tail(tasks.render)
      /\ tasks'.scheduled = tasks.scheduled /\ tasks'.refs = tasks.refs
      /\ tasks'.alive = tasks.alive /\ tasks'.async = tasks.async
      /\ tasks'.cancel = tasks.cancel
  <2> SUFFICES ASSUME NEW c \in Seq({"tick", "fence"}), c = Tail(tasks.render)
               PROVE  /\ tasks' \in Tasks /\ tasks'.render = c
                      /\ tasks'.scheduled = tasks.scheduled /\ tasks'.refs = tasks.refs
                      /\ tasks'.alive = tasks.alive /\ tasks'.async = tasks.async
                      /\ tasks'.cancel = tasks.cancel
    BY <1>3, Zenon DEF Commands
  <2>1. tasks' = [tasks EXCEPT !.render = c]
    BY <1>1
  <2> QED BY <1>2, <2>1 DEF Tasks
<1>5. PICK l \in {"idle", "tick"} : Goto("render", l) /\ (l = "tick" <=> Head(tasks.render) = "tick")
  BY <1>1
<1>6. l \in LabelsOf("render") /\ pc["render"] \notin InLock
  BY <1>1, <1>5, Threads DEF LabelsOf, Labels, TickLabels, InLock, StepLabels
<1>7. ASSUME pc'["render"] = l, \A s \in Thread : s # "render" => pc'[s] = pc[s]
      PROVE  ReferencesCounted'
  <2>1. pc'["async"] = pc["async"] /\ pc'["canceller"] = pc["canceller"]
    BY <1>7, Threads
  <2>2. CountersMatchTasks
    BY DEF IInv, ReferencesCounted
  <2>3. CountersMatchTasks'
    <3>1. /\ tasks'.scheduled["Async"] =
               tasks'.async + (IF pc'["async"] \in {"idle", "release"} THEN 0 ELSE 1)
          /\ tasks'.scheduled["Render"] = Cardinality(Ticks(tasks'.render))
               + (IF pc'["render"] \in {"idle", "release"} THEN 0 ELSE 1)
          /\ \A kind \in {"Render", "Async"} : tasks'.scheduled[kind] <= 1
      BY <1>1, <1>3, <1>4, <1>5, <1>7, <2>1, <2>2, CountersAgree, Counters DEF One, IInv
    <3> QED BY <3>1 DEF CountersMatchTasks, Ticks
  <2> QED BY <1>1, <1>4, <1>5, <1>7, <2>1, <2>3 DEF IInv, ReferencesCounted, One
<1> QED BY <1>1, <1>4, <1>5, <1>6, <1>7, TaskMoves

\* The pool runs FMipUpdateTask.
LEMMA AsyncTaskStep ==
  ASSUME IInv, AsyncTask
  PROVE  IInv'
<1>1. /\ pc["async"] = "idle" /\ tasks.async > 0
      /\ tasks' = [tasks EXCEPT !.async = @ - 1] /\ Goto("async", "tick")
      /\ update' = update /\ cs' = cs /\ stream' = stream /\ asset' = asset
  BY DEF AsyncTask, At
<1>2. tasks.async \in Nat /\ tasks \in Tasks
  BY Counters DEF IInv
<1>3. /\ tasks' \in Tasks /\ tasks'.render = tasks.render
      /\ tasks'.scheduled = tasks.scheduled /\ tasks'.refs = tasks.refs
      /\ tasks'.alive = tasks.alive /\ tasks'.async = tasks.async - 1
      /\ tasks'.cancel = tasks.cancel
  <2> SUFFICES ASSUME NEW n \in Nat, n = tasks.async - 1
               PROVE  /\ tasks' \in Tasks /\ tasks'.render = tasks.render
                      /\ tasks'.scheduled = tasks.scheduled /\ tasks'.refs = tasks.refs
                      /\ tasks'.alive = tasks.alive /\ tasks'.async = n
                      /\ tasks'.cancel = tasks.cancel
    BY <1>1, <1>2
  <2>1. tasks' = [tasks EXCEPT !.async = n]
    BY <1>1
  <2> QED BY <1>2, <2>1 DEF Tasks
<1>4. "tick" \in LabelsOf("async") /\ pc["async"] \notin InLock
  BY <1>1, Threads DEF LabelsOf, Labels, TickLabels, InLock, StepLabels
<1>5. ASSUME pc'["async"] = "tick", \A s \in Thread : s # "async" => pc'[s] = pc[s]
      PROVE  ReferencesCounted'
  <2>1. pc'["render"] = pc["render"] /\ pc'["canceller"] = pc["canceller"]
    BY <1>5, Threads
  <2>2. CountersMatchTasks
    BY DEF IInv, ReferencesCounted
  <2>3. CountersMatchTasks'
    <3>1. /\ tasks'.scheduled["Async"] =
               tasks'.async + (IF pc'["async"] \in {"idle", "release"} THEN 0 ELSE 1)
          /\ tasks'.scheduled["Render"] = Cardinality(Ticks(tasks'.render))
               + (IF pc'["render"] \in {"idle", "release"} THEN 0 ELSE 1)
          /\ \A kind \in {"Render", "Async"} : tasks'.scheduled[kind] <= 1
      BY <1>1, <1>2, <1>3, <1>5, <2>1, <2>2, CountersAgree
    <3> QED BY <3>1 DEF CountersMatchTasks, Ticks
  <2> QED BY <1>1, <1>3, <1>5, <2>1, <2>3 DEF IInv, ReferencesCounted, One
<1> QED BY <1>1, <1>3, <1>4, <1>5, TaskMoves

\* A task that counts itself off still has its reference.
LEMMA TaskCountedStep ==
  ASSUME IInv, NEW t \in Thread, TaskCounted(t)
  PROVE  IInv'
<1>1. PICK kind \in {"Render", "Async"} :
        /\ t \in {"render", "async"} /\ pc[t] = "ticked" /\ kind = TickingAs(t)
        /\ kind = "Render" <=> t = "render"
        /\ tasks' = [tasks EXCEPT !.scheduled[kind] = @ - 1] /\ Goto(t, "release")
        /\ update' = update /\ cs' = cs /\ stream' = stream /\ asset' = asset
  BY DEF TaskCounted, At, CountedOff, TickingAs
<1> DEFINE counters == [tasks.scheduled EXCEPT ![kind] = @ - 1]
<1>2. /\ tasks \in Tasks /\ tasks.scheduled \in [{"Render", "Async"} -> Nat]
      /\ tasks.async \in Nat /\ Cardinality(Ticks(tasks.render)) \in Nat
  BY Counters DEF IInv
<1>3. tasks.scheduled[kind] \in Nat \ {0}
  BY <1>1, <1>2, CountersAgree DEF IInv, ReferencesCounted
<1>4. /\ counters \in [{"Render", "Async"} -> Nat] /\ counters[kind] = tasks.scheduled[kind] - 1
      /\ \A k \in {"Render", "Async"} : k # kind => counters[k] = tasks.scheduled[k]
  BY <1>2, <1>3
<1>5. tasks' = [tasks EXCEPT !.scheduled = counters]
  BY <1>1
<1> HIDE DEF counters
<1>6. /\ tasks' \in Tasks /\ tasks'.render = tasks.render
      /\ tasks'.scheduled = counters /\ tasks'.refs = tasks.refs
      /\ tasks'.alive = tasks.alive /\ tasks'.async = tasks.async
      /\ tasks'.cancel = tasks.cancel
  BY <1>2, <1>4, <1>5 DEF Tasks
<1>7. /\ "release" \in LabelsOf(t) /\ pc[t] \notin InLock
      /\ t \in {"render", "async", "canceller"}
  BY <1>1, Threads DEF LabelsOf, InLock, StepLabels, TickLabels
<1>8. ASSUME pc'[t] = "release", \A s \in Thread : s # t => pc'[s] = pc[s]
      PROVE  ReferencesCounted'
  <2>1. \A s \in {"render", "async", "canceller"} : s # t => pc'[s] = pc[s]
    BY <1>8, Threads
  <2>2. CountersMatchTasks
    BY DEF IInv, ReferencesCounted
  <2>3. CountersMatchTasks'
    <3>1. /\ tasks'.scheduled["Async"] =
               tasks'.async + (IF pc'["async"] \in {"idle", "release"} THEN 0 ELSE 1)
          /\ tasks'.scheduled["Render"] = Cardinality(Ticks(tasks'.render))
               + (IF pc'["render"] \in {"idle", "release"} THEN 0 ELSE 1)
          /\ \A k \in {"Render", "Async"} : tasks'.scheduled[k] <= 1
      <4>1. CASE t = "render"
        <5>1. /\ pc["render"] = "ticked" /\ pc'["render"] = "release" /\ pc'["async"] = pc["async"]
              /\ counters["Render"] = tasks.scheduled["Render"] - 1
              /\ counters["Async"] = tasks.scheduled["Async"]
          BY <1>1, <1>4, <1>8, <2>1, <4>1
        <5> QED BY <1>2, <1>6, <2>2, <5>1, CountersAgree
      <4>2. CASE t = "async"
        BY <1>1, <1>2, <1>4, <1>6, <1>8, <2>1, <2>2, <4>2, CountersAgree
      <4> QED BY <1>1, <4>1, <4>2
    <3> QED BY <3>1 DEF CountersMatchTasks, Ticks
  <2>4. tasks'.scheduled["Render"] + One(pc'["render"] = "release")
          + tasks'.scheduled["Async"] + One(pc'["async"] = "release")
        = tasks.scheduled["Render"] + One(pc["render"] = "release")
          + tasks.scheduled["Async"] + One(pc["async"] = "release")
    BY <1>1, <1>2, <1>4, <1>6, <1>8, <2>1 DEF One
  <2>5. /\ pc'["canceller"] = pc["canceller"] /\ asset' = asset
        /\ tasks.refs =
             One(asset.pending) + tasks.cancel + One(pc["canceller"] # "idle")
               + tasks.scheduled["Render"] + One(pc["render"] = "release")
               + tasks.scheduled["Async"] + One(pc["async"] = "release")
        /\ tasks.alive <=> tasks.refs > 0
        /\ One(asset.pending) \in Nat /\ tasks.cancel \in Nat
        /\ One(pc["canceller"] # "idle") \in Nat
    BY <1>1, <2>1, Counters DEF One, IInv, ReferencesCounted
  <2>6. tasks'.refs =
          One(asset'.pending) + tasks'.cancel + One(pc'["canceller"] # "idle")
            + tasks'.scheduled["Render"] + One(pc'["render"] = "release")
            + tasks'.scheduled["Async"] + One(pc'["async"] = "release")
    BY <1>1, <1>2, <1>4, <1>6, <1>8, <2>1, <2>5 DEF One
  <2> QED BY <1>6, <2>3, <2>5, <2>6 DEF ReferencesCounted
<1> QED BY <1>1, <1>6, <1>7, <1>8, TaskMoves

\* An update that is finished has nothing left, and nobody answers it.
LEMMA FinishedHasNothing ==
  ASSUME IInv, Finished
  PROVE  /\ \A m \in Mips : stream.read[m] = "none" /\ pc[m] = "idle"
         /\ update.sync = 0 /\ ~stream.creating /\ ~stream.memory
         /\ stream.intermediate = "none" /\ stream.ioRequests = {}
<1>1. ~Requesting /\ ~Loading /\ ~Creating /\ ~Ending /\ ~Finishing
  BY Nexts DEF Finished, InStep, StepLabels, Requesting, Loading, Creating, Ending, Finishing
<1>2. \A m \in Mips : stream.read[m] = "none" /\ pc[m] = "idle"
  BY <1>1 DEF IInv, Reads, ReadIsRight
<1>3. Unanswered = {}
  BY <1>2 DEF Unanswered
<1>4. ~stream.creating /\ stream.intermediate = "none"
  BY <1>1, Nexts DEF IInv, TextureIsRight, TextureWhileEnding, Ending, Finishing
<1>5. update.sync = 0
  BY <1>3, <1>4, FS_EmptySet DEF IInv, Reads, SyncCounts, One
<1>6. ~stream.memory
  BY <1>1, Nexts DEF IInv, Reads, MemoryWhileLoading, Ending, Finishing
<1>7. stream.ioRequests = {}
  BY <1>2 DEF IInv, Reads, ReadIsRight, Types, Stream
<1> QED BY <1>2, <1>4, <1>5, <1>6, <1>7

\* When nobody but a task that lets go of the update has a reference, the lock
\* is free and the update is done.
LEMMA NobodyElse ==
  ASSUME IInv, ~asset.pending,
         \A t \in {"render", "async", "canceller"} : pc[t] \in {"idle", "release"}
  PROVE  Where = "free" /\ cs.owner = NoThread /\ Finished /\ update.TaskState = "Done"
<1>1. Finished
  BY DEF IInv, Progress, PendingUntilFinished
<1>2. pc["game"] \notin InLock
  <2>1. pc["game"] \notin Labels /\ pc["game"] \in LabelsOf("game")
    BY Threads DEF IInv, Progress, PendingUntilFinished, Types, PlacesTyped
  <2>2. pc["game"] \in {"idle"} \cup GameLabels \cup Labels
    BY <2>1, Threads DEF LabelsOf
  <2> QED BY <2>1, <2>2 DEF GameLabels, InLock, StepLabels, TickLabels
<1>3. \A t \in Thread : pc[t] \notin InLock
  BY <1>1, <1>2, FinishedHasNothing DEF Thread, Workers, InLock, StepLabels, TickLabels
<1>4. cs.owner = NoThread
  BY <1>3 DEF IInv, OwnerIsInside, Types, Lock
<1>5. Where = "free"
  BY <1>4 DEF Where
<1> QED BY <1>1, <1>4, <1>5 DEF IInv, Progress, DoneMeansFinished

\* A task lets go of the update, which is deleted only when it is done.
LEMMA TaskReleasesStep ==
  ASSUME IInv, NEW t \in Thread, TaskReleases(t)
  PROVE  IInv'
<1>1. /\ t \in {"render", "async", "canceller"} /\ pc[t] = "release"
      /\ tasks' = Released /\ Goto(t, "idle")
      /\ update' = update /\ cs' = cs /\ stream' = stream /\ asset' = asset
  BY DEF TaskReleases, At
<1>2. /\ tasks \in Tasks /\ tasks.refs \in Nat /\ tasks.cancel \in Nat
      /\ tasks.scheduled["Render"] \in Nat /\ tasks.scheduled["Async"] \in Nat
      /\ tasks.async \in Nat /\ Cardinality(Ticks(tasks.render)) \in Nat
  BY Counters DEF IInv
<1>3. /\ CountersMatchTasks
      /\ tasks.refs =
           One(asset.pending) + tasks.cancel + One(pc["canceller"] # "idle")
             + tasks.scheduled["Render"] + One(pc["render"] = "release")
             + tasks.scheduled["Async"] + One(pc["async"] = "release")
      /\ tasks.alive <=> tasks.refs > 0
  BY DEF IInv, ReferencesCounted
<1>4. tasks.refs > 0
  BY <1>1, <1>2, <1>3 DEF One
<1>5. tasks.refs = 1 => update.TaskState = "Done" /\ update.sync = 0
  <2> SUFFICES ASSUME tasks.refs = 1
               PROVE  update.TaskState = "Done" /\ update.sync = 0
    OBVIOUS
  <2>1. /\ ~asset.pending
        /\ tasks.scheduled["Render"] = 0 /\ tasks.scheduled["Async"] = 0
        /\ t # "canceller" => pc["canceller"] = "idle"
    BY <1>1, <1>2, <1>3 DEF One
  <2>2. pc["render"] \in {"idle", "release"} /\ pc["async"] \in {"idle", "release"}
    BY <1>2, <1>3, <2>1, CountersAgree
  <2>3. \A s \in {"render", "async", "canceller"} : pc[s] \in {"idle", "release"}
    BY <1>1, <2>1, <2>2
  <2> QED BY <2>1, <2>3, NobodyElse, FinishedHasNothing
<1>6. /\ tasks' \in Tasks /\ tasks'.render = tasks.render
      /\ tasks'.scheduled = tasks.scheduled /\ tasks'.refs = tasks.refs - 1
      /\ tasks'.alive <=> tasks.refs # 1
      /\ tasks'.async = tasks.async
      /\ tasks'.cancel = tasks.cancel
  <2>0. tasks.refs - 1 \in Nat /\ (tasks.refs # 1) \in BOOLEAN
    BY <1>2, <1>4
  <2> SUFFICES ASSUME NEW n \in Nat, n = tasks.refs - 1, NEW b \in BOOLEAN, b = (tasks.refs # 1)
               PROVE  /\ tasks' \in Tasks /\ tasks'.render = tasks.render
                      /\ tasks'.scheduled = tasks.scheduled /\ tasks'.refs = n
                      /\ tasks'.alive = b
                      /\ tasks'.async = tasks.async
                      /\ tasks'.cancel = tasks.cancel
    BY <2>0, Zenon
  <2>1. b = ~(tasks.refs = 1 /\ update.TaskState = "Done" /\ update.sync = 0)
    BY <1>5
  <2>2. tasks' = [tasks EXCEPT !.refs = n, !.alive = b]
    BY <1>1, <2>1 DEF Released
  <2> QED BY <1>2, <2>2 DEF Tasks
<1>7. "idle" \in LabelsOf(t) /\ pc[t] \notin InLock
  BY <1>1, Threads DEF LabelsOf, InLock, StepLabels, TickLabels
<1>8. ASSUME pc'[t] = "idle", \A s \in Thread : s # t => pc'[s] = pc[s]
      PROVE  ReferencesCounted'
  <2>1. \A s \in {"render", "async", "canceller"} : s # t => pc'[s] = pc[s]
    BY <1>8, Threads
  <2>2. CountersMatchTasks'
    BY <1>1, <1>3, <1>6, <1>8, <2>1 DEF CountersMatchTasks
  <2>3. tasks'.refs =
          One(asset'.pending) + tasks'.cancel + One(pc'["canceller"] # "idle")
            + tasks'.scheduled["Render"] + One(pc'["render"] = "release")
            + tasks'.scheduled["Async"] + One(pc'["async"] = "release")
    <3>1. CASE t = "render"
      <4>1. pc'["canceller"] = pc["canceller"] /\ pc'["async"] = pc["async"]
        BY <2>1, <3>1
      <4> QED BY <1>1, <1>2, <1>3, <1>6, <1>8, <3>1, <4>1 DEF One
    <3>2. CASE t = "async"
      <4>1. pc'["canceller"] = pc["canceller"] /\ pc'["render"] = pc["render"]
        BY <2>1, <3>2
      <4> QED BY <1>1, <1>2, <1>3, <1>6, <1>8, <3>2, <4>1 DEF One
    <3>3. CASE t = "canceller"
      <4>1. pc'["render"] = pc["render"] /\ pc'["async"] = pc["async"]
        BY <2>1, <3>3
      <4> QED BY <1>1, <1>2, <1>3, <1>6, <1>8, <3>3, <4>1 DEF One
    <3> QED BY <1>1, <3>1, <3>2, <3>3
  <2>4. tasks'.alive <=> tasks'.refs > 0
    BY <1>2, <1>4, <1>6
  <2> QED BY <2>2, <2>3, <2>4 DEF ReferencesCounted
<1> QED BY <1>1, <1>6, <1>7, <1>8, TaskMoves

-----------------------------------------------------------------------------
(* The task that cancels the reads                                         *)

\* FCancelIORequestsTask takes the lock and keeps TaskState, or puts it back.
LEMMA CancellerMoves ==
  ASSUME IInv, PlacesTyped', OwnerIsInside',
         \A s \in Thread : s # "canceller" => pc'[s] = pc[s],
         \/ Where = "free" /\ Where' = "cancel"
         \/ Where = "cancel" /\ Where' = "free",
         cs' \in Lock, update' \in Update, update'.next = update.next,
         update'.sync = update.sync, update'.bIsCancelled = update.bIsCancelled,
         update'.bSuccess = update.bSuccess,
         stream' = stream, asset' = asset, tasks' \in Tasks, ReferencesCounted',
         AbortedFirst', LockedInside', DoneMeansFinished'
  PROVE  IInv'
<1>1. /\ pc'["game"] = pc["game"] /\ \A m \in Mips : pc'[m] = pc[m]
  BY Threads
<1>2. /\ ~InStep /\ ~InStep' /\ StageStands /\ CancelStays /\ AnswersStand /\ GameStays
      /\ Where' \notin {"choose", "decide"}
  BY <1>1 DEF InStep, StepLabels, StageStands, CancelStays, AnswersStand, GameStays
<1>3. Reads' /\ TextureIsRight'
  <2>1. ~asset.pending /\ ~asset.destroying => (asset.resident <=> update.bSuccess)
    BY DEF IInv, TextureIsRight
  <2> QED BY <1>2, <2>1, ReadsStand, TextureStands DEF IInv
<1>4. SuspensionHolds'
  BY <1>2, SuspensionStands DEF IInv
<1>5. Types'
  BY DEF IInv, Types
<1>6. StepIsNext'
  BY <1>2 DEF IInv, Progress, StepIsNext, Creating, StepLabels
<1>7. PendingUntilFinished'
  BY <1>1, <1>2 DEF IInv, Progress, PendingUntilFinished, Finished
<1> QED BY <1>3, <1>4, <1>5, <1>6, <1>7 DEF IInv, Progress

\* DoLock
LEMMA CancelTaskStep ==
  ASSUME IInv, CancelTask
  PROVE  IInv'
<1>1. /\ pc["canceller"] = "idle" /\ tasks.cancel > 0 /\ cs.owner = NoThread
      /\ tasks' = [tasks EXCEPT !.cancel = @ - 1]
      /\ cs' = [Unlocked EXCEPT !.owner = "canceller", !.left = Mips,
                                !.result = update.TaskState]
      /\ update' = [update EXCEPT !.TaskState = "Locked"]
      /\ Goto("canceller", "cancel") /\ stream' = stream /\ asset' = asset
  BY DEF CancelTask, At
<1>2. update \in Update /\ tasks \in Tasks /\ tasks.cancel \in Nat
  BY Counters DEF IInv, Types
<1>3. Where = "free"
  BY <1>1 DEF Where
<1>4. "cancel" \in LabelsOf("canceller")
  BY Threads DEF LabelsOf
<1>5. PlacesTyped' /\ pc'["canceller"] = "cancel"
      /\ \A s \in Thread : s # "canceller" => pc'[s] = pc[s]
  BY <1>1, <1>4, Goes, Threads DEF IInv
<1>6. /\ cs' \in Lock /\ cs'.owner = "canceller" /\ cs'.result = update.TaskState
  BY <1>1, <1>2, Threads DEF Unlocked, Lock, Update
<1>7. Where' = "cancel"
  BY <1>5, <1>6, Threads DEF Where
<1>8. OwnerIsInside'
  <2>1. \A s \in Thread : pc[s] \notin InLock
    BY <1>1, Threads DEF IInv, OwnerIsInside
  <2> QED BY <1>5, <1>6, <2>1 DEF OwnerIsInside, InLock
<1>9. /\ update' \in Update /\ update'.next = update.next /\ update'.TaskState = "Locked"
      /\ update'.sync = update.sync /\ update'.bIsCancelled = update.bIsCancelled
      /\ update'.bSuccess = update.bSuccess
  BY <1>1, <1>2 DEF Update, TaskStates
<1>10. /\ tasks' \in Tasks /\ tasks'.render = tasks.render
       /\ tasks'.scheduled = tasks.scheduled /\ tasks'.refs = tasks.refs
       /\ tasks'.alive = tasks.alive /\ tasks'.async = tasks.async
       /\ tasks'.cancel = tasks.cancel - 1
  <2> SUFFICES ASSUME NEW n \in Nat, n = tasks.cancel - 1
               PROVE  /\ tasks' \in Tasks /\ tasks'.render = tasks.render
                      /\ tasks'.scheduled = tasks.scheduled /\ tasks'.refs = tasks.refs
                      /\ tasks'.alive = tasks.alive /\ tasks'.async = tasks.async
                      /\ tasks'.cancel = n
    BY <1>1, <1>2
  <2>1. tasks' = [tasks EXCEPT !.cancel = n]
    BY <1>1
  <2> QED BY <1>2, <2>1 DEF Tasks
<1>11. pc'["render"] = pc["render"] /\ pc'["async"] = pc["async"] /\ pc'["game"] = pc["game"]
  BY <1>5, Threads
<1>12. ReferencesCounted'
  <2>1. CountersMatchTasks'
    BY <1>10, <1>11 DEF IInv, ReferencesCounted, CountersMatchTasks
  <2> QED BY <1>1, <1>2, <1>5, <1>10, <1>11, <2>1, Counters DEF IInv, ReferencesCounted, One
<1>13. AbortedFirst'
  BY <1>1, <1>2, <1>9, <1>10, <1>11 DEF IInv, Progress, AbortedFirst
<1>14. LockedInside'
  BY <1>7, <1>9 DEF LockedInside
<1>15. DoneMeansFinished'
  <2>1. update.TaskState \in TaskStates /\ update.TaskState # "Locked"
    BY <1>2, <1>3 DEF IInv, Progress, LockedInside, InStep, StepLabels, Update
  <2>2. Finished' <=> Finished
    BY <1>3, <1>7, <1>9 DEF Finished, InStep, StepLabels
  <2> QED BY <1>3, <1>6, <1>7, <2>1, <2>2 DEF IInv, Progress, DoneMeansFinished
<1> QED BY <1>1, <1>3, <1>5, <1>6, <1>7, <1>8, <1>9, <1>10, <1>12, <1>13, <1>14, <1>15,
        CancellerMoves

\* DoUnlock
LEMMA CancelTaskUnlockStep ==
  ASSUME IInv, CancelTaskUnlock
  PROVE  IInv'
<1>1. /\ pc["canceller"] = "cancel" /\ cs' = Unlocked
      /\ update' = [update EXCEPT !.TaskState = cs.result]
      /\ Goto("canceller", "release") /\ tasks' = tasks /\ stream' = stream /\ asset' = asset
  BY DEF CancelTaskUnlock, At
<1>2. update \in Update /\ tasks \in Tasks
  BY DEF IInv, Types
<1>3. cs.owner = "canceller" /\ Where = "cancel"
  BY <1>1, Threads DEF IInv, OwnerIsInside, InLock, Where
<1>4. "release" \in LabelsOf("canceller") /\ "release" \notin InLock
  BY Threads DEF LabelsOf, InLock, StepLabels, TickLabels
<1>5. PlacesTyped' /\ pc'["canceller"] = "release"
      /\ \A s \in Thread : s # "canceller" => pc'[s] = pc[s]
  BY <1>1, <1>4, Goes, Threads DEF IInv
<1>6. cs' \in Lock /\ cs'.owner = NoThread /\ Where' = "free"
  BY <1>1 DEF Unlocked, Lock, Where
<1>7. OwnerIsInside'
  BY <1>3, <1>4, <1>5, <1>6, Threads DEF IInv, OwnerIsInside
<1>8. cs.result \in TaskStates \ {"Locked"} /\ (cs.result = "Done" <=> Finished)
  BY <1>3 DEF IInv, Progress, DoneMeansFinished
<1>9. /\ update' \in Update /\ update'.next = update.next /\ update'.TaskState = cs.result
      /\ update'.sync = update.sync /\ update'.bIsCancelled = update.bIsCancelled
      /\ update'.bSuccess = update.bSuccess
  BY <1>1, <1>2, <1>8 DEF Update
<1>10. pc'["render"] = pc["render"] /\ pc'["async"] = pc["async"] /\ pc'["game"] = pc["game"]
  BY <1>5, Threads
<1>11. ReferencesCounted'
  <2>1. CountersMatchTasks'
    BY <1>1, <1>10 DEF IInv, ReferencesCounted, CountersMatchTasks
  <2> QED BY <1>1, <1>5, <1>10, <2>1 DEF IInv, ReferencesCounted, One
<1>12. AbortedFirst'
  BY <1>1, <1>5, <1>9, <1>10 DEF IInv, Progress, AbortedFirst
<1>13. LockedInside'
  BY <1>6, <1>8, <1>9 DEF LockedInside, InStep, StepLabels
<1>14. DoneMeansFinished'
  <2>1. Finished' <=> Finished
    BY <1>3, <1>6, <1>9 DEF Finished, InStep, StepLabels
  <2> QED BY <1>6, <1>8, <1>9, <2>1 DEF DoneMeansFinished
<1> QED BY <1>1, <1>2, <1>3, <1>5, <1>6, <1>7, <1>9, <1>11, <1>12, <1>13, <1>14,
        CancellerMoves

\* A read is cancelled by the task: it is still to be answered, or its callback
\* ran, and may have had the next step scheduled.
LEMMA CancelRequestStep ==
  ASSUME IInv, CancelRequest
  PROVE  IInv'
<1>1. pc["canceller"] = "cancel" /\ NestedTick /\ asset' = asset /\ pc' = pc
  BY DEF CancelRequest, At
<1>2. PICK m \in cs.left :
        /\ \/ /\ m \in stream.ioRequests /\ stream.read[m] = "reading"
              /\ CancelRead(stream, m)
           \/ update' = update /\ stream' = stream
        /\ cs' = [cs EXCEPT !.left = @ \ {m}]
  BY DEF CancelRequest
<1>3. /\ update \in Update /\ cs \in Lock /\ stream \in Stream /\ tasks \in Tasks
      /\ asset \in Asset /\ PlacesTyped
  BY DEF IInv, Types
<1>4. cs.owner = "canceller" /\ Where = "cancel" /\ update.bIsCancelled
  BY <1>1, Threads DEF IInv, OwnerIsInside, InLock, Where, Progress, AbortedFirst
<1>5. /\ cs' \in Lock /\ cs'.owner = cs.owner /\ cs'.step = cs.step
      /\ cs'.result = cs.result /\ cs'.checkForSuspension = cs.checkForSuspension
      /\ m \in Mips
  <2>1. cs.left \ {m} \in SUBSET Mips /\ m \in Mips
    BY <1>2, <1>3 DEF Lock
  <2> QED BY <1>2, <1>3, <2>1 DEF Lock
<1>6. Where' = Where /\ OwnerIsInside' /\ PlacesTyped'
  BY <1>1, <1>3, <1>5 DEF Where, IInv, OwnerIsInside, PlacesTyped
<1>7. PICK n \in {0, 1} :
        /\ n = 1 => stream.read[m] = "reading" /\ stream'.read[m] = "complete"
        /\ n = 0 => \/ stream'.read[m] = stream.read[m]
                    \/ stream.read[m] = "reading" /\ stream'.read[m] = "cancelling"
        /\ update' \in Update /\ update'.next = update.next
        /\ update'.TaskState = update.TaskState /\ update'.sync = update.sync - n
        /\ update'.bIsCancelled /\ update'.bSuccess = update.bSuccess
        /\ stream' \in Stream /\ \A k \in Mips : k # m => stream'.read[k] = stream.read[k]
        /\ stream'.ioRequests = stream.ioRequests /\ stream'.memory = stream.memory
        /\ stream'.creating = stream.creating /\ stream'.intermediate = stream.intermediate
        /\ stream'.loaded = stream.loaded /\ stream'.failed = stream.failed
        /\ stream'.bFailedOnIOError = stream.bFailedOnIOError
        /\ stream'.reported = stream.reported /\ stream'.shown = stream.shown
  <2>1. CASE update' = update /\ stream' = stream
    BY <1>3, <1>4, <2>1 DEF Update
  <2>2. CASE /\ stream.read[m] = "reading" /\ update' = update
             /\ stream' = [stream EXCEPT !.read[m] = "cancelling"]
    <3>1. /\ stream' \in Stream /\ stream'.read[m] = "cancelling"
          /\ \A k \in Mips : k # m => stream'.read[k] = stream.read[k]
          /\ stream'.ioRequests = stream.ioRequests /\ stream'.memory = stream.memory
          /\ stream'.creating = stream.creating /\ stream'.intermediate = stream.intermediate
          /\ stream'.loaded = stream.loaded /\ stream'.failed = stream.failed
          /\ stream'.bFailedOnIOError = stream.bFailedOnIOError
          /\ stream'.reported = stream.reported /\ stream'.shown = stream.shown
      BY <1>3, <1>5, <2>2 DEF Stream
    <3>2. update'.sync = update.sync - 0
      BY <1>3, <2>2 DEF Update
    <3> QED BY <1>3, <1>4, <2>2, <3>1, <3>2
  <2>3. CASE /\ stream.read[m] = "reading"
             /\ stream' = [stream EXCEPT !.read[m] = "complete", !.bFailedOnIOError = IOError]
             /\ update' = [update EXCEPT !.sync = @ - 1, !.bIsCancelled = TRUE]
    <3>1. stream' = [stream EXCEPT !.read[m] = "complete"]
      BY <1>3, <1>4, <2>3 DEF IOError, Stream
    <3>2. /\ stream' \in Stream /\ stream'.read[m] = "complete"
          /\ \A k \in Mips : k # m => stream'.read[k] = stream.read[k]
          /\ stream'.ioRequests = stream.ioRequests /\ stream'.memory = stream.memory
          /\ stream'.creating = stream.creating /\ stream'.intermediate = stream.intermediate
          /\ stream'.loaded = stream.loaded /\ stream'.failed = stream.failed
          /\ stream'.bFailedOnIOError = stream.bFailedOnIOError
          /\ stream'.reported = stream.reported /\ stream'.shown = stream.shown
      BY <1>3, <1>5, <3>1 DEF Stream
    <3>3. /\ update' \in Update /\ update'.next = update.next
          /\ update'.TaskState = update.TaskState /\ update'.sync = update.sync - 1
          /\ update'.bIsCancelled /\ update'.bSuccess = update.bSuccess
      <4> SUFFICES ASSUME NEW k \in Int, k = update.sync - 1
                   PROVE  /\ update' \in Update /\ update'.next = update.next
                          /\ update'.TaskState = update.TaskState /\ update'.sync = k
                          /\ update'.bIsCancelled /\ update'.bSuccess = update.bSuccess
        BY <1>3 DEF Update
      <4>1. update' = [update EXCEPT !.sync = k, !.bIsCancelled = TRUE]
        BY <2>3
      <4> QED BY <1>3, <4>1 DEF Update
    <3> QED BY <2>3, <3>2, <3>3
  <2> QED BY <1>2, <2>1, <2>2, <2>3 DEF CancelRead
<1>8. Reads'
  <2>1. ReadIsRight(m)
    BY <1>5 DEF IInv, Reads
  <2>2. SyncCounts'
    <3>1. CASE n = 0
      <4>1. Unanswered' = Unanswered
        BY <1>1, <1>7, <3>1 DEF Unanswered
      <4>2. update'.sync = update.sync
        BY <1>3, <1>7, <3>1 DEF Update
      <4> QED BY <1>7, <4>1, <4>2 DEF IInv, Reads, SyncCounts, One
    <3>2. CASE n = 1
      <4>1. Unanswered' = Unanswered \ {m} /\ m \in Unanswered
        BY <1>1, <1>5, <1>7, <2>1, <3>2 DEF Unanswered, ReadIsRight
      <4>2. Cardinality(Unanswered') = Cardinality(Unanswered) - 1
            /\ Cardinality(Unanswered) \in Nat
        BY <1>5, <4>1, UnansweredFinite DEF Unanswered
      <4> QED BY <1>7, <3>2, <4>2 DEF IInv, Reads, SyncCounts, One
    <3> QED BY <3>1, <3>2
  <2>3. MemoryWhileLoading'
    BY <1>4, <1>6, <1>7, StageIsSame DEF IInv, Reads, MemoryWhileLoading
  <2>4. Unanswered' \subseteq Unanswered
    BY <1>1, <1>7 DEF Unanswered
  <2>5. ASSUME NEW k \in Mips PROVE ReadIsRight(k)' /\ MissingIsKnown(k)'
    <3>1. ReadIsRight(k)
      BY DEF IInv, Reads
    <3>2. MissingIsKnown(k)'
      BY <1>7 DEF MissingIsKnown
    <3>3. ~Requesting /\ ~Creating /\ ~Ending
      BY <1>4 DEF Requesting, Creating, Ending
    <3>4. ReadIsRight(k)'
      <4>1. CASE k = m
        BY <1>1, <1>4, <1>6, <1>7, <2>4, <3>1, <3>3, <4>1, StageIsSame DEF ReadIsRight
      <4>2. CASE k # m
        BY <1>1, <1>4, <1>6, <1>7, <2>4, <3>1, <3>3, <4>2, StageIsSame DEF ReadIsRight
      <4> QED BY <4>1, <4>2
    <3> QED BY <3>2, <3>4
  <2> QED BY <2>2, <2>3, <2>5 DEF Reads
<1>9. TextureIsRight'
  <2>1. TextureWhileEnding'
    BY <1>4, <1>6, <1>7, StageIsSame DEF IInv, TextureIsRight, TextureWhileEnding
  <2>2. PartialIsNotUsed'
    BY <1>7 DEF PartialIsNotUsed
  <2> QED BY <1>1, <1>6, <1>7, <2>1, <2>2, StageIsSame DEF IInv, TextureIsRight
<1>10. tasks' \in Tasks /\ ReferencesCounted' /\ tasks'.cancel = tasks.cancel
  <2>1. CASE tasks' = tasks
    <3>1. PlacesStand
      BY <1>1 DEF PlacesStand
    <3> QED BY <1>1, <1>3, <2>1, <3>1, RefsStand DEF IInv
  <2>2. CASE tasks' = Scheduled(ThreadOf(update.next.cancel)) /\ MustSchedule(update.next.cancel)
    <3>1. PlacesStand
      BY <1>1 DEF PlacesStand
    <3>2. /\ ThreadOf(update.next.cancel) \in {"Render", "Async"}
          /\ tasks.scheduled[ThreadOf(update.next.cancel)] = 0
      BY <2>2 DEF MustSchedule, ThreadOf
    <3>3. tasks.refs > 0
      BY <1>1, Counters DEF IInv, ReferencesCounted, One
    <3> QED BY <1>1, <2>2, <3>1, <3>2, <3>3, ScheduledCounted DEF IInv
  <2> QED BY <1>1, <2>1, <2>2 DEF NestedTick
<1>11. PendingUntilFinished' /\ AbortedFirst' /\ SuspensionHolds'
  BY <1>1, <1>4, <1>5, <1>6, <1>7, <1>10, StageIsSame
     DEF IInv, Progress, PendingUntilFinished, AbortedFirst, SuspensionHolds
<1> QED BY <1>1, <1>3, <1>4, <1>5, <1>6, <1>7, <1>8, <1>9, <1>10, <1>11, OwnerStands
        DEF CancelStays

\* Whatever the task that cancels the reads does keeps the invariant.
LEMMA CancelThreadStep ==
  ASSUME IInv, CancelThread
  PROVE  IInv'
BY CancelTaskStep, CancelRequestStep, CancelTaskUnlockStep, TaskReleasesStep, Threads
   DEF CancelThread

-----------------------------------------------------------------------------
(* The game thread                                                         *)

\* The game thread goes on, outside of the lock.
LEMMA GameMoves ==
  ASSUME IInv, pc["game"] \notin InLock, NEW l \in {"idle", "tick"} \cup GameLabels,
         Goto("game", l), cs' = cs, stream' = stream,
         update' \in Update, update'.next = update.next,
         update'.TaskState = update.TaskState, update'.sync = update.sync,
         update'.bSuccess = update.bSuccess, CancelStays,
         tasks' \in Tasks, asset' \in Asset,
         ~asset'.pending /\ ~asset'.destroying => (asset'.resident <=> update.bSuccess),
         (/\ pc'["game"] = l /\ Where' = Where
          /\ \A t \in {"render", "async", "canceller"} : pc'[t] = pc[t])
           => ReferencesCounted' /\ PendingUntilFinished' /\ AbortedFirst' /\ SuspensionHolds'
  PROVE  IInv'
<1>1. l \in LabelsOf("game") /\ l \notin InLock /\ "game" \in Thread
  BY Threads DEF LabelsOf, Labels, InLock, StepLabels, TickLabels, GameLabels
<1>2. /\ PlacesTyped' /\ OwnerIsInside' /\ Where' = Where
      /\ pc'["game"] = l /\ \A s \in Thread : s # "game" => pc'[s] = pc[s]
  BY <1>1, OutsideMoves
<1>3. /\ \A t \in {"render", "async", "canceller"} : pc'[t] = pc[t]
      /\ \A m \in Mips : pc'[m] = pc[m]
  BY <1>2, Threads
<1>4. Reads' /\ TextureIsRight'
  BY <1>2, <1>3, StreamStands
<1>5. stream \in Stream /\ cs \in Lock
  BY DEF IInv, Types
<1> QED BY <1>2, <1>3, <1>4, <1>5, OwnerStands

\* The references are those of the asset and the tasks.
LEMMA GameRefs ==
  ASSUME ReferencesCounted, Ticks(tasks'.render) = Ticks(tasks.render),
         tasks'.scheduled = tasks.scheduled, tasks'.refs = tasks.refs,
         tasks'.alive = tasks.alive, tasks'.async = tasks.async, tasks'.cancel = tasks.cancel,
         asset'.pending = asset.pending,
         \A t \in {"render", "async", "canceller"} : pc'[t] = pc[t]
  PROVE  ReferencesCounted'
<1>1. CountersMatchTasks'
  BY DEF ReferencesCounted, CountersMatchTasks, Ticks
<1> QED BY <1>1 DEF ReferencesCounted

\* The game thread asks for no task and lets go of no update.
LEMMA GameGoes ==
  ASSUME IInv, pc["game"] \notin InLock, NEW l \in {"idle", "tick"} \cup GameLabels,
         Goto("game", l), cs' = cs, stream' = stream,
         update' \in Update, update'.next = update.next,
         update'.TaskState = update.TaskState, update'.sync = update.sync,
         update'.bSuccess = update.bSuccess, CancelStays,
         tasks' \in Tasks, Ticks(tasks'.render) = Ticks(tasks.render),
         tasks'.scheduled = tasks.scheduled, tasks'.refs = tasks.refs,
         tasks'.alive = tasks.alive, tasks'.async = tasks.async, tasks'.cancel = tasks.cancel,
         asset' \in Asset, asset'.pending = asset.pending,
         asset'.resident = asset.resident, asset.destroying => asset'.destroying,
         l \in {"tick", "abort", "abortIO"} => asset.pending,
         l = "abortIO" => update'.bIsCancelled,
         asset'.quiet \/ l \in {"suspend", "waitUnlocked", "flush"} => asset'.suspended,
         asset'.quiet \/ l = "flush" => ~InStep \/ update.bIsCancelled
  PROVE  IInv'
<1>1. ~asset'.pending /\ ~asset'.destroying => (asset'.resident <=> update.bSuccess)
  BY DEF IInv, TextureIsRight
<1>2. ASSUME pc'["game"] = l, Where' = Where,
             \A t \in {"render", "async", "canceller"} : pc'[t] = pc[t]
      PROVE  ReferencesCounted' /\ PendingUntilFinished' /\ AbortedFirst' /\ SuspensionHolds'
  <2>1. ReferencesCounted'
    BY <1>2, GameRefs DEF IInv
  <2>2. PendingUntilFinished'
    BY <1>2, StageIsSame
       DEF IInv, Progress, PendingUntilFinished, GameLabels, Labels, StepLabels, TickLabels
  <2>3. AbortedFirst'
    BY <1>2 DEF IInv, Progress, AbortedFirst, CancelStays
  <2>4. SuspensionHolds'
    BY <1>2, StageIsSame DEF IInv, SuspensionHolds, CancelStays
  <2> QED BY <2>1, <2>2, <2>3, <2>4
<1> QED BY <1>1, <1>2, GameMoves

\* The game begins to tick the update.
LEMMA GameTicksStep ==
  ASSUME IInv, TickStreaming \/ IsReadyForFinishDestroy
  PROVE  IInv'
<1>1. PICK runAs \in {"None", "Async"} :
        /\ pc["game"] = "idle" /\ asset.pending /\ asset' = [asset EXCEPT !.runAs = runAs]
        /\ Goto("game", "tick") /\ update' = update /\ cs' = cs /\ tasks' = tasks
        /\ stream' = stream
  BY DEF TickStreaming, IsReadyForFinishDestroy, GameIdle, At
<1>2. update \in Update /\ tasks \in Tasks /\ asset \in Asset /\ "idle" \notin InLock
  BY DEF IInv, Types, InLock, StepLabels, TickLabels
<1>3. /\ asset' \in Asset /\ asset'.pending = asset.pending
      /\ asset'.resident = asset.resident /\ asset'.destroying = asset.destroying
      /\ asset'.quiet = asset.quiet /\ asset'.suspended = asset.suspended
  BY <1>1, <1>2 DEF Asset
<1>4. asset.quiet => asset.suspended /\ (~InStep \/ update.bIsCancelled)
  BY DEF IInv, SuspensionHolds
<1> QED BY <1>1, <1>2, <1>3, <1>4, GameGoes DEF CancelStays

\* The game begins to abort the update.
LEMMA AbortBeginsStep ==
  ASSUME IInv, CancelPendingStreamingRequest \/ BeginDestroy
  PROVE  IInv'
<1>1. PICK l \in {"idle", "abort"}, destroying \in BOOLEAN :
        /\ pc["game"] = "idle" /\ asset.pending
        /\ asset' = [asset EXCEPT !.destroying = destroying]
        /\ asset.destroying => destroying
        /\ Goto("game", l) /\ update' = update /\ cs' = cs /\ tasks' = tasks
        /\ stream' = stream
  <2>1. asset \in Asset
    BY DEF IInv, Types
  <2>2. CASE CancelPendingStreamingRequest
    <3>1. asset' = [asset EXCEPT !.destroying = FALSE]
      BY <2>1, <2>2 DEF CancelPendingStreamingRequest, Asset
    <3> QED BY <2>2, <3>1 DEF CancelPendingStreamingRequest, GameIdle, At, MayAbort
  <2>3. CASE BeginDestroy
    BY <2>3 DEF BeginDestroy, GameIdle, At
  <2> QED BY <2>2, <2>3
<1>2. update \in Update /\ tasks \in Tasks /\ asset \in Asset /\ "idle" \notin InLock
  BY DEF IInv, Types, InLock, StepLabels, TickLabels
<1>3. /\ asset' \in Asset /\ asset'.pending = asset.pending
      /\ asset'.resident = asset.resident /\ asset'.destroying = destroying
      /\ asset'.quiet = asset.quiet /\ asset'.suspended = asset.suspended
  BY <1>1, <1>2 DEF Asset
<1>4. asset.quiet => asset.suspended /\ (~InStep \/ update.bIsCancelled)
  BY DEF IInv, SuspensionHolds
<1> QED BY <1>1, <1>2, <1>3, <1>4, GameGoes DEF CancelStays, GameLabels

\* MarkAsCancelled
LEMMA AbortMarksStep ==
  ASSUME IInv, AbortMarks
  PROVE  IInv'
<1>1. /\ pc["game"] = "abort" /\ update' = [update EXCEPT !.bIsCancelled = TRUE]
      /\ Goto("game", "abortIO") /\ cs' = cs /\ tasks' = tasks /\ stream' = stream
      /\ asset' = asset
  BY DEF AbortMarks, At
<1>2. update \in Update /\ tasks \in Tasks /\ asset \in Asset /\ "abort" \notin InLock
  BY DEF IInv, Types, InLock, StepLabels, TickLabels
<1>3. /\ update' \in Update /\ update'.next = update.next
      /\ update'.TaskState = update.TaskState /\ update'.sync = update.sync
      /\ update'.bIsCancelled /\ update'.bSuccess = update.bSuccess
  BY <1>1, <1>2 DEF Update
<1>4. asset.pending
  BY <1>1 DEF IInv, Progress, PendingUntilFinished
<1>5. asset.quiet => asset.suspended /\ (~InStep \/ update.bIsCancelled)
  BY DEF IInv, SuspensionHolds
<1> QED BY <1>1, <1>2, <1>3, <1>4, <1>5, GameGoes DEF CancelStays, GameLabels

\* The reads of the update are given to a task to cancel.
LEMMA AbortCancelsReadsStep ==
  ASSUME IInv, AbortCancelsReads
  PROVE  IInv'
<1>1. /\ pc["game"] = "abortIO" /\ Goto("game", "idle") /\ update' = update /\ cs' = cs
      /\ stream' = stream /\ asset' = asset
      /\ \/ tasks' = tasks
         \/ tasks' = [tasks EXCEPT !.cancel = @ + 1, !.refs = @ + 1]
  BY DEF AbortCancelsReads, At
<1>2. update \in Update /\ tasks \in Tasks /\ asset \in Asset /\ "abortIO" \notin InLock
  BY DEF IInv, Types, InLock, StepLabels, TickLabels
<1>3. asset.pending /\ update.bIsCancelled
  BY <1>1 DEF IInv, Progress, PendingUntilFinished, AbortedFirst
<1>4. PICK n \in {0, 1} :
        /\ tasks' \in Tasks /\ tasks'.render = tasks.render
        /\ tasks'.scheduled = tasks.scheduled /\ tasks'.refs = tasks.refs + n
        /\ tasks'.alive = tasks.alive /\ tasks'.async = tasks.async
        /\ tasks'.cancel = tasks.cancel + n
  <2>1. tasks.refs \in Nat /\ tasks.cancel \in Nat
    BY Counters DEF IInv
  <2>2. CASE tasks' = tasks
    BY <1>2, <2>1, <2>2
  <2>3. CASE tasks' = [tasks EXCEPT !.cancel = @ + 1, !.refs = @ + 1]
    <3> SUFFICES ASSUME NEW c \in Nat, c = tasks.cancel + 1, NEW r \in Nat, r = tasks.refs + 1
                 PROVE  /\ tasks' \in Tasks /\ tasks'.render = tasks.render
                        /\ tasks'.scheduled = tasks.scheduled /\ tasks'.refs = r
                        /\ tasks'.alive = tasks.alive /\ tasks'.async = tasks.async
                        /\ tasks'.cancel = c
      BY <2>1
    <3>1. tasks' = [tasks EXCEPT !.cancel = c, !.refs = r]
      BY <2>3
    <3> QED BY <1>2, <3>1 DEF Tasks
  <2> QED BY <1>1, <2>2, <2>3
<1>5. ASSUME pc'["game"] = "idle", Where' = Where,
             \A t \in {"render", "async", "canceller"} : pc'[t] = pc[t]
      PROVE  ReferencesCounted' /\ PendingUntilFinished' /\ AbortedFirst' /\ SuspensionHolds'
  <2>1. ReferencesCounted'
    <3>1. CountersMatchTasks'
      BY <1>4, <1>5 DEF IInv, ReferencesCounted, CountersMatchTasks
    <3>2. tasks.refs > 0
      BY <1>3, Counters DEF IInv, ReferencesCounted, One
    <3> QED BY <1>1, <1>3, <1>4, <1>5, <3>1, <3>2, Counters DEF IInv, ReferencesCounted, One
  <2>2. PendingUntilFinished'
    BY <1>1, <1>3 DEF PendingUntilFinished
  <2>3. AbortedFirst'
    BY <1>1, <1>3 DEF AbortedFirst
  <2>4. SuspensionHolds'
    BY <1>1, <1>5, StageIsSame DEF IInv, SuspensionHolds
  <2> QED BY <2>1, <2>2, <2>3, <2>4
<1>6. ~asset'.pending /\ ~asset'.destroying => (asset'.resident <=> update.bSuccess)
  BY <1>1, <1>3
<1> QED BY <1>1, <1>2, <1>4, <1>5, <1>6, GameMoves DEF CancelStays

\* SuspendRenderAssetStreaming goes on, with a fence or without.
LEMMA SuspensionGoes ==
  ASSUME IInv, NEW l \in {"idle", "suspend", "waitUnlocked", "flush"}, Goto("game", l),
         pc["game"] \in {"idle", "suspend", "waitUnlocked", "flush"},
         update' = update, cs' = cs, stream' = stream,
         tasks' \in {tasks, [tasks EXCEPT !.render = Append(@, "fence")]},
         NEW suspended \in BOOLEAN, NEW quiet \in BOOLEAN,
         asset' = [asset EXCEPT !.suspended = suspended, !.quiet = quiet],
         quiet \/ l \in {"suspend", "waitUnlocked", "flush"} => suspended,
         quiet \/ l = "flush" => ~InStep \/ update.bIsCancelled
  PROVE  IInv'
<1>1. update \in Update /\ tasks \in Tasks /\ asset \in Asset /\ tasks.render \in Commands
  BY Counters DEF IInv, Types
<1>2. /\ tasks' \in Tasks /\ Ticks(tasks'.render) = Ticks(tasks.render)
      /\ tasks'.scheduled = tasks.scheduled /\ tasks'.refs = tasks.refs
      /\ tasks'.alive = tasks.alive /\ tasks'.async = tasks.async
      /\ tasks'.cancel = tasks.cancel
  <2>1. CASE tasks' = tasks
    BY <1>1, <2>1
  <2>2. CASE tasks' = [tasks EXCEPT !.render = Append(@, "fence")]
    <3>1. /\ Append(tasks.render, "fence") \in Seq({"tick", "fence"})
          /\ Ticks(Append(tasks.render, "fence")) = Ticks(tasks.render)
      BY <1>1, TicksAppended DEF Commands
    <3> SUFFICES ASSUME NEW c \in Seq({"tick", "fence"}), c = Append(tasks.render, "fence")
                 PROVE  /\ tasks' \in Tasks /\ tasks'.render = c
                        /\ tasks'.scheduled = tasks.scheduled /\ tasks'.refs = tasks.refs
                        /\ tasks'.alive = tasks.alive /\ tasks'.async = tasks.async
                        /\ tasks'.cancel = tasks.cancel
      BY <3>1
    <3>2. tasks' = [tasks EXCEPT !.render = c]
      BY <2>2
    <3> QED BY <1>1, <3>2 DEF Tasks
  <2> QED BY <2>1, <2>2
<1>3. /\ asset' \in Asset /\ asset'.pending = asset.pending
      /\ asset'.resident = asset.resident /\ asset'.destroying = asset.destroying
      /\ asset'.quiet = quiet /\ asset'.suspended = suspended
  BY <1>1 DEF Asset
<1>4. pc["game"] \notin InLock /\ l \in {"idle", "tick"} \cup GameLabels
  BY DEF InLock, StepLabels, TickLabels, GameLabels
<1> QED BY <1>1, <1>2, <1>3, <1>4, GameGoes DEF CancelStays

\* The suspension and its end
LEMMA SuspensionStep ==
  ASSUME IInv, \/ SuspensionBegins \/ LookForLockedUpdates \/ WaitForUnlock
               \/ SuspensionReturns \/ ResumeRenderAssetStreaming
  PROVE  IInv'
<1>1. asset \in Asset /\ PlacesTyped
  BY DEF IInv, Types
<1>2. /\ asset.quiet => asset.suspended /\ (~InStep \/ update.bIsCancelled)
      /\ pc["game"] \in {"suspend", "waitUnlocked", "flush"} => asset.suspended
      /\ pc["game"] = "flush" => ~InStep \/ update.bIsCancelled
  BY DEF IInv, SuspensionHolds
<1>3. update.TaskState # "Locked" => ~InStep
  BY DEF IInv, Progress, LockedInside
<1>4. ASSUME NEW l, FlushThen(l)
      PROVE  /\ tasks' = [tasks EXCEPT !.render = Append(@, "fence")] /\ Goto("game", l)
             /\ asset' = [asset EXCEPT !.suspended = asset.suspended, !.quiet = asset.quiet]
  BY <1>1, <1>4 DEF FlushThen, Asset
<1>5. ASSUME SuspensionDone
      PROVE  /\ tasks' = tasks /\ Goto("game", "idle")
             /\ asset' = [asset EXCEPT !.suspended = asset.suspended, !.quiet = TRUE]
  BY <1>1, <1>5 DEF SuspensionDone, Asset
<1>6. CASE SuspensionBegins
  <2>1. asset' = [asset EXCEPT !.suspended = TRUE, !.quiet = asset.quiet]
    BY <1>1, <1>6 DEF SuspensionBegins, Asset
  <2>2. asset.quiet \in BOOLEAN
    BY <1>1 DEF Asset
  <2> QED BY <1>2, <1>6, <2>1, <2>2, SuspensionGoes DEF SuspensionBegins, GameIdle, At
<1>7. ASSUME LookForLockedUpdates \/ WaitForUnlock,
             FlushThen(IF IsLocked THEN "waitUnlocked" ELSE "flush")
      PROVE  IInv'
  <2>1. PICK l \in {"waitUnlocked", "flush"} : FlushThen(l) /\ (l = "flush" => ~IsLocked)
    BY <1>7
  <2>2. l = "flush" => ~InStep
    BY <1>3, <2>1 DEF IsLocked
  <2>3. asset.suspended \in BOOLEAN /\ asset.quiet \in BOOLEAN
    BY <1>1 DEF Asset
  <2>4. /\ pc["game"] \in {"suspend", "waitUnlocked"}
        /\ update' = update /\ cs' = cs /\ stream' = stream
    BY <1>7 DEF LookForLockedUpdates, WaitForUnlock, At
  <2> QED BY <1>2, <1>4, <2>1, <2>2, <2>3, <2>4, SuspensionGoes
<1>8. CASE LookForLockedUpdates /\ ~asset.pending /\ SuspensionDone
  <2>1. ~InStep
    BY <1>8 DEF IInv, Progress, PendingUntilFinished, Finished
  <2>2. asset.suspended \in BOOLEAN
    BY <1>1 DEF Asset
  <2> QED BY <1>2, <1>5, <1>8, <2>1, <2>2, SuspensionGoes DEF LookForLockedUpdates, At
<1>9. CASE SuspensionReturns
  <2>1. asset.suspended \in BOOLEAN
    BY <1>1 DEF Asset
  <2> QED BY <1>2, <1>5, <1>9, <2>1, SuspensionGoes DEF SuspensionReturns, At
<1>10. CASE ResumeRenderAssetStreaming
  <2>1. pc["game"] = "idle" /\ pc' = pc /\ pc \in [Thread -> {pc[t] : t \in Thread}]
    BY <1>1, <1>10 DEF ResumeRenderAssetStreaming, GameIdle, At, PlacesTyped
  <2>2. Goto("game", "idle")
    BY <2>1 DEF Goto
  <2> QED BY <1>10, <2>1, <2>2, SuspensionGoes DEF ResumeRenderAssetStreaming
<1> QED BY <1>6, <1>7, <1>8, <1>9, <1>10 DEF LookForLockedUpdates, WaitForUnlock

\* The game lets go of an update that is done.
LEMMA GameTickedStep ==
  ASSUME IInv, GameTicked
  PROVE  IInv'
<1>1. /\ pc["game"] = "ticked" /\ Goto("game", "idle") /\ update' = update /\ cs' = cs
      /\ stream' = stream /\ "ticked" \notin InLock /\ "ticked" \in Labels
      /\ \/ /\ update.TaskState = "Done" /\ tasks' = Released
            /\ asset' = [asset EXCEPT !.pending = FALSE,
                           !.resident = IF asset.destroying THEN @ ELSE Succeeded]
         \/ asset' = asset /\ tasks' = tasks
  BY DEF GameTicked, At, InLock, Labels, StepLabels, TickLabels
<1>2. update \in Update /\ tasks \in Tasks /\ asset \in Asset
  BY DEF IInv, Types
<1>3. asset.pending /\ (asset.quiet => asset.suspended /\ (~InStep \/ update.bIsCancelled))
  BY <1>1 DEF IInv, Progress, PendingUntilFinished, SuspensionHolds
<1>4. CASE asset' = asset /\ tasks' = tasks
  BY <1>1, <1>2, <1>3, <1>4, GameGoes DEF CancelStays
<1>5. CASE /\ update.TaskState = "Done" /\ tasks' = Released
           /\ asset' = [asset EXCEPT !.pending = FALSE,
                           !.resident = IF asset.destroying THEN @ ELSE Succeeded]
  <2>1. Finished /\ update.sync = 0
    BY <1>5, DoneIsFinished, FinishedHasNothing
  <2>2. /\ asset' \in Asset /\ ~asset'.pending /\ asset'.destroying = asset.destroying
        /\ ~asset.destroying => asset'.resident = update.bSuccess
        /\ asset'.quiet = asset.quiet /\ asset'.suspended = asset.suspended
    BY <1>2, <1>5 DEF Asset, Succeeded, Update
  <2>3. tasks.refs \in Nat /\ tasks.refs > 0
    BY <1>3, Counters DEF IInv, ReferencesCounted, One
  <2>4. /\ tasks' \in Tasks /\ tasks'.render = tasks.render
        /\ tasks'.scheduled = tasks.scheduled /\ tasks'.refs = tasks.refs - 1
        /\ tasks'.alive <=> tasks.refs # 1
        /\ tasks'.async = tasks.async
        /\ tasks'.cancel = tasks.cancel
    <3>0. tasks.refs - 1 \in Nat /\ (tasks.refs # 1) \in BOOLEAN
      BY <2>3
    <3> SUFFICES ASSUME NEW n \in Nat, n = tasks.refs - 1,
                        NEW b \in BOOLEAN, b = (tasks.refs # 1)
                 PROVE  /\ tasks' \in Tasks /\ tasks'.render = tasks.render
                        /\ tasks'.scheduled = tasks.scheduled /\ tasks'.refs = n
                        /\ tasks'.alive = b
                        /\ tasks'.async = tasks.async
                        /\ tasks'.cancel = tasks.cancel
      BY <3>0, Zenon
    <3>1. b = ~(tasks.refs = 1 /\ update.TaskState = "Done" /\ update.sync = 0)
      BY <1>5, <2>1
    <3>2. tasks' = [tasks EXCEPT !.refs = n, !.alive = b]
      BY <1>5, <3>1 DEF Released
    <3> QED BY <1>2, <3>2 DEF Tasks
  <2>5. ASSUME pc'["game"] = "idle", Where' = Where,
               \A t \in {"render", "async", "canceller"} : pc'[t] = pc[t]
        PROVE  ReferencesCounted' /\ PendingUntilFinished' /\ AbortedFirst' /\ SuspensionHolds'
    <3>1. ReferencesCounted'
      <4>1. CountersMatchTasks'
        BY <2>4, <2>5 DEF IInv, ReferencesCounted, CountersMatchTasks
      <4>2. tasks'.alive <=> tasks'.refs > 0
        BY <2>3, <2>4
      <4>3. /\ tasks.refs =
                 1 + tasks.cancel + One(pc["canceller"] # "idle")
                   + tasks.scheduled["Render"] + One(pc["render"] = "release")
                   + tasks.scheduled["Async"] + One(pc["async"] = "release")
            /\ tasks.cancel \in Nat
            /\ tasks.scheduled["Render"] \in Nat /\ tasks.scheduled["Async"] \in Nat
        BY <1>3, Counters DEF IInv, ReferencesCounted, One
      <4>4. tasks'.refs =
              One(asset'.pending) + tasks'.cancel + One(pc'["canceller"] # "idle")
                + tasks'.scheduled["Render"] + One(pc'["render"] = "release")
                + tasks'.scheduled["Async"] + One(pc'["async"] = "release")
        BY <2>2, <2>4, <2>5, <4>3 DEF One
      <4> QED BY <4>1, <4>2, <4>4 DEF ReferencesCounted
    <3>2. PendingUntilFinished'
      BY <1>1, <2>1, <2>5, StageIsSame DEF PendingUntilFinished, Labels, StepLabels, TickLabels
    <3>3. AbortedFirst'
      BY <1>1, <2>4, <2>5 DEF IInv, Progress, AbortedFirst
    <3>4. SuspensionHolds'
      BY <1>1, <2>2, <2>5, StageIsSame DEF IInv, SuspensionHolds
    <3> QED BY <3>1, <3>2, <3>3, <3>4
  <2> QED BY <1>1, <1>2, <2>2, <2>4, <2>5, GameMoves DEF CancelStays
<1> QED BY <1>1, <1>4, <1>5

\* When the update is deleted nobody is in it, or will be.
LEMMA DeletedIsLeft ==
  ASSUME IInv, ~tasks.alive
  PROVE  /\ ~asset.pending /\ Finished /\ Where = "free" /\ cs.owner = NoThread
         /\ tasks.refs = 0 /\ tasks.async = 0 /\ tasks.cancel = 0 /\ Ticks(tasks.render) = {}
         /\ \A kind \in {"Render", "Async"} : tasks.scheduled[kind] = 0
         /\ \A t \in Thread \ {"game"} : pc[t] = "idle"
         /\ pc["game"] \in {"idle", "suspend", "waitUnlocked", "flush"}
<1>1. /\ tasks.refs \in Nat /\ tasks.cancel \in Nat /\ tasks.async \in Nat
      /\ tasks.scheduled["Render"] \in Nat /\ tasks.scheduled["Async"] \in Nat
      /\ Cardinality(Ticks(tasks.render)) \in Nat
  BY Counters DEF IInv
<1>2. /\ CountersMatchTasks
      /\ tasks.refs =
           One(asset.pending) + tasks.cancel + One(pc["canceller"] # "idle")
             + tasks.scheduled["Render"] + One(pc["render"] = "release")
             + tasks.scheduled["Async"] + One(pc["async"] = "release")
      /\ tasks.alive <=> tasks.refs > 0
  BY DEF IInv, ReferencesCounted
<1>3. /\ tasks.refs = 0 /\ tasks.cancel = 0
      /\ tasks.scheduled["Render"] = 0 /\ tasks.scheduled["Async"] = 0
      /\ ~asset.pending /\ pc["canceller"] = "idle"
      /\ pc["render"] # "release" /\ pc["async"] # "release"
  <2>1. tasks.refs = 0
    BY <1>1, <1>2
  <2>2. ~asset.pending
    BY <1>1, <1>2, <2>1 DEF One
  <2>3. pc["canceller"] = "idle"
    BY <1>1, <1>2, <2>1 DEF One
  <2>4. pc["render"] # "release" /\ pc["async"] # "release"
    BY <1>1, <1>2, <2>1 DEF One
  <2>5. tasks.cancel + tasks.scheduled["Render"] + tasks.scheduled["Async"] = 0
    BY <1>1, <1>2, <2>1, <2>2, <2>3, <2>4 DEF One
  <2> QED BY <1>1, <2>1, <2>2, <2>3, <2>4, <2>5
<1>4. /\ tasks.async = 0 /\ Cardinality(Ticks(tasks.render)) = 0
      /\ pc["render"] = "idle" /\ pc["async"] = "idle"
  BY <1>1, <1>2, <1>3, CountersAgree
<1>5. Ticks(tasks.render) = {}
  BY <1>4, Counters, TicksFinite, FS_EmptySet DEF IInv
<1>6. Where = "free" /\ cs.owner = NoThread /\ Finished
  BY <1>3, <1>4, NobodyElse
<1>7. \A t \in Thread \ {"game"} : pc[t] = "idle"
  BY <1>3, <1>4, <1>6, FinishedHasNothing DEF Thread, Workers
<1>8. pc["game"] \in {"idle", "suspend", "waitUnlocked", "flush"}
  <2>1. pc["game"] \notin Labels \cup {"abort", "abortIO"} /\ pc["game"] \in LabelsOf("game")
    BY <1>3, Threads DEF IInv, Progress, PendingUntilFinished, Types, PlacesTyped
  <2>2. pc["game"] \in {"idle"} \cup GameLabels \cup Labels
    BY <2>1, Threads DEF LabelsOf
  <2> QED BY <2>1, <2>2 DEF GameLabels
<1> QED BY <1>1, <1>3, <1>4, <1>5, <1>6, <1>7, <1>8

\* A new update starts with what the last one has left, which is nothing.
LEMMA StreamInStep ==
  ASSUME IInv, StreamIn
  PROVE  IInv'
<1>1. /\ pc["game"] = "idle" /\ ~tasks.alive
      /\ update' = NewUpdate /\ tasks' = [NewTasks EXCEPT !.render = tasks.render]
      /\ stream' = NewStream /\ cs' = cs /\ pc' = pc
      /\ asset' = [asset EXCEPT !.pending = TRUE, !.destroying = FALSE, !.resident = FALSE]
  BY DEF StreamIn, GameIdle, At
<1>2. /\ Where = "free" /\ cs.owner = NoThread /\ Ticks(tasks.render) = {}
      /\ \A t \in Thread : pc[t] = "idle"
  BY <1>1, DeletedIsLeft
<1>3. tasks.render \in Commands /\ asset \in Asset /\ cs \in Lock /\ PlacesTyped
  BY Counters DEF IInv, Types
<1>4. /\ update' \in Update /\ update'.next = ToAllocate /\ update'.TaskState = "Init"
      /\ update'.sync = 0 /\ ~update'.bIsCancelled /\ ~update'.bSuccess
  BY <1>1 DEF NewUpdate, ToAllocate, Update, TaskStates
<1>5. /\ tasks' \in Tasks /\ tasks'.render = tasks.render /\ tasks'.refs = 1 /\ tasks'.alive
      /\ tasks'.scheduled["Render"] = 0 /\ tasks'.scheduled["Async"] = 0
      /\ tasks'.async = 0 /\ tasks'.cancel = 0
  BY <1>1, <1>3 DEF NewTasks, Tasks, Commands
<1>6. /\ stream' \in Stream /\ ~stream'.memory /\ stream'.intermediate = "none"
      /\ ~stream'.creating /\ stream'.ioRequests = {} /\ ~stream'.bFailedOnIOError
      /\ ~stream'.reported /\ stream'.shown = "old"
      /\ \A m \in Mips : stream'.read[m] = "none"
  BY <1>1 DEF NewStream, Stream
<1>7. /\ asset' \in Asset /\ asset'.pending /\ asset'.quiet = asset.quiet
      /\ asset'.suspended = asset.suspended
  BY <1>1, <1>3 DEF Asset
<1>8. Where' = "free" /\ OwnerIsInside' /\ PlacesTyped' /\ ~InStep'
  BY <1>1, <1>2, <1>3 DEF Where, IInv, OwnerIsInside, PlacesTyped, InStep, StepLabels
<1>9. Types'
  BY <1>1, <1>3, <1>4, <1>5, <1>6, <1>7, <1>8 DEF Types
<1>10. \A t \in {"game", "render", "async", "canceller"} : pc'[t] = "idle"
  BY <1>1, <1>2, Threads
<1>11. ReferencesCounted'
  <2>1. Cardinality(Ticks(tasks'.render)) = 0
    BY <1>2, <1>5, FS_EmptySet
  <2>2. CountersMatchTasks'
    <3>1. /\ tasks'.scheduled["Async"] =
               tasks'.async + (IF pc'["async"] \in {"idle", "release"} THEN 0 ELSE 1)
          /\ tasks'.scheduled["Render"] = Cardinality(Ticks(tasks'.render))
               + (IF pc'["render"] \in {"idle", "release"} THEN 0 ELSE 1)
          /\ \A kind \in {"Render", "Async"} : tasks'.scheduled[kind] <= 1
      BY <1>5, <1>10, <2>1
    <3> QED BY <3>1 DEF CountersMatchTasks, Ticks
  <2> QED BY <1>5, <1>7, <1>10, <2>2 DEF ReferencesCounted, One
<1>12. Progress'
  <2>1. LockedInside'
    BY <1>4, <1>8 DEF LockedInside
  <2>2. DoneMeansFinished'
    BY <1>4, <1>8, Nexts DEF DoneMeansFinished, Finished
  <2>3. StepIsNext'
    BY <1>4, <1>8, Nexts DEF StepIsNext, Creating
  <2>4. PendingUntilFinished' /\ AbortedFirst'
    BY <1>5, <1>7, <1>10 DEF PendingUntilFinished, AbortedFirst
  <2> QED BY <2>1, <2>2, <2>3, <2>4 DEF Progress
<1>13. ~Requesting' /\ ~Loading' /\ ~Creating' /\ ~Ending' /\ ~Finishing' /\ ~Finished'
  BY <1>4, <1>8, Nexts DEF Requesting, Loading, Creating, Ending, Finishing, Finished
<1>14. \A m \in Mips : pc'[m] = "idle"
  BY <1>1, <1>2, Threads
<1>15. Reads'
  <2>1. Unanswered' = {}
    BY <1>6, <1>14 DEF Unanswered
  <2>2. SyncCounts'
    BY <1>4, <1>6, <2>1, FS_EmptySet DEF SyncCounts, One
  <2>3. MemoryWhileLoading'
    BY <1>6, <1>8 DEF MemoryWhileLoading
  <2>4. ASSUME NEW m \in Mips PROVE ReadIsRight(m)' /\ MissingIsKnown(m)'
    BY <1>6, <1>13, <1>14 DEF ReadIsRight, MissingIsKnown
  <2> QED BY <2>2, <2>3, <2>4 DEF Reads
<1>16. TextureIsRight'
  BY <1>4, <1>6, <1>7, <1>8, <1>13, Nexts DEF TextureIsRight, TextureWhileEnding, PartialIsNotUsed
<1>17. SuspensionHolds'
  BY <1>7, <1>8, <1>10 DEF IInv, SuspensionHolds
<1> QED BY <1>8, <1>9, <1>11, <1>12, <1>15, <1>16, <1>17 DEF IInv

\* Whatever the game thread does keeps the invariant.
LEMMA GameStep ==
  ASSUME IInv, Game
  PROVE  IInv'
BY StreamInStep, GameTicksStep, GameTickedStep, AbortBeginsStep, AbortMarksStep,
   AbortCancelsReadsStep, SuspensionStep DEF Game

-----------------------------------------------------------------------------
(* The theorems                                                            *)

\* The first update starts with nothing.
LEMMA InvariantInit ==
  ASSUME Init
  PROVE  IInv
<1>1. /\ update = NewUpdate /\ cs = Unlocked /\ tasks = NewTasks /\ stream = NewStream
      /\ asset = [pending |-> TRUE, destroying |-> FALSE, resident |-> FALSE,
                  suspended |-> FALSE, quiet |-> FALSE, runAs |-> "None"]
      /\ pc = [t \in Thread |-> "idle"]
  BY DEF Init
<1>2. /\ update \in Update /\ update.next = ToAllocate /\ update.TaskState = "Init"
      /\ update.sync = 0 /\ ~update.bIsCancelled /\ ~update.bSuccess
  BY <1>1 DEF NewUpdate, ToAllocate, Update, TaskStates
<1>3. /\ tasks \in Tasks /\ tasks.render = << >> /\ tasks.refs = 1 /\ tasks.alive
      /\ tasks.scheduled["Render"] = 0 /\ tasks.scheduled["Async"] = 0
      /\ tasks.async = 0 /\ tasks.cancel = 0
  BY <1>1 DEF NewTasks, Tasks
<1>4. /\ stream \in Stream /\ ~stream.memory /\ stream.intermediate = "none"
      /\ ~stream.creating /\ stream.ioRequests = {} /\ ~stream.bFailedOnIOError
      /\ ~stream.reported /\ stream.shown = "old"
      /\ \A m \in Mips : stream.read[m] = "none"
  BY <1>1 DEF NewStream, Stream
<1>5. asset \in Asset /\ asset.pending /\ ~asset.quiet
  BY <1>1 DEF Asset
<1>6. cs \in Lock /\ cs.owner = NoThread
  BY <1>1 DEF Unlocked, Lock
<1>7. \A t \in Thread : pc[t] = "idle" /\ "idle" \in LabelsOf(t)
  BY <1>1, Threads DEF LabelsOf, Thread, Workers
<1>8. PlacesTyped
  BY <1>1, <1>7 DEF PlacesTyped
<1>9. Where = "free" /\ OwnerIsInside /\ ~InStep
  BY <1>6, <1>7, Threads DEF Where, OwnerIsInside, InStep, InLock, StepLabels, TickLabels
<1>10. \A t \in {"game", "render", "async", "canceller"} : pc[t] = "idle"
  BY <1>7, Threads
<1>11. ReferencesCounted
  <2>1. Cardinality(Ticks(tasks.render)) = 0
    BY <1>3, FS_EmptySet DEF Ticks
  <2>2. CountersMatchTasks
    BY <1>3, <1>10, <2>1, CountersAgree
  <2> QED BY <1>3, <1>5, <1>10, <2>2 DEF ReferencesCounted, One
<1>12. Progress
  <2>1. LockedInside
    BY <1>2, <1>9 DEF LockedInside
  <2>2. DoneMeansFinished
    BY <1>2, <1>9, Nexts DEF DoneMeansFinished, Finished
  <2>3. StepIsNext
    BY <1>2, <1>9, Nexts DEF StepIsNext, Creating
  <2>4. PendingUntilFinished /\ AbortedFirst
    BY <1>3, <1>5, <1>10 DEF PendingUntilFinished, AbortedFirst
  <2> QED BY <2>1, <2>2, <2>3, <2>4 DEF Progress
<1>13. ~Requesting /\ ~Loading /\ ~Creating /\ ~Ending /\ ~Finishing /\ ~Finished
  BY <1>2, <1>9, Nexts DEF Requesting, Loading, Creating, Ending, Finishing, Finished
<1>14. \A m \in Mips : pc[m] = "idle"
  BY <1>7, Threads
<1>15. Reads
  <2>1. Unanswered = {}
    BY <1>4, <1>14 DEF Unanswered
  <2>2. SyncCounts
    BY <1>2, <1>4, <2>1, FS_EmptySet DEF SyncCounts, One
  <2>3. MemoryWhileLoading
    BY <1>4, <1>9 DEF MemoryWhileLoading
  <2>4. ASSUME NEW m \in Mips PROVE ReadIsRight(m) /\ MissingIsKnown(m)
    BY <1>4, <1>13, <1>14 DEF ReadIsRight, MissingIsKnown
  <2> QED BY <2>2, <2>3, <2>4 DEF Reads
<1>16. TextureIsRight
  BY <1>2, <1>4, <1>5, <1>9, <1>13, Nexts DEF TextureIsRight, TextureWhileEnding, PartialIsNotUsed
<1>17. SuspensionHolds
  BY <1>5, <1>9, <1>10 DEF SuspensionHolds
<1>18. Types
  BY <1>2, <1>3, <1>4, <1>5, <1>6, <1>8 DEF Types
<1> QED BY <1>9, <1>11, <1>12, <1>15, <1>16, <1>17, <1>18 DEF IInv

\* Every step of every thread keeps the invariant.
LEMMA InvariantStep ==
  ASSUME IInv, [Next]_vars
  PROVE  IInv'
<1>1. CASE GameThread
  BY <1>1, GameStep, InUpdateStep, Threads DEF GameThread
<1>2. CASE RenderThread
  BY <1>2, InUpdateStep, TaskCountedStep, TaskReleasesStep, RenderCommandStep, Threads
     DEF RenderThread
<1>3. CASE AsyncThread
  BY <1>3, InUpdateStep, TaskCountedStep, TaskReleasesStep, AsyncTaskStep, Threads
     DEF AsyncThread
<1>4. CASE UNCHANGED vars
  BY <1>4 DEF vars, IInv, Types, PlacesTyped, OwnerIsInside, ReferencesCounted,
     CountersMatchTasks, Where, InStep, Requesting, Loading, Creating, Ending,
     Finishing, Finished, LockedInside, DoneMeansFinished, StepIsNext, PendingUntilFinished,
     AbortedFirst, Progress, Unanswered, SyncCounts, ReadIsRight, MissingIsKnown,
     MemoryWhileLoading, Reads, TextureWhileEnding, PartialIsNotUsed, TextureIsRight,
     SuspensionHolds
<1> QED BY <1>1, <1>2, <1>3, <1>4, CancelThreadStep, ReadThreadStep, TextureCreatedStep DEF Next

\* The invariant holds whatever the number of mips, and in whatever order the
\* threads tick the update, answer its reads and abort it
\* (FRenderAssetUpdate::Tick).
THEOREM Invariant == Spec => []IInv
<1>1. Init => IInv
  BY InvariantInit
<1>2. IInv /\ [Next]_vars => IInv'
  BY InvariantStep
<1> QED BY <1>1, <1>2, PTL DEF Spec

\* No thread, no task and no callback of a read or of a texture uses an update
\* that is deleted, it is deleted with its last reference, and the file system
\* writes only to buffers that are there (FRenderAssetUpdate::Release,
\* ClearIORequests).
THEOREM AlwaysMemorySafe == Spec => []MemorySafe
<1>1. IInv => MemorySafe
  <2> SUFFICES ASSUME IInv PROVE MemorySafe
    OBVIOUS
  <2>1. NoUseAfterDelete
    <3> SUFFICES ASSUME ~tasks.alive PROVE NoUseAfterDelete
      BY DEF NoUseAfterDelete
    <3>1. tasks.render \in Commands
      BY Counters DEF IInv
    <3>2. \A i \in DOMAIN tasks.render : tasks.render[i] = "fence"
      <4>1. \A i \in DOMAIN tasks.render : tasks.render[i] \in {"tick", "fence"}
        BY <3>1 DEF Commands
      <4> QED BY <4>1, DeletedIsLeft DEF Ticks
    <3>3. pc["game"] \notin TickLabels \cup InLock \cup {"abort", "abortIO"}
      BY DeletedIsLeft DEF TickLabels, InLock, StepLabels
    <3> QED BY <3>2, <3>3, DeletedIsLeft, FinishedHasNothing DEF NoUseAfterDelete, At
  <2>2. NeverLeaks
    BY DEF NeverLeaks, IInv, ReferencesCounted
  <2>3. ReadsIntoMemory
    BY DEF ReadsIntoMemory, IInv, Reads, ReadIsRight
  <2> QED BY <2>1, <2>2, <2>3 DEF MemorySafe
<1> QED BY <1>1, Invariant, PTL

\* The counters of the tasks count them, whoever is inside the lock owns it,
\* and an update that is done was successful or cancelled and has nothing left
\* (UStreamableRenderAsset::TickStreaming).
THEOREM AlwaysAgrees == Spec => []UpdateAgrees
<1>1. IInv => UpdateAgrees
  <2> SUFFICES ASSUME IInv PROVE UpdateAgrees
    OBVIOUS
  <2>1. update \in Update /\ cs \in Lock /\ stream \in Stream
    BY DEF IInv, Types
  <2>2. update.sync \in 0 .. Cardinality(Mips) + 1
    <3>1. /\ Cardinality(Unanswered) \in Nat /\ Cardinality(Mips) \in Nat
          /\ Cardinality(Unanswered) <= Cardinality(Mips)
      BY UnansweredFinite DEF Unanswered
    <3>2. update.sync = Cardinality(Unanswered) + One(stream.creating)
      BY DEF IInv, Reads, SyncCounts
    <3> QED BY <3>1, <3>2 DEF One
  <2>3. update \in [TaskState : {"Init", "Suspended", "InProgress", "Locked", "Done"},
                    sync : 0 .. Cardinality(Mips) + 1,
                    next : [task : Steps \cup {"none"}, cancel : Steps \cup {"none"}],
                    bIsCancelled : BOOLEAN, bSuccess : BOOLEAN]
    <3>1. update.next \in [task : Steps \cup {"none"}, cancel : Steps \cup {"none"}]
      BY <2>1 DEF Update, ToAllocate, ToCreate, ToFinalize, ToCancel, NoTasks,
         Steps, AsyncSteps, RenderSteps
    <3> QED BY <2>1, <2>2, <3>1 DEF Update, TaskStates
  <2>4. \A t \in Thread :
          /\ pc[t] \in StepLabels \cup TickLabels \cup GameLabels
                         \cup {"idle", "release", "answer", "answerFailed", "cancel"}
          /\ pc[t] \in InLock <=> cs.owner = t
    BY DEF IInv, Types, PlacesTyped, Labels, OwnerIsInside
  <2>5. TypeOK
    BY <2>1, <2>3, <2>4 DEF TypeOK, Lock, Stream
  <2>6. DoneLeavesNothing
    BY DoneIsFinished, FinishedHasNothing DEF DoneLeavesNothing, IInv, TextureIsRight
  <2> QED BY <2>5, <2>6 DEF UpdateAgrees, IInv, ReferencesCounted
<1> QED BY <1>1, Invariant, PTL

\* A texture that misses a mip is never shown, the asset counts its mips as
\* resident exactly if it shows them, and no error of the files is reported
\* that is none (DoFinishUpdate, AsyncFileCallBack).
THEOREM TextureAlwaysAgrees == Spec => []TextureAgrees
<1>1. IInv => TextureAgrees
  <2> SUFFICES ASSUME IInv PROVE TextureAgrees
    OBVIOUS
  <2>1. stream \in Stream
    BY DEF IInv, Types
  <2> QED BY <2>1 DEF TextureAgrees, ShownIsLoaded, ResidentIsShown, NoFalseIOErrors,
          IInv, TextureIsRight, Stream
<1> QED BY <1>1, Invariant, PTL

\* No task is asked for, no read begins, and buffers and textures stay.
Undisturbed ==
    /\ \A kind \in {"Render", "Async"} : tasks'.scheduled[kind] <= tasks.scheduled[kind]
    /\ \A m \in Mips : stream'.read[m] = "reading" => stream.read[m] = "reading"
    /\ stream'.memory = stream.memory
    /\ stream'.intermediate = stream.intermediate
    /\ stream'.shown = stream.shown

\* A step that only moves threads leaves it so.
LEMMA StreamUndisturbed ==
  ASSUME IInv, stream' = stream, tasks'.scheduled = tasks.scheduled
  PROVE  Undisturbed
BY Counters DEF Undisturbed, IInv

\* What an update that goes on does once suspension has returned
LEMMA QuietStep ==
  ASSUME IInv, Next, asset.quiet, asset.suspended, ~update.bIsCancelled, ~InStep,
         asset.pending, asset'.pending
  PROVE  Undisturbed
<1>1. /\ tasks \in Tasks /\ stream \in Stream
      /\ \A kind \in {"Render", "Async"} : tasks.scheduled[kind] \in Nat
  BY Counters DEF IInv, Types
<1>2. ASSUME NEW t \in Thread, InUpdate(t)
      PROVE  Undisturbed
  <2>1. CASE RunStep(t)
    <3>1. pc[t] \in StepLabels /\ At(t, pc[t])
      BY <2>1 DEF RunStep, AllocateNewMips, NextRequest, OpenRequest, MipUnavailable,
         AsyncCreate, ClearRequest, RequestsCleared, Clearing, Finalize, Cancel, At, StepLabels
    <3> QED BY <3>1, InsideStep
  <2>2. CASE TickInternal(t)
    <3>1. At(t, "decide") /\ stream' = stream
      BY <2>2 DEF TickInternal
    <3>2. Waits
      BY <3>1, AtDecide DEF Waits
    <3>3. tasks' = tasks
      BY <2>2, <3>2 DEF TickInternal, StepNone, StepWaits, StepRuns, StepScheduled
    <3> QED BY <3>1, <3>3, StreamUndisturbed
  <2>3. CASE Tick(t) /\ ~TickInternal(t)
    <3>1. stream' = stream /\ tasks' = tasks
      BY <2>3 DEF Tick, TickEnter, TickLock, TickMarkLocked, TickAgain, ChooseStep, TickStore,
         TickUnlock
    <3> QED BY <3>1, StreamUndisturbed
  <2> QED BY <1>2, <2>1, <2>2, <2>3 DEF InUpdate
<1>3. ASSUME NEW m \in Mips, ReadEnds(m) \/ AnswerCounted(m) \/ AnswerFailed(m) \/ AnswerEnds(m)
      PROVE  Undisturbed
  <2>1. tasks' = tasks
    BY <1>3 DEF ReadEnds, AnswerCounted, AnswerFailed, AnswerEnds
  <2>2. PICK read \in {"callback", "complete", stream.read[m]} :
          /\ stream'.read = [stream.read EXCEPT ![m] = read]
          /\ stream'.memory = stream.memory
          /\ stream'.intermediate = stream.intermediate /\ stream'.shown = stream.shown
    <3>1. CASE ReadEnds(m)
      BY <1>1, <3>1 DEF ReadEnds, Stream
    <3>2. CASE AnswerCounted(m)
      BY <1>1, <3>2 DEF AnswerCounted, Stream
    <3>3. CASE AnswerFailed(m)
      BY <1>1, <3>3 DEF AnswerFailed, Stream
    <3>4. CASE AnswerEnds(m)
      BY <1>1, <3>4 DEF AnswerEnds, Stream
    <3> QED BY <1>3, <3>1, <3>2, <3>3, <3>4
  <2> QED BY <1>1, <2>1, <2>2 DEF Undisturbed, Stream
<1>4. CASE TextureCreated
  BY <1>1, <1>4 DEF TextureCreated, Undisturbed, Stream
<1>5. CASE CancelThread
  <2>1. ~CancelTask /\ ~CancelRequest
    BY Counters DEF CancelTask, CancelRequest, At, IInv, Progress, AbortedFirst
  <2>2. CASE CancelTaskUnlock
    BY <2>2, StreamUndisturbed DEF CancelTaskUnlock
  <2>3. CASE TaskReleases("canceller")
    BY <1>1, <2>3, StreamUndisturbed DEF TaskReleases, Released, Tasks
  <2> QED BY <1>5, <2>1, <2>2, <2>3 DEF CancelThread
<1>6. ASSUME NEW t \in {"render", "async"}, TaskCounted(t)
      PROVE  Undisturbed
  <2>1. PICK kind \in {"Render", "Async"} :
          stream' = stream /\ tasks' = [tasks EXCEPT !.scheduled[kind] = @ - 1]
    BY <1>6 DEF TaskCounted, CountedOff, TickingAs
  <2>2. tasks.scheduled \in [{"Render", "Async"} -> Nat]
    BY <1>1 DEF Tasks
  <2>3. tasks'.scheduled = [tasks.scheduled EXCEPT ![kind] = @ - 1]
    BY <1>1, <2>1 DEF Tasks
  <2>4. \A k \in {"Render", "Async"} : tasks'.scheduled[k] <= tasks.scheduled[k]
    BY <2>2, <2>3
  <2> QED BY <2>1, <2>4 DEF Undisturbed
<1>7. ASSUME NEW t \in {"render", "async"}, TaskReleases(t)
      PROVE  Undisturbed
  BY <1>1, <1>7, StreamUndisturbed DEF TaskReleases, Released, Tasks
<1>8. CASE RenderCommand \/ AsyncTask
  BY <1>1, <1>8, StreamUndisturbed DEF RenderCommand, AsyncTask, Tasks
<1>9. CASE Game
  <2>1. CASE AbortCancelsReads
    BY <1>1, <2>1, StreamUndisturbed DEF AbortCancelsReads, Tasks
  <2>2. CASE LookForLockedUpdates \/ WaitForUnlock \/ SuspensionReturns
    BY <1>1, <2>2, StreamUndisturbed DEF LookForLockedUpdates, WaitForUnlock, SuspensionReturns,
       FlushThen, SuspensionDone, Tasks
  <2>3. CASE GameTicked
    BY <1>1, <2>3, StreamUndisturbed DEF GameTicked, Released, Tasks
  <2>4. ~StreamIn
    BY DEF StreamIn
  <2>5. CASE \/ TickStreaming \/ IsReadyForFinishDestroy \/ CancelPendingStreamingRequest
             \/ BeginDestroy \/ AbortMarks \/ SuspensionBegins \/ ResumeRenderAssetStreaming
    BY <2>5, StreamUndisturbed DEF TickStreaming, IsReadyForFinishDestroy,
       CancelPendingStreamingRequest, BeginDestroy, AbortMarks, SuspensionBegins,
       ResumeRenderAssetStreaming
  <2> QED BY <1>9, <2>1, <2>2, <2>3, <2>4, <2>5 DEF Game
<1> QED BY <1>2, <1>3, <1>4, <1>5, <1>6, <1>7, <1>8, <1>9, Threads
        DEF Next, GameThread, RenderThread, AsyncThread, ReadThread, InUpdate

\* Once SuspendRenderAssetStreaming has returned an update that goes on asks
\* for no task, begins no read and changes no texture.
THEOREM SuspensionAlwaysQuiet == Spec => SuspensionIsQuiet
<1>1. IInv /\ [Next]_vars =>
        [asset.quiet /\ asset'.quiet /\ ~update.bIsCancelled
         /\ asset.pending /\ asset'.pending => Undisturbed]_vars
  BY QuietStep DEF IInv, SuspensionHolds
<1>2. IInv /\ [Next]_vars =>
        [asset.quiet /\ asset'.quiet /\ ~update.bIsCancelled
         /\ asset.pending /\ asset'.pending =>
           /\ \A kind \in {"Render", "Async"} :
                tasks'.scheduled[kind] <= tasks.scheduled[kind]
           /\ \A m \in Mips : stream'.read[m] = "reading" => stream.read[m] = "reading"
           /\ stream'.memory = stream.memory
           /\ stream'.intermediate = stream.intermediate
           /\ stream'.shown = stream.shown]_vars
  BY <1>1 DEF Undisturbed
<1> QED BY <1>2, Invariant, PTL DEF Spec, SuspensionIsQuiet

=============================================================================
