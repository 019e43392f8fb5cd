# Formal models of bop

This directory is a TLA+ development of bop: its concurrent core (the intrusive
job queues, the thread pool and how it starts and stops, the spin locks) and the
parts of the library around it that have a state (the task queue, the argument
captures, generators, coroutine jobs and `Function`). It holds modules that model
the code step by step, the configurations with which TLC checks them, and proofs
that TLAPS checks for every number of threads, jobs and queues.

## 1. Inventory

bop is a C++20 library: a thread pool for jobs, the start of a second design of
it (tasks), coroutine types and utilities.

| component | state | operations | correct when |
|---|---|---|---|
| `JobQueue` (`job/job_queue.*`) | `m_Lock` (an `atomic_flag` used as a spin lock), `m_Head`, `m_Tail`, `m_NumEntries`, and the field `Job::m_Next` of every job | `push`, `pop`, `clear`, `size` | its callers see an atomic FIFO whatever they interleave |
| `JobQueueNonThreadsafe` | the same without a lock, in `thread_local` variables | the same | the same, by thread confinement |
| `Job` (`job/job.*`) | `m_NumChildren`, `m_Parent`, `m_Continuation`, `m_ThreadIndex`, `m_Work` | `then`, `wait`, `reset`, call | a wait ends exactly when the work is done; a continuation follows its job |
| `JobSystem` (`job/job_system.*`) | per worker: a local and a global queue, a trace log, bins, loop variables; `m_NumThreads`, `m_Shutdown`, `m_ShutdownComplete` | constructor, `schedule`, `worker`, `shutdown`, `wait_for_shutdown` | work runs once, to its end, and memory has one owner; shutdown ends, quietly |
| `TaskQueue`, `TaskScheduler` (`task/*`) | a queue with a `LockGuard`, two `thread_local` bins | `push`, `pop`, `clear`, `size`, `allocate_task` | as `JobQueue`; a reused task is as new |
| `Spinlock`, `RecursiveSpinLock` (`util/spinlock.*`) | one atomic; owner hash and count | `lock`, `try_lock`, `unlock` | mutual exclusion; reentrance is counted |
| `Function` (`util/function.*`) | invoker, controller, inline storage | construct, assign, swap, call, destroy | a callable is destroyed exactly once, by a pointer that knows its type |
| `CaptureSlots`, `CaptureLambda` (`main.cpp`) | optional arguments and an atomic count of those missing | `set_arg`, `call` | `call` runs the callable exactly when all are set |
| `Generator`, `iota`, `range` (`job/co_generator.*`) | coroutine handle and promise | move, destroy, begin, increment, compare | a frame has one owner; a loop sees the sequence once and ends |
| `CoJob` (`job/co_job*`) | coroutine handle, payload of the promise | call, `get`, destroy | the body runs once, and every `get` has its outcome |
| the rest of `util`, the demo, the tests | none that matters here | | |

**How they interact.** Whoever needs the system constructs a `JobSystem`, and
every `bop::schedule` does: the first constructor sets the static members and
starts the workers, which wait for each other at a barrier. A thread of the program (a *client*) or the work of a job
calls `schedule`: a `Job` comes from the thread's recycling bin or the memory
resource, is filled in, pushed to a queue, and one sleeping worker is notified.
A worker pops its local queue, its global queue, then steals from the other
global queues, runs the job, turns to the job's continuation, and between the
two counts the job as completed, up the chain of parents, and recycles it. A
worker that finds nothing for some time empties its garbage bin and sleeps on
the shared condition variable, for at most 100 ms. `shutdown` sets a flag; each
worker drains its queues and bins when it sees it, and the last one to stop
writes the trace log and sets `m_ShutdownComplete`. All lists thread their jobs
through the one field `Job::m_Next`, so the correctness of each queue rests on
what all the others do with the job.

**What is hard.** Interleavings inside the lists; one job on two lists; lost and
misdirected notifications; a constructor that is overtaken; `then` and `wait` on a `Job&` whose memory may have
been recycled; chains that are extended while they run; workers that stop while
others still schedule; the arithmetic of steal attempts and of `m_NumChildren`.
`PROJECT.json` lists each of these hazards at its line, with the properties that
cover it.

## 2. Modules

| module | models | how |
|---|---|---|
| `JobFifo` | the promise of `job_queue.h` | each call takes effect in one instant between its call and its return |
| `JobQueue` | `job_queue.cpp`, both classes | one action per step of an operation that another thread could observe if the lock failed; one program counter per thread |
| `MCJobQueue` | | two threads with a bin each, one shared queue, three jobs |
| `JobQueueProofs` | | invariants of `JobQueue`, for all constants |
| `JobQueueRefinement` | | `JobQueue` implements `JobFifo`, for all constants |
| `WorkPool` | the promise of `job_system.h` and `job.h` | what becomes of each piece of work, in seven actions |
| `JobSystem` | `job.*` and `job_system.*`, from the moment the workers have passed their start barrier | one action per access to shared state; a queue is a sequence and its operations are atomic |
| `MCJobSystem` | | two or three workers, a client, up to three jobs |
| `JobSystemProofs` | | its types and its end, for all constants |
| `JobSystemOwnership` | | `OneOwner`, for all constants |
| `JobSystemPromises` | | what becomes of the work, and `ImplementsWorkPool`, for all constants |
| `JobSystemStart` | the constructor of `JobSystem` and the prologue of `worker` | one action per access to a static member; a queue is its number of jobs |
| `MCJobSystemStart` | | two callers, one to three workers |
| `JobSystemStartProofs` | | its safety, for all constants |
| `AbstractLock` | the promise of `spinlock.h` | each acquisition and release takes effect in one instant |
| `Spinlocks` | `spinlock.cpp`, both classes | one action per access to a shared variable |
| `MCSpinlocks` | | three threads, a depth of two |
| `SpinlocksProofs` | | invariants and both refinements, for all constants |
| `TaskQueue` | `task/task_queue.cpp` | an instance of `JobQueue` with the names of the task library |
| `Captures` | `CaptureSlots` and `CaptureLambda` of `main.cpp` | one action per access to the count or to an argument |
| `Generators` | `job/co_generator.*` | one action per operation of the generator, its iterator and the loop |
| `CoJobs` | `job/co_job*.*` | one action per operation |
| `FunctionStorage` | `util/function.*` | one action per operation |
| `Library` | | the last five in one specification, one in each behaviour |
| `MCLibrary` | | a small instance of each |
| `LibraryProofs` | | the safety of `Captures`, `CoJobs`, `FunctionStorage` and `Generators`, for all constants |

`JobSystem` builds on `JobQueue` in the way the code does: `JobQueue` shows that
the linked lists are atomic FIFOs **if** a caller pushes only jobs that are on no
other list (the guard of `Begin` on `hand`), and the invariant `OneOwner` of
`JobSystem` shows that the system keeps to that. `JobSystem` begins where
`JobSystemStart` ends, with every array there and the workers past their barrier,
and it implements `WorkPool`: `ImplementsWorkPool` reads the four variables of
`WorkPool` off the history `task` and the two flags.

### 2.1 JobQueue

The variables have the names of the members. `pc[t]` is the next step of the
operation thread `t` is in, `call[t]` that operation, `result[t]` the local
variable of that name, `hand[t]` the jobs a thread holds and may push. `contents`
is a history variable, the list as a sequence, changed where the operation takes
effect. A shared queue goes through `Lock` first; a bin does not, and is called
by its owner only. `test_and_set(acquire)` and `clear(release)` order the
critical sections, so interleaving the steps is a faithful picture of the memory
model. Initially any thread holds any job; a job that is cleared off a list is
never pushed again (the caller has no pointer to it left), as in the code.

### 2.2 JobSystem

Each action is one step of the code up to its next access to shared state; the
thread-local variables and the fields of a job nobody else can reach yet change
in the same step. `FinishWork` reads `m_Continuation` and hands the parent on in
one step; its comment says why. `Schedule` pushes the job and notifies in one
step: a worker that goes to sleep between the push and the notification is woken
by it in the code and is not in the model, so the model loses more wakeups than
the code and the liveness that it has does not depend on them; nothing else
reads or writes anything in between. `JobCompleted` is one `fetch_sub`; the
nested calls for the parents are `completing`, and return from the inside out.
`Idle` empties the garbage bin and begins to sleep; `Awake` is the end of
`wait_for`, by a notification, by the timeout or spuriously. `Steal` is one test
of `--numStealAttempts > 0` with the attempt that follows, modulo `UInt32`.

What a job does is any finite sequence of the calls of the library: a worker at
`run` may schedule, chain and shut down any number of times before `FinishWork`.
A job that throws ends in the same way, because `Job::operator()` catches.
`handle[t]` is the `Job&` that `t` got from its last call, with the work it stood
for then; it stays when the memory is reused, as it does in C++.

`task` is a history variable: what became of each invocable that was passed to
`schedule` or `then`, which one it continues, its parent, and whether it came
before the shutdown.

**Assumptions on the callers.** The interface leaves open what is done with a
`Job&` after the job has finished. Three constants say what callers do:
`MayChainLate` (they call `then` on a job that may have finished), `MayUseParent`
(they pass parents), `MayShutdown`. The passing runs have the first two off,
because the code does not support them: the runs `js_late_then` and `js_parent`
show what happens. Only clients wait: a wait in the work of a job keeps its
worker, and `job.h:22` restricts `wait` to unit tests.

### 2.3 JobSystemStart

`JobSystem` keeps its state in static members which the first constructor sets
one after the other, behind the counter `m_InitOnce`; a thread that comes second
returns at once, also when the first has not finished. `pc[c]` is the position of
a caller: in the constructor (`InConstructor`), in front of it ("ready"), behind
it ("constructed"), or in the two steps of `schedule_work` ("place", "push"). A
caller that uses a member that is not set yet goes to "broken" and stops there:
what it does in the code is undefined. `pc[w]` is the position of a worker, from
"none" (not started) by the barrier to its loop. `remaining_workers` is the
function static of `worker`, which the first worker initialises. The model keeps
as much of the loop as the start can disturb: the pop of the own global queue,
and the way out, which decrements `m_NumThreads` under the workers that are slow
to compute `steal_from`.

`BreaksOnlyIfOvertaken` says who can meet a member that is not set: only a caller
that runs while another one is inside the constructor. The comments of the code
promise more ("initialized just once" is all a caller has to know); the
difference is recorded under `findings` in `PROJECT.json`.

### 2.4 WorkPool

The pool as its callers know it: submitted work is started once, by one of
`NumWorkers` workers; chained work is started after the work it continues, which
nothing else continues; only a shutdown drops work, and never work that was
started; `complete` comes when nothing runs, and nothing is started after it.
Queues, stealing, sleeping, jobs, their memory and its reuse are below it.

### 2.5 Spinlocks

Threads call `lock`, `try_lock` and `unlock` of one `Spinlock` and of one
`RecursiveSpinLock`, and unlock what they have locked; one that holds the
recursive lock does not wait for the other one, so that callers cannot deadlock
by the order of their locks. `exchange` and `compare_exchange_strong` read the
last value. The relaxed load at the start of the recursive `lock` and `try_lock`
may read an old value (`Loaded`): anything but the thread's own hash if the thread
does not own the lock, because its own last write was then the 0 of an `unlock`,
and its own hash if it does, because it wrote last. `get_local_hash` hands out the
hashes 1, 2, 3 on first use. `m_Count` is a plain member: it is changed in the
steps `Count` and `RUnlock`, which mutual exclusion keeps from meeting. `holds` and
`depth` are history variables: what each thread has acquired and not released.

### 2.6 The rest of the library

**TaskQueue** is `JobQueue` member by member, with a guard in place of the explicit
`clear`, so it is modelled as an instance, and must implement the same FIFO.

**Captures.** Each argument is set by a thread of its own and one more thread
calls. The assignment of an `optional` is two steps, with a value that is there
but not complete in between. `CaptureSlots` assigns and then counts;
`CaptureLambda` counts, if there was no value, and then assigns, which is why
`CallFindsItsArguments` has to except an argument whose first `set_arg` is
between the two (a finding). `again` records that an argument of a
`CaptureSlots` was set twice, which its count does not support.

**Generators.** A frame is resumed by `begin` and `++` of an iterator that has a
copy of the handle, while the Generator may be moved, assigned to and destroyed
between any two steps of the loop. What would be undefined (resuming a frame
that is at its end or destroyed, destroying one twice) leads to "broken". The
arithmetic is that of a type of two bits, with all combinations of a start, an
end and a step that do and do not overflow; `YieldsTheSequence` compares what the
loop gets with the set of the elements, and is restricted to ranges whose sums do
not overflow, because range itself makes no promise for the others.

**CoJobs.** `get` resumes the coroutine to its end and returns what the promise
has. `CoJob` can be copied by the implicit constructor, and a copy
destroys the frame of the original; `KeepsItsCoroutine` is about the
frames that were not copied, for its first part.

**FunctionStorage.** A Function has two pointers that know the type of what its
storage holds. A callable is destroyed through the pointer and with the type that
is there then; a wrong type or a second time leads to "broken". `Swap` exchanges
the storage while a call of a third Function may be in progress.

## 3. Runs

| run | question | answer |
|---|---|---|
| `job_queue` | do the lists survive every interleaving, and are they FIFOs? | yes: 383 140 states |
| `js_work` | does the system implement `WorkPool`, does every job run, and do waits end then? | yes, when no caller chains late or passes a parent: 98 041 states |
| `js_shutdown` | the same with a shutdown at any moment: does it end, with nothing running, freed twice or missing from the log? | yes: 457 452 states |
| `js_steal` | with three workers, is a queued job run although the worker it was given to stays busy? | yes: about 655 000 states |
| `spinlocks` | do the locks exclude, count right, behave like atomic ones, and let someone in when they are free? | yes: 23 108 states |
| `startup` | is the system set up once, completely, before a worker uses it, with callers that construct and schedule at the same time? | yes, except that a caller may overtake the constructor of another: 194 386 states |
| `library` | do the task queue, the captures, generators, CoJobs and Function keep what they own and deliver what they promise? | yes, within the restrictions of 2.6: 306 934 states |
| `js_two_workers` | does `js_steal` hold with two workers? | **no**: two workers never steal (`job_system.cpp:121`) |
| `js_parent` | does a parent wait for its children? | **no**: nobody counts them (`job_system.inl:31`) |
| `js_late_then` | may one chain onto what `schedule` returned, as the test does? | **not safely**: the chain is lost if the job was faster, and a wait for it never returns |
| `js_pinned` | does `thread_index` say where a job runs? | **no**: the job goes to the local queue of the scheduling thread (`job_system.cpp:280`) |
| `js_garbage` | is all memory accounted for? | **no**: garbage is forgotten, not freed (`job_system.cpp:172`) |

The last five check one property each, which a comment or a test of the
repository states, and TLC finds a behaviour of the code that violates it.

**Bounds.** `Works` is as many invocables as `Jobs`: it bounds the length of a
behaviour, and three of them are enough for a chain of three, a chain next to an
independent job, and a job that schedules from its work. `k_RecyclingCapacity`
is 0 in place of 1024 (so that, with the off-by-one of `recycle`, the second job
goes to the garbage bin) and `k_LoopsUntilGC` 1 or 0 in place of 256: the
interesting case is that the limit is reached. `UInt32` is 4 in place of 2^32,
which is above every count that does not wrap. `MayAllocate` is which free block
the memory resource returns: any one in `js_shutdown`, where blocks are freed
and allocated again, and an arbitrary but fixed one elsewhere, where a block is
allocated once and blocks differ in nothing. With two workers all pairs of a
client and a worker, and of two workers, meet; three are needed for stealing,
and there the constraints `NoWaiter` and `NoChain` leave out waits and chains,
which `js_work` has, to keep the run small. `js_shutdown` turns the check for
deadlock off, because the system then stops for good. In `spinlocks` three
threads are a holder and two that compete for what it releases, and `MaxDepth` 2
is the first depth at which `m_Count` and `m_Semaphore` go apart. In `startup` the
requested numbers of threads are none, 0 and 2, with a hardware of 3, so that
pools of one, two and three workers start; two callers are the one inside the
constructor and the one that overtakes it; it turns the check for deadlock off,
as `library` does, because callers that break or have no jobs left stop. In
`library` three arguments are set in any order; two generators and two frames
are what a move needs; three CoJobs on two frames are a copy and a
stranger; two Functions and three callables of different types cover a swap and
an assignment, and calls nest twice.

**Fairness.** `SchedulerFairness` is weak fairness of each worker's own steps and
of a client's return from a poll: the operating system runs every thread again
and again, and `wait_for` ends by its timeout. It says nothing of notifications,
nor of who gets a lock. `WorkReturns` is weak fairness of `FinishWork`: the work
of every job ends. `js_work`, `js_shutdown` and `js_late_then` assume both;
`js_steal` and `js_two_workers` (`BusySpec`) do not assume `WorkReturns`, so that
a worker may stay busy for ever. In `JobQueue`, a thread inside an operation is
scheduled again and again; a thread that spins may starve, and no property says
otherwise. In `Spinlocks` it is the same (weak fairness of `Step`), and the most
it justifies is `FreeLockIsTaken`: someone gets a free lock, not a given thread. In `JobSystemStart` a constructor
that has begun goes on and every worker is scheduled; a caller need not construct,
schedule or shut down. In `Library` only the thread that is inside a range-based
loop is assumed to go on with it (`LoopGoesOn`): its body ends, or breaks.

**Mutants.** For every property of a passing run, `PROJECT.json` names a
definition and a plausible bug in it (a tail that is not reset, a lock kept on
one path, an index that wraps late, a branch that falls through, a queue not
drained) with which the property fails. The mutated forms stand before the
definitions they replace; no action uses them.

## 4. Proofs

`JobQueueProofs` and `JobQueueRefinement` prove, for any sets of threads, jobs,
shared queues and bins:

- `MutualExclusionHolds`: the flag of a queue is set exactly while one thread is
  inside it, and no two threads are ever inside one queue;
- `TypeCorrect`: `TypeOK`; in particular `m_NumEntries` never goes below 0;
- `OneListAtATimeHolds`: no job is on two lists, twice on one, or on a list and
  in someone's hand;
- `ListsAreWellLinkedHolds`: head, tail, links and count agree with the contents
  of every queue nobody is inside;
- `ImplementsFifoHolds`: `Spec => ImplementsFifo`, that is, linearizability.

They rest on `QueueAssumption` only: shared queues and bins are different
objects, each bin has an owner, and `NULL` is none of the other values. Counts
are natural numbers: a queue holds each job once, so 32 bits are enough for fewer
than 2^32 jobs.

**The argument.** `MutualExclusion` comes first: with the types (`IInv1`) and
`MutualExclusion` a thread inside a queue is alone there. None of the other
properties is inductive, because in the middle of an operation a list is not well
linked. `Shape` says what it is instead, for each program counter: which of
head, tail and links are already changed (`Linked` outside of the operations,
`Knows` inside them), and that the count is the length of the contents.
`IInv2` joins `IInv1`, `MutualExclusion`, `OneListAtATime` and `Shape`, and is
inductive (`Spec2`). That the jobs of different lists are different is what makes
a write to `m_Next` of one queue invisible to all the others (`LinkedFrame`).
The refinement then takes one lemma per action: the step before the link of a
push, and the trim of a pop, are stutters, and the others map to a step of
`JobFifo`.

`SpinlocksProofs` proves, for any set of threads and any depth of reentrance:

- `MutualExclusionHolds`, `CountIsDepthHolds`, `TypeCorrect`, and
- `ImplementsSpinLockHolds`, `ImplementsRecursiveLockHolds`: both locks implement
  `AbstractLock`.

They rest on no assumption. `CountIsDepth` gives every owner the hash in
`m_Semaphore`; with `HashesDiffer` there is one owner at most (`OneOwner`), and a
thread that reads its own hash owns the lock already, however old the value is
(`OwnHash`). `Prepared` adds that a thread inside an operation has a hash, and
that only an owner releases; together they are the inductive `IInv`. In the
refinement a successful `compare_exchange`, or the load that finds the thread's
own hash, is the acquisition, and `Release` the release; all other steps stutter.
Hashes and counts are unbounded: 64 bits are enough for fewer than 2^64 threads.

`JobSystemStartProofs` proves, for any number of callers and workers, the type
invariant and all safety properties of the run `startup`. They rest on
`StartAssumption`: no request exceeds `MaxWorkers`, which is at least 1, callers
are not numbers, and `NULL` is none of the other values. The inductive `IInv` has
one part for each thing the start relies on: at most one caller is inside the
part that is done once (`OneConstructor`); what it has set follows from its
position, and while it is still ahead of a member nobody sees that member set
(`SetInOrder`, with `Ahead`); workers exist only behind the constructor and below
its loop variable (`StartedInOrder`); `remaining_workers` is the number of workers
that have not arrived, so that 0 means that the set of those that have is the
whole pool (`BarrierCounts`); `m_NumThreads` is the number of those that have not
stopped (`ThreadsAreCounted`), so that it is no zero divisor in `SetUp`; indices
are in the range of arrays that exist or are still to come (`IndicesInRange`). The
two action properties follow from `IInv` at the step in question.

`JobSystemProofs` proves, for any number of workers, clients, jobs and invocables,
any memory resource and any limits of the bins, and **whatever the callers do**:

- `TypeCorrect`: `TypeOK`; every queue index, thread number, count and victim of
  a steal stays in its range, and the lists hold jobs;
- `AllStopAtTheEndHolds`: `m_ShutdownComplete` is set when every worker has stopped.

They rest on `SystemAssumption`: at least one worker, `UInt32` above their number,
callers and `NULL` that are none of the other values, and a memory resource that
returns a free block. Types alone are not inductive. `IInv` adds what a worker has
in its hands at each position (`WorkerHolds`), that whatever is on a queue, run
next or continued was given work (`HeldJobsHaveWork`), the bound of the recycling
bins, and that `m_NumThreads` is the number of workers that have not left
(`ThreadsAreCounted`), from which the one that counts down to 0 is the last
(`LastOneCompletes`).

`JobSystemOwnership` proves, for the same constants,

- `OneOwnerHolds`: if the callers pass no parent and chain only onto work that has
  not finished, `Spec => []OneOwner`.

This is what `JobQueue` asks of the callers of its lists. With parents it is false,
because nobody counts the children: a parent is recycled when it ends and again
when its child does. `OneOwner` is not inductive: it says that no job is in two
places, and not why a step cannot put it in a second one. `Ownership` adds what
each place says about the work of its jobs (`InPhase`): what is on a queue is
queued, what a worker runs is running, what is in a bin or being completed is
done, and a continuation is waiting, so that places of different kinds cannot
share a job. Within a kind the families of lists are `Apart`, and the lemmas on
families (`TailApart`, `AppendApart`, `EmptiedApart`) say that a pop, a push of a
job that is not listed and a clear keep them so. `WorkOfOneJob` ties the two
together: no two jobs stand for the same work. `HandlesOwn` is what makes `then`
safe under the assumption: a `Job&` to unfinished work leads to a job that is in
use, that stands for this work still and has no continuation yet.

`JobSystemPromises` proves, for the same constants and the same two assumptions on
the callers (no parents, no `then` on finished work), with or without a shutdown:

- `WorkPoolIsImplemented`: `Spec => ImplementsWorkPool`;
- `ContinuationFollowsHolds`: a continuation starts after the work it continues,
  and is not lost in between;
- `ShutdownIsQuietHolds` and `TracelogIsCompleteHolds`: what holds when
  `wait_for_shutdown` returns;
- `WaitMeansDoneHolds`, if moreover nobody calls `shutdown`: `Job::wait()` returns
  when the work is done. The assumption is needed for the proof: a shutdown frees
  queued jobs, so the memory a client polls may hold another job by then.

None of these is inductive. `PInv` (`PromisesHold`) joins what `Ownership` knows of
the places of a job with what the fields and local variables know of the work in
it (`Promises`): running work has a worker at `run`, with its job (`RunningHasWorker`);
only chained work has a predecessor, one that exists and is done before it starts
(`ChainsAreSound`); the handle that `then` returned is that of the last work of its
chain (`HandlesAreLast`);
a worker that is about to turn to a continuation has read the one that belongs to
its finished job, and a job that is in use stores the one that waits for it
(`ReadContinuations`, `StoredContinuations`); so that waiting work is always held,
by the field of an unfinished job or in the hands of a worker (`WaitingIsHeld`),
which is what `ContinuationFollows` comes down to; and the traces are exactly the
finished work (`Traced`). `Closing` is the same for the end: work that was queued
before the shutdown stays on a queue that its worker has still to drain
(`EarlyWorkIsQueued`), although thieves take from it and its owner pops it.

The proof does not go through the properties for each of the actions.
`NextIsAStep` first shows that every action is one of five kinds: a step that
leaves the work alone (`QuietStep`), starts a piece of it (`StartStep`), finishes
one (`FinishWork`), drops one (`DropStep`) or creates one (`CreationStep`). Each kind
says what the action may do to the queues and flags (`Loses`: no queue loses a job
but the one that is started or dropped). The invariants and the refinement then
take one lemma for each kind, and a `QuietStep` is a stutter of `WorkPool` or the
shutdown or its completion.

`LibraryProofs` proves the safety properties of the run `library`, but for the task
queue, from `CapturesAssumption` (a `size_t` can count the arguments) and
`LibraryAssumption` (the elements of a range are of the type, a callable has a
type, `NULL` is no frame or callable). `PartsOfNext` says that a step of the library
is a step or a stutter of each part, so that each part has an invariant of its own:

- `CountIsRight` and `ArgumentsAreThere` for the captures: the inductive part
  beyond the two is where a `set_arg` is, against what has been assigned
  (`Positions`), and that what `call` passes on has been counted.
- `FrameHasOneOwnerHolds` and `YieldsTheSequenceHolds` for the generators. A count
  of owners is not what a step preserves; `OwnedOnce` says instead that no two
  generators have the same frame, and that a frame has one exactly while it can
  be used. `LoopsOverAFrame` is why the handle in the iterator, which the moves do
  not update, stays good: the frame it leads to has been resumed and not been
  dropped, and in the body of the loop it stands at an element. `InSequence` is the
  invariant of the loop of `range` in each frame: the value is
  `from + (yields - 1) * step`, and at the end as many have been yielded as there are
  elements. `FirstElement` and `NextElement` are its two steps: below the limit of
  the type `% (MaxI + 1)` changes nothing (`NoOverflow`), and the number of elements
  below `last` is the number of steps to the first one that is not.
- `KeepsItsCoroutineHolds` for `CoJob`: `HeldOnce`, for the frames of which no copy was
  made, and `RunsOnce`, that a frame has no outcome before its body has run, and
  the same from then on.
- `CallableHasOneFunctionHolds` for `Function`: `StoredOnce` and `KnowsItsCallable`, from
  which the controller always finds its callable alive and of the type that it
  knows (`DestroysItsCallable`), in the middle of an assignment too.

**What is only model-checked.** Liveness (`LockIsReleased`, `EveryWorkRuns`,
`WaitReturns`, `QueuedWorkIsStolen`, `ShutdownCompletes`, `FreeLockIsTaken`,
`EarlyJobsAreTaken`, `LoopEnds`), which is beyond the prover; the violations of the
five runs that expect one; and `TaskQueueImplementsFifo`: `TaskQueue` is an instance
of `JobQueue`, so `JobQueueRefinement` holds of it under other names, but the prover
does not take over the theorems of an instance.

## 5. Not modelled

- `Task` and `TaskScheduler`: unfinished code. `allocate_task` is private and
  nothing calls it, nothing fills its bins, and no worker runs a task, so there
  is no behaviour to model yet.
- The copy and move operations of `Function`, its assignment of `nullptr`, and
  `clone_data` and `destroy_data` on which they rest: their definitions do not
  compile when they are used (`function.inl:15`, `:43`, `:138`, `:143`).
- `co_await` of a `CoJob`: no promise of the library accepts it. A generator whose
  body throws: `iota` and `range` do not.
- `ManualLifetime` and `ScopeGuard` (one constructor or destructor call each, used
  by nothing), the compile-time utilities, and the debug printer
  `describe_object`: no state and no steps.
- Times and the JSON format of the trace log; `clear_tracelog`, which nothing calls.
- The undefined behaviour of one condition variable used with several mutexes,
  other than that a notification wakes some waiter.
- The demo in `main.cpp` and the tests: callers of the library, whose
  expectations are stated as properties of the modules.

## 6. Plan

Done: `JobQueue` and `Spinlocks` with their proofs and refinements; `JobSystem`
with its runs, `WorkPool`, which it implements, and the proofs of all its safety
properties and of that refinement; `JobSystemStart` with its proofs; the parts of
the library, with the proofs of their safety. Every invariant that a passing run
checks is proved for all constants (those of `JobSystem` but its types under the
assumptions on the callers).

Left:

1. `WaitMeansDone` with a shutdown, which needs to say which jobs a shutdown frees.
2. `Task` and `TaskScheduler`, when the code runs tasks.
