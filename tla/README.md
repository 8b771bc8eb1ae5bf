# Specifications of vm-tools

vm-tools holds three Rust crates of a small virtual machine monitor: `epoll` (an
event loop), `utils` (a bitmap) and `hypervisor` (the interrupt routing table).
This directory models them in TLA+, checks the models with TLC on small instances,
and proves the safety properties and the refinements with TLAPS for every instance.

## The system and its parts

| part | code | state | operations |
|---|---|---|---|
| Event registration | `epoll/src/event_context.rs`, `event_notifier.rs` | the map `events` from descriptors to boxed notifiers, the kernel's interest list, `gc` | `add_event`, `modify_event`, `park_event`, `resume_event`, `rm_event`, `gc_clean` |
| Waking and timers | `event_context.rs`, `timer.rs` (`Timer`) | `timers`, the atomics `kicked` and `kick_me`, the kick eventfd | `tick`, `timer_add`, `timer_del`, `timers_min_duration`, `epoll_wait_manager`, `run_timers`, `run`, `io_thread_run` |
| Dispatch | `epoll_wait_manager` 350-369 | the ready list, each notifier's status lock | calling handlers, applying the batches they return |
| Virtual clock | `timer.rs` (`ClockState`) | `enable`, `paused`, `elapsed`, and the instant `offset` | `enable`, `disable`, `get_virtual_clock` |
| Global event loop | `event_loop.rs` | the static `GLOBAL_EVENT_LOOP`, one thread per io loop | `loop_init`, `set_manager`, `update_event`, `get_ctx`, `loop_run` |
| Helpers | `epoll/src/utils.rs`, `event_notifier.rs` | the list of descriptors a caller recorded | `register_event_helper`, `unregister_event_helper`, `read_fd` |
| Bitmap | `utils/src/bitmap.rs` | a vector of words | `set`, `clear`, `change`, `set_range`, `clear_range`, `clear_all`, `get_data`, and the queries |
| Interrupt routing | `hypervisor/src/interrupt.rs` | `irq_routes`, `gsi_bitmap` | `init_irq_route_table`, `allocate_gsi`, `release_gsi`, `add_msi_route`, `update_msi_route`, `get_irq_route_entry` |

How they interact.  Any thread reaches a loop's context through
`EventLoop::get_ctx`, which hands out a `&mut` from a static: only the locks inside
the context (`events`, `gc`, `timers`, each notifier's `status`) and the two atomics
order the threads.  A change of the registry or of the timers ends with `tick`,
which wakes the loop.  The kernel keeps the raw address of each boxed notifier and
gives it back with an event; the loop turns it into a reference and calls the
handlers, whose results are again batches of registrations.  The interrupt table
keeps its GSIs in a `Bitmap`.

What is hard in them:

- *the kernel's copy of the registry*: every call has to keep the map, the status
  and the kernel's list in step, on its error paths too, or freed memory is
  dispatched;
- *parking*: a notifier may take another descriptor out of the kernel's list and
  has to give it back, whatever was removed in between;
- *sleeping*: three atomic accesses on each side, the timers lock and an eventfd
  decide whether a loop that is about to sleep notices a new timer or a kick;
- *timers*: expiry, insertion, removal and execution happen under different or no
  locks;
- *rounds*: the loop turns addresses it got from the kernel into references without
  the lock of the map they are removed from, and holds a status lock while it calls
  handlers;
- *batches*: a batch of requests stops at its first failure, between the requests of
  other threads, and its caller keeps a record of what it believes is registered;
- *word arithmetic* in the bitmap, at the boundaries of words and of the bitmap;
- *two records of one fact* in the interrupt table: routes and taken GSIs.

`PROJECT.json` lists the hazards one by one, at their lines, each with the
properties that cover it or the reason why none does yet.

## Modules

### EventRegistry

One action is one request of `update_events`: each operation holds the write lock
of `events` from its first to its last statement, so it is one step.  `heap` maps
addresses to notifiers; a new notifier takes a free address and `gc_clean` frees it
again, so that addresses are reused as an allocator would.  `interest` is the
kernel's list, with the address and the mask it was given.  The epoll system calls
are modelled by their documented errors: `EEXIST` and `EBADF` for ADD, `ENOENT` and
`EBADF` for MOD and DEL.  `CloseFd` and `OpenFd` are the owner's: a descriptor in
`Closable` may be closed while it is registered (the code expects this, see
`fd_released_test`), the kernel then forgets it, and its number can come back.
Errors of these calls other than those (no memory, descriptors epoll cannot watch)
are left out.

`CheckedPark` restricts callers to parking watched descriptors; without it,
`add_event` leaves entries in the kernel's list that have no notifier (the first
finding).

### FdOutcomes and FdRegistry

`FdOutcomes` says, without boxes, kernel entries or statuses, what each request may
return and which descriptors are registered after it: a failed add leaves its
descriptor out, a `Delete` takes it out even when it fails over the descriptor it
parked, a merged add keeps the notifier it finds.  `FdRegistry` is the specification
made of these outcomes, and `EventRegistry` implements it (`ImplementsFdRegistry`),
with `registered` the domain of `events` and `parking` the notifiers that name a
`parked_fd`.  `EventLoop` uses the same operators for its contexts, so that what it
shows of the devices rests on the code of the registry and not on a guess about it.

### EventDispatch

Extends `EventRegistry` by the loop's thread and the locks.  `pc` is the loop's
place in a round, `ready` what is left of the addresses that `epoll_wait` reported,
`cur` the notifier whose handlers run or whose batch is applied.  `epoll_wait` may
report any part of what is watched.  A notifier that is no longer `Alive` is passed
over; otherwise its status lock is held (`Held`) until the handlers have returned,
and then their requests are applied one by one, up to the first that fails.  Which
requests they return is chosen when each is applied, which includes every batch.
`gc_clean` ends the round.

Any other thread may make any request in between (`Call`).  A request locks
`events` throughout and the statuses that `Locks` names on its way.  When the loop
holds one of them, the caller stands with `events` locked (`CallWaits`, with the
statuses in `waiting`), nobody else can make a request, and it goes on when the loop
has let go (`CallResumes`).  The request is applied there, in one step, although the
code has made some system calls before it blocks.  Nobody can tell: the map and the
statuses are read under `events` or under the status lock it waits for, and the one
thing another thread can see early is the kernel's list, where a new notifier may be
reported before it is in the map, which runs its handlers a little sooner, or a
descriptor that is on its way out is no longer reported.  The lock that a shared add
takes on a registered notifier is left out: it comes after all its effects and only
decides on a warning.

Left out: the data race between the loop's iteration of `handlers` and the calls
that change that vector under `events` only (119-121, 151-152); a handler that calls
the loop itself instead of returning requests, which would wait for the status lock
of its own thread; and the polling of `io_thread_run`, which holds the read lock of
`events` and finds `handler_poll` always `None`.

`DeleteFirst` says that owners close a descriptor only after a `Delete` of it has
returned.  That is all an owner knows: `retired` holds the descriptors whose owners
have decided to close them when a `Delete` returned, well or with an error, and
`OwnerCloses` comes at any later time.  In between another thread, or a batch that a
handler returned, may add the descriptor again, and the close then happens under a
registered notifier.  `late` is history: the registered descriptors that were added
while they were retired.  `HandlerFdIsValid` and `AliveIsHeard` say that this is the
only way in which a handler can run on a closed descriptor and a notifier can be
`Alive` and deaf.  There is this way (add, `epoll_wait`, handlers, close), so that
the comment of `read_fd`, "notifier handler is executed with fd is is valid"
(`epoll/src/utils.rs:44-45`), is not true of every owner that deletes first.  Both
properties rest on `Delete` leaving its descriptor out of the map also when it fails.

### EventLoop

The static `GLOBAL_EVENT_LOOP` (`contexts`, with `{}` for `None`), the threads that
a `loop_init` has still to start, each context's thread and manager, and the devices
with their records.  A context is what `FdOutcomes` says of it.  `loop_init` starts
threads in any order, and any of them may fail to start; a loop ends when its
manager says so or with any error; the main loop may be run again.  A device is in
one helper at a time.  Its batch is applied request by request with those of other
devices in between, and the record changes when the whole batch has succeeded.
`update_event` panics when there is no loop, and changes nothing when there is no
context of that name.  The rounds themselves are in `EventDispatch` and
`LoopWakeup`.  Two calls of `loop_init` at once are left out: they race on a static
mut.

`stuck` and `left` are history: devices an unregister of which has failed, and what
failed registers had added before they failed.

### LoopWakeup

One action is one atomic access, one critical section of the timers lock or one
system call, both of the loop and of the callers, so that TLC interleaves what the
hardware does.  `pc` is the loop's place, `at[c]` a caller's.  The atomics are
`SeqCst`, so interleaving is their semantics.  `now` advances by itself; it is read
where the code reads the clock: before the lock in `timer_add` and `run_timers`, in
`timers_min_duration`, and at the call of `ppoll`.  `IoThread` selects between `run`
and `io_thread_run`, which looks at the timers twice; its polling of `handler_poll`
between the two looks does nothing, because `EventNotifier::new` sets `None` and
nothing else sets it.

A callback that adds a timer on the loop's thread is the case in which a caller
runs while the loop stands in `Fire`.  Handlers of descriptors other than the kick
descriptor are left out; what they do to this part is: they end a sleep
(`Interrupt`) and are followed by an `update_events`, that is by a tick (`Disarm`
may go to `update`).  A failure of `ppoll` or `epoll_wait` other than `EINTR` ends
the loop where it stands (`WaitFails`).  A timer's id is its name, not its address.

`TimerService` is what callers are promised: a timer is pending from its insertion
until it is called, not before its expiry, or removed.  `ImplementsService` maps the
pending timers to those in the list together with those drained and not yet called;
`timer_del` finds the former only.

### ClockState

Three actions, and the passage of time.  `ran` counts how long the clock has been
enabled and `twice` which calls were made when they had nothing to do; they are
history, and nothing depends on them but the properties.

### BitSet and Bitmap

`BitSet` is the promise: a set of numbers below a volume; an argument outside is
refused; a range is applied up to the end of the bitmap and then refused if it goes
on.  `Bitmap` is the algorithm: a vector of words, a word being the set of its bits,
masks made by shifts that lose what leaves the word.  `set_range` and `clear_range`
take one step per round of their loop, because they can fail on the way.  The
refinement maps the words to the numbers that are set, as they were before a call
under way.  An access behind the last word panics, in `contain` and in
`count_front_bits`; only the first is ever there.  The overflow of `start + len` is left out.

### IrqRouteTable

Composes `BitSet`: `allocate_gsi` is the search for the first free GSI, from 0,
followed by `Bits!Set` of the answer, and `release_gsi` is `Bits!Clear` followed by
the removal of routes.  The search from 0 is within what `FindsFirst` shows of the
bitmap, so finding 4 does not reach this table.  Devices route
and release only what they hold and initialise the table at most once; nothing in
the code enforces either, and nothing in the repository calls the table yet.  The
table may be initialised before or after devices allocate: `early` is history, the
GSIs that devices held when it was.  Those among the pins' may have two owners, and
a release takes the pin's routes along; `GsiAccounted` and `PinsKeepRoutes` bound
the damage to them.

## Runs

Each passing run explores its full state space; each violation run stops at the
counterexample that its finding describes.

| run | instance | shows |
|---|---|---|
| `EventRegistry_close` | 2 descriptors, one of which may close; 3 addresses; 2 masks; all operations | consistency of map, kernel and gc; failed adds are the only origin of orphans, which no call repairs; a failing call changes nothing but its own target; the refinement of `FdRegistry` |
| `EventDispatch` | 2 descriptors, one of which its owner may close after its `Delete` and open again, the kick descriptor, 3 addresses; watched descriptors are parked by adds, no manual park, and no `Modify`, which changes nothing but handlers | no box a round may use is freed; a running handler's descriptor is registered, and open but for late adds; Alive ones are watched but for late adds; parked ones have their parker; loop and callers do not wait for each other |
| `EventRegistry_orphan` | as the first, one mask | violation: finding 1 |
| `EventLoop` | 2 io threads and the main loop; in one context a device that adds two descriptors exclusively and one that may register its descriptor, which parks another, twice | which contexts are served; records against what is registered; unregistering after failures |
| `LoopWakeup_timers` | 2 threads, 2 timers, delays 0 and 1, `io_thread_run`, kicks, exit, failing waits | no lost wake-up; order of the timers; each timer once; the refinement of `TimerService`; every timer runs; a quiet loop rests |
| `LoopWakeup_exit` | 1 thread that asks to exit | violation: finding 2 |
| `ClockState_any` | 8 units of time | no underflow; only repeated calls distort |
| `ClockState_paused` | 4 units of time | violation: finding 3 |
| `Bitmap_set` | 3 words of 3 bits, arguments up to 10 | the refinement of `BitSet`; the queries |
| `Bitmap_find` | 2 words of 3 bits | violation: finding 4 |
| `IrqRouteTable_devices` | KVM answers -1, 0, 1 and 2; words of 2 bits; 2 pins; 2 devices, 2 vectors, 2 added routes | accounting of GSIs and routes, in every order of the devices and of `init_irq_route_table` |
| `IrqRouteTable_unwrap` | the same, 1 added route | violation: finding 5 |

Why the bounds are enough.  Parking needs a parker and a parked descriptor, and two
that park each other make every cycle of adds and removals there is; an address is
reused after one removal and one clean, and with three addresses for two descriptors
and the kick descriptor a new notifier takes the address of a removed one as soon as
it is freed, so that stale pointers are visible.  What the runs check of the registry
of rounds and of the helpers is proved for any number, liveness apart.  A record that stays behind
needs a batch of two and a failure between; a shared descriptor is on record twice
after two registers.  A lost wake-up needs a sleeper, a caller between two of its steps, and a
timer that comes before another; the second caller makes ticks overlap.  A range
call passes through at most a first, a whole and a last word, so three words hold
every case, and arguments go beyond the end.  Words of three bits keep word and bit
indices apart from each other and from powers of two that would make shifts and
remainders agree by chance.  `MaxHandlers`, `MaxTime`, `MaxArg` and `MaxRoutes` are
bounds on what callers do; none cuts a step of the code in the middle.

`IrqRouteTable_devices` and `IrqRouteTable_unwrap` do not check deadlock, because a
panic ends the program, and `LoopWakeup_exit` does not, because a loop that exited may be the last thing
that moves.

Fairness in `LoopWakeup` (`FairSpec`) is weak fairness of the loop's own thread, of the
steps of a caller that is inside a call, and of time.  The loop is a thread that
`loop_init` or `loop_run` dedicates to it, and no step of a call waits for anything
but a lock that is held for a bounded time.  No fairness is assumed of interrupts,
of failures or of further calls.

Fairness in `EventDispatch` (`RoundFairness`) is weak fairness of the loop, whose
batches are finite, and of a waiting caller that finds its lock free.  Weak fairness
is all that a `Mutex` gives: it promises no turns, and a loop that is never without
events may take the status again before the caller gets it.  That a caller is served
in the end is therefore false, and `NobodyWaitsForever` says what is true: every
round ends, and a caller waits for ever only when the loop takes what it needs again
and again.

Each property of a passing run has a mutant in `PROJECT.json`: a definition marked
`faulty` beside the one it distorts, with which TLC finds the property violated.

## Findings

1. `add_event` registers with the kernel before it looks at `parked_fd`, and does
   not undo it when that fails (`event_context.rs:127-141`).  The kernel keeps the
   address of a dropped box, and the descriptor that a later `Delete` calls "not
   registered in epoll" is.
2. An exit request and its tick are lost between `run`'s question to the manager and
   the `kicked.store(false)` of `timers_min_duration`.
3. A paused `ClockState` shows the wrong duration; `test_virtual_clock` fails at
   `timer.rs:90`.
4. `find_next_zero` and `find_next_bit` do not reset their bit offset behind a word
   they skip.
5. "This unwrap() will never fail" (`interrupt.rs:116`) fails at the first pin when
   the bitmap has no words: when KVM answers 0 or an error, and on a `Default` table.
   With any other count it does not fail.

Besides these, `ContainsWhatIsSet` shows that `contain(vol())` panics, and `vol` that
`IrqRouteTable::new` uses a count of GSIs as a count of 64-bit words, so that devices
are given GSIs far beyond those that KVM routes.
After a `loop_init` one of whose threads did not start, a later one returns `Ok` and
starts nothing: `InitServes` is only about loops whose every `loop_init` returned
`Ok`.  An unregister of descriptors that are shared with other devices, or that park
others, can fail at the same one for ever: `UnregisterSucceeds` is only about devices
that share and park nothing.

## Proofs

Eight modules hold proofs; TLAPS checks them from the assumptions named in the modules
on their constants (`RegistryAssumption`, `DispatchAssumption`, `LoopAssumption`,
`WakeupAssumption`, `ClockAssumption`, `IrqAssumption`, `BitmapAssumption`) and no others.

- `EventRegistry_proof`: `TypeCorrect`; `RegistryIsSound`; `KernelPointersAreAlive`;
  `AliveOnesAreWatched`; `ParkedOnesHaveParkers`.
  `RegistrySound` is inductive together with `TypeOK`: that gc holds exactly the
  removed addresses is what keeps a new notifier from taking an address that is
  still to be freed, and that the map names each address under one descriptor only
  (from `raw_fd`) is what keeps one call from changing another's notifier.
  `KernelPointersAlive` needs in addition that no orphan appears, which
  `CheckedPark` gives.  The last two are proved over the effects of a request: one
  lemma (`RequestEffect`) says that each request leaves things as they are, switches
  one notifier, adds one or removes one, and what these do to watched and parked
  descriptors is shown once for all operations.
- `EventRegistry_steps_proof`: the action properties `OrphansAreKept`,
  `OrphansComeFromAdds` and `FailuresAreLocal`, request by request from
  `RegistrySound`: that the map names each address under one descriptor is what keeps
  a failing call away from another's notifier.
  It also holds the refinement `RegistryImplementsFdRegistry`, with one lemma per
  operation that finds its outcome among those of `FdOutcomes`.
- `EventDispatch_proof`: `DispatchImplementsRegistry`, every step of the composition
  is a step of the registry or none, so that the invariants above hold of it
  (`PointersAliveInRounds`, `ParkersInRounds`); `DispatchTypeCorrect`; `ReadyOnesAreBoxed`; `HandlersHaveTheirFd`;
  `AliveOnesAreHeard`.  `ReadyIsBoxed` holds because only `gc_clean` frees, at the
  end of a round, and what the kernel reports at its beginning is alive
  (`KernelPointersAlive`).  `HandlerFdIsValid` holds because a request that would
  park or remove the notifier needs the status that the loop holds, and because of
  `OpenInMap`: a descriptor that is in the map, and was not added late, is open and
  not retired, so no close can come to it.  It is inductive because a descriptor is
  not in the map when its `Delete` returns (`DeleteForgets`), and because the kernel
  refuses an add of a closed one.  `AliveIsHeard` rests on it too.
- `EventLoop_proof`: `TypeCorrect`; `InitsServe`; `RecordsStayTrue`;
  `UnregistersSucceed`.  Records are not inductive: while a device is in a helper,
  what is registered for it is told by the suffix of its batch that is still to be
  applied (`SimpleInv`).  What keeps apart what is on record and what was left is
  that a batch is added in order: the first descriptor of it is registered whenever
  any of them is, so a second register fails at its first request.
- `LoopWakeup_proof`: `TypeCorrect`; `TimersAreSorted`; `WakeupIsNotLost`;
  `TimersRunOnce`; `DrainTakesWhatIsDue`; `LoopImplementsService`.
  `NoLostWakeup` is not inductive.  The invariant `IInv` adds three facts: from the
  store of `kicked` on, a timer earlier than the loop has seen implies that `kicked`
  is true or the adding thread is about to set it (`KickedIfEarlier`); between
  arming and disarming, `kick_me` is true whenever the loop may sleep
  (`ArmedFirst`); and a kick that came after the recheck has been or will be
  written to the eventfd (`KickDelivered`).  TLC checked `IInv` before it was
  proved.  That a timer is in one place needs that no two callers have boxed the
  same one, and the refinement that what is drained is due.
- `ClockState_proof`: `TypeCorrect`; `NeverUnderflows`; `KeptTimeIsTrue`, from the
  difference of the kept time and `ran`.
- `IrqRouteTable_proof`: `GsisAreAccounted` and `RefusesOnlyWhenFull`, from an
  invariant (`IInv`) that relates the bitmap, the pins and what devices hold, and held
  early, in each phase of the table; `TypeCorrect`,
  `PinsKeepTheirRoutes` and `NoRouteIsInherited`, from `RouteInv`, which adds that
  every route is of a GSI that is taken (`RoutesTaken`): a GSI that is given out was
  free, so it had none.  TLC checked `RoutesTaken` before it was proved.
  The routes are filtered entry by entry with a recursive function (`RoutesOf`).  The
  library's induction theorems cannot be used here, so what holds of every entry is
  proved by the least one of which it does not hold (`FromZeroUp`).
- `Bitmap_proof`: `TypeCorrect`; `ContainTellsMembers`, `CountIsOfMembers`,
  `SearchFindsFirst` and `SearchFromZero` for the queries; `ImplementsASet`.
  The code goes to a bit through its word and its place there, and the properties
  speak of numbers: `Place`, `PlaceOf`, `Before` and `InOrder` go from one to the
  other.  The bits that `count_front_bits` visits are counted through a one-to-one
  map to the members before `offset`.  `FoundFrom` says what a search sees when it
  begins inside no word that it skips; a search from zero never does, so `allocate_gsi`
  is not touched by finding 4.
  The refinement needs `CallInv`: a range call has changed exactly the numbers from
  its start to its position, none beyond the volume, and its mask is the rest of the
  word there.  Every round of the loop maps to a stutter and the return to the
  whole range, also when the call runs out of words half-way.  TLC checked `CallInv`
  before it was proved.

Every invariant and action property of the passing runs, and every refinement they
check, is proved.  Only model-checked are the liveness properties `TimerRuns`,
`SleepsWhenQuiet` and `NobodyWaitsForever`, which are out of the prover's reach, and
the violations of the findings.

## Not modelled

- Data races with no outcome to enumerate: the vector of handlers, `set_manager`
  against a running loop, `loop_init` on two threads.  The models take each of these
  accesses as one step at a time.
- Handlers that call their own loop; nothing in the repository does.
- `handler_poll`, which nothing sets.
- File descriptions apart from descriptors: one that was duplicated before it was
  closed stays in the kernel's list, where the code believes it gone.
- Timer ids as addresses: `timer_del` of the id of a timer that ran may remove
  another one in the same memory.
- The overflow of `start + len` and `value` of the bitmap; the aarch64 constants of
  the interrupt table; error types, log messages, and the value read from an eventfd.

## Plan

What could be added: timer ids as addresses, with a `TimerService` that says how long
an id may be used.
