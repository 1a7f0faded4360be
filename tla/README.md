# A TLA+ verification of greenleaf

greenleaf is a monitoring and administration daemon written in C: it runs
QuickJS scripts from a crontab, serves an administration interface over HTTP,
finds its peers by multicast and samples the machine's network interfaces. This
directory holds TLA+ models of its own code, the TLC configurations that check
them, and theorems about them proved with TLAPS. Paths and lines below are those
of the repository.

## 1. Inventory

| Component | State it keeps | Operations | Hard because |
|---|---|---|---|
| thread pool, `common/thread_pool.c` | job queue, binary semaphore `has_jobs`, two counters, two file-scope flags, per-thread signals | `thpool_init`, `add_work`, `wait`, `pause`, `resume`, `destroy`; `thread_do`; `thread_hold` | real threads, two mutexes, two condition variables, a signal handler, unlocked reads |
| crontab service, `main.c:2812-2934`, `cron/crontab.c` | job table, per-job trigger times, a pool | load, iterate, trigger, shutdown | late passes, clock set back, shutdown while scripts run, ownership of the jobs |
| cron expressions, `cron/cronexpr.c` | bit sets of an expression | parse, next | carries between the fields of a calendar, in local time with clocks that change |
| node discovery, `main.c:1164-1505, 1650-1693` | `node_list`, sockets | online, heartbeat, receive, ack, list | lost and reordered datagrams, two threads on one list |
| process lifecycle, `main.c:935-1140, 1164-1263` | `s_context`: signal, sqlite handle, event loops | start the threads, stop on a signal | four kinds of threads, none joined, one database handle |
| admin sessions, `main.c:123-176, 2102-2291` | ten slots | login, lookup, logout, expiry | least-recently-used eviction, expiry that must happen |
| interface monitor, `main.c:3264-3410` | `nic_map`, two samples per interface | load, update, report | two threads, double buffer, no lock |
| hash map, `common/hash_map.c` | open addressing with short chains | put, get, remove, rehash | removal under linear probing, load accounting |
| snowflake ids, `common/snowflake.c` | last time, sequence | next id | clock set back, busy wait |
| array list, string builder, logger | buffers | | sequential |
| configuration, HTTP routing, script bindings | records, connections | | wording and I/O |
| WebSSH, `ssh/` | terminals | | compiled out by `CMakeLists.txt` |
| vendored code, examples, scripts, SQL | | | third-party or samples |

How they interact. `main` starts up to four threads: the admin server, the
crontab thread, the interface monitor and the main event loop. The crontab
thread owns the job table and a thread pool; each due job becomes a pool job
that runs a script, which uses the shared sqlite handle that the admin thread
opens and closes. The main event loop receives packets and updates `node_list`,
which the admin thread serialises. Everything stops on `s_context.signal`.

What makes each correct:

* the pool starts jobs in order and once each, loses none while it lives, wakes
  a worker for every queued job, returns from `thpool_wait` neither early nor
  never, and is destroyed only after its workers;
* the crontab service runs a job for every instant it should, not twice for one,
  and stops on a signal without leaving a script with freed memory;
* `cronexpr_next` returns a matching instant after a date, and the first one;
* a peer that lives ends up listed once, as the instance that runs, with what
  its own packets said;
* no script uses the database before it is open or after it is closed, none is
  cut off, and a signal ends the process;
* a live session is found until it is logged out, idle for too long or least
  recently used;
* ids increase; every interface is found in the map; a rate is computed from two
  successive samples of one interface.

`PROJECT.json` lists every component with its status and, under `hazards`, each
place where the code can go wrong in a way a test would hardly reach.

## 2. Modules

| Module | What it is |
|---|---|
| `JobPool` | abstract specification of a pool: jobs start in order, once each; it closes when none runs |
| `ThreadPool` | `thread_pool.c`, with every thread and client a process |
| `MCThreadPool` | its instances for TLC |
| `ThreadPoolProofs` | types and lost wakeups, proved |
| `ThreadPoolAccounting` | the inductive invariant, `thpool_wait`, and the refinement of `JobPool`, proved |
| `CronScheduler` | the crontab thread over `JobPool` |
| `MCCronScheduler` | its instances for TLC |
| `CronProofs` | types, missed and repeated runs, and the safe free, proved |
| `CronExpr` | `cronexpr.c`: parsing, and the search for the next instant, over a calendar |
| `MCCronExpr` | a small calendar with leap years and a summer, and all expressions over a few texts per field |
| `CronExprProofs` | that its search is right for every calendar without summer time, expression and date, proved |
| `NodeDiscovery` | the multicast packets, the network and `node_list`, with crashes and restarts |
| `MCNodeDiscovery` | two nodes for TLC, with the fairness of one link |
| `NodeProofs` | types, the truth of the list and its uniqueness, proved |
| `WallClock` | the clock of the system, which may be set back |
| `Sessions` | the session table of the admin server |
| `Snowflake` | `snowflake.c` |
| `ClockUsers`, `MCClockUsers` | both, side by side over one clock, and their instance |
| `ClockProofs` | types, increasing ids, and how long a session lasts, proved |
| `NicMonitor` | `nic_map` with its hash map, and the rates of the interfaces |
| `Daemon`, `MCDaemon` | the life of a process over `NicMonitor`: threads, database, signal; its instance |
| `DaemonProofs` | types, the open database, and that no script is cut off, proved |
| `NicProofs` | the rates, and the interfaces that are found, proved |

### ThreadPool

`pc[w]` is the place of worker `w` in `thread_do`. A step ends wherever another
thread can see what was done so far. The critical sections on `thcount_lock` and
`rwmutex` are two steps each (enter and change, leave), because
`thpool_destroy`, `thpool_init` and `thpool_wait` read the counters and the
length without those locks and because the SIGUSR1 handler can stop a worker
inside them. A critical section on `bsem.mutex` is one step: `v` is read and
written only inside it. That leaves out one thing, a worker stopped by the
handler while it holds `bsem.mutex`; it blocks the others until the resume and
changes no value. `pthread_cond_wait` is a wait set: `BsemBlock` joins it,
`BsemPost` and `BsemPostAll` remove waiters, `SpuriousWakeup` removes one for no
reason, and whoever has left tests the condition again.

| Model | Code |
|---|---|
| `queue`, its length | `front`, `rear`, `prev`, `len` |
| `v`, `bsem_waiters` | `has_jobs->v`, the threads in `has_jobs->cond` |
| `idle_waiters` | the clients in `threads_all_idle` |
| `sigusr1`, `held` | pending signals, the threads in `thread_hold` |
| `PullLock`, `PullRemove` | `jobqueue_pull`: read the front, then relink by `len` |
| `PushLock`, `PushInsert` | `jobqueue_push` with its `bsem_post` |
| `GoBusy`, `GoIdle`, `ThreadStart`, `Leave`, `CountUnlock` | the four sections on `thcount_lock` |
| `WaitTest` | one turn of `thpool_wait`'s loop |
| `DestroyCall`, `DestroyPost`, `DestroyFree` | `thpool_destroy`: flag, polling, free |

A client is a thread that makes one call at a time. The callers are outside
`thread_pool.c`, and `MayCall` states what they owe it: no call before
`thpool_init` has returned, none during or after `thpool_destroy`. The history
variables `pushed`, `done` and `awaited` are read by properties only.

### CronScheduler

The crontab thread goes through `load`, `iterated` (the loop test), `sleep`,
`iterate`, `destroy`, `free`. `Test(j)` is one call of the trigger callback; it
reads the clock once, as the callback does. `Armed`, `Due` and `Timer` are its
decisions. The pool is `JobPool`, which `ThreadPool` is proved to implement, limited
to `threads` jobs at a time; `HandIn` is `thpool_add_work`, and `<<j, k>>` is the k-th
run of job j. The clock ticks and may be set back; a signal may come at any time.
`armed_at`, `tested` and `handed_in` are history. `Free` has two outcomes:
`crontab_free` passes the addresses of the table's slots to `free()`, which is
undefined, and an allocator may carry on or abort.

`Timer` is the callback's call of `job->timer`, that is of `cronexpr_next`. What it
answers is a parameter, `Timers`, and may be anything: `CronExpr` shows that
`cronexpr_next` skips instants of some expressions (`cron_expr_first`), and that with
summer time it can answer a date that is not later (`cron_expr_back`). What the
service promises depends on it, so the properties say on what: `Forward(j)` is that
the timer of j, when it answers, answers a later instant of the expression, not
necessarily the first. That is `LaterAndMatches` of `CronExpr`, which
`CronExprProofs` proves where there is no summer time. Then no instant is run twice
(`OncePerInstant`), and none is missed but those the timer skips (`NoInstantMissed`:
when the job was run last, its timer answered none up to the one that was missed).
For a timer that does not go forward nothing of the kind holds: the callback runs the
job at every pass at which the clock is not before the answer.

### CronExpr

An expression's text is a set of elements per field (a star, a value or a range,
with a step or without); `Parsed` is `cronexpr_parse`, from a text to one set of
values per field. The calendar is libc's and external, over months and years given by
constants, so that a whole leap cycle can be searched. `cronexpr.c:95` defines
`CRON_USE_LOCAL_TIME`, so the code is compiled with `localtime_r` and `mktime`:
`LocalTime` gives the fields of an instant, with `tm_isdst`, and `Mktime` reads fields
as those of a summer clock if `tm_isdst` says so, as glibc does, whether or not it is
summer then. `Summer` is the set of instants at which summer time is in force, and
`SummerShift` what the clocks are then ahead; the zone's constant distance to UTC is
part of what an instant is counted from. Nothing in the code sets `tm_isdst`: a field
that is set or reset keeps that of the calendar it is set in. Each `mktime` puts the
whole `struct tm` in order, so between two of them it is an instant, and `at` is that
instant. The helpers are the code, function by function,
and the search is a state machine: `at` is the calendar that `do_next` changes, and
`calls` the calls of `do_next` that have not returned, since it calls itself.

| Model | Code |
|---|---|
| `ElementHits`, `WeekDayHits`, `MonthDayHits`, `MonthHits` | `set_number_hits`, `set_days`, `set_days_of_month`, `set_months` |
| `AddTo`, `SetField`, `ResetAll` | `add_to_field`, `set_field`, `reset` and `reset_all`, each with its `mktime` |
| `FindNext`, `FindNextDay` | `find_next`, `find_next_day` |
| `Parse` | `cronexpr_parse` |
| `Ask` | the beginning of `cronexpr_next`, as the trigger of a job calls it: for a date, then for the one it returned |
| `Search` | one field of `do_next`: its search, and what follows (`Kept`, `GoOn`, `Failed`) |
| `Return` | the end of a `do_next` that was called by another |
| `Finish` | the end of the outermost one: `cronexpr_next` returns, or searches again from the next second |

`Search` is written once for the five fields, which the code repeats with small
differences: the seconds never start the search over, the day's search is
`FindNextDay`, and the month has the limit of years. `FindNextDay` is a loop that
reads a day before it resets what is below it, and `Found` keeps both: the day that
the search returns and the calendar it leaves. `Kept` compares the former, as the code
does.

`Matches` is what an expression stands for: the instants whose fields are all in
their sets. `MonthSafe` names the expressions for which setting the month carries
no day into the next one: every month is allowed, or none of the allowed months
tells the allowed days apart. For the others the search may skip a month or a year
(`cron_expr_first`), and may for the same reason give up although an instant lies
within its years, so `GivesUpLate` needs it too.

`Calm` says that no summer time follows the date asked about, as in a zone that has
given it up, and `SteadyClock` that there is none at all. `LaterAndMatches` and what it
is the ground for (the first minute, the first instant, the end of the search) are about
dates with `Calm`: `AnswerMatches` is what is left of it where the clocks change.

### NodeDiscovery

A node stands for the address its packets come from; an instance id is one start
of it. `Online` starts a node and sends its online packet, `Beat` is the timer of
the sending connection, `Record` is the loop of `node_receive` over `node_list`,
`Crash` is any end of the process. The network is a set of packets: `Deliver` may
leave its packet there (a duplicate), any order is possible, `Lose` drops one, and
a multicast reaches any subset of the group. `SendFails` is what mongoose does
when `sendto` fails: the connection goes, and its timer with it. A node receives
its own packets, as the code does. `sent` is history. `Record` replaces the admin
address of an entry also by an empty one, since the test that should prevent it
(`main.c:1382`) never fails: a heartbeat erases the address that the online packet of
the same instance brought, and no property says that it stays.

### Sessions, Snowflake and ClockUsers

`Sessions` has `create_session`, `get_session` and `destroy_session` as the
handlers call them; `Room` is the loop that looks for a slot. The id of a session,
a digest in the code, is the number of its login, and 0 is the free slot, as in
the code; `used` and `logged_out` are history. The timer that `start_admin_process`
sets is answered by no handler and `check_sessions` has no caller, so sessions do
not expire, although the comment at `main.c:125` says they do after 30 seconds
(`sessions_idle`).

`Snowflake` splits `snowflake_id` where it waits: `CallId` reads the clock and
returns or begins to wait, `StopWaiting` is the turn of the loop that sees the
clock has passed. `ClockUsers` puts both over one `WallClock`.

### NicMonitor and Daemon

`NicMonitor` has one place per step at which another thread can see what was
done: the test of the pointer, the store of the new map, and for each name the
search of an entry and its filling; an update reads `n0` and stores its sample in
one step, and takes the rate and switches `n0` in another. A `nic_stat` is named
by the thread that allocated it and the interface. A sample is its number, which
stands for the time and the counters; `Garbage` is memory as `malloc` gave it.
`callback_fn_update_physical_nic_io_rate` ends without a return value, which is
undefined, and `hashmap_foreach` goes on only if its status is `MAP_OK`: `Statuses` is
what may be found in its place, and `WalkOn` goes on or ends the update. With a status
other than `MAP_OK` an update ends after its first interface, and a script can read the
rates of the others as `malloc` left them: no property says that it cannot, and
`RatesFromTwoSamples` and `EveryNicFound` hold with any status.

`Daemon` starts what `main` starts for each way to call it. The crontab thread is
`CronScheduler` with the scheduling left out (`CronIterate` hands in any idle
scripts) and with what `CronScheduler` leaves out: the interfaces, the database
and the files of the scripts. In -c mode it runs on the main thread, which waits
for it in `CloseDb`. A script uses the database first (`query`) and then reads the
rates. The database is closed by the main thread with -e and -c and by the admin
thread with a configuration file; `sqlite3_close` refuses while a statement is in
use, which `AdminStop` has as `query`.

## 3. Runs

| Run | Shows |
|---|---|
| `pool_safety` | types, no lost wakeup, the inductive invariant `Accounting`, `thpool_wait` never early, refinement of `JobPool`; every call, pauses included |
| `pool_liveness` | every job runs, `thpool_wait` and `thpool_destroy` return |
| `pool_free` | violated: the pool is freed before the last worker has unlocked `thcount_lock` |
| `cron_service` | no instant repeated, none missed but those the timer skips, every run finishes, a signal ends the service, no script outlives the table |
| `cron_count` | violated: counting jobs from an uninitialised int can leave the service without threads |
| `cron_expr_search` | what `cronexpr_next` returns is an instant of the expression, also around the beginning and the end of a summer time; once no summer time follows it is later; when no day can be carried it is in the right minute, is exact if the seconds are one value or all, and is missing only beyond the years searched; `do_next` calls itself only after it has moved the calendar forward |
| `cron_expr_first` | violated: over all expressions the result is not the first instant, also without summer time |
| `cron_expr_back` | violated: on the day before the clocks go forward it may be earlier than the date asked about |
| `node_discovery` | an entry is one whole packet of its node, an address is listed once, a node that stays is eventually listed as the instance that runs |
| `clock_users` | a session is not ended early, slots and uses agree, ids increase with a clock set back, a call that waits returns also when the clock is set back while it waits |
| `sessions_idle` | violated: an idle session is never ended |
| `daemon` | with -e and -c the database is open whenever a script uses it, no script is cut off, rates come from two samples in a row, every interface is found, and a signal ends the process |

Bounds. Two workers, two clients and three jobs: two workers race for the semaphore,
the queue and the idle signal; three jobs give the queue its lengths 0, 1 and more
than 1, the cases of both `switch` statements, with a job left after a re-post; two
clients can push at once or wait while the other pushes. `pool_safety` uses symmetry
of workers and jobs, which no property distinguishes; the temporal runs do not use
symmetry. `pool_free` needs one job. The crontab run has three jobs over two slots, so
that one file does not fit, a clock of four seconds (`MaxTime`) that may be set back
once to any earlier second (`MaxBack`), a job that fires every second, one with two
instants of which its timer skips the first, and one that never fires; no job can be
triggered more than four times (`MaxRuns`) in that time. That is enough for a pass
that is late by one or more instants, for a job whose next instant is invalid, and for
an instant the clock shows twice. No file sets `trigger_on_load` (`crontab_load` never
does), so `OnLoad` is empty in the runs; the theorems hold for any `OnLoad`.
`StartAtZero` is the counter value the code is written for; `cron_count` adds a
negative one.

The calendar of `CronExpr` has minutes of three seconds, hours of three minutes, days
of two hours, weeks of two days and three months of 3, 2 and 3 days, the middle one
longer in leap years: every carry from a field to the next happens, months differ in
length, week days shift against days of the month, and once (as around 1900 or 2100)
there is a gap between leap years longer than a search. The search limits are in the
same relation to it as 366 days and four years to the real one. 1 296 texts, among
them an empty range and a value out of range, are asked about nine dates, the first
instant of the calendar, six before, in and just after a summer, a later one and the
last, and then about each answer up to `LastStart`, which is past the summer; that is
426 000 states.
The summer begins at hour 1 of the first day of a month and ends at hour 1 of the
first day of the next: one hour is left out and one comes twice, and searches cross
either change. Dates after the summer are `Calm`. `cron_expr_first` has no summer
time. `cron_expr_back` has days of four hours, so that midnight, the hour of the
change and those around it are different ones, and asks about every hour of the two
days before each change, of its day and of the next. The properties are stated for
expressions in which every field has a value and one of the two day fields is free; an
expression that restricts both is searched, but the day search may then end after 366
days without a match.

`node_discovery` has two nodes, of which one starts twice and may serve, and two
packets in flight, enough for a packet of the earlier instance to arrive after one
of the later, for a heartbeat to overtake the online packet, and for either to
arrive twice. `clock_users` has three logins for two slots, so that a slot is
taken again after an eviction and after a logout, three ids, and a clock of five
instants that may be set back twice to any earlier one: once so that a call must wait,
and again while it waits. `sessions_idle` needs one session and one instant more than
`SessionTtl`. `daemon` has one script, two
interfaces with one hash, a table of 8 with chains of 3, and three updates, so
that both buffers are used twice over; the status its callback leaves is `MAP_OK` or
another value, at each call; it takes the server with the admin thread
and with the crontab thread apart, because their product is too large for TLC.
What that leaves out, scripts of the crontab while the admin thread opens and
closes the database, is what the properties exclude and the code does not order.

Deadlock is not an error in these runs: a pool that is idle, destroyed, or full
of finished jobs has nothing left to do, and the clock of the crontab model ends.

Fairness. Every worker, every signal handler and every client inside a call is
weakly fair: the threads are scheduled by the operating system and jobs return.
Nobody is obliged to call. For the crontab the thread, the clock, the pool's
threads and each script are weakly fair; nobody has to send a signal.
For node discovery the two liveness properties are about nodes that stay up with
their connection open, and assume of the network (`FairLink`) that heartbeats
are sent, that a packet of the running instance that is in flight again and again
is delivered again and again, and that a packet nobody sends any more is not kept
for ever: without the last a network could deliver an old packet for ever, which
no code can answer. No node has to start, crash or fail, and no particular packet
has to arrive. In `clock_users` the clock goes on and the waiting thread reads it;
in `daemon` each thread and each script goes on. No signal has to come, and the
admin thread needs no fairness, as `main` waits for no other thread.
The liveness run leaves out pauses and a second waiting client because the code
does not keep its promises there: a pause signal that is delivered after
`thpool_resume` sets `threads_on_hold` again (`thread_pool.c:304`), and the one
`pthread_cond_signal` of the last idle worker wakes one of two waiting clients
(`thread_pool.c:375`). The program neither pauses its pool nor calls `thpool_wait`.

## 4. Proofs

Assumptions: the constants' named assumptions, each as weak as the code needs
(finitely many workers and at least one; the names of threads, NULL and "no
owner" are distinct; a crontab file is a list of jobs). No bound is assumed: the
theorems hold for any number of workers, clients, jobs, slots, seconds and clock
changes.

`NoWakeupIsLost`. The flag `has_jobs` collapses posts, so "the queue is not
empty" alone does not imply "the flag is up". The invariant proved is: while the
pool is alive and the queue is not empty, either a worker that has taken the
flag has yet to look at the queue (`Carriers`), or the flag is up and some worker
is not blocked on it. The critical step is `PullRemove`: a carrier leaves the
queue non-empty only when it posts again.

`AccountingHolds`. `Accounting` is inductive given the types. Its parts need each
other: the job that a worker read in `PullLock` is still the front in
`PullRemove` because `rwmutex` is held (`QueueLocked`); the pool is freed with
no job running because the counter of alive threads is exact (`CountsExact`); a
job is in one place only (`JobsOnce`) and in some place (`NoJobLost`).
`WaitIsSound` follows with one more fact, that what a client waits for was
pushed: when `thpool_wait` sees an empty queue and no working thread, `CountsExact`
says that no worker is between its pull and its end. The lock held around
`num_threads_working++` before the pull is what makes the unlocked read of the
length safe. `PoolImplementsJobPool` maps `waiting`, `running`, `finished` and
`closed` to the queue, the jobs in workers' hands, `done` and `freed`:
`PullRemove` is `Start`, `RunJob` is `Finish`, `DestroyFree` is `Close`.

`NothingMissed`, `NothingRepeated` and `FreeIsSafe` all come from `CronInv`: once
tested, a job whose timer goes forward waits for what the timer answered about the
time the job is accounted for (`Covered`), which is later than that, and has never
been tested at or after it. A trigger moves both at once, so a late pass merges
instants and a clock that is set back finds the next instant still in the future.
Nothing is assumed of a timer but its type; `Forward(j)` is a hypothesis of the two
properties, job by job.

`ListIsTrue` and `ListedOnce`. `EntriesWereSent` is not inductive alone: a packet
in flight must have been sent too (`EntriesInv`). That the list has an address
once needs only the types, but its critical step needs the list before and after
`Record` in both of its cases, an update in place and an append.

`IdsAreIncreasing`. The last id is of the millisecond `time` and has the number
before `seq` (`LastIdBefore`), so the next id of that millisecond and the first of
a later one are both larger. What rules out an earlier millisecond is the wait for
the clock; the test of the sequence number is never true.

`SessionsAreKept`. The invariant says more than the property, that a session lasts also
when it has been idle (`KeptForRoom`), and adds that slots and history agree,
that no use is in the future while the clock has not been set back, and that two
sessions in slots are different. The step that matters is a login into a full
table: every other slot holds a different session that was used no earlier than
the evicted one, so with the new one at least `NumSessions` sessions were used
since (`EvictedIsOldest`, by an injection from slots to sessions, `OnePerSlot`).
A session that ended earlier keeps its count because uses only grow
(`StillEnough`).

`ScriptsFindTheDb` and `ScriptsRunToTheEnd`. With -e and -c there is one thread
that opens, waits and closes (`DInv`): scripts are handed in only while it waits,
and it goes on only when none runs. The invariant holds for every way to call the
program; the theorems say what it gives for these two.

`RatesAreOfTwoSamples`. `SampleInv`: while one thread updates, the buffer that `n0`
points at has the last sample of the interface, or in the middle of an update the
one before it, with the last in the other buffer. So the two that a rate is taken
from are always successive. `InterfacesAreFound`. As long as there is one map, every
name in it is at the first entry of its chain that was free (`WellHashed`), and the
names before the loader's place are found (`FoundInv`). That a name finds an entry
at all is a count: were its chain full, the names there would be as many as the
chain is long, different, and none of them the name itself, against
`ChainAssumption` (the names whose chains meet fit in a chain; otherwise the code
rehashes, which is left out). `Loaders` are the two threads of the program
(`LoaderAssumption`).

`AnswersMatch`, `AnswersAreFirst`, `AnswersAreFirstSeconds`, `SearchesGivenUp` and
`SearchMovesOn` are about the search of `CronExpr`, for every calendar, text and date,
in a zone without summer time: each has the hypothesis `SteadyClock`. That is what the
program runs with in a zone whose clocks do not change, UTC among them; where they do,
`LaterAndMatches` is false of the code (`cron_expr_back`) and the others rest on it.
With `SteadyClock` setting a field and reading it agree, which is where the hypothesis
is used. The theorems come from one invariant, `SearchInv`. While `cronexpr_next`
searches (`at`, and the innermost call at field `k`):

* `Nested`: every call but the innermost waits behind a field that changed, and
  resets only fields before its own;
* `Forward`: `at` is not before the date the search began at, and the fields before
  `k` have one of their values;
* `Lowest`: `at` has arrived, or all fields before `k` but the seconds are among those
  `k` resets. This is why `do_next` begins again after a field has changed: what it
  resets must be searched again, and has just been set to its lowest value. The
  seconds are the exception, as the code does not put them there when they had to
  move;
* `NonePassed`: no instant of the expression was passed, to the minute, and to the
  second if every second is asked for.

When a search returns `at`, all five fields have their values, so it matches; none was
passed, so it is the first. A search given up has arrived at a month beyond its years
without passing an instant. What one field's search does is a lemma per field
(`MoveSec` to `MoveMon`, together `Moves`): it goes forward, to the least instant at
which the field has one of its values. So `do_next` has moved forward whenever it
calls itself (`SearchMovesOn`), and the calendar ends. The lemmas rest on the
arithmetic of the calendar: an instant is made of its parts (`Parts`, `Whole`),
setting, adding and resetting a field changes that part (`SetTime`, `AddTime`,
`ResetTime`), and months and days grow together (`MonthsGrow`, `DaysInOrder`). The
hard one is `MoveMon`, where a day past the end of the month is carried (`Overflow`);
`MonthSafe` says that nothing is passed there. `CalendarAssumption` is what is used of
the calendar: a month has at least a week, no month is longer than the first and the
last of the year, none is shorter by more than a day than in the year before, and
every day of the month comes again within the days a search tries. The Gregorian
calendar is such a one; for the small one TLC evaluates it. `TextAssumption` says what
a text is, and `StartAssumption` that the first date is in the calendar.

Only model-checked: everything under fairness (`EveryJobRuns`, `WaitReturns`,
`DestroyReturns`, `EveryRunFinishes`, `EndsOnSignal`, `PairListed`, `CallReturns`,
`Ends`), which is out of the prover's reach, and `AnswerMatches`, the answers around a
change of the clocks. The other invariants, action properties and the refinement that
passing runs check are theorems as well, those of `cron_expr_search` for `SteadyClock`.

The operators named `..._Bug` are faulty variants of the definition they precede.
No specification uses them; each property has one that violates it.

## 5. Not modelled

The models cover the program's own logic that keeps state over time or shares it
between threads or processes. Most of the repository is not that: of about 250 000
lines, 240 000 are vendored libraries (sqlite, mongoose, lua, json-c, mustache, the
mail client) and examples, so the part the models map is small in proportion and
would stay so with every line of greenleaf's own modelled.

Of the modelled components:

* thread pool: a pool of zero threads (in `CronScheduler` it is `threads = 0`), a
  second pool sharing the file-scope flags, failures of `malloc` and
  `pthread_create`.
* crontab: operations the service does not call (`crontab_remove_job`,
  `crontab_clear_jobs`, the default trigger), the ownership of the job structs in
  `crontab_free`; the file named with `-c FILE`, which the code ignores, as
  `crontab_new` always takes `conf/crontab.json` (`cron/crontab.c:12`). `CronExpr` is a
  model of its own, with a calendar of its own; what it shows is joined to
  `CronScheduler` by `Forward`, not by one specification of both.
* cron expressions: the splitting of the string, the names of days and months,
  allocation failures; a zone that changes its distance to UTC other than by summer
  time; a step of 0, on which `set_number_hits` never returns; a
  field that is empty, as of `5-2`, is in the module, where it is searched as 0 as
  in the code, but in no run.
* node discovery: acks, which change nothing the receiver keeps; the connections
  they are sent on, which can be freed while `node->sender` still points there;
  `node_send_offline`, which nothing calls; the admin thread reading the list
  without a lock; several groups (each has its connections, the list is one).
* sessions: requests with a cookie that is not the id of a session (one that is
  no number reads as 0, the id of a free slot).
* lifecycle: the admin thread's own scripts; the server with both the admin and
  the crontab thread in one run; what becomes of the database handle in server
  mode, about which no property says anything, because there the admin thread
  opens and closes it in no order with the scripts of the crontab.
* interfaces: `sys_get_pni_speed` with a name (it reads its argument past the end
  of the arguments); two maps, and two threads that update, are in the model, and
  the properties exclude them because the code keeps no promise there.
* hash map: rehashing, removal and `hashmap_iterate`; nothing removes from
  `nic_map`, and a put rehashes at 128 entries or when the eight entries of a chain
  (`MAX_CHAIN_LENGTH`) are all taken by other names, which `ChainAssumption` excludes.

Components left out: configuration parsing, HTTP routing, the bindings of the
script engine, logging, string building and the array list, whose behaviour is in
formats and I/O and not in state that several actors share; WebSSH, which
`CMakeLists.txt` compiles out; the vendored code, the examples, and the scripts
and SQL.
