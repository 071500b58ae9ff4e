# A TLA+ model of alter_upnpd

alter_upnpd is a UPnP Internet Gateway Device written in Python. LAN hosts find it
by SSDP and ask it, over SOAP, for port mappings; it keeps none of them itself: a
mapping is a service of a separate GOST process, written through GOST's HTTP API.
A web page (PyWebIO) lists, adds and removes the same mappings, a thread removes
those whose lease is over, and an upstream router (another IGD) may be kept in step.

This directory holds TLA+ modules of the parts of that program that several threads,
or the program and the processes around it, work on together, TLC configurations that
check them on small instances, and proofs, checked by TLAPS, of what matters most for
every instance. Paths below are relative to `src/`.

## 1. The system

### Components

| component | code | state it keeps | operations | model |
|---|---|---|---|---|
| GostTransport | `app/gost_client.py` | none | `request`: up to 3 attempts of 10 s, pauses of 1 s and 2 s, a connection error or an HTTP error raised | `Gateway` (Serve, Fail, ServeLate, DropLate) |
| PortMappingRepository | `app/gost_client.py` | `_services_cache`, `_services_cache_ts` | `get_services`, `add`, `update`, `delete`, `delete_batch`, `get_expired_services` | `Gateway` |
| SOAP handlers, ACL | `app/upnp_soap.py`, `app/acl.py` | none | AddPortMapping, DeletePortMapping, the queries | `Gateway` |
| lease cleanup | `app/lifecycle.py` | none | a round per `lease_cleanup_interval`: delete what has expired, then reconcile upstream | `Gateway`, `UpstreamSync` |
| WebUI actions | `app/webui.py` | ticked rows | add, delete, delete the ticked rows after a popup | `Gateway`, `UpstreamSync` |
| GOST's registry | external | services | POST, PUT, DELETE | `GostRegistry` |
| UpstreamClient | `app/upstream_client.py` | the miniupnpc object | forward an addition or a deletion, `reconcile` | `UpstreamSync` |
| AppLifecycle, signals | `app/lifecycle.py`, `app/app.py`, `app/gunicorn_config.py` | the shutdown event, the threads | `start`, `stop`, `main`, the worker hooks; gunicorn's arbiter kills and replaces workers | `Lifecycle` |
| SSDP responder | `app/ssdp_responder.py` | sockets | alive, answers, byebye | `Lifecycle` |
| StunClient | `app/stun_client.py` | the WAN address, `_ready` | refresh with retries, `wait_ready` | `Lifecycle` |
| chart history | `app/webui_format.py`, `app/webui.py`, `app/webui_render.py` | `ChartState` | record a point, trim, downsample | `ChartHistory` |
| WebUI sessions | `app/webui.py`, `app/webui_render.py` | shared list, `prev_count`, `_REFRESH_LOCK`, the rows and the chart data in each browser | open a page, `_refresh`, close | `Dashboard` |
| SpeedTracker | `app/gost_client.py` | snapshots of counters, `_last_time` | `update`, by whoever lists the mappings | `SpeedTracker` |
| metrics client | `app/gost_client.py` | the URL found | discovery, parsing | not modelled |
| template renderer | `app/template.py` | parsed templates | render | not modelled |
| SOAP XML, HTML, routes, configuration, container files | | none of their own | | not modelled |

### How they interact

The repository is one object, shared by the threads of gunicorn (or Flask), one thread
per PyWebIO session with a refresh worker, a collector thread and the lease-cleanup
thread. No lock protects its cache or spans a check and the write that follows from it.
GOST is reached by HTTP, so a request can be lost, answered too late, or applied after
the caller has given up. The upstream router is another machine, reached through one
miniupnpc object that all threads use. The browsers share a cached list, a count, a lock
and the dictionary of histories, which the collector adds to. Whoever lists the mappings
updates the one SpeedTracker. The shutdown event joins the main thread to the SSDP responder, which is not a
daemon thread.

### What is hard, and what makes each part correct

* **Repository.** A list can be answered before a write and stored after the write has
  cleared the cache. List and time stamp are two assignments. A cached list is read a
  second time to be returned. So: how old can a list be that somebody decides on, and
  what can a decision on such a list destroy? (`CacheBounded`, `FreshBasis`,
  `OwnerOrRace`, `ExpiredOrRace`.) And what may a cleanup that works from it overlook, and
  for how long? (`CleanedUp`, `CleanedInTime`.)
* **Writes.** A POST is repeated after a time-out, and an attempt nobody waits for may
  still be applied. A mapping must not come back long after, or with a lease that was
  cut short (`LeaseFromRequest`).
* **Leases.** 0, a negative number, no number, more than a week, a default out of
  range; the second in which a lease ends (`LeaseClamp`, `ExactTable`).
* **Mirror.** Reconcile restores from a list that was cached, or even stored after the
  deletion that cleared the cache; the mapping may be gone. So: how old can a mapping be
  that comes back (`NothingOldReturns`)? One mapping's failure must not keep the others
  away (`Mirrored`).
* **Shutdown.** A signal at any step of the start, under two servers with different
  signal handlers, with a `join` that gives up after five seconds: the last NOTIFY must
  be a byebye and the process must end (`ByebyeLast`, `Ends`). A worker that takes too
  long is killed and another started, which must announce the gateway again (`ComesUp`).
* **Chart.** Counters that restart, totals that could not be read, two writers of one
  list, quotas of overlapping segments (`Conserved`, `HistoryKept`, `ShownBounded`,
  `ShownAscending`).
* **Pages.** A refresh that finds the lock taken is skipped, and one that fails, because
  the page is gone or the histories grew under the iteration, has set the count already;
  the count belongs to all pages (`RefreshShowsAll`, `CatchesUp`, `PointsArrive`). A row
  finds its chart by number (`ChartOfRow`).
* **Speeds.** The bytes come from a list that may be a cached one, the time from the
  clock, and two updates may overlap; counters start anew (`Conserved`, `SpanBounded`).

`PROJECT.json` lists every such hazard at its line with the properties about it, or
says why there is none.

## 2. The modules

| module | what it is |
|---|---|
| `GostRegistry` | the resource `/config/services` of GOST, as the code uses it: which requests apply, to what effect, with which answer |
| `Gateway` | extends `GostRegistry`: the repository, its callers, the transport and the clock |
| `PortTable` | the promise to the clients, with no cache and no thread: a table of owned, leased mappings |
| `GatewayTable` | `Gateway` as an implementation of `PortTable`, exact (`ExactTable`) and with a window (`WindowedTable`) |
| `GatewayInvariant` | the inductive invariant `IInv` of `Gateway` |
| `GatewayProofs`, `GatewaySafety` | theorems and proofs about `Gateway` |
| `GatewayRefinement` | `Gateway` implements `PortTable`: with the window, invariant and proof; without it, and the cache's coherence, for one job at a time |
| `UpstreamSync` | the mirror on the upstream IGD, its invariant at its end |
| `UpstreamProofs` | theorems and proofs about `UpstreamSync` |
| `Lifecycle` | start, service, signals, stop; SSDP responder, STUN thread, gunicorn's arbiter |
| `LifecycleProofs` | theorems and proofs about `Lifecycle`, with its invariant |
| `ChartHistory` | the history of the total traffic and the chart made of it; its invariant before the properties |
| `ChartProofs` | theorems and proofs about `ChartHistory` |
| `Dashboard` | the tables in the browsers, their refresh, the keys of the histories; its invariant before the properties |
| `DashboardProofs` | theorems and proofs about `Dashboard` |
| `SpeedTracker` | the speeds of the mappings, updated by every reader of the list |
| `SpeedProofs` | theorems and proofs about `SpeedTracker`, with its invariant |
| `MC...` | instances for TLC: sets and symmetry a configuration names |

### Gateway

`cache` and `cacheTs` are `_services_cache` and `_services_cache_ts`, `store` GOST's
services, `late` the attempts nobody waits for. `thread[t]` is what a thread is doing:
its job, where in the code it is, the answer or request under way. `get_services` is
seven actions, one for each line whose order matters: `Check` (the guard), `Hit` (the
cached list is returned, by a second read), `ServeGet` and `FailGet` (GOST answers, or
not), `Fill`, `Stamp` (two assignments), `Reread` (the cache, not the answer, is
returned). `Deliver` is what the caller does with the list it is handed:
`AddPortMapping` and `DeletePortMapping` decide and send, `CollectExpired` computes what
the cleanup thread deletes, `DeleteSelected` the rows of a page, `NoList` is what
becomes of a caller that is handed `None`. A write goes `Serve`/`Fail` (attempts),
`Answered` (is the cache to be cleared?), `ClearTs` (the second half of
`_invalidate_cache`), and for the loops `DeleteNext` and `EndLoop`.

An external port stands for the pair of port and protocol, since both name a service.
Time is whole seconds, because `created_at` is. A time stamp of 0 is `Never`. Requests
that are refused before anything is read take no step. `at`, `basis`, `by` and `who` are
ghosts: nothing decides on them.

### UpstreamSync

Composes what a request and the cleanup thread do at GOST and at `_services_cache` with
what they do at the IGD. `get_services` has the lines of `Gateway`: `CallList` (the guard,
and the emptying of a list too old), `ServeGet`, `FailGet` (the `[]` of a failed read),
`Fill`, `Stamp`, `Return` (the cache read again), and any thread may run between any two of
them, so that a list answered before a deletion can be stored after it, and a stamp can
vouch for another thread's list. What it returns goes to `HandToRequest`, `HandToExpire`
(a `None` ends the cleanup thread, `dead`) or `HandToReconcile` (there it is caught). A
write is answered or not (`WriteDone`, `WriteFails`: applied or not), then clears list and
stamp in two steps (`Clear`, `ClearTs`); an attempt nobody waits for is served at any time
(`LateWrite`). A SOAP request then takes `SoapEnsure` and `SoapForward`, between which the
cleanup thread may drop the miniupnpc object; a write of the WebUI ends. A round is `Wake`,
`DeleteExpired` or `DeletionFails` per expired mapping, `ListMappings`, a heartbeat,
perhaps a connection, and per mapping a query and perhaps a restoration, each of which
may fail by itself.

What `Gateway` has and these properties do not tell apart is left out: owners (a request
may refuse or write), single attempts of a call, and leases: any of the listed mappings may be the
expired ones, and the IGD may drop a mapping whenever it likes (`IgdExpires`). Ages are
counted instead of a clock, so that behaviours do not end and liveness can be checked:
`stamp` is the age of `_services_cache_ts`. `First` picks the order in which GOST lists the
mappings. `Others` are mappings GOST may list as well, of which no state is kept: a query
of one finds it, or does not, or fails, as it may. They are there for the loop of
reconcile, in which a port comes after others; the steps of two ports touch no state in
common but the loop's, so one port with state stands for each.

### Lifecycle

One step per step of `start`, `stop`, `main` and of the hooks, and a signal between any
two of them: `Terminate` is `handle_signal`, `TerminateWorker` gunicorn's handler, which
only makes a note, `Interrupt` Python's KeyboardInterrupt or gunicorn's `sys.exit`.
`Thrown` says where an exception takes the main thread. `Kill` and `Respawn` are the
arbiter's: a worker told to end, or aborted, may be killed at any moment from then on
(`graceful_timeout`, or a second after the abort), and a process that is gone is replaced
unless the arbiter has been told to stop as well (`halted`). `notified` is what the
network has seen last of any process, `announced` whether this one has said anything. A responder may have no socket
(`muted`) and then says nothing. `Exit` waits for the responder, since the interpreter
waits for threads that are no daemons.

### ChartHistory

`_record_data_points` and `_append` are one step per line that reads or writes what two
writers share. A point holds bytes instead of bytes per second. `Decayed` is
`_decay_downsample` as an operator, with segments and weights as constants; `Budget` is
its loop, `Rounded` Python's `round`. `Shown` trims twice, as the code does: by the clock in
`_render_charts`, by the last point in `_build_echarts_html`. A list comprehension and
`sorted` are stated by the order of what they return (`Listed`) and not by recursion.
`log`, `recorded`, `passed`, `misread` and `overlapped` are ghosts.

### Dashboard

`hist` is the keys of `cs.history` in the order they were added; what a history holds is
`ChartHistory`'s. `refresh[x]` is a refresh of the worker or of the buttons of a session,
`session[s]` what `main()` holds and what the page has: its rows, whether the script of
the table has come (`wired`) and how many keys `window._portData` has (`sent`). A refresh
is three steps: the one that takes the lock, the list and the count (`BeginRefresh`), the
table or its cells (`RenderTable`, `RenderEmpty`), the points (`SendData`). Between the
last two the histories are gone through: if they have grown by the end of it, Python
raises, and `RefreshFails`. `main()` is five steps, since the count is set before the table is
there; it ends without a worker if the histories grow under it (`broken`).

### SpeedTracker

`get_services` is modelled again, by the lines that decide which list the tracker gets:
from GOST with its counters of that moment, from the cache, an empty one after a failed
read. `update` is `Stamp` (the time), `Measure` and `Store` for each mapping (the two
halves of the loop between which another thread may store), `Finish` (`_last_time`).
`passed` is what a service has really carried, `reported` its speeds times their
intervals, added up: both are ghosts, as are the times in a list and a snapshot. One
direction of the traffic stands for both.

## 3. What TLC checks

Every passing property has at least one mutant of the code it fails on: an operator in
the modules marked "Mutant of ...", named in `PROJECT.json`.

### Runs that pass

| run | question | why the instance is enough |
|---|---|---|
| `serial` | One job at a time, no failures: does `Gateway` implement `PortTable` with no window, and is the cached list what GOST holds when nobody works? | all kinds of jobs, two clients, two ports, leases of 0 and beyond the limit |
| `threaded` | Interleaved: how old is a list that is returned or decided on, what can a renewal, a release or an expiry meet, what does a cleanup leave behind, does `IInv`, the invariant of the proofs, hold, and does `Gateway` implement `PortTable` with a window of TTL + 5 MaxCall - 1? | a SOAP thread and the cleanup thread, both of which read and write, give every interleaving of fills and writes on one cache; eight seconds let a mapping grow older than the window of five and a lease of three end and be renewed, or stay past `CleanedInTime` (a list kept for ever does) |
| `lossy` | With failing reads, lost attempts, retries, late attempts and restarts of GOST: does `IInv` hold, where does a lease count from, does every job take so many steps and no more, and does it end? | one retry and one late attempt, which may overtake the retry; the cleanup thread's loop and a client's requests |
| `mirror` | Can reconcile bring back what is long gone, and does a mapping the IGD answers about get there in the end, whatever the others do? | a request and the cleanup thread at every line of `get_services`; a port, and another mapping before it in the list that may fail for ever; failing calls of GOST and of the IGD, late writes, restarts of both; a TTL, a call and a round of a second each, so that a mapping can be gone for the four seconds of `Window` |
| `shutdown` | Is the last NOTIFY of a process a byebye, does the process end, and is the gateway announced again by the next one? | every step of start, service and stop, both servers, with and without STUN, one cause per process, any number of processes |
| `chart` | Do the points account for what passed, is the history the last of them, is a chart within its limit and in order? | counters that restart, totals that cannot be read, rounds at any distance, a history past cap and window, more points than a chart takes, overlapping segments |
| `dashboard` | Has a table its rows after a refresh, and in the end those of GOST and the points of each? | a session's two threads and the lock, the collector recording meanwhile; mappings that come and go, failing reads, a page that closes |
| `speed` | Do the speeds account for no more than what passed, and do a speed's bytes belong to its time? | two readers, at most one cached list old when the other asks; two changes: a mapping that goes and comes back, or GOST's counters starting anew, or a list dropped from the cache; five units of time are two lives of the cache with an update in each |

`WishOf` in `GatewayTable` makes every write on its way to GOST a wish of the table, with
the one who asked for it (the ghosts `by` and `who`): a mapping may go because its owner,
the user of the page or the end of its lease says so, and the refinement tells them apart.

### Runs that find a violation

Each checks one sentence of a doc, a comment or a signature, and TLC shows a behaviour
of the code that contradicts it.

| run | the code | the sentence |
|---|---|---|
| `none_list` | `get_services` reads the cache again to return it; cleared meanwhile, it returns `None`, and the lease-cleanup thread dies of the TypeError | the signature's `List`, `docs/gost_client.md:42` |
| `stale_renewal` | an old list, stored after a deletion cleared the cache, makes the previous owner's request a PUT on the next owner's mapping | `docs/upnp_soap.md:39` |
| `chart_48h` | a chart of many points shows nothing beyond the longest segment, 20 h of 48 | `app/webui_format.py:37`, `docs/config.md:63` |
| `row_chart` | a row takes the chart with its own number among the ports ever seen: after one mapping was removed, the rows after it show other ports' charts | `docs/webui.md:56` |

`OwnerOrRace` says how much of the second sentence is left: the renewal meets the
client's own mapping or one newer than its list.

### What the passing properties leave out on purpose

The actions are in the models; the property is stated so that they do not break it.

* `OwnerOrRace` does not speak of a SOAP deletion decided on a failed read: the read's
  `[]` looks like a free port, so there is no owner to compare with, although
  `docs/config.md:48` says that SECURE_MODE blocks the deletion of others' mappings.
* `ExpiredOrRace` allows what is newer than the list: a mapping renewed between the list
  and the DELETE is deleted with its lease running (`docs/lifecycle.md:36` speaks of
  expired mappings).
* `CleanedUp` and `CleanedInTime` are about rounds whose deletions are not lost: a deletion
  that fails is not sent again in its round (`app/lifecycle.py:127`), and waits for the
  next one, `CLEANUP_INTERVAL` later. `CleanedInTime` leaves out the round whose read failed:
  it works from `[]` and deletes nothing.
* `NothingOldReturns` allows a mapping that has not been gone for as long as
  `Window = TTL + 2 * MaxCall + MaxRound`: reconcile puts it back on the IGD. The bound is
  sharp: in the instance of `mirror` a mapping gone for `Window - 1` does come back, by way of
  a request's old answer, stored over the cleanup thread's own, for which the cleanup
  thread's stamp then vouches.
* `Mirrored` is about rounds that get a list: `get_services` may hand the cleanup thread a
  `None` (`none_list`), of which it dies at `app/lifecycle.py:120`, and then nothing is restored
  any more; after a read that fails, or a `None` in the reconcile step, a round restores
  nothing. The condition `[]<><<ReconcileListed>>_vars` says that reconcile is handed a list of GOST's
  again and again.
* `shutdown` leaves out Ctrl-C on a program run directly: `lifecycle.start()` stands
  before the `try` (`app/app.py:188`), so a KeyboardInterrupt in it leaves `main()`
  without `stop()` (`docs/app.md:58`), and the responder, once started, goes on.
* `ByebyeLast` and `Ends` are about one cause per process. A second interrupt while
  `stop()` has yet to set the event takes the main thread into the interpreter's wait for
  a responder nobody will tell to end; under gunicorn only SIGKILL ends it then.
* `ByebyeLast` is about processes that end by themselves. A killed one leaves its
  announcement: after an abort gunicorn waits about a second before SIGKILL, and the
  responder polls its event once a second and needs 0.3 s more.
* `ready` in `Lifecycle` is cleared and never set, as in the code
  (`app/stun_client.py:68`; `docs/stun_client.md:29` says a success sets it), so a start
  with STUN always waits out its ten seconds.
* `Conserved` of `ChartHistory` holds while the metrics can be read: totals that cannot be read count as 0,
  and the next point is the whole counter.
* `RefreshShowsAll` is about a session while no other has been opened: `prev_count` is one
  number for all (`app/webui.py:39`, `:317`, `:400`), so another session's refresh, or its
  `main()`, takes the change away, and the first one's table keeps its rows although
  `docs/webui.md:51` promises a full re-render.
* A table that was rendered while the histories grew stays without its script, and so
  without its triggers, until the number of mappings changes: `PointsArrive` speaks of the
  data, which the next refresh sends, not of `wired`.
* `CatchesUp` is, for the same reason, about a session while no other has been opened
  (`Alone`). It compares numbers: a table keeps the row of a removed mapping if another was
  added before the next refresh (`docs/webui.md:50`).
* `Conserved` of `SpeedTracker` holds until two calls have overlapped: both may count the
  same bytes, or the earlier list be stored last and its bytes be counted again.
* `SpanBounded` is about services that were in the update before. An update after a failed
  read has no mappings and yet moves `_last_time`: the next speed divides all that passed
  during the outage by the last interval. Within the bound, with the defaults (a cache of
  30 s, a round of 10 s) a steady stream is shown as 0, 0 and three times its speed; the
  "configurable sliding window" of `docs/gost_client.md:67` does not exist.
* `Conserved`, `HistoryKept` and `ShownAscending` of `ChartHistory` hold until two writers
  have recorded at the same time (`overlapped`). The comment at `app/webui.py:65` has the
  collector as the only writer, but every session that opens writes too, with no lock
  between them; when two do at once, points are lost or out of order, and both use the same
  previous totals.

### Bounds

* `MaxTime` ends the clock in `Gateway`, `ChartHistory` and `SpeedTracker`. `MaxCall` is the longest a
  repository call may take, retries included (33 s in the code: three attempts of 10 s
  and pauses of 1 s and 2 s), and also the longest GOST keeps an attempt nobody waits
  for; in `SpeedTracker` it bounds a call of `get_port_mappings`. `MaxChanges` bounds the
  changes of the mappings there. `MaxLate` bounds the number of those. In `UpstreamSync`, `MaxCall` bounds `get_services`, and
  `MaxRound` a whole request or round. `MaxRecord` is the time a writer may take to record a
  point in `ChartHistory`. `MaxCauses` bounds the signals to one process and its server's failures.
* TTL, leases, intervals, caps and windows are small numbers: a lease ends within the run,
  a history outgrows its cap and its window. `MaxRecord` is 0 in `chart`: a point is
  stamped and stored within one second, in every interleaving of two writers.
* `BudgetAssumption` of `ChartHistory` says that a chart's last segment gets a point. A
  history has more than `min(history_points, 1000)` points, and is sampled, when more than
  1000 are kept: 500, 250 and 125 of a chart's points go to the first three segments and
  leave 125. With fewer kept it is sampled only between `hist.append` and the cap; for 1
  to 4, 6 and 7 points the quota would be 0 or less then.
* In `UpstreamSync`, `gone` stops at `Window`, which no property tells from more, and `stamp`
  at `TTL`.
* Symmetry is used for clients, ports and readers, in safety runs only.
* `CHECK_DEADLOCK FALSE` stands in the runs of `Lifecycle`, whose process exits, and of
  `ChartHistory`, where a collector that waits for its round meets the end of the clock.
  In `Gateway` and `SpeedTracker` a job or a call can always begin, so their runs keep the
  check.

### Fairness, and why the code justifies it

* `Gateway`: weak fairness of each thread's next step. A running thread goes on; an
  attempt ends because `requests` has a time-out. Nothing says that GOST answers or that
  jobs arrive.
* `UpstreamSync`: the threads run and time passes (weak). That is all of `FairSpec`: a call of
  GOST or of the IGD that ends may fail each time. `Mirrored` states what else it needs as
  its hypothesis: the IGD, asked again and again, lets itself be connected to, and answers
  about the one port (`Answers`: strong fairness of connection, query and
  restoration); reconcile gets its lists (above); the IGD restarts finitely often.
* `Lifecycle`: the main thread and the responder run, and gunicorn's arbiter keeps a
  worker (`workers`, `app/gunicorn_config.py:5`). `wait_ready` and `join` end by their
  time-outs. No signal need come, and no kill.
* `Dashboard`: the collector's and the workers' rounds go on, a refresh that began ends
  (`finally`). `CatchesUp` and `PointsArrive` assume that the mappings and the reads settle;
  no button need be pressed and no page need stay open.

## 4. What is proved

| theorem | states |
|---|---|
| `GatewayProofs!LeaseClamp` | the lease granted is in 1..MaxLease, whatever is asked and configured |
| `GatewayProofs!TypeCorrect` | `Spec => []TypeOK` |
| `GatewayProofs!JobsAreBounded` | `Spec => StepsRunOut`, for finitely many ports |
| `GatewaySafety!Inductive` | `Spec => []IInv` of `Gateway` |
| `GatewaySafety!CacheAge` | `Spec => []CacheBounded` |
| `GatewaySafety!BasisAge` | `Spec => []FreshBasis` |
| `GatewaySafety!Ownership` | `Spec => []OwnerOrRace` |
| `GatewaySafety!Expiry` | `Spec => []ExpiredOrRace` |
| `GatewaySafety!CleanupComplete` | `Spec => []CleanedUp` |
| `GatewaySafety!LeaseStart` | `Spec => LeaseFromRequest` |
| `GatewayRefinement!WindowedRefinement` | `Spec => WindowedTable`, for finitely many ports and, with `SecureMode`, reads that do not fail |
| `GatewayRefinement!CleanupTimely` | `Spec => []CleanedInTime`, for finitely many ports |
| `GatewayRefinement!Coherence` | `Spec => []CoherentWhenQuiet`, for one job at a time, no lost write, no restart |
| `GatewayRefinement!ExactRefinement` | `Spec => ExactTable`, under the conditions of the two before |
| `UpstreamProofs!Invariance` | `Spec => []IInv` of `UpstreamSync` |
| `UpstreamProofs!TypeCorrect` | `Spec => []TypeOK` of `UpstreamSync` |
| `UpstreamProofs!Freshness` | `Spec => NothingOldReturns` |
| `LifecycleProofs!TypeCorrect` | `Spec => []TypeOK` of `Lifecycle` |
| `LifecycleProofs!ByebyeIsLast` | `Spec => []ByebyeLast` |
| `ChartProofs!TypeCorrect` | `Spec => []TypeOK` of `ChartHistory` |
| `ChartProofs!Inductive` | `Spec => []IInv` of `ChartHistory` |
| `ChartProofs!TrafficConserved` | `Spec => []Conserved` of `ChartHistory` |
| `ChartProofs!HistoryCorrect` | `Spec => []HistoryKept` |
| `ChartProofs!BoundedChart` | `Spec => []ShownBounded` |
| `ChartProofs!AscendingChart` | `Spec => []ShownAscending` |
| `DashboardProofs!TypeCorrect` | `Spec => []TypeOK` of `Dashboard` |
| `DashboardProofs!RowsComplete` | `Spec => RefreshShowsAll` |
| `SpeedProofs!TypeCorrect` | `Spec => []TypeOK` of `SpeedTracker` |
| `SpeedProofs!SpanIsBounded` | `Spec => []SpanBounded` |
| `SpeedProofs!SpeedsConserved` | `Spec => []Conserved` of `SpeedTracker` |

They hold for any sets of ports, clients, threads, sessions and services and any TTL, leases
and bounds; they
assume what the modules assume of the constants: `None` is none of the values it stands
beside, numbers are numbers, `MaxLease` is positive, `First` picks a member, a chart's last
segment gets a point (`BudgetAssumption`, see Bounds); the
refinements assume besides what the table says. Nothing is assumed of the default lease or
of the leases asked for.

**Gateway.** None of the first four invariants is inductive: whether a write is harmless
depends on the list it was decided on, and that on the cache at an earlier time.
`IInv` (module `GatewayInvariant`) has three ideas. *Shows*: a list, cached or under way,
says of each port what GOST holds, or GOST holds nothing there, or something built later
than a call before the list. This survives every write, since a body on the wire was
built at most `MaxCall` ago (`Timed`), and it is the reason a stale list does limited
harm. *The clock*: the cached list is at most `2 * MaxCall` older than the stamp, and a
thread between two lines of `get_services` knows a bound for the list it will find
(`ListAge`), whichever thread stored it. *Justified*: a write decided on a list that
`Shows` is right keeps its excuse while it is under way. `Remaining` is the same for the
deletions a cleanup has still to send. The four invariants follow; `LeaseFromRequest`
follows from `Timed`. `CleanedUp` is the other direction of `Remaining`, and needs an
invariant of its own, `SweepInv`: from its list to the end of its loop, whatever had expired
a call before the list is gone from GOST, or among the deletions still to send, or being
deleted (`Swept`). The list begins it, because `Shows` leaves out nothing that old and the
clock was read less than a call before (`SweptDeliver`); others' writes keep it, because
what they bring is newer (`SweptKept`); a deletion that is served may drop its port
(`SweptServe`), which a lost one may not. With `Paced`, below, the age of the list is
bounded, which turns `CleanedUp` into `CleanedInTime`. TLC checks `IInv` in the runs `threaded` and `lossy`.

`StepsRunOut` is what can be proved of `JobsEnd`: `StepsLeft` counts the lines of
`get_services`, the attempts, the answers and the deletions still ahead of a thread, every
step of the thread lowers it, no step of another touches it, and it is a natural number
because the attempts made are at most `Retries` (`Unsent`). That the steps are taken is
what fairness adds.

**The refinements.** Only a request that GOST applies changes the table, so both proofs
are about one request and the table's action for its wish. `WindowedRefinement` needs,
beside `IInv`, what the code puts into a write (`Formed`: a renewal bears the name of the
client that asked, a cleanup sends nothing but deletions) and how old the list behind it
was when it was built; `Paced` says that a cleanup's list ages by a call for every
deletion it sends, which is where the number of ports comes into the window of an expiry.
A failed read is the one way past it: on `[]` `DeletePortMapping` finds no owner to
respect, hence the condition on `ReadsFail`. `ExactRefinement` and `Coherence` have an
invariant of their own (`SerialInv`): one thread is at work at most; the cached list is
what GOST holds, but between a write's answer and the clearing of the cache; so what a
thread is handed, what it sends and what a cleanup has still to delete are right at the
moment GOST serves them (`Sure`). `WindowedTable` is checked by TLC in the run `threaded`,
`ExactTable` and `CoherentWhenQuiet` in `serial`.

**UpstreamSync.** Whoever may yet bring a mapping to the IGD got to know it from GOST,
and since when it may be gone there is bounded by how long that knowledge has been kept.
That a write clears the cache does not help: a list may be stored after it. What helps is
that a thread that finds the cache too old empties it, so that what is there when it takes
its stamp was stored during its call, with an answer given at most a call before
(`CallRecent`). Hence the cached list is at most two calls older than its stamp
(`CacheRecent`), a round's list that and the TTL and the time the round has taken
(`RoundRecent`); an addition still to be forwarded was at GOST when the request put it
there (`ForwardRecent`). None of these is inductive without `CallRecent`, nor that without
the answers on their way into the cache. `Kept` and `Aged` say how such knowledge lasts: every
step but a second leaves it as it is, since a mapping that goes was there until then.
`Appears` shows that nothing else puts anything on the IGD. TLC checks the
invariant in the run `mirror`.

**Lifecycle.** `ByebyeLast` needs to know how the process got to its end: that a process
on its way out was told to (`Told`), what one that announced the gateway has sent last,
by the place of its responder (`Word`), and that the responder is not born before its
step of the start and has ended when the process exits after one cause (`Outlasted`).
A process that gunicorn starts anew begins with nothing announced.

**Dashboard.** The lock and the refresh under way say the same thing (`Locked`). While no
other session has been opened, the shared count is that of the page's rows whenever no
refresh is under way (`Counted`), and during one that of its list, which the rows have
already, or will have, because the count was found changed (`CountedRefresh`). A refresh
that fails keeps this: what can raise comes after the table.

**SpeedTracker.** `Age` bounds, place by place, how old a list can be that a call holds:
less than TTL when taken from the cache, and a call on either side; the snapshots inherit it, and
`SpanBounded` is the difference of two such ages. `Order` is for the bytes: while calls
do not overlap, the counts of a snapshot, of the cached list, of the call's list and of
GOST follow each other, where one count follows another if no more was counted between
them than passed (`Follows`, which a counter that starts anew keeps). What was reported is
then never more than what had passed at the snapshot.

**ChartHistory.** `HistoryKept` is about a history nobody is changing; `IInv` says what it
is at every step of one writer. `Covers`: it is the end of the log, and what is missing at
the front is beyond the cap or too old for the window of the last point. `Exact`: and it
holds none of that. Appending keeps `Covers` because the log ascends and the new point is
no older (`CoversAppend`), the cap keeps it (`CoversCap`), trimming makes it `Exact` again
(`CoversTrim`); the copies a writer holds between computing and assigning are part of the
invariant. `ExactIsKept` shows that this is the selection of `HistoryKept`. For the bytes, `Account`
says what fits into `passed`: what was recorded, what is about to be, and what GOST counted
since the totals last taken, where a counter that starts anew counts nothing; the cached
totals must be the previous ones, since a session may record them. Writers at rest are
`Serial` until two overlap. `ShownBounded` holds of any history: every selection has at
most its quota (`SpreadProperties`), and the quotas telescope to `DisplayMax`
(`PartsProperties`, `PlacesBounded`), which is an induction over segments. `Induction` is
proved as a statement about sets (from the library's well-founded order on finite sets),
since the library's own takes an operator the provers cannot instantiate. TLC checks
`IInv` in the run `chart`.

**Only model-checked.** Liveness (`JobsEnd` beyond `StepsRunOut`, `Mirrored`, `Ends`, `ComesUp`,
`CatchesUp`, `PointsArrive`): fairness and ENABLED are beyond the prover. The properties of the runs
that find a violation have nothing to prove.

## 5. What is not modelled, and why

* **Points of single ports, check boxes, `chart_opts_queue`**: the points are kept like the
  total's (`ChartHistory`). The queue is filled and cleared by every refresh; what one
  clears too early the next draws again. The ticks are restored from the browser's own
  fields, so what they are depends on PyWebIO.
* **A reload of gunicorn (SIGHUP)**, where the old worker and the new one overlap, and an
  old worker's byebye may be the last NOTIFY: the code has no handler for it and its
  documents do not mention it. `Lifecycle` has one process at a time.
* **Template renderer**: a cache under one lock. The modification time is read before the
  lock, so a file replaced in between is kept under its old time and read once more;
  the templates are part of the image (`Dockerfile:18`).
* **Parsing, XML, HTML, formatting, configuration, container files**: functions of their
  input, or values read once; the configuration's values are the modules' CONSTANTS.
  Met on the way: on a port out of range the handlers log `SoapBodyParser.PORT_MIN`
  (`app/upnp_soap.py:131`, `:243`), which the class does not have (`app/soap_xml.py:14`
  defines it in the module), so the request ends in an AttributeError and not in the 715 of
  `docs/upnp_soap.md:85`; and `_current_service_urn` (`app/upnp_soap.py:85`) is written and
  never read.
* **Answers to M-SEARCH** in the 0.3 s after the byebye (`app/ssdp_responder.py:129`) may
  show a control point the gateway again; they change no state, and no document rules
  them out.
* **`get_config`'s cache, limiters, authentication headers, stateless SOAP
  actions, the health check's own URL**: no write depends on them.
* **`list_mappings`, `reset_cache`**: called by tests only.

## 6. Plan

Done, in this order: `GostRegistry`, `Gateway`, `PortTable`/`GatewayTable`, the invariant
and the proofs about `Gateway`; `UpstreamSync`; `Lifecycle`;
`ChartHistory`; `Dashboard`; gunicorn's arbiter in `Lifecycle` and its proofs; the
histories' keys in `Dashboard` and its proofs; `SpeedTracker` and its proofs; the
refinements of `PortTable` as theorems; `ChartHistory` restated without recursion, and its
proofs; what a cleanup leaves behind and
how many steps a job takes, and their proofs; `UpstreamSync` by the lines of `get_services`,
with failing reads and deletions and a cleanup thread that may die, and its proofs.

Next:

1. The bounded part of `Ends` and `Mirrored`, as `StepsRunOut` is for `JobsEnd`: the steps a
   stop of the process and a round of the reconcile have left.
2. One module of the lines of `get_services`, which `Gateway`, `UpstreamSync` and
   `SpeedTracker` each describe, by what their properties tell apart.
3. A property of a batch some of whose deletions fail: that each was tried.
