# RTP: a verification project

RTP is a C++ framework for real-time prediction services. Its own code is in
five directories: `leader` (service discovery over ZooKeeper and connection
management), `orc` (a server framework that runs requests through a graph of
handlers on a thread pool), `qed` (a read-mostly hash table in mapped files),
`common` (locks, counters, small utilities) and `tools`. The modules here model the
parts in which several threads, processes or machines meet, and the algorithms whose
results are hard to predict by reading: the workflow language from its characters to
the graphs that run. TLC checks them on small instances and TLAPS proves the
central facts about most of them for all sizes.

Builds define `NDEBUG`, so assertions in the code are not relied upon.

## 1. The system's parts

| Part | State | Operations | Interacts with |
|---|---|---|---|
| `leader` node collection (`node_collection_impl`) | per path the list of servers, the inverted index, the black list, round robin indices | UpdateHeartbeat, RemovePath, PickOneNode, FindNodesBySpec, UpdateBadNode | called by receiver, application, detector |
| `leader` heartbeat receiver, server subscriber | subscribed paths with version and next scan time | AddPaths, RemovePath, StartReceive, StopReceive, CommonWatcher, the scan | ZooKeeper, node collection |
| `leader` heartbeat reporter, server register | registered paths, paths to remove with promises | AddPath, RemovePath (blocking or not), StartReport, StopReport, the rounds, delete callbacks | ZooKeeper |
| `leader` channel pool, bad node detector | groups of channels per server, good or bad; pings | GetChannel, OpenNewChannel, CheckChannels, DoDetect | node collection |
| `leader` ZooKeeper wrapper | handle, its lock, callback contexts, the closing thread | Connect, Shutdown, the requests and their watches, the global watcher | receiver, reporter |
| `common` thread running checker | two flags, a condition variable | Set (Start, Stop), WakeUp, Wait, Sleep | loops of receiver, reporter, detector |
| `common` monitor status | a list of counters in a mapped file, a semaphore, caches per process | Init, Get, Find, Add, the updaters, the readers | every server process, `ms_reader` |
| `orc` workflow engine | contexts, sessions and their pool | Run, SetupCtx, RunInner, Step, ResetCtx | thread pool, rpc client, graph manager |
| `orc` rpc handler and client | invoker, barrier, calls in flight | Invoke, CallMethod, callbacks | workflow engine, channel pool |
| `orc` task queue and thread pool | ring buffers, `stop_` | Push, TryPush, Pop, TryPop, Schedule, Loop, the destructor | everything that runs in `orc` |
| `orc` application | child processes, their entries, times of death | Start, SuperviseServers, NeedRestart, signal handlers | operating system |
| `orc` server process | which of its resources exist, `status_`, `stop_` | BaseRun with its set-up steps, its stop and its scope guard | brpc, register, workflow engine |
| `orc` workflow language | scanner buffer, parser stacks, tree, graph | yylex, yyparse, Compile, BuildGraph, Clone | graph manager |
| `orc` execution graph manager | pools of graphs with a version | GetExeGraph, ReleaseExeGraph, Setup, ReloadGraph | workflow engine |
| `orc` file monitor | queue of commands, watched directories, cookies | Start, Stop, Observe, Forget, event loop | inotify |
| `orc` local cache | index and lists of entries | Get, Put | handlers |
| `orc` plug-ins | loaded libraries and four indices | Init, the six lookups | file system, dlopen |
| `qed` hash table and builder | buckets, chains | Insert, Find, volatile Find | files |
| `tools` ms_reader | three samples per kind of counter | main, the filter, the printers | monitor status |

`PROJECT.json` lists these under `components`, with the ones that are not
modelled and why.

What is hard about this code: a context handed from the thread that sent calls
to the thread that runs their callback, decided by one counter; updates of one
component split over several critical sections with different locks; removals
that race the scan or the round that still knows the path; versions and times
read early and compared late; lost events, failed requests and lost sessions;
addresses given to a C library or put into a queue, and freed by somebody else;
signals sent after a mutex is released; a shutdown that relies on the workers it
is stopping; crashes of child processes against stop requests; a reload beside the
graphs that are in use; buffers and stacks at their limits. `hazards` lists
each at its line, with the properties that would catch it.

## 2. Modules

| Module | Models | Remarks |
|---|---|---|
| `NodeCollection` | `node_collection_impl.cc`, DoDetect of `brpc_bad_node_detector.cc` | one action per critical section |
| `RoundRobin` | the same with a history of picks | adds the variable `ahead` only |
| `ZkWrapper` | `zkwrapper.cc` | client library external |
| `ZkWrapperProofs` | | theorems of section 5 |
| `ChannelPool` | `brpc_channel_pool.cc`, `brpc_channel_group.cc`, `brpc_bad_node_detector.cc`, `waiter.h` | network external |
| `LeaderClientProofs` | | theorems of section 5, of `NodeCollection`, `RoundRobin` and `ChannelPool` |
| `HeartbeatReceiver` | `heartbeat_receiver.cc`, RemovePath of `server_subscriber.cc` | ZooKeeper external |
| `HeartbeatReceiverProofs` | | theorems of section 5 |
| `HeartbeatReporter` | `heartbeat_reporter.cc`, removals of `server_register.cc` | ZooKeeper external |
| `HeartbeatReporterProofs` | | theorems of section 5 |
| `RunningChecker` | `thread_running_checker.cc` | |
| `Workflow` | `workflow.cc`, `context.cc`, `execution_node.cc`, `pool_session_factory.h`, `rpc_handler.cc`, `rpc_client.cc` | rpc completion external |
| `WorkflowProofs` | | theorems of section 5, of the workflow engine and of the thread pool |
| `BoundedFifo` | what the task queue promises | abstract specification |
| `TaskQueue` | `ThreadPool::TaskQueue` | implements `BoundedFifo` |
| `ServerCoreProofs` | | theorems of section 5, of the task queue, of the local cache and of the server process |
| `ThreadPool` | Schedule, workers, destructor | uses the abstract queue |
| `Supervisor` | `application.cc` | |
| `ServerLifecycle` | `server_base.cc`, `orc_mgr.cc`, `brpc_server.cc`, `pb_rpc_server.cc` | brpc external |
| `SupervisorProofs` | | theorems of section 5, of the supervisor and of the hash table of `qed` |
| `PluginMgr` | `plugin_mgr.cc`, `plugin.cc` | dlopen external |
| `WorkflowLexer` | `lexer.c` with its tables | reads return any number of characters |
| `WorkflowSyntax` | `syntax.c` | operators only |
| `WorkflowParser` | `parser.c` with its tables | any sequence of tokens |
| `WorkflowCompiler` | `compiler.cc`, `graph.cc`, BuildGraph, Clone | against a reference semantics |
| `ExecutionGraphPool` | pools and reload of `execution_graph_mgr.cc` | |
| `FileMonitor` | `file_monitor.cc` | inotify external |
| `LocalCache` | `local_cache.h` | against the order of use |
| `MonitorStatus` | `monitor_status_impl.cc` | several processes |
| `FilesProofs` | | theorems about `MonitorStatus`, `FileMonitor`, `ExecutionGraphPool` and `MsReader`, section 5 |
| `MsReader` | `monitor_status_reader.cc`, readers and updaters of monitor status | |
| `QedTable` | Insert and OptimizeFreeBucket of `qed/builder.cc`, Find of `qed/hashtable.h` | one writer, one reader |
| `MCLeader`, `MCHeartbeatReceiver`, `MCHeartbeatReporter`, `MCReporter`, `MCWorkflow`, `MCWorkflowPool`, `MCThreadPool`, `MCServerCore`, `MCSupervisor`, `MCWorkflowLanguage`, `MCFiles` | | constants and symmetry for TLC |

State and actions keep the source's names; the header of each module says what is
abstracted, and `map` in `PROJECT.json` gives the lines of every definition. The
definitions marked "Slip" are plausible mistakes in the code. They are not part of
any specification: each is the mutated form of the definition after it, and shows
that the property it is listed with would notice.

Some MC modules check several components that share no state in one run, side by side: a
variable ("part") is chosen in the initial state and says whose steps are
taken; the others rest in their initial states. That is the union of the components'
own runs, and each property speaks of its own component.

An invariant that a run checks is often the conjunction of a component's named parts, each stated and
commented in the component's module: `ContextsOK` and `HandlesOK` of `ZkWrapper`, `GroupsOK` and `RoundsOK` of `ChannelPool`,
`ListsOK` and `TablesOK` of `NodeCollection`, and so on. TLC names the conjunction, the module says which part it was.

**NodeCollection.** `update_mutex_` serialises updates, but UpdateHeartbeat
writes the node tables (`node_lock_`) and then the round robin map
(`round_robin_map_lock_`), and RemovePath does it in the opposite order.
PickOneNode keeps the read lock of the map while it waits for `node_lock_`. The
detector reads node names with FindNodesBySpec and later replaces the black list;
what it found bad is any set of names.

**ZkWrapper.** A handle of the client library has a session, requests without an
answer, armed watches and one completion thread that runs every callback.
A request reads the handle under the read lock, parks its lambda in `context_pool_` and
gives the library the address; an event, an answer or the closing of the handle uses
it. Connect closes an expired handle in a thread of its own and frees the
contexts the old handle had, Shutdown and the destructor close it themselves.
The properties leave out what the code does not keep: a Shutdown that overtakes that
thread frees contexts the old handle still uses, and a second connector may assign
to a thread object that is still joinable, which terminates the process.

**ChannelPool.** A call of GetChannel picks a server, finds or inserts its group,
takes a slot and opens a channel, each under another lock, while other calls do the same; a
channel is bad until a ping is answered. The detector counts the channels
to check, pings them, waits with a counter on its own stack, and gives the servers
without a good channel to the node collection. A channel whose Init fails keeps its slot,
and a channel that was good once is never pinged again.

**HeartbeatReceiver.** The scan is modelled call by call, because the watcher and
the application change a path's status between its calls. Times are kept as far as
Receive distinguishes them: zero, past, later, never. Children, versions and
existence change at any time, and an event may be lost. The node collection is
reduced to its lists.

**HeartbeatReporter.** A round copies the registered paths, then takes the paths to
remove, sends the deletes and reports path after path. A promise is the set of
threads that wait for it. Requests are served in order, answers may be late, and a
failed request may have been served. A session may be lost; its nodes remain for a
while as somebody else's.

**RunningChecker.** Set and WakeUp write their flag and notify without the mutex. The
constant `Timed` chooses between the two ways to sleep: Sleep with a timeout, used
by all three loops, and Wait without one. With `Timed = FALSE` the property
StopEndsLoop fails (the notification falls between test and wait and nothing else
ends the wait); no loop of the repository calls Wait.

**Workflow.** A worker walks a context through the graph. An rpc node sends one to
`MaxCalls` calls; the last one to end runs the callback, on a network thread that
queues the context, or inline when there is no channel. Then two threads meet at
IsAsync. Once the code does something undefined (a context reset while it is in
use, a closure run twice) the model sets `crashed` and stops, so that what the
properties say is about executions up to that point. How the code gets there is
the subject of the run `workflow_once`.

**TaskQueue, ThreadPool.** The ring buffer is modelled with its waits, its signals
after unlocking, and spurious wake-ups. The thread pool uses the queue it
implements, so that a blocking call is an action that waits for room or for a task.

**Supervisor.** Servers are child processes that boot, run, stop and die. A stop
signal has no effect on a child that has not installed its handler yet. The clock
is a counter, in the unit that NeedRestart compares.

**ServerLifecycle.** The chain of steps of BaseRun, each of which may fail, with the
set of resources that exist after it; requests and pings arrive from the moment brpc
listens. InitLeader ignores the result of Start, so a server may come up that is not reported;
a stop signal is seen only when the set-up is complete; `status_` is never reset, so a
server that has stopped does not start again. After a failure
BaseRun may be called a second time, and Setup adds to what the first call left in the session pool.

**PluginMgr.** The recursion through directories is a stack of what readdir has still
to return, in any order. stat follows links; a link to a directory above
would be walked until the path is too long, and is left out.

**Workflow language.** `WorkflowLexer` runs the automaton of the generated tables over a buffer
that is refilled, moved and grown while a token lies across its end, and is compared with
longest match over the whole file. `WorkflowParser` runs the generated tables
over any sequence of tokens, one token at a time as the parser asks for them, and is compared with a
predictive parser written from `workflow.y`; the tree it builds is printed and compared with
the tokens. `WorkflowCompiler` translates trees to graphs, builds execution graphs and clones
them; a graph is run on every sequence of answers of its handlers and compared with the statements
executed one by one. Seen on the way: a nested block that is empty or begins with
`return` is rejected; `else if` is in the grammar but CompileBlock rejects it; BuildNode makes one
node of the steps that have the same name, so that `a; b; a` loops; a workflow without
a step crashes BuildNode; a NUL or a byte above 127 ends the file without an error, because the rule for
other characters returns a signed char.

**ExecutionGraphPool.** Release compares the version of the graph before it takes the lock, and a reload
may come between; `StaleServedOnce` says what that costs: a graph of the old version may be handed out
once more. Graphs released by callback threads stay in the pools of these threads.
The only caller of the reload is Setup; `worker_num` 0 divides by zero and is left out.

**FileMonitor.** Observe and Forget put commands into a queue; the worker takes them in batches,
keeps a table by name and one by watch descriptor, and runs the actions of
changed files. Callers forget a cookie once and not across a Stop; otherwise a freed cookie is used.
A directory that is removed leaves an entry that hears nothing any more, and an action may run
after Forget has returned.

**LocalCache.** Cells move between the list of entries and the list of free cells; the index is
keyed by the key inside the cell. The ghost `recent` is the order of use the cache stands for. With capacity 0, Put
takes the last element of an empty list; the model stops there.

**MonitorStatus, MsReader.** Processes append to a list in a mapped file under a semaphore and read
it without one; each keeps copies of its map so that a reader of the old copy is not disturbed.
A process may die at any step. Two that set the semaphore up at once may both get in, a death between
creating it and setting it leaves it 0 for ever, and a death between the two sizes of an entry
gives that entry to every later key: the properties leave these out. The
reader is modelled with counts of small width that wrap round. Text output has no binary
counters, `-Q` is in the help text but not in the option string, an interval below a
second divides by 0, and times of more than 5 ms are counted twice in the percentages.

**QedTable.** Memory is written store by store: the three parts of a bucket are separate,
payloads are written in two halves, compare-and-swaps are barriers and plain stores
between them come in any order. That is what the build produces: with `-O2` g++ writes
`payload`, a 56 bit field, byte by byte, and stores the key of a new root (`builder.cc:297`)
between two of these bytes. It also loads the key and the next id of a bucket
together and its flag later, and so does the reader here. `content` is the map the table
stands for; the reader's `expect` collects what its key had during a call.

## 3. Runs

| Run | Components | Checks | States |
|---|---|---|---|
| `leader` | node collection | tables agree; the index names every listing of a node; no black node is listed; an index held by a pick is alive; RemovePath leaves the black list alone; picks are spread evenly | 1.5M |
| | ZooKeeper wrapper | no context is used after it was freed, none is kept for a closed handle; no callback before its handle is known or after the destructor; the closing thread is joined before it is replaced | |
| | channel pool | one group for a server; no slot is given twice; a pinged channel is in its group; the waiter outlives its pings; the black list is what the last round saw | |
| `receiver` | receiver, subscriber | a removal that has returned stays in effect; a current version means a current list; the list comes to agree with ZooKeeper | 1.2M |
| `reporter` | reporter, register | removals are not forgotten, waiting threads have a promise and return, a registered path comes to keep its node | 300k |
| | running checker | a loop that was stopped ends | |
| `workflow` | workflow engine | one thread in a context's handlers; "never reach here" is right; an inline callback runs no handler; released sessions are unused; every request is answered | 138k |
| | thread pool, one queue with a slot for each worker | accepted tasks are run, the destructor is never left waiting, and it returns | |
| `server_core` | task queue | the ring is well formed, no lost wake-up, it implements `BoundedFifo` | 62k |
| | local cache | a hit is the last value and not too old; what stays is what was used last; index, list and cells agree | |
| | plug-ins | every library is loaded once; the lookups agree with the list | |
| | server process | a request finds what it uses; what is reported listens; nothing is left behind by a failed set-up or a stop | |
| `supervisor` | application | the restart decision equals an exact sliding window; no child is forgotten; a stop ends the application | 351k |
| | hash table | a volatile Find returns what its key had during the call, and ends; the chains hold what was inserted; every bucket knows its root | |
| `files` | workflow language | the tokens are those of `workflow.l` however reads cut the file; the parser accepts the grammar and builds its tree; all nodes are freed; buffer and stacks stay in bounds; graph and execution graph run like the text; exactly the unrunnable texts are rejected | 1.3M |
| | graph pool | a graph is in one place; an old one is served at most once more; no worker goes without while none is in use | |
| | file monitor | no freed cookie is used; inotify's watches are those of the tables; an observed file keeps its entry | |
| | monitor status, ms_reader | one adder at a time; counts are exact; readers of an old map are not disturbed; printed slices and differences add up; tables are current | |
| `workflow_once` | workflow engine | *violated:* a request's closure is run at most once | |
| `thread_pool_hang` | thread pool | *violated:* with two queues the destructor returns | |
| `reporter_race` | reporter | *violated:* a removed path loses its node | |
| `zk_shared` | ZooKeeper wrapper | *violated:* threads that share a wrapper never wait for each other | |
| `server_stop` | server process | *violated:* the ping service lives as long as pings may come | |

### Bounds

* `leader`: a path and a sub-path, so that one removal takes two lists and
  a server is listed twice; two servers, so that lists shrink to one and to none under
  a held index; two picking threads, so that picks overlap. For the wrapper one connector and one requester,
  two handles (an old one is closed while the new one works), two contexts and
  one event. For the pool one server, since groups of different servers share nothing but the map, two
  threads and two slots: both open group and channels at once and the group fills up.
* `zk_shared`: two connectors, the smallest case in which a wrapper is shared.
* `receiver`: one application thread with three calls (add, remove, add again), a path
  that stays and a sub-path that ZooKeeper may delete, two changes and one failing
  call: the version changes before, during and after a fetch, and a removal falls
  into every step of a scan.
* `reporter`: two application threads with four calls on one path (register, remove,
  register again, remove again), one failing request and one lost session.
  Paths do not interact in this component except by the order of a round. For the running checker
  two callers and four calls.
* `workflow`: three requests for two sessions and a queue of one, so that sessions and
  queue run out; two workers, the two sides of a hand-off; two calls, so that
  the barrier waits; two rpc nodes in sequence, so that state left by the first is
  met by the second. The pool: three workers on one queue of three, so that there are more stop tasks than
  room, and as few slots as the destructor can do with: with three workers and two slots, or two workers and one,
  TLC finds that it hangs. `thread_pool_hang`: the smallest pool with two queues.
* `server_core`: four threads and three slots of the queue: two producers and two consumers, or
  three waiting on one side. Capacities 0, 1 and 2 of the cache with three keys, and times that pass the limit.
  Two libraries of one name at two depths, a file that is none, a list that names a directory
  twice and one that fails. Two components, two requests and a ping in flight, two calls of BaseRun.
* `supervisor`: two servers, four counted deaths each in four instants, two restarts
  allowed in two: enough to be given up, to be restarted after a window has
  passed, and to keep an old death in the queue while newer ones come. The table: one cache line of
  four buckets, three keys with one bucket and one with the
  bucket that OptimizeFreeBucket takes first, equal high bits in both; high bits 0;
  three insertions and two moves: a chain of three, a bucket moved behind a
  moved one, an insertion before and after a move, an insertion that meets a
  moved bucket. One or three free ids, so that they run out. Four insertions with
  three free ids pass as well (1.2M states, four minutes).
* `files`: files of up to three characters out of six, and keywords cut at every place by a buffer that begins
  with two; files of up to ten tokens, with a stack of five that grows once to its limit of twelve; trees that nest every statement in
  every other, run on up to five answers; three graphs, two workers, a callback thread and one reload; two
  files of one directory, two users, a removed directory and a second Start; three threads of two processes, two
  copies of the map, one death; counts of one bit and two samples.

Deadlock is checked where a component never stops: the node collection (`leader`), the workflow
engine and its pool (`workflow`) and the task queue (`server_core`); in these runs the other components
may rest. In the other runs the system may stop: the application ends, a loop is stopped, a file is read, or the
bounds are used up.

### Fairness

* Threads that can go on do: weak fairness of each worker, of the destructor, of the
  heartbeat threads, of the supervisor, and of the second half of a call that has
  been begun. Nothing is assumed about new requests or new calls.
* Every rpc ends: brpc bounds each by a timeout.
* The sleep of a heartbeat thread ends, by its timeout; the running checker's part of `reporter` shows that
  this does not depend on notifications.
* In the receiver an application thread that waits for `update_lock_` gets it
  eventually, although the heartbeat thread takes it again and again: strong
  fairness. Between two scans the thread sleeps without the lock.
* In the hash table a call that has been begun goes on, of the writer as of the reader.
* A server that got the stop signal ends, ZooKeeper ends lost sessions, and
  events that were sent arrive (events may also be lost).

The wrapper, the channel pool, the server process and the components of `files` have safety properties only.
`zk_shared` and `server_stop` are violated in a state, so that they rest on no fairness.

## 4. What the violations show

* `workflow_once`: RunInner reads IsDone after its loop, whichever way the loop
  ended. The thread that IsAsync told to stop may see the end of the other
  thread's walk and reset the context again.
* `thread_pool_hang`: `stop_` is shared by all queues. The workers of a full queue
  may leave because of another queue's stop task; then the destructor's blocking
  Push into that queue never returns. For the same reason tasks accepted by the other
  queue may be dropped. One queue is not enough to be safe: a worker that is in a task when `stop_` is set leaves without
  taking a stop task, so that of the `worker_num + 1` stop tasks only one is sure to be taken, and a queue with fewer slots
  than workers fills up with nobody left to empty it. `thread_pool.h` asks for no such relation, and
  `Workflow::InitThreadPool` takes all three numbers from the configuration; the default of 1024 slots hides it. The
  condition `RoomForStops` (one queue, a slot for each worker) is part of every claim made here about the end of the destructor.
* `reporter_race`: the registered paths are copied before the removals are taken. A
  removal between the two is carried out and then undone by the report from
  the copy. `NoForgottenRemoval` says that this is the only way a removal is lost.
* `zk_shared`: one thread in Connect has the write lock of the handle and waits for
  `finalize_thread_mutex_`; the owner of that mutex joins the thread that closes the old
  handle; it waits for a callback under way, which waits for the handle lock. In the repository
  the callers share wrappers between register and subscriber, and each has a heartbeat thread that connects.
* `server_stop`: ServiceHide deletes the register, and with it the ping service that brpc was told not to own,
  a second before brpc is stopped. A ping in that second runs in a deleted object.

Limits of what the code guarantees, seen while modelling, are recorded with
the hazards. A path deleted in ZooKeeper keeps its list of servers, and a path added
by one thread between the two halves of another thread's
ServerSubscriber::RemovePath loses its list until its version changes.
This is why `receiver` uses one application thread, and why its two properties about
versions leave out the paths that may be deleted (`Deletable`).

In `qed` the properties end where the code does not keep them:

* After an insertion into a slot that holds another chain's bucket. Claiming
  the slot clears its flag and sets its size; the comparison at `builder.cc:288` expects
  the size from before and always fails; the insertion starts again and takes
  the foreign bucket for its root. The value that "slot is occupied, move old value
  to next valid free slot" (`builder.cc:227`) speaks of is not found any more, and with
  four insertions TLC also finds a Find for it that starts again for ever.
* For a Find that reads the halves of a link on both sides of the second store of
  OptimizeFreeBucket: it goes to an unrelated bucket.
* For a Find of a key with high bits 0 while the root of another key in that slot is being created: until
  the key is written it looks as if it were the one that is looked for.
* For the payload of a key that is being written in place: halves may be mixed, and
  "a valid payload is always visible to readers" (`builder.cc:296`) is not so for a new root.

## 5. Proofs

TLAPS proves, for all values of the constants:

| Module | Theorem | Says |
|---|---|---|
| `LeaderClientProofs` | `TypeCorrect` | the type invariant of the node collection |
| | `NoBlackNodeListed` | `ListsOK`: every listing of a node is in the inverted index, and no black node can be picked |
| | `RemoveNeverClearsBlack` | RemovePath never changes the black list |
| | `TablesCorrect` | `TablesOK`: lists and round robin map agree, held indices are alive |
| | `PicksAreEven` | `EvenlyServed`: no node of an unchanged list is picked twice more than another |
| | `GroupsCorrect` | `GroupsOK`: one group per server, no shared slot, a ping's channel is in the cache |
| | `RoundsCorrect` | `RoundsOK`: the waiter counts the pings that are out, the black list is the last round's |
| `ServerCoreProofs` | `RingCorrect` | `RingInv`: the ring is well formed |
| | `WakeupsCorrect` | no lost wake-up |
| | `QueueImplementsFifo` | TaskQueue implements BoundedFifo |
| | `CacheCorrect` | `CacheOK`: hits are the last value and fresh, the most recent entries stay, index, lists and cells agree |
| | `ServesOrNot` | `LifeOK`: a server serves with everything in place or not at all |
| `ZkWrapperProofs` | `ContextsCorrect` | `ContextsOK`: a context lives as long as the client library may come back to it |
| | `HandlesCorrect` | `HandlesOK`, as long as one thread connects (`OneConnector`) |
| `HeartbeatReceiverProofs` | `TypeCorrect` | types, and what a scan may work on |
| | `RemovalsStay` | `RemovedStaysRemoved`, for any number of application threads |
| | `VersionsTrusted` | `StatusOK`, while no path is added that is being removed (`NoOverlap`) |
| | `OneCallerStatusOK` | `StatusOK` without that hypothesis, for one application thread |
| `HeartbeatReporterProofs` | `TypeCorrect` | the type invariant |
| | `PromisesKept` | `PromisesOK`: a waiting thread's promise is in exactly one place |
| | `RemovalsNotForgotten` | `NoForgottenRemoval` |
| `SupervisorProofs` | `ChildrenCorrect` | `ChildrenOK`: the supervisor's table knows every child process |
| | `WindowCorrect` | `WindowExact`: a server is given up exactly when more than Intensity deaths lie in one period |
| | `TableTyped` | the types of the hash table, displaced buckets or not |
| | `TableCorrect` | `TableOK`: the chains hold the map and know their roots, as long as Insert sees which chains are full (`RoomLeft`) |
| | `SmallTableCorrect` | `TableOK` without that hypothesis, for fewer than MaxSize insertions |
| | `FindCorrect` | `RegularFind`: a volatile Find returns what its key had during the call, also with `RoomLeft` as hypothesis |
| | `SmallTableFindCorrect` | `RegularFind` for fewer than MaxSize insertions |
| `WorkflowProofs` | `HandOffCorrect` | `HandOffOK`: one thread at a time walks a context |
| | `SessionsNotReused` | `NoUseAfterRelease` |
| | `SecondAnswerIsStale` | a request is answered again only by a worker that RunInner's second IsDone let through after the session was given back |
| | `AcceptedTasksAreRun` | `PoolOK`: with one queue, the default, every accepted task has been run when the destructor of the pool returns; with a slot for each worker it is never left waiting for nobody |
| | `PoolTypeCorrect` | with any number of queues, no queue is overfilled and only accepted tasks are run |
| `FilesProofs` | `CountersCorrect` | `CountersOK`: one adder at a time, exact counts, readers of an old map are not disturbed |
| | `MonitorCorrect` | `MonitorOK`: no freed cookie is read, tables and watches agree, the entries are what is observed |
| | `GraphsCorrect` | `GraphsOK`: a graph is in one place, none is lost or kept from the workers, old ones go |
| | `ReaderCorrect` | `ReaderOK`: slices add up to the counts, printed differences to the values, and tables are current |

Assumptions: for the node collection a finite set of nodes, a path that is among
its own sub-paths, and a value that stands for a free lock; for the queue a positive
capacity, finitely many threads and an empty function that is no task; for the wrapper
that connectors and requesters are among its callers, and that "none" is no caller; for the channel
pool a positive capacity; for the receiver that a path is among its own sub-paths, for it and the reporter that the
bounds are numbers; for the workflow a graph every node of which has a successor, a
positive number of calls and sizes, and that requests and sessions are different
things; for the thread pool that worker_num is a multiple of queue_num, as its header asks, and that a stop task is no task of a user; for
monitor status finitely many threads, keys of the three kinds and at least one copy of the map; for the graph pool finitely many threads and workflows, which are different things, at least one worker (otherwise Setup divides by zero) and at least one graph (Setup makes one also when the configured size is 0). For the local cache that capacities are numbers and that two times of a caller are never further apart than 2^64 less the age limit; otherwise the unsigned difference of an entry from the future could look small. For the reader at least one time slice, a positive length of a slice and width of the counts, and finitely many updaters. The supervisor's limits and bounds are numbers; the buckets of a hash table are a positive multiple of 4, the ids of the keys are among them, the mask that stands for "no root" is no id, and NFOUND, 64 set bits, is no payload, which has 56; the server process and the file monitor need no assumption. TLC evaluates them in the runs.

*Node collection.* BlackNotValid is not inductive: UpdateBadNode takes a new black
node out of the lists its index entry names only, so the index has to be complete
first; and RemovePath must not drop entries of paths that stay. `ListsOK` is the
conjunction, inductive relative to the type invariant. That RemovePath's
erasures from the black list never have an effect follows from it: the nodes
it looks at are listed, and listed nodes are not black. For the two maps, `TablesInv`
adds what holds in the middle of an update, between its two critical sections: which
paths are in one table and not yet, or not any more, in the other.

*Task queue.* `RingInv` says that exactly the `size_` slots from `front_` on hold tasks
and that `back_` is `size_` slots further round. NoLostWakeup counts: sleepers
that could go on are covered by signals still to be sent and by threads on their way
to the critical section; every move of a thread between these groups is one case of
`WakeupStep`. The refinement maps the ring to the sequence of its tasks;
`PutBackItems` and `TakeFrontItems` show that the two pointer updates append and take the
first.

The round robin proof counts the picks since the list was written: the index walks the list
cyclically, so a node is one ahead of another exactly when the index has passed it in the
present round.

*ZooKeeper wrapper.* The invariant `ZkInv` says in whose hands each thing is. A handle is the current one, a Connect's (taken out and not
yet given to the finalize thread, or new and not yet published), being closed by the finalize thread or a Shutdown, or closed
(`PhasesFit`); who holds the lock can be read off where the threads are (`LockFits`). The library has a context in one place only: a
request, an armed watch or the callback under way (`RecordFits`), and a request that is just being made has contexts that nobody has seen, because ids are
not used twice (`CallFits`, `FreshContexts`). So Remove and RemoveContext never free what someone else still has (`LibraryStep`). What
finalize_thread_ erases belongs to handles that are closed by then (`FinalizeFits`): the pool that Connect copies can hold, beside those of
its own handle, only contexts of handles that are closed or that an earlier finalize thread is still closing. Shutdown keeps the contexts in old_pool
until its handle is closed; `early` marks the Shutdown that overtakes a finalize thread. ContextsOK holds for any number of
connectors; HandlesOK needs one (`OneConnector`), since only then does nothing come between the Join of a Connect and the start of its own finalize
thread (`Joined`). The heartbeat thread of a receiver or reporter that does not share its wrapper (`shared_zk_`) connects so.

*Channel pool.* GroupsOK needs to know what a thread in GetChannel knows
(`GettersKnow`): from the lookup on, its group is the one the map names; the slot it was given is
not above channel_count_, which is why the next increment gives out one that nobody has; and a channel
is in the cache before it is in its slot. Groups are only appended, counts and the cache only grow, so a
thread that does not move keeps what it knows (`GroupStep`). RoundsOK needs that no checker
ping is out between two calls of CheckChannels, that there is one ping for each bad slot (`PingsOfRound`), and that the black list
is part of spec_list_: DoDetect's early return leaves the black list alone, and it is empty then.

*Heartbeat reporter.* A promise moves from the map into the round, from the round into a
request, and from a request that failed back into the map; `PromiseFits` says that it is in one of
them, and each step moves it or releases its threads. NoForgottenRemoval is not inductive:
Report may create again the node of a path that has been removed since the snapshot, so the invariant
adds that its removal is then still in the map (`RemovalOutlivesRound`); and a Delete that a dead session refuses drops a removal, which is
harmless because a dead session owns no node (`DeadOwnsNothing`).

*Heartbeat receiver.* That no scan is on a removed path rests on RemovePath having waited for the scan (`ExpectsOK`).
StatusOK rests on three orders: the list is written before the version, the version belongs to the children that
were read with it, and versions only grow, so that one that was overtaken never becomes current again. It is proved under
`NoOverlap`, that no path is added while another thread is still removing it; one thread satisfies this by itself
(`OneCallerStatusOK`), and this is the instance that is model-checked.

*Server process.* The inductive invariant says of every place in BaseRun which resources are there already, which are gone, and
that brpc is joined before anything a call uses is taken down.

*Supervisor.* WindowExact relates the bounded queue of a server to all of its deaths. `DeathsFit` says that the queue is an end of the list
of all deaths (`Queued`): what NeedRestart took from its head is too old, and stays so because times only grow. A queue longer
than Intensity has a head that is in the period, so all of it is (`WindowCounts`); a server with such a queue is not started
again (`GivenUp`), so its queue never grows further. That no queue passes
Intensity + 1 is part of ChildrenOK, so the two theorems share the one invariant `SuperInv`.

*Hash table.* The invariant has a witness: `ChainsHold(c)` says that c, which gives every bucket id a sequence of locations, is what the chains are, and the theorem shows that
there is such a c in every state. Every place of a chain knows its root and has no size unless it is the first (`Knows`), no bucket and no key is there twice (`Once`, `KeysOnce`), each bucket
points to the next (`Linked`, where the link of which only the flag has been changed counts as the old one) and holds what was inserted last (`Holds`); a free bucket with a root is in the chain of that root (`Owned`). Then
the calls under way: how much of a root node or of a payload is written (`Creates`, `Overwrites`), that the bucket a new one is hung to is the last of its chain (`Hangs`), and that the copy OptimizeFreeBucket
makes is in no chain (`Moves`). Only two steps change c: Grow puts one bucket more at the end, OptimizeNext has one place taken by the copy (`ChainUpdate`); all others leave it
alone (`CoreKept`, `HoldsKept`), most of them because they write a bucket in no chain (`OutsideUntouched`) or the link of the last one (`LastTouched`). A bucket with the root None is in no chain
(`Rootless`), which is why Claim and OptimizeFreeBucket may take it; Claim of a bucket that does have a root is what sets `displaced`, and from there on the theorem claims the types only (the run of section 4 shows why).
FindParent finds the parent because of `Owned`, so neither it nor Insert gets `stuck`. That Walk, a recursive function, visits c
(`WalkAgrees`) is an induction over its places, done with a least counterexample (`LeastNat`). `RoomLeft` is needed because Insert gives up only at the size field 255: a chain whose
first bucket points to a free bucket has the field 127 when it is full, and the next Grow turns it into size 0 with the flag set. `SmallTableCorrect` adds to the invariant that no size passes the number of insertions
(`Bounded`); it covers the instance that is model-checked.

*Find beside the writer.* For `RegularFind` the invariant `Regular` adds to c a second witness (`Reads`): v, the locations the reader will still visit. In each place v has the bucket of the
chain, or an old one from which it was copied (`On`); from each bucket the link leads to the next of v, and if the key was there when the Find began it is at a place that is still ahead (`Ahead`). An old bucket
(`Old`: free, taken and without a root) is never written again (`OldKept`), so that a reader who has come to it by a link read before OptimizeNext goes on as it would have, and finds a payload the key
had during the call. Grow and most other steps leave v alone (`SeesKept`); OptimizeNext puts the copy in place of the next bucket if the reader has not passed the parent, and otherwise turns what the
reader has before it into an old bucket (`SeesRerouted`). If the reader is between the two loads of the parent's link its halves disagree from then on (`Torn`), which Advance notices as not calm. A root that is being
created is a case of its own (`SeesCreating`): its chain has one place, and the reader may take it for its key only if it is its key, or while the key is still the 0 that Reserve has left there (`Fresh`, `Unwritten`), which
makes the Find not calm. What a payload read there can be is a count of its halves: those that are written (`Written`) are the writer's, the others what was there before (`Was`, `GoodPayload`). The history that
RegularFind speaks of is enough because it names the content of the key and the payload being written at all times (`Expected`). `RegularGives` goes through the ways a Find can end: an empty slot, the last bucket without
a match, and a payload read twice.

*Workflow.* That nobody else uses a context while a worker runs its handler follows from where the context's
threads, its queued task and its calls in flight were when async_counter_ last changed. The invariant `WalkInv` names the phases of a context:
walked by at most one worker, with no call out (`Walked`); its worker sending calls (`Sending`) or done with that while calls are
in flight (`Sent`); the last call has ended and neither the sender nor the taker of the queued task has come to IsAsync (`Meeting`); the sender has stopped and only
calls hold the context (`Away`); one of the two is left (`Back`) and has passed IsAsync (`Through`); in the pool (`Resting`). It says for each phase who holds the
context, and that every context is in one; each step moves the context it touches from one phase to another and leaves the others where they
are. Once the model is `crashed` (the run `workflow_once`, section 4) nothing more is claimed of the phases. `crashed` is set by a second answer, so it says nothing
by itself about answers; `SecondAnswerIsStale` is about the step that gives one. The phases leave only one candidate: a request that is pending or queued has
no answer, nor has one whose session is out of the pool, and calls in flight keep a session out of it; so the step is the reset of a worker whose session is back in the pool.

*Thread pool.* An accepted task has been run, is in a queue or is held by a worker (`TasksKept`); the destructor pushes its tasks when no more are
accepted, so only stop tasks are behind a stop task (`StopsLast`). With one queue, a worker that has taken a stop task has left nothing but stop tasks in the queue
(`Drained`), and a worker leaves its loop only after that. With several queues stop_ may also end a worker whose own queue still holds
tasks, so that the theorem has the hypothesis `QueueNum = 1`. That the destructor is not left waiting is a count (`StopsCounted`): the stop tasks pushed so far are
at most those in the queue and the workers that are leaving, so one is still queued when all are pushed and a worker waits; and once a worker is stopping, one
of them has been taken out, so that when all workers have left there are fewer in the queue than workers, and Push finds a slot if there is one for each. That the destructor
then returns (`DestructorReturnsWithRoom`) is checked by TLC.

*Monitor status.* As long as the semaphore was set up once, its value and the threads inside add up to 1, also across a death, when SEM_UNDO gives
back what the process held (`SemFits`); so there is one adder (`OnlyAdder`). With one adder and no death inside AddEntry, an entry that is not complete is the one
the adder is just filling (`EntriesFit`), so Find sees every entry and a second one for the same key is never started; what a map or a thread
has found is the entry of its key (`CachesFit`, `ThreadsFit`). `ReadersFit` says that the index is `since` steps ahead of the one a reader has read, round the ring of
copies; so an insertion that overwrites the reader's copy is the MAX_CACHE_SIZE-th. Where two processes set the semaphore up, or one died between
the two stores, nothing is claimed of the counts, as in `CountersOK`; the types, `SemFits` and ReadersUndisturbed hold all the same.

*File monitor.* The commands to come are those the worker has taken, before those that are queued (`Line`). CookiesAlive follows
from their order: every one of them is about a live cookie, and the Forget of a cookie is behind its Observe and the last there is of it (`LineFits`), so
ProcessForget, which frees the cookie, leaves no command behind that reads it. Enqueue keeps this because a cookie is in the hands of one thread, which has
either given its Observe to the queue and not begun its Forget, or holds the one command that is not queued yet (`UserFits`, `Apart`). For inotify's
events `TablesFit` says that the entries are the live cookies whose Observe is through and was not refused. StopJoined frees every cookie with commands and
callers still about, which is why all this is claimed only as long as no call ran across a Stop (`overlapped`): then every thread is idle while status_ is
"stop". The agreement of the two tables and the watches needs no such condition; it rests on watch numbers only growing (`WatchesFit`).

*Local cache.* A cell is in one place of one of the two lists (`Linked`), the index knows the cells of the list and no others (`Indexes`), and the list
is the beginning of the order of use, in which every key is once (`OrderFits`). `Linked` and `Indexes` speak of any two lists and any index, so that the eviction and the insertion
of one Put are two applications of lemmas (`UnlinkFits`, `UnindexFits`; `LinkFits`, `NewIndexFits`) and need no state between them. Moving place i to the front,
or taking it out, does the same to the list and to the order (`From`, `Skip`). A key that Put does not find is behind the cached ones in the order, or not in it (`ForgottenIs`), which is why
forgetting it there leaves the beginning as it is.

*Graph pool.* `GraphInv` follows each graph through its four places: the queue, the pool of a thread, a workflow, a release that has passed the comparison of
versions. `GraphFits` says that it is in one of them, in none only when its version is gone, and that one that was handed out late can
only be with its workflow, whose release deletes it: no queue, pool or release still has it, which is why served counts to 1. That a
place does not have a graph twice is `QueuesOnce` and `HoldersOnce`. A reload drops the graphs of the queue, and the new ones are nowhere yet because no graph is of a version
to come. StarvesOnlyWhenBusy is then a count (`BusyGraphs`): the graphs of this version are mapped one to one to the room in the pools of the other threads and
to the workflows and releases that hold one.

*Counter reader.* DiffsExact speaks of the moment after a table. `ShownFits` says what holds at all times: the sums of what was printed are the values of the old
maps, with the same names, so that a name that is new in a sample starts from 0 in both; the differences of 32 bits then add up because what is shown is the old value
modulo the width (`DifferenceIn32`). TablesCurrent rests on the file only growing (`Grown`, kept by every step of a server) and on each map being taken after the
last table: what GetAllCounters has swapped in by now depends on the place in the loop (`CurrentFits`). SlicesAddUp compares a timer with the updates on their
way: an update that has been counted is in no slice yet, and one in the last slice in no threshold (`SlicesFit`). Each of the four stores of an updater moves it
from one of these groups to the next (`FlightMoves`) or puts one mark more in one slice (`MarksMore`); the other timers do not notice (`TimerStep`).

Only model-checked: the invariants of the other modules; all liveness properties
(fairness and ENABLED are beyond this prover); and what recursive definitions compute, in the modules of the
workflow language and the plug-ins.

## 6. What is not modelled

* Parts of modelled components: of the ZooKeeper wrapper GetState, GetID, the conversions of codes and
  paths and the session callbacks; of `qed` RearrangeBuckets (offline), the vectorised BatchFind, more than one writer and
  the opening of files; of the application the pid file and daemonizing; of the rpc
  client what messages hold. The thrift server is compiled out by default and has the shape of the modelled one.
* `common`'s queue, thread pool, object pool and any: only their unit tests use them. (Queue::Front may consume a notification
  that a waiting Pop needed, and the destructor of the thread pool joins workers that nobody wakes.)
* Logging, strings, configuration, the registries filled before main, locks and the singleton: wrappers of the
  operating system, or state that only one thread ever writes.
* The trie, file mapping and conversion of `qed`, the other tools, examples and vendored code: input and output.
* Details inside modelled steps. The session callbacks at the end of ZKWrapper::Connect: nothing in the repository registers one. A
  broken promise, which makes get throw in the thread that waits for a removal: the model lets it go on. The close of a server, the
  reset of its register and the end of its report are one step. The clock of NeedRestart is system_clock and may be set
  back; the model's only goes forward. A child that was just forked still has the handler of its parent and may signal the group
  once more, which changes nothing. FileMonitor::ProcessEvent reads the name of an event without one, past its end; the model skips the event. Start of the file
  monitor does not fail. ParseCounters reads entry by entry; in the model it is one step, and the properties do not tell these apart. A
  failed read of the scanner ends the process.
* Allocation failures, and memory orders weaker than sequential consistency except in `qed`.

## 7. Plan

All components with state that several actors share, and the workflow language, are modelled; of each of them but the workflow language and the plug-ins the safety
invariants and the action properties are proved. Of the properties the runs check, liveness and the invariants of the workflow language and the plug-ins rest on TLC alone.

`WorkflowSyntax`, `WorkflowCompiler`, `WorkflowParser`, `WorkflowLexer` and `PluginMgr` use recursive operators and stay with TLC.
