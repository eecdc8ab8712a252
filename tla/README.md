# ProxyBox in TLA+

ProxyBox is an Android VPN client. A foreground service (`CoreService`) creates a
tun device, runs the xray core behind a local SOCKS inbound, and has a native
thread (hev-socks5-tunnel, "the worker") turn the packets of the tun device into
SOCKS connections to that inbound. Around this core are a store of profiles and
rules, an updater of geo data files, importers of configurations, and user
interfaces for phones and TVs.

Paths below are relative to `src/app/src/main/`: `K/` stands for
`java/com/dave_cli/proxybox/`, `C/` for `jni/hev-socks5-tunnel/`.

## 1. Inventory

| part | source | state | operations | what is hard | correct if |
|---|---|---|---|---|---|
| VPN service | `K/core/CoreService.kt` | companion fields (state, credentials, name, time), tun descriptor and job per instance, preference `auto_start` | START, STOP, null intents; revoke; destroy; the start coroutine | main thread and coroutines interleave; failures half way; process death, sticky restart, boot | CONNECTING is answered; the parts agree when up; nothing is left when down; no reader of a closed descriptor; the preference follows the user |
| xray wrapper | `K/core/XrayManager.kt` | the controller | start, stop, measureDelay | no lock | one loop, and `stop` can reach it |
| tun2socks wrapper | `K/core/Tun2SocksManager.kt` | `started`, the yml file | start, stop | flag and thread change at different moments | the flag and the thread agree |
| widgets | `K/widget/` | a picture kept by the launcher | update, toggle | outlives the process | shows `isActive` |
| worker, life cycle | `C/src/hev-jni.c`, `hev-main.c`, `hev-socks5-tunnel.c` | `is_working`, event sockets, tasks, pcbs | start, stop; init in stages; run; fini | a stop during any stage, any stage failing; a polled variable without synchronisation | a stop returns and leaves nothing |
| worker, tasks | `C/src/hev-socks5-tunnel.c`, `hev-socks5-session*.c` | session list and count, `run`, task states | event, io, timer and session tasks | cooperative tasks wake each other; eviction; timeouts reset | list and tasks agree; all tasks end when asked and only then |
| worker, TCP data | `C/src/hev-socks5-session-tcp.c`, `C/src/misc/hev-ring-buffer.c` | ring buffer, pbuf queue, two results | splice in both directions, lwIP's callbacks | memory lent to lwIP; edge-triggered wake-ups; half-closed sides | bytes in order, ends after bytes, no lost wake-up |
| worker, UDP data | `C/src/hev-socks5-session-udp.c`, `C/src/core/src/hev-socks5-udp.c` | frame list and count, two results, timeout | forward both ways in batches, receive, terminate | partial batches, edge-triggered wake-ups, a control connection nobody reads | bounded, in order, nothing twice; ends with the control connection |
| SOCKS5 client | `C/src/core/src/hev-socks5-client.c` | descriptor, timeout | connect, handshake (standard and pipelined) | messages sent ahead of the answers, timeouts set anew | both sides in step when data flows |
| mapped DNS | `C/src/hev-mapped-dns.c` | LRU list, tree, table | find, lookup | reuse of addresses | an address maps to the name it was given out for |
| profile store | `K/data/` | profiles, subscriptions, rules, two selections | add, select, delete, refresh | several transactions per operation, concurrent coroutines | at most one selection; refresh loses nothing |
| geo files | `K/core/GeoFileManager.kt`, `GeoUpdateWorker.kt` | two files, their ETags, a `.tmp`, the geo profile | update, extraction, profile change, restart of the engine | crash between delete and rename; several writers; exceptions half way | a complete file is in place; the ETag is that of the file; the engine has read it; the files get up to date |
| configuration builder and routing | `K/core/ConfigBuilder.kt`, `RoutingPreset.kt`, `RoutingRuleValidator.kt` | none (pure) | build, validate | order of rules, malformed rules | tags are unique, the user's rules prevail |
| configuration import | `K/import_config/` | none (pure) | parse | closure over dialer proxies, circles | what is kept refers to what is kept; the search ends |
| import server | `K/server/` | a latch per request | HTTP handlers | wait with a timeout for a coroutine | the answer tells what happened |
| user interfaces | `K/ui/` | view state | toggle, reconnect | fixed delays | treated as clients |

How they interact. Clients (activities, widgets, `GeoUpdateWorker`, the boot
receiver) only send intents and read `CoreService.vpnState`. The service calls the
two wrappers from the main thread (stop) and from coroutines (start), without a
lock. The tun2socks wrapper calls the worker through JNI under a mutex
(`hev-jni.c`). The worker's thread and the callers share `event_fds` and a socket
pair. Inside the worker everything runs in cooperative tasks of one thread, which
share the session list, lwIP and its mutex. A session talks to the xray inbound
through a socket.

`PROJECT.json` lists every component with its status, and the hazards with the line
where each bites and the properties that would notice.

## 2. Modules

| module | models | main abstractions |
|---|---|---|
| `Sessions` | the names of start coroutines; a tun, a controller and a set of credentials are named by the coroutine that made them | |
| `XrayManager` | the wrapper of xray: stored controller, running loops, the credentials in each one's configuration | configuration text reduced to its credentials |
| `Tun2SocksManager` | `started`, and the descriptor and credentials of the native thread | the yml file reduced to its credentials |
| `CoreService` | the service, composed with the two above, its clients, widget and the system | see below |
| `NativeTunnel` | the life of the worker and the JNI calls | the run is one phase |
| `RunPhase` | what `NativeTunnel` assumes of the run: it ends after a request and not before | abstract specification |
| `TunnelTasks` | the run in detail: scheduler, event, io, timer and session tasks | data moved by sessions |
| `HevRingBuffer` | the ring buffer's functions, as operators on its four counters | |
| `Relay` | one direction of a connection: in order, nothing dropped, end last | abstract specification |
| `TcpSession` | the data path of one TCP session with lwIP's callbacks and the socket | bytes are numbers, lwIP's send queue is the cells it points to |
| `ProfileStore` | the operations of `ProfileRepository` as coroutines, one step per query, and the tables | columns other than the two below; the parsing of lines and lists is a choice of how many there are |
| `LocalConfigServer` | the HTTP handlers as clients of the store, beside the user interfaces | an answer is OK or an error |
| `GeoFiles` | the updaters of the geo files, the extraction of the bundled ones, the engine that reads them | a file is a sequence of chunks, each of one release |
| `XrayConfig` | from an imported document and routing rules to the configuration of the engine | an outbound is its tag, its references and whether it is a utility; a rule the kinds of traffic it hits |
| `MappedDns` | the table of the mapped DNS | names and indices; the red-black tree is a set |
| `Socks5Client` | connection and handshake of the SOCKS5 client, and the server's possible answers | a message is its kind and what the other side looks at |
| `UdpSession` | the life of one UDP session, composed with `Socks5Client` | datagrams are numbers |
| `CoreServiceProofs`, `NativeTunnelProofs` (with the mapped DNS), `TunnelTasksProofs`, `TcpSessionProofs`, `UdpSessionProofs`, `ProfileStoreProofs` (with the import server), `GeoFilesProofs`, `XrayConfigProofs` | the theorems, see section 4 | |
| `MC*` | symmetry sets, sets of inputs, a constraint | |

Definitions named as mutants are bugs one could make in the definition after
them; no specification uses them.

### CoreService

A step of a coroutine is the code between two points at which another thread can
see a difference; `pc[c]` names the place (`select`, `establish`, `generate`,
`build`, `stopOld`, `loop`, `store`, `spawn`, `mark`, `connect`, `persist`).
`stopConnection()` runs on the main thread in six steps (`mainPc`), each of which
coroutines may interleave with; `Announce` reports DISCONNECTED, `Finish` clears
`auto_start` and returns to the caller's `stopSelf()` or `job.cancel()`. Intents are
handled one at a time. `Fail` is the catch block and the early returns. `Cancelled` says
that the coroutine's instance is gone: a suspending call throws, other code goes on. The
last suspending call is `getSelectedRule()`; a coroutine past it (`Committed`) when its
job is cancelled is in the ghost `late`. A coroutine is `Overtaken` by a stop when it is
late, or when its service is between the stop and the `onDestroy` that follows.

`Patient` is an assumption, not something the code enforces: nobody starts, stops or
revokes while a start or stop is in progress. The user can break it (the notification
offers Disconnect while CONNECTING), and so can the system, whose `onRevoke` comes when
it likes. `ConnectedCoherent`, `StoppedClean`, `NoClosedFdInUse` and `WidgetTruthful` are
stated under it; `NoStuckConnecting`, `ConnectingSettles`, `NoLateConnect` and
`AutoStartWanted`, which are about stops that come in the middle of a start, are not.
Faults are the death of the process (`kill`, followed by a sticky restart), a reboot
(followed by the boot receiver) and an exception of xray's `stopLoop`. The wrapper's
`stop()` (`stopLoop`, then clearing the controller) is one step: that makes a difference
only to another start or stop at the same time, when none of the properties about the
engine is claimed.

### NativeTunnel, TunnelTasks

`NativeTunnel` has any number of threads that call `native_start_service` and
`native_stop_service`, and the worker with one place per stage of
`hev_socks5_tunnel_init`; `Faults` names the stages that may fail.
`TunnelTasks` refines its running phase (`ImplementsRunPhase`); the task that has
the thread keeps it until it yields, which is why a step reaches from one yield to
the next. The fault `tun` is a broken descriptor, `alloc` a failing `hev_task_new`, after
which the io task waits for a mutex it holds itself (`mutex`). In the code the other
tasks then run up to the same lock and wait there, a session that ends after its
`delete_session`; the model does not follow these last steps, and `ListMatchesTasks` and
`PromptStop` claim nothing of them.

### TcpSession

The task of a session goes through a round (`f`, `b`, `w`, `y`: `tcp_splice_f`, the
two halves of `tcp_splice_b`, the choice of how to yield) during which only the
kernel moves; lwIP's callbacks come while it has yielded. `mem` is the cell of the
ring each byte in lwIP's send queue points to, `byte` what that cell held when it
was queued. `lastAck` tells whether the FIN to the app was the second of the two, in
which case lwIP calls `tcp_err_handler` when it is acknowledged. Outside the code
are: the server, the socket buffers, an edge-triggered reactor that reports an event
once, and lwIP's `tcp_write`, which may refuse each piece (`mem`).

### ProfileStore, LocalConfigServer

`job[j]` is a coroutine: its operation, the query it is about to run (`at`), the row
it was called for, the keys it has made. A query is atomic and no operation is a
transaction, so queries of different jobs interleave freely. `subscriptionId` and
`isSelected` are the columns that relate rows; keys are UUIDs, so a new key is one
that nothing refers to. Two ghosts: `last`, the selection that completed last in each
table, forgotten when a later one is cut off between its queries; `overtaken`, the
subscriptions that were deleted while a refresh of them was in flight. A job ends
early when its `viewModelScope` is cancelled (not the server's scope, which never is)
and all do when the process dies. `Answer` may come at any time: a handler waits for
its latch with a timeout. What it answers then is what its variable holds: failure for
a profile or a subscription, success for a rule set (section 5).

### GeoFiles

An updater goes through `downloadIfNew` for one file and then the other; `pc` names
the place. It is a worker of WorkManager (the daily one, or the one a start of the
app queues when the files are three days old) or the button of the settings, which
alone never restarts the engine. Updaters share one temporary file per geo file, and
a stream stays on its file when that is renamed or deleted, so `open` follows where an
updater's stream is now; `extractGeoFiles` has such a stream too. `Event` counts what
comes from outside: a release, a lost answer, a checksum that cannot be fetched, a
failing write or rename, a worker stopped by WorkManager, a change of the profile, a stop
of the VPN, the death of the process. The engine has read the files from `Load` on
(`vpn` is "starting", then "up"), while `isActive`, by which a worker decides whether to
restart it, is true only from CONNECTED on (`Connected`). A worker that is stopped
(`Cancelled`) finishes its download, which does not suspend, and loses its result, or
the START that should follow its STOP. `Rename` deletes the temporary file when
`renameTo` fails for any reason, after the old file was deleted.

Ghosts: `overlap`, files two writers had in hand at once; `torn`, files whose
extraction was interrupted; `lost`, files that a failed rename left without contents;
`stale`, files changed since the running engine read them; `missed`, those whose updater
did not restart it: the button, one whose second request threw, one that was stopped, one
that ended before CONNECTED; `kept`, files whose ETag outlived a crash although it should
have been cleared, or although an updater for a former profile had taken the file away,
or failed to rename its own; `early`, in an updater's record, that the ETag it sent was
`Doubtful`: of a `kept` file, or read between the two writes of `setGeoProfile`. A server
is taken to send an ETag with every file (the code saves none otherwise).

### XrayConfig

One action per stage: `PickMain`, the rounds of the search for chained outbounds
(`Round`), `Imported`, the loop of `validate` (`ValidateRule`, `Validated`), `Build`. The code computes on Gson trees; here an
outbound of the configuration has a `part` that tells where it came from, so that two
with the same tag are told apart. `Applied` is the engine's rule, first match.

### MappedDns

`tree`, `list`, `records`, `idx` and `use` are the code's. A message is taken question
by question, which no look-up comes in between (one thread, no yield). Ghosts: `given`,
the address a name got last, and `since`, the other names used since a name was.

### Socks5Client, UdpSession

A handshake is the list of calls it has still to make: `Standard` and `Pipelined`
differ in the order, and a server that chooses "none" strikes two calls off. The server
may give any answer, hang up, or never answer. `UdpSession` adds the loop: `forward`,
`send`, `backward`, `choose` happen without giving up the thread, unless the socket is
full (`sending`); `ready` and `wait` are the two kinds of yield. lwIP's callback
(`Receive`) and `Terminate` come only at a yield. Both yielders look at the control
connection first.

## 3. Runs

| run | question | instance | result |
|---|---|---|---|
| `core_patient` | under `Patient`, do the parts agree, is everything released, does the widget tell the truth? | 2 coroutines, 2 instances, reboots, any failure of a start | holds |
| `core_liveness` | may CONNECTING be stranded, is every CONNECTING answered, and what can connect, or set `auto_start`, against the user's stop, with kills, reboots and throwing `stopLoop`? | 1 coroutine at a time, 2 instances, clients that do not wait (more coroutines: the theorems) | never; yes; only a coroutine that the stop has overtaken, until `onDestroy` if it has a suspension point left, and after it if not |
| `core_latecreds` | are credentials "cleared on stop", as the comment says? | 2, 2, no faults | no: a stop that overtakes the coroutine clears nothing, the coroutine then sets them |
| `native_faults` | is a stopped worker gone, a running one stoppable, and does a stop return? | 3 callers, every stage may fail | holds; a stop hangs exactly if the worker ended before it had an event socket |
| `tasks_safety` | do list, tasks and timer stay consistent? | 2 sessions of both kinds, both faults | holds |
| `tasks_end` | do the tasks implement `RunPhase`? | 1 session, no fault | yes |
| `tcp_safety` | memory, order, ends, both directions as relays, no lost wake-up | ring of 3, 4 bytes down, 2 up, every fault | holds |
| `store_overlap` | what survives of selections, subscriptions and refreshes when operations overlap or are cut off? | 2 jobs, 2 profiles, a rule, a subscription | holds |
| `geo_updates` | is a 304 always right, are the files usable, has the engine read them, do they get up to date? | a worker and the button, 2 profiles, files of 2 chunks, 2 events | holds, with the exceptions the ghosts name |
| `config_import` | do references resolve, are tags unique, do the user's rules prevail, does the search end? | every document of up to 3 outbounds over 4 tags, every 2 rules, 2 presets, 2 geo profiles | holds |
| `mapped_dns` | do tree, list and table agree, and whose address is given away? | 5 names, 3 addresses, messages of 2 questions | the least recently used one's |
| `udp_session` | order, wake-ups, handshake, end of the control connection | pool of 1, batches of 2, 3 datagrams up, 2 down, every fault | holds |

Why the bounds are enough. Two coroutines are the least that race with each other
and with the main thread; two instances are the least with which a coroutine can
outlive its own. A coroutine, descriptor and set of credentials share a name, and a
name is used again when nothing bears it, so that the number of connections in a
behaviour is not bounded. `core_liveness` has one coroutine at a time, since its states
multiply with a second; its three safety properties are proved for any number, any
clients and any faults. With three callers one holds the JNI mutex while two wait.
A ring of three cells is written over its end, filled, and emptied at any position;
four bytes reach the second lap; a socket buffer of one byte is full after each
write. `MaxFaults` = 1 admits one kind of fault, any number of times and with timeouts
besides, in one behaviour. Two jobs interleave in every pair of operations on the
store, and two profiles are a selected one and its successor, or a list of two; what is
proved about the store holds for any number. A file of two chunks can be torn, and two
events (`MaxEvents`) are a second release and a crash in the middle of its
installation or a rename that fails, or a switch of the profile and back. The constraint `Explored` keeps two
updaters from being at work at once in behaviours with events: their overlap is
explored for a first start, which is when both are queued. Three outbounds are a main
one, its dependency and the dependency's, or a circle. Three addresses for five names
evict twice. A pool of one admits two datagrams and drops the third, a batch of two
meets a socket with room for one. All the safety properties are proved for any size
(section 4), those of `GeoFiles` therefore also where `Explored` does not look.

Deadlock is checked except in `tasks_safety`, where the two faults stop the only thread
for good (an endless loop, a mutex locked twice by its owner): this is what the code
does; and in `geo_updates`, where the constraint cuts behaviours off.

Fairness. Coroutines are dispatched, the main looper handles what was posted, and
the system delivers a restart it owes: weak fairness of each coroutine, of the steps
of `stopConnection`, of `onDestroy` and of widget updates. Nobody has to send an
intent and nothing has to crash. The worker's thread and a caller that has entered a
stop run on (weak). In `TunnelTasks` the scheduler picks the ready task with the
smallest `sched_key`, which grows with the time a task has run, so every ready task has
its turn however often it is disabled by another one having the thread (strong); the
silence of a session's peers lasts as long as its timeout. In `TcpSession` and
`UdpSession` the task is scheduled and the reactor reports (weak); of TCP the app
acknowledges what it is sent and the server reads what it is sent, of UDP the kernel
sends what it has taken. The server need not answer, and no timeout need expire. In
`GeoFiles` WorkManager runs its worker again and again and its thread goes on (weak);
the user need not do anything. In `XrayConfig` the call runs on.

## 4. Proofs

`CoreServiceProofs`: `TypeCorrect` and `NeverStuckConnecting`, for any sets of
coroutines and instances, clients that wait or not, any faults.
`NoStuckConnecting` is not inductive: that the coroutine which is to answer is not
cancelled needs `Anchored`, that every coroutine in flight belongs to an instance and
that the main thread is inside `stopConnection`, or owes an `onDestroy`, only for the
live instance. With it each report (`CONNECTED`, `ERROR`, `DISCONNECTED`) leaves
CONNECTING, each start enters it with a coroutine of its own, and a destruction
has announced DISCONNECTED before it cancels.

`ConnectsOnlyWhenAsked` and `AutoStartIsWanted` (`NoLateConnect`, `AutoStartWanted`) are
action properties, proved for any number of coroutines and instances, any clients and
any faults. Their invariant `LInv` says that a coroutine past its last suspension point
belongs to the live instance or is late (`Reached`); that one of the live instance which
finds DISCONNECTED has been overtaken by a stop (`Downed`); and that a start no stop has
overtaken, and one the system owes, was asked for by the user or by an `auto_start` that
was set already (`Reason`). Only `Connect` turns DISCONNECTED into CONNECTED, and the
first two say of whom; only `Persist` sets `auto_start`, `Finish` takes the wish and the
preference back together, and `Reason` is what the restarts and the boot need.

Under `Patient` the same module proves `UpIsCoherent`, `DownIsClean`,
and `NoReaderOfClosedTun`, still for any number of coroutines and instances, with the
process dying and the device rebooting anywhere. Their invariant `PInv` says that a
coroutine in flight is alone (`OneAtATime`), exactly what it has acquired at each place
of its program (`Acquired`), that no tun, loop or thread is without the field that leads
to it (`Accounted`), and what `stopConnection` has released at each of its steps
(`Released`). The
hypotheses are needed: clients that do not wait can leave tun2socks on the old
descriptor (section 5), and a `stopLoop` that throws is logged, with the loop still
running and its controller still stored after the stop. `WidgetIsTruthful`
excludes kills too: a killed process says nothing to its widget.

`NativeTunnelProofs`: `TypeCorrect`, `CleanWhenStopped`, `AlwaysStoppable` for any
number of callers and any failing stages; `AssertionHolds` if nothing fails from
`event_task_init` on; `GatewayOnce` if `tunnel_init` does not fail. The invariant
says what exists at each place of the worker's program (`WorkerShape`), that only the
owner of the mutex is inside a stop and that there is then a worker (`OneStopper`,
`Counted`), and that a stop which has not written has the socket to itself
(`RequestShape`), hence at most one request.

The same module has the mapped DNS: `TableConsistent` and `ReplacesLeastRecent`, for
every set of names and every size of the table. `Consistent` is inductive as it stands;
each of the three ways a name is used (`Touch`, `Grow`, `Evict`) is a lemma on the list.
That the evicted name is the one to be given up needs `Recent`: the names behind a name
in the list are exactly those in the table that were used since, so that the head of a
full list has `Max` - 1 of them and, with the new name, `Max`.

`TunnelTasksProofs`: for any number of sessions, any limit on it and both faults,
`SessionListSound` and `StopIsPrompt` (until `alloc` has locked the worker up),
`TimersRun`, and `WakesOnlyLive` if the limit is not
one (with one, the first session is evicted before its task is in the scheduler and the
wake-up aborts: a finding of the model, section 5). The invariant adds to them
`Lifetimes` (a session's object, task and pcb), `Workers` (which of the three tasks live
while `run` is set, and that `run` is cleared only on request) and `Told` (a session
that was copying when the stop came has a timeout of zero and is ready). The list is
handled by lemmas on removing one element and on appending one.
`TasksImplementRunPhase` is the safety part of `ImplementsRunPhase`: every step of the
tasks is a step of `RunPhase` or changes nothing of it; that the run does end, which is
the fairness of `RunPhase`, TLC checks.

`TcpSessionProofs`: for every size of the ring, of the windows and of the streams, and
every fault, `LentMemoryIntact`, `BytesInOrder`, `EndsGracefully`, and `SessionRelays`,
the refinement of `Relay` in both directions. None of them is inductive. `Intact` gives
each byte that is not acknowledged its cell, counted backwards from the write position
(so that it survives the positions' return to 0 and does not mention wrapping); `Broken`
says what is left of this once a `tcp_write` was refused; `Lent` then follows because
writing offers only cells ahead of the write position that hold no such byte. The
arithmetic of the ring (positions run over the end at most once, the two pieces of a
wrapped region) is proved first as lemmas. `Closing` and `Unhurt` relate the two results,
the two ends and the pcb, and give `GracefulEnd` and the order of ends that `Relay` asks
for.

`UdpSessionProofs`: for any pool, batch, socket buffer and number of datagrams, any
answers of the server, `DatagramsInOrder`, `NeverAsleep` and `HandshakeInStep`. `UpInv`
places the current batch in the list; `Round` says that a round which found nothing to
move is still right about it when it decides to wait, because neither lwIP's callback nor
the reactor can come before the yield; `Conversation` lists what may be left of either
form of the handshake and says that the request is the last message the client writes
and the response the last the server does.

`ProfileStoreProofs`: `SelectionStands`, `NoOrphansEver` and `RefreshesReplace`, with
the import server among the clients, for any number of jobs, rows and subscriptions. None of them is inductive. That a refresh may not bring
in rows of a subscription nobody knows of needs `RefreshersKnown`; that deleting a
subscription leaves no rows needs `DeletersAlone`, what is true between the two
queries; that a new row is not taken for the remembered selection, or for a row of
somebody else, needs `Unowned` and `NewIsNew`, that the keys of a fetched list appear
nowhere until they are inserted; that clearing one table leaves the other alone needs
`SelectorsKnown`. For a refresh, `Replacing` says that the rows it saw at its start are
its subscription's until it deletes them, gone afterwards, and in nobody's fetched list.

`GeoFilesProofs`: `NotModified`, `Usable` and `Fresh` (`NotModifiedIsRight`,
`FilesUsable`, `EngineFresh`), for any number of updaters, profiles, chunks and events,
updaters at work at the same time included. The invariant `IInv` has four layers. What a
step may touch: the files, streams and ETag of the one file its updater has in hand
(`Frame`), and which fields it sets (`Outcome`; a lemma per action), so that what follows
argues about eleven outcomes and not about records. Who is alone: `Alone` says that a file
not in `overlap` has one writer, and `Progress` how far that one is (the temporary file is
the first `pos` chunks of `got`, then all of it, then it is in place), `Asked` and
`Replaces` that it replaces a file only if the saved ETag is not the latest of its
profile; `Streams` and `Extracting` say the like of the open streams and of the
extraction. What an ETag means: `EtagTrue`, that a saved ETag is that of the file in
place, or the file is between its deletion and the next ETag, or no server will confirm
the ETag to anyone who may still ask: it is outdated, about to be cleared, or of a profile
no updater at work has. `NotModifiedIsRight` is preserved beside it: an updater that reads
an ETag takes `EtagTrue` with it, and no other step can touch its file. Crashes need
`Replaces`: the file an updater of the current profile has taken away has an ETag that is
not the latest; so does a rename that fails. What the engine has: `FileShape` adds to
`FilesUsable` what is true of a file before and during its extraction, and `StaleKnown`
names, for each file changed under an engine that has read it, CONNECTED or not yet, the
updater that will restart it or be noted in `missed`, or finds the file `lost`.

`XrayConfigProofs`: `ImportInvariant`, `ChainsResolve`, `UniqueTags` and `RulesPrevail`,
for every set of tags and documents and rules of any length. `ImportInv` says of the rounds that the references of
the main outbound and of every extra are among the tags seen, and that a tag seen which
the document defines is in the frontier or has its outbound among the extras; when the
frontier is empty this is `ReferencesResolve` of what will be built. `Kept` is the
invariant of the loop of `validate`: every enabled rule looked at so far was kept, after
rules that came before it only; the rest is where the elements of a concatenation are.

Assumptions on constants are named in the modules that declare them and evaluated by
the runs; what a theorem assumes besides stands in its statement.

Only model-checked are the liveness properties (`ConnectingSettles`, `StopReturns`,
`Ends`, `HangUpEnds`, `ImportEnds`, `Converges`, and with them the fairness of
`RunPhase`), since the prover handles neither fairness nor ENABLED.

## 5. What the code does that its authors may not expect

The run expected to fail is a finding (`PROJECT.json`, "findings"): credentials that a
start generates after the stop that should have cleared them. Others are exceptions
written into properties, or are described under "hazards":

* A STOP during a start does not stop the start. Until the `onDestroy` that follows, the
  coroutine can turn DISCONNECTED into CONNECTED and set `auto_start` after the stop has
  cleared it; `onDestroy` puts both right again, except for a coroutine past
  `getSelectedRule()`, which goes on after it, with nobody left to stop it.
* A stop hangs, with the main thread, if the worker ended before `event_task_init`.
* If a stage after `event_task_init` fails while a stop is between its read of the
  descriptor and its write, the assertion of `hev_socks5_tunnel_stop` does not hold
  (`WriteReachesWorker`; `AssertionHolds` is the theorem that nothing else breaks it).
* With `max-session-count: 1` the first session is evicted by its own insertion, before
  its task is in the scheduler, and `hev_task_wakeup` aborts (`WakesLiveTasks` with
  `MaxSessionCount` = 1).
* A START while CONNECTED leaves tun2socks on the old descriptor and password.
* A failed `tcp_write` of the first piece does not keep the second from being
  queued, and the session then waits for its timeout.
* When the app closes first and the server second, the acknowledgement of the last
  FIN ends the session although bytes of the app may wait for the socket.
* Two selections that overlap can leave two rows marked (clear, clear, set, set); the
  one that completed last is among them. Readers take one of them.
* A subscription deleted while it is refreshed leaves profiles that belong to nothing.
* An import of rules is answered "added!" if the wait runs out before they were looked
  at, and the validation may then reject them: the variable that tells the error starts
  out null, null is success, and nobody looks whether the wait ran out. A QR code is
  answered before its row is inserted. (`LocalConfigServer` shows both; no property is
  claimed of the answers.)
* The button installs new geo files without a restart of the engine; so does a worker
  whose second request throws, one that WorkManager stops, and one that ends between the
  engine's start and CONNECTED. A worker that is stopped after its STOP leaves the VPN
  off. A worker's START comes half a second after its STOP even
  if the user has stopped the VPN meanwhile.
* The ETag of a geo file stays saved while the file is deleted and replaced. If an
  updater that still works for a former profile has deleted a file of the current one and
  the process dies before the new ETag is saved, the current profile is told "not
  modified" about a file that is missing or of the other profile, until its next release.
  The same can follow a crash between the two writes of `setGeoProfile`, or an updater
  that starts between them. The attempt to prove `NotModifiedIsRight` showed all three;
  the run's constraint had kept it from meeting the first, and its bound the others. They
  are now named by `kept` and `Doubtful`.
* A geo file is gone, the new one too, when `renameTo` fails; nothing brings it back
  before the next update or the next process.
* Nothing is known of a geo file that two updaters, or an updater and the extraction,
  write at once, if its checksum cannot be fetched.
* The README of the app speaks of updates "from v2fly ... Wi-Fi only"; the default is
  another profile, and any network will do.
* A document that chains an outbound to its main one, or to one tagged `direct`, `block`
  or `dns-out`, gives a configuration with two outbounds of one tag.
* A custom rule that cannot be read is not skipped: it and those after it are, those
  before it stay.
* A UDP session's pool holds one frame more than its size. A datagram the tun device
  cannot take ends the download direction for good, and a first send that fails the
  upload direction; the session lives on until the other ends or times out.
* A terminate that comes during connect or handshake is forgotten when the timeout is
  set again.
* A widget keeps showing a connection if the process is killed twice around a failed
  restart.

## 6. Not modelled

Vendored code: lwIP, yaml, wintun and most of the coroutine library make up more than
nine tenths of the lines in the repository and are not the app's own logic; of the
coroutine library, what the worker's tasks meet is modelled (scheduler, wake-up, join,
sleep, reactor). Back ends of other systems and the SOCKS server part of the core
library are not built or not called. The link parsers, QR codes, speed test, update
checker, localisation and layout keep no state that another part sees. UDP over the
control connection is not selected by the app. The YAML configuration is one stage
that may fail. The compression offsets of the mapped DNS's answers
(`hev-mapped-dns.c:237`, one byte) and datagrams shorter than a SOCKS header
(`hev-socks5-udp.c:288`) are below the level of the model.

## 7. Plan

Done: service and wrappers; the worker's life; tasks; TCP and UDP data paths; SOCKS5
client; mapped DNS; profile store and import server; geo files; configuration import
and building. Proofs for the service, the worker's life and its tasks, both data paths
with the refinements of `Relay` and (its safety part) `RunPhase`, the mapped DNS, the
store with its server, the geo files and the configuration: every safety property
that a run checks is a theorem, some under the hypotheses section 4 names.

Left: `NoReaderOfClosedTun` without `Patient`, for the coroutines that no stop has
overtaken, as far as it holds.
