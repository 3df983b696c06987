# Verification of the software-defined video studio

TLA+ models of the services of this repository whose correctness depends on
order, concurrency or failure, the TLC runs that check them on small instances,
and theorems about them checked by TLAPS for every value of the constants.
Paths below are relative to the repository.

    tlc -workers 2 -config PreviewServer.cfg PreviewServer     # one run
    tlapm PreviewServerProofs.tla                              # one proof module

`PROJECT.json` lists components, runs, hazards, theorems, findings, and for each
definition of a module the source lines it models.

## 1. The system

The repository is a docker-compose stack of small services around OBS, nginx-rtmp
and ffmpeg. Much of the Go code is committed inside shell scripts that write it to
disk (`services/go-virtual-studio/scripts/*.sh`); it is modelled as it stands there.

| Component | State it keeps | Operations | Interacts with | Hard part |
|---|---|---|---|---|
| WebRTC signaling server (`src/dockerfiles/webrtc-runtime/app/server.js`) | the Map `clients`, socket states | connection, message, close handlers | browsers, over WebSockets | joins, departures and relays crossing on many sockets; half-closed sockets |
| WebRTC browser client (`.../public/client.js`) | socket, user list, the current call, buttons | clicks, socket events, offer and answer handlers, ICE events | signaling server, RTCPeerConnection | async functions that resume on globals another handler has replaced |
| Metadata finalizer (`metadata-service/app/services/finalizer_service.py`) | queue, job dicts; records in MinIO | queue, process, end a job | MinIO, ffmpeg in an executor | crashes, refused saves, ids by the second |
| Go studio, pipeline (`setup-via-tee-v2.sh`: main, capture, encoder, recorder, streamer) | channels, ffmpeg processes | read, encode, write, cancel, exit | ffmpeg through pipes | full channels, dying processes, shutdown |
| Go studio, preview server (same file) | client map, one channel per client | handleWS, readPump, writePump, broadcastFrames | browsers; the pipeline | lock and channel order, slow browsers |
| Operator dashboard (`setup-god-mode-api-dashboard.sh`) | recording and streaming flags, scene, connections | HTTP handlers, WebSocket commands, broadcastState | OBS control, command channels | unsynchronised check-then-act |
| Dashboard uploader (same file) | queue of 100, tracking map | UploadFile, worker | dashboard, S3 (simulated) | a full queue without a worker |
| Nikon control sample (`src/sdks/nikon_z7/z/Module/Win/Sample Program/Type0023_CtrlSample_Win`: `main.cpp`, `Function.cpp`, `CallBack.cpp`) | the tree of `RefObj` blocks and their capability arrays, `RefCompletion` and `RefDeliver` blocks, `g_bFileRemoved`, `g_bCancel` | nested command loops, dialogs that read and set capabilities, asynchronous commands, completion, data and event callbacks | the vendor's MAID module, which calls back while it is given `Command_Async`; Ctrl+C | callbacks that free what functions further up the stack point to; commands that end late or never; failures half way |
| V4L2 to NDI streamer (`v4l2-ndi.go`) | `running`, the ffmpeg command | Start, Stop, watcher, poller | ffmpeg, signals | an unsynchronised flag, timeouts |
| open-ndi (`open-ndi/`) | none across calls | mDNS discovery, handshake, stream | each other | timeouts, who listens first |
| Multi-camera manager, bridges (`setup-service-files-v2.sh`) | cameras, the active one | register, select | ffmpeg | - |
| Metadata service endpoints, log streamer, batch finalizer | RabbitMQ connection, threads, files | one request, one batch | MinIO, RabbitMQ, Docker, FTP | partial failure |
| Everything else (nginx-rtmp, RTSP relays, OBS containers and scripts, Blender, MediaPipe, infra, MinIO set-up, pages, the rest of the Nikon SDK) | none that survives a call, or third-party | - | - | - |

What makes each correct:

* *Signaling*: a page's user list is the server's Map, late but never wrong;
    signals keep their order, and come over the connections of listed users.
* *Browser client*: at most one call exists, exactly one async function carries it
  on, it can be hung up, and it ends with the sockets.
* *Finalizer*: an accepted job is in one place, runs alone and in turn, ends, and
  its record is never ahead of it.
* *Preview*: the hub never sends on a closed channel, nobody slow holds it up,
  frames stay in order, clients that are gone leave.
* *Pipeline*: no chunk disappears uncounted, each component gets its own in order,
  a shutdown gets through.
* *Control sample*: no object is open below a closed one, no loop uses a freed
    `RefObj`, no callback a freed block; an item is closed as removed only when it is;
  a command that was taken is waited for, one that was not keeps nobody waiting,
  and each file holds one whole picture; dialogs give back what they take on every
  way out. Where the code falls short of this the properties name the exception (5).

## 2. Modules

| Module | Models | Runs on |
|---|---|---|
| `Presence` | what the signaling service promises about who is online: no server, no messages | property of `signaling_membership` |
| `Signaling` | `server.js`, both directions of each WebSocket, and the user list of `client.js` | itself |
| `CallPage` | one page of `client.js` with its sockets and calls | itself |
| `Finalizer` | `FinalizerService`, its records, crashes | `MCFinalizer` |
| `PreviewServer` | the WebSocket hub of the Go studio | itself |
| `StudioPipeline` | capture, encoder, consumers and `main` of the Go studio | itself |
| `MaidSession` | `main.cpp`'s loops, the object tree, the four event procedures | `MCMaidSession` |
| `MaidCommands` | `IdleLoop`, the commands that use it, `CompletionProc`, `DataProc`, nested waits | itself |
| `MaidDialogs` | every dialog of `Function.cpp` that a menu offers, and the menus | itself |
| `CallProtocol` | what a page promises its user about the one call: its phases from either side, signals and media only where they belong | property of `call_page` |
| `JobService` | a job service with one worker and crashes | property of `finalizer` |
| `LossyBroadcast` | what a live preview promises its viewers | property of `preview_server` |
| `SharedFeed` | what a bounded channel that several components share promises | property of `studio_pipeline` |
| `CommandLife` | a command: given, pending, ended, refused or left behind, and functions that wait inside each other | property of `maid_commands` |
| `*Proofs` | theorems about the module they are named after | - |

The `MC` modules add symmetry sets; constants are given in the `.cfg` files.
A definition named `X_Something`, under a comment "Mutant", is a wrong version of
`X`; nothing uses it, it shows which mistake a property would catch.

**Signaling.** Node runs a handler to its end, so a handler is one action:
`OnConnection`, `OnMessage`, `OnClose`. `clients` and `readyState` are the
server's; `toServer[c]` and `toClient[c]` are the two directions of a socket, FIFO.
A client stands for a connection and its generated id: ids are assumed unique
(`generateUniqueId` draws them at random). A browser closes (`CloseClient`), the
server reads the close frame (`ReadCloseFrame`: CLOSING, when broadcasts already
skip the socket but the Map still has it), then the close handler runs; or the
connection breaks (`LoseConnection`) at any moment with what was in flight lost.
`HandleMessage` with `NewRoster` is the part of the page that keeps its list.
A page writes a sender id into its signals (`Send`), and the server relays it
unchecked (`server.js:51-58`). A page's `clientId` and `ws` are globals that outlive
a connection and that two live sockets share (`client.js:18`, `71`, `118`, `233`), and
there may be other clients: so `Send` takes any sender, and `from` records over which
connection a signal really came.

**CallPage.** A page is single threaded: an event handler, or what an async
function does between two awaits, is one action. `pcs[i]` is the signaling state of
the i-th RTCPeerConnection and `ops[i]` its chain of awaited operations; when a
connection is closed its operations never settle. The environment is the
signaling server with exactly the guarantees `Signaling` establishes: `connect`
first, joins and departures alternate. Other users may run another client of the
protocol, and the page looks at no sender, so that offers and answers come at any
time after `connect`, from anybody. Its own sockets after a reconnection are further
users to the server (`Online`).
ICE candidates (which change nothing but the inside of a connection), pings and
`beforeunload` are left out.

**Finalizer.** One asyncio loop: what runs between two awaits is one action.
`store` is MinIO; a save is refused or not (`Save`), and the service ignores which.
An exception after the job has been saved as completed makes it a failed one with a
second save, either of which may be refused (`SaveTwice`).
A crash empties the memory. `Outcomes` says what `finalize_video` does: as
committed it always raises (`default_metadata` calls a function its module does not
define); "returns" exercises the rest of `_process_job` as written.

**PreviewServer.** A step is what a goroutine does between two points where
another can see it. `visiting` is what `broadcastFrames` still has to visit under
its read lock: while it is not empty nobody takes the lock for writing. `reader`
follows `handleWS`, `readPump` and its deferred cleanup in order: delete from the
map, close the connection, close the channel. Left out: rates, `/api/*`, shutdown.

**StudioPipeline.** Channels of capacity `Framerate`, an encoder that makes any
number of chunks of a frame, the components that share `encodedFrames`, and `main`.
A raw frame is counted, a chunk numbered. A process may die at any time; once the
context is cancelled it is killed. `main` then sleeps 500 ms whatever the others
do, closes the channels one by one and leaves: `Close` may begin at any time after
`Cancel`, and `hurried` records whether it began before all that can return had
(`Stopped`: not the recorder, which sleeps as long itself, nor a capture goroutine
that is blocked on `frameTimings`). A receiver sees the end of a closed channel
(`ChannelEnds`); a sender panics (`Panic`), whether it was blocked in the send or
comes to it, and the program is over. The code as committed does not compile
(`frameStartTimes`, line 952, belongs to another goroutine); the statistics it
is used for are left out and the rest is modelled as written. The preview's part
of the pipeline is one consumer here; `PreviewServer` has its detail.

**MaidSession.** The program is one thread; what it does between two moments when the
user or a callback may act is one action. `at` is the object of the innermost command
loop, so that the loops that run are those of `Chain(at)`; `tree` is the set of open
objects, named by their path: `RefObj` blocks mirror them one to one, and `freed` says
that a loop keeps a pointer to a block that has been freed. Callbacks run while `phase`
says that somebody gives `Command_Async` to the module or to the camera, one queue of
events per object; those of an item or a part of one run while a dialog about it waits
(`EventInDialog`: children opened and closed, capabilities enumerated anew), or while it
is being opened, as part of `EnumChildren`. `AddChild`, `EnumChildren` and `RemoveChild`
give the trees that the functions of the same names may leave, `Refusals` what the
module refuses. `Delete`, `Acquire` and `ExitMedia` follow `g_bFileRemoved` out of as
many loops as the code leaves. Using a freed block ends what can be said (`undefined`),
and so does a `RemoveChild` that tries for ever (`spinning`).

**MaidCommands.** What happens while a function waits: `stack` is the stack of
functions in `IdleLoop`, each with its command; a command's number also names its
`RefCompletion`, its `RefDeliver` and the counter in its function's frame. `Orders`
is a function that gives a command and waits for it. Most wait only for a command the
module took; those of `Insistent` wait whatever the module answered: the enumerations
and the six functions that get or set a capability (`Function.cpp:299`, `321`, `354`,
`375`, `396`, `417`, `439`, `490`, `512`). These six occur as `UseCapability` (a dialog, or
`ResetProc`), as the CapSets of DataProc around a fetch (`WaitForDataProc`,
`ReturnToReset`, `DeleteWaits`), and as `SetProc` after a child was opened. The
module finishes commands of an object in order (`Finish`, with `CompletionProc`),
delivers parts of pictures (`DataProc`) and calls event procedures (`Enumerates`): a
CapChange for any object that is waited for, also while that object is being
enumerated, which frees the array first (`CallBack.cpp:57`, `109`, `243`, `290`), and
AddChild, which enumerates, sets procedures and enumerates children, waiting each
time (`then` says what comes after). `array` is the enumeration an array was
allocated for; the module that fills another one's writes into freed memory (`wild`).
What may fail is a constant (`Faults`, `Refused`, `Pends`). `abandoned`, `saved` and
`wild` are history.

**MaidDialogs.** A dialog is a straight list of steps, and what it frees when a step
fails is part of the step: `Scripts` gives the list of each dialog, `Offered` the
dialogs of each menu, and a small machine runs them with every step failing,
declined or waiting. `info` is `pCapInfo`, which a CapChange event frees. Values
and texts are left out.

How the three fit: `MaidSession` has the loops and the tree and takes waiting as one
phase; `MaidCommands` opens that phase up, for one camera, item and image;
`MaidDialogs` opens up what a loop does between two choices.

## 3. Runs

| Run | Instance | Shows |
|---|---|---|
| `signaling_membership` | 3 connections, no signals | `RosterTracksRegistry`, `WelcomeFirst`, `ImplementsPresence`, `RostersConverge` |
| `signaling_relay` | 2 connections, one sends 3 messages (offers, pings) under any sender id | `TypeOK`, `SignalsInOrder`, `SignalFromListedUser` |
| `call_page` | 1 peer, 2 sockets, 3 calls, chains of 2, fair | `TypeOK`, `OneOpenConnection`, `OneDriver`, `ImplementsCallProtocol`, `NoCallWithoutServer`, `CallsSettle`, `DisconnectEndsCall` |
| `call_offer_unaddressed` | 1 peer, 1 socket, 2 calls | violation of `OffersAreAddressed` |
| `finalizer` | 3 requests, 2 seconds, 1 crash | `TypeOK`, `NoJobLost`, `ImplementsJobService`, `StoreFollowsJobs`, `JobsEnd` |
| `finalizer_ids` | 2 requests, 2 seconds | violation of `RecordOfOwnJob` |
| `preview_server` | 2 browsers, channels of 1, 3 frames | `TypeOK`, `NoSendOnClosedChannel`, `ImplementsLossyBroadcast`, `BroadcastsEnd`, `GoneClientsLeave` |
| `studio_pipeline` | preview and recorder, channels of 2, up to 2 chunks a frame, 2 in the pipe, `main` waking at any time | `TypeOK`, `ImplementsSharedFeed`, `ChunksAreTaken`, `ShutdownCompletes` |
| `studio_stall` | as `studio_pipeline` | violation of `CaptureNeverBlocks` |
| `maid_session` | 1 camera, 2 pictures and a film, 1 waiting event per object, every refusal | `TypeOK`, `ParentsOpen`, `LoopPointers`, `RemovedItemIsGone` |
| `maid_commands` | 3 commands, 3 waiting functions, pictures of 2 parts, each of the ten commands refused or pending, Async, Abort, a CapSet or a fetch failing, fair | `TypeOK`, `BlocksAreLive`, `SavedIsWhole`, `ImplementsCommandLife`, `MenuReturns` |
| `maid_dialogs` | the whole model, which is finite | `TypeOK`, `ResourcesAreAccounted`, `CancelIsAsked` |

*The abstract specifications.* Each states a component's promise without its mechanism,
and its run checks that the detailed module implements it. `ImplementsPresence`: what a
page has learned, in order, is what has happened. `ImplementsCallProtocol`: an answer, a
remote description or an established call occurs only in the phase of the one current
call that allows it, however the continuations of replaced calls interleave; the picture
and the Hang Up button of a replaced call stay, as in the code (`client.js:250-253`,
`389-401`). `ImplementsJobService`: jobs run one at a time in the order in which they
were accepted, and a crash loses exactly those that have not ended.
`ImplementsLossyBroadcast`: a frame waits for exactly the clients in the map, and is
left out for a live one only when more wait than the channel holds.
`ImplementsSharedFeed`: a chunk waits, is taken by one component, the one that has
waited longest first, or is dropped, and dropped only when the channel is full.
`ImplementsCommandLife`: only a command that was taken ends, once, in whichever
callback, and waiting functions return innermost first, each after its own command --
but for Delete, which goes on, and for any when Async fails. `PageShowsItsCall`,
`FirstComeFirstServed`, `FramesInOrder`, `ChunksAccounted` and `CommandsAreAwaited` say
parts of this in terms of the detailed modules' own state. They are theorems, from the
same invariants as the refinements; no run repeats them.

*Why the bounds are enough.* A membership error needs a newcomer, somebody leaving and a
witness: three connections. Order and duplication of signals need several messages of
one connection next to news of it: a sender, a reader that may be the sender itself, and
three messages, so that one may be lost or doubled between two others. A stale
continuation needs a call being replaced while a second is being set up, and a third to
be mistaken for; an old socket's late `onclose` needs a second socket. Two requests in
one second and one in the next make ids both collide and differ, the third request keeps
the queue non-empty across a crash. A lagging browser needs a full channel, which
capacity 1 gives with two frames; the third arrives while cleanup is under way. The
pipeline's channels of 2 fill, drop and drain with one consumer busy; `Framerate` stalls
capture after two frames. One peer can already be called, call, leave and call again;
that the properties of `CallPage` do not depend on the number of peers is proved.
`maid_session` has three items so that one may be fetched, one deleted and one removed
by the camera while the flag of another is still set; events can wait for the module and
for the camera at the same time. Several cameras are covered by the theorems. In
`maid_commands` a fetch, an enumeration inside it and one inside that are the three
commands and the three depths; two parts are the least that can be mixed up.
Enumerations that fail at once ("Enum", "Memory" of `Faults`) are left out of the run,
which stays within minutes that way; the theorems are for all faults. `maid_dialogs` has
no bound but TLC's fingerprint set: every state of the model is visited. Bounded
counters (`MaxSent`, `MaxSockets`, `MaxCalls`, `MaxOps`, `MaxSecond`, `MaxCrashes`,
`MaxFrames`, `MaxChunks`, `PipeCap`, `MaxEvents`, `MaxCommands`, `MaxDepth`) are guards
of the environment's or the creating action. Deadlock is not checked: a bounded
behaviour ends when its bounds are reached, and a shut down studio stops. `maid_dialogs`
is the exception: some menu always goes on.

*Fairness.* Signaling: sockets deliver and handlers run (Node's loop); nothing makes
a browser connect, talk or leave. CallPage: the browser settles what is awaited on
an open connection, and ends a closing handshake, by its timeout if need be.
Finalizer: the worker polls its queue and `finalize_video` ends. PreviewServer:
goroutines run and a write ends by its 10 s deadline; `Unregister` is strongly
fair because a waiting `Lock` of a Go RWMutex keeps new readers out. StudioPipeline:
goroutines run, a cancelled context's commands are killed
(`exec.CommandContext`), and a `select` chooses `ctx.Done()` sooner or later (Go
picks at random among the ready cases), hence strong fairness there; `main` may wake
at any time, since nothing ties its 500 ms to the others, and is sure to once they
have stopped. Nothing makes a device deliver, a browser read, or somebody stop the
studio. `ShutdownCompletes` therefore has two ways out, which it names: `main` woke
first, or capture was blocked on `frameTimings`, when `close` makes it panic however
long `main` slept. MaidCommands: the module works on what it is given Async for, which
`IdleLoop` does until the command has been counted, and functions go on when it has
been; the user gives no command, and nothing has to fail. The run lets the module
refuse every command: `MenuReturns` says that the program gets back to its menu
unless a function of `Insistent` waits for a command that is not to come, which it
does for ever unless Async fails, or a freed or missing array was used.

## 4. Theorems

For every value of the constants that satisfies the named ASSUME of the module;
`ASSUME`s only say that bounds are numbers and that names are distinct.

| Proof module | Theorems | Argument |
|---|---|---|
| `SignalingProofs` | `TypeCorrect`, `Membership`, `RostersAreTracked`, `WelcomeComesFirst`, `Implementation` (refines `Presence`), `SignalsStayInOrder`, `SignalsComeFromListed` | `MembershipInv`: `RosterTracksRegistry` alone is not inductive, because handling a message changes a list only as the *order* of the queue allows. It is strengthened with: the Map holds exactly the open and closing sockets; the welcome is first and only once; nobody is listed before connecting or delisted before leaving (`TrueNews`); news of a departure comes after news of the arrival (`OrderedNews`). The refinement follows: what a page learns has happened. `OrderInv`: what is on its way is numbered in the order it was sent, and what got through was sent before what has not. `IntroducedInv`: a relayed signal is in its socket behind the news of the connection it was sent over and before the news of that connection's departure, whatever sender it names; it holds when the server relays because `RosterTracksRegistry` does. |
| `CallPageProofs` | `TypeCorrect`, `Controller`, `OneCallAtATime`, `NeitherStrandedNorDrivenTwice`, `PageIsTrueToItsCall`, `NothingWithoutServer`, `Implementation` (refines `CallProtocol`) | `ControllerInv`: the properties together with "the current connection is open" and "a connection that is not open awaits nothing"; each action closes the current connection, creates one after closing it, or takes one step of its chain. For the refinement, `DriverFits`: the chain that drives a connection is one that its signaling state allows, so that a continuation is a step of the call's own phase or, on a closed connection, never comes. |
| `FinalizerProofs` | `TypeCorrect`, `NoJobIsLost`, `InOrderOfArrival`, `StoreIsTrue`, `Implementation` (refines `JobService`) | `QueueInv`: places and statuses agree, and what a crash lost is nowhere (`LostIsGone`), so that it cannot come back beside its status. `OrderInv`: ids are the seconds of acceptance, and the queue is in the order of its ids, none earlier than those of what has run. `StoreInv`: a record's status is not ahead of its job's, in the order in which statuses follow each other. The refinement needs the first two. |
| `PreviewServerProofs` | `TypeCorrect`, `NeverSendsOnClosed`, `InOrder`, `Implementation` (refines `LossyBroadcast`) | `Registry`: a client is in the map exactly until cleanup begins and broadcasts stay inside the map. `OrderInv`: shown, being written, in the channel, broadcast: each less than the next, and a client still to be visited lacks the current frame. For the refinement `PumpInv`: the writer has a frame in hand exactly while it writes, and cleanup begins only after the browser went away or the writer returned, so that nobody who is well is put out. The frames that wait for a viewer are the one in hand, those in its channel, and the current one while it is still to be visited. |
| `StudioPipelineProofs` | `TypeCorrect`, `NoChunkIsLost`, `Implementation` (refines `SharedFeed`) | `ChunkInv`: every chunk up to the one read last is in one place and no other, and what waits in the channel is later than what was taken. The refinement turns the channel into the set of its chunks: its length is their number and its head the least of them (`AsManyAsPositions`, by the theorems about cardinalities). |
| `MaidSessionProofs` | `Session`, `TypeCorrect`, `NothingIsOrphaned`, `PointersAreLive`, `RemovalIsTrue` | `SessionInv`: events fit the object they wait for (`QueuesFit`: a callback then works below that object only), nothing is open below a closed object, Async for an object further up is given only in a camera's or a film's loop (`AsyncLoops`: the loops in between are safe from callbacks, and what comes in a dialog works below its own object, `DialogTree`), and in the loop of an image or a film the flag is unset on entry (`FlagIsFresh`), without which an item could be closed for what an earlier one set. |
| `MaidCommandsProofs` | `TypeCorrect`, `BlocksStayLive`, `CommandsAreWaitedFor`, `FilesAreWhole`, `Implementation` (refines `CommandLife`) | `BlocksInv`: numbers of pending commands are distinct, not finished, and have their blocks (`Numbered`); the block `DataProc` is set to outlives every fetch that may still write into it, because commands finish in order (`LatestBlock`). `WaitInv`: every function on the stack waits for a command that is pending or finished, or is one of `Insistent` and was refused. `WholeInv`: only the outermost function fetches, one fetch at a time, and its buffer holds exactly what it has been sent (`OuterFetch`, `Unsent`, `UnusedBuffers`, `OneFetch`), unless a fetch has been left behind. All of them go by one lemma (`Kinds`) that puts the twenty-odd actions into ten kinds by what they do to the stack and the pending commands: nothing, a wait, a wait after a wait, a command nobody waits for, a return, a command or all of an object's ended, a part delivered. The refinement follows each kind to the abstract action, `Numbered` telling which command a step has ended. |
| `MaidDialogsProofs` | `DialogsKeepTheirBooks`, `TypeCorrect`, `ResourcesAccounted`, `CancelWasAsked` | `DialogInv`: at each step a dialog holds what the span of its script says, less what `malloc` may have refused (`HeldInv`), `pCapInfo` is freed only under a dialog that waits (`InfoInv`), and `g_bCancel` is set only while Ctrl+C is caught (`CancelInv`). That the steps of each script keep to its span (`AllDisciplined`) is a fact about finite lists, proved list by list. |

Every safety property that the passing runs check is proved: the invariants and the
six refinements. Of the refinements the theorems say what TLC cannot: that they hold
for any number of clients, jobs, frames, chunks or commands. Only model-checked are
the liveness properties (`RostersConverge`, `CallsSettle`, `DisconnectEndsCall`,
`JobsEnd`, `BroadcastsEnd`, `GoneClientsLeave`, `ChunksAreTaken`,
`ShutdownCompletes`, `MenuReturns`), since fairness and ENABLED are out of the
prover's reach, and the three violations, which are single behaviours. The proofs
use no recursion over data: sequences are reasoned about through their indices.

## 5. What the code does otherwise than it says

* `call_offer_unaddressed`: `startCall` stores the target (`client.js:215`), then
  `createPeerConnection` closes the previous call (251) and clears it (400). The offer
  goes out with `target: null` and the server drops it (`server.js:51`): no call between
  two such pages is ever set up, though `webrtc-runtime/README.md:179` says that
  clicking "Call" initiates one.
* `finalizer_ids`: two requests in one second share an id, and the second
  overwrites the record of the first.
* `studio_stall`: nobody receives from `frameTimings`; after `Framerate` frames,
  one second of video, capture is blocked for ever. The drop that should avoid
  blocking comes after it. At shutdown `close(frameTimings)` (305) makes the
  blocked send panic: the model has it (`Panic`), and `ShutdownCompletes` excepts it.

Read from the code, without a run of their own. *Browser*: "Create peer connection if
not exists" (`client.js:301`) replaces an existing one; `ping` intervals accumulate over
reconnections (`client.js:79`); an old socket's `onclose` hides the list of the new one
(`client.js:96`); the picture and the Hang Up button of a call stay when another
replaces it or its set-up fails, until the next hang-up (`client.js:250`, `389`); a page
that has reconnected signs with the id of its earlier connection until its `connect`
comes, and the server relays any sender (`server.js:51`), so that a page may be called
under an id it has already taken off its list; a partner's departure does not hang up,
since `targetUserId` has been cleared (`client.js:128`). *Finalizer*: a restart forgets
the finalizer's queue, and its records say "queued" for ever
(`finalizer_service.py:28`). *Go studio*: an ffmpeg that dies after the start never
reaches `main`'s error channels; the recorder has no time to finalize its file, and
`watchSegments` never uploads the last segments; the preview's `ActiveClients` may stay
wrong, being counted under one lock and stored under another. *Hooks*: nginx posts its
hooks to `localhost:5000/on_publish` of its own container, while the metadata service
answers at `/events/on_publish`.

*Control sample* (the properties of its modules name these as exceptions, so that TLC
reports any other): `g_bFileRemoved` is looked at after a `Delete` that failed, and an
item is closed because an earlier one was removed (`main.cpp:1069`); `Delete` of an
image the module has at hand reads it, and closes the item all the same; after choice 9,
or while a film is fetched, a `RemoveChild` event frees the `RefObj` of the loop that
waits (`CallBack.cpp:95`); `RemoveChild` tries for ever when a child cannot be closed
(`Function.cpp:5801`); `TerminateCapture` returns before its command has ended, and
`CompletionProc` then counts in a frame that is gone; with no memory for its array, a
capability is looked for in none; a CapChange during an enumeration of the same object
frees the array the module is filling (`CallBack.cpp:109`, inside `Function.cpp:321`);
an enumeration, or a capability that is got or set, waits for ever for a command the
module refused (`Function.cpp:299` to `512`, see 2); memory or files are lost, or used
without being there, in the seven dialogs that `EverythingIsGivenBack` and
`NothingIsMisused` name; a film that fails leaves Ctrl+C caught and `g_bCancel` set, so
that the next film is cancelled at once; "initial registration is not supported about
1-28" is tested after 9 to 28 have become 101 to 120 (`Function.cpp:2657`); a range of
one step is divided by its steps less one (2527).

## 6. Plan

Most important first; 1 to 9 are done.

1. `Signaling`, `Presence`, proofs: who is online is what everything else shows.
2. `CallPage`, proofs: the asynchronous call controller.
3. `Finalizer`, proofs: queue, crash, store.
4. `PreviewServer`, proofs: lock and channels.
5. `StudioPipeline`, proofs: channels, processes, shutdown.
6. `MaidSession`, proofs: object tree, loops and callbacks of the control sample.
7. `MaidCommands`, proofs: asynchronous commands and their blocks.
8. `MaidDialogs`, proofs: resources on every way out of every dialog.
9. Abstract specifications implemented by the modules above, with proofs:
   `CallProtocol`, `JobService`, `LossyBroadcast`, `SharedFeed`, `CommandLife`.
10. `Dashboard` with `Uploader`: flags and command channels under concurrent HTTP and
    WebSocket handlers, broadcast of stale state (`handlers.go`), the upload queue
    (FIFO, each upload once, nobody blocked while the worker lives). Runs: 2 clients,
    2 commands each, queue of 1; theorem: uploads in order, each exactly once.
11. `NdiStreamer`: Start, Stop, watcher and poller on one unsynchronised flag. Run: two
    start-stop cycles and a process that may die or ignore SIGINT; theorem: at most
    one ffmpeg.
12. `OpenNdi`: discovery, handshake and stream of sender and receiver with their
    timeouts. `context.WithTimeout(ctx, 0)` expires at once although
    `open-ndi/cmd/sender/main.go:29` says "run until killed". Run: one sender, one
    receiver, lost datagrams.
13. Batch finalizer, multi-camera manager, rudp codec: small modules, the pure ones
    checked against a reference definition.
14. Proofs: an abstract object tree (open, close with everything below, lose what is
    gone) implemented by `MaidSession`; the preview's consumer in `StudioPipeline`
    composed with `PreviewServer`, so that a viewer's frames are those the pipeline
    took, in order.

## 7. Not modelled

Components that run one command per request, one-shot scripts, configuration of
third-party servers (nginx-rtmp, RTSP, OBS, MinIO), pure image processing, pages
and vendored code: they keep no state of their own between steps that could go wrong
in an order nobody tested. The metadata service's endpoints import modules the
repository does not contain (`minio_client`, `rabbitmq`, `dockerctl`); only the
MinIO client's answer to a failed save is used, from the script that writes it
(`setup-minio-via-tee-v3.sh`). Contents of media, of SDP and of messages, wording and
logging are abstracted everywhere.

Of the control sample, in `MaidCommands`: the module object's own waits, which are those
of any object; events that close objects while somebody waits for them, which are
`MaidSession`'s; and that `EnumCapabilities` begins again when an array was too small
(the `do` ... `while` around 323-332). And everywhere: the functions that turn values
into text (`Function.cpp:770-1950`), `ProgressProc`, which prints, `UIRequestProc`,
which asks the user and answers the module, and functions that no menu calls
(`SetNewLut`, `SetPoint`, `LoadArray`, `ShowArray`, `IssueProcessSync`, and
`IssueThumbnail`, `Function.cpp:5582-5710`, which opens every item of a camera and
fetches its thumbnail). The Mac directory holds the same three files: the model is of
both, and the map names the Windows copy. The headers (`Maid3.h` and four copies of
`Maid3d1.h`) declare constants and types and have no behaviour. These copies and headers
are by far the largest part of the C code, and so the share of its lines that the map
names stays small although the program in them is modelled.
