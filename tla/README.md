# Verification of soulseek-rs

TLA+ models of the client library `soulseek-rs/` (a Soulseek peer-to-peer client on tokio) and of
the two programs around it, `downloader/` (fetches the tracks of a CSV file) and `music-cleaner/`
(tags and files what was fetched), checked with TLC, and theorems about them checked with TLAPS.
Paths below are relative to `soulseek-rs/src/` of the repository unless they name another crate.

## 1. Inventory

| part | state | operations | talks to |
|---|---|---|---|
| `client/download_manager.rs` | `logged_in`, `pending` queue, `active_slots`, `downloads` by token, an abort handle per timeout | `enqueue`, `try_initiate`, `drain_pending_queue`, `try_dequeue_next` and ten `on_*` handlers | the callers (a status channel each), `PeerRegistry`, its own timeout tasks |
| `client/connected_worker.rs` | one FIFO channel of `ClientOperation`, the manager, the searches | `run`, `handle_operation` | everything: it is the only owner of the manager |
| `client/download_handle.rs`, `client/mod.rs` | a cancel flag per download, `Inner` (state, buffer of downloads asked before `connect`) | `connect`, `download`, `search`, `cancel`, `recv`, `drop` | the worker's channel, `ServerActor`'s mailbox |
| `actor/server_actor.rs` | connection, login state, queued commands, signal channel, reader | `handle`, `tick`, `on_start`, `on_stop` | the server, the worker, the caller of `connect` |
| `actor/peer_actor.rs`, `actor/peer_registry.rs` | one actor per peer: connection, queued commands; the map from user to actor | as above; `register_peer`, `remove_peer`, `queue_upload` | the peer, the worker |
| `peer/download_peer.rs` | one blocking task per transfer: file, socket, cancel flag | `download_direct`, `download_pierced`, the read loop | the peer, the disk, the worker (`DownloadCompleted`) |
| `peer/listen.rs` | none | `handle_incoming_connection` | worker (query), registry |
| `search_rate_limiter.rs` | `waiters`, `timestamps` under a mutex | `acquire`, the guard's clean-up task | callers of `search` |
| `message/*`, `dispatcher.rs` | the read buffer | `extract_message`, `dispatch` | the two actors |
| `utils/md5.rs`, `utils/zlib.rs`, `path.rs`, ... | none | pure functions | |
| `song-rs` | none | search, rank the files found, download one | the client |
| `downloader` | rows of a CSV file, in memory and on the disk | the loop over rows, searches and candidates; `write_tracks_csv` | `song-rs`, the download directory |
| `music-cleaner` | none between runs but the files: their names and tags, `KYLE_` fields included | `discover_files`, `process_file`, `apply_metadata`, `resolve_file_conflict` | the same directory, `audio-check`, `musicbrainz`, `cover-art-archive`, the user |
| `musicbrainz`, `cover-art-archive`, `audio-check` | none | a lookup, a picture, a verdict on a file | HTTP services, the file |

What is hard here:

* **Interleaving.** The manager's handlers are atomic, but user threads, peer actors, the server
  actor, listener tasks, transfer tasks and timeout tasks put operations in the worker's channel
  in any order, and each speaks of a state that may be gone when it is handled.
* **Identity.** A download is known by 20 bits of the md5 of its path: two calls for one path, of
  the same or of two peers, share a token, and all maps, slots, timers and reports go by it.
* **Timeouts and retries.** Timeout tasks outlive what they were armed for; logins have a
  deadline that races the answer and the loss of the connection; reconnection backs off.
* **Failure.** Writes are lost silently, connections fail in every state of a login, a call may be
  cancelled at every await.
* **Streams.** Bytes arrive cut anywhere and change hands: from the listener's reader to an actor
  or a transfer, from a read inside a handler to the signals handled inside another read.
* **Restarts.** `downloader` and `music-cleaner` are run again and again over one directory and may
  be killed at any step; the CSV file and the files' own tags are all they remember.

What makes each part correct:

* manager: never more slots than the limit, no leaked slot, no forgotten download, no start
  without a login, first come first started, a last status that is last;
* worker and handles: a dead peer leaves the registry, what is dropped is forgotten, what is
  reported to a caller is about its own file;
* server actor: a caller of `connect` is answered, credentials survive, the login is the first
  message of a reconnection, the backoff is the documented one;
* rate limiter: the limit in every window, FIFO, no lost wake-up;
* peer connections: every message is handled once and in order, commands follow the handshake, a
  dead peer leaves the registry;
* transfers: a file reported complete is the file, every transfer ends and its end reaches the
  right download, a cancelled one stops writing;
* the programs: a recorded row stays recorded and is not fetched again, the original tags are never
  lost, no recording disappears without leave.

`PROJECT.json` lists every hazard at its line with the properties that would notice it.

## 2. Modules

| module | models | notes |
|---|---|---|
| `DownloadLifecycle` | what a caller is promised: the way of a status, and when a peer is asked | abstract; implemented by `DownloadManager` |
| `DownloadManager` | the manager, as an open system | any operation at any moment with any argument |
| `DownloadManagerProofs` | | inductive invariant and four theorems |
| `DownloadStepProofs` | | what a step may do to callers, requests and timeouts; the refinement of `DownloadLifecycle`; slots and order: six theorems |
| `ConnectedWorker` | the worker, its channel and everything that feeds it | `INSTANCE`s `DownloadManager` for the handlers, and implements it |
| `ConnectedWorkerProofs` | | the registry and the channel, and the refinement of `DownloadManager`: two theorems |
| `ServerActor` | the server actor with server, network and clock | |
| `SlidingRateLimiter` | `acquire` and the clean-up tasks | |
| `SlidingRateLimiterProofs`, `ServerActorProofs` | | four and seven theorems |
| `PeerSocket` | one TCP connection with a peer: what it sends, what has arrived, was read, was extracted | the environment of the next three |
| `PeerActor` | a messaging connection: the actor, its loop, its entry in the registry | EXTENDS `PeerSocket` |
| `Transfer` | a file connection: `download_peer.rs` and `connect_f` | EXTENDS `PeerSocket` |
| `PeerConnections` | the listener and the connectors: how a connection becomes one of those two | composes them |
| `PeerConnectionsProofs` | | inductive invariant of a transfer and three theorems |
| `PeerActorProofs` | | inductive invariant of the actor and four theorems; EXTENDS `PeerConnectionsProofs` |
| `MusicDisk` | the audio files the programs leave to each other | |
| `BatchDownloader` | `downloader` and the ranking of `song-rs` | EXTENDS `MusicDisk` |
| `MusicCleaner` | `music-cleaner` | EXTENDS `MusicDisk` |
| `Library` | the two programs in turns | composes them |
| `LibraryProofs` | | inductive invariant and three theorems |
| `MC...` | | the constants of the runs |

In every module an operator introduced by a comment that says *Mutant* is no part of the model. It
is a copy of the operator it precedes with a plausible mistake, and `PROJECT.json` says which
property refutes it.

### DownloadManager

`dm` is the manager's record. A handler of the code is a chain of calls on `&mut self`; here it is
an operator from the record to the next one (`OnCompleted`, `FailMatching`, ...), composed from the
same pieces as in the code (`TryInitiate`, `TryDequeueNext`, `Drop`, `Tell`). What had to be
abstracted:

* `pending` is a set of entries with stamps instead of a `VecDeque`: the front is the lowest stamp
  and `retain` is a set difference. This is what keeps the module within reach of the provers.
* `drain_pending_queue`, a loop, is given by where it stops (`DrainEndsWith`).
* A timeout task is `timer` of the download it was armed for while the `AbortHandle` is held, and
  a count in `strays` once the handle was dropped or overwritten without `abort()`. `due` counts
  the `DownloadResponseTimeout` messages that were sent and not handled.
* `find` over a `HashMap` chooses any matching download.
* `shown` is the last status a caller was sent, `asked` the calls whose `QueueUpload` reached an
  actor's mailbox (whether it reaches the peer is not the manager's to know).
* Progress updates are left out; sizes, paths and directories too.

`DownloadLifecycle` knows only `shown` and `asked`. A call is kept or queued, its peer may answer,
and it ends once (`Release`, which may also start others). There are no tokens in it, so
`RefinesLifecycle` says that their collisions, leftover queue entries and late timeouts, whatever they
do to slots and order, never make a caller see anything but the way of one download, and never
have a peer asked for the file of a call that is over.

### ConnectedWorker

Adds the FIFO channel `ops`, the handles (`cancel`, `dropped`, `buffered` for calls made before
`connect`, whose handles have no `op_tx`), the transfer tasks (`streams`, `delivered`), and the
peer actors of one user (`actor`, `registered`). An actor that is not in the registry ends, because
the registry held the only sender of its mailbox or the worker has sent it `Stop`; it tells
`PeerDisconnected` a second time. `RefinesManager` maps the timeouts in the channel to `due` and
says that every step here is a step of `DownloadManager` or a stutter, so the theorems about it
hold of this system too. It is checked on an instance and proved (`ManagerRefined`). The `INSTANCE` gives `MaxDue` and
`Results`, bounds of the manager's own runs, the values of the real system: any number of timeouts
may be due, and a transfer may end in any of four ways. `UploadFailed` is an operation of `DownloadManager` and not of this module:
the handler of the peer's message (`message/peer/upload_failed.rs:15`) logs it and tells nobody.

### ServerActor

A tick is a composition of the calls the code makes, each from a record to the set of records it
may leave: a write may be complete, lost or an error, a read may bring the login's answer, nothing
or an error. The `ProcessRead` signal that `on_connection_established` sends itself is not kept in
`signals`: it is last in its batch, and what it does is what the tick does right after the batch. `mailbox`, `queued` (commands while not connected) and `signals` are sequences,
because the order of what is written is one of the properties. Time is `last` (seconds since the
disconnect) and `overdue` (the deadline of the login, or of `Connecting`, has passed). `tries`,
`first`, `again` and `told` are history: attempts since the last connection, the first message of
this one, whether it is a reconnection, and what the worker heard last.

### SlidingRateLimiter

A section under the mutex is one step. `ticket` orders `waiters`; `age` replaces the timestamps
and is capped at the window, after which all ages are alike. A finished or dropped call leaves
a clean-up task in `cleanups`, which runs whenever it likes.

### PeerSocket, PeerActor, Transfer, PeerConnections

A peer's side of a connection is a *script* of items (framed messages, a transfer token, pieces of
a file), each of two units, so that it arrives and is read in halves; `arrived`, `taken` and
`extracted` say how far the kernel, the reader and `extract_message` have come. The peer sends one
unit at a time and may close or reset after any. Only the first item tells the listener what a
connection is for, so a run has one script per kind of connection.

`PeerActor` follows the code's call stack. Handlers call `process_read`, which extracts messages
and drains signals, whose handlers may read again: `todo` is that stack flattened to the calls
still to make, and between two of them bytes arrive and the connecting task reports. `Drain` takes
all waiting signals out before the first is handled, as `drain_signals` does, and this is where
messages can overtake each other. `history`, `accepted` and `written` are what the properties
compare. `disconnect` leaves `connection_state` alone, so a tick may report a failed connect again
and again (`MaxReports`). A `PeerInit` inside a running connection becomes `SetUsername`, after which the
actor reports a name the registry does not have (`named`).

`Transfer` has one action per blocking call: connect, the one read for a pierced token, the
worker's answer, the output file, and the four outcomes of a read in the loop. `given` is what the
listener had read before it gave the connection away. Its clocks count
read timeouts of a second. `Ends` is where a result becomes a report: a direct transfer knows its
download, a pierced one asks the worker again and falls back on the download that was waiting for
the peer.

### MusicDisk, BatchDownloader, MusicCleaner, Library

The disk is a function from paths to files; a file is the recording it is of, whether it is whole,
whose tags it has and what its `KYLE_` backup holds. A path is a directory and a name; `unknown` counts
how deep one went into `unknown/`, which a recursive run visits again.

`BatchDownloader` keeps the loop of `main` with its three kinds of `continue`/`break`: `Failed`
gives the search up, `TimedOut`, `Cancelled` and a closed channel go to the next candidate.
Ranking is translated from `ranker.rs` as operators over letters (edit distance as a recursive
function, scores in hundredths of a percent). `write_tracks_csv` is two steps, the temporary file
and the rename.

`MusicCleaner` takes one file at a time through `process_file`; each stage may fail (`FileFails`)
or be the last (`CleanerKilled`). The tag is saved in place before the file is filed, a copy is
filled after it was created, and both can be left torn. `Library` lets the programs be run in any
order, one at a time.

## 3. Runs

| run | instance | what it shows |
|---|---|---|
| `manager_shared` | 3 calls, 2 tokens, 1 peer, 1 slot, 1 message due per token | slots, queue, start order, timers and statuses when tokens collide; refinement of the lifecycle |
| `manager_idle_slot` | as `manager_shared` | **violated**: a free slot while a download waits |
| `worker` | 1 call, 1 peer connection, a peer or the server adds to an empty channel only | refinement, dead peers, dropped handles |
| `worker_shared_token` | 2 calls for one path, 2 peers | **violated**: a caller is told another's completion |
| `server` | backoff 1 to 2 s, 1 attempt allowed, 2 commands in flight, 3-bit word | logins, reconnections, order, backoff |
| `server_lost_session` | same | **violated**: credentials of a session are dropped with it |
| `server_attempts` | same | **violated**: refused reconnections are not counted |
| `server_connect` | same | **violated**: `connect` never returns |
| `rate_limiter` | 4 calls, 2 places, window of 2 ticks | limit, order, progress |
| `peer_connections` | one connection out of 9 scripts (3 kinds of messaging, 4 of files, 2 that are closed), 2 commands, file of 3 units | framing, nested reads, commands, dismissal, transfers and their reports |
| `library` | 2 tracks, 2 recordings with one name in MusicBrainz, 4 command lines, 2 runs of each program | resumption, backups, losses |
| `library_unknown` | same | **violated**: a file in the unknown directory is replaced without a prompt |

Why the bounds are enough:

* *Three calls* are the fewest in which one holds the slot, one is a leftover entry of the queue
  and one waits behind it; two of them on one token give the overwriting of entries. With one slot
  every handler that frees a slot meets the limit. That a handler frees or fills several slots is
  left to the theorems, which hold for any limit.
* *One due message per token* (`MaxDue`) lets a timeout arrive after its download has been
  replaced; a second one in the channel finds what the first left.
* `Results` is `Completed` alone in the manager runs: the four statuses differ only in what the
  caller is shown.
* In `worker`, `MaxOps` bounds what peers and the server add, not what callers and tasks add: the drop
  of a handle goes behind whatever is in the channel. `MaxStreams` is the number of transfers of one
  download. Two calls of one token in the closed system, with transfers, are in the run that finds
  the shared token only: to explore all of it takes TLC beyond its time. The open manager of
  `manager_shared` has them, and `ManagerRefined` is proved for any number.
* In `server`, a word of three bits has every edge of the 64-bit one (a shift at, and beyond, the
  width, a product that saturates), and `BackoffIsExponential` is evaluated over all pairs of delays.
* In `rate_limiter`, four calls and two places leave two waiting while a window expires, one of
  which may give up at the front.

* In `peer_connections`, scripts of up to four items are read in every split of up to eight units: a message
  that comes with the first read, one cut in two, several in one read. Two commands can overtake
  each other. `Size` 3 is odd, so that the last chunk ends before, at and after it; `Stall` and the
  progress timeout are two seconds, so that a silence may be broken in between.
* In `library`, two recordings whose names collide are the fewest that can overwrite each other;
  one has no title of its own and takes the way through `unknown/`. The command lines were chosen so that
  every option is on and off, and a move, a copy, a copy onto the file itself and a forced rerun
  occur. Two runs of each program make a rerun after a kill and a rerun after a rerun's file.

`CHECK_DEADLOCK FALSE` is said where the system may stop: the actor is shut down, the calls of a
limiter all return, the one download of `worker` ends, a connection is closed, the programs exit.
`worker` checks no type invariant of its own: that of the manager follows from `RefinesManager`
and the theorem about it.

**Fairness.** `worker`: the worker takes operations from its channel. No task, peer, server or
caller is assumed to do anything. `server`: the actor's task is polled, clocks advance, and a
reconnection that is tried again and again is not refused for ever (`Reconnects`); the server need
never answer. `rate_limiter`: tasks are polled and time passes. `peer_connections`: an actor's task
and its connecting task are polled, and a transfer's blocking calls return, for each has a timeout
(`ActorFairness`, `TransferFairness`). Ticks and the mailbox are two arms of one `select!` that
chooses at random, hence strong fairness for each. `run_actor_loop` makes the sleep of the tick
anew for every message, so a mailbox that is never empty would keep a tick away; the messages of the runs
are few, and a real one has pauses of the tick's length. The peer may stay silent for ever, and no
caller need cancel. `library` checks safety only.

## 4. What the violated runs say

Each is a sentence of the source that the code does not keep; `PROJECT.json` quotes it.

1. *Idle slot* (`download_manager.rs:112`). A slot that becomes free is offered to one queue entry
   only. If that entry is left over from a download that has ended, the slot stays idle until
   another download ends. The same happens when one peer's disconnect frees several slots.
2. *Lost session* (`server_actor.rs:544`). A logged-in session loses its credentials with its
   connection, so the reconnection the documentation promises only happens after a login that was
   still pending.
3. *Uncounted attempts* (`server_actor.rs:537`). A refused reconnection leaves the attempt number
   and the time of the disconnect as they were; `AttemptIsOneHolds` proves that the attempt
   number is 1 whenever a reconnection is considered. So `max_attempts` above zero is never reached,
   and the delay does not grow as `README.md:10` and `docs/ARCHITECTURE.md:141` say: the first
   attempt waits for the first delay, and a refused one is repeated at every tick from then on.
4. *connect that hangs* (`server_actor.rs:282`). A first connection that is refused is not tried
   again, and the queued login is never answered.
5. *Shared token* (`client/mod.rs:292`). A caller may be told the completion of another's transfer.
6. *The unknown directory* (`processor.rs:150`). `music-cleaner/src/cli.rs:50` and `:65` have an
   existing destination be asked about or skipped; a file without metadata replaces one of its
   name there without either. `OnlyAllowedLosses` therefore names that directory as a case of its own.

Other places where documents and code part, each visible in the models but with no run of its own:

* `message/peer/place_in_queue_response.rs:12` registers code 43, which `message/mod.rs:367` calls
  `QueueUpload`; `docs/PROTOCOL.md:196` gives `PlaceInQueueResponse` the code 44, which nobody handles.
* `docs/ARCHITECTURE.md` has an actor send `PeerInit` on a connection it opened; the code sends
  `PierceFireWall`.
* `download_handle.rs:50` says that `Cancelled` arrives shortly after `cancel()`. The flag is looked
  at by a running transfer only: the caller of a download without one is told nothing.
* `download_manager.rs:15` gives a peer a time to answer `QueueUpload`. The timeout of an earlier call of
  the same token ends a later one before its time, because inserting the later download drops the
  `AbortHandle` and does not abort the task. The earlier caller gets no status, but a closed channel.
* The copy of a file onto itself, which empties it, is possible in the unknown directory too.

## 5. Proofs

TLAPS proves, for every value of the constants that satisfies the named assumptions:

| theorem | statement |
|---|---|
| `DownloadManagerProofs!TypeCorrect` | `Spec => []TypeOK` |
| `...!SlotLimitHolds`, `SlotsHaveDownloadsHolds`, `NoneForgottenHolds` | the three invariants of the slots and the queue |
| `DownloadStepProofs!WaitingIsTimedHolds`, `TerminalIsFinalHolds`, `StartsOnlyLoggedInHolds` | an invariant and two action properties of the manager |
| `...!LifecycleRefined` | `Spec => RefinesLifecycle`: the manager implements the abstract download |
| `...!InFlightHoldsSlotHolds`, `FirstComeFirstStartedHolds` | a slot for every download whose request was sent, and the order of the queue |
| `ConnectedWorkerProofs!DeadPeerIsReportedHolds` | `Spec => []DeadPeerIsReported` |
| `...!ManagerRefined` | `Spec => RefinesManager`: the worker implements the open manager |
| `SlidingRateLimiterProofs!TypeCorrect`, `RateLimitHolds`, `NoOversleepHolds`, `FirstComeFirstServedHolds` | type, limit, wake-ups and order of the limiter |
| `ServerActorProofs!TypeCorrect`, `PendingIsConnectedHolds`, `KeptCredentialsAreDatedHolds`, `WorkerNotMisledHolds`, `AttemptIsOneHolds`, `LoginFirstHolds`, `BackoffIsExponentialHolds` | type and login invariants of the server actor, and its backoff for every width of a word |
| `PeerConnectionsProofs!TransferInvariant`, `FilesAreComplete`, `CancellationIsSeen`, `EndsAreReported` | the inductive invariant of a transfer, and the three safety properties of transfers |
| `PeerActorProofs!ConnectionInvariant`, `TypesKept`, `MessagesHandledOnce`, `MessagesInOrder`, `CommandsAfterHandshake` | the inductive invariant of a connection, the type invariant of `PeerConnections`, and the three safety properties of the actor |
| `LibraryProofs!DiskInvariant`, `OriginalsAreKept`, `RowsAreResumed`, `LossesAreAllowed` | the inductive invariant of the directory, and the three properties of the programs |

**The manager.** The three invariants are inductive together with the type, and none is alone:
a handler that frees a slot calls `TryDequeueNext`, which counts slots (`SlotLimit`), takes an
entry out of the queue (`NoneForgotten`) and adds a slot for a download it must know
(`SlotsHaveDownloads`). The lemmas follow the code: `InitiateOK` and `StartOK` for `try_initiate`,
`TryDequeueNextOK` and `DrainOK` for the two loops over the queue, then one lemma per handler, and
`NextInv` collects them. The only assumptions are that tokens and requests are finite sets (20-bit
tokens) and the types of the constants.

**Timeouts and ends.** `TimedInv` adds to that invariant the one of `WaitingIsTimed`, stated but for
a set of tokens that a handler has in hand: a download just inserted has no timer until it is
started or queued, and a timeout just received may have been the last of its token. The handlers
that end downloads all satisfy `Ended`, and two facts about `Ended` and `TryDequeueNext` cover
them. `TerminalIsFinal`, which the runs check as part of `RefinesLifecycle`, follows from `Open`: a download in the map is one whose caller has not been
told an end, so a late operation finds no ended download to speak for.

**The lifecycle.** Each handler is one of three things to a caller: a call (`BufferCalls`, `EnqueueCalls`), an
answer (`ToQueuedRemotelyAnswers`), or a release (`Releases`), which is an end (`Ended`) with a start (`Starts`)
after it, either of which may be of nobody. That a start sends requests only for calls under way,
and not for those the same handler has just ended, is again `Open`, before the end and after it.
The worker implements the manager (`ManagerRefined`), hence also the lifecycle.

**Slots and order.** `InFlight` is stated of the downloads in the map, not of the calls: a call whose
download was replaced may be waiting for a slot that another now holds, and with a hash of 20 bits that
cannot be excluded. A start asks only for downloads it gives a slot to, and since a download is filed
under its own token (`Open`), no other download is of the call that is asked for. `FromQueue` says that a
handler takes only from the front of the queue, and composes: freeing and starting are each `FromQueue`, and so
is one after the other. That a queue has a front is the library's well-foundedness of the natural
numbers. The order is that of the queue: a call that `enqueue` starts directly passes those that wait, when
several slots came free at once and one only was filled (the *idle slot* above), and `InOrder` names it.

**The worker.** The operations in the channel are typed by a set `Operation`, whatever their number.
Sending overtakes nothing and receiving takes one operation, so the `PeerDisconnected` that an
actor sends when it loses its connection is in the channel until the handler that empties the
registry, even if another actor sent the one that is handled.

**The refinement.** A step of the worker takes an operation out of the channel and lets a handler of the
manager run; to be a step of the manager, the operation has to be one that the open manager
allows at that moment. It allows almost any, but not two things: a second `RequestDownload` of one call, and a
timeout that is not due. `Calls` says of the first that a call in the channel is there once and
has not reached the manager; since a handler might put a download where there was none, `Uncalled`
(a call that has not been made owns no download, no slot and no queue entry, and has been told nothing) is followed through
every handler. `Due` says of the second that the timeouts of a token in the channel are as many
as the mapped `due` counts, which is arithmetic on the length of a selected sequence (`CountAppend`,
`CountTail`). There is then a lemma per action of the worker, naming the action of the manager it is, and
`NextAllowed` collects them. The theorems of `DownloadManagerProofs` and `DownloadStepProofs` hold of
the worker by this one; the prover cannot cite a theorem through an `INSTANCE`, so that last step is
logic a reader makes, and what the proof itself needs of the handlers is proved on the spot.

**The limiter.** The strengthening (`Recorded`, `Queued`) says that every admitted call of age below
the window is in `timestamps`, so that `Live` counts them all and the limit follows; and that a call
under way is in `waiters`, which only a clean-up task of a call that has returned may change: the
call at the front is then the first of all. `SleepIsTimed` relates the sleep of a call at the front,
not notified, to the ages of the timestamps, and gives `NoOversleep`.

**The server actor.** `Coherent` is what every call of a running actor relies on and leaves true.
There is a lemma for each (`DisconnectIsCoherent`, `ProcessReadIsCoherent`, ...), and the tick,
being their composition, keeps it. The only subtle one is `ProcessReadIsCoherent`: a login response
is dispatched even if the write before it has just disconnected, which would mislead the worker; it
cannot happen because a tick drains the signal channel before it reads. `Leads` strengthens `LoginFirst`
to the channel: until something is written, the login is at its front, because a tick has emptied
the channel before the connection is established. The backoff needs powers of two, of which the
provers know nothing, and induction, which they cannot apply; `PowersOfTwo` gets them from the library's
theorem on the number of subsets: `2^n` counts the subsets of `1..n`, and one more element doubles them.

**Transfers.** `TransferInv` relates four things a single property does not: the counters of the
socket (`SocketInv`), who has the connection (`Owner`: an actor or a transfer, never both, and neither before the listener or the worker has
given it), what each phase has read (`Stages`: at least the header when the output file is created,
and then `file` is what was taken less `Skipped`: the header alone on a connection we made, since a
pierced transfer counts the bytes that came with the token; all the listener had read on one the peer
made, whose reader it drops), and what a result says (`Outcome`).
`FilesAreComplete` needs all of them, because a read by anybody else would break the equation
between `file` and `taken`. The steps of the actor are handled by one lemma: they read only a
stream that is theirs.

**The actor.** The three properties are about `todo`, the flattened call stack, so the proof has to say
what may stand on it. `Flow` is the heart: the messages handled and those still to handle, read as
one sequence, are those extracted, each once, and where two stand in the wrong order the first
stands before every smaller one and the second after it. `Shape` says when a call may find others below it: at most one
signal waits, and never one of a message (`SignalShape`); a connection is established, and read for
the first time, with nothing below but the end of the tick; and a read is made while messages wait
only once, right after that first read (`ReadShape`), which is why only the first read is
overtaken. `Fresh` and `Begun` say what has not happened before that: no dispatcher, no message,
no handshake. The steps are then of two kinds, for which there is one lemma each: those that leave the messages where they are
(`QuietStep`) and those that bring the ones just extracted (`NewStep`, with the facts about
`Ascending`, the order in which `extract_message` returns them).
For the commands, `Pipeline` states that what stands in one of `written`, `todo`, `queued` and
`mailbox` was accepted in that order, and before whatever stands further back; a command moves
from one to the next (`HandlePipe`, `EstablishedPipe`, `WritePipe`) and every other step only adds
and removes what is no command (`QuietPipe`). No order is needed between `todo` and `queued`, since
a connection is established only once. The assumptions are the types of the constants and that a script has its
file where its kind says.

**The programs.** `OriginalsKept` is not inductive: a file that has MusicBrainz's fields and no stamp
would have them backed up by the next run. `DiskInv` says that there is no such file (no stamp, no
MusicBrainz, which holds because one save writes both), and, of each stage, that the file it is at
exists and `already` is still true of it, although other files were put and renamed meanwhile. `RowInv` keeps the rows in memory between those on the
disk and those completed, which is what makes the rename safe. The assumptions are the types of
the constants only.

**Only model-checked:** everything temporal. Liveness under fairness and `ENABLED` are out of the
prover's reach; the liveness properties of the worker, the actors, the transfers and the limiter rest on the
runs. Induction over data is out of reach too (the library's induction theorems take an operator as a
parameter), so what the ranking's edit distance computes is not proved; no module here declares a `RECURSIVE` operator.
Every safety property of a passing run is a theorem.

## 6. Not modelled

* *connect in two steps.* `connect` drains the buffer of early downloads and publishes the
  connection under separate locks; here it is one step. A second `connect`, and the drop of a handle made before
  the first (which has no `op_tx`), are not followed.
* *Searches.* The `searches` map is written by the worker alone and read by token; what a search
  returns is a constant of `BatchDownloader`.
* *Two connections of one peer* are in `ConnectedWorker`, as far as the registry is concerned, when
  `Conn` has two elements; the run has one, because two take TLC beyond its time. `PeerConnections`
  follows one connection, so two writers of one output file, and a cancelled transfer that goes on
  after its caller has moved to the next candidate, do not meet.
* *Remote waiting.* A download `QueuedRemotely` never times out. The comments of `on_timeout` and
  `on_queue_position` disagree on whether it should, so no property takes a side.
* *The bytes of a message*: field encodings, the 32-bit size field, compression, `md5`. Sequential code,
  tested against vectors. The server's reader, which survives a reconnection, is abstracted with them.
* *Panics.* A handler that panics ends its task; the models have no such step.
* *The programs*: running both at once, `--unknown-dir`, a single file as input, cover art, the
  normalisation of titles and track numbers, secondary tags. Scores are integers where
  the code has `f64`. A save in place by the tag library is torn only when it fails or is killed;
  what it writes on success is taken to be the whole file.
* *Logging, progress bars, error texts.*

A next step would be the composition of `Transfer` with `DownloadManager`, as one implementation of
`DownloadLifecycle`, and a server side with a reader that is kept across reconnections.
