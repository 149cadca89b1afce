# TLA+ model of Eve

Eve is a local dictation program for Windows: an Electron app (`src/app`, TypeScript) that owns
the keyboard, the microphone, the clipboard and the history, and a speech server it starts
(`src/server`, Python, asyncio) that owns the model.  These modules model the stateful core of
both, check it with TLC, and prove central invariants with TLAPS.  Module and definition names
follow the code; `PROJECT.json` maps every definition to the lines it models.

## 1. The system

### Components

| Component | State | Operations | What makes it correct |
|---|---|---|---|
| Model runtime, `transcription/model_runtime.py` | status, active generation, draining generations, leases, `_prepare_lock` | start, prepare and activate, open and close a session lease, progress, shutdown | a leased model is not unloaded; each is unloaded once; status, settings and active model agree; shutdown joins native work |
| Server session, `websocket/handler.py`, `session/`, `audio/buffer.py` | session state, audio buffer, finalization lock, socket, lease | start, audio, stop, partial emission, silence timeout, finalization, teardown | frames in the order of the protocol; the final covers all audio; the lease outlives the inferences and nothing outlives the handler |
| Silence detection, `websocket/handler.py` | `last_speech_time` | inference, poll | a speaking user is not cut off |
| Inference queue, `transcription/processor.py` | executor and its size, two locks, jobs | exclusive and overlapping calls, resize, cancel | concurrency limits hold; no job goes to a dead executor; calls end |
| Server settings, `config.py`, `app.py` | `settings.json`, the live object, the pending reload | PATCH, commit, persist, publish | a patch changes only the keys it names |
| Dictation client and hotkeys, `main/index.ts`, `services/transcription.ts`, `capture-session.ts`, `hotkey*.ts`, `renderer/overlay` | keys down, recognizers, recording flags, connection, capture, messages in both directions, microphone | key down and up, Lab controls, socket events, drain | only complete text is committed, once; the microphone follows the session; a hold ends with its keys; a stop ends |
| Recording display, `pill-view.ts`, `recording-renderer-state.ts` | what the pill and the main window show | events of the main process, timers | neither shows an earlier session |
| Text pipeline, `services/pipeline.ts` | none | entry, post-processing, outputs | one failing output does not stop the others |
| Clipboard paste, `services/clipboard.ts` | clipboard, active sequence, restore timer, critical section | paste, copy, restore | the user's clipboard comes back |
| GPU pack manager, `services/gpu-pack-manager.ts` | packs, stages, partial downloads, mutation lock, leases: files shared by several app processes | install, repair, remove, prune, acquire, bind, release | packs appear whole, stay immutable and are not taken apart while in use; one mutator; transfers do not mix |
| Server manager, `services/server-manager.ts` | process, lease, PID file, lifecycle queue, health poll | detect, start, stop, restart, cleanup, exit events | leases outlive their consumers; one server serves; what is shown is so |
| Server health and launch, `server-health.ts`, `server-startup.ts` | none | PID file, command line, health answer, command and environment | only Eve's own, current server is taken over |
| Server logs, `server-log-transport.ts`, `ServerView.svelte` | stream frames, buffer, delivery queue, page | chunk, deliver, ask, listen, leave | what is lost or shown twice is known |
| History, `services/history.ts`, History and Insights pages | entries, aggregate tables, ledger of counted entries; list, filter, selection, deferred deletes | save, delete, catch up, rebuild, query; page, filter, select, delete, undo | aggregates equal a recount; the pages agree with the database; a bulk delete deletes what was chosen |
| Insights report and charts, `shared/insights.ts`, `insights-chart.ts` | none | ranges, trends, streaks, words, calendars, charts | equal to the report computed directly from the entries |
| Settings page, `SettingsView.svelte` and helpers | staged changes, PATCH and reads in flight, preparation, connection | stage, apply, revert, confirm, reconnect | a staged change is dropped only when committed; the page leaves "preparing" |
| Speech status, `server-status.ts`, `model-progress.ts`, `speech-model-presets.ts` | the last state, phase and milestone | publish, announce, choose a preset | each quarter of a download is told once; one preset is being prepared |
| Login item, `login-item-policy.ts` | the system's login items | enable, disable | success is true, failure is undone, other programs' items are kept |

Not modelled: model download, long-dictation audio, the native engine adapter, server start-up and
environment, audio parsing, app settings storage and IPC checks, the app shell (section 8).

### Interactions

A key press (`hotkey.ts`) becomes a gesture that calls `startRecording`, which opens a WebSocket
to the server.  The server checks that the runtime accepts sessions, waits for `start`, opens a
lease on the active model and answers `ready`; only then does the app tell the overlay renderer
to open the microphone.  Audio goes renderer -> main process -> socket -> audio buffer.  The
server's partial task submits inferences to the queue shared by all sessions; its silence monitor
polls.  A stop drains the microphone first, then sends a frame; the server finalizes under a lock,
sends `final` and `closing`, and releases the lease when the last native inference is over.  The
app post-processes the text, pastes it through the clipboard, stores it and tells the History
page, which also pages through, filters and deletes what is stored.  A PATCH of the settings, sent
by the Settings page, may start a preparation of a new model, which is persisted, published and
activated while sessions keep their leases; the page follows it through the PATCH's reply, its own
reads and the states that the server manager's health polls broadcast.  The server manager starts
the server, with a GPU pack's lease where one is used, adopts or evicts a server left by an
earlier app, and stops it when the app quits.

### What is hard

* **Threads and tasks.** `ModelRuntime` combines asyncio tasks, worker threads that cannot be
  cancelled and lease releases from any thread.  The three tasks of a session race to finalize.
* **Cancellation.** A task may be cancelled at any await; native work goes on.
* **Messages.** The main process and its renderers see each other's decisions late: commands and
  drains of successive dictations, pages of history and the events that change them, replies to
  requests whose server has been replaced.
* **Processes.** Exit events and health polls of an earlier server arrive during the start of the
  next; a launcher exits before its daemon is known; two apps share the GPU pack directory.
* **Crashes.** Between any two file operations of a pack's installation; between the insertion of
  an entry and the transaction of its aggregates.
* **Timeouts.** Send timeouts may have delivered; drain timers race the answer they wait for.

The hazards, each at its line and with the properties aimed at it, are in `PROJECT.json`.

## 2. Modules

| Module | Models | Correspondence |
|---|---|---|
| `ModelRuntime` | model runtime | A step is one critical section of `_lock`, or the code between two awaits.  `pc` is the await a task is in, `job` its local variables.  A generation's `native` field is the life of the native model.  `Cancel...` deliver a `CancelledError` at an await |
| `SessionProtocol` | abstract: the frames a client may see | refined by `TranscriptionSession` |
| `TranscriptionSession` | server session | The main, partial and silence tasks interleave at their awaits.  A message is one of the kinds the handler tells apart.  A send succeeds, fails, or times out after it was delivered |
| `AsyncioLock` | `asyncio.Lock` (external) | A lock is the sequence of its holder and its waiters; used by `TranscriptionSession` and `InferenceQueue` |
| `SilenceTiming` | silence detection | Discrete time; inferences of up to `MaxInference`, one after the other, and polls every `PollPeriod` |
| `InferenceQueue` | inference queue | Each asyncio lock is the queue of its holder and waiters; executors are numbered |
| `SettingsTransactions` | PATCH /settings | `disk` and `memory` as functions of the keys; the reload's candidate is built when it is scheduled |
| `Hotkeys` | gesture recognizers and the keyboard hook | operators from a recognizer and a key event to the next recognizer and the gesture |
| `DictationClient` | dictation client, typed on through `Hotkeys` | `main` is one record: the variables of `index.ts`, the flags of the current `TranscriptionService` and its `CaptureSession`.  A socket event ends with its promise continuations, except that the frames of one chunk come before the continuation of `connect()` (`resume`, `Quiet`).  The two IPC directions are FIFO sequences |
| `ClipboardPaste` | clipboard | The critical section is a queue of jobs, `pc` the await of its first job.  A content stands for its signature |
| `PackStore` | abstract: what a published GPU pack promises | refined by `GpuPackManager` |
| `GpuPackManager` | GPU packs | Directories, partial files, lock files and leases on a disk that survives crashes.  A thread of a process is at a `pc` between two file operations; each app may be of another version, with a pack of its own |
| `ServerManager` | server manager | `queue` is the lifecycle queue, `op` where its first request is and its local variables, `runs` what the callbacks of each spawned child close over.  A health poll is sent in one step and returns in another |
| `InsightsLedger` | database with its aggregates | A step is one transaction.  A cell is a row of an aggregate table.  Every reachable database is an initial state, so a crash and restart is a new behaviour |
| `HistoryViews` | History and Insights pages over `InsightsLedger` | Each request is served when it is sent (the main process answers in order and without awaiting); its reply waits in `inbox` among the events pushed to the page |
| `EngineSettings` | Settings page and the server it talks to | Handlers run to their end, then Svelte's effects run until nothing changes (`Settle`).  Reads and the PATCH are requests whose answer and return are separate steps |
| `InsightsReport`, `InsightsChart` | report and charts | operators on entries, days and points |
| `TextPipeline`, `RecordingDisplay`, `ServerHealth`, `ServerLogs`, `SpeechStatus`, `LoginItems` | the components of those names | operators from a state and an event, or from an input, to the code's result |
| `*_proofs` | | theorems (section 6) |
| `MC*` | | instances for TLC, and the assumptions TLC evaluates (section 4) |

`TranscriptionSession` implements `SessionProtocol` and `GpuPackManager` implements `PackStore`:
each instantiates the abstract module and checks its `Spec` as a property (`FollowsProtocol`,
`PacksArePublishedWhole`); both refinements are also proved. `HistoryViews` extends `InsightsLedger`
and is proved to implement its `LedgerSpec`. `DictationClient` extends `Hotkeys`: the composition
checks that the gestures the keys make and the dictations they start and end fit together.
`DictationClient` assumes of the server the order that `SessionProtocol` states and the termination
that `TranscriptionSession!SessionEnds` checks. `EngineSettings` sees `ModelRuntime` as a
preparation that ends; `SettingsTransactions` as schedule, prepare, persist, publish.

## 3. Runs

| Run | Checks | Bounds |
|---|---|---|
| `runtime` | `TypeOK`, `LeasedModelStaysLoaded`, `ActivatedShutDownOnce`, `StatusTellsAdmission`, `ShutdownJoinsUnloads`, `ShutdownTerminates`, `PreparationEnds`, `RetiredModelsUnload` | two tasks, one lease, two configurations, two generations, one cancellation |
| `session` | `TypeOK`, `FinalCoversAllAudio`, `HoldsWhatItUses`, `FollowsProtocol`, `SessionEnds` | two audio frames, three interim frames, all kinds of client message |
| `silence_stale` | violation of `SpeechIsNotSilence` | inferences of three in a timeout of five |
| `inference` | `WorkersRespected`, `SubmitsToLiveExecutor`, `CallsEnd` | two exclusive and two overlapping callers, five calls, two cancellations |
| `settings_lost_update` | violation of `ChangesSurvive` | two patches, one key that reloads and one that does not |
| `dictation` | `TypeOK`, `MicrophoneFollowsSession`, `HeldWhileRecording`, `CommitsAreComplete`, `StopEnds` | two dictations, one audio buffer each, the keys of the default hotkeys |
| `clipboard` | `TypeOK`, `RestoresWhatWasThere`, `ClipboardComesBack` | four requests, two copies of the user |
| `gpu_pack` | `TypeOK`, `OneMutator`, `TransfersDoNotMix`, `PacksArePublishedWhole` | two apps of different versions, three packs, two chunks, any of which may arrive corrupted, one crash, failure or act of another program |
| `server_manager` | `TypeOK`, `LeaseCoversConsumers`, `OneServer`, `StoppedMeansGone`, `RunningIsWatched` | two requests after startup; two faults with a direct interpreter, one with a launcher |
| `server_quit` | violation of `QuitStopsServer` | the same |
| `history` | `TypeOK`, `LedgerExact`, `ViewsAgree`, `BulkDeletesTheChosen` | two old entries and a new one, pages of one, catch-ups of one, one failed write |
| `engine_settings` | `TypeOK`, `ClearedIsCommitted`, `PreparationEnds` | one setting of two values, two PATCH requests, one outage, a managed and an unmanaged server |

Why these bounds suffice.  Every race found or excluded here is between one actor and one other.
Two runtime tasks contend for `_prepare_lock` while a third party closes a lease; the second
generation makes the first one retire.  Two audio frames tell "all", "some" and "none" apart when
a final is computed.  In the client a message can only be stale with respect to the session after
its own.  Four clipboard requests allow a chain of three pastes and its successor.  Three packs
and two versions give each app an own, a foreign and a prunable pack; two chunks let a transfer
stop in the middle.  Two requests of the user, after the start the app makes itself, allow a
server to be replaced twice.  Three entries with pages of one give a list that is empty, partly
and completely loaded while an entry is added at its head and another deleted behind it.  Two
PATCH requests let the second overtake the confirmation of the first.

Deadlock checking is off in all runs because all of the systems stop: a session closes, the
runtime shuts down, the bounds of dictations and requests are reached.  The liveness properties
say that they stop where they should.

Every property of a passing run has a mutant of the code's model that violates it, for example a
lock that is reclaimed without a second look at its owner, a page reply that is accepted though
the list was reset, a `canCommit` that is always true.

### Fairness

* Worker threads finish and the event loop runs what is ready: weak fairness of native loads and
  unloads, and of the continuation of each task or call.  The code bounds the drain of leases by a
  timeout, so no lease need ever be closed for shutdown to terminate.
* `SessionEnds`: the tasks of the handler, its teardown and the native inferences are weakly
  fair.  Neither the client's messages nor the monitor's decision that a timeout has passed are,
  so the property is that a session that began to end does end.  `FinalizeResult` is strongly
  fair because a long dictation's next chunk competes with its result, and chunks are finite.
* `DictationClient`: only the main process and the socket are fair, together: something of what
  they owe happens, in no fixed order.  The renderer may hang, in which case the
  two-second timer of `CaptureSession` ends the drain.  The server is assumed to
  end a session it was asked to stop; the client has no timer of its own for that.
* `ClipboardPaste`: jobs and timers are fair; requests and the user are not.
* `EngineSettings`: the server finishes preparations and starts; requests are answered or meet
  their deadline (`server-settings.ts` aborts them); health polls go on.  The weak fairness of the
  last actions is written out with their guards, which is the same condition.
* The other specifications state safety only and no fairness.

## 4. Pure algorithms

What has no concurrency is written as operators and compared with reference definitions, or
checked over every order of events up to a fixpoint, in assumptions of `MC` modules that the runs
extend, so that TLC evaluates them in every check:

| Module | Assumptions | Extended by run |
|---|---|---|
| `MCDictationClient` | what a capture takes for a hotkey is recognized when it is typed (`CaptureIsRecognized`); every gesture ends, whatever is typed (`PressesEnd`) | `dictation` |
| `MCRecordingDisplay` | the pill and the main window tell of the current session under every order of events, answers and timers | `dictation` |
| `MCTextPipeline` | cleaning is stable, text is finished as the settings say, every output is served whichever fails, date groups are ordered | `clipboard` |
| `MCServerHealthLogs` | unusable PID files are not taken, one PID is one server, only our server is expected, progress is a percentage, waits end by their deadline, the shown state is of now, the environment is the command's; framing loses no text; what the page shows of the log | `server_manager` |
| `MCInsightsReport` | trends, streaks, previous period, calendars and word counts equal those of the entries; indexing holds back | `history` |
| `MCInsightsChart` | scales fit, bars are apart and tell the values, hovering finds a point, durations and comparisons are read out near enough | `history` |
| `MCSpeechStatus` | ready means ready, progress is sane, quarters are told once, a staged preset is found, at most one is prepared | `engine_settings` |
| `MCLoginItems` | success is true, failure is undone, others are kept, applying twice changes nothing more | `engine_settings` |

Three of them state a limit of the code rather than a virtue. `SlowStartersAreForgotten`: a server
is recognized by a PID file written at most a minute after its process began, while a start waits
three minutes for that file, so one that took longer is not recognized as Eve's own by the next app.
`LineRunsBackAfterAGap`: the smooth line of a chart runs backwards after a long gap. The last parts
of `PageFollowsLogs`: the page misses lines delivered between the answer to its request and its
listening, and shows lines that were queued then twice.

## 5. What the violations show

* `silence_stale`: `last_speech_time` describes the audio read when the last inference began.
  When two inferences take longer than `silence_timeout`, the user is cut off while speaking.
* `settings_lost_update`: the status check of a PATCH and its commit are separated by an await,
  and a reload publishes a complete candidate built earlier.  A change accepted in between is
  undone in memory and kept on disk.
* `server_quit`: a start that replaces an adopted server leaves that server's health poll
  running.  When the poll notices that the old server is dead, it clears `childProcess`, which is
  now the new child; `cleanup` then finds nothing to stop and the server outlives the app.

## 6. Proofs

`ModelRuntime_proofs` proves, for every set of tasks, sessions and configurations and every bound,

* `TypeCorrect`: `Spec => []TypeOK`;
* `LeaseSafety`: `Spec => []LeasedModelStaysLoaded`.  A generation with an open lease is loaded,
  unless shutdown forced it after its drain timeout;
* `ShutDownOnce`: `Spec => []ActivatedShutDownOnce`;
* `StatusIsTruthful`: `Spec => []StatusTellsAdmission`.  What the status says (ready, preparing,
  failed) is what a session that asks for the model now would meet;
* `ShutdownJoins`: `Spec => []ShutdownJoinsUnloads`.  When `shutdown()` returns, no native load or
  unload is under way, unless a caller was cancelled or the drain timed out.

None of the safety properties is inductive.  `IInv` adds: `LockInv`, `_prepare_lock` is held by
exactly the task in its critical section, so at most one candidate exists; `FreshInv`, generations
not yet numbered are untouched; `TaskInv`, the candidate is the newest generation, unpublished and
loaded by the time it may be activated; `ActiveInv` and `RetiredInv`, the active model is loaded
and unclaimed, and a retired one is loaded until the one claim on it; `LeaseInv`, the integer
`leases` equals the number of sessions holding the generation; `ClaimInv`, a claimed generation
has no lease unless forced; `DrainInv`, what waits to be drained is retired.  `LeaseInv` is where
the argument lies: the claim is decided from the counter, the promise is about the holders.

`AdmissionInv` (`StatusInv`, `SettingsInv`, `WantInv`) says for each place of the preparing task
what the status, the active generation and the requested settings may be: the status is written
in critical sections, the settings it describes before them.  `JoinInv` (`ShutdownInv`,
`CompleteInv`, `OwnerInv`) and `Joined` (`DiscardInv`, `RetireInv`, `BusyInv`) say who joins which
native work: every generation that is loading or unloading is one that a task is discarding, that
a closing lease is retiring, or that the shutdown itself waits for, and the shutdown does not
complete before each of these has.  The assumptions are those named in the module (finite sets, an
initial configuration).

Its last section is about the other end of a preparation, the settings page, which it takes by
`Page == INSTANCE EngineSettings`.  `ChangesAreKept` (`ClearedIsCommitted`) holds for every set of
settings and values and any number of patches and outages, with no assumption.  `KeepsChanges` says
what handlers and effects may do between two replies: forget what the page knows and follows,
invalidate the read under way, and drop what is staged where the app's own server stopped.
`FollowInv` says why the drop at a confirmation is right although the server goes on meanwhile: a
preparation under way is that of the patch the page follows or is about to follow, nothing is
followed while a PATCH is under way, and so what a usable reply (one that came and is still asked
for) shows of this patch is what the server still has when the reply is taken.

`TranscriptionSession_proofs` proves, for any number of audio frames, interim frames and messages,
`SessionTypes` (`TypeOK`), `FinalIsComplete` (`FinalCoversAllAudio`: a final is computed from all
audio that came before the stop), `NothingLeaks` (`HoldsWhatItUses`: locks and model lease are held
where they are used and by nobody else) and `ProtocolFollowed`: `Spec => Protocol!Spec`, the
refinement of `SessionProtocol` step by step.  The invariant has `PlacesInv` (which tasks may be at
which awaits together), `LockInv` (a task is in a lock's queue exactly while it is at an await of
that lock, and at most once), `LeaseInv` (the lease outlives every task that infers), `StateInv`
(what the flags mean at each place of the main task), `WireInv` (the frames sent so far against the
state of the session) and `DoneInv` (a closed session has nothing left to send).

`InferenceQueue_proofs` proves `LimitsHold` (`WorkersRespected`) and `NothingIsRefused`
(`SubmitsToLiveExecutor`) for any callers and any number of calls.  The executor's replacement is
the difficulty: a caller may wait for the exclusive lock while another drains.  `BoundInv` keeps
the numbers of executors, `ExecutorInv` says that only the current one is live, `DrainInv` that it
is replaced only with the exclusive lock held and its jobs over (or the drain cancelled),
`SizeInv` that its workers are those the settings of the holder ask for, and `WorkInv` that the
jobs it has are those of callers inside the critical section.

`DictationClient_proofs` proves every safety property of the client composed with its hotkeys and
its server, for any number of dictations and audio buffers: `ClientTypes` (`TypeOK`),
`MicrophoneOff` (`MicrophoneFollowsSession`: the renderer records only for a session the main
process has not ended, or the command to stop is on its way), `Held` (`HeldWhileRecording`) and
`OnlyCompleteText` (`CommitsAreComplete`).  `MainInv` relates the phase of `index.ts` to the flags
of its `TranscriptionService`.  `ChannelInv` is about what is in transit: in the channel to the
renderer the commands of a session come in the order start, drain, stop, and those of an earlier
session before those of a later one; for every session that ended a stop is on its way or was
taken; in the channel back the acknowledgement of a drain is the last message of its session; and
the audio sent, the chunk being sent and the chunks still in the channel add up to what was
recorded, unless the session failed or its drain was given up (`Accounted`).  Only with this sum
does the acknowledgement imply that everything recorded precedes the `stop` the server is sent.
`HoldInv` follows the recognizers: a gesture that started a dictation in hold mode has a key of
its chord down, or its release is what the client handles next.

The last section of `TranscriptionSession_proofs`, which takes it by `INSTANCE`, is about
`SilenceTiming`.  `SpeakerIsNotCutOff`: if `2 * MaxInference < SilenceTimeout`,
`Spec => []SpeechIsNotSilence` for every polling period.  The invariant `Fresh` bounds the age of
`last_speech_time` by the elapsed part of the inference under way plus the length of the last one.
`silence_stale` shows that the premise is needed.

`ClipboardPaste_proofs` proves `TypeCorrect` (`TypeOK`) and `RestorationIsFaithful`
(`RestoresWhatWasThere`) for any number of pastes, copies and copies of other programs.  `Clean` is
the reason a chain of pastes restores the right content: as long as no foreign copy raced, the
clipboard holds what it should, or a dictated text that the active sequence, or a paste about to
found one, wrote, and that one knows what was there before.  `QueueInv` orders the queue by the
requests: a restoration of the latest request has no request before or behind it.  `TimerInv` and
`SignatureInv` say that a timer, and the restoration it queues, carry the signature of the text
the sequence last wrote, unless another paste was requested since; `SequenceInv` says at which
awaits a sequence is alive and whose it is.

`History_proofs` proves `ExactLedger`: `LedgerSpec => []LedgerExact`.  For any finite set of
entries, whatever cells they count in and whatever the catch-up limits, the aggregate tables are a
recount of the entries in the ledger, all of which are stored.  The invariant `Recounted` differs
from the property before the database is initialized: the tables may then be those of a version
without the ledger, which `Initialize` recognizes by the empty ledger and wipes.  The core is that
adding and removing cells commutes with recounting (`Cardinality` of disjoint unions).

It also proves `ViewsUseLedger`, `Spec => LedgerSpec`: every step of the pages is one
operation of the database or leaves it alone, although deletes name entries that may be gone.
`ExactUnderViews` follows: the ledger is exact whatever the pages do.

`BulkDeletes` (`BulkDeletesTheChosen`) is about the pages themselves, for any number of undelivered
messages.  The invariant `Chosen` says that a selected entry has no delete pending and still
matches the filter, unless a bulk delete that was just done took it.  That a late reply to
select-all keeps this true needs `Mail`, about every message under way: between a select-all and
its reply an entry can leave the database only by a deferred delete, and the reply to that delete
comes after the ids, so the page still hides the entry when the ids arrive.  Most steps send and
take only other messages (`Kept`), and go by the lemma `Calm`.

`Agreement` (`ViewsAgree`) is the main result about the pages: whatever was saved, deleted,
filtered, searched and paged through, however the messages interleave with it, what the list shows
and is not being deleted is stored, and once the messages are in it is the newest part of
what the filter matches, all of it when nothing more is announced, and Insights counts what is
stored.

* `InsightsCount` (`InsightsSettled`) rests on `Informed`: whenever the last answer, or one under
  way, does not count the store, a message behind it makes the page read again.
* `KeptInOrder` is the invariant of the list, `Listing`.  Every message under way is dated by the
  entries it names (`Posted`): a page names what was stored when it was read, and what was deleted
  since is in a message after it.  The list has, of what the filter matches, the newest, up to what
  the messages under way add (`Good`); a page under way continues it (`Continues`), unless it is
  not wanted any more or a new entry before it makes the page be read again (`Doomed`).  A search not
  sent yet and the two `skewed` behaviours of section 7 are excepted.
* `TypeCorrect` (`TypeOK`) needs `RepliesComing` (`Answered`): whatever the pages wait for (a page,
  the ids, a bulk delete, each committing delete), its reply is under way.

`GpuPackManager_proofs` proves `Types` (`TypeOK`), `LockExcludes` (`OneMutator`),
`TransfersStayApart` (`TransfersDoNotMix`) and `PublishedWhole`: `Spec => Packages!Spec`, the
refinement of `PackStore`, for any app processes, versions, packs, chunks and number of crashes.

* The lock: `HolderInv`, the lock file is the record of the thread inside; `GuardInv`, the recovery
  guard is the record of the thread that reclaims; `StaleInv`, what it is about to unlink is the
  lock of a dead process.  The last holds because nobody else can replace that lock while the guard
  exists, and a dead incarnation stays dead (`PastInv`).  The re-check and the unlink are two steps
  of the model, as they are in the code.
* The leases: `ConsumerInv`, a running server is covered by a record of the incarnation that
  spawned it, which names no server yet or names this one, so the pack stays leased
  (`ConsumersLease`) when the app dies, before the binding or after it.  `LeasedInv`, a leased pack
  is there to be loaded from; `RemovalInv`, what a removal has chosen is leased by nobody until it
  is gone, as a new lease is written under the same lock.  Each step either leases less
  (`LeasesLess`) or writes a lease of a valid pack.
* The transfers: `TransferInv`, only the thread in the lock has a stream open, and a fetch begins
  where the file ends.  A complete checkpoint need not be of the pinned bytes: the periodic
  checkpoint may be written with the last buffer, before the pinned hash is compared
  (`gpu-pack-manager.ts:1586`), and stays if the app dies or the stream fails there.  So
  `TransfersDoNotMix` is about what an install goes on with: `PartFacts` says that what the re-hash
  accepts and what a download completes is `Whole`, and `OneTransfer` that nobody else is between
  acceptance and publication (`Installing`), so it stays so.

`ServerManager_proofs` proves, for any number of requests and faults, `ServerTypes` (`TypeOK`),
`OneServerServes` (`OneServer`) and `NothingIsLeft` (`StoppedMeansGone`), both as long as the manager
is `Tidy` (section 7), `RunningServerIsPolled` (`RunningIsWatched`, its last part under `Tidy`) and `DirectServersKeepTheirLease`: `LeaseCoversConsumers` in every build that
runs the interpreter itself.

* The types need `Budget`: a start takes a new generation, and each request that has not settled,
  the detection and a cleanup have one left to take.
* The processes: `WorldInv`, nothing is of a generation not yet made.  `ExistingInv`, while a server
  of an earlier app lives it is the only one, and a request acts on it only as the one it found.
  `PollInv`, at most one server is polled, an answer that counts is about it, and "running" is
  never shown without it.  `TidyInv` (`OneProcess`), as long as nothing outlived its end and
  nothing was forgotten, at most one process lives, and the PID file, the manager's child and the
  running request's variables all mean this one; what they may say of it depends on the await the
  request is at.
* The leases: `RunInv`, no two spawned children have one lease, and an undelivered exit is of a dead
  child.  `ChildInv`, the manager's child is the latest process, so the exit event that clears it is
  its own.  `CoverInv` names everybody who could release a living child's lease (a record of a
  replaced lease, the active lease, a poll, a stop) and says that each of them waits for that child.
  `FreshInv`, a lease between its acquisition and the spawn is nobody else's.  The lemmas
  `ReplaceHolds`, `DroppedHolds` and `ReleasedRun` say what the lease operators preserve.
* With a launcher the lease theorem does not hold for every number of faults (section 7); TLC
  checks that case with one.

Only model-checked: all liveness and the premises of fairness (out of the prover's reach);
`LeaseCoversConsumers` with a launcher; and `TypeOK` of `EngineSettings`, whose bound on the
waiting reads is about what `SelectSeq` keeps (it takes an operator, which the provers cannot
instantiate).
Only evaluated on bounded inputs: section 4.

## 7. Abstractions and limits

General: text, audio and values of settings are identities; frames and messages are their kinds;
delays are not timed unless said so; labels, logging and layout are left out.

* **Runtime.** A cancelled preparation may leave its model loaded (`model_runtime.py:425`), which
  is why `ShutdownJoinsUnloads` excludes cancellations; only the tests cancel one.
* **Session.** No clock: timeouts may fire whenever they are armed.
* **Inference queue.** `WorkersRespected` excepts executors whose drain was cancelled: the next
  call does not wait for their jobs.  It takes sessions of differing settings and a disconnect
  during the drain.
* **Hotkeys and dictation.** `dictation` types the default chords with key repeats; other hotkeys
  are covered by the assumptions of `MCDictationClient`.  The hold setting does not change during
  a behaviour.  Left out: a quit during a dictation, performance traces, lost key events (a press
  under the lock screen stays stuck until the next), and pressing the current hotkey while a new
  one is captured, which starts a recording whose release is forgotten.  Known behaviours: pressing
  Ctrl+Win and then Shift makes a short quick dictation before the long one; in toggle mode,
  releasing Shift first while Win repeats stops the long dictation just started.
* **Text pipeline.** A dictation superseded by a newer paste is neither typed nor copied, though it
  is saved.  "Command" mode trims the line breaks it made at the end of the text.
* **Clipboard.** Reads fail only before a write; if the read that verifies a write fails, the code
  loses the baseline.  Another program that copies within a read and the write that follows it is
  marked by `raced` and excepted, as `docs/protocol.md` does.
* **GPU packs.** Validation of a directory and removal of an abandoned stage are one step.  A chunk
  is one checkpoint interval or more.  A corrupt transfer may leave a complete checkpoint; the next
  install hashes it again and starts from zero.  Left
  out: the descriptor check, the state shown to the renderer, torn lock files, and the refusal of a
  directory emptied by a crash (nobody's from then on).
* **Server manager.** A wait, SIGTERM and SIGKILL are one step (`stuck`).  The user's requests come
  after detection began.  A wait for a PID file (180 s) fails only after polls (3 s) have noticed a
  dead server.  With a launcher and two faults `LeaseCoversConsumers` fails: `startOnce` keeps the
  previous adopted server's PID file, so a stop right after a failed start releases a lease that an
  undiscovered daemon needs; hence `MaxLauncherFaults`.  `OneServer`, `StoppedMeansGone` and the last
  part of `RunningIsWatched` assume `Tidy`: a process that outlived its SIGKILL, or that the
  manager forgot (`server_quit`), still writes and removes the PID file by which the next start
  looks for a server.  Known behaviours: after a failed health
  check a start adopts the manager's own child as unmanaged; a late exit event after a finished
  stop shows "exited unexpectedly"; detection may show a server that has just died.
* **Server health.** JSON values are their kinds.  Path normalization is left out.
* **History.** Left out: failing page reads, single check boxes, export, changes of the time zone,
  the flush of deferred deletes on quit (`quit-lifecycle.test.ts`), and `Rebuild` in the pages (the
  IPC exists, no page calls it; it is in `LedgerNext` and the theorem).  Two known behaviours are
  marked `skewed` and excepted: a page asked for while a delete's reply is under way is read at the
  old offset, and an entry whose save failed is listed all the same.
* **Insights.** Dates are day numbers; sums do not saturate; ties are ordered by id.  Rows dated in
  the future are in the summary and not in the trend.  A duration of 119.5 s reads "1m 60s".
* **Settings page.** Every setting offered requires a reload; polls are atomic; requests older than
  an outage end before the server is shown running again.  Error texts, other clients, the audio
  devices, GPU controls and the download's part of the state key are left out.  Known behaviours: the
  effect at `SettingsView.svelte:619` overwrites the status a read has just stored, so the page may
  say that settings "changed before confirmation" or that a reload failed while the server is
  preparing; an unmanaged server that comes back failed with changes staged leaves the page "not
  connected".
* **Speech status.** A loading phase reported with the status "downloading" is announced as a
  download while the card shows "Preparing".
* **Login items.** The system keeps one user item per name and may ignore any write.  An enabling
  that fails at Murmur's items also removes an item of Eve that was there before.

## 8. Not modelled, and plan

Not modelled: `model_download.py` and the spooling of long dictations (network and files; the
chunk plan is a pure function), the engine adapter (native code; its load and unload are in
`ModelRuntime`), start-up checks, request filtering and the diagnostics reports (sequential input
and output), audio parsing (a stateless decoder), storage of the app's settings and the argument
checks of its IPC, tray, windows and navigation (presentation).

Done, in this order: runtime, session, silence, queue, server settings; client, clipboard; GPU
packs, server manager, history with its pages, settings page; the pure algorithms.

Next: the single-flight model download with its cancellation; the chunk plan of a long dictation
against a reference; `ServerManager` and `GpuPackManager` composed through the runtime lease; the
flush of deferred deletes on quit. Theorems to add: `LeaseCoversConsumers` with a launcher and one
fault; the types of `EngineSettings`.
