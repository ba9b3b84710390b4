# Domia Console — a verification development

TLA+ models, TLC model checks and TLAPS proofs of the Console of a Domia fleet
(`apps/collector`, `apps/web`, `packages/db` of this repository).

Contents: [1 The system](#1-the-system-and-its-parts) ·
[2 The modules](#2-the-modules) · [3 The runs](#3-the-runs) ·
[4 The proofs](#4-the-proofs) · [5 Where code and text disagree](#5-where-code-and-text-disagree) ·
[6 What is not modelled](#6-what-is-not-modelled) · [7 Plan](#7-plan)

Every module is translated from the source; `PROJECT.json` names, for each definition, the
lines it stands for. The fleet itself (the Domia nodes and the MQTT broker) is not in this
repository. It is modelled as an environment, from the requests the code makes and the
answers it accepts.

## 1. The system and its parts

A *Domia* is a voice device; a *node* is a machine that hosts one or more Domias
(identities). The Console watches a fleet of them over two planes (README.md:28-40):

* the **data plane**: the *collector* process hears heartbeats over MQTT, pulls `/sync` and
  `/audio` over HTTP and writes a SQLite archive and a directory of WAV files;
* the **control plane**: the *web* process reads and writes each device's configuration over
  HTTP, and falls back to the archive when the device cannot be reached. Its pages hold
  state of their own in the browser.

| Part | State it keeps | Operations | Talks to | Hard | What makes it correct |
|---|---|---|---|---|---|
| ingestion (`collector/services/ingestion.ts`, `node-api.ts`, `utils/retry.ts`) | `inFlight` in memory; `sync_cursor` and the mirrored tables in the archive | `ingestFrom` on every heartbeat: read cursors, page through `/sync`, `mirrorSync`, `writeCursors` | nodes (HTTP), archive | death between any two writes, concurrent heartbeats, retries, ties of timestamps, full pages, streams no heartbeat announces | nothing is acknowledged that is not stored; cursors only move on; every row arrives; a run always frees its Domia |
| recordings (`archiveAudio`, `retryMissingAudio`) | `audio_asset` rows, WAV files | visit the recordings of a page, retry the missing ones | nodes, disk, archive | torn files, a retry window that fills up | a listed recording is whole; one that is served is archived at last |
| registry (`registry.ts`, `reconcile.ts`, `handlers/*`) | `domia_registry` | heartbeat upsert, offline marker, reconcile round | broker, nodes, archive | late messages, overlapping rounds that read before they await, Domias that move, nodes that list the Domias of others | nobody kept online who was not heard of; no settled Domia retired; what is gone is retired |
| add a node (`web/services/nodes.ts`) | `domia_registry` | `addNodeByAddress` | nodes, archive | reads, awaits, writes | it does not undo what heartbeats brought |
| collector process (`collector/index.ts`) | timer, MQTT client | start, dispatch, graceful shutdown | all of the above | death at any step | nothing durable depends on memory |
| chat tester (`chat-console.tsx`, `use-chat-stream.ts`, `services/chat.ts`, `routes/api/chat-stream.ts`) | threads, `pending`, `activeRef`, `cancelledRef`, one stream state | send, stream, fall back, stop, reset, switch, leave | web process, nodes | late replies, shared stream state, closures over the Domia on screen | one live turn; settled turns stay; streams do not mix |
| live voice (`use-live-voice.ts`) | a dozen refs, one socket, the microphone, what is scheduled to play | connect, messages, playback, stop, switch, unmount | nodes (WebSocket), browser | `connect` goes on after a teardown or a change of Domia; one ref for several sessions | one session, of the Domia shown; microphone closed when left; each reply reported as played once |
| audio recorder (`use-audio-recorder.ts`, `composer.tsx`) | stream, recorder, chunks, timers, clip | start, stop, convert, review, unmount | browser | microphone granted after unmount, two takes at once | microphone on only while it records; a clip is one take |
| configuration workspace (`use-config-draft.ts`, `config-workspace.tsx`, `services/config.ts`) | baseline, draft, query, saves | edit, save, reset, refetch | nodes, archive | edits while a save is in flight, whole lists, another writer | the baseline is what the node stores; a save changes what the user changed |
| model installs (`models-manager.tsx`) | jobs, interval | install, poll | nodes | polls overlap, answers out of order | the end is announced once, and shown in the end |
| pairing (`services/setup.ts`) | the node's list | read, merge, write back | nodes, archive | read-modify-write, a read from the archive | one provider is replaced, with its trust and configuration; the others stay |
| avatars (`services/avatars.ts`) | a file and a row | set, clear | disk, archive | failure or death between or within the steps, files that cannot be removed | the row names a whole file |
| audio routes (`routes/api/audio.$id.ts`, `node-audio.ts`) | none | range requests, node first and archive after | disk, nodes | range arithmetic, a timeout in the middle of a body | the bytes asked for |
| voice lab (`livekit-lab.tsx`) | one ref for the room, status | join, disconnect, switch | LiveKit | a join has three awaits | one leaves every room one is in |
| satellites (`satellites-panel.tsx`, `services/satellites.ts`) | pending device, deadline per room | bind, poll | nodes | a deadline that outlives its device, polls | a device gets its time, and is seen when it connects |
| mind import (`mind-transfer-card.tsx`) | bundle, sections, dialog, report | pick, confirm, import | nodes | files read late | what is imported was confirmed |
| table search (`use-table-params.ts`) | the box, its timer, the URL | type, page, Back | router | the router is behind | box and table agree; typing is kept |
| replay (`replay-card.tsx`, `replay-provider.tsx`, `waveform.tsx`) | phase, running, two waveforms with a life of their own | start, pause, resume, finish, next turn | browser | callbacks of players, frames, state kept for the next conversation | what sounds is what the card says; a replay ends |
| grading (`grading-panel.tsx`, `services/grading.ts`) | a form | edit, save, bulk grade, next turn | archive | the form is kept for the next conversation, other writers | an evaluation is saved whole, as shown and edited |
| model picker (`model-picker.tsx`) | what is being installed, a chain of timers | install, poll | nodes | failures in a row, a picker that is gone | an install shown is followed, and freed in the end |
| read services, other control-plane services, templates, re-runs, demo mode, rendering, utilities | none of their own | queries; one forwarded request each | archive, nodes | — | — |

`PROJECT.json` lists the same parts with their files and status, and under `hazards` each
thing that can go wrong at the line where it bites, with the properties that watch it.

The parts interact through the **archive** alone (ingestion, recordings, registry and the
web process share one SQLite file), through **heartbeats** (one message first updates the
registry and then starts an ingestion run) and through the **nodes**. A statement or a
transaction of better-sqlite3 is synchronous, and JavaScript runs a handler to its next
`await`, so a step of a model is the code between two awaits, cut once more wherever the
process may die between two durable writes.

## 2. The modules

    DurableMirror                    what the archive promises
         ^ refinement (checked by MCIngest, proved in IngestProofs)
    Ingest          AudioArchive          Registry          Chat
         ^               ^                   ^                ^
    IngestProofs    AudioArchiveProofs   RegistryProofs   ChatProofs
    MCIngest                             MCRegistry       MCChat        (instances for TLC)

    LiveVoice  AudioRecorder  LivekitLab     <- VoiceProofs
         ^ extended, with TableSearch
    MCConsole, one world for each page                    (the pages of the console, for TLC)
         v instantiated                       <- NodePageProofs, DomiaPageProofs
    ConfigDraft  SatelliteBind  ModelJobs  ModelPicker  MindImport  Pairing  Avatars
    AudioRoutes  Replay  Evaluation
    ConsoleProofs: MCConsole implements every page        (and the proofs of TableSearch)

Definitions named `X_Why`, each under a comment that begins with *Mutant*, are defects placed
next to the definition `X` they would replace. `PROJECT.json` pairs each checked property with
a defect that breaks it. No specification uses them.

### Ingest

`ingestFrom` for one Domia. The Domia keeps one stream of interactions (cursor: a timestamp),
one keyset stream announced by heartbeats (turn events; cursor: timestamp and id) and any
number of keyset streams no heartbeat announces.

| Model | Code |
|---|---|
| `Append1`, `Beat` | the Domia records a row; the broker delivers a heartbeat or loses the last |
| `StartIngest`, `SkipBusy` | the `inFlight` guard, `readCursors` (ingestion.ts:149-153) |
| `DecideSync` | the early return and the sweep (155-162), after `retryMissingAudio` |
| `ServeSync`, `RetryFetch`, `FetchThrows`, `FetchNowhere` | `fetchSync` under `withRetry`; no address |
| `MirrorSync`, `MirrorThrows` | the transaction (178), or its rollback and the `finally` |
| `AdvanceCursors`, `CrashInWriteCursors` | lines 186-211 with both statements of `writeCursors`; death between them |
| `FinishIngest` | the sweep stamp and `finally` (214-221) |
| `Crash`, `DeleteArchive` | the process dies; the archive is deleted (README.md:39-40) |

What is assumed of `/sync`: rows of a stream are only appended and their timestamps do not
decrease; interactions are sent from the cursor's timestamp *on*, keyset rows strictly *after*
the row the cursor names; the answer's cursor is that of its last row. Updates of rows already
mirrored and the streams without a cursor (sessions, emotion events, announcements, user
model) are left out.

### DurableMirror

The abstract archive: rows are recorded, copied, acknowledged, and lost only by deletion. It
never acknowledges what it does not hold. `Ingest` instantiates it with the rows recorded so far and,
as `acknowledged`, the number of rows behind the stored cursor.

### AudioArchive

The recordings of one Domia and one kind: `StartRun` takes the newest `RetryLimit` missing ones
(`listMissingAudio`), `MirrorPage` the recordings of a page, `CheckArchived` is `hasAudio`,
`Fetch` and `FetchFails` the request, `WriteFile` and `InsertAsset` lines 87 and 88.
`CrashInWrite` leaves a torn file. The Domia may not have encoded a recording yet, or may never
serve it again (`Withdraw`): that also stands for a recording whose id `safeSegment` refuses.

### Registry

`domia_registry` and its four writers, over a fleet whose Domias move and whose nodes stop,
start and change their address.

| Model | Code |
|---|---|
| `UpsertHeartbeat` | `handleHeartbeatMessage`, `upsertHeartbeat`; the heartbeat may leave out its node and its address, and the row then has none |
| `MarkNodeOffline` | `handleOfflineMessage`, `markNodeOffline` |
| `StartReconcile` | the rows read once and grouped by node, those without a node or an address skipped (reconcile.ts:7-19) |
| `RosterAnswers`, `RosterFails` | one node of the loop (21-30): the answer, or none |
| `ApplyRoster`, `RetireGone` | its two statements: whoever is listed is seen (37), whoever is gone is retired (38-40) |
| `Crash` | the rounds die with the process, also between the two statements |
| `ProbeNode`, `ReadRegistry`, `ReadConfig`, `ReadConfigFails`, `CommitNode`, `AbandonNode` | `addNodeByAddress`, cut at its awaits |
| `Tick` | time: every stored moment gets older |

Time is represented by ages. `Patience` bounds how long a heartbeat or an answer is under way
(then it is lost, or the request times out); what is older than it needs to be stops growing.
Heartbeats of one Domia stay in order and are not retained by the broker. The network address,
port and scheme are one value; `name`, `isPrincipal`, `isHosted`, `firstSeenAt` and `updatedAt`
are not modelled. The node answers `/identities` with the Domias it hosts and those of others it
knows (`peers`, marked `isHosted: false`): the round takes all of them for live (reconcile.ts:30),
only `addNodeByAddress` looks at the mark (nodes.ts:235). A node may know anybody, alive or not;
`Meet` changes it. The list is of the moment of the answer. Between the two statements of a round
nothing else of the collector runs (`Undivided`), but it may die. The two selects of
`addNodeByAddress` are one step. A Domia in `Dormant` reports `isActive = false`.

`Plans` is a bound: the scenarios a run examines, each naming which kinds of events may happen
and how many changes of the fleet. Of the kinds, `mesh` makes all nodes list everybody at first
(else each lists only its own), `peer` lets a node come to know a Domia or forget it, `bare` lets
heartbeats leave out their node or address, and `overlap` lets rounds overlap. The type invariant and the theorems hold for every plan.

### Chat

The chat tester: the component, its stream hook, and the nodes. `SendPlain`/`SendStreamed` are
`onSendVoice` and `onSendText`; `Frame`, `FallBack` and `StreamEnds` are `runStreamed` after
the fetch; `SendReturns`, `CancelledReturns` and `SendThrows` are `run` after its await;
`CancelStream` and `CancelSend` are `onCancel`; `Leave` is the unmount, which aborts the fetch
and thereby *repeats* a message whose stream had not begun; `StartReset`, `ResetDone` and
`ResetFails` are the reset mutation. The continuation of an aborted fetch is part of the
action that aborts it. The texts, steps and tools of a reply are data: the model keeps *whose*
frames the shared stream state holds. A Domia's context is the set of turns its node accepted
since the last reset.

### The pages of the console

A tab shows one page, and a page shares nothing in the browser with another. `MCConsole`
therefore brings the page modules together and picks one as the *world* at the start; the
others rest. It extends four pages, whose definitions carry the name of the page, and
instantiates the other ten. React drops the state of a component that is gone but keeps its refs and pending
continuations, which is where most of the difficulty lies: each module keeps refs, rendered
state and pending awaits apart, and a *history* variable says when a ref has lost something
(`overtaken`, `crossed`, `strayed`, `overlapped`, `behind`, `late`, `disturbed`,
`carried`, `thrown`).

| Module | State and steps | Code |
|---|---|---|
| `LiveVoice` | calls of `connect` at their awaits (`Connect`, `TokenGranted`, `MicGranted`, `ModuleLoaded`, `ConnectThrows`), sockets, `Teardown` from stop, switch, unmount, `onclose`; the node's messages with what `playFrame` and `reportAudioPlayed` do of them | `use-live-voice.ts` |
| `AudioRecorder` | takes from `Start` to `Converted`, one ref each for stream, recorder, chunks and timers; review, attached files | `use-audio-recorder.ts`, `composer.tsx` |
| `ConfigDraft` | draft, baseline and query of one field and one list; saves that overlap with edits, refetches and another writer; the archived snapshot when the node is silent | `use-config-draft.ts`, `config-workspace.tsx`, `services/config.ts` |
| `Pairing` | `pairHomeAssistant` between its read and its write, beside other writers; of each entry, which of trust, configuration and whitelist are the user's own | `services/setup.ts`, `utils/skill-providers.ts` |
| `ModelJobs` | the jobs of a node, the interval (cleared and set again by the effect), callbacks that walk through the jobs they knew | `models-manager.tsx` |
| `ModelPicker` | one chain of polls per install, from the POST to its last timer; failures in a row; a picker that goes while its chain goes on | `model-picker.tsx`, `services/models.ts` |
| `Replay` | the phase of the card, the two waveforms, the frames of the wait; the buttons of card and waveforms; the next turn, which keeps the card | `replay-card.tsx`, `replay-provider.tsx`, `audio-player.tsx`, `waveform.tsx` |
| `Evaluation` | stored evaluations, the one the page has read, the form and whether it was touched; saves, bulk grades of another tab, the next turn, which keeps the form | `grading-panel.tsx`, `services/grading.ts` |
| `SatelliteBind` | devices, each room's polled list, the device the panel waits for, one deadline per room | `satellites-panel.tsx`, `services/satellites.ts` |
| `LivekitLab` | joins at their awaits, `roomRef`, rooms and microphones that are open | `livekit-lab.tsx` |
| `MindImport` | picks that are being read, the bundle, the confirmation in which the name is typed, the import and its report | `mind-transfer-card.tsx` |
| `TableSearch` | box, timer, the location the router has taken and the one it has rendered | `use-table-params.ts` |
| `Avatars` | the steps of `setAvatar` for an image, a preset or none; failures, swallowed or thrown, torn files, death of the process | `services/avatars.ts` |
| `AudioRoutes` | a request of a recording, byte by byte: the range header, the node's body passed through, the archive, where row or file may be missing | `routes/api/audio.$id.ts`, `node-audio.ts` |

What is assumed: a socket keeps its messages in order and delivers none once it is closing; the
node starts the audio of one reply at a time and each reply ends once; a node raises
`desiredRevision` with every write; the router takes a navigation at once and renders it later;
one call of `setAvatar` runs at a time, for it does not await anything but SQLite; the router
keeps the component of a route when only its parameter changes, so that the state of a
conversation's page outlives the conversation; a form that was submitted counts as touched, and one
that was not takes over new default values.

## 3. The runs

Each passing run finishes within five minutes with two workers.

| Run | Question | Instance and why it is enough |
|---|---|---|
| `ingest_safety` | is anything ever acknowledged, shown or implied that is not stored? also the inductive invariant and the refinement | two possible runs of `ingestFrom`, pages of two, two rows in each announced stream and one in another: a page that fills, a tie across a page, a stalled page, `MAX_PAGES` reached, every retry exhausted; one crash or deletion |
| `ingest_live` | does every row arrive, does every run end? | pages of three and up to three interactions with one timestamp: a full page of ties stalls; a deleted archive is filled again |
| `audio_archive` | is a listed recording whole, and is a served one archived? | four recordings, a retry window of two, one withdrawn, two crashes |
| `audio_starved` | the same with as many withdrawn recordings as the window holds (finding) | three recordings |
| `registry_safety` | nobody online who was not heard of, no settled Domia retired, no older configuration restored | two Domias, two nodes, two addresses, two revisions of a configuration; seven scenarios: changes of every kind under a round with a crash; a move under two overlapping rounds; a node added while others stop; nodes that list peers while others stop; the same with a move; heartbeats without a node or an address before a round, and before a node is added (4.9 million states) |
| `registry_shown` | do heartbeats mend everything for good? | four scenarios: moves and a crash under rounds; three changes of power and addresses, as many as it takes for a node to take over the address of another that stops and starts at a new one; moves, and configurations, while a node is added. The heartbeats name their node and address |
| `registry_retired` | do rounds alone retire what has gone? | two changes among nodes that list only their own, or that list everybody and forget; rosters that may be empty |
| `registry_report` | is the configuration held the last one reported? (finding) | a node added while its Domias are configured |
| `chat` | one live turn, streams apart, settled turns final, threads only grow | two Domias, two messages, one reset marker: a late reply of the first turn meets every phase of the second |
| `console_pages` | the properties of the fourteen pages, below | see the bounds below |
| `chat_twice`, `chat_marker` | what two texts promise (findings) | the same |

`console_pages` checks the fourteen worlds in one run; some properties join what two pages promise
under one name, each part a definition of its page's module:

| Property | Parts and what they say |
|---|---|
| `PageTypesOK` | types, with the ties between refs and what is open |
| `MicsAreHeld`, `RoomsAreHeld` | every microphone, socket and room is one the page can still close |
| `ShownIsTrue` | *Voice*: a conversation is shown only with a session to stop, and "Live with" names the session's Domia; *Lab*: Disconnect is offered exactly while one is in a room; *Replays*: a recording sounds exactly while the card says so; *Picker*: an install shown is one it follows |
| `PlayedIsTrue` | `audio_played` once per reply, to its own session, after its stream and its last buffer |
| `MicMeansRecording`, `ClipIsOneTake` | *Recorder*: microphone and timers only while it records; no audio of another take |
| `BaselineIsSaved` | *Config*: with no request under way, the page is as new as its last save, and unless another wrote since, its baseline is what the node stores; an edit made during a save is dropped, never kept for saved |
| `SaveTouchesOnlyEdits` | *Config*, *Pairs*, *Grade*: a write changes what the user changed; a pairing replaces one provider; an evaluation is sent whole, as shown and edited |
| `ImportIsConfirmed` | *Mind*: the file, sections and mode imported are those the name was typed for |
| `AnnouncedOnce` | *Jobs*: the end of an install is announced after it, and once for a job no two callbacks asked for together |
| `SilenceIsFair` | *Bind*: a device is called silent only after its time; *Picker*: a status is called unavailable only after that many failures in a row |
| `BoxIsTheSearch`, `TypingIsKept` | *Search*: box and table agree at rest; typing is not taken back |
| `FilesAreServed` | *Avatar*: the row names a file that is there, whole; *Audio*: the bytes asked for, and the archive when the node fails early |
| `ToldInTheEnd` | *Voice*: a played reply is reported in the end; *Bind*: a connected device is seen; *Jobs*, *Picker*: an ended job is shown as ended; *Replays*: a replay ends. The five are joined to one formula, for a behaviour stays in its world |

Its bounds: two sessions and two replies (three sessions with one reply, and two with three, were
checked apart as well), two takes, two joins, two rooms and devices within two units of time, two jobs
under two overlapping callbacks, one save beside two writes, two mind files in two picks, one of which
lacks a section, one pairing beside one edit of a list whose entries are all the user's or all
the preset's, four avatar calls, files of up to three bytes,
two conversations to grade, a wait of two frames, two failures before a status is unavailable:
610,559 states. The theorems of section 4 carry
all of these properties but `ToldInTheEnd` to every bound. Larger instances of single
pages were checked apart, without error: three rounds of installs, four units of time for a
satellite with a patience of two, two saves beside three writes, three mind files in three
picks, six avatar calls, three and four takes, three joins.

Named bounds: `MaxRows`, `MaxTies`, `MaxFaults` (Ingest); `MaxRecording`, `MaxPage`, `MaxGone`,
`MaxFaults` (AudioArchive); `Plans`, `MaxConfig` (Registry); `MaxMarkers` (Chat); `MaxReplies`
(LiveVoice); `MaxWrites`, `Mine`, `Archived` (ConfigDraft); `MaxTime` (SatelliteBind); `Round`
(ModelJobs); `MaxPicks` (MindImport); `MaxEdits`, `Chosen` (Pairing); `SetCall` (Avatars); `MaxBytes`
(AudioRoutes). `MaxFailures` (ModelPicker: `MAX_POLL_FAILURES`), `Wait` (Replay), `Limit`, `MaxPages`, `Attempts`, `RetryLimit`, `Threshold` and `Patience` (of
`SatelliteBind`: `BIND_CONFIRM_MS`) are parameters of the code, set small. `CHECK_DEADLOCK FALSE`
occurs only in the runs of the pages: a page that was left does nothing more.

`EveryRowMirrored` needs a page to be longer than any tie of interactions that is followed by
another one: with a full page of ties the code gives up (ingestion.ts:204), and later rows wait
for ever. The instance has such a page only where nothing follows it. `registry_safety` keeps
apart what the code does not promise together: while a node is being added a Domia that moves
there may be retired for a moment, and a configuration may go back (the finding).

**Fairness.** Ingest: a heartbeat is delivered again and again, the steps of a run are taken
(the event loop runs), a fetch that is served again and again succeeds at last, and time
passes, so that a sweep becomes due (heartbeats are periodic; a request has a timeout; nothing
else is assumed of the network). AudioArchive: the same, for each recording, and a recording
that is not withdrawn is encoded at last. Registry: `HandlersGoOn` says that
a round goes on to its second statement; `HeartbeatsArrive` lets a living Domia
publish and its messages get through again and again (MQTT may lose any number of them);
`RoundsEnd` lets the timer start rounds, requests end at their timeout, and a node that can
answer do so again and again. Pages: what is scheduled is played (the audio device goes on), each
room's list is polled again and again and read (`refetchInterval`), the interval of the installs
fires, its callbacks go on, and a request for a job that is made again and again is answered in
the end; the picker's timers fire and its requests end; a recording that plays comes to its end
and the browser draws frames. No fairness is stated for Chat, because a stream has no timeout: nothing forces a silent
node to answer; nor for users.

## 4. The proofs

TLC checks the small instances above; TLAPS proves the following for every value of the
constants: every invariant and every action property that a run checks, in eight modules.
The assumptions are named where the constants are declared (`IngestAssumption`,
`AudioAssumption`, `RegistryAssumption`, `NoneAssumption`, `ChatAssumption`, `PageAssumption`)
and say that the constants have their types, that the sentinels differ from real values, that
the archived configuration is one, and that there is a page 1 (a search navigates there). Two
theorems about the registry assume scenarios besides; they are discussed below.

| Theorem | States |
|---|---|
| `TypeCorrect`, `IngestInvariant` | types, and the inductive invariant of the ingestion |
| `NothingLostBehindCursor` | no row is behind a stored cursor without being in the archive |
| `ShownIsAlwaysArchived`, `CursorsNameArchivedRows` | the last interaction shown can be opened; a cursor comes from an archived row |
| `RunsHoldStoredCursors`, `CursorsOnlyMoveForward` | a run never holds cursors that are not the stored ones; no step but deleting the archive moves one back |
| `IngestImplementsMirror` | `Ingest` implements `DurableMirror` |
| `AudioTypeCorrect`, `ListedAudioIsWhole` | a recording with a row has its whole file |
| `RegistryTypeCorrect`, `HonestInvariant`, `OnlineIsHonest` | a Domia shown online was alive, or listed by a running node, no earlier than it was last seen, but for the delay of one message |
| `ChatTypeCorrect`, `ChatInvariant`, `AtMostOneLiveTurn`, `StreamsDoNotMix`, `SettledTurnsStay` | the protocol of turns and of the shared stream state |
| `ThreadsGrow` | the conversation of a Domia only grows at its end |
| `ReportsAreKept`, `SettledAreKept` | a reported configuration is not set back; a settled Domia is not retired (in the scenarios below) |
| `VoiceInvariant`, `MicsStayHeld`, `LiveIsTrue` | a live session can be closed by the page that shows it, and is of the Domia it names |
| `PlayInvariant`, `PlayedStaysTrue` | a reply is reported as played once, to its own session, after its stream and its last buffer |
| `MicrophoneMeansRecording`, `ClipsAreOneTake` | the microphone is on only while a take is recorded or asked for; a clip is one take |
| `LabInvariant`, `RoomsStayHeld`, `DisconnectStaysOffered` | rooms are left with the page, and Disconnect is offered exactly while one is in a room |
| `BoxAgrees`, `TypingSurvives` | the search box agrees with the table at rest; typing is not taken back |
| `JobInvariant`, `InstallsAreAnnouncedOnce` | the end of an install is announced after it, and once unless two callbacks asked for the job together |
| `DeviceHasItsTime`, `StatusHasItsTries` | a device has its time, a node its tries, before it is called silent |
| `AudioInvariant`, `AvatarInvariant` | the bytes asked for are served; the image a row names is there, whole, but for failures |
| `ConfigInvariant`, `SavesTouchEdits` | the baseline of a draft; a save changes what the user changed |
| `MindsAreConfirmed`, `PairingsReplaceOne`, `GradesAreOfThePage`, `ReplayInvariant` | an import is the one confirmed, until a file is read late; a pairing replaces one provider and takes over its trust and configuration; an evaluation is written whole, as read and edited; a replay is heard as the card says |
| `PagesRun` | the console implements the specification of each of its fourteen pages |
| `PageTypesHold`, `WhatIsShownIsTrue`, `BaselinesAreSaved`, `ConsoleAnnouncesOnce`, `FilesStayServed`, `WritesAreEdits`, `ImportsAreConfirmed`, `SilenceStaysFair`, `ConsoleKeepsItsPages` | the properties of `console_pages`, for the console |

*Ingest.* `CursorBehindMirror` alone is not inductive: `AdvanceCursors` stores what a page
said long before. `IngestInv` adds that timestamps do not decrease (`Ordered`), that one run is
live (`OneRun`, from `inFlight`), that its local cursors are the stored ones
(`RunHoldsCursors`), that its page holds every row between them and the next cursor
(`ReplyClosesGap`), and that after the transaction these rows are in the archive
(`PageArchived`). Each action keeps each conjunct; the guard matters where a second run would
make local and stored cursors differ.

*AudioArchive.* `AssetHasWholeFile` needs that `insertAudio` is only reached with a whole file
(`WrittenBeforeInserted`), and that no file of an archived recording is written again, which
holds because the recording being visited has no row (`VisitsUnarchived`).

*Registry.* `OnlineWasHeardOf` compares a stored age with the time since the Domia was last alive
or listed by a running node. It is inductive together with the honesty of everything under way: a
heartbeat (`BeatsAreHonest`), a roster (`RostersAreHonest`) and a probe (`ProbeIsHonest`) are never
younger than the Domia's silence, and one that is heard of has none (`NamedIsHeard`). Time makes both sides older together.

`ReportsAreKept` is proved for all scenarios in which no node is added by its address while
configurations change; with one, the property is false and `registry_report` shows how. Its
invariant says that a heartbeat under way reports no older a configuration than the row holds,
and no newer one than the Domia has (`ReportsInOrder`), and that without configurations that
change there is one only (`AddedOrConfigured`). `SettledAreKept` is proved for the scenarios in which the nodes keep
their addresses and none is added while Domias move, and needs that the id a node reports is
no address of a node. Its invariant (`SettledInv`): a row, a heartbeat and a group of a round
name no other node than the one that answers at the address they name (`RowsAreOfNodes`,
`GroupsAreOfNodes`),
so that a round asks the node the rows are of; a Domia that is there but missing in its answer
has come since (`AnswersAreRecent`), no longer ago than an answer may be under way; and what
`addNodeByAddress` is about to write is the roster of the node it asked (`AdderIsOfNode`). The
rows are read long before the answers come and rounds overlap; none of this is lost by either.
Without these hypotheses the code gives no such promise, and TLC finds a counterexample of a few
steps for each: a row that names an address which another node has taken over is reconciled
against that node, and a Domia that moves to a node while that node is being added is retired
with what was registered there before.

*Chat.* `OneLiveTurn` relates `pending`, `activeRef`, `cancelledRef` and the phase of every
call; `StreamIsOwn` ties the stream state to the bubble that shows it. Together with the types
they are inductive, and `SettledIsFinal` follows from them step by step. `ThreadsOnlyGrow` needs of
them only that threads are sequences.

*The refinement.* A recorded row maps to `Record`, the transaction to `Copy`, the two ways
cursors are written to `Acknowledge`, deletion to `Delete`, and every other step to a stutter.
`Acknowledged` counts the rows behind a cursor: `SentIsPrefix` turns that count into a prefix of
the stream, `CursorNamesArchivedRow` keeps a new row from falling behind a cursor, and
`MirrorIsRecorded` (proved beside it) says that only recorded rows are copied.

*Microphones and rooms* (VoiceProofs). What makes their invariants
inductive is who holds what: in `LiveVoice`, that the ref holds the session for whose Domia
microphone and socket were granted, for every phase of `connect` (`MicsAreHeld`,
`GrantIsShown`, `HeldWhenShown`); in `AudioRecorder`, that one take is on (`OneTake`), that it
is shown (`TakeIsShown`), held by the refs (`TakeIsHeld`), asked for by the page that is still
there (`AskedIsHere`) and wrote the chunks (`ChunksAreOwn`); in `LivekitLab`, that one join is
under way (`OneJoin`), in the room of the Domia shown (`WaitingIsShown`), and that rooms belong
to joins (`RoomsHaveJoins`). Each holds until the history variable records that the
ref was overwritten; the exceptions are then part of the property, and section 5 lists them.
`PlayedIsTrue` rests on `PlayInv`: while nothing was overtaken, the socket, the refs of the
playback, the replies of each session and the reports sent agree (`Consistent`). A reply is
named either by its stream or only when its text is done, and the refs stand for a reply of
which no report was sent (`NotYetTold`).
The attempt to prove `DisconnectStaysOffered` for any number of joins showed an event the model
had not counted, a third join crossing the `Disconnected` of the first room: the history
variable now covers it, and the instance for TLC was enlarged.

*Node pages* (NodePageProofs). `AnnouncedOnce` is not inductive: a callback holds a list of jobs
it read long ago. `JobInv` says that a callback asks for one job at a time (`AsksInTurn`) that
the page knows (`AskedIsKnown`), that an end it was told has happened (`EndWasRead`), that two
callbacks about one job are noted as overlapping (`OverlapIsNoted`), and that, unless they were,
a job that was announced is asked for by nobody (`ToldIsOver`). A deadline counts from the bind
unless the room was waiting (`DeadlineIsOfTheBind`); a chain of polls carries the number of its
failures in a row (`FailuresAreMisses`). The avatars and the audio routes have an invariant by
stages: what file, row and call have in common between two steps of `setAvatar`, and which
bytes a response holds at each stage of a request, for files of every size.

*Domia pages* (DomiaPageProofs). Of a draft: what differs from the baseline was touched
(`DraftIsTouched`), also at the moment a save was sent (`SaveIsTouched`); an answer of the node
is of a revision, and is what is stored if that is the newest (`QueryIsRead`); the baseline is
what the page was mounted with until a newer save was answered (`BaseIsOfTheQuery`). Of an
evaluation, that a field the user left alone is as it was read (`FormIsOfThePage`); of a replay,
that the recording of its stage is loaded (`StageHasItsTrack`); of an import, that the dialog is
about the file shown (`DialogIsOfTheFile`). Attempting the proof of `BaselineIsSaved` showed
that it had excepted more than the code needs: the exception for edits made during a save is
gone, because such an edit is dropped as soon as the page has read the node again.

*The console* (ConsoleProofs). `PagesRun` is a refinement: a step of `MCConsole` is a step of the
page it shows, and the others stutter (`OnePageSteps`), and its fairness is theirs. Everything
proved of a page then holds of the console, and the properties of `console_pages` are the
conjunctions of such parts.

**Only model-checked.** Liveness, which is out of the prover's reach because it needs `ENABLED`:
`EveryRowMirrored`, `RunEnds`, `ServedIsArchived`, `HostedIsShown`, `RemovedIsRetired` and
`ToldInTheEnd`. The four findings of section 5 are counterexamples, found by TLC. That the provider
`Array.find` returns exists whenever one matches (`Previous` in `Pairing`) needs induction over
the list; `PairingsReplaceOne` is proved without it. That the console with its worlds has the
behaviours of every page, and not fewer, is seen by TLC: every action of every page is taken.

## 5. Where code and text disagree

* **`audio_starved`.** README.md promises every conversation "with audio". `retryMissingAudio`
  looks only at the ten newest missing recordings; ten that can never be fetched keep all older
  ones, which the Domia still serves, from ever being retried.
* **`registry_report`.** The Console says that templates use the *last reported* configuration
  of a Domia that is offline. `addNodeByAddress` can overwrite a newer configuration with one
  it read earlier.
* **`chat_twice`.** "Every exchange becomes a real, archived interaction": a message whose
  stream fails before its first frame is sent again, although the node may have accepted it.
  Leaving the page at that moment does the same.
* **`chat_marker`.** The marker of a reset says that the turns above it have left the Domia's
  context. Switching Domias before the answer puts it into the other conversation.

### What the properties of the registry and of the pages except

The code gives no promise about the following, so they are no findings: each is a case a property
names and leaves out, found while modelling. Each page's history variable says when one has
happened.

* *Registry.* A round takes whoever a node lists for live, the Domias of other nodes included. A
  dead Domia that a running node still lists as a peer is therefore shown online by the rounds, and
  one that has moved away is not retired from a node that lists it: `OnlineWasHeardOf` and
  `RemovedIsRetired` count the peers as the code does. A Domia whose heartbeats name no node or no
  address is in no group of a round, and without a node no offline marker reaches its row.
  `HostedIsShown` is about heartbeats that name both. When a node takes over an address, its roster
  retires the rows of the node before; when a Domia moves to a node that is being added, it is
  retired there: heartbeats mend both.
* *Live voice.* `connect` is not cancelled: if the user stops, leaves or selects another Domia
  while it waits for the token, the microphone or the worklet, it goes on, opens the microphone
  and the socket of the Domia it was called for, and the page then says "Live with" the Domia
  shown. After an error over an open session, Connect replaces the refs of that session, whose
  microphone and socket stay open. Audio that is resumed by `audio_resume` is never reported as
  played.
* *Audio recorder.* Two takes asked for together, or a page left while the browser asks for the
  microphone, leave a microphone open; so does a `MediaRecorder` whose constructor throws.
* *Configuration.* Edits made while a save is in flight count as saved when the answer comes,
  until the page has read the node again; they are then dropped.
* *Voice lab.* A token that arrives after another Domia was chosen still joins the room of the
  one before; a denied microphone leaves the room joined without a Disconnect to press; the
  failure of an older join clears the ref of the newer, and the `Disconnected` event of an old
  room shows a newer one as idle.
* *Satellites.* A second bind in a room inherits the deadline of the first. A device whose
  presence, or whose room's list, cannot be read is said not to respond. Each answer that says the list
  could not be had is drawn as a new list without devices.
* *Model installs.* Two callbacks of the interval that overlap announce an end twice, and an
  older answer puts a finished job back to running. A request the browser rejects ends
  the callback: the jobs behind it wait for the next. Leaving the page loses the list of jobs. A
  picker whose poll is rejected by the browser shows the install until it is gone; one that goes
  while it waits for an answer goes on polling, and a node that answers an install too late has
  started it all the same.
* *Mind import.* A file that is read late replaces the one that is shown, also under an open
  confirmation; a broken file hides the dialog, which returns with the name already typed; a
  report may stand beside another file.
* *Pairing.* The id, the trust tier and a configuration that is not empty are taken over from the
  provider that is replaced; its whitelist and its descriptor are overwritten with the preset's, and
  the skills engine is turned on. The whole list is written back as it was read, from the archive if
  the node is silent; a provider that matches by name and another that matches by address end as two.
* *Table search.* What is typed while a navigation is being rendered is overwritten by it. Back
  across a pending search leaves its text in the box.
* *Replay.* A waveform has a button of its own: played or paused by it, it goes on beside the
  card, and its end starts the wait or ends the replay. The next turn of a session keeps the phase
  and the durations of the one before: the button is enabled before the new recordings are loaded,
  and a replay can stay in "Speaking" without one.
* *Grading.* A form that was edited or saved is kept for the next turn of the session, shows there
  what belongs to the turn before, and is saved there by Save. An evaluation is sent as a whole, also
  the fields the user did not change: a rating given in bulk in another tab is overwritten by a form
  that was read before.
* *Avatars.* The old file goes before the new one is written: a write that fails leaves the row
  without a file, and one that is cut short leaves a torn file, which the row may name when it has
  the type of the old one. A death between file and row leaves a file without a row, and so does a
  file that cannot be removed, which is passed over.
* *Audio routes.* `bytes=-n` is read as "up to n", not as the last n bytes; a row whose
  file is gone is answered with 404, as no row is; an archived recording
  of another format is served as `audio/wav`; a body cut off by
  the timeout ends short.

## 6. What is not modelled

Most of the repository has no state that outlives a call and nothing that interleaves: rendering
(components, charts, the sidebar, the generated route tree), queries over the archive and their
aggregates, types and schemas, constants, translations, formatting. There is no behaviour in
them that a step of a model could get wrong, so the share of lines the models stand for stays
small by nature. In particular:

* *Read services* are queries; the archive they read is modelled where it is written. *Control
  plane services* other than configuration, pairing and avatars (memory, tools, vault,
  re-runs, cost) forward one request and show its answer; that of a re-run stays on the page when
  the next turn is shown. The *node client* adds an address and
  a timeout; its failures appear as failures of each request.
* *Exports and templates* are pure functions of data; WAV encoding is arithmetic on samples.
  *Demo mode* is a guard that refuses every write. *Setup checks* are one request each.
* The database schema appears as the state of the modules that write it. Column mapping, logging
  and validation are data. Of ingestion, the streams without a cursor (sessions, emotion events,
  announcements, user model) and updates of rows already mirrored are left out.
* The graceful shutdown of the collector is covered only as a crash at any step.
* Concurrent tabs are independent, except through the archive and the nodes; the other writer of
  `ConfigDraft` and `Pairing` stands for one.

## 7. Plan

Done, in this order: `Ingest` with `DurableMirror`, `AudioArchive`, `Registry`, `Chat`; then the
pages of the console, composed in `MCConsole`; then the proofs: every invariant and every action
property of the runs, the refinement of `DurableMirror`, and that the console implements its
pages. What is left:

1. Abstract specifications of what a page or a service promises, smaller than the property it
   has now, with the refinement proved as it is for `DurableMirror`: the registry as a map from
   Domias to the last that was heard of them, the chat tester as a set of settled turns.
2. Chat: the cancel that Stop sends for the Domia on screen, which may not be the one that
   streams (chat-console.tsx:200), and a node that goes silent within a stream, which has no
   timeout (chat-stream.ts:54).
3. Ingestion: updates of rows already mirrored, and the second unique key of turn events
   (adapter.ts:392).
