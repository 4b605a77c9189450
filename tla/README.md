# Verification of the Jarvis meeting agent

The program is a local meeting agent: a FastAPI process that keeps an agent's
mode, a meeting with its transcript and facts, a timeline of events in SQLite,
and a capability that updates a roadmap in an Excel workbook under a policy and
a human approval.  Audio frames go through a ring buffer to a wake detector, which
changes the mode.  A browser page, the Inspector, shows the timeline and sends
audio and approvals.  These modules model its control and say what must hold of
it.

Paths below are relative to `src/src/jarvis_agent/` unless they start otherwise.

## Inventory

| Component | Source | State | Operations | What makes it correct |
|---|---|---|---|---|
| Capability engine | `application/capabilities.py` | `_pending` approvals (memory), policy setting (SQLite) | `request`, `approve`, `reject`, `set_policy` | no mutation without release, once, in time; refusals final; one outcome per plan |
| Tool registry, runner | `application/tools.py` | registered tools | `invoke` | every invocation starts and ends on the timeline |
| Excel connector | `connectors/excel_roadmap.py` | workbook, backups, temporary copies (files) | `discover`, `propose`, `apply`, `rollback`, reads | writes what was approved or nothing; never half a file; genuine backups |
| Event store | `application/event_store.py` | `events`, `settings` tables; subscriber queues | `append`, `list_events`, `subscribe`, settings | order; no unexplained gap |
| Runtime, mode | `application/runtime.py`, `domain/state_machine.py` | `_state`, setting `agent_state`, ring buffer | `set_state`, `ingest_audio`, `update_settings`, start-up | mic off is silent; the mode survives a restart |
| Runtime, meeting | `application/runtime.py`, `profiles/meeting.py` | `meeting`, `transcript`, `facts` | `start_meeting`, `end_meeting`, `inject_transcript`, `_rebuild_projection` | memory is what a restart rebuilds; facts have sources; one meeting at a time |
| Inspector feed | `web/static/app.js` | `state.cursor`, `state.events` (the last 1200) | bootstrap, reconnect, `applyEvent`, refresh | nothing twice; late only what a refresh overtook; no unexplained gap |
| Inspector approval slot | `web/static/app.js` | `pendingApproval` and its copy in `sessionStorage`, calls under way | `captureApproval`, approve, reject, decision events, reload | what is answered is what was on screen; an open approval is on screen or there is a reason |
| Inspector microphone | `web/static/app.js` | audio socket, the page's clock | start, frames, stop | frames reach the runtime, in time |
| Web API | `web/api.py` | none | one route per call, two sockets | as the calls behind it |
| Ring buffer | `application/audio.py` | frames, duration, capacity | `append`, `snapshot`, `clear` | bounded, newest frames kept, true duration |
| Wake detector | `application/wake.py` | enrolled samples | enrol, delete, detect | listens at its interval to its window; one phrase wakes once |
| Diarizer | `application/diarization.py` | hint map, centroids | `assign` | one number per speaker |
| Row matching, sentence parsing | `connectors/excel_roadmap.py`, `application/runtime.py` | none | `match_row`, `parse_roadmap_update` | the best of the rows that are read, or none |
| Providers | `application/providers.py` | settings | save, assign, diagnose | - |
| Configuration, redaction | `application/config.py`, `application/redaction.py` | none | pure | - |

**Interaction.** The Inspector calls the API; the API calls the runtime or the
engine; both append to the event store, which pushes each event into the queue
of every subscriber; the engine runs the Excel connector through the tool
runner.  The page's audio goes over a second socket to `ingest_audio`, which
fills the ring buffer and asks the wake detector.  All of it shares one asyncio
thread.

**What is concurrent.** A handler can be overtaken only where it really
suspends.  `EventStore.append` is a coroutine, but it awaits an uncontended lock
and then calls `sqlite3` synchronously, and the Excel tools are plain functions
called in place; so `request`, `approve`, `reject`, `set_policy`, `set_state`
and the meeting handlers run to their end.  Three places do suspend:
`inject_transcript` (`adapters/transcription.py:35-42` sleeps between the two
chunks), `subscribe` (the socket's `send`), and the browser between a request
and its answer, in which clicks, replies, events and reloads come in any order.
Besides, the process may end at any step, SQLite may raise at
any write, and the workbook belongs to other programs as well.

**Hard behaviours.** Two durable writes that should be one; memory that a crash
loses; a replay that is not atomic with the subscription that follows it; limits
(256 queued, 1000 replayed, 5000 of history, 1200 shown, 10000 rebuilt); a check of the
workbook and its replacement at different moments; errors after the effect; a
handler that resumes in another meeting than it started in; one slot on screen
for several approvals; a list of settings of which some are refused; a clock that
starts anew in another process.  `PROJECT.json`
lists each with its line and the properties that cover it.

## Modules

### CapabilityEngine

`task` is the running handler: its program counter, plan, confidence and the
result of the last tool.  Each action between two appends is one step, ending
with the append (`EmitOnly`); `StoreFails` and `Crash` may replace any step, and
put the plan into `lost`.

| State | Code |
|---|---|
| `policy` | setting `capability_policy:update_roadmap` |
| `pending` | `CapabilityEngine._pending` |
| `timeline` | the events of the engine and the tool runner |
| `applied` | what the connector did to the workbook (history) |
| `issued`, `lost`, `now` | `new_id`, handlers cut short (history), the clock |

`Request` .. `ApprovalRequested` are `request`; `Approve`, `ApproveExpired`,
`ApprovalGranted`, `Reject`, `ApprovalRejected` the answers; `ExecuteStarted`ff
the tool and its result; `SetPolicy`, `PolicyChanged` the policy.  The guard that
an approval was announced before it can be answered stands for the secrecy of
its token: identifier and token reach the operator with the reply.

### ApprovalGate, the abstract specification

What the engine promises, without process, clock or handler: a plan is cleared,
denied or asked about; asked, it is granted or rejected; released, it starts
once, touches the workbook at most once and is concluded one way.
`CapabilityEngine` instantiates it as `Gate`, with the state of a plan read off
the timeline (`StageOf`, `VerdictOf`) and off what happened to the workbook, and
`ImplementsGate` says that every step of the engine is one of the gate's or
none.  Memory, in which approvals expire and are lost, is not part of it: those
steps map to stutters.

### ApprovalDesk

The Inspector's half of an approval, composed with the gate as its server:
`ApprovalDesk` extends `ApprovalGate` and takes its actions as the steps of the
handler that is served (`task`).

| State | Code |
|---|---|
| `open` | approvals in `_pending` that are neither used nor expired |
| `calls` | the page's `fetch` per button, which is disabled while it lasts |
| `late` | requests and answers the server may still serve, though the page gave them up (`AbortController`, 30 s) |
| `slot`, `saved` | `state.pendingApproval`, its copy in `sessionStorage` |
| `seen` | the decisions the page was told of since it was loaded, by events or the history |
| `clicked`, `displaced` | what the operator answered, what left the screen unanswered (history) |

Two requests may be under way at once (the ask form and the transcript form) and
two answers (approve and reject).  What was sent when the page gave it up is in
`Unserved`, and `TakeLate` serves it or nothing does.  `Reload` restores the copy
and then applies the history, in that order.  The history is the oldest 5000
events (`web/static/app.js:292`) while the cursor is the status's, so it may tell of any
part of the decisions: `Reload` chooses which.  Of the others the page may still be
told by an event, or never; then it offers a copy that was decided long ago, and
the engine refuses the answer.  `displaced` is where the code's one slot shows: a
later offer takes the place of an open one, an answer's reply clears whatever is
there, and a request that was given up has an offer nobody sees.

### RowMatching

`match_row` as the set of rows that match (at most one): the score in
hundredths from the similarity of the texts (a constant function), the hints of
owner and month with their bonus and malus, the cut to 0..100, the threshold and
the margin.  Rows whose status is not recognized are not read.

### ExcelRoadmap

A file is its rows and a version that stands for its bytes; the fingerprint
(SHA-256, and its first 8 characters in a backup's name) is the version.
`call` is the running connector call; each of its steps is one file operation:
`CopyToTemp`, `EditTemp`, `BackupStarts`, `BackupEnds`, `Replace`, `Report`.
`ApplyRaises` is an error at any of them, with the clean-up that may fail too.
`EditorSaves` is another program, at any moment; the history variable `quiet`
says that it has not saved during a call so far.  The row of a proposal is
`RowMatching`'s.

### Workbook, the abstract specification

What the connector promises of the workbook while nobody saves it during a call: a
register with compare-and-set.  An offer holds what the workbook says when it is
made; a write takes place in one step, on the version the offer was made from, or
not at all; what is kept before it is the version it is kept for; a restore tears
the workbook and brings back the version that was asked for, or leaves it torn.
`ExcelRoadmap` instantiates it as `Register`: a torn file shows nothing, a torn
backup is none, and the steps of apply that prepare the replacement are stutters,
as are refusals.  From the moment `calm` is lost the abstract workbook promises
nothing; what still holds then are `OnlyRollbackTears` and `LeftoversAreMishaps`.

### TimelineStream

An event is its sequence number.  Per client: the subscription (`phase`, `rows`
left to replay, `queue`), the `wire`, and the Inspector (`cursor`, `events`,
`page`).  The Inspector keeps the last `Window` events it applied
(`web/static/app.js:372`; `Latest`, `Lists`) and looks for duplicates among those
only (`Known`).  Two history variables are kept where it happens: `skipped` is what
a client will not be sent, or shows no more, and `overtaken` what of it was under
way to the client at that moment.  Something comes into `skipped` by `Misses`
(between replay and registration, or queue full), by the limits in `Connect` and
`LoadHistory`, by `RefreshApply`, and when an event leaves the list.
An overtaken event is shown again when it arrives: with rows 1001..2000
under way, a refresh that reads 1..3500 leaves 2301..3500 on the page, and then 1001
is not found among them and comes in behind 3500.  `Hydrate` takes the
cursor from the status before the history is loaded, as `bootstrap` does.

### OrderedFeed, the abstract specification

What a reader of the timeline is promised: one queue, first in first out.  While
it is connected each event that is published comes in at the end of its queue or
is missed; what leaves the queue is shown after all that was shown before, or is
shown already, or was given up and comes late; a connection begins where the
accounts end, so that up to there every event was shown or missed, and the gap that
a limit leaves is missed.  A reader shows a number of events, the latest, and gives
up the others.  While a reader is not connected nothing is missed but what it
gives up itself.  `TimelineStream` instantiates it as
`Promised`: `wire`, `rows` and `queue` in a row are the queue (`OnTheWay`),
`events` is what is shown and `skipped` what is missed or given up.  What the generator does
(`ServerStep`) and requests that wait for their answer are stutters, and the cursor
is not part of it: that a reconnection from it leaves out nothing is the
content of the refinement.

### AudioRing and AudioFront

`AudioRing` is the buffer as a record and its operations as functions: `Push`
evicts from the front until the counted duration fits, `Snapshot` takes as few
frames from the end as reach the duration asked for.  A frame is its duration, and
`Total` the sum of a list of them.

`AudioFront` is what surrounds it: `ingest_audio` (`Buffer`, `Check`, `Wake`: a
frame without a check, with one, with a detection), enrolment, the mode, the
settings of buffer, detector and Excel root, the page's channel and clock, and
restarts.  `received` keeps every frame since the buffer was last emptied, to
compare the buffer with; `detectedAt` and `checkedAt` are in the server's time,
while `lastCheck` is in the page's as in the code.  `UpdateSettings` stores and
converts one setting after the other and stops at the first one refused.

### MeetingRuntime

A handler is the list `todo` of the operations it has still to do; `Ends` is the
write that ends an operation and either commits or raises.  `suspended` holds
the `inject_transcript` handlers that wait, in order.  `tainted` is set by a
store failure, which leaves memory ahead of the timeline until the next
restart.  `Rebuilt` is `_rebuild_projection`.  Events that no projection reads
are of type "other".  `hints` is the diarizer's map from names to numbers, which
the partial and the final segment of a transcript extend and no restart keeps;
`inherited` counts the segments that earlier processes made.

### MeetingRecord, the abstract specification

What the runtime promises of its meetings, without process, memory, handlers or
timeline: a meeting starts when none goes on, with a number of its own and
nothing in it; it ends with all that was said; segments come in the order in
which they were made, facts from segments that are there, and nothing else
changes.  `MeetingRuntime` instantiates it as `Record`, with what the next process
would begin with (`Rebuilt`) as the record.  Memory is not part of it: a change of
memory whose write fails, and the restart that takes it back, are stutters.

### Induction

Induction over the natural numbers for the proofs: a set of numbers that holds 0
and with each number the next one holds them all, and a non-empty set of numbers
has a least member.  Proved from the well-foundedness of `<`.

### MC modules

`MCCapabilityEngine`, `MCApprovalDesk`, `MCExcelRoadmap`, `MCAudioFront`,
`MCTimelineStream` and `MCMeetingRuntime` give the small sets the configurations
use.

## Runs

| Run | Checks | Bounds and why they are enough |
|---|---|---|
| `engine_one` | `TypeOK`, `MutationReleased`, `ExecutedAtMostOnce`, `RefusalIsFinal`, `OneOutcome`, `GrantedInTime`, `ReleasedIsConcluded`, `ImplementsGate` | one plan, confidences below and above the threshold, expiry after 1 of 2 ticks, 2 policy changes (to any mode and back), 2 failures, with fairness: every order of answer, expiry, policy change and failure in a plan's life.  What plans could do to each other is left to the theorems, which hold for any number of them |
| `desk_all` | `DeskTypeOK`, `OpenIsOnScreen`, `SeenIsOffScreen`, `AnswersAreTheOperators` | two symmetric plans, which is all that one slot can confuse; calls of all four buttons at once; two mishaps, so that a call given up is followed by another failure, a restart or a reload; histories that tell of any part of the decisions |
| `excel_all` | `TypeOK`, `BackupsAreGenuine`, `SuccessIsVisible`, `LeftoversAreMishaps`, `ProposesTheBestRowItReads`, `WritesWhatWasApproved`, `OnlyRollbackTears`, `ImplementsWorkbook` | two symmetric proposals, three versions of the file (saves by anyone, at any moment), one mishap, four layouts of two rows (reordered, with two rows of one text, with a status that is not recognized), three requests, of which one resembles a row and names the owner of another |
| `audio_front` | `TypeOK`, `KeepsTheLatest`, `PreRollIsComplete`, `SettingsSurviveRestart`, `OnePhraseWakesOnce`, `DeafOnlyAfterReload` | a tick of about 500 ms; frames of one and of three ticks, buffers of two (less than a long frame) and four (more than a window), four frames, so that one eviction takes several; patches refused at their first and their last setting; one mishap |
| `stream_one` | `TypeOK`, `ShownInOrder`, `FeedInOrder`, `GapsAreKnown`, `QueuedIsShown`, `ImplementsFeed` | one client (clients share nothing but the timeline), five events, a replay of 2, a queue of 2, a history of 4, a list of 3, so that each limit of the code is exceeded and an overtaken event is shown late; with fairness |
| `runtime_all` | `TypeOK`, `MicOffKeepsNothing`, `ModeSurvivesRestart`, `ProjectionSurvivesRestart`, `FactsAreTraceable`, `OneMeetingAtATime`, `SpeakersAreToldApart`, `ImplementsRecord` | two meetings, three transcripts of two speakers of which any may wait at once, two facts from one text, phrases that wake and sleep, three requested modes, one failure, a rebuild limit that is not reached |

Bounds are named constants: `MaxTime`, `MaxPolicyChanges`, `MaxLost`,
`MaxVersion`, `MaxMishaps`, `MaxEvents`, `MaxDisconnects`, `MaxMeetings`,
`MaxSegments`, `MaxFailures`, `MaxClock`, `MaxFrames`.  Deadlock is not checked
where a bound stops the system by itself.

`WritesWhatWasApproved`, `BackupsAreGenuine`, `SuccessIsVisible` and
`ImplementsWorkbook` are stated for `quiet` behaviours: they are what the design
with a fingerprint gives when nobody saves in the fraction of a second between a
check and what relies on it.
`excel_changed` shows what happens otherwise.

What the properties except is what the code does not do: `OpenIsOnScreen` excepts
what is `displaced`, `SeenIsOffScreen` decisions the page was not told of,
`ShownInOrder` events that a refresh overtook, `OnlyRollbackTears` the rollback,
`BackupsAreGenuine` backups that were cut short, `SettingsSurviveRestart` stored
values that cannot be converted, `DeafOnlyAfterReload` pages that were loaded
again, `SpeakersAreToldApart` other processes and segments without a name.  Most of
the exceptions are in the list of divergences below, and `PROJECT.json` notes each with
its hazard.

### What the documents promise and the code does not do

Each of these runs checks one sentence of a document or comment and ends in a
counterexample; `PROJECT.json` quotes the sentence with its line.

| Run | What the counterexample shows |
|---|---|
| `engine_disabled` | an approval is requested in manual mode, the capability is disabled, the approval is given, the workbook changes |
| `excel_changed` | a save after the fingerprint check is overwritten |
| `excel_failure` | the workbook is replaced, then reading it back raises: the result is a failure |
| `stream_window` | an event between replay and registration is not sent |
| `stream_overflow` | an event dropped by a full queue is passed by the cursor |
| `runtime_rebuild` | the newest events lie beyond the rebuild limit, and what they say is lost |

Smaller divergences were seen while modelling and have no run of their own:

- The policy and the mode are each saved in one transaction and announced in
  another (`application/capabilities.py:103`, `application/runtime.py:163`), so a
  failure in between leaves a change that
  `src/handoff/tasks/11-capability-policy-engine/TASK.md:66` calls auditable off
  the timeline.
- Approvals expire, and are lost with the process, without an event
  (`application/capabilities.py:93`, `241`): the timeline keeps showing them as
  open.
- A save between reading the rows and taking the fingerprint
  (`connectors/excel_roadmap.py:243`) is approved unseen.
- A row whose status is not recognized is not read
  (`connectors/excel_roadmap.py:172`).  A request that means it is matched with the
  best of the others, if that one is good enough, where
  `src/handoff/docs/08-capability-and-tool-contracts.md:114` wants no mutation
  when "multiple rows are equally plausible".  `ProposesTheBestRowItReads` says
  nothing of such rows.
- After a refresh the page may show a late event behind newer ones, because
  duplicates are looked for among the last 1200 events only
  (`web/static/app.js:369`).  In `TimelineStream` these are `overtaken`.
- A page that is loaded again after 5000 events may offer an approval that was
  decided (`web/static/app.js:292`, `962`); the engine refuses the answer.
- A backup that was cut short is later taken for complete, because only its
  existence is tested (`connectors/excel_roadmap.py:347`).
- An approval that is still open can leave the screen unanswered: the next offer
  takes the one slot (`web/static/app.js:803`), and the reply to an answer
  clears it whatever came into it meanwhile (`web/static/app.js:1039`).  In
  `ApprovalDesk` these are `displaced`.
- After the page is loaded again its frames carry a clock that starts anew
  (`web/static/app.js:1218`), and no wake check is made until it has caught up
  with the last one (`application/runtime.py:275`).
- A buffer that is set shorter than 900 ms turns wake detection off
  (`application/runtime.py:274`).
- An exception in a frame's handler closes the audio socket
  (`web/api.py:335`), and the page opens another only when the user starts the
  microphone again.
- A setting that is refused has been stored before (`application/runtime.py:483`),
  and the next start fails on it.
- A segment without a speaker's name has the number of the first name, and a
  process that takes up a meeting gives the numbers out anew
  (`application/diarization.py:37`).
- `parse_roadmap_update` looks for words of the status "done" first
  (`application/runtime.py:593`), so "not done" asks for "done".
- The settings page calls `/api/providers/reload-secrets`
  (`web/static/app.js:1063`), for which `web/api.py` has no route.
- The deactivation phrase leads from interactive to standby
  (`application/runtime.py:307`), where `src/handoff/docs/02-architecture-spec.md:65`
  says transcribing.
- A transcript that waits while its meeting ends is added after the last
  summary (`application/runtime.py:353`).

### Fairness

`engine_one` assumes `WF_vars(HandlerStep)`: the event loop carries on a
handler it has started.  That does not exclude crashes and store failures, which
the property names (`lost`).  `stream_one` assumes weak fairness of the
server's generator and of the delivery in the browser for each client: a
generator whose `send` returns is resumed, and a client that stops reading is
disconnected by the keep-alive of the socket.  No action of a user, of another
program, and no failure is fair.

## Theorems

TLC checks the instances above; the theorems hold for every value of the
constants.  The bounds that are guards of actions play no part in them, and they
rest on the `ASSUME`s of the modules only, which TLC evaluates in every run.

| Module | Theorem | States |
|---|---|---|
| `CapabilityEngineProofs` | `TypeCorrect`, `OnlyReleasedPlansMutate`, `NoPlanRunsTwice`, `RefusedPlansNeverRun` | `[]TypeOK`, `[]MutationReleased`, `[]ExecutedAtMostOnce`, `[]RefusalIsFinal` |
| `CapabilityEngineGate` | `EngineImplementsGate`, `PlansEndOneWay`, `GrantsAreInTime` | `ImplementsGate` (the refinement), `[]OneOutcome`, `GrantedInTime` |
| `ApprovalDeskProofs` | `DeskTypeCorrect`, `OpenApprovalsAreShown`, `DecidedApprovalsAreNotShown`, `OperatorsDecide` | `[]DeskTypeOK`, `[]OpenIsOnScreen`, `[]SeenIsOffScreen`, `AnswersAreTheOperators` |
| `ExcelRoadmapProofs` | `ConnectorImplementsWorkbook` | `ImplementsWorkbook` (the refinement) |
| | `TypeCorrect`, `OnlyMishapsLeaveCopies`, `ApplyIsAtomic`, `TheBestRowReadIsProposed`, `WhatIsApprovedIsWritten`, `BackupsHoldTheirVersion`, `SuccessesAreVisible` | `[]TypeOK`, `[]LeftoversAreMishaps`, `OnlyRollbackTears`, `ProposesTheBestRowItReads`, `WritesWhatWasApproved`, `[]BackupsAreGenuine`, `[]SuccessIsVisible` |
| `AudioFrontProofs` | `FrontTypeCorrect`, `TheLatestIsKept`, `PreRollIsHeard`, `PhrasesWakeOnce`, `DeafAfterReloadOnly`, `SettingsAreDurable` | `[]TypeOK`, `[]KeepsTheLatest`, `[]PreRollIsComplete`, `OnePhraseWakesOnce`, `DeafOnlyAfterReload`, `[]SettingsSurviveRestart` |
| `TimelineStreamProofs` | `StreamTypeCorrect`, `OrderIsShown`, `OrderIsCarried`, `GapsHaveCauses` | `[]TypeOK`, `[]ShownInOrder`, `[]FeedInOrder`, `[]GapsAreKnown` |
| | `StreamImplementsFeed` | `ImplementsFeed` (the refinement) |
| `MeetingRuntimeProofs` | `TypeCorrect`, `FactsAreTraced`, `SpeakersAreKept`, `MicOffIsSilent`, `ModeIsDurable` | `[]TypeOK`, `[]FactsAreTraceable`, `[]SpeakersAreToldApart`, `[]MicOffKeepsNothing`, `[]ModeSurvivesRestart` |
| | `ProjectionIsRebuilt`, `MeetingsDoNotOverlap` | `ProjectionSurvivesRestart` and `OneMeetingAtATime`, of timelines that a new process reads whole |
| | `RuntimeImplementsRecord` | `ImplementsRecord` (the refinement) |

**Engine.**  None of its safety properties is inductive: the timeline alone does
not say where the running handler is.  `IInv` adds what ties memory to the
timeline: `FreshInv` (a plan that was not issued has left no trace),
`PendingInv` (an approval that is still open belongs to a plan that was neither
granted, rejected, started nor executed) and `TaskInv` (for each program counter,
what the timeline already says of the handler's plan and what it does not say
yet).  The proof goes action by action, with lemmas on what one append adds to
the timeline.

**Refinement.**  A step of the gate needs more: that a plan is offered, cleared
or denied when nothing was decided about it, granted only when offered, and
concluded once.  `GInv` says so for fresh plans, open approvals and the running
handler, and that an open approval expires when its offer said.  Each append is
then mapped to the gate's step (`StageOf` and `VerdictOf` of the handler's plan
change, those of all others do not), and the steps that write nothing to
stutters.

**Desk.**  What is on the screen depends on the copy it is restored from, on
replies under way and on requests and answers that may be late.  `StageInv` relates
screen, copy, clicks and what the page was told to the stages of plans, `OfferInv`
says that the one reply with an offer is the only thing that knows of it,
`AnswerInv` that answers under way were clicked, and `TaskInv` that the handler
served and the call it answers belong together.

**Workbook.**  Type correctness needs the shape of the running call (`CallInv`).
The three properties of `quiet` behaviours rest on a fact no variable holds: a
version has one contents.  `Told(C)` says that the function `C` from versions to
rows agrees with every whole file, every proposal and every reported success, and
`VersionInv` that there is such a `C`, where the running call stands towards it
and that backups are genuine.  A save extends `C` by the next version.  That the
best row is proposed rests on `ScoreRespectsAsGood`: a row that speaks for the
request as well as another in text, owner and month has no lower score, for every
similarity of texts.  For the refinement, `FreshInv` adds that the edited copy is
newer than the workbook, than all whole backups and than what any proposal is
about, so that a version names one state of the workbook for as long as anything
refers to it.

**Feed.**  `Sound(c)` says of each client where the events under way stand
towards its cursor: each is ahead of it, shown already or overtaken, and what is
overtaken was given up (`Ahead`); what is shown is behind the cursor, and in order
but for what was overtaken (`Shown`); a page holds the first events of the timeline
and all of them (`Page`); and nothing is under way without a connection (`Under`).
Sending moves an event within the feed, so the feed as one sequence does not
change; receiving takes its head, which is shown already, later than all that is
shown, or overtaken.  Of a list that is built only its end is kept: that end is in
order when the list is (`LatestInOrder`), and what it leaves is accounted for
(`ListedAccounts`).  A connection that ends loses only what a reconnection replays
or what was given up.  The refinement rests on the same facts, step by step:
`Covered` and `Shown` are what the abstract feed asks of a connection's beginning,
`Ahead` is what it asks of an event that is shown, and a page that is not loaded
shows nothing (`Blank`).

**Audio.**  `PauseInv` says that the pause lasts from a detection on;
`ListenInv` ties the page's clock to the server's: `lastCheck + page <= checkedAt`
unless the page was loaded anew.  That the buffer holds the latest frames is about
sums of lists, so it rests on lemmas proved by induction: the sum of two lists
joined, of a list's end, of a list that is a part of another.  From them, pushing a
frame leaves the longest end of what was received that fits (`Latest`,
`LatestGrows`), and a snapshot is the shortest end that reaches what was asked for
(`LeastExists`).

**Runtime.**  Its state is there twice: in memory, and in what a new process would
read from the timeline.  `Replay` is the projection of a timeline's first events,
and two lemmas proved by induction reduce it to one event more (`ReplayNext`,
`ReplayPrefix`).  Every step then is of one of three kinds: it shows in no
projection (`Quiet`); it changes memory and adds the event that says so, unless the
write fails between the two (`Records`); or it is a restart.  On these rest the
invariants: memory is what the timeline projects to unless a write failed
(`SurvivalInv`); facts have their segments in both copies, and those that a handler
has still to make will have them (`FactsInv`); a meeting that the timeline leaves
open is the one in both copies (`MeetingsInv`); numbers of speakers are places in
the list of names (`SpeakersInv`); the timeline knows no meeting newer than memory
(`RecordInv`).

`ProjectionIsRebuilt` and `MeetingsDoNotOverlap` are about timelines of at most
`RebuildLimit` events, because they are false beyond: a new process then reads only
the oldest part, takes up an old state (`runtime_rebuild` shows it) and starts
meetings beside the one that is open.  `RuntimeImplementsRecord` has no such
condition.  Beyond the limit what a new process reads no longer changes, so the
record stands still, which the abstract specification allows: it says what may
happen to the record, not that anything does.

Only model-checked: `ReleasedIsConcluded` and `QueuedIsShown`, because liveness
under fairness is outside the prover's reach.

## Not modelled

- What the wake detector hears, diarization by features (which nothing calls),
  audio levels: floating point over numpy.  Verdicts are inputs.
- Regular expressions and similarity scores: roadmap sentences, fact patterns,
  column headers.  Their results are inputs, `Similarity` a constant.
- The provider manager: settings written key by key and read back whole, on
  which no decision of the program rests, and diagnosis calls that change
  nothing.
- The OpenAI transcription adapter: network I/O that the runtime never calls.
- Rendering, redaction, configuration, health, static files, request validation.
- `AgentStateMachine.recover` and `mark_false_wake`, which nothing calls.
- The mode as a guard of capabilities, of which
  `src/handoff/docs/02-architecture-spec.md:71-76` has a table: the engine has no
  reference to the runtime, so there is no code to translate.
- Times of segments, on which nothing but the display depends.

## Plan

Done: every component that has state a decision of the program rests on; the
refinements of the engine to the approval gate, of the connector to the workbook,
of the runtime to the record of meetings and of the timeline's stream to an ordered
feed; the composition of the gate with the Inspector's approval slot; the theorems
above.

Left: nothing of the plan.  What the proofs leave to the runs is liveness; the
divergences above are the program's to settle.
