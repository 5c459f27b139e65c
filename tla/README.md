# A verification of CastTuning, the WebRTC code it steers, and its builder

This directory holds TLA+ models of the CastTuning core of this repository
(`overlays/m150/common/api/cast_tuning` and the parts of the platform shims that
it depends on), of four parts of WebRTC that its settings act on and whose
sources the repository keeps as references (`references/M150/upstream`), and of
the builder around it (`builder/`), from the pinned source snapshot to the release
gate; the TLC configurations that check them; and proofs that TLAPS checks.

## The system

The repository builds WebRTC M150 for macOS, iOS and Android and adds
*CastTuning* to it: a configuration of sender, transport, encoder, receiver and
recovery for screen casting, which is validated, turned into field trials and
initial settings, and changed while a session runs.  What it sets takes effect in
WebRTC: an output format in the video adapter, bitrates and content hints in the
video stream encoder and, for screen content, in the frame cadence adapter; what
came of it is read from the stats collector.  A Python builder restores a
pinned source snapshot, patches and overlays it, builds each target, packages and
verifies the results and composes releases of them.

| Part | State | Operations | Modelled by |
| --- | --- | --- | --- |
| Configuration (`cast_tuning_config`) | none, values | `ForProfile`, `Validate`, `FieldTrialString`, `RequiredScope` | `CastTuningConfig` |
| Controller (`cast_tuning_controller`) | effective configuration, revision, hash, `recreate_required` | constructor, `ApplyLivePatch`, `snapshot` | `CastTuningController` |
| WebRTC backend (`webrtc_cast_tuning_backend`) | `state_`, attached PeerConnection, sender, track, source, receiver, initial-apply error | three attaches, four setters, `CaptureState`, `ForceKeyFrame` | `WebRtcCastTuningBackend` |
| Telemetry sink (`cast_tuning_telemetry`) | queue, flags, failure count, file, a thread | constructor, destructor, `Emit`, `Flush`, `Run` | `CastTelemetryWriter` |
| Recovery (`cast_tuning_recovery`) | last frame, last action, count | `Start`, `OnDecodedFrame`, `Evaluate` | `CastRecoveryStateMachine` |
| JSON configuration (`cast_tuning_json`) | none | `ParseJson`, `ParseJsonWithOverrides` | `CastTuningJson` |
| macOS shim (`RTCCastTuning.mm`) with the encoder hooks (`patches/m150`) | runtime QP state with a generation, evidence | `requestMaxQp`, `requestSnapshot`, `recordEncoderEvent`, the encode path | `RuntimeMaxQp`; its weak video source is in the controller's model |
| Video adapter (`video_adapter`) | the sinks' wants, the application's format request and its stash | `OnOutputFormatRequest`, `OnSinkWants`, `AdaptFrameResolution` | `VideoAdapter` |
| Frame cadence adapter (`frame_cadence_adapter`) | mode, queued frames, delayed tasks, repeat, refresh requester, layers' quality, overload count | frames, discarded frames, constraints, zero-hertz parameters, restrictions, key-frame requests, the delayed tasks, VSync | `FrameCadenceAdapter` |
| Video stream encoder (`video_stream_encoder`) | configuration, codec, encoder, rates, key frames owed, pending frame, frames in preparation | `ConfigureEncoder`, frames and their preparation, `OnBitrateUpdated`, `SendKeyFrame`, restrictions, `Stop` | `EncoderLimits`, `VideoStreamEncoder` |
| Stats collector (`rtc_stats_collector`) | requests, collection context, cached report and certificates | `GetStatsReport`, the steps of a collection on three threads, the clearing of the cache | `RTCStatsCollector` |
| Video engine (`webrtc_video_engine`) | send and receive streams, codecs | negotiation, `SetSend`, stream recreation | not modelled |
| Android shim | JNI handle, decoder factory | create, apply, close; one decoder retry | not modelled |
| Builder, source (`snapshot.py`, `source.py`, `build.py`) | cache of parts and archive, workspace, output directory | download, assemble, unpack, patch, overlay, build | `SourceSnapshot` |
| Builder, release (`package.py`, `compose.py`, `verify.py`, `metadata.py`) | packages, AAR, XCFramework with sidecar, evidence | package, compose, smoke, probe, both manifests | `ReleaseGate` |

How they interact.  The embedding application calls the controller on one
thread.  `ApplyLivePatch` calls the backend's setters one after the other, and
each setter calls WebRTC objects whose own threads see the new values at once.
The encoder runtime adapter and the video source adapter are called through
interfaces; the source behind the latter is held weakly and may disappear at any
time.  Controller and encoder evidence share one telemetry sink through a
`shared_ptr`, and call it from several threads, media threads among them.  The
recovery state machine is called by the application, which carries out its
instructions.  In WebRTC, a source calls the video adapter on its own thread; the
adapted frame goes to the cadence adapter, which posts it to the encoder queue and
decides when the video stream encoder gets it, and gets it again.  The encoder calls
back into the cadence adapter from there, sets its mode, and is itself configured
from the worker thread and given rates from the network.  Each of these meets the
others through posted tasks; the adapter alone has a mutex.  The stats collector
posts itself around three threads and shares nothing but what it carries.  The
builder runs as commands that meet only in files: a cache of
downloads, which a pool of threads fills, a workspace that commands of several
revisions share, and packages that workflows carry from one run to the next.

What is hard to test: a setter that fails after others took effect, and a
rollback that fails as well; values of zero, which mean "unset" in one place and
are legal in another; objects attached again after patches; condition variables,
a thread started inside a constructor, and disks that fail or stall;
evaluations with stale clock readings racing decoded frames; acknowledgements of
an older QP request arriving late; partial downloads that an earlier run left, a
build killed between any two steps, the remains of another revision; a release
whose files come from runs of different commits, some of which stopped half way;
delayed tasks that outlive the mode or the frame they were posted for; frames
prepared out of order, kept through a pause or dropped, whose update rectangles and
key-frame requests must survive them; and a stats collection that negotiation
overtakes on its way through the threads.
`PROJECT.json` lists these hazards with their
lines and the property that answers each of them.

## Modules

`CastTuningConfig` has the pure part.  A configuration is a record with a partial
function from member names to values; an absent `std::optional` is a name outside
its domain.  `Validate`, `ForProfile`, `RequiredScope`, `MergeConfig` and the
field trials are operators.  Enumerations are their ordinals; the two
real-valued factors are tenths.

`WebRtcCastTuningBackend` extends it with the backend's `state_` and, as
variables of their own, what each attached object *really holds*: the bounds and
number of seeded estimates of the PeerConnection, the encoding parameters of the
sender, the content hint, the output format, the receiver's delay, the QP cap
requested of the encoder.  Each setter is an operator whose second argument is
the `bool` the C++ function returns, with one disjunct per way it can return.

`CastTuningController` extends that with the controller.  One step is one call of
the backend: `step` is the program counter of `ApplyLivePatch` and `txn` its
locals.  `Reject` is a patch refused before any setter, `BeginLivePatch` the
capture of the old state, `SetBitrate` to `SetReceiver` the four setters, the
last one with the commit, `UndoEncoder` to `UndoBitrate` the rollback.  `Attach`
happens between patches, `DropSource` at any time.  The configuration stands for
its fingerprint.  `DropSource` is the one concurrent event the controller meets:
the adapter of `RTCCastTuning.mm` holds the source weakly.

`AtomicLivePatch` is the abstract specification: a patch that the configuration
accepts takes effect as a whole with one new revision, or nothing happens, or the
session is degraded.  `CastTuningController` implements it under the mapping of
the instance `Atomic` (while a patch is under way, the live settings reported are
the captured ones).

`CastTelemetryWriter` has one step per critical section and one per statement
outside of one; `mutex_` is a variable with its owner, waiting on a condition
variable is a program counter from which only a notification or a spurious
wake-up leads back to contending for the mutex.  The members declared after
`writer_thread_` start with arbitrary values and are initialised by steps of the
owner, in the order of their declaration.  `OrderedLog` is its abstract
specification: an append-only log in order of acceptance, with failures counted.

`CastRecoveryStateMachine` has the three operations, a clock in ticks, and the
application's loop: one evaluation per tick at least, with a clock reading that
may be one tick old, and frames at any time.

`CastTuningJson` parses documents.  A JSON value is a record of its kind and its
value; the tables of members say what each group may contain and of which type.
`Load` is `ParseJsonWithOverrides`: profile override, overrides document, parser,
profile defaults, validation.  `Patch` is a live patch that succeeds, so that the
whole chain of precedence is one behaviour.  `MergeObject` of the code is recursive;
the module merges level by level instead (`MergeRoot`, `MergeGroup`, `MergeTrials`), as
deep as the objects of a root that parses go: its groups, their members and the raw
trials.  A trial that is an object is refused, whatever it was merged into
(`MergeStopsAtTrials`), and so is any other member that is one.  The recursive merge is
in `MCCastTuningJson`, where an assumption that TLC evaluates, `MergesAllTheWay`,
compares the two on all inputs of the run.

`RuntimeMaxQp` has the runtime state of the QP cap (one step per critical section
of its lock), the encode path of the H264 hooks (one step between two reads of the
runtime state), and VideoToolbox as an external session that holds the property
and obeys the one set before its first frame, as the design document measured it.
Creating a session may fail, setting the cap may be unsupported, fail, or succeed
and fail to be read back; a session may turn out to be invalid or of another pixel
format; callbacks of a replaced session may still arrive.  A session that was told a
cap holds it or any other number (`Held`), and what it holds is what it answers when
the property is read back, the one thing assumed of it here.  The hooks report that
number as effective and compare it with nothing (`cast_tuning_hooks.patch:978-986`),
so no property says that the effective cap is the requested one.  The HEVC hooks have the
same two functions and the same runtime state.

`SourceSnapshot` has the files of cache and workspace (a `.partial` file is its
length and whether its bytes are right so far) and a run of the builder: one step
per transfer of a part, per result the main thread takes, per file of assembly,
cleanup and overlay.  A transfer receives any number of bytes, right or wrong, in
answer to a range request or to a full one, and ends with or without an exception.
`Crash` ends the run anywhere and leaves the files; the next run may be of another
revision.  The manifest is asset 0.

`ReleaseGate` has the files that packaging and composition write, each replaced by
a later one of its name.  A build is a commit and a number, because two builds of one
commit need not be the same bytes; what a commit pins (source, snapshots,
configuration), its patches and its headers are functions of it.  A composition has
four steps, between which it may stop, and a validation is one step: release jobs
work on copies that they downloaded, which nothing replaces meanwhile.

`VideoAdapter` has one action for each method, as every method holds the mutex.
A frame's size is a pair of numbers, and all of the arithmetic is the code's: the
scale factors by turns of 3/4 and 2/3, cropping to the requested aspect, rounding to
the alignment.  `requested` is the application's last format request, which the
code does not keep.

`FrameCadenceAdapter` has one action for each task of the encoder queue and each call
from outside.  A delayed task is the number of ticks it still waits, a frame the ticks
since it was captured; `Longest` says whose turn it is (the queue runs its tasks in
the order in which they become ready).  A call of the encoder is two steps,
`SendFrameNow` and `SendFrameReturns`, with up to `MaxEncode` ticks in between
during which the queue stands still and the encoder may call back.  `encoded`,
`sent_age` and `key_wait` are what the encoder was given; `waived` notes up to which
frame a new one was asked for or the mode was replaced with what it held.

`RTCStatsCollector` has the queues of the signaling, worker and network threads as
sequences of tasks, one action for each task, and one for each call of the
application.  A report is a set of objects with the ids they refer to; an id is a
kind with what it is about, and the functions that produce the objects
(`ProduceMediaSourceStats_s` to `ProduceRTPStreamStats_s`) keep the conditions under
which one object names another.

`EncoderLimits` has the functions of `video_stream_encoder.cc` without state: streams
from layers, the clamping of limits by application, encoder and defaults,
`RequiresEncoderReset`, what the sink is told of an allocation.
`VideoStreamEncoder` extends it.  Its state is one record `vse` with the names of the
members, and the helper methods are operators from a state to a state, composed as the
code calls them; an action is one task of the encoder queue.  An update rectangle is a
set of areas, frame `n` changes area `n`, and `unseen` has the changed areas that the
encoder's picture does not show.  The environment answers each task with an outcome: the
factory makes an encoder or none, `InitEncode` succeeds or fails, the crop and
`Encode` too.

The `MC*` modules give the constants small values for TLC.

## Runs

| Run | Bounds | What it shows |
| --- | --- | --- |
| `controller` | 2 configurations, 6 patches, 2 revisions | `TypeOK`, `ConfigMatchesBackend`, `SettingsInForce`, `BitrateBoundsOrdered` and the refinement `AppliesAtomically`, with every setter and every undo free to fail, any order of attaching, attaching again and releasing the source |
| `telemetry` | 2 clients, 3 events | `LogsInOrder` (the refinement of `OrderedLog`), `NothingLeftBehind` (a flush waits for the last event, a destructor drains), `CallsReturn` and `EventsAreHandled` when the writer thread starts late |
| `telemetry_early` | 2 clients, 2 events | refutes `EventsAreHandled`, the constructor race: the writer thread reads `stopping_` before it is initialised and ends |
| `recovery` | 3 configurations, 600 ms in 50 ms ticks | `EscalatesInOrder` (with the rate limit) and `EscalatesInTime` |
| `json` | 17 documents, 4 profile overrides, 11 overrides, 5 patches, 2 of them applied; objects down to the members of a trial | `PrecedenceHolds` through all five layers, unknown members refused, and `PatchesKeepTrials`; before it starts, `MergesAllTheWay`: the merge level by level loads what the recursive one loads |
| `maxqp` | 1 encoder, 3 generations, 2 caps and 1 other number a session may hold, 2 frames in flight, 2 sessions beside those opened for a cap | `AppliedMeansSet`, `NoFrameBeforeItsCap` and `RequestsAnswered` under every failure and interleaving |
| `snapshot` | 3 parts of 2 units, 2 threads, 3 attempts, 2 revisions | `VerifiedBeforeUse`, `OneFaultIsMended`, `VerifiedPartsSurvive`, `BuildsCurrentRevision` and `RunEnds` from every state of the cache, with every fault of a transfer and a crash anywhere |
| `release` | 3 commits, two of which pin one source; 4 targets with 2 or 3 builds each; one release of each platform | `FrameworkOfItsPackages`, `ReleaseOfOneSource` and `EvidenceOfTheRelease` over every mixture of builds, compositions that stopped, and evidence |
| `cadence` | 4 ticks a second, 2 rates and 1 restricted one, calls of the encoder of up to 2 ticks, 2 frames, 1 change of configuration, 2 other calls | `TasksMatchQueue`, `NeverSilent`, `OverloadCovered`, `KeyFrameAnswered` and `NewestEncoded` over every order of frames, timers, late returns and changes of mode, from both modes |
| `adapter` | 7 sizes, a source aligned to 2, sinks to 1 or 3, 3 pixel limits, 2 aspects, 2 resolutions to fit into | `FormatRequestKept` over every order of calls, `DeliveredFrameIsRight` for every frame under every setting |
| `stats` | 2 transceivers, 2 transports, 2 requests, 1 change, 1 tick | `RequestsAccounted`, `ReferencesResolve`, `AnswersAreFresh` and `RequestsAnswered`, with negotiation, a cleared cache or the shutdown between any two steps of a collection |
| `vse` | 6 inputs in all: up to 3 frames of 3 kinds, 2 of 5 configurations of 4 formats (one asks for more than the factory gives), 3 targets, 1 request or restriction, 1 unusual outcome, 1 second; 1 frame more in preparation | `FramesGivenRight`, `KeyFramesKept`, `RatesInForce`, `LimitsOrdered` and `ResumeShows` in every order of the inputs, with a failing factory, encoder or crop, and the stop |

Why the bounds suffice.  A patch of the controller depends on the state left by
earlier ones only through the configuration, the backend's state and the
objects; two revisions let a patch follow one that was applied and any number of
rejected or rolled back ones (these are not counted).  The patches of the run
reach every setter and every undo, raise and lower a bitrate bound, cross the other bound, raise
both bounds, are negative, set a value to zero, and ask for a session scope.  Three events are enough for one
in the file, one in the writer's hands and one in the queue while two clients
compete.  The documents of `json` are each wrong or right in one respect, and are
crossed with every override, so that an override can mend and spoil any of them.
Three generations let a report be older than a request that is older than the
current one; two frames in flight let callbacks overtake one another and
outlive their session; the frame counters saturate at 1, no property counts them.
600 ms exceed the time of a full escalation in each configuration.
Three parts for two threads make one wait when another fails; two units let a
transfer end half way; three attempts leave one after a wrong file was completed
and deleted; two revisions whose overlays differ in one file show what is left
behind.  With three commits a package may differ from the other in its commit alone
(`docs`) or in what it pins (`old`), and two Android builds of one commit differ in
bytes only.  A release changes no file, so a second one of a platform meets no new
state.
In `cadence` a source of 2 or 5/2 frames per second, and a restriction to 2, give
delays of 2, 1 and 2 ticks, so that a restriction and a call of the encoder may be
longer than the delay; 5/2 is no whole number, as a source may announce, and the
comparison of rates confuses it with 2; with `MaxAge` of 6 ticks every delay
and the longest call together are still told apart; and one of the two frames may be
in the encoder's hands while the other waits.  The sides of the frames of `adapter`
reach every start of the search for a scale, fall below the alignment, and are so
unequal that a side rounds or is cropped to nothing; `DepthSuffices` says that its depth
of 12 is more than the search needs for any crop, and TLC evaluates it.  In `stats` the one
change falls between any two steps of either collection; a report may be reused only
in the tick in which it was started, so one tick makes it stale.  Three frames are
enough for one in the encoder, one kept through a pause and one in preparation; two
configurations replace one codec by any other, with or without a reset; six inputs let
a pause, its end, a frame on each side, and a configuration be in one behaviour.
A third target lets a rate be known when the pause begins, which a drop for size needs;
each of the four exceptions that `ResumeShows` makes is met in the run, and leaving out
any one of them lets TLC refute it.
Two sessions beside those for a cap let one be replaced for another reason before and
after a request.  Three attempts of `snapshot` are one less than the code has; its
theorems are for any number.
`CHECK_DEADLOCK` is off where the system may stop: all sessions and requests are over.

What the documentation says and the code does not.  Four statements are in the modules
as properties that TLC refutes; a configuration that names one of them (an INVARIANT,
or a PROPERTY where the formula has a prime) shows the behaviour.

- `RejectedPatchRestores` (`CastTuningController`), "rolls back the old values"
  (`README.md:94-96`): `ApplySender` calls `SetParameters`
  (`webrtc_cast_tuning_backend.cc:196`), then `AdaptOutput` fails because the source is
  gone (`:201`); the controller undoes the bitrate alone, and the sender keeps the
  values of a rejected patch.
- `StartSeedsOnce` (`CastTuningController`), the comment at
  `webrtc_cast_tuning_backend.cc:158`: the rollback (`cast_tuning_controller.cc:232`)
  applies the captured state, the start bitrate in it, and seeds the estimate again.
- `LoadedValuesAreValid` (`CastTuningJson`), `cast_tuning_json_contract_test.cc:50`:
  `enabled = root.size() > 2` (`cast_tuning_json.cc:436`), so that a document of
  `schema_version` and `encoder` counts as disabled, `Validate` skips its values, and
  the backend applies them.  `MCUnvalidatedDocuments` has that document.
- `SampleUnderEffectiveCap` (`RuntimeMaxQp`), the design document of the runtime QP
  (`2026-07-16-runtime-max-qp-design.md:114-117`): `encode:` reads the requested cap
  twice (`cast_tuning_hooks.patch:905` and `:932`), and a request in between is set in
  a session that has already encoded and reported as applied.

Further observations have no property of their own.  A configuration that sets one of the
two recovery thresholds violates `EscalatesInOrder`: `Validate` compares them only
when both are set (`cast_tuning_config.cc:232`), and the state machine fills in its
own default for the other (`cast_tuning_recovery.cc:11-14`), so
`decoder_recreate_after_failed_pli = 4` alone is accepted and resets the sender
first.  And the slice of a released XCFramework need not be the build that was
probed, only of its commit: the evidence names the package, and the gate compares
commits (`compose.py:274`, `compose.py:384`).
`BitrateBoundsOrdered` holds only until a rollback fails: from then on the effective
configuration and the backend's state differ, a patch is validated against the one and
merged into the other (`cast_tuning_controller.cc:290-297`), and a maximum that is
above the configured minimum may be below the minimum that is in force.
`recreate_required` is set by then, but patches are still accepted.

Of the upstream code the models show, or have to except from a property:

- `video_stream_encoder.cc`: a frame still in preparation after `Stop` may call the
  released encoder (1957, 1100), although 2059-2061 expects such frames.  A pending frame
  that is older than a second loses its update rectangle (2542-2544), and so does a frame
  that finds no encoder in use (2055); a failed crop or `Encode` loses those gathered so
  far (2153, 2215), and a dropped frame's is given away with an older frame that was
  still waiting.  In the same ways a frame that a pause stopped is lost at the resume,
  with nothing encoded, kept or asked for; and a native frame that is dropped for its
  size in a pause (1990-1996) discards the frame that waited and is not noted as dropped,
  as one that the pause itself stops is (2003-2010), so that the resume shows nothing
  if no other was noted in that pause (2537-2551).  `ResumeShows` excepts these four
  cases (`lapsed`) and no others.  `SendKeyFrame` with a list overwrites a key
  frame already requested with "delta" (2254).  When the factory makes no encoder, the
  callbacks of the configuration wait for ever (1080-1084); when `InitEncode` fails,
  they are told of success.  Flooring the target to whole frames of the congestion
  window's pushback may bring it below the minimum (2460-2469).  When the application
  sets no maximum and the encoder's minimum for the resolution is above the factory's
  maximum, the stream takes that minimum and keeps the factory's target (1237-1242),
  below its minimum: `LimitsOrdered` allows for it (`TargetTooLow`), and the AV1 of the
  run reaches it.
- `frame_cadence_adapter.cc`: a change of the number of layers with a fractional
  `max_fps` counts as a change of rate (1014-1016) and drops the queued frames (1028),
  because the running rate is truncated to a whole number first (536); for the same
  reason a change from 2.5 to 2 frames per second goes unnoticed, and the frames keep
  the shorter delay: `AdapterMatchesConfig` allows for both.
  Repeats under a restricted rate get late timestamps.  The passthrough's overload test
  counts the frame itself (946), which its comparison allows for.
  Leaving the zero-hertz mode drops the frames still queued (1028) and asks for no other,
  so that `NewestEncoded` speaks of the frames captured since.
- `video_adapter.cc`: `GetMaxFramerate` does not do what its comment says (435-437); an
  override stays in force when a sink stops naming a resolution while another one has
  no resolution requested (409); a side narrower than the alignment becomes 0,
  and so does one that an aspect ratio crops to nothing (227-231), or that
  `scale_resolution_down_to` rounds to nothing because the frame is oblong (265-273).
- `rtc_stats_collector.cc`: clearing the cache overtakes a collection in flight, which
  fills it with the certificates of transports that are gone (2246-2275); a callback
  may clear the cache within the loop that delivers the report (1542), which the model
  leaves out: the application calls between two tasks (`Idle`).

Fairness.  `CastTelemetryWriter`, `RuntimeMaxQp`, `SourceSnapshot`,
`FrameCadenceAdapter` and `RTCStatsCollector` have liveness properties.  The threads of the first are
weakly fair for what they can do without the mutex or while they hold it (the
scheduler runs every thread), and strongly fair for taking the mutex, which is
contended: `std::mutex` promises no fairness, but each critical section is finite
and the number of calls is bounded, so no thread can be overtaken for ever.
No call is fair (the application need not call anything), nothing gives up its
reference by necessity, and the disk may stall for ever; the properties that need
the disk say so.  In `RuntimeMaxQp` an encoder with a session is weakly fair: the
capturer keeps delivering frames, at one per second even for static content, and
the encoder queue runs; VideoToolbox gives back each frame it holds (reported or
not).  Requests, starts and releases are not fair, and no call of VideoToolbox
has to succeed.  In `SourceSnapshot` a run is weakly fair: the process runs until it
is killed, and every transfer ends, because a read that yields nothing for 60 s
raises and an asset is finite.  No run has to start, and crashes are not fair.  In
`FrameCadenceAdapter` the encoder queue, the worker queue and the clock are weakly fair:
a task queue runs what is ready, and the encoder's calls return; no source has to
deliver and no setting has to come.  In `RTCStatsCollector` each thread is weakly fair
in running its tasks; no request has to be made.

## Proofs

`CastTuningControllerProofs` proves for every set of initial configurations, every
set of live patches and every bound:

- `TypeCorrect`: `Spec => []TypeOK`.  It rests on `AcceptedTyped`: patches carry
  any integer, and validation keeps the negative ones from the backend.
- `BackendFollowsConfig`: `Spec => []ConfigMatchesBackend`.
- `ControllerAppliesAtomically`: `Spec => AppliesAtomically`, the refinement.
- `BoundsStayOrdered`: `Spec => []BitrateBoundsOrdered`.
- `ObjectsHoldSettings`: `Spec => []SettingsInForce`.

`ConfigMatchesBackend` alone is not inductive: it speaks of the states between two
patches, and what a commit or a rollback leaves depends on every setter before it.
The inductive invariant `IInv` adds `Locals` (the candidate is the merge of the
current configuration with an accepted patch, `txn.new` is the merge of the captured
state), `OldMatchesConfig` (the captured state agrees with the configuration) and
`Progress` (before each call, which fields of `state_` are the new ones and which
the old; during the rollback only as long as no undo has failed).  For each setter
a lemma states what its call changes (`Apply*Effect`), and for each action a lemma
shows that the invariant is kept.  The assumptions are those of
`CastTuningController`: patches name members of `CastTuningLivePatch` with integer
values, the initial configuration has no negative live value, and its bitrate bounds
are in order (`ConfigsOrdered`, which the loader checks of an enabled configuration;
the document of `LoadedValuesAreValid` above is not checked).

`BitrateBoundsOrdered` needs that the effective configuration is in order too
(`ConfigOrdered`), and `IInv`, which says that the captured state and the merged one
are of configurations that were accepted.  `SettingsInForce` speaks of the state
between two patches, and of the values that are set, since `ApplySender` passes over 0
and unspecified ones; `HeldInv` says which values the sender has before each call
(`SenderProgress`), and that PeerConnection, receiver and encoder hold what `state_`
says also between two calls (`Held`).  The sender's network priority is kept because
no patch names it (`PriorityKept`).

`BuilderProofs` proves of `SourceSnapshot`, for any number of parts, threads, attempts
and revisions, any length of the assets and any files the revisions add:

- `SpecOneFaultIsMended`: a download that gave up has met at least
  (`Attempts` - 1) / 2 faults.  The inductive invariant `FaultInv` is a budget: an
  asset has used at most two attempts for each fault and one for what the cache
  held, and when it has used all of them, the last has left a complete file with wrong
  bytes, which the next attempt deletes instead of resuming it.  `PoolClosed` says that
  no thread writes to a part while the parts are assembled or deleted.
- `SpecVerifiedPartsSurvive`, an action property: a part that was downloaded and
  verified stays valid, through failures of other parts and crashes, until the archive
  is in the cache.  A transfer writes only to a part that is not valid, and `VerifiedInv`
  says that the archive is good by the time the parts are deleted.
- `SpecBuildsCurrentRevision`: what is built is the snapshot with the patches and the
  overlay of the running revision, and nothing else unless a deletion failed.
  `WorkspaceInv` says from the extraction on what may be in the workspace
  (`NothingForeign`) and which of the revision's files are there (`FilesInPlace`).
- `SpecVerifiedBeforeUse`: only a snapshot with the pinned digests is unpacked,
  patched and built.  The property alone is not inductive, because an archive is
  published by its assembly long before it is unpacked, and runs of other
  revisions come in between; `VerifiedInv` adds that the manifest is the pinned one
  after its step, and that the archive is from the cleanup on and whenever there is
  a source tree.

and of `ReleaseGate` (whose specification is `GateSpec`, so that one module can extend
it with the others), for all commits, targets and builds and any number of releases:

- `SpecFrameworkOfItsPackages`: a released XCFramework has slices of the commit of
  the packages beside it.
- `SpecReleaseOfOneSource`: all parts of a release were built for one pinned source
  and configuration.
- `SpecEvidenceOfTheRelease`: a preview's AAR is the one that was smoke-tested, and
  its arm64 slice is of the commit of the package that was probed.

The gate reads metadata and never the binary.  `GateInv` says why that suffices:
the metadata inside of an archive describes the slices beside it (`ArchiveInv`),
and a composition reads two packages of one commit (`ComposerInv`), without which
the metadata, which names the commit of the first slice only, would say nothing of
the second.

`VideoAdapterProofs` proves for all sizes, limits and alignments:

- `SpecFormatRequestKept`: the application's last request is in force, or stashed
  while a resolution to fit into replaces it.
- `SpecDeliveredFrameIsRight`: a delivered frame is aligned, within the limit but for
  one step of the alignment, fits the resolution, loses a side only in the known ways,
  and has the nearest scale of all that the alternation of 2/3 and 3/4 leads to.

The first property is not inductive, because a request equal to the empty optional
would be taken for an empty stash; the strengthening `Requested` says that no request
is, and that the stash is empty exactly while the request is in force.  The second
needs the types of the settings only (`FrameInv`), since a frame is computed anew each
time; its proof is about the operators.  The loop of `FindScale` is a recursive
function, so what it computes is proved by induction: the library's induction theorems
take a predicate, which the provers here cannot instantiate, but `Induction` takes a
set, and follows from `LeastNumber`, which follows from the well-founded order of
finite sets.  Two steps of the loop halve the scale, which gives the scales a closed
form (those of `Ladder`); the number of pixels falls from one to the next, so those
behind the last one the loop meets are further from the target.  The proof rests on
`DepthSuffices`: the loop ends within the bound of the model.

`CastLibraryProofs` proves `SpecEscalatesInOrder` and `SpecEscalatesInTime` for every
length of a tick and every bound on the clock, and every set of configurations that
are `Consistent`:
enabled, with whole numbers as values, and with thresholds in order once the defaults
are filled in.  Validated configurations are consistent but for two kinds, which really
violate the property: disabled ones, whose values `Validate` does not read, and those
that set one threshold on the wrong side of the other's default (above).  The
inductive invariant is `Built` (the constructor's members are positive and in order),
`Summary` (count and last time are those of the instructions given in this stall) and
`Escalation` (each instruction is the one of its number, and any two are an interval
apart).  For the escalation in time `InTime` adds an upper bound: the instruction after
`n` others is due at a time that is a whole tick (`Due`), the last one was not later
than due, and up to the last evaluation the next one was not due yet; an evaluation with
an older clock reading can then neither miss an instruction nor push the next one back.

Of `CastTelemetryWriter` (whose specification is `SinkSpec`, so that one module can extend
it with the others) it proves, for any clients and number of events:

- `SinkLogsInOrder`: `SinkSpec => LogsInOrder`, the refinement of `OrderedLog`.
- `SinkLeavesNothing`, an action property: when a `Flush` or the destructor returns, every
  event accepted before is in the file or counted.  It assumes that the thread first runs
  after the constructor has returned (`~EarlyThread`).  A thread that runs earlier may
  read a `stopping_` that is not yet initialised and end, so that the destructor leaves
  events in the queue; the refinement holds even then.

The inductive invariant `SinkInv` says where the accepted events are (`InLine`): in the
file or counted, in the hands of `Run`, or in the queue, each behind those accepted
before it, and none is counted as long as the output is good.  `Ending` says that the
thread ends only when the destructor has told it to and the queue is empty, which it
stays because the destructor runs when no client is left.  `Building` says that nothing
is accepted before the members are initialised.

Of `CastTuningJson` (its specification is `JsonSpec`) it proves, for any documents,
profile overrides, overrides documents, live patches and number of them:

- `SpecPrecedenceHolds`: `JsonSpec => []PrecedenceHolds`.
- `SpecPatchesKeepTrials`: `JsonSpec => PatchesKeepTrials`, an action property.
- `MergeStopsAtTrials`, a fact about the operators: whatever becomes of a raw trial that
  is an object in both documents, the result is refused as `MergeTrials` is, or is what
  `MergeTrials` makes of them.

The one assumption is `PatchesHaveThePatchFields`: a patch sets members that
`CastTuningLivePatch` has.  Nothing is assumed of the texts.  `RootMembers`, `GroupLevel`
and `MemberMerged` describe the merged root level by level: a member is that of the
overrides, else that of the document, and only raw trials are merged further, because no
other member may be an object (`ObjectsConformAsTrials`).  What a group does not know is in
the root whichever document names it (`NothingUnknown`), since the other document can
replace only a value.  `SettingsValues` finds the member in the configuration, which takes
that no two groups share one (`GroupsDisjoint`), and profiles set no raw trials.  The
inductive invariant `JsonInv` adds to the precedence that an enabled configuration is
valid (`ValidWhenEnabled`) and that of the patches that name a field there is a last one
(`PatchesInOrder`), so that a new patch becomes the strongest layer of exactly the members
it names.  A patch accepted as live names live members alone (`LivePatchFields`), no trial
reads one of these but the QP cap (`SameValues`), and both configurations stay valid
without their cap (`ValidWithoutQp`), which is when `FieldTrials` is not silent.

`VideoStreamEncoderProofs` proves for all configurations, frames, rates, encoders and
bounds:

- `SpecKeyFramesKept`: a requested key frame stays in `next_frame_types_` until a frame
  is encoded as one.
- `SpecRatesInForce`: an encoder runs at what its codec is allocated of the newest target.
- `SpecResumeShows`: after a pause the last frame it stopped was encoded, waits, or
  another was asked for, or a newer one came, but for the four known losses.
- `SpecFramesGivenRight`: frames come in order, fit the codec, and their update
  rectangles cover what changed since the last one seen, also across new encoders, but
  for the known losses.
- `SpecLimitsOrdered`: minimum, target and maximum of every stream are in order but for
  the known exception, and so are the codec's start and maximum rates.

For the requests, most methods leave the members that matter alone (`Same`);
`InitEncode`, `Encode` and `SendKeyFrame` change them (`Answering`).  The invariant
`Kept` adds that a configuration is there whenever a frame is prepared: without it
the codec's streams need not be numbered from one, and a request could name none of
them.  `RateInv` says that the encoder, its codec and the allocator are of one
configuration, and that the settings kept are this allocator's and were told to encoder
and sink together.  `PauseInv` says that a frame stopped by a pause waits, was noted or
is lost in one of the known ways, also while the pause lasts; what is owed is settled only
by a frame that was encoded, or by a newer one.  The invariant of the frames is `PictureInv`:
each changed area that the encoder has not seen is lost in one of the known ways, in the
accumulated rectangle, or changed by a frame that waits or is in preparation (`Covered`);
those frames are lined up in order behind the one encoded last (`Lined`); and the codec
fits the last frame, cropped by the difference (`Fitted`).  Within a task the frame in
hand is one more place where a change may be (`Underway`).  For the limits it is shown
that each of the four ways to bound a stream leaves it in order (`InOrder`), and that
only the making of a codec changes the limits (`LimitInv`).  The codec's maximum is a
sum over its streams; that no stream exceeds it (`TotalExceedsEach`) is an induction
over the number of members of a finite set, with `Induction` as above.
They assume that a configuration has a layer (`EncoderInputs`), which
`EncoderStreamFactory` requires, that no encoder has the empty format, which stands for
none, and that sizes, limits, rates and targets are natural numbers.

`FrameCadenceAdapterProofs` proves for all rates of which a frame lasts a tick at least,
all lengths of the encoder's calls and all bounds:

- `SpecTasksMatchQueue`: through all changes of mode every queued frame has its task,
  and no frame is repeated by two chains.
- `SpecNeverSilent`: a zero-hertz stream always has a frame, a repeat or a request of
  one ahead of it.
- `SpecOverloadCovered`: every frame flagged as overload is followed by another one.
- `SpecKeyFrameAnswered`: after a key-frame request, while frames are repeated, a frame
  is sent within a frame duration that may have been in force, and the delay of a frame
  that takes the repeat's place; the encoder may still drop it for overload.

The first three share the invariant `IInv`, because each needs the others: an overload
cancels the repeat and leaves the stream to a frame that is already posted, so
`NeverSilent` needs the count of posted frames, which is `OverloadCovered`'s; and the
task that sends finds its frame by `QueueAccounted`.  `RepeatsCurrent` adds that no
waiting repeat has a newer id than the current one, or a frame that arrives could
revive a chain it has cancelled; `ModeOfCalls` that only the zero-hertz mode flags
frames and that its call never outlives it.  The fourth is kept by `WaitInv` on top of
`IInv`: the time waited and what is left to the repeat, or to the queued frame that
answers in its place, stay together within a limit (`KeyDue`).  When the request comes,
that limit follows from how long queued frames and repeats may take (`CadenceShort`,
`RepeatsShort`, through changes of the restriction and of the layers' quality), and
from the chain of repeats, which does not break (`Chained`).

`RuntimeMaxQpProofs` proves for any number of encoders, sessions, requests and frames
and any caps:

- `SpecAppliedMeansSet`: while the session that is named as the applied one lives, it
  was told the cap of the newest request, and holds the number shown as effective.
- `SpecNoFrameBeforeItsCap`: no frame is submitted before its session was asked for the
  cap of its generation, and told it if the answer was "applied".

They assume nothing of the number a session holds once it was told a cap but that it is
an integer (`CapsTyped`), and that it is the number read back.

The first alone says nothing of an answer that is still on its way.  The invariant
`IInv` adds what an encoder's last answer may be about (`Answers`: this session or an
older one, this generation or an older one, and if this one, then in answer to the
requested cap),
and what it must be about once `encode:` is past its two reads of the request
(`ToldItsCap`).  `AppliedBefore` says that a session reported as applied is not one
still to come.

`RTCStatsCollectorProofs` proves for any transceivers, transports and data channels, any
lifetime of the cache, and any number of requests and of changes meanwhile:

- `SpecRequestsAccounted`: each request waits for the running collection, or for one
  delivery, or was answered, and none twice.
- `SpecReferencesResolve`: an answer refers to nothing that is not in it but for
  transports and media sources that went while it was collected, and to nothing at all
  outside if nothing changed meanwhile.
- `SpecAnswersAreFresh`: an answer is of a collection finished after the request, which
  may have joined it, or not older than the lifetime of the cache when it was asked for.

One invariant, `IInv`, serves all three.  Accounting is a count of the tasks of a kind in
the queues of three threads: a collection is in one of them or none, and its context
says which part is missing (`RequestsAccounted`).  What a task carries is what was there
as long as nothing changed (`CarriesCurrent`), and the part of the report made on the
signaling thread has the sources and the playout that the network thread's part will
name (`PartialSupplies`).  The certificates found are those of the transports asked
for or none, because a clearing of the cache is posted before the collection after it
(`CertificatesCurrent`); only a negotiation in the middle of a collection (`raced`)
breaks this.  From these, each object is well-formed (`WellFormed`: what an object of
its kind may refer to, and what it must) and a report resolves what it refers to
(`ReportsGood`).  For an answer about one sender or receiver, `ReachableResolves` shows
that `TakeReferencedStats` misses nothing the whole report has: from an RTP stream,
well-formed references end within four generations, the depth of the model's closure.

Only model-checked:

- liveness (`RequestsAnswered` of `RuntimeMaxQp` and of `RTCStatsCollector`,
  `NewestEncoded`, `RunEnds`, `CallsReturn`, `EventsAreHandled`):
  fairness is out of the prover's reach.
- the assumption `MergesAllTheWay` of `MCCastTuningJson`: the merge it compares with is a RECURSIVE operator.  What makes it
  true is proved without it (`MergeStopsAtTrials`), for every value of two raw trials.

## What is not modelled, and why

- The text of field trials, fingerprints and JSON events: formatting.
- `ForceKeyFrame`, the observer, the log: they change no state of this code.
- The platform shims beyond the weak source and the QP cap (properties, evidence,
  JNI handles).
- Of the builder: commands and environment, the field checks of manifests and
  metadata, the checks of archive members, symbols and class files, the order of
  patches, a loss of power (a file that was closed is there), release tags and
  drafts.
- Texts of JSON documents, error messages, and repeated members of one object.
- Session properties other than the cap, and the profile evidence.
- Of the video stream encoder: encoded images, loss notifications, the resource
  manager behind the adaptation, statistics and the frame rate, and `SetStartBitrate`
  (930-940), which sets the rate a frame's size and the resolution's default limits are
  compared with until a target comes, and sends nothing to the encoder.  Of the cadence
  adapter: the estimate of the input frame rate.  Of the stats collector: the
  measurements in the objects.
- `webrtc_video_engine.cc` (negotiation of codecs and the making of streams; what the
  controller calls of it is modelled by its effect in `WebRtcCastTuningBackend`), the
  other vendored code, the iOS codec patch, workflows, probes.

## Plan

1. `RuntimeMaxQp` with two encoders of one factory, which share the runtime state
   and take the telemetry session from each other.
2. The send stream of `webrtc_video_engine.cc` (recreation of streams, parameters set
   before and after it), composed with `WebRtcCastTuningBackend`.
3. The Android shim's decoder retry, if its states turn out to hold more than one
   interleaving.
4. The scoped preview's commits: the design document
   (`2026-07-12-m150-webrtc-builds-design.md:92-97`) forbids a preview to mix commits, the runbook allows it, and the code
   (`compose.py:332`) follows the runbook.
