---------------------------- MODULE VideoStreamEncoder ----------------------------
(***************************************************************************)
(* video/video_stream_encoder.cc: between a source of frames and a codec.  *)
(* Its state lives on the encoder queue, which runs one task at a time:    *)
(* frames, frames that were prepared on another thread, configurations     *)
(* from the worker, bitrates and key-frame requests from the network and   *)
(* restrictions from the adaptation, posted in any order.  An action is a  *)
(* task; only the sending of prepared frames is a loop of several.         *)
(*                                                                         *)
(* The state is one record with the names of the members, and a helper     *)
(* method is an operator from a state to a state.  A picture is divided    *)
(* into areas, and the frame with number n changes the area n: an update   *)
(* rectangle is a set of areas.  Left out are the frame rate, statistics,  *)
(* the resource manager behind the adaptation, the payload length, and     *)
(* SetStartBitrate.                                                        *)
(***************************************************************************)
EXTENDS EncoderLimits

CONSTANTS
    Configs,        \* configurations the application may set
    Frames,         \* the source's: size, whether native and with an update rectangle
    Targets, Ratios, Restrictions, KeyLists,
    kMaxFramesInPreparation,
    Bound,          \* bounds: how many inputs of each kind there may be,
    MaxInputs       \* and of all kinds

ASSUME EncoderInputs ==
    /\ \A c \in Configs : /\ c.format \in DOMAIN Info /\ c.max \in Nat
                          /\ Len(c.layers) \in Nat \ {0}
                          /\ \A i \in 1..Len(c.layers) :
                                {c.layers[i].min, c.layers[i].max} \subseteq Nat
    /\ Targets \cup Ratios \subseteq Nat
    /\ "" \notin DOMAIN Info      \* encoder_ is "" when there is no encoder
    /\ \A f \in Frames : /\ {f.native, f.known} \subseteq BOOLEAN
                         /\ f.size \in Nat \X Nat
    /\ {kMaxFramesInPreparation, MaxInputs} \subseteq Nat
    /\ Bound \in [{"frames", "configs", "bitrates", "requests", "odd", "seconds"} -> Nat]

VARIABLES
    vse,        \* the members, and what the encoder and the sink know
    posted,     \* configurations on their way to the encoder queue
    used        \* how many inputs there have been

vars == <<vse, posted, used>>

All == 1..Bound.frames
\* What the environment answers in a task: whether the factory makes an encoder, it
\* is initialized, the frame can be cropped and is encoded; whether initial frames
\* may be dropped, the frame dropper wants the frame, the rates are due; and whether
\* an encoder selector prefers another encoder to a broken one.
Usual == [made |-> TRUE, initialized |-> TRUE, cropped |-> TRUE, encoded |-> TRUE,
          initial |-> FALSE, shed |-> FALSE, due |-> FALSE, preferred |-> FALSE]
Outcomes == {[[Usual EXCEPT ![k] = ~@] EXCEPT !.preferred = preferred] :
                k \in {"made", "initialized", "encoded"}, preferred \in BOOLEAN}
            \cup {[Usual EXCEPT ![k] = ~@] : k \in {"cropped", "initial", "shed", "due"}}
            \cup {Usual}

NoCall == [frame |-> 0, missed |-> {}, fits |-> TRUE, after |-> 0]
Init ==
    /\ vse = [stopped |-> FALSE, missing |-> FALSE,
             encoder_ |-> "", encoder_initialized_ |-> FALSE,
             encoder_config_ |-> None, pending_encoder_creation_ |-> FALSE,
             pending_encoder_reconfiguration_ |-> FALSE, last_frame_info_ |-> None,
             crop |-> <<0, 0>>, send_codec_ |-> None, rate_allocator_ |-> None,
             last_encoder_rate_settings_ |-> None, next_frame_types_ |-> <<"delta">>,
             was_encode_called_since_last_initialization_ |-> FALSE,
             encoder_fallback_requested_ |-> FALSE, latest_restrictions_ |-> 0,
             pending_frame_ |-> None, old |-> FALSE, pending_mapped_frames_ |-> <<>>,
             encoder_paused_and_dropped_frame_ |-> FALSE,
             accumulated_update_rect_ |-> {}, accumulated_update_rect_is_valid_ |-> TRUE,
             encoder_target_bitrate_bps_ |-> 0,
             cwnd_frame_drop_interval_ |-> 0, cwnd_frame_counter_ |-> 0,
             encoder_configuration_callbacks_ |-> 0,
             \* the worker's wants, and whether a refresh frame was asked for
             wants |-> None, refresh |-> FALSE,
             \* what the encoder was given since its initialization
             rates |-> None, call |-> NoCall, layers |-> {}, allocation |-> None,
             \* changed areas it has not seen, and those it will not be told of
             unseen |-> {}, lost |-> {},
             \* streams with a request; a frame stopped in a pause and not encoded
             \* since, and whether it is one that the code is known to lose
             requested |-> {}, owed |-> FALSE, lapsed |-> FALSE]
    /\ posted = <<>>
    /\ used = [kind \in DOMAIN Bound |-> 0]

-----------------------------------------------------------------------------
(* Rates.                                                                   *)

EncoderPaused(s) ==
    s.last_encoder_rate_settings_ = None \/ s.last_encoder_rate_settings_.target = 0

UpdateBitrateAllocation(s, target) ==
    [target |-> target,
     allocation |-> IF s.rate_allocator_ # None /\ target > 0
                    THEN Allocate(s.rate_allocator_, target) ELSE <<>>]

\* The sink that wants layers hears of a change, the one that wants bitrates always.
SetEncoderRates(s, new) ==
    LET old == s.last_encoder_rate_settings_
        changed == old = None \/ old.allocation # new.allocation
        kept == [s EXCEPT !.last_encoder_rate_settings_ = new]
        told == [kept EXCEPT !.allocation =
                    UpdateAllocationFromEncoderInfo(s.encoder_, new.allocation)]
    IN  IF s.encoder_ = "" \/ SumOf(new.allocation) = 0 THEN kept
        ELSE IF ~changed THEN told
        ELSE [told EXCEPT !.rates = new.allocation,
                 !.layers = CreateVideoLayersAllocation(s.send_codec_, new.allocation)]

-----------------------------------------------------------------------------
(* The encoder.                                                             *)

\* The application is asked for the encoder the selector prefers, or else for the next
\* in the order of its preferences: then this one gets no frames any more.
RequestEncoderSwitch(s, outcome) ==
    IF outcome.preferred THEN s
    ELSE [s EXCEPT !.encoder_fallback_requested_ = TRUE]

ReleaseEncoder(s) == [s EXCEPT !.encoder_initialized_ = FALSE, !.rates = None]

KeyFrames(s, streams) == [i \in 1..streams |-> "key"]

InitEncode(s, ok) ==
    LET fresh == [ReleaseEncoder(s) EXCEPT
                    !.was_encode_called_since_last_initialization_ = FALSE,
                    !.encoder_fallback_requested_ = FALSE]
    IN  IF ~ok THEN fresh
        ELSE [fresh EXCEPT
                !.encoder_initialized_ = TRUE,
                !.next_frame_types_ = KeyFrames(s, Len(s.send_codec_.streams)),
                !.requested = DOMAIN s.send_codec_.streams]

\* The new encoder, or codec, gets the rates its predecessor had.
SendIfChanged(s) ==
    SetEncoderRates(s, UpdateBitrateAllocation(s, s.last_encoder_rate_settings_.target))
SendAgain(s) ==
    SetEncoderRates([s EXCEPT !.last_encoder_rate_settings_ = None],
                    UpdateBitrateAllocation(s, s.last_encoder_rate_settings_.target))
RatesAgain(s) ==
    IF s.rate_allocator_ = None \/ s.last_encoder_rate_settings_ = None THEN s
    ELSE SendAgain(s)

\* The callbacks learn that the configuration is in force, or that there is no
\* encoder for it and a switch was requested.
Finished(s, outcome) ==
    LET done == [s EXCEPT !.pending_encoder_creation_ = FALSE,
                          !.pending_encoder_reconfiguration_ = FALSE,
                          !.encoder_configuration_callbacks_ = 0]
    IN  IF s.encoder_initialized_ THEN done ELSE RequestEncoderSwitch(done, outcome)

Installed(s, codec, outcome) ==
    LET reset == s.pending_encoder_creation_
                 \/ RequiresEncoderReset(s.send_codec_, codec,
                       s.was_encode_called_since_last_initialization_)
        set == [s EXCEPT !.send_codec_ = codec]
    IN  IF reset THEN InitEncode(set, outcome.initialized) ELSE set

Allocating(s) ==
    [s EXCEPT !.rate_allocator_ = IF s.encoder_initialized_ THEN s.send_codec_ ELSE None]

\* What the highest stream leaves of the frame is cropped.
CropTo(s, size) ==
    [s EXCEPT !.crop = <<s.last_frame_info_.size[1] - size[1],
                         s.last_frame_info_.size[2] - size[2]>>]

Configured(s, outcome) ==
    LET codec == ConfiguredCodec(s.encoder_config_, s.last_frame_info_.size,
                                 s.latest_restrictions_, s.encoder_target_bitrate_bps_)
        installed == Installed(CropTo(s, codec.size), codec, outcome)
    IN  Finished(RatesAgain(Allocating(installed)), outcome)

\* Without an encoder and without an order to create one, as after Stop, the code has
\* nothing to ask for its properties, and the model ends.
ReconfigureEncoder(s, outcome) ==
    IF s.pending_encoder_creation_
    THEN LET released == ReleaseEncoder(s)
         IN  IF outcome.made
             THEN Configured([released EXCEPT !.encoder_ = s.encoder_config_.format],
                             outcome)
             ELSE RequestEncoderSwitch([released EXCEPT !.encoder_ = ""], outcome)
    ELSE IF s.encoder_ = "" THEN [s EXCEPT !.missing = TRUE]
    ELSE Configured(s, outcome)

-----------------------------------------------------------------------------
(* Frames.                                                                  *)

RectOf(frame) == IF frame.known THEN {frame.id} ELSE All

\* The rectangle of a dropped frame is forgotten.
Forgotten(s, frame) == s
ProcessDroppedFrame(s, frame) ==
    [s EXCEPT !.accumulated_update_rect_ = @ \cup RectOf(frame),
              !.accumulated_update_rect_is_valid_ = @ /\ frame.known]

DropDueToSize(s, frame, outcome) ==
    LET limit == LimitWithDefault(s.encoder_config_)
        rate == s.encoder_target_bitrate_bps_
        codec == s.send_codec_
        pixels == MinOf(Pixels(frame.size), Pixels(codec.size))
    IN  /\ s.encoder_ # "" /\ outcome.initial /\ rate # 0 /\ codec # None
        /\ NumActiveStreams(Layers(codec)) = 1
        /\ IF limit # None THEN rate < limit.start
           ELSE \/ rate < 300 /\ pixels > 320 * 240
                \/ rate < 500 /\ pixels > 640 * 480

\* The rectangle the encoder is given: the frame's, and those of the frames that were
\* dropped before.  Cropping without a known rectangle, and scaling, change all.
Given(s, frame, cropped) ==
    LET before == s.accumulated_update_rect_
        scaled == cropped /\ (s.crop[1] >= 4 \/ s.crop[2] >= 4)
        own == IF scaled THEN All ELSE RectOf(frame)
        known == frame.known \/ cropped
        accumulated == IF cropped /\ before # {} THEN All ELSE before
        trusted == s.accumulated_update_rect_is_valid_ /\ ~(cropped /\ before # {})
        joined == trusted /\ known /\ accumulated # {}
    IN  [rect |-> IF trusted /\ known THEN own \cup accumulated ELSE All,
         left |-> IF joined THEN {} ELSE accumulated]

\* Types stay as they are if the encoder fails, so that the next frame is of them.
DeltaInAnyCase(s, ok) == [i \in DOMAIN s.next_frame_types_ |-> "delta"]
TypesAfter(s, ok) ==
    IF ok THEN [i \in DOMAIN s.next_frame_types_ |-> "delta"] ELSE s.next_frame_types_

\* encoder_->Encode: what the frame changed against the last one is in the rectangle,
\* or it is not.  A failure, or a rectangle of a later frame, loses areas.
Encode(s, frame, cropped, outcome) ==
    LET ok == outcome.encoded
        given == Given(s, frame, cropped)
        changes == {n \in s.unseen : n <= frame.id}
        early == {n \in s.unseen \cap (s.accumulated_update_rect_ \ given.left) :
                     n > frame.id}
        out == IF cropped THEN <<frame.size[1] - s.crop[1], frame.size[2] - s.crop[2]>>
               ELSE frame.size
        called == [s EXCEPT
           !.accumulated_update_rect_ = given.left,
           !.accumulated_update_rect_is_valid_ = TRUE,
           !.was_encode_called_since_last_initialization_ = TRUE,
           !.next_frame_types_ = TypesAfter(s, ok),
           !.call = [frame |-> frame.id, missed |-> (changes \ given.rect) \ s.lost,
                     after |-> s.call.frame,
                     fits |-> /\ s.send_codec_.size[1] <= out[1]
                              /\ s.send_codec_.size[2] <= out[2]]]
    IN  IF ok THEN [called EXCEPT
                      !.owed = FALSE,
                      !.requested = @ \ {i \in DOMAIN s.next_frame_types_ :
                                            s.next_frame_types_[i] = "key"},
                      !.unseen = @ \ changes, !.lost = (@ \ changes) \cup early]
        ELSE RequestEncoderSwitch([called EXCEPT
                !.lapsed = TRUE,
                !.lost = @ \cup ((changes \cup early) \ given.left)], outcome)

\* A frame that is neither encoded nor remembered as dropped.
Lost(s, frame) == [s EXCEPT !.lost = @ \cup {frame.id}, !.lapsed = TRUE]

EncodeVideoFrame(s, frame, outcome) ==
    LET cropped == s.crop # <<0, 0>> /\ ~(frame.native /\ Info[s.encoder_].native)
        tried == [s EXCEPT !.encoder_paused_and_dropped_frame_ = FALSE]
    IN  IF s.encoder_fallback_requested_ \/ ~s.encoder_initialized_ THEN Lost(s, frame)
        ELSE IF cropped /\ ~outcome.cropped THEN Lost(tried, frame)
        ELSE Encode(tried, frame, cropped, outcome)

\* A native frame is not kept, to give its buffer back.
KeepOrDrop(s, frame) ==
    IF ~frame.native THEN [s EXCEPT !.pending_frame_ = frame, !.old = FALSE]
    ELSE ProcessDroppedFrame([s EXCEPT !.pending_frame_ = None], frame)

Observed(s, frame) ==
    LET info == [size |-> frame.size, is_texture |-> frame.native]
    IN  IF s.last_frame_info_ = info THEN s
        ELSE [s EXCEPT !.last_frame_info_ = info, !.accumulated_update_rect_ = All,
                       !.pending_encoder_reconfiguration_ = TRUE]

UpToDate(s, outcome) ==
    IF s.pending_encoder_reconfiguration_ THEN ReconfigureEncoder(s, outcome)
    ELSE IF outcome.due /\ s.last_encoder_rate_settings_ # None
    THEN SetEncoderRates(s, UpdateBitrateAllocation(s,
                               s.last_encoder_rate_settings_.target))
    ELSE s

\* The drop of a native frame in the pause is not noted.
Unnoted(s, frame) == s.encoder_paused_and_dropped_frame_
Noted(s, frame) ==
    s.encoder_paused_and_dropped_frame_ \/ frame.native \/ s.pending_frame_ # None

\* The pending frame gives way to this one, which is dropped, kept or encoded.  The
\* drop of a native frame for its size is not noted, in a pause either.
EncodeOrDrop(ready, frame, outcome) ==
    LET before == IF ready.pending_frame_ = None THEN ready
                  ELSE ProcessDroppedFrame(ready, ready.pending_frame_)
        free == [before EXCEPT !.pending_frame_ = None, !.owed = FALSE]
    IN  IF DropDueToSize(before, frame, outcome)
        THEN KeepOrDrop([before EXCEPT !.owed = EncoderPaused(before),
                 !.lapsed = frame.native /\ ~before.encoder_paused_and_dropped_frame_],
                        frame)
        ELSE IF EncoderPaused(before)
        THEN KeepOrDrop([before EXCEPT !.owed = TRUE, !.lapsed = FALSE,
                 !.encoder_paused_and_dropped_frame_ = Noted(before, frame)], frame)
        ELSE IF outcome.shed THEN ProcessDroppedFrame(free, frame)
        ELSE EncodeVideoFrame(free, frame, outcome)

MaybeEncodeVideoFrame(s, frame, outcome) ==
    LET ready == UpToDate(Observed(s, frame), outcome)
    IN  IF ready.missing THEN ready ELSE EncodeOrDrop(ready, frame, outcome)

MaybePrepareVideoFrame(s, frame) ==
    IF Len(s.pending_mapped_frames_) > kMaxFramesInPreparation
    THEN ProcessDroppedFrame(s, frame)
    ELSE [s EXCEPT !.pending_mapped_frames_ =
            Append(@, [frame |-> frame,
                       can_send |-> s.encoder_ = "" \/ ~Info[s.encoder_].mapped])]

-----------------------------------------------------------------------------
(* The tasks.                                                               *)

\* The encoder queue is not within the loop that sends prepared frames.
Idle == /\ ~vse.missing
        /\ vse.pending_mapped_frames_ # <<>> => ~Head(vse.pending_mapped_frames_).can_send
Running == Idle /\ ~vse.stopped
Left(kind) == used[kind] < Bound[kind]
              /\ FoldFunction(LAMBDA n, sum : n + sum, 0, used) < MaxInputs
Use(kind) == Left(kind) /\ used' = [used EXCEPT ![kind] = @ + 1]
\* An unusual outcome counts where it makes a difference, and is one of a few.
Possible == IF Left("odd") THEN Outcomes ELSE {Usual}
UseIfOdd(usual) == IF vse' = usual THEN UNCHANGED used ELSE Use("odd")

\* On the worker: the source hears what is wanted of it now.
WantsOf(config) ==
    [active |-> NumActiveStreams(config.layers) > 0,
     max_framerate |-> Max({-1} \cup {config.layers[i].fps : i \in ActiveOf(config.layers)}),
     scale_resolution_down_to |-> config.scale_resolution_down_to]
ConfigureEncoder ==
    /\ ~vse.stopped /\ Use("configs")
    /\ \E config \in Configs :
          /\ posted' = Append(posted, config)
          /\ vse' = [vse EXCEPT !.wants = WantsOf(config),
                                !.refresh = @ \/ vse.wants # WantsOf(config)]

\* On the encoder queue.
FormatChanged(old, new) ==
    old = None \/ old.format # new.format \/ Len(old.layers) # Len(new.layers)
ConfigureTask ==
    /\ Running /\ posted # <<>> /\ posted' = Tail(posted)
    /\ LET config == Head(posted)
           set == [vse EXCEPT
              !.pending_encoder_creation_ =
                 vse.encoder_ = "" \/ FormatChanged(vse.encoder_config_, config),
              !.encoder_config_ = config,
              !.pending_encoder_reconfiguration_ = TRUE]
           After(outcome) ==
              IF vse.last_frame_info_ = None THEN set
              ELSE ReconfigureEncoder(
                      [set EXCEPT !.encoder_configuration_callbacks_ = @ + 1], outcome)
       IN  \E usual \in {After(Usual)}, outcome \in Possible :
              vse' = After(outcome) /\ UseIfOdd(usual)

\* Frames come once there is a configuration.  A frame is late if it is not newer
\* than the last one.
OnFrame ==
    /\ Running /\ vse.encoder_config_ # None /\ Use("frames")
    /\ \E new \in Frames, as \in {"late", "overload", "due"} :
          LET frame == [id |-> used.frames + 1, size |-> new.size,
                        native |-> new.native, known |-> new.known]
              interval == vse.cwnd_frame_drop_interval_
              push_back == interval # 0 /\ vse.cwnd_frame_counter_ % interval = 0
              arrived == [vse EXCEPT !.unseen = @ \cup {frame.id}, !.refresh = FALSE,
                                     !.owed = @ /\ EncoderPaused(vse)]
              counted == [arrived EXCEPT !.cwnd_frame_counter_ =
                             IF interval = 0 THEN @ ELSE @ + 1]
          IN  vse' = IF as = "late" THEN ProcessDroppedFrame(arrived, frame)
                     ELSE IF as = "overload" \/ push_back
                     THEN ProcessDroppedFrame(counted, frame)
                     ELSE MaybePrepareVideoFrame(counted, frame)
    /\ UNCHANGED posted

\* A frame was prepared, in any order and even after the encoder was stopped.
OnFramePrepared ==
    /\ Idle
    /\ \E k \in DOMAIN vse.pending_mapped_frames_ :
          /\ ~vse.pending_mapped_frames_[k].can_send
          /\ vse' = [vse EXCEPT !.pending_mapped_frames_[k].can_send = TRUE]
    /\ UNCHANGED <<posted, used>>

\* The loop of OnFramePrepared.
SendPrepared ==
    /\ ~vse.missing /\ vse.pending_mapped_frames_ # <<>>
    /\ Head(vse.pending_mapped_frames_).can_send
    /\ LET After(outcome) ==
              MaybeEncodeVideoFrame([vse EXCEPT !.pending_mapped_frames_ = Tail(@)],
                                    Head(vse.pending_mapped_frames_).frame, outcome)
       IN  \E usual \in {After(Usual)}, outcome \in Possible :
              vse' = After(outcome) /\ UseIfOdd(usual)
    /\ UNCHANGED posted

\* EncodeVideoFrame runs on a resume, unless the pending frame is a second old.
Resumed(s, outcome) ==
    LET frame == s.pending_frame_
        free == [s EXCEPT !.pending_frame_ = None]
    IN  IF frame # None
        THEN IF DropDueToSize(s, frame, outcome) THEN s
             ELSE IF s.old THEN Lost(free, frame)
             ELSE EncodeVideoFrame(free, frame, outcome)
        ELSE IF s.encoder_paused_and_dropped_frame_ THEN [s EXCEPT !.refresh = TRUE]
        ELSE s

AtRate(s, interval, rate) ==
    LET set == SetEncoderRates([s EXCEPT !.cwnd_frame_drop_interval_ = interval],
                               UpdateBitrateAllocation(s, rate))
    IN  [set EXCEPT !.encoder_target_bitrate_bps_ = IF rate # 0 THEN rate ELSE @]

OnBitrateUpdated ==
    /\ Running /\ Left("bitrates")
    /\ \E target \in Targets, ratio \in Ratios :
          LET min == IF vse.send_codec_ = None THEN 0 ELSE vse.send_codec_.min
              interval == FrameDropInterval(min, target, ratio)
              rate == ReducedTarget(target, interval)
              After(outcome) ==
                 IF rate # 0 /\ EncoderPaused(vse)
                 THEN Resumed(AtRate(vse, interval, rate), outcome)
                 ELSE AtRate(vse, interval, rate)
          IN  \E usual \in {After(Usual)}, outcome \in Possible :
                 /\ vse' = After(outcome) /\ (vse' # usual => Left("odd"))
                 /\ used' = [used EXCEPT !.bitrates = @ + 1,
                                         !.odd = @ + (IF vse' = usual THEN 0 ELSE 1)]
    /\ UNCHANGED posted

\* An explicit list says for each stream whether it wants a key frame.
SendKeyFrame ==
    /\ Running /\ Use("requests")
    /\ \E layers \in KeyLists :
          LET types == vse.next_frame_types_
              asked == [i \in DOMAIN types |->
                          IF layers = <<>> THEN "key"
                          ELSE IF i \in DOMAIN layers THEN layers[i] ELSE types[i]]
              named == IF layers = <<>> THEN DOMAIN types
                       ELSE DOMAIN layers \cap DOMAIN types
          IN  vse' = IF vse.encoder_ = "" THEN vse
                     ELSE [vse EXCEPT
                             !.next_frame_types_ = asked,
                             !.requested = (@ \ named) \cup
                                {i \in named : asked[i] = "key"}]
    /\ UNCHANGED posted

OnVideoSourceRestrictionsUpdated ==
    /\ Running /\ Use("requests")
    /\ \E max_pixels \in Restrictions :
          /\ max_pixels # vse.latest_restrictions_
          /\ vse' = [vse EXCEPT !.latest_restrictions_ = max_pixels,
                !.pending_encoder_reconfiguration_ =
                   @ \/ (vse.encoder_ # "" /\ vse.encoder_config_.scale_resolution_down_to)]
    /\ UNCHANGED posted

Stop ==
    /\ Running /\ posted = <<>>
    /\ vse' = [ReleaseEncoder(vse) EXCEPT !.stopped = TRUE, !.encoder_ = "",
                                          !.rate_allocator_ = None]
    /\ UNCHANGED <<posted, used>>

SecondPasses ==
    /\ Use("seconds") /\ Running /\ vse.pending_frame_ # None /\ ~vse.old
    /\ vse' = [vse EXCEPT !.old = TRUE]
    /\ UNCHANGED posted

Next == \/ ConfigureEncoder \/ ConfigureTask
        \/ OnFrame \/ OnFramePrepared \/ SendPrepared
        \/ OnBitrateUpdated \/ SendKeyFrame \/ OnVideoSourceRestrictionsUpdated
        \/ Stop \/ SecondPasses

Spec == Init /\ [][Next]_vars

-----------------------------------------------------------------------------
(* Properties.                                                              *)

\* Frames reach the encoder in the order they came, in whatever order they were
\* prepared or kept in a pause (the assertion at 2196), large enough for its codec,
\* and with an update rectangle that covers all that changed since the frame it saw
\* last, through drops, pauses, cropping, new sizes and new encoders
\* (ProcessDroppedFrame, EncodeVideoFrame).  Known exceptions are the areas of a
\* pending frame that became too old (2544), of a frame that found no encoder in use
\* (2055; the next one starts with a key frame), of one that could not be cropped or
\* encoded (2153, 2215), and of a dropped frame when an older one was still waiting,
\* which carries them too early.
FramesGivenRight ==
    /\ vse.call # NoCall => vse.call.after < vse.call.frame
    /\ vse.call.fits
    /\ vse.call.missed = {}

\* A requested key frame stays requested until a frame was encoded as one, however
\* many frames fail, are dropped or wait (SendKeyFrame, EncodeVideoFrame); a new
\* encoder owes one for each stream.
KeyFramesKept ==
    vse.encoder_initialized_ =>
       \A i \in vse.requested : /\ i \in DOMAIN vse.next_frame_types_
                               /\ vse.next_frame_types_[i] = "key"

\* An encoder is of the configuration's format and runs at, and the sink was told,
\* what its present codec is allocated of the newest target, although configuration,
\* encoder and target change in any order (SetEncoderRates, 1475-1485).
RatesInForce ==
    LET settings == vse.last_encoder_rate_settings_
        codec == vse.send_codec_
    IN  vse.encoder_initialized_ /\ settings # None =>
           LET expected == Allocate(codec, settings.target)
           IN  /\ vse.encoder_ = codec.format /\ vse.encoder_ = vse.encoder_config_.format
               /\ settings.target > 0 /\ SumOf(expected) > 0 =>
                     /\ settings.allocation = expected /\ vse.rates = expected
                     /\ vse.layers = CreateVideoLayersAllocation(codec, expected)
                     /\ vse.allocation =
                           UpdateAllocationFromEncoderInfo(vse.encoder_, expected)

\* Whatever the application, the factory and the encoder say, the limits of a layer
\* are in order, and its target and the start bitrate between them (1150-1282).  One
\* case is known where the target is too low: the application sets no maximum, and the
\* encoder's minimum is above the factory's maximum, which stays the target (1237-1242).
TargetTooLow(format, layer) ==
    LET limit == Info[format].limit
    IN  /\ limit # None /\ layer.min = limit.min
        /\ layer.target = FactoryMax /\ FactoryMax < limit.min
LimitsOrdered ==
    LET codec == vse.send_codec_
    IN  codec # None =>
           /\ codec.min <= codec.start /\ codec.start <= codec.max
           /\ \A layer \in {codec.streams[i] : i \in DOMAIN codec.streams}
                           \cup {codec.spatial[i] : i \in DOMAIN codec.spatial} :
                 layer.active =>
                    /\ layer.min <= layer.max /\ layer.target <= layer.max
                    /\ layer.min <= layer.target \/ TargetTooLow(codec.format, layer)

\* When a pause is over, the last frame it stopped was encoded, or is kept because
\* the bitrate is too low for it, or the source was asked for another, unless a newer
\* frame came since (OnBitrateUpdated, TraceFrameDropStart).  It is known to be lost
\* in four cases: it became too old (2544); no encoder was in use (2055); it could not
\* be cropped, or the encoder failed (2153, 2215); it was native, was dropped for its
\* size, and no drop had been noted before in that pause (1990-1996).
ResumeShows ==
    vse.owed /\ ~EncoderPaused(vse) =>
       vse.refresh \/ vse.pending_frame_ # None \/ vse.lapsed
=============================================================================
