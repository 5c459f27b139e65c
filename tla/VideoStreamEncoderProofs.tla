------------------------ MODULE VideoStreamEncoderProofs ------------------------
(***************************************************************************)
(* That no request of a key frame is lost, that the rates in force are     *)
(* those of the present codec, that the end of a pause shows what the      *)
(* pause stopped, that the encoder is given the frames in order, large     *)
(* enough and with all that changed, and that a codec's limits are in      *)
(* order, for all configurations, frames, rates and bounds.                *)
(*                                                                         *)
(* For the requests three members matter: encoder_initialized_,            *)
(* next_frame_types_ and what was requested.  Most methods leave them      *)
(* alone (Same); InitEncode, which makes as many types as the codec has    *)
(* streams, Encode and SendKeyFrame change them.  That the codec's streams *)
(* are numbered from one depends on a configuration being there whenever a *)
(* frame is prepared (Kept).                                               *)
(*                                                                         *)
(* For the frames the invariant (PictureInv) says where each changed area  *)
(* is that the encoder has not seen: lost, in the accumulated rectangle,   *)
(* or changed by a frame that waits or is in preparation.  Within a task   *)
(* the frame in hand is one more such place (Underway).                    *)
(*                                                                         *)
(* For the limits the work is in the operators: each of the four ways to   *)
(* bound a stream leaves it in order (InOrder), and the codec's maximum, a *)
(* sum, is no less than the first stream's (TotalExceedsEach).  The sum is *)
(* a recursion over finite sets, so that is an induction, over a set of    *)
(* numbers, as the provers cannot instantiate the library's predicates.    *)
(***************************************************************************)
EXTENDS VideoStreamEncoder, FiniteSetTheorems, TLAPS

Watched == {"encoder_initialized_", "requested", "next_frame_types_",
            "encoder_config_", "pending_mapped_frames_", "send_codec_"}

\* A request is a stream whose next frame is a key frame.
Requests(s) ==
    s.encoder_initialized_ =>
       \A i \in s.requested : /\ i \in DOMAIN s.next_frame_types_
                             /\ s.next_frame_types_[i] = "key"
Kept(s) ==
    /\ Watched \subseteq DOMAIN s
    /\ Requests(s)
    /\ s.encoder_config_ \in Configs \cup {None}
    /\ s.pending_mapped_frames_ # <<>> => s.encoder_config_ \in Configs

\* s became t without a change of what is watched, or with one that keeps it.
Same(s, t) ==
    /\ DOMAIN t = DOMAIN s
    /\ t.encoder_initialized_ = s.encoder_initialized_
    /\ t.requested = s.requested
    /\ t.next_frame_types_ = s.next_frame_types_
    /\ t.encoder_config_ = s.encoder_config_
    /\ t.pending_mapped_frames_ = s.pending_mapped_frames_
Answering(s, t) ==
    /\ DOMAIN t = DOMAIN s
    /\ Requests(t)
    /\ t.encoder_config_ = s.encoder_config_
    /\ t.pending_mapped_frames_ = s.pending_mapped_frames_

IInv == Kept(vse) /\ posted \in Seq(Configs)

-----------------------------------------------------------------------------
(* What a codec's streams are numbered by.                                  *)

Numbered(streams) ==
    DOMAIN streams = 1..Len(streams)

\* The length of a sequence that is defined by its numbers.
LEMMA LengthOfDomain ==
    ASSUME NEW s, NEW n \in Nat, s = [i \in 1..n |-> s[i]]
    PROVE  Len(s) = n /\ Numbered(s)
<1> DEFINE S == {s[i] : i \in 1..n}
<1>1. s \in Seq(S)
    OBVIOUS
<1> QED BY <1>1 DEF Numbered

\* However the limits are adjusted, the streams stay numbered (ReconfigureEncoder).
LEMMA CodecNumbered ==
    ASSUME NEW config \in Configs, NEW size, NEW max_pixels, NEW target
    PROVE  Numbered(ConfiguredCodec(config, size, max_pixels, target).streams)
<1> DEFINE created == CreateEncoderStreams(config, size, max_pixels)
           limited == SingleStreamLimits(config, created)
           applied == ApplyEncoderBitrateLimitsIfSingleActiveStream(config, limited)
<1>1. Len(config.layers) \in Nat
    BY EncoderInputs
<1>2. \E n \in Nat : created = [i \in 1..n |-> created[i]]
  <2>1. CASE Scalable(config.format)
    <3>1. created = [i \in 1..1 |-> created[i]]
        BY <2>1 DEF CreateEncoderStreams
    <3> QED BY <3>1
  <2>2. CASE ~Scalable(config.format)
    <3>1. created = [i \in 1..Len(config.layers) |-> created[i]]
        BY <2>2 DEF CreateEncoderStreams
    <3> QED BY <1>1, <3>1
  <2> QED BY <2>1, <2>2
<1> HIDE DEF created
<1>3. \E n \in Nat : limited = [i \in 1..n |-> limited[i]]
  <2>1. \/ limited = created
        \/ \E stream : limited = <<stream>>
      BY DEF SingleStreamLimits
  <2>2. ASSUME NEW stream, limited = <<stream>>
        PROVE  \E n \in Nat : limited = [i \in 1..n |-> limited[i]]
    <3>1. limited = [i \in 1..1 |-> limited[i]]
        BY <2>2
    <3> QED BY <3>1
  <2> QED BY <1>2, <2>1, <2>2
<1> HIDE DEF limited
<1>4. \E n \in Nat : applied = [i \in 1..n |-> applied[i]]
  <2>1. PICK n \in Nat : limited = [i \in 1..n |-> limited[i]]
      BY <1>3
  <2>2. DOMAIN limited = 1..n
      BY <2>1
  <2>3. applied = [i \in 1..n |-> applied[i]]
      BY <2>2 DEF ApplyEncoderBitrateLimitsIfSingleActiveStream
  <2> QED BY <2>3
<1> HIDE DEF applied
<1>5. Numbered(applied)
    BY <1>4, LengthOfDomain
<1>6. ConfiguredCodec(config, size, max_pixels, target).streams = applied
    BY DEF ConfiguredCodec, WithLimits, SetupCodec, applied, limited, created
<1> QED BY <1>5, <1>6

-----------------------------------------------------------------------------
(* The methods that leave what is watched alone.                            *)

LEMMA SameIsSame ==
    ASSUME NEW s, NEW t, NEW u, Same(s, t), Same(t, u)
    PROVE  Same(s, u)
BY DEF Same

LEMMA AnswersThenSame ==
    ASSUME NEW s, NEW t, NEW u, Answering(s, t), Same(t, u)
    PROVE  Answering(s, u)
BY DEF Same, Answering, Requests

LEMMA SameThenAnswers ==
    ASSUME NEW s, NEW t, NEW u, Same(s, t), Answering(t, u)
    PROVE  Answering(s, u)
BY DEF Same, Answering

LEMMA SameAnswers ==
    ASSUME NEW s, NEW t, Requests(s), Same(s, t)
    PROVE  Answering(s, t)
BY DEF Same, Answering, Requests

\* The rates that are set are not watched (SetEncoderRates).
LEMMA RatesSame ==
    ASSUME NEW s, NEW new, Watched \subseteq DOMAIN s
    PROVE  Same(s, SetEncoderRates(s, new))
BY DEF SetEncoderRates, Same, Watched

LEMMA SwitchSame ==
    ASSUME NEW s, NEW outcome, Watched \subseteq DOMAIN s
    PROVE  Same(s, RequestEncoderSwitch(s, outcome))
BY DEF RequestEncoderSwitch, Same, Watched

LEMMA RatesAgainSame ==
    ASSUME NEW s, Watched \subseteq DOMAIN s
    PROVE  Same(s, RatesAgain(s))
<1> DEFINE t == [s EXCEPT !.last_encoder_rate_settings_ = None]
           new == UpdateBitrateAllocation(s, s.last_encoder_rate_settings_.target)
<1>1. Same(s, t) /\ DOMAIN t = DOMAIN s
    BY DEF Same, Watched
<1> HIDE DEF t, new
<1>2. Same(t, SetEncoderRates(t, new))
    BY <1>1, RatesSame
<1>3. SendAgain(s) = SetEncoderRates(t, new)
    BY DEF SendAgain, t, new
<1>4. Same(s, s)
    BY DEF Same
<1> QED BY <1>1, <1>2, <1>3, <1>4, SameIsSame DEF RatesAgain

LEMMA FinishedSame ==
    ASSUME NEW s, NEW outcome, Watched \subseteq DOMAIN s
    PROVE  Same(s, Finished(s, outcome))
<1> DEFINE done == [s EXCEPT !.pending_encoder_creation_ = FALSE,
                             !.pending_encoder_reconfiguration_ = FALSE,
                             !.encoder_configuration_callbacks_ = 0]
<1>1. Same(s, done) /\ DOMAIN done = DOMAIN s
    BY DEF Same, Watched
<1>2. Finished(s, outcome) = IF s.encoder_initialized_ THEN done
                             ELSE RequestEncoderSwitch(done, outcome)
    BY DEF Finished
<1> HIDE DEF done
<1>3. Same(done, RequestEncoderSwitch(done, outcome))
    BY <1>1, SwitchSame
<1> QED BY <1>1, <1>2, <1>3, SameIsSame

LEMMA DropSame ==
    ASSUME NEW s, NEW frame, Watched \subseteq DOMAIN s
    PROVE  Same(s, ProcessDroppedFrame(s, frame))
BY DEF ProcessDroppedFrame, Same, Watched

LEMMA KeepOrDropSame ==
    ASSUME NEW s, NEW frame, Watched \subseteq DOMAIN s
    PROVE  Same(s, KeepOrDrop(s, frame))
<1> DEFINE t == [s EXCEPT !.pending_frame_ = None]
           u == [s EXCEPT !.pending_frame_ = frame, !.old = FALSE]
<1>1. Same(s, t) /\ Same(s, u) /\ DOMAIN t = DOMAIN s
    BY DEF Same, Watched
<1>2. KeepOrDrop(s, frame) = IF ~frame.native THEN u ELSE ProcessDroppedFrame(t, frame)
    BY DEF KeepOrDrop
<1> HIDE DEF t, u
<1>3. Same(t, ProcessDroppedFrame(t, frame))
    BY <1>1, DropSame
<1> QED BY <1>1, <1>2, <1>3, SameIsSame

LEMMA ObservedSame ==
    ASSUME NEW s, NEW frame, Watched \subseteq DOMAIN s
    PROVE  Same(s, Observed(s, frame))
BY DEF Observed, Same, Watched

-----------------------------------------------------------------------------
(* The methods that change it.                                              *)

\* Each stream of the codec has a type, and owes a key frame (ReconfigureEncoder).
LEMMA InitAnswers ==
    ASSUME NEW s, NEW ok, Watched \subseteq DOMAIN s, Numbered(s.send_codec_.streams)
    PROVE  Answering(s, InitEncode(s, ok))
<1> DEFINE streams == s.send_codec_.streams
           fresh == [ReleaseEncoder(s) EXCEPT
                    !.was_encode_called_since_last_initialization_ = FALSE,
                    !.encoder_fallback_requested_ = FALSE]
           started == [fresh EXCEPT
                !.encoder_initialized_ = TRUE,
                !.next_frame_types_ = KeyFrames(s, Len(streams)),
                !.requested = DOMAIN streams]
<1>1. /\ DOMAIN fresh = DOMAIN s /\ ~fresh.encoder_initialized_
      /\ fresh.encoder_config_ = s.encoder_config_
      /\ fresh.pending_mapped_frames_ = s.pending_mapped_frames_
    BY DEF ReleaseEncoder, Watched
<1>2. InitEncode(s, ok) = IF ~ok THEN fresh ELSE started
    BY DEF InitEncode
<1> HIDE DEF fresh
<1>3. /\ DOMAIN started = DOMAIN s
      /\ started.requested = DOMAIN streams
      /\ started.next_frame_types_ = KeyFrames(s, Len(streams))
      /\ started.encoder_config_ = s.encoder_config_
      /\ started.pending_mapped_frames_ = s.pending_mapped_frames_
    BY <1>1 DEF Watched
<1> HIDE DEF started
<1>4. DOMAIN streams = 1..Len(streams)
    BY DEF Numbered
<1>5. Requests(started)
    BY <1>3, <1>4 DEF Requests, KeyFrames
<1> QED BY <1>1, <1>2, <1>3, <1>5 DEF Answering, Requests

\* A codec takes the place of the last one, with or without a reset.
LEMMA InstalledAnswers ==
    ASSUME NEW s, NEW codec, NEW outcome, Watched \subseteq DOMAIN s, Requests(s),
           Numbered(codec.streams)
    PROVE  Answering(s, Installed(s, codec, outcome))
<1> DEFINE reset == s.pending_encoder_creation_
                    \/ RequiresEncoderReset(s.send_codec_, codec,
                          s.was_encode_called_since_last_initialization_)
           set == [s EXCEPT !.send_codec_ = codec]
<1>1. Installed(s, codec, outcome) =
         IF reset THEN InitEncode(set, outcome.initialized) ELSE set
    BY DEF Installed
<1> HIDE DEF reset
<1>2. Same(s, set) /\ DOMAIN set = DOMAIN s /\ set.send_codec_ = codec
    BY DEF Same, Watched
<1> HIDE DEF set
<1>3. Answering(set, InitEncode(set, outcome.initialized))
    BY <1>2, InitAnswers
<1> QED BY <1>1, <1>2, <1>3, SameThenAnswers, SameAnswers

LEMMA ConfiguredAnswers ==
    ASSUME NEW s, NEW outcome, Watched \subseteq DOMAIN s, Requests(s),
           s.encoder_config_ \in Configs
    PROVE  Answering(s, Configured(s, outcome))
<1> DEFINE codec == ConfiguredCodec(s.encoder_config_, s.last_frame_info_.size,
                                    s.latest_restrictions_,
                                    s.encoder_target_bitrate_bps_)
           cropping == CropTo(s, codec.size)
           ready == Installed(cropping, codec, outcome)
<1>1. Configured(s, outcome) = Finished(RatesAgain(Allocating(ready)), outcome)
    BY DEF Configured
<1>2. Numbered(codec.streams)
    BY CodecNumbered
<1> HIDE DEF codec
<1>3. Answering(s, ready)
  <2>1. Same(s, cropping) /\ DOMAIN cropping = DOMAIN s
      BY DEF CropTo, Same, Watched
  <2> HIDE DEF cropping
  <2>2. Requests(cropping)
      BY <2>1, SameAnswers DEF Answering
  <2>3. Answering(cropping, ready)
      BY <1>2, <2>1, <2>2, InstalledAnswers
  <2> QED BY <2>1, <2>3, SameThenAnswers
<1> HIDE DEF ready
<1>4. Same(ready, Allocating(ready)) /\ DOMAIN Allocating(ready) = DOMAIN s
    BY <1>3 DEF Answering, Allocating, Same, Watched
<1>5. Same(Allocating(ready), RatesAgain(Allocating(ready)))
    BY <1>4, RatesAgainSame
<1>6. DOMAIN RatesAgain(Allocating(ready)) = DOMAIN s
    BY <1>4, <1>5 DEF Same
<1>7. Same(RatesAgain(Allocating(ready)), Configured(s, outcome))
    BY <1>1, <1>6, FinishedSame
<1> QED BY <1>3, <1>4, <1>5, <1>7, AnswersThenSame

\* A new encoder, or the one there is, is configured; without a factory's encoder
\* there is none (ReconfigureEncoder).
LEMMA ReconfigureAnswers ==
    ASSUME NEW s, NEW outcome, Watched \subseteq DOMAIN s, Requests(s),
           s.encoder_config_ \in Configs
    PROVE  Answering(s, ReconfigureEncoder(s, outcome))
<1> DEFINE released == ReleaseEncoder(s)
           made == [released EXCEPT !.encoder_ = s.encoder_config_.format]
           none == [released EXCEPT !.encoder_ = ""]
           ended == [s EXCEPT !.missing = TRUE]
<1>1. /\ DOMAIN made = DOMAIN s /\ ~made.encoder_initialized_
      /\ made.encoder_config_ = s.encoder_config_
      /\ made.pending_mapped_frames_ = s.pending_mapped_frames_
    BY DEF ReleaseEncoder, Watched
<1>2. /\ DOMAIN none = DOMAIN s /\ ~none.encoder_initialized_
      /\ none.encoder_config_ = s.encoder_config_
      /\ none.pending_mapped_frames_ = s.pending_mapped_frames_
    BY DEF ReleaseEncoder, Watched
<1>3. Same(s, ended)
    BY DEF Same, Watched
<1>4. ReconfigureEncoder(s, outcome) =
         IF s.pending_encoder_creation_
         THEN IF outcome.made THEN Configured(made, outcome)
              ELSE RequestEncoderSwitch(none, outcome)
         ELSE IF s.encoder_ = "" THEN ended ELSE Configured(s, outcome)
    BY DEF ReconfigureEncoder
<1> HIDE DEF made, none, ended
<1>5. Answering(s, made) /\ Answering(s, none) /\ Requests(made)
    BY <1>1, <1>2 DEF Answering, Requests
<1>6. Answering(s, Configured(made, outcome))
  <2>1. Answering(made, Configured(made, outcome))
      BY <1>1, <1>5, ConfiguredAnswers
  <2> QED BY <1>1, <2>1 DEF Answering
<1>7. Answering(s, RequestEncoderSwitch(none, outcome))
    BY <1>2, <1>5, SwitchSame, AnswersThenSame
<1>8. Answering(s, ended) /\ Answering(s, Configured(s, outcome))
    BY <1>3, SameAnswers, ConfiguredAnswers
<1> QED BY <1>4, <1>6, <1>7, <1>8

\* The types that were asked for are used up only by a frame that was encoded
\* (EncodeVideoFrame).
LEMMA EncodeAnswers ==
    ASSUME NEW s, NEW frame, NEW cropped, NEW outcome, Watched \subseteq DOMAIN s,
           Requests(s)
    PROVE  Answering(s, Encode(s, frame, cropped, outcome))
<1> DEFINE ok == outcome.encoded
           given == Given(s, frame, cropped)
           changes == {n \in s.unseen : n <= frame.id}
           early == {n \in s.unseen \cap (s.accumulated_update_rect_ \ given.left) :
                        n > frame.id}
           out == IF cropped
                  THEN <<frame.size[1] - s.crop[1], frame.size[2] - s.crop[2]>>
                  ELSE frame.size
           call == [frame |-> frame.id, missed |-> (changes \ given.rect) \ s.lost,
                    after |-> s.call.frame,
                    fits |-> /\ s.send_codec_.size[1] <= out[1]
                             /\ s.send_codec_.size[2] <= out[2]]
           called == [s EXCEPT
              !.accumulated_update_rect_ = given.left,
              !.accumulated_update_rect_is_valid_ = TRUE,
              !.was_encode_called_since_last_initialization_ = TRUE,
              !.next_frame_types_ = TypesAfter(s, ok),
              !.call = call]
           succeeded == [called EXCEPT
              !.owed = FALSE,
              !.requested = @ \ {i \in DOMAIN s.next_frame_types_ :
                                    s.next_frame_types_[i] = "key"},
              !.unseen = @ \ changes, !.lost = (@ \ changes) \cup early]
           failed == [called EXCEPT
              !.lapsed = TRUE,
              !.lost = @ \cup ((changes \cup early) \ given.left)]
<1>1. Encode(s, frame, cropped, outcome) =
         IF ok THEN succeeded ELSE RequestEncoderSwitch(failed, outcome)
    BY DEF Encode
<1> HIDE DEF given, changes, early, call
<1>2. /\ DOMAIN called = DOMAIN s
      /\ called.next_frame_types_ = TypesAfter(s, ok)
      /\ called.encoder_initialized_ = s.encoder_initialized_
      /\ called.requested = s.requested
      /\ called.encoder_config_ = s.encoder_config_
      /\ called.pending_mapped_frames_ = s.pending_mapped_frames_
    BY DEF Watched
<1> HIDE DEF called
<1>3. /\ DOMAIN succeeded = DOMAIN s
      /\ succeeded.requested = s.requested \ {i \in DOMAIN s.next_frame_types_ :
                                                s.next_frame_types_[i] = "key"}
      /\ succeeded.encoder_initialized_ = s.encoder_initialized_
      /\ succeeded.encoder_config_ = s.encoder_config_
      /\ succeeded.pending_mapped_frames_ = s.pending_mapped_frames_
    BY <1>2 DEF Watched
<1>4. Same(called, failed) /\ DOMAIN failed = DOMAIN s
    BY <1>2 DEF Same, Watched
<1> HIDE DEF succeeded, failed
<1>5. CASE ok
  <2>1. Requests(succeeded)
      BY <1>3 DEF Requests
  <2> QED BY <1>1, <1>3, <1>5, <2>1 DEF Answering
<1>6. CASE ~ok
  <2>1. called.next_frame_types_ = s.next_frame_types_
      BY <1>2, <1>6 DEF TypesAfter
  <2>2. Same(s, called)
      BY <1>2, <2>1 DEF Same
  <2>3. Same(failed, RequestEncoderSwitch(failed, outcome))
      BY <1>4, SwitchSame
  <2>4. Answering(s, failed)
      BY <1>4, <2>2, SameIsSame, SameAnswers
  <2> QED BY <1>1, <1>6, <2>3, <2>4, AnswersThenSame
<1> HIDE DEF ok
<1> QED BY <1>5, <1>6

LEMMA EncodeFrameAnswers ==
    ASSUME NEW s, NEW frame, NEW outcome, Watched \subseteq DOMAIN s, Requests(s)
    PROVE  Answering(s, EncodeVideoFrame(s, frame, outcome))
<1> DEFINE cropped == s.crop # <<0, 0>> /\ ~(frame.native /\ Info[s.encoder_].native)
           tried == [s EXCEPT !.encoder_paused_and_dropped_frame_ = FALSE]
           uncut == Lost(tried, frame)
           unused == Lost(s, frame)
<1>1. EncodeVideoFrame(s, frame, outcome) =
         IF s.encoder_fallback_requested_ \/ ~s.encoder_initialized_ THEN unused
         ELSE IF cropped /\ ~outcome.cropped THEN uncut
         ELSE Encode(tried, frame, cropped, outcome)
    BY DEF EncodeVideoFrame
<1>2. Same(s, tried) /\ DOMAIN tried = DOMAIN s
    BY DEF Same, Watched
<1>3. Same(s, uncut) /\ Same(s, unused)
    BY DEF Lost, Same, Watched
<1> HIDE DEF cropped, tried, uncut, unused
<1>4. Requests(tried)
    BY <1>2, SameAnswers DEF Answering
<1>5. Answering(tried, Encode(tried, frame, cropped, outcome))
    BY <1>2, <1>4, EncodeAnswers
<1> QED BY <1>1, <1>2, <1>3, <1>5, SameAnswers, SameThenAnswers

LEMMA UpToDateAnswers ==
    ASSUME NEW s, NEW outcome, Watched \subseteq DOMAIN s, Requests(s),
           s.encoder_config_ \in Configs
    PROVE  Answering(s, UpToDate(s, outcome))
<1> DEFINE new == UpdateBitrateAllocation(s, s.last_encoder_rate_settings_.target)
<1>1. \/ UpToDate(s, outcome) = ReconfigureEncoder(s, outcome)
      \/ UpToDate(s, outcome) = SetEncoderRates(s, new)
      \/ UpToDate(s, outcome) = s
    BY DEF UpToDate
<1> HIDE DEF new
<1>2. Answering(s, ReconfigureEncoder(s, outcome))
    BY ReconfigureAnswers
<1>3. Same(s, SetEncoderRates(s, new)) /\ Same(s, s)
    BY RatesSame DEF Same
<1> QED BY <1>1, <1>2, <1>3, SameAnswers

\* What became of a frame, each of the five ways (MaybeEncodeVideoFrame).
LEMMA EncodeOrDropAnswers ==
    ASSUME NEW ready, NEW frame, NEW outcome, Watched \subseteq DOMAIN ready,
           Requests(ready)
    PROVE  Answering(ready, EncodeOrDrop(ready, frame, outcome))
<1> DEFINE before == IF ready.pending_frame_ = None THEN ready
                     ELSE ProcessDroppedFrame(ready, ready.pending_frame_)
           free == [before EXCEPT !.pending_frame_ = None, !.owed = FALSE]
           small == [before EXCEPT !.owed = EncoderPaused(before),
                 !.lapsed = frame.native /\ ~before.encoder_paused_and_dropped_frame_]
           paused == [before EXCEPT !.owed = TRUE, !.lapsed = FALSE,
                 !.encoder_paused_and_dropped_frame_ = Noted(before, frame)]
<1>1. \/ EncodeOrDrop(ready, frame, outcome) = KeepOrDrop(small, frame)
      \/ EncodeOrDrop(ready, frame, outcome) = KeepOrDrop(paused, frame)
      \/ EncodeOrDrop(ready, frame, outcome) = ProcessDroppedFrame(free, frame)
      \/ EncodeOrDrop(ready, frame, outcome) = EncodeVideoFrame(free, frame, outcome)
    BY DEF EncodeOrDrop
<1>2. Same(ready, before) /\ DOMAIN before = DOMAIN ready
  <2>1. Same(ready, ready)
      BY DEF Same
  <2> QED BY <2>1, DropSame DEF Same
<1> HIDE DEF before
<1>3. /\ Same(before, free) /\ Same(before, small) /\ Same(before, paused)
      /\ DOMAIN free = DOMAIN ready /\ DOMAIN small = DOMAIN ready
      /\ DOMAIN paused = DOMAIN ready
    BY <1>2 DEF Same, Watched
<1> HIDE DEF free, small, paused
<1>4. Same(ready, free) /\ Same(ready, small) /\ Same(ready, paused)
    BY <1>2, <1>3, SameIsSame
<1>5. /\ Same(small, KeepOrDrop(small, frame))
      /\ Same(paused, KeepOrDrop(paused, frame))
      /\ Same(free, ProcessDroppedFrame(free, frame))
    BY <1>3, KeepOrDropSame, DropSame
<1>6. Requests(free)
    BY <1>4, SameAnswers DEF Answering
<1>7. Answering(free, EncodeVideoFrame(free, frame, outcome))
    BY <1>3, <1>6, EncodeFrameAnswers
<1> QED BY <1>1, <1>4, <1>5, <1>7, SameIsSame, SameAnswers, SameThenAnswers

LEMMA MaybeEncodeAnswers ==
    ASSUME NEW s, NEW frame, NEW outcome, Watched \subseteq DOMAIN s, Requests(s),
           s.encoder_config_ \in Configs
    PROVE  Answering(s, MaybeEncodeVideoFrame(s, frame, outcome))
<1> DEFINE seen == Observed(s, frame)
           ready == UpToDate(seen, outcome)
<1>1. \/ MaybeEncodeVideoFrame(s, frame, outcome) = ready
      \/ MaybeEncodeVideoFrame(s, frame, outcome) = EncodeOrDrop(ready, frame, outcome)
    BY DEF MaybeEncodeVideoFrame
<1>2. Same(s, seen)
    BY ObservedSame
<1> HIDE DEF seen
<1>3. /\ Requests(seen) /\ Watched \subseteq DOMAIN seen
      /\ seen.encoder_config_ \in Configs
    BY <1>2, SameAnswers DEF Answering, Same
<1>4. Answering(seen, ready)
    BY <1>3, UpToDateAnswers
<1> HIDE DEF ready
<1>5. Answering(s, ready)
    BY <1>2, <1>4, SameThenAnswers
<1>6. Answering(ready, EncodeOrDrop(ready, frame, outcome))
    BY <1>5, EncodeOrDropAnswers DEF Answering
<1>7. Answering(s, EncodeOrDrop(ready, frame, outcome))
    BY <1>5, <1>6 DEF Answering
<1> QED BY <1>1, <1>5, <1>7

LEMMA ResumedAnswers ==
    ASSUME NEW s, NEW outcome, Watched \subseteq DOMAIN s, Requests(s)
    PROVE  Answering(s, Resumed(s, outcome))
<1> DEFINE frame == s.pending_frame_
           free == [s EXCEPT !.pending_frame_ = None]
           expired == Lost(free, frame)
           asking == [s EXCEPT !.refresh = TRUE]
<1>1. \/ Resumed(s, outcome) = s
      \/ Resumed(s, outcome) = expired
      \/ Resumed(s, outcome) = EncodeVideoFrame(free, frame, outcome)
      \/ Resumed(s, outcome) = asking
    BY DEF Resumed
<1>2. /\ Same(s, s) /\ Same(s, free) /\ Same(s, expired) /\ Same(s, asking)
      /\ DOMAIN free = DOMAIN s
    BY DEF Lost, Same, Watched
<1> HIDE DEF frame, free, expired, asking
<1>3. Requests(free)
    BY <1>2, SameAnswers DEF Answering
<1>4. Answering(free, EncodeVideoFrame(free, frame, outcome))
    BY <1>2, <1>3, EncodeFrameAnswers
<1> QED BY <1>1, <1>2, <1>4, SameAnswers, SameThenAnswers

-----------------------------------------------------------------------------
(* The tasks.                                                               *)

LEMMA AnsweringKeeps ==
    ASSUME NEW s, NEW t, Kept(s), Answering(s, t)
    PROVE  Kept(t)
BY DEF Kept, Answering

LEMMA SameKeeps ==
    ASSUME NEW s, NEW t, Kept(s), Same(s, t)
    PROVE  Kept(t)
BY SameAnswers, AnsweringKeeps DEF Kept

LEMMA InitInv == Init => IInv
<1> SUFFICES ASSUME Init PROVE IInv
    OBVIOUS
<1>1. Kept(vse)
    BY DEF Init, Kept, Watched, Requests, None
<1>2. posted = <<>>
    BY DEF Init
<1> QED BY <1>1, <1>2 DEF IInv

LEMMA ConfigureEncoderKeeps == IInv /\ ConfigureEncoder => IInv'
<1> SUFFICES ASSUME IInv, ConfigureEncoder PROVE IInv'
    OBVIOUS
<1>1. PICK config \in Configs :
         /\ posted' = Append(posted, config)
         /\ vse' = [vse EXCEPT !.wants = WantsOf(config),
                               !.refresh = @ \/ vse.wants # WantsOf(config)]
    BY DEF ConfigureEncoder
<1>2. posted' \in Seq(Configs)
    BY <1>1 DEF IInv
<1>3. Same(vse, vse')
    BY <1>1 DEF IInv, Kept, Same, Watched
<1> QED BY <1>2, <1>3, SameKeeps DEF IInv

\* The configuration that was posted is there from then on (ConfigureEncoder).
LEMMA ConfigureTaskKeeps == IInv /\ ConfigureTask => IInv'
<1> SUFFICES ASSUME IInv, ConfigureTask PROVE IInv'
    OBVIOUS
<1> DEFINE config == Head(posted)
           set == [vse EXCEPT
              !.pending_encoder_creation_ =
                 vse.encoder_ = "" \/ FormatChanged(vse.encoder_config_, config),
              !.encoder_config_ = config,
              !.pending_encoder_reconfiguration_ = TRUE]
           noted == [set EXCEPT !.encoder_configuration_callbacks_ = @ + 1]
<1>1. PICK outcome \in Possible :
         vse' = IF vse.last_frame_info_ = None THEN set
                ELSE ReconfigureEncoder(noted, outcome)
    BY DEF ConfigureTask
<1>2. config \in Configs /\ posted' \in Seq(Configs)
    BY DEF ConfigureTask, IInv
<1>3. /\ DOMAIN set = DOMAIN vse /\ set.encoder_config_ = config
      /\ set.encoder_initialized_ = vse.encoder_initialized_
      /\ set.requested = vse.requested
      /\ set.next_frame_types_ = vse.next_frame_types_
      /\ set.pending_mapped_frames_ = vse.pending_mapped_frames_
    BY DEF IInv, Kept, Watched
<1> HIDE DEF config, set
<1>4. Kept(set)
    BY <1>2, <1>3 DEF IInv, Kept, Requests
<1>5. Same(set, noted)
    BY <1>4 DEF Kept, Same, Watched
<1> HIDE DEF noted
<1>6. Kept(noted) /\ noted.encoder_config_ \in Configs
    BY <1>2, <1>3, <1>4, <1>5, SameKeeps DEF Same
<1>7. Kept(ReconfigureEncoder(noted, outcome))
    BY <1>6, ReconfigureAnswers, AnsweringKeeps DEF Kept
<1> QED BY <1>1, <1>2, <1>4, <1>7 DEF IInv

\* A frame is prepared only under a configuration (OnFrame).
LEMMA OnFrameKeeps == IInv /\ OnFrame => IInv'
<1> SUFFICES ASSUME IInv, OnFrame PROVE IInv'
    OBVIOUS
<1> DEFINE interval == vse.cwnd_frame_drop_interval_
           arrived(frame) == [vse EXCEPT !.unseen = @ \cup {frame.id}, !.refresh = FALSE,
                                         !.owed = @ /\ EncoderPaused(vse)]
           counted(frame) == [arrived(frame) EXCEPT !.cwnd_frame_counter_ =
                                 IF interval = 0 THEN @ ELSE @ + 1]
<1>1. \E frame : \/ vse' = ProcessDroppedFrame(arrived(frame), frame)
                  \/ vse' = ProcessDroppedFrame(counted(frame), frame)
                  \/ vse' = MaybePrepareVideoFrame(counted(frame), frame)
    BY DEF OnFrame
<1>2. PICK frame : \/ vse' = ProcessDroppedFrame(arrived(frame), frame)
                   \/ vse' = ProcessDroppedFrame(counted(frame), frame)
                   \/ vse' = MaybePrepareVideoFrame(counted(frame), frame)
    BY <1>1
<1> DEFINE a == arrived(frame)
           c == counted(frame)
<1>3. Same(vse, a) /\ Same(vse, c)
    BY DEF IInv, Kept, Same, Watched
<1>4. /\ vse' = ProcessDroppedFrame(a, frame) \/ vse' = ProcessDroppedFrame(c, frame)
         \/ vse' = MaybePrepareVideoFrame(c, frame)
    BY <1>2
<1> HIDE DEF a, c
<1>5. Kept(a) /\ Kept(c) /\ c.encoder_config_ \in Configs
  <2>1. vse.encoder_config_ \in Configs
      BY DEF OnFrame, IInv, Kept
  <2> QED BY <1>3, <2>1, SameKeeps DEF IInv, Same
<1>6. Kept(ProcessDroppedFrame(a, frame)) /\ Kept(ProcessDroppedFrame(c, frame))
    BY <1>5, DropSame, SameKeeps DEF Kept
<1>7. Kept(MaybePrepareVideoFrame(c, frame))
  <2> DEFINE more == Append(c.pending_mapped_frames_,
                         [frame |-> frame,
                          can_send |-> c.encoder_ = "" \/ ~Info[c.encoder_].mapped])
             prepared == [c EXCEPT !.pending_mapped_frames_ = more]
  <2>1. \/ MaybePrepareVideoFrame(c, frame) = ProcessDroppedFrame(c, frame)
        \/ MaybePrepareVideoFrame(c, frame) = prepared
      BY DEF MaybePrepareVideoFrame
  <2> HIDE DEF more
  <2>2. Kept(prepared)
      BY <1>5 DEF Kept, Requests, Watched
  <2> QED BY <1>6, <2>1, <2>2
<1>8. posted' = posted
    BY DEF OnFrame
<1> QED BY <1>4, <1>6, <1>7, <1>8 DEF IInv

LEMMA OnFramePreparedKeeps == IInv /\ OnFramePrepared => IInv'
<1> SUFFICES ASSUME IInv, OnFramePrepared PROVE IInv'
    OBVIOUS
<1>1. PICK k \in DOMAIN vse.pending_mapped_frames_ :
         vse' = [vse EXCEPT !.pending_mapped_frames_[k].can_send = TRUE]
    BY DEF OnFramePrepared
<1>2. vse.encoder_config_ \in Configs
  <2>1. vse.pending_mapped_frames_ # <<>>
      BY <1>1
  <2> QED BY <2>1 DEF IInv, Kept
<1>3. /\ DOMAIN vse' = DOMAIN vse
      /\ vse'.encoder_initialized_ = vse.encoder_initialized_
      /\ vse'.requested = vse.requested
      /\ vse'.next_frame_types_ = vse.next_frame_types_
      /\ vse'.encoder_config_ = vse.encoder_config_
    BY <1>1 DEF IInv, Kept, Watched
<1>4. Kept(vse')
    BY <1>2, <1>3 DEF IInv, Kept, Requests
<1> QED BY <1>4 DEF IInv, OnFramePrepared

\* The loop encodes or drops the first frame (OnFramePrepared).
LEMMA SendPreparedKeeps == IInv /\ SendPrepared => IInv'
<1> SUFFICES ASSUME IInv, SendPrepared PROVE IInv'
    OBVIOUS
<1> DEFINE frame == Head(vse.pending_mapped_frames_).frame
           left == [vse EXCEPT !.pending_mapped_frames_ = Tail(@)]
<1>1. PICK outcome \in Possible : vse' = MaybeEncodeVideoFrame(left, frame, outcome)
    BY DEF SendPrepared
<1>2. vse.encoder_config_ \in Configs
    BY DEF SendPrepared, IInv, Kept
<1>3. Kept(left) /\ left.encoder_config_ \in Configs
    BY <1>2 DEF IInv, Kept, Requests, Watched
<1> HIDE DEF frame, left
<1>4. Kept(vse')
    BY <1>1, <1>3, MaybeEncodeAnswers, AnsweringKeeps DEF Kept
<1> QED BY <1>4 DEF IInv, SendPrepared

LEMMA BitrateKeeps == IInv /\ OnBitrateUpdated => IInv'
<1> SUFFICES ASSUME IInv, OnBitrateUpdated PROVE IInv'
    OBVIOUS
<1>1. \E interval, rate, outcome : \/ vse' = AtRate(vse, interval, rate)
                                    \/ vse' = Resumed(AtRate(vse, interval, rate), outcome)
    BY DEF OnBitrateUpdated
<1>2. PICK interval, rate, outcome : \/ vse' = AtRate(vse, interval, rate)
                                     \/ vse' = Resumed(AtRate(vse, interval, rate), outcome)
    BY <1>1
<1> DEFINE start == [vse EXCEPT !.cwnd_frame_drop_interval_ = interval]
           set == SetEncoderRates(start, UpdateBitrateAllocation(vse, rate))
           noted == AtRate(vse, interval, rate)
<1>3. Same(vse, start)
    BY DEF IInv, Kept, Same, Watched
<1> HIDE DEF start
<1>4. Same(start, set)
    BY <1>3, RatesSame DEF IInv, Kept, Same
<1>5. Kept(set)
    BY <1>3, <1>4, SameIsSame, SameKeeps DEF IInv
<1>6. Same(set, noted)
  <2>1. noted = [set EXCEPT !.encoder_target_bitrate_bps_ = IF rate # 0 THEN rate ELSE @]
      BY DEF AtRate, start
  <2> HIDE DEF set, noted
  <2> QED BY <1>5, <2>1 DEF Kept, Same, Watched
<1> HIDE DEF set, noted
<1>7. Kept(noted)
    BY <1>5, <1>6, SameKeeps
<1>8. Kept(Resumed(noted, outcome))
    BY <1>7, ResumedAnswers, AnsweringKeeps DEF Kept
<1> QED BY <1>2, <1>7, <1>8 DEF IInv, OnBitrateUpdated, noted

\* A list asks for some streams and takes back the requests of others; no list asks
\* for all (SendKeyFrame).
LEMMA SendKeyFrameKeeps == IInv /\ SendKeyFrame => IInv'
<1> SUFFICES ASSUME IInv, SendKeyFrame PROVE IInv'
    OBVIOUS
<1> DEFINE types == vse.next_frame_types_
<1>1. PICK layers \in KeyLists :
         LET asked == [i \in DOMAIN types |->
                         IF layers = <<>> THEN "key"
                         ELSE IF i \in DOMAIN layers THEN layers[i] ELSE types[i]]
             named == IF layers = <<>> THEN DOMAIN types
                      ELSE DOMAIN layers \cap DOMAIN types
         IN  vse' = IF vse.encoder_ = "" THEN vse
                    ELSE [vse EXCEPT !.next_frame_types_ = asked,
                             !.requested = (@ \ named) \cup
                                {i \in named : asked[i] = "key"}]
    BY DEF SendKeyFrame
<1> DEFINE asked == [i \in DOMAIN types |->
                       IF layers = <<>> THEN "key"
                       ELSE IF i \in DOMAIN layers THEN layers[i] ELSE types[i]]
           named == IF layers = <<>> THEN DOMAIN types
                    ELSE DOMAIN layers \cap DOMAIN types
           new == [vse EXCEPT !.next_frame_types_ = asked,
                      !.requested = (@ \ named) \cup {i \in named : asked[i] = "key"}]
<1>2. vse' = vse \/ vse' = new
    BY <1>1
<1>3. DOMAIN asked = DOMAIN types
    OBVIOUS
<1>4. \A i \in DOMAIN types \ named : asked[i] = types[i]
    OBVIOUS
<1>5. named \subseteq DOMAIN types
    OBVIOUS
<1> HIDE DEF asked, named
<1>6. /\ DOMAIN new = DOMAIN vse
      /\ new.encoder_initialized_ = vse.encoder_initialized_
      /\ new.next_frame_types_ = asked
      /\ new.requested = (vse.requested \ named) \cup {i \in named : asked[i] = "key"}
      /\ new.encoder_config_ = vse.encoder_config_
      /\ new.pending_mapped_frames_ = vse.pending_mapped_frames_
    BY DEF IInv, Kept, Watched
<1> HIDE DEF new
<1>7. Requests(new)
    BY <1>3, <1>4, <1>5, <1>6 DEF IInv, Kept, Requests
<1>8. Kept(new)
    BY <1>6, <1>7 DEF IInv, Kept
<1> QED BY <1>2, <1>8 DEF IInv, SendKeyFrame

LEMMA StopKeeps == IInv /\ Stop => IInv'
<1> SUFFICES ASSUME IInv, Stop PROVE IInv'
    OBVIOUS
<1>1. /\ DOMAIN vse' = DOMAIN vse /\ ~vse'.encoder_initialized_
      /\ vse'.encoder_config_ = vse.encoder_config_
      /\ vse'.pending_mapped_frames_ = vse.pending_mapped_frames_
    BY DEF Stop, ReleaseEncoder, IInv, Kept, Watched
<1> QED BY <1>1 DEF IInv, Stop, Kept, Requests

LEMMA NextKeeps == IInv /\ [Next]_vars => IInv'
<1> SUFFICES ASSUME IInv, [Next]_vars PROVE IInv'
    OBVIOUS
<1>1. CASE OnVideoSourceRestrictionsUpdated
  <2>1. Same(vse, vse') /\ posted' = posted
      BY <1>1 DEF OnVideoSourceRestrictionsUpdated, IInv, Kept, Same, Watched
  <2> QED BY <2>1, SameKeeps DEF IInv
<1>2. CASE SecondPasses
  <2>1. Same(vse, vse') /\ posted' = posted
      BY <1>2 DEF SecondPasses, IInv, Kept, Same, Watched
  <2> QED BY <2>1, SameKeeps DEF IInv
<1>3. CASE UNCHANGED vars
    BY <1>3 DEF vars, IInv, Kept, Requests
<1> QED BY <1>1, <1>2, <1>3, ConfigureEncoderKeeps, ConfigureTaskKeeps, OnFrameKeeps,
           OnFramePreparedKeeps, SendPreparedKeeps, BitrateKeeps, SendKeyFrameKeeps,
           StopKeeps DEF Next

\* A request of a key frame outlives dropped and failed frames, pauses and changes of
\* the encoder (SendKeyFrame, EncodeVideoFrame, ReconfigureEncoder).
THEOREM SpecKeyFramesKept == Spec => []KeyFramesKept
<1>1. IInv => KeyFramesKept
    BY DEF IInv, Kept, Requests, KeyFramesKept
<1> QED BY <1>1, InitInv, NextKeeps, PTL DEF Spec

-----------------------------------------------------------------------------
(* The rates in force.                                                      *)

RateMembers == {"encoder_", "encoder_initialized_", "encoder_config_", "send_codec_",
                "rate_allocator_", "last_encoder_rate_settings_", "last_frame_info_",
                "pending_encoder_creation_", "rates", "layers", "allocation"}

\* An encoder is of the configuration's format, and one that is initialized has the
\* present codec and an allocator for it.
Fits(s) ==
    /\ s.encoder_ # "" => /\ s.encoder_ = s.encoder_config_.format
                          /\ s.last_frame_info_ # None
    /\ s.encoder_initialized_ => /\ s.encoder_ # "" /\ s.send_codec_ # None
                                 /\ s.encoder_ = s.send_codec_.format
                                 /\ s.rate_allocator_ = s.send_codec_

\* The settings are the allocator's, and whoever is told of rates was told of them.
Told(s) ==
    LET settings == s.last_encoder_rate_settings_
        rates == settings.allocation
    IN  s.encoder_initialized_ /\ settings # None =>
           /\ settings.target > 0 => rates = Allocate(s.send_codec_, settings.target)
           /\ ~(settings.target > 0) => rates = <<>>
           /\ SumOf(rates) # 0 =>
                 /\ s.rates = rates
                 /\ s.layers = CreateVideoLayersAllocation(s.send_codec_, rates)
                 /\ s.allocation = UpdateAllocationFromEncoderInfo(s.encoder_, rates)

RateInv(s) == RateMembers \subseteq DOMAIN s /\ Fits(s) /\ Told(s)

\* Nothing of the rates changed.
AsRated(s, t) ==
    /\ DOMAIN t = DOMAIN s
    /\ t.encoder_ = s.encoder_
    /\ t.encoder_initialized_ = s.encoder_initialized_
    /\ t.encoder_config_ = s.encoder_config_
    /\ t.send_codec_ = s.send_codec_
    /\ t.rate_allocator_ = s.rate_allocator_
    /\ t.last_encoder_rate_settings_ = s.last_encoder_rate_settings_
    /\ t.last_frame_info_ = s.last_frame_info_
    /\ t.rates = s.rates /\ t.layers = s.layers /\ t.allocation = s.allocation

LEMMA AsRatedTwice ==
    ASSUME NEW s, NEW t, NEW u, AsRated(s, t), AsRated(t, u)
    PROVE  AsRated(s, u)
BY DEF AsRated

LEMMA AsRatedKeeps ==
    ASSUME NEW s, NEW t, AsRated(s, t), RateInv(s)
    PROVE  RateInv(t)
BY DEF AsRated, RateInv, Fits, Told

\* A codec is of its configuration's format (ReconfigureEncoder).
LEMMA CodecFormat ==
    ASSUME NEW config, NEW size, NEW max_pixels, NEW target
    PROVE  /\ ConfiguredCodec(config, size, max_pixels, target).format = config.format
           /\ ConfiguredCodec(config, size, max_pixels, target) # None
<1> DEFINE streams == ApplyEncoderBitrateLimitsIfSingleActiveStream(config,
                         SingleStreamLimits(config,
                            CreateEncoderStreams(config, size, max_pixels)))
           codec == SetupCodec(config, streams)
<1>1. codec.format = config.format /\ "format" \in DOMAIN codec
    BY DEF SetupCodec
<1> HIDE DEF codec
<1>2. /\ WithLimits(config, codec, target).format = config.format
      /\ "format" \in DOMAIN WithLimits(config, codec, target)
    BY <1>1 DEF WithLimits
<1>3. "format" \notin DOMAIN None
    BY DEF None
<1>4. ConfiguredCodec(config, size, max_pixels, target) = WithLimits(config, codec, target)
    BY DEF ConfiguredCodec, codec
<1> QED BY <1>2, <1>3, <1>4

\* New rates from the allocator are told, or were told before (SetEncoderRates).
LEMMA RatesTold ==
    ASSUME NEW s, NEW u, NEW target, RateInv(s),
           u.rate_allocator_ = s.rate_allocator_
    PROVE  /\ RateInv(SetEncoderRates(s, UpdateBitrateAllocation(u, target)))
           /\ SetEncoderRates(s, UpdateBitrateAllocation(u, target)).encoder_config_
                 = s.encoder_config_
           /\ SetEncoderRates(s, UpdateBitrateAllocation(u, target)).last_frame_info_
                 = s.last_frame_info_
<1> DEFINE new == UpdateBitrateAllocation(u, target)
           old == s.last_encoder_rate_settings_
           changed == old = None \/ old.allocation # new.allocation
           kept == [s EXCEPT !.last_encoder_rate_settings_ = new]
           told == [kept EXCEPT !.allocation =
                       UpdateAllocationFromEncoderInfo(s.encoder_, new.allocation)]
           full == [told EXCEPT !.rates = new.allocation,
                 !.layers = CreateVideoLayersAllocation(s.send_codec_, new.allocation)]
           t == SetEncoderRates(s, new)
<1>1. t = IF s.encoder_ = "" \/ SumOf(new.allocation) = 0 THEN kept
          ELSE IF ~changed THEN told ELSE full
    BY DEF SetEncoderRates
<1>2. s.encoder_initialized_ =>
         /\ new.target > 0 => new.allocation = Allocate(s.send_codec_, new.target)
         /\ ~(new.target > 0) => new.allocation = <<>>
    BY DEF RateInv, Fits, UpdateBitrateAllocation
<1> HIDE DEF new
<1>3. /\ DOMAIN t = DOMAIN s
      /\ t.encoder_ = s.encoder_ /\ t.encoder_config_ = s.encoder_config_
      /\ t.encoder_initialized_ = s.encoder_initialized_
      /\ t.send_codec_ = s.send_codec_ /\ t.rate_allocator_ = s.rate_allocator_
      /\ t.last_frame_info_ = s.last_frame_info_
      /\ t.last_encoder_rate_settings_ = new
    BY <1>1 DEF RateInv, RateMembers
<1>4. ASSUME s.encoder_initialized_, SumOf(new.allocation) # 0
      PROVE  /\ t.rates = new.allocation
             /\ t.layers = CreateVideoLayersAllocation(s.send_codec_, new.allocation)
             /\ t.allocation = UpdateAllocationFromEncoderInfo(s.encoder_, new.allocation)
  <2>1. s.encoder_ # ""
      BY <1>4 DEF RateInv, Fits
  <2>2. CASE changed
      BY <1>1, <1>4, <2>1, <2>2 DEF RateInv, RateMembers
  <2>3. CASE ~changed
    <3>1. t = told
        BY <1>1, <1>4, <2>1, <2>3
    <3>2. /\ s.rates = new.allocation
          /\ s.layers = CreateVideoLayersAllocation(s.send_codec_, new.allocation)
        BY <1>4, <2>3 DEF RateInv, Told
    <3> QED BY <3>1, <3>2 DEF RateInv, RateMembers
  <2> QED BY <2>2, <2>3
<1> HIDE DEF t
<1>5. Fits(t)
    BY <1>3 DEF RateInv, Fits
<1>6. Told(t)
    BY <1>2, <1>3, <1>4 DEF Told
<1>7. RateInv(t)
    BY <1>3, <1>5, <1>6 DEF RateInv
<1> QED BY <1>3, <1>7 DEF t, new

\* After a change of the encoder or the codec, all is told again
\* (ReconfigureEncoder, 1475-1485).
LEMMA RatesToldAgain ==
    ASSUME NEW s, RateMembers \subseteq DOMAIN s, Fits(s)
    PROVE  RateInv(RatesAgain(s))
<1> DEFINE t == [s EXCEPT !.last_encoder_rate_settings_ = None]
           target == s.last_encoder_rate_settings_.target
<1>1. RateInv(t) /\ t.rate_allocator_ = s.rate_allocator_
    BY DEF RateInv, RateMembers, Fits, Told
<1>2. SendAgain(s) = SetEncoderRates(t, UpdateBitrateAllocation(s, target))
    BY DEF SendAgain
<1> HIDE DEF t, target
<1>3. RateInv(SendAgain(s))
    BY <1>1, <1>2, RatesTold
<1>4. s.rate_allocator_ = None \/ s.last_encoder_rate_settings_ = None => RateInv(s)
    BY DEF RateInv, Fits, Told
<1> QED BY <1>3, <1>4 DEF RatesAgain

LEMMA SwitchRates ==
    ASSUME NEW s, NEW outcome, RateMembers \subseteq DOMAIN s
    PROVE  AsRated(s, RequestEncoderSwitch(s, outcome))
BY DEF RequestEncoderSwitch, AsRated, RateMembers

LEMMA FinishedRates ==
    ASSUME NEW s, NEW outcome, RateMembers \subseteq DOMAIN s
    PROVE  AsRated(s, Finished(s, outcome))
<1> DEFINE done == [s EXCEPT !.pending_encoder_creation_ = FALSE,
                             !.pending_encoder_reconfiguration_ = FALSE,
                             !.encoder_configuration_callbacks_ = 0]
<1>1. AsRated(s, done) /\ DOMAIN done = DOMAIN s
    BY DEF AsRated, RateMembers
<1>2. Finished(s, outcome) = IF s.encoder_initialized_ THEN done
                             ELSE RequestEncoderSwitch(done, outcome)
    BY DEF Finished
<1> HIDE DEF done
<1>3. AsRated(done, RequestEncoderSwitch(done, outcome))
    BY <1>1, SwitchRates
<1> QED BY <1>1, <1>2, <1>3, AsRatedTwice

\* t is s with another codec.
Recoded(s, t, codec) ==
    /\ DOMAIN t = DOMAIN s
    /\ t.encoder_ = s.encoder_ /\ t.encoder_config_ = s.encoder_config_
    /\ t.last_frame_info_ = s.last_frame_info_
    /\ t.send_codec_ = codec

LEMMA InstalledRates ==
    ASSUME NEW s, NEW codec, NEW outcome, RateMembers \subseteq DOMAIN s
    PROVE  Recoded(s, Installed(s, codec, outcome), codec)
BY DEF Installed, InitEncode, ReleaseEncoder, RateMembers, Recoded

\* Whatever the encoder and the codec were before.
LEMMA ConfiguredRates ==
    ASSUME NEW s, NEW outcome, RateMembers \subseteq DOMAIN s,
           s.encoder_ # "", s.encoder_ = s.encoder_config_.format,
           s.last_frame_info_ # None
    PROVE  RateInv(Configured(s, outcome))
<1> DEFINE codec == ConfiguredCodec(s.encoder_config_, s.last_frame_info_.size,
                                    s.latest_restrictions_,
                                    s.encoder_target_bitrate_bps_)
           cropping == CropTo(s, codec.size)
           ready == Installed(cropping, codec, outcome)
           allocating == Allocating(ready)
           again == RatesAgain(allocating)
<1>1. Configured(s, outcome) = Finished(again, outcome)
    BY DEF Configured
<1>2. codec.format = s.encoder_config_.format /\ codec # None
    BY ONLY CodecFormat
<1> HIDE DEF codec
<1>3. AsRated(s, cropping) /\ RateMembers \subseteq DOMAIN cropping
    BY DEF CropTo, AsRated, RateMembers
<1> HIDE DEF cropping
<1>4. Recoded(cropping, ready, codec)
    BY <1>3, InstalledRates
<1> HIDE DEF ready
<1>5. Recoded(s, ready, codec)
    BY <1>3, <1>4 DEF AsRated, Recoded
<1>6. /\ DOMAIN allocating = DOMAIN s
      /\ allocating.encoder_ = s.encoder_
      /\ allocating.encoder_config_ = s.encoder_config_
      /\ allocating.last_frame_info_ = s.last_frame_info_
      /\ allocating.send_codec_ = codec
      /\ allocating.encoder_initialized_ = ready.encoder_initialized_
      /\ allocating.rate_allocator_ = IF ready.encoder_initialized_ THEN codec ELSE None
    BY <1>5 DEF Allocating, RateMembers, Recoded
<1> HIDE DEF allocating
<1>7. Fits(allocating)
    BY <1>2, <1>6 DEF Fits
<1>8. RateInv(again)
    BY <1>6, <1>7, RatesToldAgain
<1> HIDE DEF again
<1> QED BY <1>1, <1>8, FinishedRates, AsRatedKeeps DEF RateInv

\* With an order to create an encoder, or with the rates in force.
LEMMA ReconfigureRates ==
    ASSUME NEW s, NEW outcome, RateMembers \subseteq DOMAIN s,
           s.encoder_config_ \in Configs, s.last_frame_info_ # None,
           s.pending_encoder_creation_ \/ RateInv(s)
    PROVE  RateInv(ReconfigureEncoder(s, outcome))
<1> DEFINE released == ReleaseEncoder(s)
           made == [released EXCEPT !.encoder_ = s.encoder_config_.format]
           none == [released EXCEPT !.encoder_ = ""]
           ended == [s EXCEPT !.missing = TRUE]
<1>1. s.encoder_config_.format # ""
    BY EncoderInputs
<1>2. /\ DOMAIN made = DOMAIN s /\ made.encoder_ = s.encoder_config_.format
      /\ made.encoder_config_ = s.encoder_config_
      /\ made.last_frame_info_ = s.last_frame_info_
    BY DEF ReleaseEncoder, RateMembers
<1>3. RateInv(none)
    BY DEF ReleaseEncoder, RateMembers, RateInv, Fits, Told
<1>4. AsRated(s, ended)
    BY DEF AsRated, RateMembers
<1>5. ReconfigureEncoder(s, outcome) =
         IF s.pending_encoder_creation_
         THEN IF outcome.made THEN Configured(made, outcome)
              ELSE RequestEncoderSwitch(none, outcome)
         ELSE IF s.encoder_ = "" THEN ended ELSE Configured(s, outcome)
    BY DEF ReconfigureEncoder
<1> HIDE DEF made, none, ended
<1>6. RateInv(Configured(made, outcome))
    BY <1>1, <1>2, ConfiguredRates
<1>7. RateInv(RequestEncoderSwitch(none, outcome))
    BY <1>3, SwitchRates, AsRatedKeeps DEF RateInv
<1>8. ASSUME ~s.pending_encoder_creation_, s.encoder_ = "" PROVE RateInv(ended)
    BY <1>4, <1>8, AsRatedKeeps
<1>9. ASSUME ~s.pending_encoder_creation_, s.encoder_ # ""
      PROVE  RateInv(Configured(s, outcome))
    BY <1>9, ConfiguredRates DEF RateInv, Fits
<1> QED BY <1>5, <1>6, <1>7, <1>8, <1>9

\* Frames do not change the rates, except that the first one after a change has the
\* encoder configured.
LEMMA DropRates ==
    ASSUME NEW s, NEW frame, RateMembers \subseteq DOMAIN s
    PROVE  AsRated(s, ProcessDroppedFrame(s, frame))
BY DEF ProcessDroppedFrame, AsRated, RateMembers

LEMMA KeepOrDropRates ==
    ASSUME NEW s, NEW frame, RateMembers \subseteq DOMAIN s
    PROVE  AsRated(s, KeepOrDrop(s, frame))
BY DEF KeepOrDrop, ProcessDroppedFrame, AsRated, RateMembers

LEMMA EncodeRates ==
    ASSUME NEW s, NEW frame, NEW cropped, NEW outcome, RateMembers \subseteq DOMAIN s
    PROVE  AsRated(s, Encode(s, frame, cropped, outcome))
BY DEF Encode, RequestEncoderSwitch, AsRated, RateMembers

LEMMA EncodeFrameRates ==
    ASSUME NEW s, NEW frame, NEW outcome, RateMembers \subseteq DOMAIN s
    PROVE  AsRated(s, EncodeVideoFrame(s, frame, outcome))
<1> DEFINE cropped == s.crop # <<0, 0>> /\ ~(frame.native /\ Info[s.encoder_].native)
           tried == [s EXCEPT !.encoder_paused_and_dropped_frame_ = FALSE]
           uncut == Lost(tried, frame)
           unused == Lost(s, frame)
<1>1. EncodeVideoFrame(s, frame, outcome) =
         IF s.encoder_fallback_requested_ \/ ~s.encoder_initialized_ THEN unused
         ELSE IF cropped /\ ~outcome.cropped THEN uncut
         ELSE Encode(tried, frame, cropped, outcome)
    BY DEF EncodeVideoFrame
<1>2. AsRated(s, unused) /\ AsRated(s, tried) /\ AsRated(s, uncut)
    BY DEF Lost, AsRated, RateMembers
<1> HIDE DEF cropped, tried, uncut, unused
<1>3. AsRated(tried, Encode(tried, frame, cropped, outcome))
    BY <1>2, EncodeRates DEF AsRated
<1> QED BY <1>1, <1>2, <1>3, AsRatedTwice

LEMMA EncodeOrDropRates ==
    ASSUME NEW ready, NEW frame, NEW outcome, RateMembers \subseteq DOMAIN ready
    PROVE  AsRated(ready, EncodeOrDrop(ready, frame, outcome))
<1> DEFINE before == IF ready.pending_frame_ = None THEN ready
                     ELSE ProcessDroppedFrame(ready, ready.pending_frame_)
           free == [before EXCEPT !.pending_frame_ = None, !.owed = FALSE]
           small == [before EXCEPT !.owed = EncoderPaused(before),
                 !.lapsed = frame.native /\ ~before.encoder_paused_and_dropped_frame_]
           paused == [before EXCEPT !.owed = TRUE, !.lapsed = FALSE,
                 !.encoder_paused_and_dropped_frame_ = Noted(before, frame)]
<1>1. \/ EncodeOrDrop(ready, frame, outcome) = KeepOrDrop(small, frame)
      \/ EncodeOrDrop(ready, frame, outcome) = KeepOrDrop(paused, frame)
      \/ EncodeOrDrop(ready, frame, outcome) = ProcessDroppedFrame(free, frame)
      \/ EncodeOrDrop(ready, frame, outcome) = EncodeVideoFrame(free, frame, outcome)
    BY DEF EncodeOrDrop
<1>2. AsRated(ready, before) /\ RateMembers \subseteq DOMAIN before
    BY DropRates DEF AsRated
<1> HIDE DEF before
<1>3. AsRated(before, free) /\ AsRated(before, small) /\ AsRated(before, paused)
    BY <1>2 DEF AsRated, RateMembers
<1> HIDE DEF free, small, paused
<1>4. /\ AsRated(small, KeepOrDrop(small, frame))
      /\ AsRated(paused, KeepOrDrop(paused, frame))
      /\ AsRated(free, ProcessDroppedFrame(free, frame))
      /\ AsRated(free, EncodeVideoFrame(free, frame, outcome))
    BY <1>2, <1>3, KeepOrDropRates, DropRates, EncodeFrameRates DEF AsRated
<1> QED BY <1>1, <1>2, <1>3, <1>4, AsRatedTwice

LEMMA MaybeEncodeRates ==
    ASSUME NEW s, NEW frame, NEW outcome, RateInv(s), s.encoder_config_ \in Configs
    PROVE  RateInv(MaybeEncodeVideoFrame(s, frame, outcome))
<1> DEFINE seen == Observed(s, frame)
           ready == UpToDate(seen, outcome)
<1>1. \/ MaybeEncodeVideoFrame(s, frame, outcome) = ready
      \/ MaybeEncodeVideoFrame(s, frame, outcome) = EncodeOrDrop(ready, frame, outcome)
    BY DEF MaybeEncodeVideoFrame
<1>2. /\ RateInv(seen) /\ seen.last_frame_info_ # None
      /\ seen.encoder_config_ \in Configs
  <2> DEFINE info == [size |-> frame.size, is_texture |-> frame.native]
             fresh == [s EXCEPT !.last_frame_info_ = info,
                                !.accumulated_update_rect_ = All,
                                !.pending_encoder_reconfiguration_ = TRUE]
  <2>1. info # None
    <3>1. DOMAIN info = {"size", "is_texture"} /\ DOMAIN None = {}
        BY DEF None
    <3> QED BY <3>1
  <2>2. seen = IF s.last_frame_info_ = info THEN s ELSE fresh
      BY DEF Observed
  <2> HIDE DEF info
  <2>3. /\ RateInv(fresh) /\ fresh.last_frame_info_ = info
        /\ fresh.encoder_config_ = s.encoder_config_
      BY <2>1 DEF RateInv, RateMembers, Fits, Told
  <2> HIDE DEF fresh, seen
  <2> QED BY <2>1, <2>2, <2>3
<1> HIDE DEF seen
<1>3. RateInv(ready)
  <2> DEFINE target == seen.last_encoder_rate_settings_.target
  <2>1. \/ ready = ReconfigureEncoder(seen, outcome)
        \/ ready = SetEncoderRates(seen, UpdateBitrateAllocation(seen, target))
        \/ ready = seen
      BY DEF UpToDate
  <2> HIDE DEF ready, target
  <2> QED BY <1>2, <2>1, ReconfigureRates, RatesTold DEF RateInv
<1> HIDE DEF ready
<1> QED BY <1>1, <1>3, EncodeOrDropRates, AsRatedKeeps DEF RateInv

LEMMA ResumedRates ==
    ASSUME NEW s, NEW outcome, RateMembers \subseteq DOMAIN s
    PROVE  AsRated(s, Resumed(s, outcome))
<1> DEFINE frame == s.pending_frame_
           free == [s EXCEPT !.pending_frame_ = None]
           expired == Lost(free, frame)
           asking == [s EXCEPT !.refresh = TRUE]
<1>1. \/ Resumed(s, outcome) = s
      \/ Resumed(s, outcome) = expired
      \/ Resumed(s, outcome) = EncodeVideoFrame(free, frame, outcome)
      \/ Resumed(s, outcome) = asking
    BY DEF Resumed
<1>2. AsRated(s, s) /\ AsRated(s, free) /\ AsRated(s, expired) /\ AsRated(s, asking)
    BY DEF Lost, AsRated, RateMembers
<1> HIDE DEF frame, free, expired, asking
<1>3. AsRated(free, EncodeVideoFrame(free, frame, outcome))
    BY <1>2, EncodeFrameRates DEF AsRated
<1> QED BY <1>1, <1>2, <1>3, AsRatedTwice

LEMMA RateInit == Init => RateInv(vse)
<1> SUFFICES ASSUME Init PROVE RateInv(vse)
    OBVIOUS
<1> QED BY DEF Init, RateInv, RateMembers, Fits, Told

\* A configuration of another format, or the first, orders another encoder; one of
\* the same format may do with the one there is (ConfigureEncoder).
LEMMA RateConfigureTask == IInv /\ RateInv(vse) /\ ConfigureTask => RateInv(vse')
<1> SUFFICES ASSUME IInv, RateInv(vse), ConfigureTask PROVE RateInv(vse')
    OBVIOUS
<1> DEFINE config == Head(posted)
           creation == vse.encoder_ = "" \/ FormatChanged(vse.encoder_config_, config)
           set == [vse EXCEPT
              !.pending_encoder_creation_ = creation,
              !.encoder_config_ = config,
              !.pending_encoder_reconfiguration_ = TRUE]
           noted == [set EXCEPT !.encoder_configuration_callbacks_ = @ + 1]
<1>1. PICK outcome \in Possible :
         vse' = IF vse.last_frame_info_ = None THEN set
                ELSE ReconfigureEncoder(noted, outcome)
    BY DEF ConfigureTask
<1>2. config \in Configs
    BY DEF ConfigureTask, IInv
<1>3. /\ DOMAIN set = DOMAIN vse /\ set.encoder_config_ = config
      /\ set.encoder_ = vse.encoder_
      /\ set.encoder_initialized_ = vse.encoder_initialized_
      /\ set.send_codec_ = vse.send_codec_
      /\ set.rate_allocator_ = vse.rate_allocator_
      /\ set.last_encoder_rate_settings_ = vse.last_encoder_rate_settings_
      /\ set.last_frame_info_ = vse.last_frame_info_
      /\ set.rates = vse.rates /\ set.layers = vse.layers
      /\ set.allocation = vse.allocation
      /\ set.pending_encoder_creation_ = creation
    BY DEF RateInv, RateMembers
<1>4. ~creation => config.format = vse.encoder_config_.format
    BY DEF FormatChanged
<1>5. ~creation => vse.encoder_ # ""
    OBVIOUS
<1> HIDE DEF config, creation, set
<1>6. AsRated(set, noted) /\ noted.pending_encoder_creation_ = creation
    BY <1>3 DEF AsRated, RateInv, RateMembers
<1> HIDE DEF noted
<1>7. vse.encoder_ = "" \/ ~creation => RateInv(set)
    BY <1>3, <1>4 DEF RateInv, Fits, Told
<1>8. CASE vse.last_frame_info_ = None
  <2>1. vse.encoder_ = ""
      BY <1>8 DEF RateInv, Fits
  <2> QED BY <1>1, <1>7, <1>8, <2>1
<1>9. CASE vse.last_frame_info_ # None
  <2>1. /\ RateMembers \subseteq DOMAIN noted
        /\ noted.encoder_config_ \in Configs /\ noted.last_frame_info_ # None
        /\ noted.pending_encoder_creation_ \/ RateInv(noted)
      BY <1>2, <1>3, <1>6, <1>7, <1>9, AsRatedKeeps DEF AsRated, RateInv
  <2> QED BY <1>1, <1>9, <2>1, ReconfigureRates
<1> QED BY <1>8, <1>9

LEMMA RateOnFrame == RateInv(vse) /\ OnFrame => RateInv(vse')
<1> SUFFICES ASSUME RateInv(vse), OnFrame PROVE RateInv(vse')
    OBVIOUS
<1> DEFINE interval == vse.cwnd_frame_drop_interval_
           arrived(frame) == [vse EXCEPT !.unseen = @ \cup {frame.id}, !.refresh = FALSE,
                                         !.owed = @ /\ EncoderPaused(vse)]
           counted(frame) == [arrived(frame) EXCEPT !.cwnd_frame_counter_ =
                                 IF interval = 0 THEN @ ELSE @ + 1]
<1>1. \E frame : \/ vse' = ProcessDroppedFrame(arrived(frame), frame)
                  \/ vse' = ProcessDroppedFrame(counted(frame), frame)
                  \/ vse' = MaybePrepareVideoFrame(counted(frame), frame)
    BY DEF OnFrame
<1>2. PICK frame : \/ vse' = ProcessDroppedFrame(arrived(frame), frame)
                   \/ vse' = ProcessDroppedFrame(counted(frame), frame)
                   \/ vse' = MaybePrepareVideoFrame(counted(frame), frame)
    BY <1>1
<1> DEFINE a == arrived(frame)
           c == counted(frame)
<1>3. AsRated(vse, a) /\ AsRated(vse, c)
    BY DEF RateInv, AsRated, RateMembers
<1>4. /\ vse' = ProcessDroppedFrame(a, frame) \/ vse' = ProcessDroppedFrame(c, frame)
         \/ vse' = MaybePrepareVideoFrame(c, frame)
    BY <1>2
<1> HIDE DEF a, c
<1>5. RateInv(a) /\ RateInv(c)
    BY <1>3, AsRatedKeeps
<1>6. /\ AsRated(a, ProcessDroppedFrame(a, frame))
      /\ AsRated(c, ProcessDroppedFrame(c, frame))
    BY <1>5, DropRates DEF RateInv
<1>7. AsRated(c, MaybePrepareVideoFrame(c, frame))
    BY <1>5, <1>6 DEF MaybePrepareVideoFrame, RateInv, AsRated, RateMembers
<1> QED BY <1>4, <1>5, <1>6, <1>7, AsRatedKeeps

LEMMA RateSendPrepared == IInv /\ RateInv(vse) /\ SendPrepared => RateInv(vse')
<1> SUFFICES ASSUME IInv, RateInv(vse), SendPrepared PROVE RateInv(vse')
    OBVIOUS
<1> DEFINE frame == Head(vse.pending_mapped_frames_).frame
           left == [vse EXCEPT !.pending_mapped_frames_ = Tail(@)]
<1>1. PICK outcome \in Possible : vse' = MaybeEncodeVideoFrame(left, frame, outcome)
    BY DEF SendPrepared
<1>2. vse.encoder_config_ \in Configs
    BY DEF SendPrepared, IInv, Kept
<1>3. AsRated(vse, left)
    BY DEF RateInv, AsRated, RateMembers
<1> HIDE DEF frame, left
<1>4. RateInv(left) /\ left.encoder_config_ \in Configs
    BY <1>2, <1>3, AsRatedKeeps DEF AsRated
<1> QED BY <1>1, <1>4, MaybeEncodeRates

LEMMA RateBitrate == RateInv(vse) /\ OnBitrateUpdated => RateInv(vse')
<1> SUFFICES ASSUME RateInv(vse), OnBitrateUpdated PROVE RateInv(vse')
    OBVIOUS
<1>1. PICK interval, rate, outcome : \/ vse' = AtRate(vse, interval, rate)
                                     \/ vse' = Resumed(AtRate(vse, interval, rate), outcome)
    BY DEF OnBitrateUpdated
<1> DEFINE start == [vse EXCEPT !.cwnd_frame_drop_interval_ = interval]
           set == SetEncoderRates(start, UpdateBitrateAllocation(vse, rate))
           noted == AtRate(vse, interval, rate)
<1>2. noted = [set EXCEPT !.encoder_target_bitrate_bps_ = IF rate # 0 THEN rate ELSE @]
    BY DEF AtRate
<1>3. AsRated(vse, start)
    BY DEF RateInv, AsRated, RateMembers
<1> HIDE DEF start
<1>4. RateInv(set)
    BY <1>3, AsRatedKeeps, RatesTold DEF AsRated
<1> HIDE DEF set
<1>5. AsRated(set, noted)
    BY <1>2, <1>4 DEF RateInv, AsRated, RateMembers
<1> HIDE DEF noted
<1>6. RateInv(noted)
    BY <1>4, <1>5, AsRatedKeeps
<1>7. RateInv(Resumed(noted, outcome))
    BY <1>6, ResumedRates, AsRatedKeeps DEF RateInv
<1> QED BY <1>1, <1>6, <1>7 DEF noted

LEMMA RateNext == IInv /\ RateInv(vse) /\ [Next]_vars => RateInv(vse')
<1> SUFFICES ASSUME IInv, RateInv(vse), [Next]_vars PROVE RateInv(vse')
    OBVIOUS
<1>1. CASE ConfigureEncoder
  <2>1. AsRated(vse, vse')
      BY <1>1 DEF ConfigureEncoder, RateInv, AsRated, RateMembers
  <2> QED BY <2>1, AsRatedKeeps
<1>2. CASE OnFramePrepared
  <2>1. AsRated(vse, vse')
      BY <1>2 DEF OnFramePrepared, RateInv, AsRated, RateMembers
  <2> QED BY <2>1, AsRatedKeeps
<1>3. CASE SendKeyFrame
  <2>1. AsRated(vse, vse')
      BY <1>3 DEF SendKeyFrame, RateInv, AsRated, RateMembers
  <2> QED BY <2>1, AsRatedKeeps
<1>4. CASE OnVideoSourceRestrictionsUpdated
  <2>1. AsRated(vse, vse')
      BY <1>4 DEF OnVideoSourceRestrictionsUpdated, RateInv, AsRated, RateMembers
  <2> QED BY <2>1, AsRatedKeeps
<1>5. CASE Stop
  <2>1. /\ DOMAIN vse' = DOMAIN vse
        /\ vse'.encoder_ = "" /\ ~vse'.encoder_initialized_
      BY <1>5 DEF Stop, ReleaseEncoder, RateInv, RateMembers
  <2> QED BY <2>1 DEF RateInv, Fits, Told
<1>6. CASE SecondPasses
  <2>1. AsRated(vse, vse')
      BY <1>6 DEF SecondPasses, RateInv, AsRated, RateMembers
  <2> QED BY <2>1, AsRatedKeeps
<1>7. CASE UNCHANGED vars
    BY <1>7 DEF vars
<1> QED BY <1>1, <1>2, <1>3, <1>4, <1>5, <1>6, <1>7, RateConfigureTask, RateOnFrame,
           RateSendPrepared, RateBitrate DEF Next

\* An encoder in use is of the configuration's format and runs at what its present
\* codec is allocated of the newest target, and the sink was told the same, in
\* whatever order the configuration, the encoder, the codec and the target change
\* (SetEncoderRates, ReconfigureEncoder).
THEOREM SpecRatesInForce == Spec => []RatesInForce
<1> DEFINE Throughout == IInv /\ RateInv(vse)
<1>1. Throughout => RatesInForce
  <2> SUFFICES ASSUME RateInv(vse) PROVE RatesInForce
      OBVIOUS
  <2> DEFINE settings == vse.last_encoder_rate_settings_
             codec == vse.send_codec_
             expected == Allocate(codec, settings.target)
  <2> SUFFICES ASSUME vse.encoder_initialized_, settings # None
               PROVE  /\ vse.encoder_ = codec.format
                      /\ vse.encoder_ = vse.encoder_config_.format
                      /\ settings.target > 0 /\ SumOf(expected) > 0 =>
                            /\ settings.allocation = expected /\ vse.rates = expected
                            /\ vse.layers = CreateVideoLayersAllocation(codec, expected)
                            /\ vse.allocation =
                                  UpdateAllocationFromEncoderInfo(vse.encoder_, expected)
      BY DEF RatesInForce
  <2>1. SumOf(expected) > 0 => SumOf(expected) # 0
      OBVIOUS
  <2> HIDE DEF expected
  <2>2. settings.target > 0 => settings.allocation = expected
      BY DEF RateInv, Told, expected
  <2> QED BY <2>1, <2>2 DEF RateInv, Fits, Told
<1>2. Throughout /\ [Next]_vars => Throughout'
    BY NextKeeps, RateNext
<1>3. Init => Throughout
    BY InitInv, RateInit
<1> HIDE DEF Throughout
<1> QED BY <1>1, <1>2, <1>3, PTL DEF Spec

-----------------------------------------------------------------------------
(* The end of a pause.                                                      *)

PauseMembers == {"owed", "pending_frame_", "encoder_paused_and_dropped_frame_",
                 "lapsed", "refresh", "last_encoder_rate_settings_",
                 "pending_mapped_frames_"}

\* What is owed is pending or was noted, and once the pause is over, is on its way.
Shown(s) ==
    /\ s.owed => \/ s.pending_frame_ # None \/ s.encoder_paused_and_dropped_frame_
                 \/ s.lapsed
    /\ s.owed /\ ~EncoderPaused(s) => s.refresh \/ s.pending_frame_ # None \/ s.lapsed

\* The frames in preparation are frames.
FramesOnly(queue) ==
    \E S : /\ queue \in Seq(S)
           /\ \A x \in S : "frame" \in DOMAIN x /\ x.frame # None

AsPaused(s, t) ==
    /\ DOMAIN t = DOMAIN s
    /\ t.owed = s.owed
    /\ t.pending_frame_ = s.pending_frame_
    /\ t.encoder_paused_and_dropped_frame_ = s.encoder_paused_and_dropped_frame_
    /\ t.lapsed = s.lapsed
    /\ t.refresh = s.refresh
    /\ t.pending_mapped_frames_ = s.pending_mapped_frames_
    /\ EncoderPaused(t) <=> EncoderPaused(s)

\* Nothing is owed any more, or what is owed is one of the known losses.
Settled(s, t) ==
    /\ DOMAIN t = DOMAIN s
    /\ t.pending_mapped_frames_ = s.pending_mapped_frames_
    /\ t.owed => t.lapsed

PauseInv(s) ==
    /\ PauseMembers \subseteq DOMAIN s
    /\ Shown(s)
    /\ FramesOnly(s.pending_mapped_frames_)

LEMMA AsPausedTwice ==
    ASSUME NEW s, NEW t, NEW u, AsPaused(s, t), AsPaused(t, u)
    PROVE  AsPaused(s, u)
BY DEF AsPaused

LEMMA AsPausedShows ==
    ASSUME NEW s, NEW t, AsPaused(s, t), PauseInv(s)
    PROVE  PauseInv(t)
BY DEF AsPaused, PauseInv, Shown

LEMMA SettledShows ==
    ASSUME NEW s, NEW t, Settled(s, t), PauseInv(s)
    PROVE  PauseInv(t)
BY DEF Settled, PauseInv, Shown

\* Settings are never mistaken for none.
LEMMA SettingsAreSome ==
    ASSUME NEW s, NEW target
    PROVE  /\ UpdateBitrateAllocation(s, target) # None
           /\ UpdateBitrateAllocation(s, target).target = target
<1>1. DOMAIN UpdateBitrateAllocation(s, target) = {"target", "allocation"}
    BY DEF UpdateBitrateAllocation
<1>2. DOMAIN None = {}
    BY DEF None
<1> QED BY <1>1, <1>2 DEF UpdateBitrateAllocation

\* New rates touch nothing but the target (SetEncoderRates).
LEMMA RatesPauses ==
    ASSUME NEW s, NEW new, PauseMembers \subseteq DOMAIN s
    PROVE  LET t == SetEncoderRates(s, new)
           IN  /\ t.last_encoder_rate_settings_ = new
               /\ DOMAIN t = DOMAIN s
               /\ t.owed = s.owed
               /\ t.pending_frame_ = s.pending_frame_
               /\ t.encoder_paused_and_dropped_frame_ = s.encoder_paused_and_dropped_frame_
               /\ t.lapsed = s.lapsed
               /\ t.refresh = s.refresh
               /\ t.pending_mapped_frames_ = s.pending_mapped_frames_
BY DEF SetEncoderRates, PauseMembers

LEMMA SameTargetPauses ==
    ASSUME NEW s, PauseMembers \subseteq DOMAIN s, s.last_encoder_rate_settings_ # None
    PROVE  AsPaused(s, SetEncoderRates(s, UpdateBitrateAllocation(s,
                          s.last_encoder_rate_settings_.target)))
<1> DEFINE new == UpdateBitrateAllocation(s, s.last_encoder_rate_settings_.target)
           t == SetEncoderRates(s, new)
<1>1. new # None /\ new.target = s.last_encoder_rate_settings_.target
    BY SettingsAreSome
<1> HIDE DEF new
<1>2. AsPaused(s, t)
    BY <1>1, RatesPauses DEF AsPaused, EncoderPaused
<1> QED BY <1>2 DEF new

LEMMA SwitchPauses ==
    ASSUME NEW s, NEW outcome, PauseMembers \subseteq DOMAIN s
    PROVE  AsPaused(s, RequestEncoderSwitch(s, outcome))
BY DEF RequestEncoderSwitch, AsPaused, PauseMembers, EncoderPaused

LEMMA RatesAgainPauses ==
    ASSUME NEW s, PauseMembers \subseteq DOMAIN s
    PROVE  AsPaused(s, RatesAgain(s))
<1> DEFINE t == [s EXCEPT !.last_encoder_rate_settings_ = None]
           new == UpdateBitrateAllocation(s, s.last_encoder_rate_settings_.target)
           u == SetEncoderRates(t, new)
<1>1. new # None /\ new.target = s.last_encoder_rate_settings_.target
    BY SettingsAreSome
<1>2. /\ DOMAIN t = DOMAIN s
      /\ t.owed = s.owed
      /\ t.pending_frame_ = s.pending_frame_
      /\ t.encoder_paused_and_dropped_frame_ = s.encoder_paused_and_dropped_frame_
      /\ t.lapsed = s.lapsed
      /\ t.refresh = s.refresh
      /\ t.pending_mapped_frames_ = s.pending_mapped_frames_
    BY DEF PauseMembers
<1>3. SendAgain(s) = u
    BY DEF SendAgain
<1> HIDE DEF t, new
<1>4. ASSUME s.last_encoder_rate_settings_ # None PROVE AsPaused(s, u)
    BY <1>1, <1>2, <1>4, RatesPauses DEF AsPaused, EncoderPaused
<1>5. AsPaused(s, s)
    BY DEF AsPaused
<1> QED BY <1>3, <1>4, <1>5 DEF RatesAgain

LEMMA FinishedPauses ==
    ASSUME NEW s, NEW outcome, PauseMembers \subseteq DOMAIN s
    PROVE  AsPaused(s, Finished(s, outcome))
<1> DEFINE done == [s EXCEPT !.pending_encoder_creation_ = FALSE,
                             !.pending_encoder_reconfiguration_ = FALSE,
                             !.encoder_configuration_callbacks_ = 0]
<1>1. AsPaused(s, done) /\ DOMAIN done = DOMAIN s
    BY DEF AsPaused, PauseMembers, EncoderPaused
<1>2. Finished(s, outcome) = IF s.encoder_initialized_ THEN done
                             ELSE RequestEncoderSwitch(done, outcome)
    BY DEF Finished
<1> HIDE DEF done
<1>3. AsPaused(done, RequestEncoderSwitch(done, outcome))
    BY <1>1, SwitchPauses
<1> QED BY <1>1, <1>2, <1>3, AsPausedTwice

LEMMA InstalledPauses ==
    ASSUME NEW s, NEW codec, NEW outcome, PauseMembers \subseteq DOMAIN s
    PROVE  AsPaused(s, Installed(s, codec, outcome))
<1> DEFINE set == [s EXCEPT !.send_codec_ = codec]
           reset == s.pending_encoder_creation_
                    \/ RequiresEncoderReset(s.send_codec_, codec,
                          s.was_encode_called_since_last_initialization_)
<1>1. Installed(s, codec, outcome) =
         IF reset THEN InitEncode(set, outcome.initialized) ELSE set
    BY DEF Installed
<1>2. AsPaused(s, set) /\ DOMAIN set = DOMAIN s
    BY DEF AsPaused, PauseMembers, EncoderPaused
<1> HIDE DEF set, reset
<1>3. AsPaused(set, InitEncode(set, outcome.initialized))
    BY <1>2 DEF InitEncode, ReleaseEncoder, AsPaused, PauseMembers, EncoderPaused
<1> QED BY <1>1, <1>2, <1>3, AsPausedTwice

LEMMA ConfiguredPauses ==
    ASSUME NEW s, NEW outcome, PauseMembers \subseteq DOMAIN s
    PROVE  AsPaused(s, Configured(s, outcome))
<1> DEFINE codec == ConfiguredCodec(s.encoder_config_, s.last_frame_info_.size,
                                    s.latest_restrictions_,
                                    s.encoder_target_bitrate_bps_)
           cropping == CropTo(s, codec.size)
           ready == Installed(cropping, codec, outcome)
           allocating == Allocating(ready)
           again == RatesAgain(allocating)
<1>1. Configured(s, outcome) = Finished(again, outcome)
    BY DEF Configured
<1> HIDE DEF codec
<1>2. AsPaused(s, cropping) /\ PauseMembers \subseteq DOMAIN cropping
    BY DEF CropTo, AsPaused, PauseMembers, EncoderPaused
<1> HIDE DEF cropping
<1>3. AsPaused(cropping, ready) /\ PauseMembers \subseteq DOMAIN ready
    BY <1>2, InstalledPauses DEF AsPaused
<1> HIDE DEF ready
<1>4. AsPaused(ready, allocating) /\ PauseMembers \subseteq DOMAIN allocating
    BY <1>3 DEF Allocating, AsPaused, PauseMembers, EncoderPaused
<1> HIDE DEF allocating
<1>5. AsPaused(allocating, again) /\ PauseMembers \subseteq DOMAIN again
    BY <1>4, RatesAgainPauses DEF AsPaused
<1> HIDE DEF again
<1>6. AsPaused(again, Finished(again, outcome))
    BY <1>5, FinishedPauses
<1> QED BY <1>1, <1>2, <1>3, <1>4, <1>5, <1>6, AsPausedTwice

LEMMA ReconfigurePauses ==
    ASSUME NEW s, NEW outcome, PauseMembers \subseteq DOMAIN s
    PROVE  AsPaused(s, ReconfigureEncoder(s, outcome))
<1> DEFINE released == ReleaseEncoder(s)
           made == [released EXCEPT !.encoder_ = s.encoder_config_.format]
           none == [released EXCEPT !.encoder_ = ""]
           ended == [s EXCEPT !.missing = TRUE]
<1>1. AsPaused(s, made) /\ AsPaused(s, none) /\ AsPaused(s, ended)
    BY DEF ReleaseEncoder, AsPaused, PauseMembers, EncoderPaused
<1>2. ReconfigureEncoder(s, outcome) =
         IF s.pending_encoder_creation_
         THEN IF outcome.made THEN Configured(made, outcome)
              ELSE RequestEncoderSwitch(none, outcome)
         ELSE IF s.encoder_ = "" THEN ended ELSE Configured(s, outcome)
    BY DEF ReconfigureEncoder
<1> HIDE DEF made, none, ended
<1>3. /\ AsPaused(made, Configured(made, outcome))
      /\ AsPaused(none, RequestEncoderSwitch(none, outcome))
      /\ AsPaused(s, Configured(s, outcome))
    BY <1>1, ConfiguredPauses, SwitchPauses DEF AsPaused
<1> QED BY <1>1, <1>2, <1>3, AsPausedTwice

LEMMA DropPauses ==
    ASSUME NEW s, NEW frame, PauseMembers \subseteq DOMAIN s
    PROVE  AsPaused(s, ProcessDroppedFrame(s, frame))
BY DEF ProcessDroppedFrame, AsPaused, PauseMembers, EncoderPaused

LEMMA EncodePauses ==
    ASSUME NEW s, NEW frame, NEW cropped, NEW outcome, PauseMembers \subseteq DOMAIN s
    PROVE  /\ DOMAIN Encode(s, frame, cropped, outcome) = DOMAIN s
           /\ Encode(s, frame, cropped, outcome).pending_mapped_frames_
                 = s.pending_mapped_frames_
           /\ Encode(s, frame, cropped, outcome).owed =>
                 Encode(s, frame, cropped, outcome).lapsed
BY DEF Encode, RequestEncoderSwitch, PauseMembers

\* A frame that was owed is encoded, or it is lost in one of the ways that are known
\* (EncodeVideoFrame).
LEMMA EncodeFrameSettles ==
    ASSUME NEW s, NEW frame, NEW outcome, PauseMembers \subseteq DOMAIN s
    PROVE  Settled(s, EncodeVideoFrame(s, frame, outcome))
<1> DEFINE cropped == s.crop # <<0, 0>> /\ ~(frame.native /\ Info[s.encoder_].native)
           tried == [s EXCEPT !.encoder_paused_and_dropped_frame_ = FALSE]
           uncut == Lost(tried, frame)
           unused == Lost(s, frame)
<1>1. EncodeVideoFrame(s, frame, outcome) =
         IF s.encoder_fallback_requested_ \/ ~s.encoder_initialized_ THEN unused
         ELSE IF cropped /\ ~outcome.cropped THEN uncut
         ELSE Encode(tried, frame, cropped, outcome)
    BY DEF EncodeVideoFrame
<1>2. Settled(s, unused) /\ Settled(s, uncut)
    BY DEF Lost, Settled, PauseMembers
<1>3. DOMAIN tried = DOMAIN s /\ tried.pending_mapped_frames_ = s.pending_mapped_frames_
    BY DEF PauseMembers
<1> HIDE DEF cropped, tried, uncut, unused
<1>4. Settled(s, Encode(tried, frame, cropped, outcome))
    BY <1>3, EncodePauses DEF Settled
<1> QED BY <1>1, <1>2, <1>4

LEMMA UpToDatePauses ==
    ASSUME NEW s, NEW outcome, PauseMembers \subseteq DOMAIN s
    PROVE  AsPaused(s, UpToDate(s, outcome))
BY ReconfigurePauses, SameTargetPauses DEF UpToDate, AsPaused

\* A frame that the pause stops is kept, or noted as dropped (MaybeEncodeVideoFrame).
LEMMA StoppedIsShown ==
    ASSUME NEW s, NEW frame, PauseInv(s), EncoderPaused(s), frame # None
    PROVE  PauseInv(KeepOrDrop([s EXCEPT !.owed = TRUE, !.lapsed = FALSE,
                 !.encoder_paused_and_dropped_frame_ = Noted(s, frame)], frame))
<1> DEFINE paused == [s EXCEPT !.owed = TRUE, !.lapsed = FALSE,
                 !.encoder_paused_and_dropped_frame_ = Noted(s, frame)]
           given == [paused EXCEPT !.pending_frame_ = None]
           keeping == [paused EXCEPT !.pending_frame_ = frame, !.old = FALSE]
<1>1. KeepOrDrop(paused, frame) = IF ~frame.native THEN keeping
                                  ELSE ProcessDroppedFrame(given, frame)
    BY DEF KeepOrDrop
<1>2. /\ DOMAIN paused = DOMAIN s /\ EncoderPaused(paused)
      /\ paused.pending_mapped_frames_ = s.pending_mapped_frames_
      /\ paused.encoder_paused_and_dropped_frame_ = Noted(s, frame)
    BY DEF PauseInv, PauseMembers, EncoderPaused
<1> HIDE DEF paused
<1>3. PauseInv(keeping)
    BY <1>2 DEF PauseInv, Shown, PauseMembers, EncoderPaused
<1>4. ASSUME frame.native PROVE PauseInv(given)
  <2>1. Noted(s, frame)
      BY <1>4 DEF Noted
  <2> QED BY <1>2, <2>1 DEF PauseInv, Shown, PauseMembers, EncoderPaused
<1> HIDE DEF keeping, given
<1>5. ASSUME frame.native PROVE PauseInv(ProcessDroppedFrame(given, frame))
    BY <1>4, <1>5, DropPauses, AsPausedShows DEF PauseInv
<1> QED BY <1>1, <1>3, <1>5 DEF paused

\* A frame that is dropped for its size is kept, or its drop was noted before, or it is
\* lost as a native one (MaybeEncodeVideoFrame).
LEMMA SmallIsShown ==
    ASSUME NEW s, NEW frame, PauseInv(s), frame # None
    PROVE  PauseInv(KeepOrDrop([s EXCEPT !.owed = EncoderPaused(s),
                 !.lapsed = frame.native /\ ~s.encoder_paused_and_dropped_frame_], frame))
<1> DEFINE noted == s.encoder_paused_and_dropped_frame_
           stopped == EncoderPaused(s)
           lost == frame.native /\ ~noted
           small == [s EXCEPT !.owed = stopped, !.lapsed = lost]
           given == [small EXCEPT !.pending_frame_ = None]
           keeping == [small EXCEPT !.pending_frame_ = frame, !.old = FALSE]
<1>1. KeepOrDrop(small, frame) = IF ~frame.native THEN keeping
                                 ELSE ProcessDroppedFrame(given, frame)
    BY DEF KeepOrDrop
<1>2. /\ DOMAIN small = DOMAIN s
      /\ small.owed = stopped /\ small.lapsed = lost
      /\ small.last_encoder_rate_settings_ = s.last_encoder_rate_settings_
      /\ small.pending_mapped_frames_ = s.pending_mapped_frames_
      /\ small.encoder_paused_and_dropped_frame_ = noted
  <2> HIDE DEF stopped, lost
  <2> QED BY DEF PauseInv, PauseMembers
<1> HIDE DEF small
<1>3. PauseInv(keeping)
  <2> HIDE DEF noted, lost, stopped
  <2>1. /\ DOMAIN keeping = DOMAIN s /\ keeping.pending_frame_ # None
        /\ keeping.pending_mapped_frames_ = s.pending_mapped_frames_
      BY <1>2 DEF PauseInv, PauseMembers
  <2> HIDE DEF keeping
  <2> QED BY <2>1 DEF PauseInv, Shown
<1>4. ASSUME frame.native PROVE PauseInv(given)
  <2>1. /\ DOMAIN given = DOMAIN s
        /\ given.owed = stopped /\ given.lapsed = lost
        /\ given.last_encoder_rate_settings_ = s.last_encoder_rate_settings_
        /\ given.pending_mapped_frames_ = s.pending_mapped_frames_
        /\ given.encoder_paused_and_dropped_frame_ = noted
    <3> HIDE DEF noted, lost, stopped
    <3> QED BY <1>2 DEF PauseInv, PauseMembers
  <2> HIDE DEF given
  <2>2. EncoderPaused(given) <=> stopped
      BY <2>1 DEF EncoderPaused
  <2>3. given.encoder_paused_and_dropped_frame_ \/ given.lapsed
      BY <1>4, <2>1
  <2> HIDE DEF noted, lost, stopped
  <2> QED BY <2>1, <2>2, <2>3 DEF PauseInv, Shown
<1> HIDE DEF keeping, given
<1>5. ASSUME frame.native PROVE PauseInv(ProcessDroppedFrame(given, frame))
    BY <1>4, <1>5, DropPauses, AsPausedShows DEF PauseInv
<1> QED BY <1>1, <1>3, <1>5 DEF small, stopped, lost, noted

LEMMA EncodeOrDropShows ==
    ASSUME NEW ready, NEW frame, NEW outcome, PauseInv(ready), frame # None
    PROVE  PauseInv(EncodeOrDrop(ready, frame, outcome))
<1> DEFINE before == IF ready.pending_frame_ = None THEN ready
                     ELSE ProcessDroppedFrame(ready, ready.pending_frame_)
           free == [before EXCEPT !.pending_frame_ = None, !.owed = FALSE]
           small == [before EXCEPT !.owed = EncoderPaused(before),
                 !.lapsed = frame.native /\ ~before.encoder_paused_and_dropped_frame_]
           paused == [before EXCEPT !.owed = TRUE, !.lapsed = FALSE,
                 !.encoder_paused_and_dropped_frame_ = Noted(before, frame)]
<1>1. \/ EncodeOrDrop(ready, frame, outcome) = KeepOrDrop(small, frame)
      \/ /\ EncoderPaused(before)
         /\ EncodeOrDrop(ready, frame, outcome) = KeepOrDrop(paused, frame)
      \/ EncodeOrDrop(ready, frame, outcome) = ProcessDroppedFrame(free, frame)
      \/ EncodeOrDrop(ready, frame, outcome) = EncodeVideoFrame(free, frame, outcome)
    BY DEF EncodeOrDrop
<1>2. PauseInv(before)
    BY DropPauses, AsPausedShows DEF PauseInv
<1> HIDE DEF before
<1>3. EncoderPaused(before) => PauseInv(KeepOrDrop(paused, frame))
    BY <1>2, StoppedIsShown
<1>4. PauseInv(KeepOrDrop(small, frame))
    BY <1>2, SmallIsShown
<1>5. Settled(before, free)
    BY <1>2 DEF PauseInv, Settled, PauseMembers
<1> HIDE DEF free, small, paused
<1>6. PauseInv(free)
    BY <1>2, <1>5, SettledShows
<1>7. PauseInv(ProcessDroppedFrame(free, frame))
    BY <1>6, DropPauses, AsPausedShows DEF PauseInv
<1>8. PauseInv(EncodeVideoFrame(free, frame, outcome))
    BY <1>6, EncodeFrameSettles, SettledShows DEF PauseInv
<1> QED BY <1>1, <1>3, <1>4, <1>7, <1>8

LEMMA MaybeEncodeShows ==
    ASSUME NEW s, NEW frame, NEW outcome, PauseInv(s), frame # None
    PROVE  PauseInv(MaybeEncodeVideoFrame(s, frame, outcome))
<1> DEFINE seen == Observed(s, frame)
           ready == UpToDate(seen, outcome)
<1>1. \/ MaybeEncodeVideoFrame(s, frame, outcome) = ready
      \/ MaybeEncodeVideoFrame(s, frame, outcome) = EncodeOrDrop(ready, frame, outcome)
    BY DEF MaybeEncodeVideoFrame
<1>2. AsPaused(s, seen)
    BY DEF PauseInv, Observed, AsPaused, PauseMembers, EncoderPaused
<1> HIDE DEF seen
<1>3. PauseInv(seen)
    BY <1>2, AsPausedShows
<1>4. PauseInv(ready)
    BY <1>3, UpToDatePauses, AsPausedShows DEF PauseInv
<1> HIDE DEF ready
<1> QED BY <1>1, <1>4, EncodeOrDropShows

\* On a resume the pending frame is encoded, waits on or is lost in one of the ways that
\* are known; without one, the source is asked (OnBitrateUpdated).
LEMMA ResumedShows ==
    ASSUME NEW s, NEW outcome, PauseMembers \subseteq DOMAIN s,
           FramesOnly(s.pending_mapped_frames_),
           s.owed => \/ s.pending_frame_ # None \/ s.encoder_paused_and_dropped_frame_
                     \/ s.lapsed
    PROVE  PauseInv(Resumed(s, outcome))
<1> DEFINE frame == s.pending_frame_
           free == [s EXCEPT !.pending_frame_ = None]
           expired == Lost(free, frame)
           asking == [s EXCEPT !.refresh = TRUE]
<1>1. \/ /\ Resumed(s, outcome) = s
         /\ frame # None \/ ~s.encoder_paused_and_dropped_frame_
      \/ Resumed(s, outcome) = expired
      \/ Resumed(s, outcome) = EncodeVideoFrame(free, frame, outcome)
      \/ /\ Resumed(s, outcome) = asking
         /\ s.encoder_paused_and_dropped_frame_
    BY DEF Resumed
<1>2. frame # None \/ ~s.encoder_paused_and_dropped_frame_ => PauseInv(s)
    BY DEF PauseInv, Shown
<1>3. PauseInv(expired)
    BY DEF Lost, PauseInv, Shown, PauseMembers
<1>4. s.encoder_paused_and_dropped_frame_ => PauseInv(asking)
    BY DEF PauseInv, Shown, PauseMembers
<1>5. /\ PauseMembers \subseteq DOMAIN free
      /\ free.pending_mapped_frames_ = s.pending_mapped_frames_
    BY DEF PauseMembers
<1> HIDE DEF frame, free, expired, asking
<1>6. PauseInv(EncodeVideoFrame(free, frame, outcome))
    BY <1>5, EncodeFrameSettles DEF Settled, PauseInv, Shown
<1> QED BY <1>1, <1>2, <1>3, <1>4, <1>6

\* Every task keeps it.
LEMMA PauseInit == Init => PauseInv(vse)
<1> SUFFICES ASSUME Init PROVE PauseInv(vse)
    OBVIOUS
<1>1. <<>> \in Seq({})
    OBVIOUS
<1>2. vse.pending_mapped_frames_ = <<>>
    BY DEF Init
<1>3. FramesOnly(vse.pending_mapped_frames_)
    BY <1>1, <1>2 DEF FramesOnly
<1> QED BY <1>3 DEF Init, PauseInv, PauseMembers, Shown

LEMMA PauseConfigureTask == PauseInv(vse) /\ ConfigureTask => PauseInv(vse')
<1> SUFFICES ASSUME PauseInv(vse), ConfigureTask PROVE PauseInv(vse')
    OBVIOUS
<1> DEFINE config == Head(posted)
           set == [vse EXCEPT
              !.pending_encoder_creation_ =
                 vse.encoder_ = "" \/ FormatChanged(vse.encoder_config_, config),
              !.encoder_config_ = config,
              !.pending_encoder_reconfiguration_ = TRUE]
           noted == [set EXCEPT !.encoder_configuration_callbacks_ = @ + 1]
<1>1. PICK outcome \in Possible :
         vse' = IF vse.last_frame_info_ = None THEN set
                ELSE ReconfigureEncoder(noted, outcome)
    BY DEF ConfigureTask
<1>2. AsPaused(vse, set)
    BY DEF PauseInv, AsPaused, PauseMembers, EncoderPaused
<1>3. AsPaused(set, noted)
    BY DEF PauseInv, AsPaused, PauseMembers, EncoderPaused
<1> HIDE DEF set, noted
<1>4. PauseInv(set) /\ PauseInv(noted)
    BY <1>2, <1>3, AsPausedShows
<1>5. PauseInv(ReconfigureEncoder(noted, outcome))
    BY <1>4, ReconfigurePauses, AsPausedShows DEF PauseInv
<1> QED BY <1>1, <1>4, <1>5

LEMMA PauseOnFrame == PauseInv(vse) /\ OnFrame => PauseInv(vse')
<1> SUFFICES ASSUME PauseInv(vse), OnFrame PROVE PauseInv(vse')
    OBVIOUS
<1> DEFINE interval == vse.cwnd_frame_drop_interval_
           picture(new) == [id |-> used.frames + 1, size |-> new.size,
                            native |-> new.native, known |-> new.known]
           arrived(frame) == [vse EXCEPT !.unseen = @ \cup {frame.id}, !.refresh = FALSE,
                                         !.owed = @ /\ EncoderPaused(vse)]
           counted(frame) == [arrived(frame) EXCEPT !.cwnd_frame_counter_ =
                                 IF interval = 0 THEN @ ELSE @ + 1]
<1>1. PICK new \in Frames :
         \/ vse' = ProcessDroppedFrame(arrived(picture(new)), picture(new))
         \/ vse' = ProcessDroppedFrame(counted(picture(new)), picture(new))
         \/ vse' = MaybePrepareVideoFrame(counted(picture(new)), picture(new))
    BY DEF OnFrame
<1> DEFINE frame == picture(new)
           a == arrived(frame)
           c == counted(frame)
<1>2. \/ vse' = ProcessDroppedFrame(a, frame) \/ vse' = ProcessDroppedFrame(c, frame)
      \/ vse' = MaybePrepareVideoFrame(c, frame)
    BY <1>1
<1>3. frame # None
  <2>1. DOMAIN frame = {"id", "size", "native", "known"} /\ DOMAIN None = {}
      BY DEF None
  <2> QED BY <2>1
<1> HIDE DEF frame
<1>4. PauseInv(a) /\ AsPaused(a, c)
  <2>1. EncoderPaused(a) <=> EncoderPaused(vse)
      BY DEF PauseInv, PauseMembers, EncoderPaused
  <2>2. PauseInv(a)
      BY <2>1 DEF PauseInv, PauseMembers, Shown
  <2>3. AsPaused(a, c)
      BY DEF PauseInv, PauseMembers, AsPaused, EncoderPaused
  <2> QED BY <2>2, <2>3
<1> HIDE DEF a, c
<1>5. PauseInv(c)
    BY <1>4, AsPausedShows
<1>6. PauseInv(ProcessDroppedFrame(a, frame)) /\ PauseInv(ProcessDroppedFrame(c, frame))
    BY <1>4, <1>5, DropPauses, AsPausedShows DEF PauseInv
<1>7. PauseInv(MaybePrepareVideoFrame(c, frame))
  <2> DEFINE task == [frame |-> frame,
                      can_send |-> c.encoder_ = "" \/ ~Info[c.encoder_].mapped]
             more == Append(c.pending_mapped_frames_, task)
             prepared == [c EXCEPT !.pending_mapped_frames_ = more]
  <2>1. \/ MaybePrepareVideoFrame(c, frame) = ProcessDroppedFrame(c, frame)
        \/ MaybePrepareVideoFrame(c, frame) = prepared
      BY DEF MaybePrepareVideoFrame
  <2>2. "frame" \in DOMAIN task /\ task.frame = frame
      OBVIOUS
  <2> HIDE DEF task
  <2>3. FramesOnly(more)
    <3>1. PICK S : /\ c.pending_mapped_frames_ \in Seq(S)
                   /\ \A x \in S : "frame" \in DOMAIN x /\ x.frame # None
        BY <1>5 DEF PauseInv, FramesOnly
    <3>2. more \in Seq(S \cup {task})
        BY <3>1
    <3>3. \A x \in S \cup {task} : "frame" \in DOMAIN x /\ x.frame # None
        BY <1>3, <2>2, <3>1
    <3> HIDE DEF more
    <3> QED BY <3>2, <3>3 DEF FramesOnly
  <2> HIDE DEF more
  <2>4. PauseInv(prepared)
      BY <1>5, <2>3 DEF PauseInv, PauseMembers, Shown, EncoderPaused
  <2> QED BY <1>6, <2>1, <2>4
<1> QED BY <1>2, <1>6, <1>7

LEMMA PauseOnFramePrepared == PauseInv(vse) /\ OnFramePrepared => PauseInv(vse')
<1> SUFFICES ASSUME PauseInv(vse), OnFramePrepared PROVE PauseInv(vse')
    OBVIOUS
<1> DEFINE queue == vse.pending_mapped_frames_
<1>1. PICK k \in DOMAIN queue :
         vse' = [vse EXCEPT !.pending_mapped_frames_[k].can_send = TRUE]
    BY DEF OnFramePrepared
<1> DEFINE task == [queue[k] EXCEPT !.can_send = TRUE]
           sent == [queue EXCEPT ![k] = task]
<1>2. vse' = [vse EXCEPT !.pending_mapped_frames_ = sent]
    BY <1>1
<1>3. PICK S : /\ queue \in Seq(S)
               /\ \A x \in S : "frame" \in DOMAIN x /\ x.frame # None
    BY DEF PauseInv, FramesOnly
<1> HIDE DEF queue
<1>4. "frame" \in DOMAIN task /\ task.frame # None
  <2>1. queue[k] \in S
      BY <1>1, <1>3
  <2> QED BY <1>3, <2>1
<1> HIDE DEF task
<1>5. sent \in Seq(S \cup {task})
    BY <1>1, <1>3
<1> HIDE DEF sent
<1>6. FramesOnly(sent)
    BY <1>3, <1>4, <1>5 DEF FramesOnly
<1> QED BY <1>2, <1>6 DEF PauseInv, PauseMembers, Shown, EncoderPaused

LEMMA PauseSendPrepared == PauseInv(vse) /\ SendPrepared => PauseInv(vse')
<1> SUFFICES ASSUME PauseInv(vse), SendPrepared PROVE PauseInv(vse')
    OBVIOUS
<1> DEFINE queue == vse.pending_mapped_frames_
           frame == Head(queue).frame
           rest == Tail(queue)
           left == [vse EXCEPT !.pending_mapped_frames_ = rest]
<1>1. PICK outcome \in Possible : vse' = MaybeEncodeVideoFrame(left, frame, outcome)
    BY DEF SendPrepared
<1>2. queue # <<>>
    BY DEF SendPrepared
<1>3. PICK S : /\ queue \in Seq(S)
               /\ \A x \in S : "frame" \in DOMAIN x /\ x.frame # None
    BY DEF PauseInv, FramesOnly
<1> HIDE DEF queue
<1>4. frame # None /\ rest \in Seq(S)
    BY <1>2, <1>3
<1> HIDE DEF frame, rest
<1>5. PauseInv(left)
  <2>1. FramesOnly(rest)
      BY <1>3, <1>4 DEF FramesOnly
  <2> QED BY <2>1 DEF PauseInv, PauseMembers, Shown, EncoderPaused
<1> HIDE DEF left
<1> QED BY <1>1, <1>4, <1>5, MaybeEncodeShows

\* A target of zero starts a pause, another one ends it (OnBitrateUpdated).
LEMMA PauseBitrate == PauseInv(vse) /\ OnBitrateUpdated => PauseInv(vse')
<1> SUFFICES ASSUME PauseInv(vse), OnBitrateUpdated PROVE PauseInv(vse')
    OBVIOUS
<1>1. PICK interval, rate, outcome :
         vse' = IF rate # 0 /\ EncoderPaused(vse)
                THEN Resumed(AtRate(vse, interval, rate), outcome)
                ELSE AtRate(vse, interval, rate)
    BY DEF OnBitrateUpdated
<1> DEFINE start == [vse EXCEPT !.cwnd_frame_drop_interval_ = interval]
           new == UpdateBitrateAllocation(vse, rate)
           set == SetEncoderRates(start, new)
           noted == AtRate(vse, interval, rate)
<1>2. noted = [set EXCEPT !.encoder_target_bitrate_bps_ = IF rate # 0 THEN rate ELSE @]
    BY DEF AtRate
<1>3. new # None /\ new.target = rate
    BY SettingsAreSome
<1>4. AsPaused(vse, start)
    BY DEF PauseInv, AsPaused, PauseMembers, EncoderPaused
<1> HIDE DEF start, new
<1>5. /\ set.last_encoder_rate_settings_ = new
      /\ DOMAIN set = DOMAIN vse
      /\ set.owed = vse.owed
      /\ set.pending_frame_ = vse.pending_frame_
      /\ set.encoder_paused_and_dropped_frame_ = vse.encoder_paused_and_dropped_frame_
      /\ set.lapsed = vse.lapsed
      /\ set.refresh = vse.refresh
      /\ set.pending_mapped_frames_ = vse.pending_mapped_frames_
    BY <1>4, RatesPauses DEF PauseInv, AsPaused
<1> HIDE DEF set
<1>6. /\ noted.last_encoder_rate_settings_ = new
      /\ DOMAIN noted = DOMAIN vse
      /\ noted.owed = vse.owed
      /\ noted.pending_frame_ = vse.pending_frame_
      /\ noted.encoder_paused_and_dropped_frame_ = vse.encoder_paused_and_dropped_frame_
      /\ noted.lapsed = vse.lapsed
      /\ noted.refresh = vse.refresh
      /\ noted.pending_mapped_frames_ = vse.pending_mapped_frames_
    BY <1>2, <1>5 DEF PauseInv, PauseMembers
<1> HIDE DEF noted
<1>7. EncoderPaused(noted) <=> rate = 0
    BY <1>3, <1>6 DEF EncoderPaused
<1>8. rate = 0 \/ ~EncoderPaused(vse) => PauseInv(noted)
    BY <1>6, <1>7 DEF PauseInv, Shown
<1>9. PauseInv(Resumed(noted, outcome))
    BY <1>6, ResumedShows DEF PauseInv, Shown
<1> QED BY <1>1, <1>8, <1>9 DEF noted

LEMMA PauseNext == PauseInv(vse) /\ [Next]_vars => PauseInv(vse')
<1> SUFFICES ASSUME PauseInv(vse), [Next]_vars PROVE PauseInv(vse')
    OBVIOUS
<1>1. CASE ConfigureEncoder
  <2>1. PICK config \in Configs :
           vse' = [vse EXCEPT !.wants = WantsOf(config),
                              !.refresh = @ \/ vse.wants # WantsOf(config)]
      BY <1>1 DEF ConfigureEncoder
  <2> DEFINE asks == vse.wants # WantsOf(config)
  <2>2. vse' = [vse EXCEPT !.wants = WantsOf(config), !.refresh = vse.refresh \/ asks]
      BY <2>1
  <2> HIDE DEF asks
  <2> QED BY <2>2 DEF PauseInv, PauseMembers, Shown, EncoderPaused
<1>2. CASE SendKeyFrame
  <2>1. AsPaused(vse, vse')
      BY <1>2 DEF SendKeyFrame, PauseInv, AsPaused, PauseMembers, EncoderPaused
  <2> QED BY <2>1, AsPausedShows
<1>3. CASE OnVideoSourceRestrictionsUpdated
  <2>1. AsPaused(vse, vse')
      BY <1>3 DEF OnVideoSourceRestrictionsUpdated, PauseInv, AsPaused, PauseMembers,
         EncoderPaused
  <2> QED BY <2>1, AsPausedShows
<1>4. CASE Stop
  <2>1. AsPaused(vse, vse')
      BY <1>4 DEF Stop, ReleaseEncoder, PauseInv, AsPaused, PauseMembers, EncoderPaused
  <2> QED BY <2>1, AsPausedShows
<1>5. CASE SecondPasses
  <2>1. AsPaused(vse, vse')
      BY <1>5 DEF SecondPasses, PauseInv, AsPaused, PauseMembers, EncoderPaused
  <2> QED BY <2>1, AsPausedShows
<1>6. CASE UNCHANGED vars
    BY <1>6 DEF vars
<1> QED BY <1>1, <1>2, <1>3, <1>4, <1>5, <1>6, PauseConfigureTask, PauseOnFrame,
           PauseOnFramePrepared, PauseSendPrepared, PauseBitrate DEF Next

\* A frame that a pause stopped is shown after it, however often the pause comes and
\* goes while frames, configurations and encoders change: it waits, or the source was
\* asked for another, unless it became too old (MaybeEncodeVideoFrame,
\* OnBitrateUpdated).
THEOREM SpecResumeShows == Spec => []ResumeShows
<1>1. PauseInv(vse) => ResumeShows
    BY DEF PauseInv, Shown, ResumeShows
<1> DEFINE Throughout == PauseInv(vse)
<1>2. Throughout /\ [Next]_vars => Throughout'
    BY PauseNext
<1>3. Init => Throughout
    BY PauseInit
<1>4. Throughout => ResumeShows
    BY <1>1
<1> HIDE DEF Throughout
<1> QED BY <1>2, <1>3, <1>4, PTL DEF Spec

-----------------------------------------------------------------------------
(* What the encoder is given.                                               *)

\* A size within another.
FitsIn(small, large) ==
    /\ small \in Nat \X Nat
    /\ small[1] <= large[1] /\ small[2] <= large[2]

LEMMA AlignedWithin ==
    ASSUME NEW size \in Nat \X Nat
    PROVE  FitsIn(Aligned(size), size)
<1>1. \A x \in Nat : x % Alignment \in Nat /\ x % Alignment <= x
  BY FactoryLimits
<1> QED BY <1>1 DEF Aligned, FitsIn

LEMMA SmallerWithin ==
    ASSUME NEW size \in Nat \X Nat
    PROVE  FitsIn(Smaller(size, 2), size)
<1> DEFINE half == <<size[1] \div 2, size[2] \div 2>>
<1>1. half \in Nat \X Nat /\ half[1] <= size[1] /\ half[2] <= size[2]
  OBVIOUS
<1>2. Smaller(size, 2) = Aligned(half)
  BY DEF Smaller, Aligned
<1> HIDE DEF half
<1>3. FitsIn(Aligned(half), half)
  BY <1>1, AlignedWithin
<1> QED BY <1>1, <1>2, <1>3 DEF FitsIn

\* Limits change no size.
SizesOf(streams, other) ==
    /\ DOMAIN streams = DOMAIN other
    /\ \A i \in DOMAIN streams : /\ "size" \in DOMAIN streams[i]
                                 /\ streams[i].size = other[i].size

LEMMA LimitsKeepSizes ==
    ASSUME NEW config, NEW streams, SizesOf(streams, streams),
           DOMAIN streams = 1..Len(streams)
    PROVE  /\ SizesOf(SingleStreamLimits(config, streams), streams)
           /\ SizesOf(ApplyEncoderBitrateLimitsIfSingleActiveStream(config, streams),
                      streams)
<1>1. SizesOf(SingleStreamLimits(config, streams), streams)
  <2> DEFINE limit == Info[config.format].limit
             open == Untrusted(config, streams[1], UntrustedLimit(config.format))
             both == Intersected(config, streams[1], limit)
  <2>1. CASE SingleStreamLimits(config, streams) = streams
    BY <2>1 DEF SizesOf
  <2>2. CASE SingleStreamLimits(config, streams) # streams
    <3>1. /\ Len(streams) = 1
          /\ \/ SingleStreamLimits(config, streams) = <<open>>
             \/ SingleStreamLimits(config, streams) = <<both>>
      BY <2>2 DEF SingleStreamLimits
    <3>2. /\ DOMAIN streams = {1}
          /\ "size" \in DOMAIN streams[1]
      BY <3>1 DEF SizesOf
    <3>3. /\ "size" \in DOMAIN open /\ open.size = streams[1].size
          /\ "size" \in DOMAIN both /\ both.size = streams[1].size
      BY <3>2 DEF Untrusted, Intersected
    <3> HIDE DEF open, both
    <3>4. /\ DOMAIN <<open>> = {1} /\ DOMAIN <<both>> = {1}
          /\ <<open>>[1] = open /\ <<both>>[1] = both
      OBVIOUS
    <3> QED BY <3>1, <3>2, <3>3, <3>4 DEF SizesOf
  <2> QED BY <2>1, <2>2
<1>2. SizesOf(ApplyEncoderBitrateLimitsIfSingleActiveStream(config, streams), streams)
  BY DEF SizesOf, ApplyEncoderBitrateLimitsIfSingleActiveStream, Within
<1> QED BY <1>1, <1>2

\* A codec is never larger than the frames it is configured for (ReconfigureEncoder).
LEMMA CodecFitsFrame ==
    ASSUME NEW config \in Configs, NEW size \in Nat \X Nat, NEW max_pixels, NEW target
    PROVE  FitsIn(ConfiguredCodec(config, size, max_pixels, target).size, size)
<1> DEFINE created == CreateEncoderStreams(config, size, max_pixels)
           limited == SingleStreamLimits(config, created)
           applied == ApplyEncoderBitrateLimitsIfSingleActiveStream(config, limited)
           highest == StreamSize(config, size, max_pixels)
           n == IF Scalable(config.format) THEN 1 ELSE Len(config.layers)
<1>1. FitsIn(highest, size)
  BY AlignedWithin, SmallerWithin DEF StreamSize
<1>2. n \in Nat \ {0}
  <2>1. Len(config.layers) \in Nat \ {0}
    BY EncoderInputs
  <2> QED BY <2>1
<1>3. /\ created = [i \in 1..n |-> created[i]]
      /\ \A i \in 1..n : "size" \in DOMAIN created[i]
      /\ created[n].size = highest
  <2>1. CASE Scalable(config.format)
    <3> DEFINE one == [StreamOf(config, config.layers[Len(config.layers)], highest)
                          EXCEPT !.active = NumActiveStreams(config.layers) > 0]
    <3>1. created = <<one>> /\ n = 1
      BY <2>1 DEF CreateEncoderStreams
    <3>2. "size" \in DOMAIN one /\ one.size = highest
      BY DEF StreamOf
    <3> HIDE DEF one, created, highest, n
    <3>3. created = [i \in 1..1 |-> created[i]] /\ created[1] = one
      BY <3>1
    <3> QED BY <3>1, <3>2, <3>3
  <2>2. CASE ~Scalable(config.format)
    <3>1. created = [i \in 1..n |-> StreamOf(config, config.layers[i],
                         IF i = n THEN highest ELSE Smaller(highest, 2 ^ (n - i)))]
      BY <2>2 DEF CreateEncoderStreams
    <3> HIDE DEF created, highest, n
    <3>2. \A i \in 1..n : "size" \in DOMAIN created[i]
      BY <3>1 DEF StreamOf
    <3>3. created[n].size = highest
      BY <1>2, <3>1 DEF StreamOf
    <3> QED BY <3>1, <3>2, <3>3
  <2> QED BY <2>1, <2>2
<1> HIDE DEF created, highest, n
<1>4. SizesOf(created, created) /\ DOMAIN created = 1..n /\ Len(created) = n
      /\ DOMAIN created = 1..Len(created)
  BY <1>2, <1>3, LengthOfDomain DEF SizesOf
<1>5. SizesOf(limited, created)
  BY <1>4, LimitsKeepSizes
<1>6. \E m \in Nat : limited = [i \in 1..m |-> limited[i]]
  <2>1. \/ limited = created
        \/ \E stream : limited = <<stream>>
      BY DEF SingleStreamLimits
  <2>2. ASSUME NEW stream, limited = <<stream>>
        PROVE  \E m \in Nat : limited = [i \in 1..m |-> limited[i]]
    <3>1. limited = [i \in 1..1 |-> limited[i]]
        BY <2>2
    <3> QED BY <3>1
  <2> QED BY <1>2, <1>3, <2>1, <2>2
<1> HIDE DEF limited
<1>7. DOMAIN limited = 1..Len(limited) /\ SizesOf(limited, limited)
  BY <1>5, <1>6, LengthOfDomain DEF SizesOf, Numbered
<1>8. SizesOf(applied, limited)
  BY <1>7, LimitsKeepSizes
<1>9. applied = [i \in DOMAIN limited |-> applied[i]]
  BY DEF ApplyEncoderBitrateLimitsIfSingleActiveStream
<1> HIDE DEF applied
<1>10. Len(applied) = n /\ applied[n].size = highest
  <2>1. DOMAIN limited = 1..n
    BY <1>4, <1>5 DEF SizesOf
  <2>2. Len(applied) = n
    BY <1>2, <1>9, <2>1, LengthOfDomain
  <2> QED BY <1>2, <1>3, <1>4, <1>5, <1>8, <2>1, <2>2 DEF SizesOf
<1>11. ConfiguredCodec(config, size, max_pixels, target).size
          = applied[Len(applied)].size
  BY DEF ConfiguredCodec, WithLimits, SetupCodec, applied, limited, created
<1> QED BY <1>1, <1>10, <1>11

\* A frame as the encoder queue gets it.
Picture(f) == "id" \in DOMAIN f /\ f.id \in All /\ f.size \in Nat \X Nat

PictureMembers == {"unseen", "lost", "accumulated_update_rect_",
                   "accumulated_update_rect_is_valid_", "pending_frame_",
                   "pending_mapped_frames_", "call", "crop", "send_codec_",
                   "last_frame_info_", "encoder_", "encoder_initialized_",
                   "encoder_config_", "encoder_fallback_requested_",
                   "pending_encoder_creation_", "pending_encoder_reconfiguration_"}

\* Newer than what the encoder was given and what waits for it.
Before(s, id) ==
    /\ s.call.frame < id
    /\ s.pending_frame_ # None => s.pending_frame_.id < id

Pictures(queue) ==
    \E S : /\ queue \in Seq(S)
           /\ \A x \in S : "frame" \in DOMAIN x /\ Picture(x.frame)

Ascending(queue) ==
    \A j, k \in DOMAIN queue : j < k => queue[j].frame.id < queue[k].frame.id

\* The frame that was encoded last, the one that waits for a resume and those in
\* preparation have come in this order, the last one as number n or before.
Lined(s, n) ==
    /\ s.call.frame \in Nat /\ s.call.frame <= n
    /\ s.pending_frame_ # None =>
          /\ Picture(s.pending_frame_)
          /\ s.pending_frame_.id <= n /\ s.call.frame < s.pending_frame_.id
    /\ Pictures(s.pending_mapped_frames_)
    /\ Ascending(s.pending_mapped_frames_)
    /\ \A k \in DOMAIN s.pending_mapped_frames_ :
          LET id == s.pending_mapped_frames_[k].frame.id IN id <= n /\ Before(s, id)

\* The areas whose change a frame brings that has not reached the encoder yet.
Coming(s) ==
    {a \in All : \/ s.pending_frame_ # None /\ a = s.pending_frame_.id
                 \/ \E k \in DOMAIN s.pending_mapped_frames_ :
                       a = s.pending_mapped_frames_[k].frame.id}

\* What the encoder has not seen is lost, was dropped, or is coming; X are frames
\* that are neither.
Covered(s, X) ==
    /\ s.accumulated_update_rect_ \subseteq All
    /\ s.unseen \subseteq All
    /\ s.unseen \subseteq s.lost \cup s.accumulated_update_rect_ \cup Coming(s) \cup X

\* What is left of a frame after cropping is what the codec was configured for.
Fitted(s) ==
    s.encoder_initialized_ =>
       /\ s.encoder_ # ""
       /\ s.last_frame_info_.size \in Nat \X Nat
       /\ FitsIn(s.send_codec_.size, s.last_frame_info_.size)
       /\ s.crop = <<s.last_frame_info_.size[1] - s.send_codec_.size[1],
                     s.last_frame_info_.size[2] - s.send_codec_.size[2]>>

GivenRight(s) ==
    /\ s.call # NoCall => s.call.after < s.call.frame
    /\ s.call.fits
    /\ s.call.missed = {}

\* The frame that waits is of the size last seen.
Placed(s) ==
    /\ s.last_frame_info_ # None => s.last_frame_info_.size \in Nat \X Nat
    /\ s.pending_frame_ # None => s.pending_frame_.size = s.last_frame_info_.size

\* Where every change is, in order, with the frames X in hand.
Underway(s, n, X) ==
    /\ PictureMembers \subseteq DOMAIN s
    /\ Lined(s, n) /\ Covered(s, X) /\ GivenRight(s)

PictureInv(s, n) == Underway(s, n, {}) /\ Fitted(s) /\ Placed(s)

\* Nothing that matters here changed.
AsGiven(s, t) ==
    /\ DOMAIN t = DOMAIN s
    /\ t.unseen = s.unseen /\ t.lost = s.lost
    /\ t.accumulated_update_rect_ = s.accumulated_update_rect_
    /\ t.accumulated_update_rect_is_valid_ = s.accumulated_update_rect_is_valid_
    /\ t.pending_frame_ = s.pending_frame_
    /\ t.pending_mapped_frames_ = s.pending_mapped_frames_
    /\ t.call = s.call /\ t.crop = s.crop
    /\ t.send_codec_ = s.send_codec_
    /\ t.last_frame_info_ = s.last_frame_info_
    /\ t.encoder_ = s.encoder_ /\ t.encoder_config_ = s.encoder_config_
    /\ t.encoder_initialized_ = s.encoder_initialized_
    /\ t.encoder_fallback_requested_ = s.encoder_fallback_requested_

\* The encoder and its codec may have changed, the frames not.
SameFrames(s, t) ==
    /\ DOMAIN t = DOMAIN s
    /\ t.accumulated_update_rect_ = s.accumulated_update_rect_
    /\ t.accumulated_update_rect_is_valid_ = s.accumulated_update_rect_is_valid_
    /\ t.pending_frame_ = s.pending_frame_
    /\ t.pending_mapped_frames_ = s.pending_mapped_frames_
    /\ t.call = s.call
    /\ t.last_frame_info_ = s.last_frame_info_
    /\ t.encoder_config_ = s.encoder_config_
    /\ t.unseen = s.unseen /\ t.lost = s.lost

LEMMA AsGivenTwice ==
    ASSUME NEW s, NEW t, NEW u, AsGiven(s, t), AsGiven(t, u)
    PROVE  AsGiven(s, u)
BY DEF AsGiven

LEMMA AsGivenSame ==
    ASSUME NEW s, NEW t, AsGiven(s, t)
    PROVE  SameFrames(s, t) /\ (Fitted(s) => Fitted(t))
BY DEF AsGiven, SameFrames, Fitted

LEMMA SameFramesTwice ==
    ASSUME NEW s, NEW t, NEW u, SameFrames(s, t), SameFrames(t, u)
    PROVE  SameFrames(s, u)
BY DEF SameFrames

LEMMA SameFramesUnderway ==
    ASSUME NEW s, NEW t, NEW n, NEW X, SameFrames(s, t), Underway(s, n, X)
    PROVE  Underway(t, n, X) /\ (Placed(s) => Placed(t))
<1>1. Lined(t, n)
    BY DEF SameFrames, Underway, Lined, Before
<1>2. Coming(t) = Coming(s)
    BY DEF SameFrames, Coming
<1>3. Covered(t, X)
    BY <1>2 DEF SameFrames, Underway, Covered
<1>4. GivenRight(t) /\ (Placed(s) => Placed(t))
    BY DEF SameFrames, Underway, GivenRight, Placed
<1> QED BY <1>1, <1>3, <1>4 DEF Underway, SameFrames

LEMMA AsGivenKeeps ==
    ASSUME NEW s, NEW t, NEW n, AsGiven(s, t), PictureInv(s, n)
    PROVE  PictureInv(t, n)
BY AsGivenSame, SameFramesUnderway DEF PictureInv

LEMMA RatesGiven ==
    ASSUME NEW s, NEW new, PictureMembers \subseteq DOMAIN s
    PROVE  AsGiven(s, SetEncoderRates(s, new))
BY DEF SetEncoderRates, AsGiven, PictureMembers

LEMMA RatesAgainGiven ==
    ASSUME NEW s, PictureMembers \subseteq DOMAIN s
    PROVE  AsGiven(s, RatesAgain(s))
<1> DEFINE t == [s EXCEPT !.last_encoder_rate_settings_ = None]
           new == UpdateBitrateAllocation(s, s.last_encoder_rate_settings_.target)
<1>1. AsGiven(s, t) /\ AsGiven(s, s) /\ PictureMembers \subseteq DOMAIN t
    BY DEF AsGiven, PictureMembers
<1>2. SendAgain(s) = SetEncoderRates(t, new)
    BY DEF SendAgain
<1> HIDE DEF t, new
<1>3. AsGiven(t, SetEncoderRates(t, new))
    BY <1>1, RatesGiven
<1> QED BY <1>1, <1>2, <1>3, AsGivenTwice DEF RatesAgain

\* The encoder that is given up gets no frame any more (RequestEncoderSwitch).
LEMMA SwitchGiven ==
    ASSUME NEW s, NEW outcome, PictureMembers \subseteq DOMAIN s
    PROVE  /\ SameFrames(s, RequestEncoderSwitch(s, outcome))
           /\ Fitted(s) => Fitted(RequestEncoderSwitch(s, outcome))
BY DEF RequestEncoderSwitch, SameFrames, PictureMembers, Fitted

LEMMA FinishedGiven ==
    ASSUME NEW s, NEW outcome, PictureMembers \subseteq DOMAIN s
    PROVE  /\ SameFrames(s, Finished(s, outcome))
           /\ Fitted(s) => Fitted(Finished(s, outcome))
<1> DEFINE done == [s EXCEPT !.pending_encoder_creation_ = FALSE,
                             !.pending_encoder_reconfiguration_ = FALSE,
                             !.encoder_configuration_callbacks_ = 0]
<1>1. AsGiven(s, done) /\ PictureMembers \subseteq DOMAIN done
    BY DEF AsGiven, PictureMembers
<1>2. Finished(s, outcome) = IF s.encoder_initialized_ THEN done
                             ELSE RequestEncoderSwitch(done, outcome)
    BY DEF Finished
<1> HIDE DEF done
<1>3. SameFrames(s, done) /\ (Fitted(s) => Fitted(done))
    BY <1>1, AsGivenSame
<1>4. /\ SameFrames(done, RequestEncoderSwitch(done, outcome))
      /\ Fitted(done) => Fitted(RequestEncoderSwitch(done, outcome))
    BY <1>1, SwitchGiven
<1> QED BY <1>2, <1>3, <1>4, SameFramesTwice

\* A new encoder has seen nothing yet, and what was lost stays lost (InitEncode).
LEMMA InstalledGiven ==
    ASSUME NEW s, NEW codec, NEW outcome, PictureMembers \subseteq DOMAIN s
    PROVE  /\ SameFrames(s, Installed(s, codec, outcome))
           /\ Recoded(s, Installed(s, codec, outcome), codec)
           /\ Installed(s, codec, outcome).crop = s.crop
<1> DEFINE set == [s EXCEPT !.send_codec_ = codec]
           reset == s.pending_encoder_creation_
                    \/ RequiresEncoderReset(s.send_codec_, codec,
                          s.was_encode_called_since_last_initialization_)
           fresh == [ReleaseEncoder(set) EXCEPT
                    !.was_encode_called_since_last_initialization_ = FALSE,
                    !.encoder_fallback_requested_ = FALSE]
           started == InitEncode(set, TRUE)
<1>1. Installed(s, codec, outcome) =
         IF reset THEN InitEncode(set, outcome.initialized) ELSE set
    BY DEF Installed
<1>2. /\ SameFrames(s, set) /\ DOMAIN set = DOMAIN s
      /\ Recoded(s, set, codec) /\ set.crop = s.crop
    BY DEF SameFrames, Recoded, PictureMembers
<1> HIDE DEF set, reset
<1>3. InitEncode(set, outcome.initialized) = IF ~outcome.initialized THEN fresh ELSE started
    BY DEF InitEncode
<1>4. /\ DOMAIN fresh = DOMAIN s /\ ~fresh.encoder_initialized_
      /\ fresh.unseen = set.unseen /\ fresh.lost = set.lost
    BY <1>2 DEF ReleaseEncoder, PictureMembers
<1>5. /\ DOMAIN started = DOMAIN s
      /\ started.unseen = set.unseen /\ started.lost = set.lost
    BY <1>2 DEF InitEncode, ReleaseEncoder, PictureMembers
<1>6. /\ SameFrames(set, fresh) /\ Recoded(set, fresh, codec) /\ fresh.crop = set.crop
  <2>1. /\ fresh.accumulated_update_rect_ = set.accumulated_update_rect_
        /\ fresh.accumulated_update_rect_is_valid_ = set.accumulated_update_rect_is_valid_
        /\ fresh.pending_frame_ = set.pending_frame_
        /\ fresh.pending_mapped_frames_ = set.pending_mapped_frames_
        /\ fresh.call = set.call /\ fresh.crop = set.crop
        /\ fresh.last_frame_info_ = set.last_frame_info_
        /\ fresh.encoder_config_ = set.encoder_config_
        /\ fresh.encoder_ = set.encoder_ /\ fresh.send_codec_ = set.send_codec_
      BY <1>2 DEF ReleaseEncoder, PictureMembers
  <2> HIDE DEF fresh
  <2> QED BY <1>2, <1>4, <2>1 DEF SameFrames, Recoded
<1>7. /\ SameFrames(set, started) /\ Recoded(set, started, codec)
      /\ started.crop = set.crop
  <2>1. /\ started.accumulated_update_rect_ = set.accumulated_update_rect_
        /\ started.accumulated_update_rect_is_valid_
              = set.accumulated_update_rect_is_valid_
        /\ started.pending_frame_ = set.pending_frame_
        /\ started.pending_mapped_frames_ = set.pending_mapped_frames_
        /\ started.call = set.call /\ started.crop = set.crop
        /\ started.last_frame_info_ = set.last_frame_info_
        /\ started.encoder_config_ = set.encoder_config_
        /\ started.encoder_ = set.encoder_ /\ started.send_codec_ = set.send_codec_
      BY <1>2 DEF InitEncode, ReleaseEncoder, PictureMembers
  <2> HIDE DEF started
  <2> QED BY <1>2, <1>5, <2>1 DEF SameFrames, Recoded
<1> HIDE DEF fresh, started
<1> QED BY <1>1, <1>2, <1>3, <1>6, <1>7, SameFramesTwice DEF Recoded

LEMMA ConfiguredFits ==
    ASSUME NEW s, NEW outcome, PictureMembers \subseteq DOMAIN s,
           s.encoder_config_ \in Configs, s.encoder_ # "",
           s.last_frame_info_.size \in Nat \X Nat
    PROVE  SameFrames(s, Configured(s, outcome)) /\ Fitted(Configured(s, outcome))
<1> DEFINE size == s.last_frame_info_.size
           codec == ConfiguredCodec(s.encoder_config_, size, s.latest_restrictions_,
                                    s.encoder_target_bitrate_bps_)
           crop == <<size[1] - codec.size[1], size[2] - codec.size[2]>>
           cropping == CropTo(s, codec.size)
           ready == Installed(cropping, codec, outcome)
           allocating == Allocating(ready)
           again == RatesAgain(allocating)
<1>1. Configured(s, outcome) = Finished(again, outcome)
    BY DEF Configured
<1>2. FitsIn(codec.size, size)
    BY CodecFitsFrame
<1>3. cropping = [s EXCEPT !.crop = crop]
    BY DEF CropTo
<1> HIDE DEF codec, size, crop
<1>4. /\ SameFrames(s, cropping) /\ cropping.crop = crop
      /\ cropping.encoder_ = s.encoder_
      /\ PictureMembers \subseteq DOMAIN cropping
    BY <1>3 DEF SameFrames, PictureMembers
<1> HIDE DEF cropping
<1>5. /\ SameFrames(cropping, ready) /\ Recoded(cropping, ready, codec)
      /\ ready.crop = cropping.crop
    BY <1>4, InstalledGiven
<1> HIDE DEF ready
<1>6. AsGiven(ready, allocating) /\ PictureMembers \subseteq DOMAIN allocating
    BY <1>4, <1>5 DEF Allocating, SameFrames, AsGiven, PictureMembers
<1> HIDE DEF allocating
<1>7. AsGiven(allocating, again) /\ PictureMembers \subseteq DOMAIN again
    BY <1>6, RatesAgainGiven DEF AsGiven
<1> HIDE DEF again
<1>8. SameFrames(s, ready)
    BY <1>4, <1>5, SameFramesTwice
<1>9. Fitted(ready)
  <2>1. /\ ready.send_codec_ = codec /\ ready.crop = crop
        /\ ready.encoder_ = s.encoder_
        /\ ready.last_frame_info_ = s.last_frame_info_
      BY <1>4, <1>5, <1>8 DEF Recoded, SameFrames
  <2>2. ready.last_frame_info_.size = size
      BY <2>1 DEF size
  <2> QED BY <1>2, <2>1, <2>2 DEF Fitted, crop, size
<1>10. SameFrames(s, again) /\ Fitted(again)
    BY <1>6, <1>7, <1>8, <1>9, AsGivenTwice, AsGivenSame, SameFramesTwice
<1>11. SameFrames(again, Finished(again, outcome)) /\ Fitted(Finished(again, outcome))
    BY <1>7, <1>10, FinishedGiven
<1> QED BY <1>1, <1>10, <1>11, SameFramesTwice

LEMMA ReconfigureFits ==
    ASSUME NEW s, NEW outcome, PictureMembers \subseteq DOMAIN s,
           s.encoder_config_ \in Configs, s.last_frame_info_.size \in Nat \X Nat,
           s.encoder_initialized_ => s.encoder_ # ""
    PROVE  /\ SameFrames(s, ReconfigureEncoder(s, outcome))
           /\ Fitted(ReconfigureEncoder(s, outcome))
<1> DEFINE released == ReleaseEncoder(s)
           made == [released EXCEPT !.encoder_ = s.encoder_config_.format]
           none == [released EXCEPT !.encoder_ = ""]
           ended == [s EXCEPT !.missing = TRUE]
<1>1. s.encoder_config_.format # ""
    BY EncoderInputs
<1>2. /\ DOMAIN made = DOMAIN s /\ made.encoder_ = s.encoder_config_.format
      /\ SameFrames(s, made)
    BY DEF ReleaseEncoder, PictureMembers, SameFrames
<1>3. DOMAIN none = DOMAIN s /\ SameFrames(s, none) /\ Fitted(none)
    BY DEF ReleaseEncoder, PictureMembers, SameFrames, Fitted
<1>4. AsGiven(s, ended)
    BY DEF AsGiven, PictureMembers
<1>5. ReconfigureEncoder(s, outcome) =
         IF s.pending_encoder_creation_
         THEN IF outcome.made THEN Configured(made, outcome)
              ELSE RequestEncoderSwitch(none, outcome)
         ELSE IF s.encoder_ = "" THEN ended ELSE Configured(s, outcome)
    BY DEF ReconfigureEncoder
<1> HIDE DEF made, none, ended
<1>6. SameFrames(s, Configured(made, outcome)) /\ Fitted(Configured(made, outcome))
  <2>1. made.last_frame_info_ = s.last_frame_info_
        /\ made.encoder_config_ = s.encoder_config_
      BY <1>2 DEF SameFrames
  <2> QED BY <1>1, <1>2, <2>1, ConfiguredFits, SameFramesTwice
<1>7. /\ SameFrames(s, RequestEncoderSwitch(none, outcome))
      /\ Fitted(RequestEncoderSwitch(none, outcome))
    BY <1>3, SwitchGiven, SameFramesTwice
<1>8. ASSUME s.encoder_ = "" PROVE SameFrames(s, ended) /\ Fitted(ended)
    BY <1>4, <1>8, AsGivenSame DEF Fitted, AsGiven
<1>9. ASSUME s.encoder_ # ""
      PROVE  SameFrames(s, Configured(s, outcome)) /\ Fitted(Configured(s, outcome))
    BY <1>9, ConfiguredFits
<1> QED BY <1>5, <1>6, <1>7, <1>8, <1>9

-----------------------------------------------------------------------------
(* Frames that are dropped.                                                 *)

LEMMA RectIsOfPicture ==
    ASSUME NEW frame, Picture(frame)
    PROVE  RectOf(frame) \subseteq All /\ frame.id \in RectOf(frame)
BY DEF Picture, RectOf

\* A dropped frame's area is in the accumulated rectangle (ProcessDroppedFrame).
LEMMA DropCovers ==
    ASSUME NEW s, NEW n, NEW X, NEW frame, Picture(frame),
           Underway(s, n, X \cup {frame.id})
    PROVE  /\ Underway(ProcessDroppedFrame(s, frame), n, X)
           /\ Fitted(s) => Fitted(ProcessDroppedFrame(s, frame))
           /\ Placed(s) => Placed(ProcessDroppedFrame(s, frame))
<1> DEFINE t == ProcessDroppedFrame(s, frame)
<1>1. /\ DOMAIN t = DOMAIN s
      /\ t.accumulated_update_rect_ = s.accumulated_update_rect_ \cup RectOf(frame)
      /\ t.unseen = s.unseen /\ t.lost = s.lost
      /\ t.pending_frame_ = s.pending_frame_
      /\ t.pending_mapped_frames_ = s.pending_mapped_frames_
      /\ t.call = s.call /\ t.crop = s.crop
      /\ t.send_codec_ = s.send_codec_
      /\ t.last_frame_info_ = s.last_frame_info_
      /\ t.encoder_ = s.encoder_
      /\ t.encoder_initialized_ = s.encoder_initialized_
      /\ t.encoder_fallback_requested_ = s.encoder_fallback_requested_
    BY DEF Underway, ProcessDroppedFrame, PictureMembers
<1> HIDE DEF t
<1>2. Lined(t, n)
    BY <1>1 DEF Underway, Lined, Before
<1>3. Coming(t) = Coming(s)
    BY <1>1 DEF Coming
<1>4. Covered(t, X)
    BY <1>1, <1>3, RectIsOfPicture DEF Underway, Covered
<1>5. GivenRight(t)
    BY <1>1 DEF Underway, GivenRight
<1>6. (Fitted(s) => Fitted(t)) /\ (Placed(s) => Placed(t))
    BY <1>1 DEF Fitted, Placed
<1> QED BY <1>1, <1>2, <1>4, <1>5, <1>6 DEF Underway, t

\* The pending frame leaves; it is under way then, or was dropped, or is lost.
LEMMA PendingLeaves ==
    ASSUME NEW s, NEW n, NEW X, NEW t, Underway(s, n, X),
           DOMAIN t = DOMAIN s,
           t.pending_frame_ = None,
           t.unseen = s.unseen, s.lost \subseteq t.lost,
           t.accumulated_update_rect_ = s.accumulated_update_rect_,
           t.pending_mapped_frames_ = s.pending_mapped_frames_,
           t.call = s.call,
           s.pending_frame_ # None =>
              s.pending_frame_.id \in X \cup t.lost \cup t.accumulated_update_rect_
    PROVE  Underway(t, n, X)
<1>1. Lined(t, n)
    BY DEF Underway, Lined, Before
<1>2. Coming(s) \subseteq Coming(t) \cup X \cup t.lost \cup t.accumulated_update_rect_
    BY DEF Coming
<1>3. Covered(t, X)
    BY <1>2 DEF Underway, Covered
<1> QED BY <1>1, <1>3 DEF Underway, GivenRight

LEMMA MoreUnderway ==
    ASSUME NEW s, NEW n, NEW X, NEW Y, Underway(s, n, X), X \subseteq Y
    PROVE  Underway(s, n, Y)
BY DEF Underway, Covered

\* A frame is next: all that came before it was encoded, dropped or lost.
NextToEncode(s, frame, n) ==
    /\ Picture(frame) /\ frame.id <= n
    /\ Before(s, frame.id)
    /\ \A k \in DOMAIN s.pending_mapped_frames_ :
          frame.id < s.pending_mapped_frames_[k].frame.id
    /\ frame.size = s.last_frame_info_.size

\* A native frame is dropped, another one kept; the pending one was dropped before.
LEMMA KeepOrDropCovers ==
    ASSUME NEW s, NEW n, NEW frame, NextToEncode(s, frame, n), Underway(s, n, {frame.id}),
           s.pending_frame_ # None => s.pending_frame_.id \in s.accumulated_update_rect_,
           Fitted(s)
    PROVE  PictureInv(KeepOrDrop(s, frame), n)
<1> DEFINE t == [s EXCEPT !.pending_frame_ = None]
           u == [s EXCEPT !.pending_frame_ = frame, !.old = FALSE]
<1>1. KeepOrDrop(s, frame) = IF ~frame.native THEN u ELSE ProcessDroppedFrame(t, frame)
    BY DEF KeepOrDrop
<1>2. frame # None
  <2>1. "id" \in DOMAIN frame /\ "id" \notin DOMAIN None
      BY DEF NextToEncode, Picture, None
  <2> QED BY <2>1
<1>3. /\ DOMAIN t = DOMAIN s /\ t.pending_frame_ = None
      /\ t.unseen = s.unseen /\ t.lost = s.lost
      /\ t.accumulated_update_rect_ = s.accumulated_update_rect_
      /\ t.pending_mapped_frames_ = s.pending_mapped_frames_
      /\ t.call = s.call /\ t.crop = s.crop
      /\ t.send_codec_ = s.send_codec_ /\ t.encoder_ = s.encoder_
      /\ t.last_frame_info_ = s.last_frame_info_
      /\ t.encoder_initialized_ = s.encoder_initialized_
      /\ t.encoder_fallback_requested_ = s.encoder_fallback_requested_
    BY DEF Underway, PictureMembers
<1>4. /\ DOMAIN u = DOMAIN s /\ u.pending_frame_ = frame
      /\ u.unseen = s.unseen /\ u.lost = s.lost
      /\ u.accumulated_update_rect_ = s.accumulated_update_rect_
      /\ u.pending_mapped_frames_ = s.pending_mapped_frames_
      /\ u.call = s.call /\ u.crop = s.crop
      /\ u.send_codec_ = s.send_codec_ /\ u.encoder_ = s.encoder_
      /\ u.last_frame_info_ = s.last_frame_info_
      /\ u.encoder_initialized_ = s.encoder_initialized_
      /\ u.encoder_fallback_requested_ = s.encoder_fallback_requested_
    BY DEF Underway, PictureMembers
<1> HIDE DEF t, u
<1>5. PictureInv(u, n)
  <2>1. Lined(u, n)
      BY <1>4 DEF Underway, Lined, Before, NextToEncode
  <2>2. Coming(s) \subseteq Coming(u) \cup s.accumulated_update_rect_
      BY <1>4 DEF Coming
  <2>3. frame.id \in Coming(u)
      BY <1>2, <1>4 DEF Coming, NextToEncode, Picture
  <2>4. Covered(u, {})
      BY <1>4, <2>2, <2>3 DEF Underway, Covered
  <2>5. GivenRight(u) /\ Fitted(u) /\ Placed(u)
      BY <1>4 DEF Underway, GivenRight, Fitted, Placed, NextToEncode, Picture
  <2> QED BY <1>4, <2>1, <2>4, <2>5 DEF PictureInv, Underway
<1>6. PictureInv(ProcessDroppedFrame(t, frame), n)
  <2>1. Coming(s) \subseteq Coming(t) \cup s.accumulated_update_rect_
      BY <1>3 DEF Coming
  <2>2. Underway(t, n, {} \cup {frame.id})
    <3>1. Lined(t, n)
        BY <1>3 DEF Underway, Lined, Before
    <3>2. Covered(t, {frame.id})
        BY <1>3, <2>1 DEF Underway, Covered
    <3>3. GivenRight(t)
        BY <1>3 DEF Underway, GivenRight
    <3> QED BY <1>3, <3>1, <3>2, <3>3 DEF Underway
  <2>3. Fitted(t) /\ Placed(t)
      BY <1>3 DEF Fitted, Placed, NextToEncode, Picture
  <2> QED BY <2>2, <2>3, DropCovers DEF PictureInv, NextToEncode
<1> QED BY <1>1, <1>5, <1>6

-----------------------------------------------------------------------------
(* Frames that are encoded.                                                 *)

\* The rectangle covers the frame's own area and those that were dropped before, or
\* else everything (EncodeVideoFrame).
LEMMA GivenCovers ==
    ASSUME NEW s, NEW frame, NEW cropped \in BOOLEAN, Picture(frame),
           s.accumulated_update_rect_ \subseteq All
    PROVE  /\ s.accumulated_update_rect_ \cup {frame.id}
                 \subseteq Given(s, frame, cropped).rect
           /\ Given(s, frame, cropped).left \subseteq All
<1> DEFINE before == s.accumulated_update_rect_
           scaled == cropped /\ (s.crop[1] >= 4 \/ s.crop[2] >= 4)
           own == IF scaled THEN All ELSE RectOf(frame)
           known == frame.known \/ cropped
           accumulated == IF cropped /\ before # {} THEN All ELSE before
           trusted == s.accumulated_update_rect_is_valid_ /\ ~(cropped /\ before # {})
           joined == trusted /\ known /\ accumulated # {}
<1>1. Given(s, frame, cropped) =
         [rect |-> IF trusted /\ known THEN own \cup accumulated ELSE All,
          left |-> IF joined THEN {} ELSE accumulated]
    BY DEF Given
<1>2. frame.id \in own /\ frame.id \in All
    BY RectIsOfPicture DEF Picture
<1>3. trusted => accumulated = before
    OBVIOUS
<1>4. accumulated \subseteq All
    OBVIOUS
<1> HIDE DEF own, accumulated, trusted, known, joined
<1> QED BY <1>1, <1>2, <1>3, <1>4

LEMMA EncodeGives ==
    ASSUME NEW s, NEW n, NEW frame, NEW outcome, NEW cropped \in BOOLEAN,
           NextToEncode(s, frame, n), Underway(s, n, {frame.id}), Fitted(s),
           s.encoder_initialized_, s.pending_frame_ = None,
           ~cropped => s.crop = <<0, 0>> \/ frame.native
    PROVE  PictureInv(Encode(s, frame, cropped, outcome), n)
<1> DEFINE ok == outcome.encoded
           given == Given(s, frame, cropped)
           changes == {a \in s.unseen : a <= frame.id}
           early == {a \in s.unseen \cap (s.accumulated_update_rect_ \ given.left) :
                        a > frame.id}
           out == IF cropped THEN <<frame.size[1] - s.crop[1], frame.size[2] - s.crop[2]>>
                  ELSE frame.size
           call == [frame |-> frame.id, missed |-> (changes \ given.rect) \ s.lost,
                    after |-> s.call.frame,
                    fits |-> /\ s.send_codec_.size[1] <= out[1]
                             /\ s.send_codec_.size[2] <= out[2]]
           called == [s EXCEPT
              !.accumulated_update_rect_ = given.left,
              !.accumulated_update_rect_is_valid_ = TRUE,
              !.was_encode_called_since_last_initialization_ = TRUE,
              !.next_frame_types_ = TypesAfter(s, ok),
              !.call = call]
           done == [called EXCEPT
                      !.owed = FALSE,
                      !.requested = @ \ {i \in DOMAIN s.next_frame_types_ :
                                            s.next_frame_types_[i] = "key"},
                      !.unseen = @ \ changes, !.lost = (@ \ changes) \cup early]
           failed == [called EXCEPT !.lapsed = TRUE, !.lost = @ \cup ((changes \cup early) \ given.left)]
<1>1. Encode(s, frame, cropped, outcome) =
         IF ok THEN done ELSE RequestEncoderSwitch(failed, outcome)
    BY DEF Encode
<1>2. frame.id \in Nat /\ All \subseteq Nat
  <2>1. Bound.frames \in Nat
      BY EncoderInputs
  <2>2. All \subseteq Nat
      BY <2>1 DEF All
  <2> QED BY <2>2 DEF NextToEncode, Picture
<1>3. /\ s.accumulated_update_rect_ \cup {frame.id} \subseteq given.rect
      /\ given.left \subseteq All
    BY GivenCovers DEF NextToEncode, Underway, Covered
<1>4. \A a \in Coming(s) : a > frame.id
    BY DEF Coming, NextToEncode
<1>5. s.unseen \subseteq s.lost \cup s.accumulated_update_rect_ \cup Coming(s)
                          \cup {frame.id}
    BY DEF Underway, Covered
<1>6. s.unseen \subseteq Nat
    BY <1>2 DEF Underway, Covered
<1>7. call.missed = {}
    BY <1>2, <1>3, <1>4, <1>5, <1>6
<1>8. call.fits
  <2>1. /\ s.last_frame_info_.size \in Nat \X Nat
        /\ FitsIn(s.send_codec_.size, frame.size)
        /\ s.crop = <<frame.size[1] - s.send_codec_.size[1],
                      frame.size[2] - s.send_codec_.size[2]>>
        /\ frame.size \in Nat \X Nat
      BY DEF Fitted, NextToEncode
  <2> DEFINE size == frame.size
             codec == s.send_codec_.size
             crop == s.crop
  <2>2. /\ size[1] \in Nat /\ size[2] \in Nat /\ codec[1] \in Nat /\ codec[2] \in Nat
        /\ codec[1] <= size[1] /\ codec[2] <= size[2]
        /\ crop[1] = size[1] - codec[1] /\ crop[2] = size[2] - codec[2]
      BY <2>1 DEF FitsIn
  <2>3. call.fits = (codec[1] <= out[1] /\ codec[2] <= out[2])
      OBVIOUS
  <2>4. cropped => out[1] = size[1] - crop[1] /\ out[2] = size[2] - crop[2]
      OBVIOUS
  <2>5. ~cropped => out[1] = size[1] /\ out[2] = size[2]
      OBVIOUS
  <2> HIDE DEF call, size, codec, crop, out
  <2>6. codec[1] <= out[1] /\ codec[2] <= out[2]
      BY <2>2, <2>4, <2>5
  <2> QED BY <2>3, <2>6
<1>9. call.frame = frame.id /\ call.after = s.call.frame
    OBVIOUS
<1> HIDE DEF call
<1>10. /\ DOMAIN called = DOMAIN s
       /\ called.accumulated_update_rect_ = given.left
       /\ called.call = call
       /\ called.unseen = s.unseen /\ called.lost = s.lost
       /\ called.pending_frame_ = None
       /\ called.pending_mapped_frames_ = s.pending_mapped_frames_
       /\ called.crop = s.crop
       /\ called.send_codec_ = s.send_codec_ /\ called.encoder_ = s.encoder_
       /\ called.last_frame_info_ = s.last_frame_info_
       /\ called.encoder_initialized_ = s.encoder_initialized_
       /\ called.encoder_fallback_requested_ = s.encoder_fallback_requested_
    BY DEF Underway, PictureMembers
<1> HIDE DEF called, given
<1> DEFINE Rest(t) == /\ DOMAIN t = DOMAIN s
                      /\ t.accumulated_update_rect_ = given.left
                      /\ t.call = call
                      /\ t.pending_frame_ = None
                      /\ t.pending_mapped_frames_ = s.pending_mapped_frames_
                      /\ t.crop = s.crop
                      /\ t.send_codec_ = s.send_codec_ /\ t.encoder_ = s.encoder_
                      /\ t.last_frame_info_ = s.last_frame_info_
                      /\ t.encoder_initialized_ = s.encoder_initialized_
                      /\ t.encoder_fallback_requested_ = s.encoder_fallback_requested_
<1>11. ASSUME NEW t, Rest(t), t.unseen \subseteq s.unseen,
              t.unseen \subseteq t.lost \cup given.left \cup Coming(s)
       PROVE  PictureInv(t, n)
  <2>1. Lined(t, n)
      BY <1>2, <1>9, <1>11 DEF Underway, Lined, Before, NextToEncode
  <2>2. Coming(t) = Coming(s)
      BY <1>11 DEF Coming
  <2>3. Covered(t, {})
      BY <1>3, <1>11, <2>2 DEF Underway, Covered
  <2>4. GivenRight(t)
      BY <1>7, <1>8, <1>9, <1>11 DEF GivenRight, NextToEncode, Before
  <2>5. Fitted(t) /\ Placed(t)
      BY <1>11 DEF Fitted, Placed, NextToEncode, Picture
  <2> QED BY <1>11, <2>1, <2>3, <2>4, <2>5 DEF PictureInv, Underway
<1>12. PictureInv(done, n)
  <2>1. /\ Rest(done) /\ done.unseen = s.unseen \ changes
        /\ done.lost = (s.lost \ changes) \cup early
      BY <1>10 DEF Underway, PictureMembers
  <2>2. s.unseen \ changes
           \subseteq ((s.lost \ changes) \cup early) \cup given.left \cup Coming(s)
    <3>1. \A a \in s.unseen \ changes : a > frame.id
        BY <1>2, <1>6
    <3> QED BY <1>2, <1>5, <3>1
  <2> HIDE DEF done, changes, early, Rest
  <2> QED BY <1>11, <2>1, <2>2
<1>13. PictureInv(failed, n)
  <2>1. /\ Rest(failed) /\ failed.unseen = s.unseen
        /\ failed.lost = s.lost \cup ((changes \cup early) \ given.left)
      BY <1>10 DEF Underway, PictureMembers
  <2>2. s.unseen
           \subseteq (s.lost \cup ((changes \cup early) \ given.left)) \cup given.left
                     \cup Coming(s)
    <3>1. \A a \in s.unseen \ changes : a > frame.id
        BY <1>2, <1>6
    <3> QED BY <1>2, <1>5, <3>1
  <2> HIDE DEF failed, changes, early, Rest
  <2> QED BY <1>11, <2>1, <2>2
<1> HIDE DEF done, failed
<1>14. PictureInv(RequestEncoderSwitch(failed, outcome), n)
    BY <1>13, SwitchGiven, SameFramesUnderway DEF PictureInv, Underway
<1> QED BY <1>1, <1>12, <1>14

\* A frame is encoded or lost (EncodeVideoFrame).
LEMMA EncodeFrameGives ==
    ASSUME NEW s, NEW n, NEW frame, NEW outcome,
           NextToEncode(s, frame, n), Underway(s, n, {frame.id}), Fitted(s),
           s.pending_frame_ = None
    PROVE  PictureInv(EncodeVideoFrame(s, frame, outcome), n)
<1> DEFINE cropped == s.crop # <<0, 0>> /\ ~(frame.native /\ Info[s.encoder_].native)
           tried == [s EXCEPT !.encoder_paused_and_dropped_frame_ = FALSE]
           uncut == Lost(tried, frame)
           unused == Lost(s, frame)
<1>1. EncodeVideoFrame(s, frame, outcome) =
         IF s.encoder_fallback_requested_ \/ ~s.encoder_initialized_ THEN unused
         ELSE IF cropped /\ ~outcome.cropped THEN uncut
         ELSE Encode(tried, frame, cropped, outcome)
    BY DEF EncodeVideoFrame
<1>2. AsGiven(s, tried)
    BY DEF Underway, AsGiven, PictureMembers
<1>3. Placed(s)
    BY DEF Placed, NextToEncode, Picture
<1>4. ASSUME NEW t,
             /\ DOMAIN t = DOMAIN s /\ t.unseen = s.unseen
             /\ t.lost = s.lost \cup {frame.id}
             /\ t.accumulated_update_rect_ = s.accumulated_update_rect_
             /\ t.pending_frame_ = s.pending_frame_
             /\ t.pending_mapped_frames_ = s.pending_mapped_frames_
             /\ t.call = s.call /\ t.crop = s.crop
             /\ t.send_codec_ = s.send_codec_ /\ t.encoder_ = s.encoder_
             /\ t.last_frame_info_ = s.last_frame_info_
             /\ t.encoder_initialized_ = s.encoder_initialized_
      PROVE  PictureInv(t, n)
  <2>1. Lined(t, n)
      BY <1>4 DEF Underway, Lined, Before
  <2>2. Coming(t) = Coming(s)
      BY <1>4 DEF Coming
  <2>3. Covered(t, {})
      BY <1>4, <2>2 DEF Underway, Covered
  <2>4. GivenRight(t) /\ Fitted(t) /\ Placed(t)
      BY <1>3, <1>4 DEF Underway, GivenRight, Fitted, Placed
  <2> QED BY <1>4, <2>1, <2>3, <2>4 DEF PictureInv, Underway
<1>5. PictureInv(uncut, n) /\ PictureInv(unused, n)
  <2>1. PictureInv(uncut, n)
      BY <1>4 DEF Lost, Underway, PictureMembers
  <2>2. PictureInv(unused, n)
      BY <1>4 DEF Lost, Underway, PictureMembers
  <2> QED BY <2>1, <2>2
<1> HIDE DEF tried, uncut, unused
<1>6. /\ NextToEncode(tried, frame, n) /\ Underway(tried, n, {frame.id}) /\ Fitted(tried)
      /\ tried.pending_frame_ = None /\ tried.crop = s.crop
      /\ tried.encoder_initialized_ = s.encoder_initialized_
    BY <1>2, AsGivenSame, SameFramesUnderway DEF AsGiven, NextToEncode, Before
<1>7. ASSUME s.encoder_initialized_
      PROVE  PictureInv(Encode(tried, frame, cropped, outcome), n)
  <2>1. cropped \in BOOLEAN /\ (~cropped => tried.crop = <<0, 0>> \/ frame.native)
      BY <1>6
  <2> HIDE DEF cropped
  <2> QED BY <1>6, <1>7, <2>1, EncodeGives
<1> QED BY <1>1, <1>5, <1>7

LEMMA EncodeOrDropGives ==
    ASSUME NEW ready, NEW n, NEW frame, NEW outcome,
           NextToEncode(ready, frame, n), Underway(ready, n, {frame.id}), Fitted(ready)
    PROVE  PictureInv(EncodeOrDrop(ready, frame, outcome), n)
<1> DEFINE before == IF ready.pending_frame_ = None THEN ready
                     ELSE ProcessDroppedFrame(ready, ready.pending_frame_)
           free == [before EXCEPT !.pending_frame_ = None, !.owed = FALSE]
           small == [before EXCEPT !.owed = EncoderPaused(before),
                 !.lapsed = frame.native /\ ~before.encoder_paused_and_dropped_frame_]
           paused == [before EXCEPT !.owed = TRUE, !.lapsed = FALSE,
                 !.encoder_paused_and_dropped_frame_ = Noted(before, frame)]
<1>1. \/ EncodeOrDrop(ready, frame, outcome) = KeepOrDrop(small, frame)
      \/ EncodeOrDrop(ready, frame, outcome) = KeepOrDrop(paused, frame)
      \/ EncodeOrDrop(ready, frame, outcome) = ProcessDroppedFrame(free, frame)
      \/ EncodeOrDrop(ready, frame, outcome) = EncodeVideoFrame(free, frame, outcome)
    BY DEF EncodeOrDrop
<1> DEFINE Dropped(t) == /\ NextToEncode(t, frame, n) /\ Fitted(t)
                         /\ Underway(t, n, {frame.id})
                         /\ t.pending_frame_ # None =>
                               t.pending_frame_.id \in t.accumulated_update_rect_
<1>2. Dropped(before)
  <2>1. CASE ready.pending_frame_ = None
      BY <2>1
  <2>2. CASE ready.pending_frame_ # None
    <3> DEFINE p == ready.pending_frame_
               t == ProcessDroppedFrame(ready, p)
    <3>1. Picture(p)
        BY <2>2 DEF Underway, Lined
    <3>2. Underway(t, n, {frame.id}) /\ Fitted(t)
      <4>1. Underway(ready, n, {frame.id} \cup {p.id})
          BY MoreUnderway
      <4> HIDE DEF p
      <4> QED BY <3>1, <4>1, DropCovers
    <3>3. /\ t.pending_frame_ = p
          /\ t.accumulated_update_rect_ = ready.accumulated_update_rect_ \cup RectOf(p)
          /\ t.call = ready.call /\ t.last_frame_info_ = ready.last_frame_info_
          /\ t.pending_mapped_frames_ = ready.pending_mapped_frames_
        BY DEF Underway, ProcessDroppedFrame, PictureMembers
    <3>4. p.id \in t.accumulated_update_rect_
        BY <3>1, <3>3, RectIsOfPicture
    <3>5. NextToEncode(t, frame, n)
        BY <3>3 DEF NextToEncode, Before
    <3> HIDE DEF t
    <3> QED BY <2>2, <3>2, <3>3, <3>4, <3>5 DEF t
  <2> QED BY <2>1, <2>2
<1> HIDE DEF before
<1>3. AsGiven(before, small) /\ AsGiven(before, paused)
    BY <1>2 DEF Underway, AsGiven, PictureMembers
<1>4. /\ DOMAIN free = DOMAIN before /\ free.pending_frame_ = None
      /\ free.unseen = before.unseen /\ free.lost = before.lost
      /\ free.accumulated_update_rect_ = before.accumulated_update_rect_
      /\ free.pending_mapped_frames_ = before.pending_mapped_frames_
      /\ free.call = before.call /\ free.crop = before.crop
      /\ free.send_codec_ = before.send_codec_ /\ free.encoder_ = before.encoder_
      /\ free.last_frame_info_ = before.last_frame_info_
      /\ free.encoder_initialized_ = before.encoder_initialized_
      /\ free.encoder_fallback_requested_ = before.encoder_fallback_requested_
    BY <1>2 DEF Underway, PictureMembers
<1> HIDE DEF free, small, paused
<1>5. ASSUME NEW t, AsGiven(before, t) PROVE PictureInv(KeepOrDrop(t, frame), n)
  <2>1. Dropped(t)
      BY <1>2, <1>5, AsGivenSame, SameFramesUnderway DEF AsGiven, NextToEncode, Before
  <2> QED BY <2>1, KeepOrDropCovers
<1>6. /\ NextToEncode(free, frame, n) /\ Underway(free, n, {frame.id}) /\ Fitted(free)
      /\ Placed(free)
  <2>1. Underway(free, n, {frame.id})
      BY <1>2, <1>4, PendingLeaves
  <2>2. NextToEncode(free, frame, n) /\ Fitted(free)
      BY <1>2, <1>4 DEF NextToEncode, Before, Fitted
  <2>3. Placed(free)
      BY <1>4, <2>2 DEF Placed, NextToEncode, Picture
  <2> QED BY <2>1, <2>2, <2>3
<1>7. PictureInv(ProcessDroppedFrame(free, frame), n)
  <2>1. Underway(free, n, {} \cup {frame.id})
      BY <1>6, MoreUnderway
  <2> QED BY <1>6, <2>1, DropCovers DEF PictureInv, NextToEncode
<1>8. PictureInv(EncodeVideoFrame(free, frame, outcome), n)
    BY <1>4, <1>6, EncodeFrameGives
<1> QED BY <1>1, <1>3, <1>5, <1>7, <1>8

\* A new size or kind of picture makes all of it changed, and a reconfiguration fits
\* the codec to it before the frame is used (MaybeEncodeVideoFrame).
LEMMA MaybeEncodeGives ==
    ASSUME NEW s, NEW n, NEW frame, NEW outcome,
           Picture(frame), frame.id <= n, Before(s, frame.id),
           \A k \in DOMAIN s.pending_mapped_frames_ :
              frame.id < s.pending_mapped_frames_[k].frame.id,
           Underway(s, n, {frame.id}), Fitted(s), s.encoder_config_ \in Configs
    PROVE  /\ GivenRight(MaybeEncodeVideoFrame(s, frame, outcome))
           /\ \/ MaybeEncodeVideoFrame(s, frame, outcome).missing
              \/ PictureInv(MaybeEncodeVideoFrame(s, frame, outcome), n)
<1> DEFINE seen == Observed(s, frame)
           ready == UpToDate(seen, outcome)
           info == [size |-> frame.size, is_texture |-> frame.native]
           fresh == [s EXCEPT !.last_frame_info_ = info,
                              !.accumulated_update_rect_ = All,
                              !.pending_encoder_reconfiguration_ = TRUE]
           target == seen.last_encoder_rate_settings_.target
<1>1. MaybeEncodeVideoFrame(s, frame, outcome) =
         IF ready.missing THEN ready ELSE EncodeOrDrop(ready, frame, outcome)
    BY DEF MaybeEncodeVideoFrame
<1>2. \/ s.last_frame_info_ = info /\ seen = s
      \/ seen = fresh
    BY DEF Observed
<1>3. \/ ready = ReconfigureEncoder(seen, outcome)
      \/ /\ ~seen.pending_encoder_reconfiguration_
         /\ \/ ready = SetEncoderRates(seen, UpdateBitrateAllocation(seen, target))
            \/ ready = seen
    BY DEF UpToDate
<1>4. "size" \in DOMAIN info /\ info.size = frame.size
    OBVIOUS
<1> HIDE DEF info
<1>5. /\ DOMAIN fresh = DOMAIN s /\ fresh.last_frame_info_ = info
      /\ fresh.accumulated_update_rect_ = All
      /\ fresh.pending_encoder_reconfiguration_
      /\ fresh.unseen = s.unseen /\ fresh.lost = s.lost
      /\ fresh.pending_frame_ = s.pending_frame_
      /\ fresh.pending_mapped_frames_ = s.pending_mapped_frames_
      /\ fresh.call = s.call /\ fresh.encoder_ = s.encoder_
      /\ fresh.encoder_config_ = s.encoder_config_
      /\ fresh.encoder_initialized_ = s.encoder_initialized_
    BY DEF Underway, PictureMembers
<1> HIDE DEF fresh, seen, target
<1>6. Underway(fresh, n, {frame.id})
  <2>1. Lined(fresh, n)
      BY <1>5 DEF Underway, Lined, Before
  <2>2. Covered(fresh, {frame.id})
      BY <1>5 DEF Underway, Covered
  <2> QED BY <1>5, <2>1, <2>2 DEF Underway, GivenRight
<1>7. /\ Underway(seen, n, {frame.id}) /\ NextToEncode(seen, frame, n)
      /\ seen.encoder_config_ \in Configs
      /\ seen.last_frame_info_.size \in Nat \X Nat
      /\ seen.encoder_initialized_ => seen.encoder_ # ""
      /\ seen.pending_encoder_reconfiguration_ \/ Fitted(seen)
    BY <1>2, <1>4, <1>5, <1>6 DEF NextToEncode, Before, Fitted, Picture
<1>8. SameFrames(seen, ready) /\ Fitted(ready)
  <2>1. CASE ready = ReconfigureEncoder(seen, outcome)
      BY <1>7, <2>1, ReconfigureFits DEF Underway
  <2>2. CASE /\ ~seen.pending_encoder_reconfiguration_
             /\ ready = SetEncoderRates(seen, UpdateBitrateAllocation(seen, target))
      BY <1>7, <2>2, RatesGiven, AsGivenSame DEF Underway
  <2>3. CASE ~seen.pending_encoder_reconfiguration_ /\ ready = seen
      BY <1>7, <2>3 DEF SameFrames
  <2> QED BY <1>3, <2>1, <2>2, <2>3
<1> HIDE DEF ready
<1>9. Underway(ready, n, {frame.id}) /\ NextToEncode(ready, frame, n)
    BY <1>7, <1>8, SameFramesUnderway DEF SameFrames, NextToEncode, Before
<1>10. PictureInv(EncodeOrDrop(ready, frame, outcome), n)
    BY <1>8, <1>9, EncodeOrDropGives
<1> QED BY <1>1, <1>9, <1>10 DEF PictureInv, Underway

\* A frame that waited is encoded, waits on, or is lost (OnBitrateUpdated).
LEMMA ResumedGives ==
    ASSUME NEW s, NEW n, NEW outcome, PictureInv(s, n)
    PROVE  PictureInv(Resumed(s, outcome), n)
<1> DEFINE frame == s.pending_frame_
           free == [s EXCEPT !.pending_frame_ = None]
           expired == Lost(free, frame)
           asking == [s EXCEPT !.refresh = TRUE]
<1>1. \/ Resumed(s, outcome) = s
      \/ frame # None /\ Resumed(s, outcome) = expired
      \/ frame # None /\ Resumed(s, outcome) = EncodeVideoFrame(free, frame, outcome)
      \/ Resumed(s, outcome) = asking
    BY DEF Resumed
<1>2. AsGiven(s, asking)
    BY DEF PictureInv, Underway, PictureMembers, AsGiven
<1>3. /\ DOMAIN free = DOMAIN s /\ free.pending_frame_ = None
      /\ free.unseen = s.unseen /\ free.lost = s.lost
      /\ free.accumulated_update_rect_ = s.accumulated_update_rect_
      /\ free.pending_mapped_frames_ = s.pending_mapped_frames_
      /\ free.call = s.call /\ free.crop = s.crop
      /\ free.send_codec_ = s.send_codec_ /\ free.encoder_ = s.encoder_
      /\ free.last_frame_info_ = s.last_frame_info_
      /\ free.encoder_initialized_ = s.encoder_initialized_
      /\ free.encoder_fallback_requested_ = s.encoder_fallback_requested_
    BY DEF PictureInv, Underway, PictureMembers
<1>4. /\ DOMAIN expired = DOMAIN s /\ expired.pending_frame_ = None
      /\ expired.unseen = s.unseen /\ expired.lost = s.lost \cup {frame.id}
      /\ expired.accumulated_update_rect_ = s.accumulated_update_rect_
      /\ expired.pending_mapped_frames_ = s.pending_mapped_frames_
      /\ expired.call = s.call /\ expired.crop = s.crop
      /\ expired.send_codec_ = s.send_codec_ /\ expired.encoder_ = s.encoder_
      /\ expired.last_frame_info_ = s.last_frame_info_
      /\ expired.encoder_initialized_ = s.encoder_initialized_
      /\ expired.encoder_fallback_requested_ = s.encoder_fallback_requested_
    BY DEF Lost, PictureInv, Underway, PictureMembers
<1> HIDE DEF free, expired, asking
<1>5. PictureInv(asking, n)
    BY <1>2, AsGivenKeeps
<1>6. frame # None => PictureInv(expired, n)
  <2>1. Underway(expired, n, {})
      BY <1>4, PendingLeaves DEF PictureInv
  <2> QED BY <1>4, <2>1 DEF PictureInv, Fitted, Placed
<1>7. ASSUME frame # None PROVE PictureInv(EncodeVideoFrame(free, frame, outcome), n)
  <2>1. /\ Picture(frame) /\ frame.id <= n /\ s.call.frame < frame.id
        /\ frame.size = s.last_frame_info_.size
        /\ \A k \in DOMAIN s.pending_mapped_frames_ :
              frame.id < s.pending_mapped_frames_[k].frame.id
      BY <1>7 DEF PictureInv, Underway, Lined, Before, Placed
  <2> HIDE DEF frame
  <2>2. NextToEncode(free, frame, n)
      BY <1>3, <2>1 DEF NextToEncode, Before
  <2>3. Underway(free, n, {frame.id})
    <3>1. Underway(s, n, {frame.id})
        BY MoreUnderway DEF PictureInv
    <3> QED BY <1>3, <3>1, PendingLeaves DEF frame
  <2>4. Fitted(free)
      BY <1>3 DEF PictureInv, Fitted
  <2> QED BY <1>3, <2>2, <2>3, <2>4, EncodeFrameGives
<1> QED BY <1>1, <1>5, <1>6, <1>7

-----------------------------------------------------------------------------
(* The tasks.                                                               *)

\* Frames are numbered as they come, and what is given to the encoder is right.
FrameInv ==
    /\ "frames" \in DOMAIN used /\ used.frames \in Nat
    /\ GivenRight(vse)
    /\ vse.missing \/ PictureInv(vse, used.frames)

LEMMA OthersKeep ==
    ASSUME FrameInv, "frames" \in DOMAIN used', used'.frames = used.frames,
           ~vse.missing => PictureInv(vse', used.frames),
           vse.missing => AsGiven(vse, vse') /\ vse'.missing
    PROVE  FrameInv'
<1>1. CASE vse.missing
    BY <1>1 DEF FrameInv, GivenRight, AsGiven
<1>2. CASE ~vse.missing
    BY <1>2 DEF FrameInv, PictureInv, Underway
<1> QED BY <1>1, <1>2

LEMMA FrameInit == Init => FrameInv
<1> SUFFICES ASSUME Init PROVE FrameInv
    OBVIOUS
<1>1. "frames" \in DOMAIN used /\ used.frames = 0
    BY EncoderInputs DEF Init
<1>2. /\ vse.call = NoCall /\ vse.pending_frame_ = None
      /\ vse.pending_mapped_frames_ = <<>> /\ ~vse.encoder_initialized_
      /\ vse.accumulated_update_rect_ = {} /\ vse.unseen = {}
      /\ vse.last_frame_info_ = None
      /\ PictureMembers \subseteq DOMAIN vse
    BY DEF Init, PictureMembers
<1>3. Pictures(vse.pending_mapped_frames_)
  <2>1. <<>> \in Seq({})
      OBVIOUS
  <2> QED BY <1>2, <2>1 DEF Pictures
<1>4. GivenRight(vse) /\ Fitted(vse) /\ Placed(vse) /\ Covered(vse, {})
  <2>1. NoCall.fits /\ NoCall.missed = {}
      BY DEF NoCall
  <2> QED BY <1>2, <2>1 DEF GivenRight, Fitted, Placed, Covered
<1>5. Lined(vse, 0)
  <2>1. DOMAIN vse.pending_mapped_frames_ = {}
      BY <1>2
  <2>2. vse.call.frame = 0
      BY <1>2 DEF NoCall
  <2>3. Ascending(vse.pending_mapped_frames_)
      BY <2>1 DEF Ascending
  <2>4. 0 \in Nat /\ 0 <= 0
      OBVIOUS
  <2> QED BY ONLY <1>2, <1>3, <2>1, <2>2, <2>3, <2>4, Zenon DEF Lined
<1> QED BY <1>1, <1>2, <1>4, <1>5 DEF FrameInv, PictureInv, Underway

LEMMA FrameConfigureTask == IInv /\ FrameInv /\ ConfigureTask => FrameInv'
<1> SUFFICES ASSUME IInv, FrameInv, ConfigureTask PROVE FrameInv'
    OBVIOUS
<1> DEFINE config == Head(posted)
           creation == vse.encoder_ = "" \/ FormatChanged(vse.encoder_config_, config)
           set == [vse EXCEPT
              !.pending_encoder_creation_ = creation,
              !.encoder_config_ = config,
              !.pending_encoder_reconfiguration_ = TRUE]
           noted == [set EXCEPT !.encoder_configuration_callbacks_ = @ + 1]
           n == used.frames
<1>1. PICK outcome \in Possible :
         /\ vse' = IF vse.last_frame_info_ = None THEN set
                   ELSE ReconfigureEncoder(noted, outcome)
         /\ \/ UNCHANGED used
            \/ used' = [used EXCEPT !["odd"] = @ + 1]
    BY DEF ConfigureTask, UseIfOdd, Use
<1>2. config \in Configs
    BY DEF ConfigureTask, IInv
<1>3. ~vse.missing /\ PictureInv(vse, n)
    BY DEF ConfigureTask, Running, Idle, FrameInv
<1>4. /\ PictureMembers \subseteq DOMAIN set
      /\ set.encoder_config_ = config
      /\ set.last_frame_info_ = vse.last_frame_info_
      /\ set.encoder_ = vse.encoder_
      /\ set.encoder_initialized_ = vse.encoder_initialized_
    BY <1>3 DEF PictureInv, Underway, PictureMembers
<1>5. PictureInv(set, n)
  <2>1. /\ DOMAIN set = DOMAIN vse
        /\ set.unseen = vse.unseen /\ set.lost = vse.lost
        /\ set.accumulated_update_rect_ = vse.accumulated_update_rect_
        /\ set.pending_frame_ = vse.pending_frame_
        /\ set.pending_mapped_frames_ = vse.pending_mapped_frames_
        /\ set.call = vse.call /\ set.crop = vse.crop
        /\ set.send_codec_ = vse.send_codec_
        /\ set.encoder_fallback_requested_ = vse.encoder_fallback_requested_
      BY <1>3 DEF PictureInv, Underway, PictureMembers
  <2> HIDE DEF set
  <2>2. Lined(set, n) /\ GivenRight(set)
      BY <1>3, <2>1 DEF PictureInv, Underway, Lined, Before, GivenRight
  <2>3. Coming(set) = Coming(vse)
      BY <1>4, <2>1 DEF Coming
  <2>4. Covered(set, {})
      BY <1>3, <2>1, <2>3 DEF PictureInv, Underway, Covered
  <2>5. Fitted(set) /\ Placed(set)
      BY <1>3, <1>4, <2>1 DEF PictureInv, Fitted, Placed
  <2> QED BY <1>4, <2>2, <2>4, <2>5 DEF PictureInv, Underway
<1> HIDE DEF config, creation, set
<1>6. AsGiven(set, noted)
    BY <1>4 DEF AsGiven, PictureMembers
<1> HIDE DEF noted
<1>7. PictureInv(noted, n) /\ noted.encoder_config_ \in Configs
    BY <1>2, <1>4, <1>5, <1>6, AsGivenKeeps DEF AsGiven
<1>8. vse.last_frame_info_ # None => PictureInv(ReconfigureEncoder(noted, outcome), n)
  <2>1. /\ vse.last_frame_info_ # None => noted.last_frame_info_.size \in Nat \X Nat
        /\ noted.encoder_initialized_ => noted.encoder_ # ""
        /\ PictureMembers \subseteq DOMAIN noted
      BY <1>3, <1>4, <1>6, <1>7 DEF PictureInv, Underway, AsGiven, Placed, Fitted
  <2> QED BY <1>7, <2>1, ReconfigureFits, SameFramesUnderway DEF PictureInv
<1>9. PictureInv(vse', n)
    BY <1>1, <1>5, <1>8
<1>10. "frames" \in DOMAIN used' /\ used'.frames = used.frames
    BY <1>1 DEF FrameInv
<1> QED BY <1>3, <1>9, <1>10, OthersKeep

\* A frame comes after all that came before it, and is dropped or in preparation.
LEMMA FrameOnFrame == FrameInv /\ OnFrame => FrameInv'
<1> SUFFICES ASSUME FrameInv, OnFrame PROVE FrameInv'
    OBVIOUS
<1> DEFINE interval == vse.cwnd_frame_drop_interval_
           n == used.frames
           picture(new) == [id |-> used.frames + 1, size |-> new.size,
                            native |-> new.native, known |-> new.known]
           arrived(frame) == [vse EXCEPT !.unseen = @ \cup {frame.id}, !.refresh = FALSE,
                                         !.owed = @ /\ EncoderPaused(vse)]
           counted(frame) == [arrived(frame) EXCEPT !.cwnd_frame_counter_ =
                                 IF interval = 0 THEN @ ELSE @ + 1]
<1>1. PICK new \in Frames :
         \/ vse' = ProcessDroppedFrame(arrived(picture(new)), picture(new))
         \/ vse' = ProcessDroppedFrame(counted(picture(new)), picture(new))
         \/ vse' = MaybePrepareVideoFrame(counted(picture(new)), picture(new))
    BY DEF OnFrame
<1> DEFINE frame == picture(new)
           a == arrived(frame)
           c == counted(frame)
<1>2. \/ vse' = ProcessDroppedFrame(a, frame) \/ vse' = ProcessDroppedFrame(c, frame)
      \/ vse' = MaybePrepareVideoFrame(c, frame)
    BY <1>1
<1>3. /\ n \in Nat /\ n < Bound.frames /\ PictureInv(vse, n)
      /\ "frames" \in DOMAIN used' /\ used'.frames = n + 1
  <2>1. used' = [used EXCEPT !["frames"] = @ + 1] /\ n < Bound.frames
      BY DEF OnFrame, Use, Left
  <2> QED BY <2>1 DEF OnFrame, Running, Idle, FrameInv
<1>4. Picture(frame) /\ frame.id = n + 1
  <2>1. n + 1 \in All
    <3>1. Bound.frames \in Nat
        BY EncoderInputs
    <3> QED BY <1>3, <3>1 DEF All
  <2>2. new.size \in Nat \X Nat
      BY EncoderInputs
  <2> QED BY <2>1, <2>2 DEF Picture
<1> HIDE DEF frame
<1>5. /\ DOMAIN a = DOMAIN vse
      /\ a.unseen = vse.unseen \cup {frame.id} /\ a.lost = vse.lost
      /\ a.accumulated_update_rect_ = vse.accumulated_update_rect_
      /\ a.pending_frame_ = vse.pending_frame_
      /\ a.pending_mapped_frames_ = vse.pending_mapped_frames_
      /\ a.call = vse.call /\ a.crop = vse.crop
      /\ a.send_codec_ = vse.send_codec_ /\ a.encoder_ = vse.encoder_
      /\ a.last_frame_info_ = vse.last_frame_info_
      /\ a.encoder_initialized_ = vse.encoder_initialized_
      /\ a.encoder_fallback_requested_ = vse.encoder_fallback_requested_
    BY <1>3 DEF PictureInv, Underway, PictureMembers
<1>6. AsGiven(a, c)
    BY <1>3 DEF PictureInv, Underway, PictureMembers, AsGiven
<1> HIDE DEF a, c
<1> DEFINE Entered(s) == /\ Underway(s, n + 1, {frame.id}) /\ Fitted(s) /\ Placed(s)
                         /\ Before(s, frame.id)
                         /\ \A k \in DOMAIN s.pending_mapped_frames_ :
                               s.pending_mapped_frames_[k].frame.id < frame.id
<1>7. Entered(a)
  <2>1. /\ Lined(vse, n)
        /\ \A k \in DOMAIN vse.pending_mapped_frames_ :
              vse.pending_mapped_frames_[k].frame.id \in Nat
        /\ vse.pending_frame_ # None => vse.pending_frame_.id \in Nat
    <3>1. PICK S : /\ vse.pending_mapped_frames_ \in Seq(S)
                   /\ \A x \in S : "frame" \in DOMAIN x /\ Picture(x.frame)
        BY <1>3 DEF PictureInv, Underway, Lined, Pictures
    <3>2. All \subseteq Nat
      <4>1. Bound.frames \in Nat
          BY EncoderInputs
      <4> QED BY <4>1 DEF All
    <3>3. \A k \in DOMAIN vse.pending_mapped_frames_ :
             Picture(vse.pending_mapped_frames_[k].frame)
        BY <3>1
    <3> QED BY <1>3, <3>2, <3>3 DEF PictureInv, Underway, Lined, Picture
  <2>2. Lined(a, n + 1)
      BY <1>3, <1>5, <2>1 DEF Lined, Before
  <2>3. Coming(a) = Coming(vse)
      BY <1>5 DEF Coming
  <2>4. Covered(a, {frame.id})
      BY <1>3, <1>4, <1>5, <2>3 DEF PictureInv, Underway, Covered, Picture
  <2>5. GivenRight(a) /\ Fitted(a) /\ Placed(a)
      BY <1>3, <1>5 DEF PictureInv, Underway, GivenRight, Fitted, Placed
  <2>6. Before(a, frame.id)
      BY <1>3, <1>4, <1>5, <2>1 DEF Lined, Before
  <2>7. \A k \in DOMAIN a.pending_mapped_frames_ :
           a.pending_mapped_frames_[k].frame.id < frame.id
      BY <1>3, <1>4, <1>5, <2>1 DEF Lined
  <2> QED BY <1>3, <1>5, <2>2, <2>4, <2>5, <2>6, <2>7 DEF PictureInv, Underway
<1>8. Entered(c)
    BY <1>6, <1>7, AsGivenSame, SameFramesUnderway DEF AsGiven, Before
<1>9. ASSUME NEW s, Entered(s) PROVE PictureInv(ProcessDroppedFrame(s, frame), n + 1)
  <2>1. Underway(s, n + 1, {} \cup {frame.id})
      BY <1>9, MoreUnderway
  <2> QED BY <1>4, <1>9, <2>1, DropCovers DEF PictureInv
<1>10. PictureInv(MaybePrepareVideoFrame(c, frame), n + 1)
  <2> DEFINE task == [frame |-> frame,
                      can_send |-> c.encoder_ = "" \/ ~Info[c.encoder_].mapped]
             queue == c.pending_mapped_frames_
             more == Append(queue, task)
             prepared == [c EXCEPT !.pending_mapped_frames_ = more]
  <2>1. \/ MaybePrepareVideoFrame(c, frame) = ProcessDroppedFrame(c, frame)
        \/ MaybePrepareVideoFrame(c, frame) = prepared
      BY DEF MaybePrepareVideoFrame
  <2>2. "frame" \in DOMAIN task /\ task.frame = frame
      OBVIOUS
  <2> HIDE DEF task
  <2>3. PICK S : /\ queue \in Seq(S)
                 /\ \A x \in S : "frame" \in DOMAIN x /\ Picture(x.frame)
      BY <1>8 DEF Underway, Lined, Pictures
  <2>4. /\ prepared.pending_mapped_frames_ = more
        /\ DOMAIN prepared = DOMAIN c
        /\ prepared.unseen = c.unseen /\ prepared.lost = c.lost
        /\ prepared.accumulated_update_rect_ = c.accumulated_update_rect_
        /\ prepared.pending_frame_ = c.pending_frame_
        /\ prepared.call = c.call /\ prepared.crop = c.crop
        /\ prepared.send_codec_ = c.send_codec_ /\ prepared.encoder_ = c.encoder_
        /\ prepared.last_frame_info_ = c.last_frame_info_
        /\ prepared.encoder_initialized_ = c.encoder_initialized_
        /\ prepared.encoder_fallback_requested_ = c.encoder_fallback_requested_
      BY <1>8 DEF Underway, PictureMembers
  <2>5. /\ Lined(c, n + 1) /\ Before(c, frame.id)
        /\ \A k \in DOMAIN queue : queue[k].frame.id < frame.id
      BY <1>8 DEF Underway
  <2> HIDE DEF prepared, queue
  <2>6. /\ more \in Seq(S \cup {task})
        /\ \A x \in S \cup {task} : "frame" \in DOMAIN x /\ Picture(x.frame)
      BY <1>4, <2>2, <2>3
  <2>7. /\ Len(queue) \in Nat /\ DOMAIN queue = 1..Len(queue)
        /\ DOMAIN more = 1..(Len(queue) + 1)
        /\ \A k \in DOMAIN queue : more[k] = queue[k]
        /\ more[Len(queue) + 1] = task
      BY <2>3
  <2> HIDE DEF more
  <2>8. Pictures(more)
      BY <2>6 DEF Pictures
  <2>9. Ascending(more)
    <3> SUFFICES ASSUME NEW j \in DOMAIN more, NEW k \in DOMAIN more, j < k
                 PROVE  more[j].frame.id < more[k].frame.id
        BY DEF Ascending
    <3>1. j \in DOMAIN queue
        BY <2>7
    <3>2. CASE k \in DOMAIN queue
        BY <2>5, <2>7, <3>1, <3>2 DEF Lined, Ascending, queue
    <3>3. CASE k = Len(queue) + 1
        BY <2>2, <2>5, <2>7, <3>1, <3>3
    <3> QED BY <2>7, <3>2, <3>3
  <2>10. \A k \in DOMAIN more : more[k] = task \/ (k \in DOMAIN queue /\ more[k] = queue[k])
      BY <2>7
  <2>11. Lined(prepared, n + 1)
    <3>1. \A k \in DOMAIN more : /\ more[k].frame.id <= n + 1
                                 /\ Before(c, more[k].frame.id)
      <4>1. \A k \in DOMAIN queue : /\ queue[k].frame.id <= n + 1
                                    /\ Before(c, queue[k].frame.id)
          BY <2>5 DEF Lined, queue
      <4>2. task.frame.id <= n + 1 /\ Before(c, task.frame.id)
          BY <1>3, <1>4, <2>2, <2>5
      <4> QED BY <2>10, <4>1, <4>2
    <3> QED BY <2>4, <2>5, <2>8, <2>9, <3>1 DEF Lined, Before
  <2>12. Coming(c) \cup {frame.id} \subseteq Coming(prepared)
    <3>1. frame.id \in Coming(prepared)
        BY <1>4, <2>2, <2>4, <2>7 DEF Coming, Picture
    <3>2. \A k \in DOMAIN queue : k \in DOMAIN more /\ more[k] = queue[k]
        BY <2>7
    <3>3. Coming(c) \subseteq Coming(prepared)
        BY <2>4, <3>2 DEF Coming, queue
    <3> QED BY <3>1, <3>3
  <2>13. Covered(prepared, {})
      BY <1>8, <2>4, <2>12 DEF Underway, Covered
  <2>14. GivenRight(prepared) /\ Fitted(prepared) /\ Placed(prepared)
      BY <1>8, <2>4 DEF Underway, GivenRight, Fitted, Placed
  <2>15. PictureInv(prepared, n + 1)
      BY <1>8, <2>4, <2>11, <2>13, <2>14 DEF PictureInv, Underway
  <2> QED BY <1>8, <1>9, <2>1, <2>15
<1>11. PictureInv(vse', n + 1)
    BY <1>2, <1>7, <1>8, <1>9, <1>10
<1> QED BY <1>3, <1>11 DEF FrameInv, PictureInv, Underway

LEMMA FrameOnFramePrepared == FrameInv /\ OnFramePrepared => FrameInv'
<1> SUFFICES ASSUME FrameInv, OnFramePrepared PROVE FrameInv'
    OBVIOUS
<1> DEFINE queue == vse.pending_mapped_frames_
           n == used.frames
<1>1. PICK k \in DOMAIN queue :
         vse' = [vse EXCEPT !.pending_mapped_frames_[k].can_send = TRUE]
    BY DEF OnFramePrepared
<1> DEFINE task == [queue[k] EXCEPT !.can_send = TRUE]
           sent == [queue EXCEPT ![k] = task]
<1>2. vse' = [vse EXCEPT !.pending_mapped_frames_ = sent]
    BY <1>1
<1>3. ~vse.missing /\ PictureInv(vse, n)
    BY DEF OnFramePrepared, Idle, FrameInv
<1>4. PICK S : /\ queue \in Seq(S)
               /\ \A x \in S : "frame" \in DOMAIN x /\ Picture(x.frame)
    BY <1>3 DEF PictureInv, Underway, Lined, Pictures
<1>5. "frame" \in DOMAIN task /\ task.frame = queue[k].frame
  <2>1. queue[k] \in S
      BY <1>1, <1>4
  <2> QED BY <1>4, <2>1
<1>6. Lined(vse, n)
    BY <1>3 DEF PictureInv, Underway
<1> HIDE DEF task
<1>7. /\ sent \in Seq(S \cup {task}) /\ DOMAIN sent = DOMAIN queue
      /\ \A j \in DOMAIN queue : sent[j].frame = queue[j].frame
    BY <1>1, <1>4, <1>5
<1>8. /\ DOMAIN vse' = DOMAIN vse
      /\ vse'.pending_mapped_frames_ = sent
      /\ vse'.unseen = vse.unseen /\ vse'.lost = vse.lost
      /\ vse'.accumulated_update_rect_ = vse.accumulated_update_rect_
      /\ vse'.pending_frame_ = vse.pending_frame_
      /\ vse'.call = vse.call /\ vse'.crop = vse.crop
      /\ vse'.send_codec_ = vse.send_codec_ /\ vse'.encoder_ = vse.encoder_
      /\ vse'.last_frame_info_ = vse.last_frame_info_
      /\ vse'.encoder_initialized_ = vse.encoder_initialized_
      /\ vse'.encoder_fallback_requested_ = vse.encoder_fallback_requested_
    BY <1>2, <1>3 DEF PictureInv, Underway, PictureMembers
<1> HIDE DEF sent
<1>9. Pictures(sent)
  <2>1. \A x \in S \cup {task} : "frame" \in DOMAIN x /\ Picture(x.frame)
    <3>1. queue[k] \in S
        BY <1>1, <1>4
    <3> QED BY <1>4, <1>5, <3>1
  <2> QED BY <1>7, <2>1 DEF Pictures
<1>10. Lined(vse', n)
    BY <1>6, <1>7, <1>8, <1>9 DEF Lined, Ascending, Before
<1>11. Coming(vse') = Coming(vse)
    BY <1>7, <1>8 DEF Coming
<1>12. PictureInv(vse', n)
  <2>1. Covered(vse', {})
      BY <1>3, <1>8, <1>11 DEF PictureInv, Underway, Covered
  <2>2. GivenRight(vse') /\ Fitted(vse') /\ Placed(vse')
      BY <1>3, <1>8 DEF PictureInv, Underway, GivenRight, Fitted, Placed
  <2> QED BY <1>3, <1>8, <1>10, <2>1, <2>2 DEF PictureInv, Underway
<1>13. used' = used
    BY DEF OnFramePrepared
<1> QED BY <1>3, <1>12, <1>13 DEF FrameInv, PictureInv, Underway

\* The loop takes the oldest frame (OnFramePrepared).
LEMMA FrameSendPrepared == IInv /\ FrameInv /\ SendPrepared => FrameInv'
<1> SUFFICES ASSUME IInv, FrameInv, SendPrepared PROVE FrameInv'
    OBVIOUS
<1> DEFINE queue == vse.pending_mapped_frames_
           n == used.frames
           frame == Head(queue).frame
           rest == Tail(queue)
           left == [vse EXCEPT !.pending_mapped_frames_ = rest]
<1>1. PICK outcome \in Possible :
         /\ vse' = MaybeEncodeVideoFrame(left, frame, outcome)
         /\ UNCHANGED used \/ used' = [used EXCEPT !["odd"] = @ + 1]
    BY DEF SendPrepared, UseIfOdd, Use
<1>2. /\ queue # <<>> /\ vse.encoder_config_ \in Configs
      /\ PictureInv(vse, n) /\ ~vse.missing
    BY DEF SendPrepared, IInv, Kept, FrameInv
<1>3. PICK S : /\ queue \in Seq(S)
               /\ \A x \in S : "frame" \in DOMAIN x /\ Picture(x.frame)
    BY <1>2 DEF PictureInv, Underway, Lined, Pictures
<1>4. Lined(vse, n) /\ Ascending(queue)
    BY <1>2 DEF PictureInv, Underway, Lined
<1>5. /\ DOMAIN left = DOMAIN vse /\ left.pending_mapped_frames_ = rest
      /\ left.unseen = vse.unseen /\ left.lost = vse.lost
      /\ left.accumulated_update_rect_ = vse.accumulated_update_rect_
      /\ left.pending_frame_ = vse.pending_frame_
      /\ left.call = vse.call /\ left.crop = vse.crop
      /\ left.send_codec_ = vse.send_codec_ /\ left.encoder_ = vse.encoder_
      /\ left.last_frame_info_ = vse.last_frame_info_
      /\ left.encoder_config_ = vse.encoder_config_
      /\ left.encoder_initialized_ = vse.encoder_initialized_
      /\ left.encoder_fallback_requested_ = vse.encoder_fallback_requested_
    BY <1>2 DEF PictureInv, Underway, PictureMembers
<1>6. /\ 1 \in DOMAIN queue /\ frame = queue[1].frame
      /\ rest \in Seq(S)
      /\ \A k \in DOMAIN rest : /\ k \in Nat /\ k + 1 \in DOMAIN queue /\ 1 < k + 1
                                /\ rest[k] = queue[k + 1]
      /\ \A k \in DOMAIN queue : k # 1 => k - 1 \in DOMAIN rest /\ rest[k - 1] = queue[k]
  <2>1. /\ Len(queue) \in Nat \ {0} /\ DOMAIN queue = 1..Len(queue)
        /\ Len(rest) = Len(queue) - 1 /\ DOMAIN rest = 1..Len(rest)
        /\ rest \in Seq(S) /\ Head(queue) = queue[1]
      BY <1>2, <1>3
  <2>2. \A k \in 1..Len(rest) : rest[k] = queue[k + 1]
      BY <1>2, <1>3
  <2> HIDE DEF queue, rest
  <2> QED BY <2>1, <2>2
<1> HIDE DEF queue, left, frame, rest
<1>7. /\ Picture(frame) /\ frame.id <= n /\ Before(vse, frame.id)
      /\ \A k \in DOMAIN rest : frame.id < rest[k].frame.id
  <2>1. queue[1] \in S
      BY <1>3, <1>6
  <2>2. frame.id <= n /\ Before(vse, frame.id)
      BY <1>4, <1>6 DEF Lined, queue
  <2>3. \A k \in DOMAIN rest : frame.id < rest[k].frame.id
      BY <1>4, <1>6 DEF Ascending
  <2> QED BY <1>3, <1>6, <2>1, <2>2, <2>3
<1>8. Lined(left, n)
  <2>1. Pictures(rest)
      BY <1>3, <1>6 DEF Pictures
  <2>2. Ascending(rest)
    <3> SUFFICES ASSUME NEW j \in DOMAIN rest, NEW k \in DOMAIN rest, j < k
                 PROVE  rest[j].frame.id < rest[k].frame.id
        BY DEF Ascending
    <3>1. j + 1 < k + 1
        BY <1>6
    <3> HIDE DEF Ascending
    <3> QED BY <1>4, <1>6, <3>1 DEF Ascending
  <2>3. \A k \in DOMAIN queue : queue[k].frame.id <= n /\ Before(vse, queue[k].frame.id)
      BY <1>4 DEF Lined, queue
  <2>4. \A k \in DOMAIN rest : rest[k].frame.id <= n /\ Before(vse, rest[k].frame.id)
      BY <1>6, <2>3
  <2> QED BY <1>4, <1>5, <2>1, <2>2, <2>4 DEF Lined, Before
<1>9. Underway(left, n, {frame.id})
  <2>1. Coming(vse) \subseteq Coming(left) \cup {frame.id}
    <3>1. \A a : (\E k \in DOMAIN queue : a = queue[k].frame.id) =>
                    \/ a = frame.id
                    \/ \E k \in DOMAIN rest : a = rest[k].frame.id
        BY <1>6
    <3> QED BY <1>5, <3>1 DEF Coming, queue
  <2>2. Covered(left, {frame.id})
      BY <1>2, <1>5, <2>1 DEF PictureInv, Underway, Covered
  <2> QED BY <1>2, <1>5, <1>8, <2>2 DEF PictureInv, Underway, GivenRight
<1>10. Fitted(left) /\ Before(left, frame.id) /\ left.encoder_config_ \in Configs
    BY <1>2, <1>5, <1>7 DEF PictureInv, Fitted, Before
<1>11. GivenRight(vse') /\ (vse'.missing \/ PictureInv(vse', n))
    BY <1>1, <1>5, <1>7, <1>9, <1>10, MaybeEncodeGives
<1>12. "frames" \in DOMAIN used' /\ used'.frames = used.frames
    BY <1>1 DEF FrameInv
<1> QED BY <1>11, <1>12 DEF FrameInv

LEMMA FrameBitrate == FrameInv /\ OnBitrateUpdated => FrameInv'
<1> SUFFICES ASSUME FrameInv, OnBitrateUpdated PROVE FrameInv'
    OBVIOUS
<1> DEFINE n == used.frames
<1>1. PICK interval, rate, outcome : \/ vse' = AtRate(vse, interval, rate)
                                     \/ vse' = Resumed(AtRate(vse, interval, rate), outcome)
    BY DEF OnBitrateUpdated
<1>2. "frames" \in DOMAIN used' /\ used'.frames = n
  <2>1. \E more : used' = [used EXCEPT !["bitrates"] = @ + 1, !["odd"] = more]
      BY DEF OnBitrateUpdated
  <2> QED BY <2>1 DEF FrameInv
<1>3. PictureInv(vse, n) /\ ~vse.missing
    BY DEF OnBitrateUpdated, Running, Idle, FrameInv
<1> DEFINE start == [vse EXCEPT !.cwnd_frame_drop_interval_ = interval]
           set == SetEncoderRates(start, UpdateBitrateAllocation(vse, rate))
           noted == AtRate(vse, interval, rate)
<1>4. noted = [set EXCEPT !.encoder_target_bitrate_bps_ = IF rate # 0 THEN rate ELSE @]
    BY DEF AtRate
<1>5. AsGiven(vse, start) /\ PictureMembers \subseteq DOMAIN start
    BY <1>3 DEF PictureInv, Underway, PictureMembers, AsGiven
<1> HIDE DEF start
<1>6. AsGiven(start, set)
    BY <1>5, RatesGiven
<1> HIDE DEF set
<1>7. AsGiven(set, noted)
    BY <1>4, <1>5, <1>6 DEF AsGiven, PictureMembers
<1> HIDE DEF noted
<1>8. PictureInv(noted, n)
    BY <1>3, <1>5, <1>6, <1>7, AsGivenKeeps
<1>9. PictureInv(Resumed(noted, outcome), n)
    BY <1>8, ResumedGives
<1> QED BY <1>1, <1>2, <1>3, <1>8, <1>9, OthersKeep DEF noted

LEMMA FrameNext == IInv /\ FrameInv /\ [Next]_vars => FrameInv'
<1> SUFFICES ASSUME IInv, FrameInv, [Next]_vars PROVE FrameInv'
    OBVIOUS
<1> DEFINE n == used.frames
<1>1. ASSUME NEW kind \in {"configs", "requests", "seconds"},
             used' = [used EXCEPT ![kind] = @ + 1]
      PROVE  "frames" \in DOMAIN used' /\ used'.frames = n
    BY <1>1 DEF FrameInv
<1>2. CASE ConfigureEncoder
  <2>1. PICK config \in Configs :
           vse' = [vse EXCEPT !.wants = WantsOf(config),
                              !.refresh = @ \/ vse.wants # WantsOf(config)]
      BY <1>2 DEF ConfigureEncoder
  <2>2. used' = [used EXCEPT !["configs"] = @ + 1]
      BY <1>2 DEF ConfigureEncoder, Use
  <2>3. vse'.missing = vse.missing
      BY <2>1
  <2>4. ASSUME PictureInv(vse, n) PROVE PictureInv(vse', n)
    <3>1. AsGiven(vse, vse')
        BY <2>1, <2>4 DEF PictureInv, Underway, PictureMembers, AsGiven
    <3> QED BY <2>4, <3>1, AsGivenKeeps
  <2>5. GivenRight(vse')
    <3>1. vse'.call = vse.call
        BY <2>1
    <3> QED BY <3>1 DEF FrameInv, GivenRight
  <2> QED BY <1>1, <2>2, <2>3, <2>4, <2>5 DEF FrameInv
<1>3. CASE SendKeyFrame
  <2>1. PictureInv(vse, n) /\ ~vse.missing
      BY <1>3 DEF SendKeyFrame, Running, Idle, FrameInv
  <2>2. used' = [used EXCEPT !["requests"] = @ + 1]
      BY <1>3 DEF SendKeyFrame, Use
  <2>3. AsGiven(vse, vse')
      BY <1>3, <2>1 DEF SendKeyFrame, PictureInv, Underway, PictureMembers, AsGiven
  <2> QED BY <1>1, <2>1, <2>2, <2>3, AsGivenKeeps, OthersKeep
<1>4. CASE OnVideoSourceRestrictionsUpdated
  <2>1. PictureInv(vse, n) /\ ~vse.missing
      BY <1>4 DEF OnVideoSourceRestrictionsUpdated, Running, Idle, FrameInv
  <2>2. used' = [used EXCEPT !["requests"] = @ + 1]
      BY <1>4 DEF OnVideoSourceRestrictionsUpdated, Use
  <2>3. AsGiven(vse, vse')
      BY <1>4, <2>1 DEF OnVideoSourceRestrictionsUpdated, PictureInv, Underway,
         PictureMembers, AsGiven
  <2> QED BY <1>1, <2>1, <2>2, <2>3, AsGivenKeeps, OthersKeep
<1>5. CASE Stop
  <2>1. PictureInv(vse, n) /\ ~vse.missing /\ used' = used
      BY <1>5 DEF Stop, Running, Idle, FrameInv
  <2>2. SameFrames(vse, vse') /\ Fitted(vse')
      BY <1>5, <2>1 DEF Stop, ReleaseEncoder, PictureInv, Underway, PictureMembers,
         SameFrames, Fitted
  <2>3. PictureInv(vse', n)
      BY <2>1, <2>2, SameFramesUnderway DEF PictureInv
  <2> QED BY <2>1, <2>3, OthersKeep DEF FrameInv
<1>6. CASE SecondPasses
  <2>1. PictureInv(vse, n) /\ ~vse.missing
      BY <1>6 DEF SecondPasses, Running, Idle, FrameInv
  <2>2. used' = [used EXCEPT !["seconds"] = @ + 1]
      BY <1>6 DEF SecondPasses, Use
  <2>3. AsGiven(vse, vse')
      BY <1>6, <2>1 DEF SecondPasses, PictureInv, Underway, PictureMembers, AsGiven
  <2> QED BY <1>1, <2>1, <2>2, <2>3, AsGivenKeeps, OthersKeep
<1>7. CASE UNCHANGED vars
    BY <1>7 DEF vars, FrameInv
<1> QED BY <1>2, <1>3, <1>4, <1>5, <1>6, <1>7, FrameConfigureTask, FrameOnFrame,
           FrameOnFramePrepared, FrameSendPrepared, FrameBitrate DEF Next

\* The encoder is given the frames in the order they came, each as large as its codec,
\* with an update rectangle of all that changed since the one it saw last: however
\* frames are prepared, dropped, kept over a pause or cropped, and whatever happens to
\* the encoder meanwhile (MaybeEncodeVideoFrame, EncodeVideoFrame).
THEOREM SpecFramesGivenRight == Spec => []FramesGivenRight
<1> DEFINE Throughout == IInv /\ FrameInv
<1>1. Throughout => FramesGivenRight
    BY DEF FrameInv, GivenRight, FramesGivenRight
<1>2. Throughout /\ [Next]_vars => Throughout'
    BY NextKeeps, FrameNext
<1>3. Init => Throughout
    BY InitInv, FrameInit
<1> HIDE DEF Throughout
<1> QED BY <1>1, <1>2, <1>3, PTL DEF Spec

-----------------------------------------------------------------------------
(* The limits: the sum over the streams.                                    *)

\* Every nonempty set of naturals has a least member.
LEMMA LeastNumber ==
    ASSUME NEW N \in SUBSET Nat, NEW some \in N
    PROVE  \E m \in N : \A n \in N : m <= n
<1> DEFINE Below == {0..n : n \in N}
<1>1. Below \subseteq FiniteSubsetsOf(Nat)
  <2>1. ASSUME NEW n \in N PROVE 0..n \subseteq Nat /\ IsFiniteSet(0..n)
      BY FS_Interval
  <2> QED BY <2>1 DEF FiniteSubsetsOf
<1>2. IsWellFoundedOn(StrictSubsetOrdering(Nat), FiniteSubsetsOf(Nat))
    BY FS_StrictSubsetOrderingWellFounded
<1>3. 0..some \in Below
    OBVIOUS
<1>4. PICK s \in Below : \A t \in Below : ~(<<t, s>> \in StrictSubsetOrdering(Nat))
  <2> HIDE DEF Below
  <2> QED BY <1>1, <1>2, <1>3, WFMin
<1>5. PICK m \in N : s = 0..m
    OBVIOUS
<1>6. ASSUME NEW n \in N, n < m PROVE FALSE
  <2>1. 0..n \subseteq 0..m /\ 0..n # 0..m
    <3>1. m \in 0..m /\ ~(m \in 0..n)
        BY <1>6
    <3>2. 0..n \subseteq 0..m
        BY <1>6
    <3> QED BY <3>1, <3>2
  <2>2. <<0..n, 0..m>> \in StrictSubsetOrdering(Nat)
    <3>1. 0..n \in SUBSET Nat /\ 0..m \in SUBSET Nat
        OBVIOUS
    <3> QED BY <2>1, <3>1 DEF StrictSubsetOrdering
  <2> QED BY <2>2, <1>4, <1>5
<1> QED BY <1>6

\* Induction over the naturals, of a set in the place of a predicate.
LEMMA Induction ==
    ASSUME NEW P, 0 \in P, \A n \in Nat : n \in P => n + 1 \in P
    PROVE  \A n \in Nat : n \in P
<1> DEFINE N == Nat \ P
<1> SUFFICES ASSUME N # {} PROVE FALSE
    OBVIOUS
<1>1. PICK m \in N : \A n \in N : m <= n
    BY LeastNumber
<1>2. m # 0
    OBVIOUS
<1>3. m - 1 \in Nat /\ m - 1 \notin N
    BY <1>1, <1>2
<1>4. (m - 1) + 1 \in P
    BY <1>3
<1> QED BY <1>4

\* What a sum over a finite set, one member after the other, is defined to be.
OneOf(s) == CHOOSE x \in s : TRUE
SumIs(rates, sum, subsets) ==
    sum = [s \in subsets |-> IF s = {} THEN 0
                             ELSE rates[OneOf(s)] + sum[s \ {OneOf(s)}]]

\* A set is one larger than without its chosen member.
LEMMA OneLess ==
    ASSUME NEW s, IsFiniteSet(s), s # {}
    PROVE  /\ OneOf(s) \in s
           /\ IsFiniteSet(s \ {OneOf(s)})
           /\ Cardinality(s \ {OneOf(s)}) = Cardinality(s) - 1
<1>1. OneOf(s) \in s
    BY DEF OneOf
<1> QED BY <1>1, FS_RemoveElement

\* There is such a sum, by induction over the number of members.
LEMMA SumExists ==
    ASSUME NEW S, IsFiniteSet(S), NEW rates
    PROVE  \E sum : SumIs(rates, sum, SUBSET S)
<1> DEFINE Small(n) == {s \in SUBSET S : Cardinality(s) <= n}
           P == {n \in Nat : \E sum : SumIs(rates, sum, Small(n))}
<1>1. \A s \in SUBSET S : IsFiniteSet(s) /\ Cardinality(s) \in Nat
    BY FS_Subset, FS_CardinalityType
<1>2. 0 \in P
  <2>1. Small(0) = {{}}
    <3>1. \A s \in SUBSET S : Cardinality(s) <= 0 <=> s = {}
        BY <1>1, FS_EmptySet
    <3> QED BY <3>1
  <2>2. SumIs(rates, [s \in Small(0) |-> 0], Small(0))
    <3> HIDE DEF Small
    <3> QED BY <2>1 DEF SumIs
  <2> HIDE DEF Small
  <2> QED BY <2>2
<1>3. ASSUME NEW n \in Nat, n \in P PROVE n + 1 \in P
  <2>1. PICK sum : SumIs(rates, sum, Small(n))
      BY <1>3
  <2> DEFINE more == [s \in Small(n + 1) |->
                        IF s \in Small(n) THEN sum[s]
                        ELSE rates[OneOf(s)] + sum[s \ {OneOf(s)}]]
  <2>2. ASSUME NEW s \in Small(n + 1), s # {}
        PROVE  s \ {OneOf(s)} \in Small(n) /\ s \ {OneOf(s)} \in Small(n + 1)
    <3>1. IsFiniteSet(s) /\ Cardinality(s) \in Nat /\ Cardinality(s) <= n + 1
        BY <1>1
    <3>2. Cardinality(s \ {OneOf(s)}) = Cardinality(s) - 1
        BY <2>2, <3>1, OneLess
    <3>3. s \ {OneOf(s)} \in SUBSET S
        OBVIOUS
    <3> QED BY <3>1, <3>2, <3>3
  <2>3. {} \in Small(n)
      BY FS_EmptySet
  <2>4. \A s \in Small(n) : s \in Small(n + 1)
      BY <1>1
  <2> HIDE DEF Small
  <2>5. \A s \in Small(n) : sum[s] = IF s = {} THEN 0
                                     ELSE rates[OneOf(s)] + sum[s \ {OneOf(s)}]
      BY <2>1 DEF SumIs
  <2>6. ASSUME NEW s \in Small(n + 1)
        PROVE  more[s] = IF s = {} THEN 0
                         ELSE rates[OneOf(s)] + more[s \ {OneOf(s)}]
    <3>1. CASE s = {}
        BY <3>1, <2>3, <2>5
    <3>2. CASE s # {}
      <4>1. more[s \ {OneOf(s)}] = sum[s \ {OneOf(s)}]
          BY <3>2, <2>2
      <4>2. more[s] = rates[OneOf(s)] + sum[s \ {OneOf(s)}]
          BY <3>2, <2>5
      <4> QED BY <3>2, <4>1, <4>2
    <3> QED BY <3>1, <3>2
  <2>7. SumIs(rates, more, Small(n + 1))
    <3>1. more = [s \in Small(n + 1) |-> more[s]]
        OBVIOUS
    <3> HIDE DEF more
    <3> QED BY <2>6, <3>1 DEF SumIs
  <2> HIDE DEF more
  <2> QED BY <2>7
<1>4. Cardinality(S) \in P
  <2>1. \A n \in Nat : n \in P
    <3> HIDE DEF P
    <3> QED BY <1>2, <1>3, Induction
  <2> QED BY <2>1, FS_CardinalityType
<1>5. Small(Cardinality(S)) = SUBSET S
    BY FS_Subset
<1> HIDE DEF Small
<1> QED BY <1>4, <1>5

\* A sum of natural numbers is one, and no less than each of them.
LEMMA TotalExceedsEach ==
    ASSUME NEW rates, NEW n \in Nat, DOMAIN rates = 1..n,
           \A i \in 1..n : rates[i] \in Nat
    PROVE  Total(rates) \in Nat /\ \A i \in 1..n : rates[i] <= Total(rates)
<1> DEFINE S == 1..n
           sum == CHOOSE f : SumIs(rates, f, SUBSET S)
           Exceeds(s) == sum[s] \in Nat /\ \A i \in s : rates[i] <= sum[s]
           P == {m \in Nat : \A s \in SUBSET S : Cardinality(s) = m => Exceeds(s)}
<1>1. IsFiniteSet(S)
    BY FS_Interval
<1>2. Total(rates) = sum[S]
    BY DEF Total, FoldSeq, FoldFunction, FoldFunctionOnSet, MapThenFoldSet, SumIs, OneOf
<1>3. SumIs(rates, sum, SUBSET S)
    BY <1>1, SumExists
<1> HIDE DEF sum
<1>4. \A s \in SUBSET S : sum[s] = IF s = {} THEN 0
                                   ELSE rates[OneOf(s)] + sum[s \ {OneOf(s)}]
    BY <1>3 DEF SumIs
<1>5. \A s \in SUBSET S : IsFiniteSet(s) /\ Cardinality(s) \in Nat
    BY <1>1, FS_Subset, FS_CardinalityType
<1>6. 0 \in P
  <2>1. ASSUME NEW s \in SUBSET S, Cardinality(s) = 0 PROVE Exceeds(s)
    <3>1. s = {}
        BY <1>5, <2>1, FS_EmptySet
    <3>2. sum[s] = 0
        BY <3>1, <1>4
    <3> QED BY <3>1, <3>2
  <2> QED BY <2>1
<1>7. ASSUME NEW m \in Nat, m \in P PROVE m + 1 \in P
  <2> SUFFICES ASSUME NEW s \in SUBSET S, Cardinality(s) = m + 1 PROVE Exceeds(s)
      OBVIOUS
  <2> DEFINE x == OneOf(s)
             r == s \ {x}
  <2>1. IsFiniteSet(s) /\ s # {}
      BY <1>5, FS_EmptySet
  <2>2. x \in s /\ Cardinality(r) = m /\ r \in SUBSET S
    <3>1. OneOf(s) \in s /\ Cardinality(s \ {OneOf(s)}) = Cardinality(s) - 1
        BY <2>1, OneLess
    <3>2. Cardinality(s \ {OneOf(s)}) = m
      <4> HIDE DEF S
      <4> QED BY ONLY <3>1, Cardinality(s) = m + 1, m \in Nat
    <3>3. s \ {OneOf(s)} \in SUBSET S
        OBVIOUS
    <3> QED BY <3>1, <3>2, <3>3
  <2>3. Exceeds(r)
      BY <1>7, <2>2
  <2>4. sum[s] = rates[x] + sum[r]
      BY <1>4, <2>1
  <2>5. rates[x] \in Nat /\ \A i \in s : i = x \/ i \in r
      BY <2>2
  <2> HIDE DEF x, r
  <2>6. \A i \in s : rates[i] \in Nat
      OBVIOUS
  <2> QED BY <2>3, <2>4, <2>5, <2>6
<1>8. \A m \in Nat : m \in P
  <2> HIDE DEF P
  <2> QED BY <1>6, <1>7, Induction
<1>9. Exceeds(S)
    BY <1>8, <1>5
<1> QED BY <1>2, <1>9

-----------------------------------------------------------------------------
(* The limits: those of a codec.                                            *)

Rated(stream) ==
    /\ {"active", "min", "target", "max"} \subseteq DOMAIN stream
    /\ stream.min \in Nat /\ stream.target \in Nat /\ stream.max \in Nat
InOrder(format, stream) ==
    /\ Rated(stream)
    /\ stream.min <= stream.max /\ stream.target <= stream.max
    /\ stream.min <= stream.target \/ TargetTooLow(format, stream)
\* As the factory makes it of a layer.
Made(config, layer, stream) ==
    /\ Rated(stream)
    /\ stream.min <= stream.max /\ stream.target = stream.max
    /\ layer.max = 0 /\ config.max = 0 => stream.max = FactoryMax

\* What the assumptions say of a configuration.
LEMMA LayersRated ==
    ASSUME NEW config \in Configs
    PROVE  /\ Len(config.layers) \in Nat \ {0} /\ config.max \in Nat
           /\ config.format \in DOMAIN Info
           /\ \A i \in 1..Len(config.layers) : /\ config.layers[i].min \in Nat
                                               /\ config.layers[i].max \in Nat
BY EncoderInputs

LEMMA SmallerAndLarger ==
    ASSUME NEW a \in Nat, NEW b \in Nat
    PROVE  /\ MinOf(a, b) \in Nat /\ MinOf(a, b) <= a /\ MinOf(a, b) <= b
           /\ MaxOf(a, b) \in Nat /\ a <= MaxOf(a, b) /\ b <= MaxOf(a, b)
           /\ MinOf(a, b) = a \/ MinOf(a, b) = b
           /\ MaxOf(a, b) = a \/ MaxOf(a, b) = b
BY DEF MinOf, MaxOf

\* The factory's limits of a layer (EncoderStreamFactory).
LEMMA StreamMade ==
    ASSUME NEW config \in Configs, NEW i \in 1..Len(config.layers), NEW size
    PROVE  Made(config, config.layers[i], StreamOf(config, config.layers[i], size))
<1> DEFINE layer == config.layers[i]
           own == IF layer.max = 0 THEN FactoryMax ELSE layer.max
           whole == IF config.max = 0 THEN FactoryMax ELSE config.max
           floor == IF layer.min = 0 THEN FactoryMin ELSE layer.min
           most == MinOf(own, whole)
           least == MinOf(floor, most)
           made == [active |-> layer.active, min |-> least, target |-> most,
                    max |-> most, size |-> size, temporal |-> layer.temporal]
<1>1. own \in Nat /\ whole \in Nat /\ floor \in Nat
    BY LayersRated, FactoryLimits
<1>2. layer.max = 0 /\ config.max = 0 => own = FactoryMax /\ whole = FactoryMax
    OBVIOUS
<1>3. StreamOf(config, layer, size) = made
    BY DEF StreamOf
<1> HIDE DEF own, whole, floor
<1>4. most \in Nat /\ least \in Nat /\ least <= most
    BY <1>1, SmallerAndLarger
<1>5. layer.max = 0 /\ config.max = 0 => most = FactoryMax
    BY <1>2 DEF MinOf
<1> HIDE DEF layer, most, least
<1>6. Made(config, layer, made)
    BY <1>4, <1>5 DEF Made, Rated
<1> QED BY <1>3, <1>6 DEF layer

\* The limits where the QP says nothing (1150-1199).
LEMMA UntrustedOrdered ==
    ASSUME NEW config, NEW format, NEW stream, Rated(stream),
           NEW limit, limit.min \in Nat, limit.max \in Nat
    PROVE  InOrder(format, Untrusted(config, stream, limit))
<1> DEFINE most == MinOf(stream.max, limit.max)
           raised == IF config.screen THEN MaxOf(most, kDefaultMinScreenKbps) ELSE most
           least == MinOf(most, limit.min)
           new == [stream EXCEPT !.min = least, !.max = raised, !.target = raised]
<1>1. most \in Nat
    BY SmallerAndLarger DEF Rated
<1>2. raised \in Nat /\ most <= raised
    BY <1>1, SmallerAndLarger, FactoryLimits
<1>3. least \in Nat /\ least <= raised
  <2> HIDE DEF most, raised
  <2>1. least \in Nat /\ least <= most
      BY <1>1, SmallerAndLarger
  <2> HIDE DEF least
  <2> QED BY <1>1, <1>2, <2>1
<1>4. Untrusted(config, stream, limit) = new
    BY DEF Untrusted
<1> HIDE DEF most, raised, least
<1>5. /\ new.min = least /\ new.max = raised /\ new.target = raised
      /\ {"active", "min", "target", "max"} \subseteq DOMAIN new
    BY DEF Rated
<1> HIDE DEF new
<1> QED BY <1>2, <1>3, <1>4, <1>5 DEF InOrder, Rated

LEMMA MadeOrdered ==
    ASSUME NEW config, NEW layer, NEW format, NEW stream, Made(config, layer, stream)
    PROVE  InOrder(format, stream)
BY DEF Made, InOrder, Rated

\* The encoder's limits a..b and the application's c..d, or the factory's where the
\* application sets no maximum.
LEMMA Intersection ==
    ASSUME NEW a \in Nat, NEW b \in Nat, NEW c \in Nat, NEW d \in Nat,
           a <= b, c <= d, FactoryMax \in Nat,
           NEW min, NEW max, min = a \/ min = MaxOf(a, c), min < max,
           \/ max = MinOf(b, d)
           \/ max = b /\ d = FactoryMax
    PROVE  /\ min \in Nat /\ max \in Nat /\ MinOf(d, b) \in Nat /\ MinOf(d, b) <= max
           /\ \/ min <= MinOf(d, b)
              \/ min = a /\ MinOf(d, b) = FactoryMax /\ FactoryMax < a
<1>1. min \in Nat /\ max \in Nat /\ MinOf(d, b) \in Nat /\ MinOf(d, b) <= max
    BY DEF MinOf, MaxOf
<1>2. CASE max = MinOf(b, d)
    BY <1>2 DEF MinOf, MaxOf
<1>3. CASE max = b /\ d = FactoryMax
    BY <1>3 DEF MinOf, MaxOf
<1> QED BY <1>1, <1>2, <1>3

\* The intersection with the encoder's limits is not empty, or is not taken.
LEMMA IntersectedOrdered ==
    ASSUME NEW config \in Configs, NEW stream, Made(config, config.layers[1], stream),
           Info[config.format].limit # None
    PROVE  InOrder(config.format, Intersected(config, stream, Info[config.format].limit))
<1> DEFINE layer == config.layers[1]
           limit == Info[config.format].limit
           min == IF layer.min = 0 THEN limit.min ELSE MaxOf(limit.min, stream.min)
           max == IF layer.max = 0 /\ config.max = 0 THEN limit.max
                  ELSE MinOf(limit.max, stream.max)
           target == MinOf(stream.target, limit.max)
           new == [stream EXCEPT !.min = min, !.max = max, !.target = target]
<1>1. limit.min \in Nat /\ limit.max \in Nat /\ limit.min <= limit.max
    BY EncodersTyped, LayersRated DEF None
<1>2. /\ Rated(stream) /\ stream.min <= stream.max /\ stream.target = stream.max
      /\ layer.max = 0 /\ config.max = 0 => stream.max = FactoryMax
    BY DEF Made
<1>3. Intersected(config, stream, limit) = IF NoIntersection(min, max) THEN stream ELSE new
    BY DEF Intersected
<1>4. InOrder(config.format, stream)
    BY MadeOrdered
<1>5. FactoryMax \in Nat
    BY FactoryLimits
<1>6. ASSUME ~NoIntersection(min, max) PROVE InOrder(config.format, new)
  <2>1. min < max \/ ~(min >= max)
      BY <1>6 DEF NoIntersection
  <2>2. min \in Nat /\ max \in Nat
    <3>1. min = limit.min \/ min = MaxOf(limit.min, stream.min)
        OBVIOUS
    <3>2. max = limit.max \/ max = MinOf(limit.max, stream.max)
        OBVIOUS
    <3> HIDE DEF min, max, limit
    <3> QED BY <1>1, <1>2, <3>1, <3>2, SmallerAndLarger DEF Rated
  <2>3. /\ target \in Nat /\ target <= max
        /\ min <= target \/ /\ min = limit.min /\ target = FactoryMax
                            /\ FactoryMax < limit.min
    <3>1. min = limit.min \/ min = MaxOf(limit.min, stream.min)
        OBVIOUS
    <3>2. \/ max = MinOf(limit.max, stream.max)
          \/ max = limit.max /\ stream.max = FactoryMax
        BY <1>2
    <3>3. target = MinOf(stream.max, limit.max)
        BY <1>2
    <3> HIDE DEF min, max, limit, target
    <3>4. min < max
        BY <2>1, <2>2
    <3>5. stream.min \in Nat /\ stream.max \in Nat /\ stream.min <= stream.max
        BY <1>2 DEF Rated
    <3> QED BY ONLY <1>1, <1>5, <3>1, <3>2, <3>3, <3>4, <3>5, Intersection
  <2> HIDE DEF min, max, target
  <2>4. /\ new.min = min /\ new.max = max /\ new.target = target
        /\ {"active", "min", "target", "max"} \subseteq DOMAIN new
      BY <1>2 DEF Rated
  <2> HIDE DEF new
  <2>5. min <= target \/ TargetTooLow(config.format, new)
      BY <2>3, <2>4 DEF TargetTooLow
  <2> QED BY <2>1, <2>2, <2>3, <2>4, <2>5 DEF InOrder, Rated
<1> QED BY <1>3, <1>4, <1>6

\* The application's limits prevail, and are put in order (ReconfigureEncoder).
LEMMA WithinOrdered ==
    ASSUME NEW format, NEW stream, Rated(stream), NEW layer, NEW of, NEW limit,
           layer.min \in Nat, of.min \in Nat, of.max \in Nat,
           limit.min \in Nat, limit.max \in Nat
    PROVE  InOrder(format, Within(stream, Prevailing(layer, of, limit)))
<1> DEFINE range == Prevailing(layer, of, limit)
           target == Clamp(stream.target, range.min, range.max)
           new == [stream EXCEPT !.min = range.min, !.max = range.max, !.target = target]
<1>1. range.min \in Nat /\ range.max \in Nat /\ range.min <= range.max
  <2> DEFINE min == IF layer.min = 0 THEN limit.min ELSE of.min
             max == IF layer.max = 0 THEN limit.max ELSE of.max
  <2>1. min \in Nat /\ max \in Nat
      OBVIOUS
  <2>2. range = IF layer.min > 0 THEN [min |-> min, max |-> MaxOf(min, max)]
                ELSE [min |-> MinOf(min, max), max |-> max]
      BY DEF Prevailing
  <2> HIDE DEF min, max, range
  <2> QED BY <2>1, <2>2, SmallerAndLarger
<1>2. Within(stream, range) = new
    BY DEF Within
<1> HIDE DEF range
<1>3. target \in Nat /\ range.min <= target /\ target <= range.max
    BY <1>1 DEF Clamp, MinOf, MaxOf, Rated
<1> HIDE DEF target
<1>4. /\ new.min = range.min /\ new.max = range.max /\ new.target = target
      /\ {"active", "min", "target", "max"} \subseteq DOMAIN new
    BY DEF Rated
<1> HIDE DEF new
<1>5. InOrder(format, new)
    BY <1>1, <1>3, <1>4 DEF InOrder, Rated
<1> QED BY <1>2, <1>5 DEF range

\* n streams or layers, whose limits are in order.
AllInOrder(format, streams, n) ==
    /\ DOMAIN streams = 1..n
    /\ \A i \in 1..n : InOrder(format, streams[i])

LEMMA LimitRated ==
    ASSUME NEW config \in Configs, LimitWithDefault(config) # None
    PROVE  LimitWithDefault(config).min \in Nat /\ LimitWithDefault(config).max \in Nat
<1>1. Info[config.format].limit # None =>
         Info[config.format].limit.min \in Nat /\ Info[config.format].limit.max \in Nat
    BY EncodersTyped, LayersRated DEF None
<1>2. DefaultLimits.min \in Nat /\ DefaultLimits.max \in Nat
    BY FactoryLimits
<1>3. LimitWithDefault(config) = DefaultLimits
      \/ LimitWithDefault(config) = Info[config.format].limit
    BY DEF LimitWithDefault
<1> QED BY <1>1, <1>2, <1>3

\* The streams, one for each layer or one in all.
LEMMA StreamsMade ==
    ASSUME NEW config \in Configs, NEW size, NEW max_pixels
    PROVE  \E n \in {1, Len(config.layers)} :
              LET streams == CreateEncoderStreams(config, size, max_pixels)
              IN  /\ DOMAIN streams = 1..n /\ Len(streams) = n
                  /\ \A i \in 1..n : \E j \in 1..Len(config.layers) :
                        Made(config, config.layers[j], streams[i])
<1> DEFINE streams == CreateEncoderStreams(config, size, max_pixels)
           n == Len(config.layers)
           Right(m) == /\ DOMAIN streams = 1..m /\ Len(streams) = m
                       /\ \A i \in 1..m : \E j \in 1..n :
                             Made(config, config.layers[j], streams[i])
<1>0. n \in Nat \ {0}
    BY LayersRated
<1>1. CASE Scalable(config.format)
  <2> DEFINE highest == StreamSize(config, size, max_pixels)
             made == StreamOf(config, config.layers[n], highest)
             one == [made EXCEPT !.active = NumActiveStreams(config.layers) > 0]
  <2>1. streams = <<one>>
      BY <1>1 DEF CreateEncoderStreams
  <2>2. Made(config, config.layers[n], made)
      BY <1>0, StreamMade
  <2> HIDE DEF made
  <2>3. Made(config, config.layers[n], one)
      BY <2>2 DEF Made, Rated
  <2> HIDE DEF one, streams
  <2>4. Right(1)
    <3>1. DOMAIN streams = 1..1 /\ Len(streams) = 1 /\ streams[1] = one
        BY <2>1
    <3>2. n \in 1..n
        BY <1>0
    <3> HIDE DEF n
    <3> QED BY <2>3, <3>1, <3>2
  <2> QED BY <2>4 DEF streams
<1>2. CASE ~Scalable(config.format)
  <2> DEFINE highest == StreamSize(config, size, max_pixels)
             Of(i) == IF i = n THEN highest ELSE Smaller(highest, 2 ^ (n - i))
  <2>1. streams = [i \in 1..n |-> StreamOf(config, config.layers[i], Of(i))]
      BY <1>2 DEF CreateEncoderStreams
  <2>2. \A i \in 1..n : Made(config, config.layers[i],
                             StreamOf(config, config.layers[i], Of(i)))
      BY StreamMade
  <2> HIDE DEF Of, streams
  <2>3. DOMAIN streams = 1..n /\ Len(streams) = n
    <3>1. streams = [i \in 1..n |-> streams[i]]
        BY <2>1
    <3> HIDE DEF n
    <3> QED BY <1>0, <3>1, LengthOfDomain
  <2>4. \A i \in 1..n : Made(config, config.layers[i], streams[i])
      BY <2>1, <2>2
  <2>5. Right(n)
      BY <2>3, <2>4
  <2> QED BY <2>5 DEF streams
<1> QED BY <1>1, <1>2

\* A single stream's limits (SingleStreamLimits).
LEMMA SingleOrdered ==
    ASSUME NEW config \in Configs, NEW size, NEW max_pixels
    PROVE  \E n \in {1, Len(config.layers)} :
              LET limited == SingleStreamLimits(config,
                                CreateEncoderStreams(config, size, max_pixels))
              IN  AllInOrder(config.format, limited, n) /\ Len(limited) = n
<1> DEFINE streams == CreateEncoderStreams(config, size, max_pixels)
           limited == SingleStreamLimits(config, streams)
           format == config.format
           limit == Info[format].limit
<1>1. PICK n \in {1, Len(config.layers)} :
         /\ DOMAIN streams = 1..n /\ Len(streams) = n
         /\ \A i \in 1..n : \E j \in 1..Len(config.layers) :
               Made(config, config.layers[j], streams[i])
    BY StreamsMade
<1> HIDE DEF streams
<1>2. AllInOrder(format, streams, n)
    BY <1>1, MadeOrdered DEF AllInOrder
<1>3. CASE Len(streams) # 1 \/ Len(config.layers) # 1
  <2>1. limited = streams
      BY <1>3 DEF SingleStreamLimits
  <2> QED BY <1>1, <1>2, <2>1 DEF streams
<1>4. CASE Len(streams) = 1 /\ Len(config.layers) = 1
  <2> DEFINE bounded == Untrusted(config, streams[1], UntrustedLimit(format))
             met == Intersected(config, streams[1], limit)
  <2>1. n = 1 /\ Made(config, config.layers[1], streams[1])
      BY <1>1, <1>4
  <2>2. limited = IF ~Info[format].trusted THEN <<bounded>>
                  ELSE IF limit = None THEN streams ELSE <<met>>
      BY <1>4 DEF SingleStreamLimits
  <2>3. InOrder(format, bounded)
    <3>1. UntrustedLimit(format).min \in Nat /\ UntrustedLimit(format).max \in Nat
      <4>1. limit # None => limit.min \in Nat /\ limit.max \in Nat
          BY EncodersTyped, LayersRated DEF None
      <4>2. UntrustedDefaults.min \in Nat /\ UntrustedDefaults.max \in Nat
          BY FactoryLimits
      <4> QED BY <4>1, <4>2 DEF UntrustedLimit
    <3>2. Rated(streams[1])
        BY <2>1 DEF Made
    <3> QED BY <3>1, <3>2, UntrustedOrdered
  <2>4. limit # None => InOrder(format, met)
      BY <2>1, IntersectedOrdered
  <2> HIDE DEF bounded, met, limited, limit
  <2>5. ASSUME NEW stream, InOrder(format, stream), limited = <<stream>>
        PROVE  AllInOrder(format, limited, 1) /\ Len(limited) = 1
    <3>1. DOMAIN limited = 1..1 /\ Len(limited) = 1 /\ limited[1] = stream
        BY <2>5
    <3> QED BY <2>5, <3>1 DEF AllInOrder
  <2>6. AllInOrder(format, limited, 1) /\ Len(limited) = 1
      BY <1>1, <1>2, <2>1, <2>2, <2>3, <2>4, <2>5
  <2> QED BY <2>6 DEF limited, streams
<1> QED BY <1>3, <1>4

\* The limits of the one active stream of several.
LEMMA AppliedOrdered ==
    ASSUME NEW config \in Configs, NEW streams, NEW n \in {1, Len(config.layers)},
           AllInOrder(config.format, streams, n), Len(streams) = n
    PROVE  AllInOrder(config.format,
                      ApplyEncoderBitrateLimitsIfSingleActiveStream(config, streams), n)
<1> DEFINE limit == LimitWithDefault(config)
           single == /\ Len(streams) > 1 /\ ~streams[1].active /\ limit # None
                     /\ NumActiveStreams(streams) = 1
                     /\ ActiveOf(config.layers) = ActiveOf(streams)
           New(i) == Within(streams[i], Prevailing(config.layers[i], streams[i], limit))
           applied == ApplyEncoderBitrateLimitsIfSingleActiveStream(config, streams)
<1>1. applied = [i \in 1..n |-> IF single /\ streams[i].active THEN New(i)
                                ELSE streams[i]]
    BY DEF ApplyEncoderBitrateLimitsIfSingleActiveStream, AllInOrder
<1>2. \A i \in 1..n : InOrder(config.format, streams[i]) /\ Rated(streams[i])
    BY DEF AllInOrder, InOrder
<1>3. ASSUME single, NEW i \in 1..n PROVE InOrder(config.format, New(i))
  <2>1. n = Len(config.layers)
      BY <1>3
  <2>2. config.layers[i].min \in Nat
      BY <2>1, LayersRated
  <2>3. limit.min \in Nat /\ limit.max \in Nat
      BY <1>3, LimitRated
  <2>4. Rated(streams[i])
      BY <1>2
  <2>5. streams[i].min \in Nat /\ streams[i].max \in Nat
      BY <2>4 DEF Rated
  <2> QED BY <2>2, <2>3, <2>4, <2>5, WithinOrdered
<1> HIDE DEF single, New, applied
<1>4. AllInOrder(config.format, applied, n)
    BY <1>1, <1>2, <1>3 DEF AllInOrder
<1> QED BY <1>4 DEF applied

\* The spatial layers of a scalable codec.
LEMMA SpatialOrdered ==
    ASSUME NEW config \in Configs, NEW streams
    PROVE  \A i \in DOMAIN ApplySpatialLayerBitrateLimits(config,
                              SetupCodec(config, streams).spatial) :
              InOrder(config.format, ApplySpatialLayerBitrateLimits(config,
                                        SetupCodec(config, streams).spatial)[i])
<1> DEFINE n == Len(config.layers)
           spatial == SetupCodec(config, streams).spatial
           made(i) == StreamOf(config, config.layers[i], streams[1].size)
           limit == LimitWithDefault(config)
           single == /\ Len(config.layers) > 1 /\ limit # None
                     /\ NumActiveStreams(config.layers) = 1
           New(i) == Within(spatial[i],
                            Prevailing(config.layers[i], config.layers[i], limit))
           applied == ApplySpatialLayerBitrateLimits(config, spatial)
<1>1. \/ spatial = <<>>
      \/ spatial = [i \in 1..n |-> [made(i) EXCEPT !.size = Smaller(@, 2 ^ (n - i))]]
    BY DEF SetupCodec
<1>2. \A i \in 1..n : Made(config, config.layers[i], made(i))
    BY StreamMade
<1> HIDE DEF made
<1>3. \A i \in DOMAIN spatial : /\ i \in 1..n
                                /\ InOrder(config.format, spatial[i])
                                /\ Rated(spatial[i])
  <2>1. ASSUME NEW i \in 1..n, NEW to
        PROVE  /\ InOrder(config.format, [made(i) EXCEPT !.size = to])
               /\ Rated([made(i) EXCEPT !.size = to])
    <3>1. Made(config, config.layers[i], made(i))
        BY <1>2
    <3>2. Made(config, config.layers[i], [made(i) EXCEPT !.size = to])
        BY <3>1 DEF Made, Rated
    <3> QED BY <3>2, MadeOrdered DEF InOrder
  <2>2. CASE spatial = <<>>
    <3>1. DOMAIN spatial = {}
        BY <2>2
    <3> QED BY <3>1
  <2>3. CASE spatial = [i \in 1..n |-> [made(i) EXCEPT !.size = Smaller(@, 2 ^ (n - i))]]
    <3>1. /\ DOMAIN spatial = 1..n
          /\ \A i \in 1..n : \E to : spatial[i] = [made(i) EXCEPT !.size = to]
        BY <2>3
    <3> HIDE DEF spatial, n
    <3> QED BY <2>1, <3>1
  <2> QED BY <1>1, <2>2, <2>3
<1> HIDE DEF spatial
<1>4. applied = [i \in DOMAIN spatial |-> IF single /\ spatial[i].active THEN New(i)
                                          ELSE spatial[i]]
    BY DEF ApplySpatialLayerBitrateLimits
<1>5. ASSUME single, NEW i \in DOMAIN spatial PROVE InOrder(config.format, New(i))
  <2>1. config.layers[i].min \in Nat /\ config.layers[i].max \in Nat
      BY <1>3, LayersRated
  <2>2. limit.min \in Nat /\ limit.max \in Nat
      BY <1>5, LimitRated
  <2> QED BY <1>3, <2>1, <2>2, WithinOrdered
<1> HIDE DEF single, New, applied
<1>6. \A i \in DOMAIN applied : InOrder(config.format, applied[i])
    BY <1>3, <1>4, <1>5
<1> QED BY <1>6 DEF applied, spatial

\* What LimitsOrdered says of a codec, and that its minimum is a number.
CodecInOrder(codec) ==
    /\ codec.min \in Int
    /\ codec.min <= codec.start /\ codec.start <= codec.max
    /\ \A i \in DOMAIN codec.streams : InOrder(codec.format, codec.streams[i])
    /\ \A i \in DOMAIN codec.spatial : InOrder(codec.format, codec.spatial[i])

\* Whatever the target, a codec that is configured is in order (ReconfigureEncoder).
LEMMA CodecOrdered ==
    ASSUME NEW config \in Configs, NEW size, NEW max_pixels, NEW target \in Int
    PROVE  CodecInOrder(ConfiguredCodec(config, size, max_pixels, target))
<1> DEFINE limited == SingleStreamLimits(config,
                         CreateEncoderStreams(config, size, max_pixels))
           streams == ApplyEncoderBitrateLimitsIfSingleActiveStream(config, limited)
           setup == SetupCodec(config, streams)
           spatial == ApplySpatialLayerBitrateLimits(config, setup.spatial)
           codec == ConfiguredCodec(config, size, max_pixels, target)
           most == [i \in DOMAIN streams |-> streams[i].max]
<1>1. PICK n \in {1, Len(config.layers)} : AllInOrder(config.format, streams, n)
    BY SingleOrdered, AppliedOrdered
<1>2. n \in Nat \ {0}
    BY LayersRated
<1>3. \A i \in DOMAIN spatial : InOrder(config.format, spatial[i])
    BY SpatialOrdered
<1>4. /\ setup.format = config.format /\ setup.streams = streams
      /\ setup.min = streams[1].min /\ setup.max = Total(most)
      /\ {"format", "streams", "spatial", "min", "max", "start"} \subseteq DOMAIN setup
    BY DEF SetupCodec
<1>5. codec = [setup EXCEPT !.spatial = spatial, !.start = StartBitrate(setup, target)]
    BY DEF ConfiguredCodec, WithLimits
<1> HIDE DEF streams, setup, spatial, codec
<1>6. /\ codec.format = config.format /\ codec.streams = streams
      /\ codec.spatial = spatial /\ codec.min = setup.min /\ codec.max = setup.max
      /\ codec.start = StartBitrate(setup, target)
    BY <1>4, <1>5
<1>7. setup.min \in Nat /\ setup.max \in Nat /\ setup.min <= setup.max
  <2>1. /\ DOMAIN streams = 1..n
        /\ \A i \in 1..n : /\ streams[i].min \in Nat /\ streams[i].max \in Nat
                           /\ streams[i].min <= streams[i].max
      BY <1>1 DEF AllInOrder, InOrder, Rated
  <2>2. DOMAIN most = 1..n /\ \A i \in 1..n : most[i] = streams[i].max /\ most[i] \in Nat
      BY <2>1
  <2> HIDE DEF most
  <2>3. Total(most) \in Nat /\ most[1] <= Total(most)
      BY <1>2, <2>2, TotalExceedsEach
  <2> QED BY <1>2, <1>4, <2>1, <2>2, <2>3
<1>8. codec.min <= codec.start /\ codec.start <= codec.max
    BY <1>6, <1>7 DEF StartBitrate, MinOf, MaxOf
<1>9. /\ \A i \in DOMAIN codec.streams : InOrder(codec.format, codec.streams[i])
      /\ \A i \in DOMAIN codec.spatial : InOrder(codec.format, codec.spatial[i])
    BY <1>1, <1>3, <1>6 DEF AllInOrder
<1>10. CodecInOrder(codec)
    BY <1>6, <1>7, <1>8, <1>9 DEF CodecInOrder
<1> QED BY <1>10 DEF codec

-----------------------------------------------------------------------------
(* The limits: no step but the making of a codec changes them.              *)

LimitMembers == {"send_codec_", "encoder_target_bitrate_bps_", "encoder_config_"}
LimitInv(s) ==
    /\ LimitMembers \subseteq DOMAIN s
    /\ s.encoder_target_bitrate_bps_ \in Int
    /\ s.send_codec_ # None => CodecInOrder(s.send_codec_)

\* The codec, the target and the configuration are the same.
AsLimited(s, t) ==
    /\ DOMAIN t = DOMAIN s
    /\ t.send_codec_ = s.send_codec_
    /\ t.encoder_target_bitrate_bps_ = s.encoder_target_bitrate_bps_
    /\ t.encoder_config_ = s.encoder_config_

LEMMA AsLimitedTwice ==
    ASSUME NEW s, NEW t, NEW u, AsLimited(s, t), AsLimited(t, u)
    PROVE  AsLimited(s, u)
BY DEF AsLimited

LEMMA AsLimitedKeeps ==
    ASSUME NEW s, NEW t, AsLimited(s, t), LimitInv(s)
    PROVE  LimitInv(t)
BY DEF AsLimited, LimitInv

LEMMA RatesLimited ==
    ASSUME NEW s, NEW new, LimitMembers \subseteq DOMAIN s
    PROVE  AsLimited(s, SetEncoderRates(s, new))
BY DEF SetEncoderRates, AsLimited, LimitMembers

LEMMA RatesAgainLimited ==
    ASSUME NEW s, LimitMembers \subseteq DOMAIN s
    PROVE  AsLimited(s, RatesAgain(s))
<1> DEFINE t == [s EXCEPT !.last_encoder_rate_settings_ = None]
           new == UpdateBitrateAllocation(s, s.last_encoder_rate_settings_.target)
<1>1. AsLimited(s, t) /\ LimitMembers \subseteq DOMAIN t /\ AsLimited(s, s)
    BY DEF AsLimited, LimitMembers
<1>2. RatesAgain(s) = s \/ RatesAgain(s) = SetEncoderRates(t, new)
    BY DEF RatesAgain, SendAgain
<1> HIDE DEF t, new
<1>3. AsLimited(t, SetEncoderRates(t, new))
    BY <1>1, RatesLimited
<1> QED BY <1>1, <1>2, <1>3, AsLimitedTwice

LEMMA SwitchLimited ==
    ASSUME NEW s, NEW outcome, LimitMembers \subseteq DOMAIN s
    PROVE  AsLimited(s, RequestEncoderSwitch(s, outcome))
BY DEF RequestEncoderSwitch, AsLimited, LimitMembers

LEMMA FinishedLimited ==
    ASSUME NEW s, NEW outcome, LimitMembers \subseteq DOMAIN s
    PROVE  AsLimited(s, Finished(s, outcome))
<1> DEFINE done == [s EXCEPT !.pending_encoder_creation_ = FALSE,
                             !.pending_encoder_reconfiguration_ = FALSE,
                             !.encoder_configuration_callbacks_ = 0]
<1>1. AsLimited(s, done) /\ LimitMembers \subseteq DOMAIN done
    BY DEF AsLimited, LimitMembers
<1>2. Finished(s, outcome) = IF s.encoder_initialized_ THEN done
                             ELSE RequestEncoderSwitch(done, outcome)
    BY DEF Finished
<1> HIDE DEF done
<1>3. AsLimited(done, RequestEncoderSwitch(done, outcome))
    BY <1>1, SwitchLimited
<1> QED BY <1>1, <1>2, <1>3, AsLimitedTwice

LEMMA InstalledLimited ==
    ASSUME NEW s, NEW codec, NEW outcome, LimitMembers \subseteq DOMAIN s
    PROVE  AsLimited([s EXCEPT !.send_codec_ = codec], Installed(s, codec, outcome))
<1> DEFINE set == [s EXCEPT !.send_codec_ = codec]
<1>1. LimitMembers \subseteq DOMAIN set /\ AsLimited(set, set)
    BY DEF AsLimited, LimitMembers
<1>2. Installed(s, codec, outcome) = set
      \/ Installed(s, codec, outcome) = InitEncode(set, outcome.initialized)
    BY DEF Installed
<1> HIDE DEF set
<1>3. AsLimited(set, InitEncode(set, outcome.initialized))
    BY <1>1 DEF InitEncode, ReleaseEncoder, AsLimited, LimitMembers
<1> QED BY <1>1, <1>2, <1>3 DEF set

\* Whatever the codec was, the new one is in order.
LEMMA ConfiguredLimits ==
    ASSUME NEW s, NEW outcome, LimitInv(s), s.encoder_config_ \in Configs
    PROVE  LimitInv(Configured(s, outcome))
<1> DEFINE codec == ConfiguredCodec(s.encoder_config_, s.last_frame_info_.size,
                                    s.latest_restrictions_,
                                    s.encoder_target_bitrate_bps_)
           cropping == CropTo(s, codec.size)
           set == [cropping EXCEPT !.send_codec_ = codec]
           ready == Installed(cropping, codec, outcome)
           allocating == Allocating(ready)
           again == RatesAgain(allocating)
<1>1. Configured(s, outcome) = Finished(again, outcome)
    BY DEF Configured
<1>2. CodecInOrder(codec)
    BY CodecOrdered DEF LimitInv
<1> HIDE DEF codec
<1>3. AsLimited(s, cropping) /\ LimitMembers \subseteq DOMAIN cropping
    BY DEF CropTo, AsLimited, LimitInv, LimitMembers
<1> HIDE DEF cropping
<1>4. LimitInv(set)
    BY <1>2, <1>3 DEF LimitInv, AsLimited, LimitMembers
<1>5. AsLimited(set, ready)
    BY <1>3, InstalledLimited
<1> HIDE DEF set, ready
<1>6. LimitInv(ready)
    BY <1>4, <1>5, AsLimitedKeeps
<1>7. AsLimited(ready, allocating)
    BY <1>6 DEF Allocating, LimitInv, AsLimited, LimitMembers
<1> HIDE DEF allocating
<1>8. LimitInv(allocating)
    BY <1>6, <1>7, AsLimitedKeeps
<1>9. LimitInv(again)
    BY <1>8, RatesAgainLimited, AsLimitedKeeps DEF LimitInv
<1> HIDE DEF again
<1> QED BY <1>1, <1>9, FinishedLimited, AsLimitedKeeps DEF LimitInv

LEMMA ReconfigureLimits ==
    ASSUME NEW s, NEW outcome, LimitInv(s), s.encoder_config_ \in Configs
    PROVE  LimitInv(ReconfigureEncoder(s, outcome))
<1> DEFINE released == ReleaseEncoder(s)
           made == [released EXCEPT !.encoder_ = s.encoder_config_.format]
           none == [released EXCEPT !.encoder_ = ""]
           ended == [s EXCEPT !.missing = TRUE]
<1>1. AsLimited(s, made) /\ AsLimited(s, none) /\ AsLimited(s, ended)
    BY DEF ReleaseEncoder, LimitInv, AsLimited, LimitMembers
<1>2. \/ ReconfigureEncoder(s, outcome) = Configured(made, outcome)
      \/ ReconfigureEncoder(s, outcome) = RequestEncoderSwitch(none, outcome)
      \/ ReconfigureEncoder(s, outcome) = ended
      \/ ReconfigureEncoder(s, outcome) = Configured(s, outcome)
    BY DEF ReconfigureEncoder
<1> HIDE DEF made, none, ended
<1>3. LimitInv(made) /\ LimitInv(none) /\ LimitInv(ended)
    BY <1>1, AsLimitedKeeps
<1>4. made.encoder_config_ \in Configs
    BY <1>1 DEF AsLimited
<1>5. LimitInv(Configured(made, outcome)) /\ LimitInv(Configured(s, outcome))
    BY <1>3, <1>4, ConfiguredLimits
<1>6. LimitInv(RequestEncoderSwitch(none, outcome))
    BY <1>3, SwitchLimited, AsLimitedKeeps DEF LimitInv
<1> QED BY <1>2, <1>3, <1>5, <1>6

LEMMA DropLimited ==
    ASSUME NEW s, NEW frame, LimitMembers \subseteq DOMAIN s
    PROVE  AsLimited(s, ProcessDroppedFrame(s, frame))
BY DEF ProcessDroppedFrame, AsLimited, LimitMembers

LEMMA KeepOrDropLimited ==
    ASSUME NEW s, NEW frame, LimitMembers \subseteq DOMAIN s
    PROVE  AsLimited(s, KeepOrDrop(s, frame))
BY DEF KeepOrDrop, ProcessDroppedFrame, AsLimited, LimitMembers

LEMMA EncodeLimited ==
    ASSUME NEW s, NEW frame, NEW cropped, NEW outcome, LimitMembers \subseteq DOMAIN s
    PROVE  AsLimited(s, Encode(s, frame, cropped, outcome))
BY DEF Encode, RequestEncoderSwitch, AsLimited, LimitMembers

LEMMA EncodeFrameLimited ==
    ASSUME NEW s, NEW frame, NEW outcome, LimitMembers \subseteq DOMAIN s
    PROVE  AsLimited(s, EncodeVideoFrame(s, frame, outcome))
<1> DEFINE cropped == s.crop # <<0, 0>> /\ ~(frame.native /\ Info[s.encoder_].native)
           tried == [s EXCEPT !.encoder_paused_and_dropped_frame_ = FALSE]
           uncut == Lost(tried, frame)
           unused == Lost(s, frame)
<1>1. \/ EncodeVideoFrame(s, frame, outcome) = unused
      \/ EncodeVideoFrame(s, frame, outcome) = uncut
      \/ EncodeVideoFrame(s, frame, outcome) = Encode(tried, frame, cropped, outcome)
    BY DEF EncodeVideoFrame
<1>2. AsLimited(s, unused) /\ AsLimited(s, tried) /\ AsLimited(s, uncut)
    BY DEF Lost, AsLimited, LimitMembers
<1> HIDE DEF cropped, tried, uncut, unused
<1>3. AsLimited(tried, Encode(tried, frame, cropped, outcome))
    BY <1>2, EncodeLimited DEF AsLimited
<1> QED BY <1>1, <1>2, <1>3, AsLimitedTwice

LEMMA EncodeOrDropLimited ==
    ASSUME NEW ready, NEW frame, NEW outcome, LimitMembers \subseteq DOMAIN ready
    PROVE  AsLimited(ready, EncodeOrDrop(ready, frame, outcome))
<1> DEFINE before == IF ready.pending_frame_ = None THEN ready
                     ELSE ProcessDroppedFrame(ready, ready.pending_frame_)
           free == [before EXCEPT !.pending_frame_ = None, !.owed = FALSE]
           small == [before EXCEPT !.owed = EncoderPaused(before),
                 !.lapsed = frame.native /\ ~before.encoder_paused_and_dropped_frame_]
           paused == [before EXCEPT !.owed = TRUE, !.lapsed = FALSE,
                 !.encoder_paused_and_dropped_frame_ = Noted(before, frame)]
<1>1. \/ EncodeOrDrop(ready, frame, outcome) = KeepOrDrop(small, frame)
      \/ EncodeOrDrop(ready, frame, outcome) = KeepOrDrop(paused, frame)
      \/ EncodeOrDrop(ready, frame, outcome) = ProcessDroppedFrame(free, frame)
      \/ EncodeOrDrop(ready, frame, outcome) = EncodeVideoFrame(free, frame, outcome)
    BY DEF EncodeOrDrop
<1>2. AsLimited(ready, before) /\ LimitMembers \subseteq DOMAIN before
    BY DropLimited DEF AsLimited
<1> HIDE DEF before
<1>3. AsLimited(before, free) /\ AsLimited(before, small) /\ AsLimited(before, paused)
    BY <1>2 DEF AsLimited, LimitMembers
<1> HIDE DEF free, small, paused
<1>4. /\ AsLimited(small, KeepOrDrop(small, frame))
      /\ AsLimited(paused, KeepOrDrop(paused, frame))
      /\ AsLimited(free, ProcessDroppedFrame(free, frame))
      /\ AsLimited(free, EncodeVideoFrame(free, frame, outcome))
    BY <1>2, <1>3, KeepOrDropLimited, DropLimited, EncodeFrameLimited DEF AsLimited
<1> QED BY <1>1, <1>2, <1>3, <1>4, AsLimitedTwice

LEMMA MaybeEncodeLimits ==
    ASSUME NEW s, NEW frame, NEW outcome, LimitInv(s), s.encoder_config_ \in Configs
    PROVE  LimitInv(MaybeEncodeVideoFrame(s, frame, outcome))
<1> DEFINE seen == Observed(s, frame)
           ready == UpToDate(seen, outcome)
           new == UpdateBitrateAllocation(seen, seen.last_encoder_rate_settings_.target)
<1>1. \/ MaybeEncodeVideoFrame(s, frame, outcome) = ready
      \/ MaybeEncodeVideoFrame(s, frame, outcome) = EncodeOrDrop(ready, frame, outcome)
    BY DEF MaybeEncodeVideoFrame
<1>2. AsLimited(s, seen)
    BY DEF Observed, LimitInv, AsLimited, LimitMembers
<1>3. \/ ready = ReconfigureEncoder(seen, outcome)
      \/ ready = SetEncoderRates(seen, new)
      \/ ready = seen
    BY DEF UpToDate
<1> HIDE DEF seen, ready, new
<1>4. LimitInv(seen) /\ seen.encoder_config_ \in Configs
    BY <1>2, AsLimitedKeeps DEF AsLimited
<1>5. LimitInv(ready)
    BY <1>3, <1>4, ReconfigureLimits, RatesLimited, AsLimitedKeeps DEF LimitInv
<1> QED BY <1>1, <1>5, EncodeOrDropLimited, AsLimitedKeeps DEF LimitInv

LEMMA ResumedLimited ==
    ASSUME NEW s, NEW outcome, LimitMembers \subseteq DOMAIN s
    PROVE  AsLimited(s, Resumed(s, outcome))
<1> DEFINE frame == s.pending_frame_
           free == [s EXCEPT !.pending_frame_ = None]
           expired == Lost(free, frame)
           asking == [s EXCEPT !.refresh = TRUE]
<1>1. \/ Resumed(s, outcome) = s
      \/ Resumed(s, outcome) = expired
      \/ Resumed(s, outcome) = EncodeVideoFrame(free, frame, outcome)
      \/ Resumed(s, outcome) = asking
    BY DEF Resumed
<1>2. /\ AsLimited(s, s) /\ AsLimited(s, free) /\ AsLimited(s, expired)
      /\ AsLimited(s, asking)
    BY DEF Lost, AsLimited, LimitMembers
<1> HIDE DEF frame, free, expired, asking
<1>3. AsLimited(free, EncodeVideoFrame(free, frame, outcome))
    BY <1>2, EncodeFrameLimited DEF AsLimited
<1> QED BY <1>1, <1>2, <1>3, AsLimitedTwice

LEMMA LimitInit == Init => LimitInv(vse)
<1> SUFFICES ASSUME Init PROVE LimitInv(vse)
    OBVIOUS
<1>1. vse.send_codec_ = None /\ vse.encoder_target_bitrate_bps_ = 0
    BY DEF Init
<1>2. LimitMembers \subseteq DOMAIN vse
    BY DEF Init, LimitMembers
<1> QED BY <1>1, <1>2 DEF LimitInv

LEMMA LimitConfigureTask == IInv /\ LimitInv(vse) /\ ConfigureTask => LimitInv(vse')
<1> SUFFICES ASSUME IInv, LimitInv(vse), ConfigureTask PROVE LimitInv(vse')
    OBVIOUS
<1> DEFINE config == Head(posted)
           set == [vse EXCEPT
              !.pending_encoder_creation_ =
                 vse.encoder_ = "" \/ FormatChanged(vse.encoder_config_, config),
              !.encoder_config_ = config,
              !.pending_encoder_reconfiguration_ = TRUE]
           noted == [set EXCEPT !.encoder_configuration_callbacks_ = @ + 1]
<1>1. PICK outcome \in Possible :
         vse' = IF vse.last_frame_info_ = None THEN set
                ELSE ReconfigureEncoder(noted, outcome)
    BY DEF ConfigureTask
<1>2. config \in Configs
    BY DEF ConfigureTask, IInv
<1>3. LimitInv(set) /\ set.encoder_config_ = config
    BY DEF LimitInv, LimitMembers
<1> HIDE DEF config, set
<1>4. LimitInv(noted) /\ noted.encoder_config_ \in Configs
    BY <1>2, <1>3 DEF LimitInv, LimitMembers
<1> HIDE DEF noted
<1> QED BY <1>1, <1>3, <1>4, ReconfigureLimits

LEMMA LimitOnFrame == LimitInv(vse) /\ OnFrame => LimitInv(vse')
<1> SUFFICES ASSUME LimitInv(vse), OnFrame PROVE LimitInv(vse')
    OBVIOUS
<1> DEFINE interval == vse.cwnd_frame_drop_interval_
           arrived(frame) == [vse EXCEPT !.unseen = @ \cup {frame.id}, !.refresh = FALSE,
                                         !.owed = @ /\ EncoderPaused(vse)]
           counted(frame) == [arrived(frame) EXCEPT !.cwnd_frame_counter_ =
                                 IF interval = 0 THEN @ ELSE @ + 1]
<1>1. PICK frame : \/ vse' = ProcessDroppedFrame(arrived(frame), frame)
                   \/ vse' = ProcessDroppedFrame(counted(frame), frame)
                   \/ vse' = MaybePrepareVideoFrame(counted(frame), frame)
  <2>1. \E frame : \/ vse' = ProcessDroppedFrame(arrived(frame), frame)
                    \/ vse' = ProcessDroppedFrame(counted(frame), frame)
                    \/ vse' = MaybePrepareVideoFrame(counted(frame), frame)
      BY DEF OnFrame
  <2> QED BY <2>1
<1> DEFINE a == arrived(frame)
           c == counted(frame)
<1>2. AsLimited(vse, a) /\ AsLimited(vse, c)
    BY DEF LimitInv, AsLimited, LimitMembers
<1>3. \/ vse' = ProcessDroppedFrame(a, frame) \/ vse' = ProcessDroppedFrame(c, frame)
      \/ vse' = MaybePrepareVideoFrame(c, frame)
    BY <1>1
<1> HIDE DEF a, c
<1>4. LimitInv(a) /\ LimitInv(c)
    BY <1>2, AsLimitedKeeps
<1>5. /\ AsLimited(a, ProcessDroppedFrame(a, frame))
      /\ AsLimited(c, ProcessDroppedFrame(c, frame))
    BY <1>4, DropLimited DEF LimitInv
<1>6. AsLimited(c, MaybePrepareVideoFrame(c, frame))
    BY <1>4, <1>5 DEF MaybePrepareVideoFrame, LimitInv, AsLimited, LimitMembers
<1> QED BY <1>3, <1>4, <1>5, <1>6, AsLimitedKeeps

LEMMA LimitSendPrepared == IInv /\ LimitInv(vse) /\ SendPrepared => LimitInv(vse')
<1> SUFFICES ASSUME IInv, LimitInv(vse), SendPrepared PROVE LimitInv(vse')
    OBVIOUS
<1> DEFINE frame == Head(vse.pending_mapped_frames_).frame
           left == [vse EXCEPT !.pending_mapped_frames_ = Tail(@)]
<1>1. PICK outcome \in Possible : vse' = MaybeEncodeVideoFrame(left, frame, outcome)
    BY DEF SendPrepared
<1>2. vse.encoder_config_ \in Configs
    BY DEF SendPrepared, IInv, Kept
<1>3. AsLimited(vse, left)
    BY DEF LimitInv, AsLimited, LimitMembers
<1> HIDE DEF frame, left
<1>4. LimitInv(left) /\ left.encoder_config_ \in Configs
    BY <1>2, <1>3, AsLimitedKeeps DEF AsLimited
<1> QED BY <1>1, <1>4, MaybeEncodeLimits

\* What is left of a target by the congestion window's pushback is a number.
LEMMA ReducedTyped ==
    ASSUME NEW target \in Nat, NEW min \in Int, NEW ratio \in Nat
    PROVE  ReducedTarget(target, FrameDropInterval(min, target, ratio)) \in Int
<1> DEFINE reduce == MinOf((target * ratio) \div 100, target - min)
           interval == FrameDropInterval(min, target, ratio)
<1>1. reduce \in Int
    BY DEF MinOf
<1>2. \/ interval = 0
      \/ reduce > 0 /\ interval = MaxOf(2, target \div reduce)
  <2> HIDE DEF interval
  <2>1. \/ interval = 0
        \/ ~(reduce <= 0) /\ interval = MaxOf(2, target \div reduce)
      BY DEF FrameDropInterval, interval
  <2> HIDE DEF reduce
  <2> QED BY <1>1, <2>1
<1> HIDE DEF reduce, interval
<1>3. interval \in Nat
  <2>1. reduce > 0 => target \div reduce \in Int
      BY <1>1
  <2> QED BY <1>2, <2>1 DEF MaxOf
<1>4. ReducedTarget(target, interval) \in Int
  <2>1. interval # 0 => target \div interval \in Int
      BY <1>3
  <2> QED BY <2>1 DEF ReducedTarget
<1> QED BY <1>4 DEF interval

LEMMA LimitBitrate == LimitInv(vse) /\ OnBitrateUpdated => LimitInv(vse')
<1> SUFFICES ASSUME LimitInv(vse), OnBitrateUpdated PROVE LimitInv(vse')
    OBVIOUS
<1> DEFINE min == IF vse.send_codec_ = None THEN 0 ELSE vse.send_codec_.min
<1>1. PICK target, ratio, outcome :
         /\ target \in Targets /\ ratio \in Ratios
         /\ LET interval == FrameDropInterval(min, target, ratio)
                rate == ReducedTarget(target, interval)
            IN  \/ vse' = AtRate(vse, interval, rate)
                \/ vse' = Resumed(AtRate(vse, interval, rate), outcome)
    BY DEF OnBitrateUpdated
<1> DEFINE interval == FrameDropInterval(min, target, ratio)
           rate == ReducedTarget(target, interval)
           start == [vse EXCEPT !.cwnd_frame_drop_interval_ = interval]
           set == SetEncoderRates(start, UpdateBitrateAllocation(vse, rate))
           noted == AtRate(vse, interval, rate)
<1>2. rate \in Int
  <2>1. target \in Nat /\ ratio \in Nat
      BY <1>1, EncoderInputs
  <2>2. min \in Int
      BY DEF LimitInv, CodecInOrder
  <2> HIDE DEF min
  <2> QED BY <2>1, <2>2, ReducedTyped
<1> HIDE DEF min, interval, rate
<1>3. noted = [set EXCEPT !.encoder_target_bitrate_bps_ = IF rate # 0 THEN rate ELSE @]
    BY DEF AtRate
<1>4. AsLimited(vse, start) /\ LimitMembers \subseteq DOMAIN start
    BY DEF LimitInv, AsLimited, LimitMembers
<1> HIDE DEF start
<1>5. LimitInv(set)
    BY <1>4, RatesLimited, AsLimitedKeeps
<1> HIDE DEF set
<1>6. LimitInv(noted)
    BY <1>2, <1>3, <1>5 DEF LimitInv, LimitMembers
<1>7. LimitInv(Resumed(noted, outcome))
  <2> HIDE DEF noted
  <2> QED BY <1>6, ResumedLimited, AsLimitedKeeps DEF LimitInv
<1> QED BY <1>1, <1>6, <1>7 DEF interval, rate

LEMMA LimitNext == IInv /\ LimitInv(vse) /\ [Next]_vars => LimitInv(vse')
<1> SUFFICES ASSUME IInv, LimitInv(vse), [Next]_vars PROVE LimitInv(vse')
    OBVIOUS
<1>1. CASE ConfigureEncoder
  <2>1. AsLimited(vse, vse')
      BY <1>1 DEF ConfigureEncoder, LimitInv, AsLimited, LimitMembers
  <2> QED BY <2>1, AsLimitedKeeps
<1>2. CASE OnFramePrepared
  <2>1. AsLimited(vse, vse')
      BY <1>2 DEF OnFramePrepared, LimitInv, AsLimited, LimitMembers
  <2> QED BY <2>1, AsLimitedKeeps
<1>3. CASE SendKeyFrame
  <2>1. AsLimited(vse, vse')
      BY <1>3 DEF SendKeyFrame, LimitInv, AsLimited, LimitMembers
  <2> QED BY <2>1, AsLimitedKeeps
<1>4. CASE OnVideoSourceRestrictionsUpdated
  <2>1. AsLimited(vse, vse')
      BY <1>4 DEF OnVideoSourceRestrictionsUpdated, LimitInv, AsLimited, LimitMembers
  <2> QED BY <2>1, AsLimitedKeeps
<1>5. CASE Stop
  <2>1. AsLimited(vse, vse')
      BY <1>5 DEF Stop, ReleaseEncoder, LimitInv, AsLimited, LimitMembers
  <2> QED BY <2>1, AsLimitedKeeps
<1>6. CASE SecondPasses
  <2>1. AsLimited(vse, vse')
      BY <1>6 DEF SecondPasses, LimitInv, AsLimited, LimitMembers
  <2> QED BY <2>1, AsLimitedKeeps
<1>7. CASE UNCHANGED vars
    BY <1>7 DEF vars
<1> QED BY <1>1, <1>2, <1>3, <1>4, <1>5, <1>6, <1>7, LimitConfigureTask, LimitOnFrame,
           LimitSendPrepared, LimitBitrate DEF Next

\* Whatever limits the application, the factory and the encoder set, those of each
\* layer are in order, with the target within them but for the known case, and the
\* start bitrate is within those of the codec (ReconfigureEncoder).
THEOREM SpecLimitsOrdered == Spec => []LimitsOrdered
<1> DEFINE Throughout == IInv /\ LimitInv(vse)
<1>1. Throughout => LimitsOrdered
    BY DEF LimitInv, CodecInOrder, InOrder, LimitsOrdered
<1>2. Init => Throughout
    BY InitInv, LimitInit
<1>3. Throughout /\ [Next]_vars => Throughout'
    BY NextKeeps, LimitNext
<1> HIDE DEF Throughout
<1> QED BY <1>1, <1>2, <1>3, PTL DEF Spec
=================================================================================
