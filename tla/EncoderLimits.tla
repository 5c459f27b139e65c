------------------------------ MODULE EncoderLimits ------------------------------
(***************************************************************************)
(* video/video_stream_encoder.cc, its functions without state: how the     *)
(* bitrate limits of the application, of the streams' factory and of the   *)
(* encoder become those of the codec, when a new codec needs a reset, and  *)
(* what the sink is told of an allocation.                                 *)
(*                                                                         *)
(* Rates are in kbps and 0 is "not set".  A size is <<width, height>>; a   *)
(* limit of the encoder is [min, max, start]; a stream is                  *)
(*     [active, min, target, max, size, temporal].                         *)
(***************************************************************************)
EXTENDS Integers, Sequences, FiniteSets, FiniteSetsExt, SequencesExt

CONSTANTS
    Info,               \* what each format's encoder says of itself
    DefaultLimits,      \* GetDefaultSinglecastBitrateLimits
    UntrustedDefaults,  \* ... WhenQpIsUntrusted
    FactoryMin, FactoryMax,     \* the streams' factory, where nothing is set
    kDefaultMinScreenKbps,
    Alignment

ASSUME EncodersTyped ==
    \A f \in DOMAIN Info :
       /\ {Info[f].trusted, Info[f].mapped, Info[f].native} \subseteq BOOLEAN
       /\ Info[f].limit = <<>> \/ /\ {Info[f].limit.min, Info[f].limit.max} \subseteq Nat
                                  /\ Info[f].limit.min <= Info[f].limit.max
ASSUME FactoryLimits ==
    /\ {FactoryMin, FactoryMax} \subseteq Nat \ {0} /\ FactoryMin <= FactoryMax
    /\ {DefaultLimits.min, DefaultLimits.max} \subseteq Nat
    /\ {UntrustedDefaults.min, UntrustedDefaults.max, kDefaultMinScreenKbps} \subseteq Nat
    /\ Alignment \in Nat \ {0}

None == <<>>
MinOf(a, b) == IF a < b THEN a ELSE b
MaxOf(a, b) == IF a > b THEN a ELSE b
Pixels(size) == size[1] * size[2]
Clamp(x, low, high) == MinOf(MaxOf(x, low), high)
ActiveOf(streams) == {i \in DOMAIN streams : streams[i].active}
NumActiveStreams(streams) == Cardinality(ActiveOf(streams))
Scalable(format) == format \in {"VP9", "AV1", "H265"}
Total(rates) == FoldSeq(LAMBDA x, sum : x + sum, 0, rates)

\* EncoderStreamFactory: one stream per layer of the configuration, or one in all
\* for a scalable format; the highest has the frame's size, aligned, within the
\* adaptation's restriction if the application asked for a resolution.
Aligned(size) == <<size[1] - (size[1] % Alignment), size[2] - (size[2] % Alignment)>>
Smaller(size, by) == Aligned(<<size[1] \div by, size[2] \div by>>)
StreamSize(config, size, max_pixels) ==
    IF config.scale_resolution_down_to /\ max_pixels # 0 /\ Pixels(size) > max_pixels
    THEN Smaller(size, 2) ELSE Aligned(size)
StreamOf(config, layer, size) ==
    LET most == MinOf(IF layer.max = 0 THEN FactoryMax ELSE layer.max,
                      IF config.max = 0 THEN FactoryMax ELSE config.max)
        least == MinOf(IF layer.min = 0 THEN FactoryMin ELSE layer.min, most)
    IN  [active |-> layer.active, min |-> least, target |-> most, max |-> most,
         size |-> size, temporal |-> layer.temporal]
CreateEncoderStreams(config, size, max_pixels) ==
    LET highest == StreamSize(config, size, max_pixels)
        n == Len(config.layers)
    IN  IF Scalable(config.format)
        THEN <<[StreamOf(config, config.layers[n], highest) EXCEPT
                  !.active = NumActiveStreams(config.layers) > 0]>>
        ELSE [i \in 1..n |->
                StreamOf(config, config.layers[i],
                         IF i = n THEN highest ELSE Smaller(highest, 2 ^ (n - i)))]

\* The limits of an encoder that has none are the defaults, for simulcast.
LimitWithDefault(config) ==
    LET limit == Info[config.format].limit
    IN  IF Len(config.layers) > 1 /\ (limit = None \/ limit.min + limit.max = 0)
        THEN DefaultLimits ELSE limit

\* A single stream of an encoder whose QP says nothing of the quality: the scaler
\* works with the bitrate, so the limits are the encoder's; a shared screen's
\* maximum is never below kDefaultMinScreenKbps.
UntrustedLimit(format) ==
    IF Info[format].limit = None THEN UntrustedDefaults ELSE Info[format].limit
Untrusted(config, stream, limit) ==
    LET most == MinOf(stream.max, limit.max)
        raised == IF config.screen THEN MaxOf(most, kDefaultMinScreenKbps) ELSE most
    IN  [stream EXCEPT !.min = MinOf(most, limit.min), !.max = raised, !.target = raised]

\* The application's limits and the encoder's are intersected; when they do not
\* intersect, the application's stand.
AlwaysIntersect(min, max) == FALSE
NoIntersection(min, max) == min >= max
Intersected(config, stream, limit) ==
    LET layer == config.layers[1]
        min == IF layer.min = 0 THEN limit.min ELSE MaxOf(limit.min, stream.min)
        max == IF layer.max = 0 /\ config.max = 0 THEN limit.max
               ELSE MinOf(limit.max, stream.max)
    IN  IF NoIntersection(min, max) THEN stream
        ELSE [stream EXCEPT !.min = min, !.max = max,
                            !.target = MinOf(stream.target, limit.max)]

SingleStreamLimits(config, streams) ==
    IF Len(streams) # 1 \/ Len(config.layers) # 1 THEN streams
    ELSE LET limit == Info[config.format].limit
         IN  IF ~Info[config.format].trusted
             THEN <<Untrusted(config, streams[1], UntrustedLimit(config.format))>>
             ELSE IF limit = None THEN streams
             ELSE <<Intersected(config, streams[1], limit)>>

\* The limits of the one active layer of several: the application's where it set
\* one, else the encoder's, and the application's prevails where they disagree.
Prevailing(layer, of, limit) ==
    LET min == IF layer.min = 0 THEN limit.min ELSE of.min
        max == IF layer.max = 0 THEN limit.max ELSE of.max
    IN  IF layer.min > 0 THEN [min |-> min, max |-> MaxOf(min, max)]
        ELSE [min |-> MinOf(min, max), max |-> max]
Within(stream, range) ==
    [stream EXCEPT !.min = range.min, !.max = range.max,
                   !.target = Clamp(@, range.min, range.max)]

\* Simulcast with one active stream, not the lowest.
ApplyEncoderBitrateLimitsIfSingleActiveStream(config, streams) ==
    LET limit == LimitWithDefault(config)
        single == /\ Len(streams) > 1 /\ ~streams[1].active /\ limit # None
                  /\ NumActiveStreams(streams) = 1
                  /\ ActiveOf(config.layers) = ActiveOf(streams)
    IN  [i \in DOMAIN streams |->
           IF single /\ streams[i].active
           THEN Within(streams[i], Prevailing(config.layers[i], streams[i], limit))
           ELSE streams[i]]

\* A scalable codec with one active layer of several.
ApplySpatialLayerBitrateLimits(config, spatial) ==
    LET limit == LimitWithDefault(config)
        single == /\ Len(config.layers) > 1 /\ limit # None
                  /\ NumActiveStreams(config.layers) = 1
    IN  [i \in DOMAIN spatial |->
           IF single /\ spatial[i].active
           THEN Within(spatial[i], Prevailing(config.layers[i], config.layers[i], limit))
           ELSE spatial[i]]

\* VideoCodecInitializer: the codec's limits are those of its streams.
SetupCodec(config, streams) ==
    LET n == Len(config.layers)
        spatial == IF ~Scalable(config.format) THEN <<>>
                   ELSE [i \in 1..n |->
                           [StreamOf(config, config.layers[i], streams[1].size)
                              EXCEPT !.size = Smaller(@, 2 ^ (n - i))]]
    IN  [format |-> config.format, screen |-> config.screen, streams |-> streams,
         spatial |-> spatial, size |-> streams[Len(streams)].size,
         min |-> streams[1].min, max |-> Total([i \in DOMAIN streams |-> streams[i].max]),
         start |-> 0]

\* The start bitrate is the last target, within the codec's limits.
StartBitrate(codec, target) == MinOf(MaxOf(target, codec.min), codec.max)

WithLimits(config, codec, target) ==
    [codec EXCEPT !.spatial = ApplySpatialLayerBitrateLimits(config, codec.spatial),
                  !.start = StartBitrate(codec, target)]

ConfiguredCodec(config, size, max_pixels, target) ==
    LET streams == ApplyEncoderBitrateLimitsIfSingleActiveStream(config,
                      SingleStreamLimits(config,
                         CreateEncoderStreams(config, size, max_pixels)))
    IN  WithLimits(config, SetupCodec(config, streams), target)

\* A stream that became inactive, or other rates, need no reset, unless the encoder
\* has not encoded yet and would start with another rate.
StreamNeedsReset(old, new) ==
    /\ new.active
    /\ ~old.active \/ new.size # old.size \/ new.temporal # old.temporal
RequiresEncoderReset(old, new, encode_called) ==
    \/ <<new.format, new.size, new.screen, Len(new.streams), Len(new.spatial)>>
          # <<old.format, old.size, old.screen, Len(old.streams), Len(old.spatial)>>
    \/ ~encode_called /\ new.start # old.start
    \/ \E i \in DOMAIN new.streams : StreamNeedsReset(old.streams[i], new.streams[i])
    \/ /\ new.format = "VP9"
       /\ \E i \in DOMAIN new.spatial : StreamNeedsReset(old.spatial[i], new.spatial[i])

-----------------------------------------------------------------------------
(* Allocations: for each layer of the codec, the rates of its temporal      *)
(* layers.                                                                  *)

Layers(codec) == IF codec.spatial = <<>> THEN codec.streams ELSE codec.spatial
Nothing(codec) == [i \in DOMAIN Layers(codec) |-> <<>>]
SumOf(allocation) == Total([i \in DOMAIN allocation |-> Total(allocation[i])])

\* VideoBitrateAllocator: the active layers in turn, each as much as it may have;
\* the first gets what there is, another nothing below its minimum.
Split(rate, temporal) ==
    IF rate = 0 THEN <<>> ELSE IF temporal = 1 THEN <<rate>>
    ELSE <<rate - rate \div 2, rate \div 2>>
Allocate(codec, target) ==
    LET layers == Layers(codec)
        first == IF ActiveOf(layers) = {} THEN 0 ELSE Min(ActiveOf(layers))
        Share[i \in 0..Len(layers)] ==
           IF i = 0 THEN [left |-> target, rates |-> <<>>]
           ELSE LET before == Share[i - 1]
                    layer == layers[i]
                    share == IF ~layer.active \/ (i # first /\ before.left < layer.min)
                             THEN 0 ELSE MinOf(before.left, layer.max)
                IN  [left |-> before.left - share,
                     rates |-> Append(before.rates, Split(share, layer.temporal))]
    IN  Share[Len(layers)].rates

\* An encoder without temporal layers gets each layer's sum as one rate.
TemporalRates(format, rates) ==
    IF rates = <<>> \/ Info[format].temporal THEN rates ELSE <<Total(rates)>>
UpdateAllocationFromEncoderInfo(format, allocation) ==
    [i \in DOMAIN allocation |-> TemporalRates(format, allocation[i])]

\* Each rate includes those of the temporal layers below, and of the spatial layers
\* below where they predict it.  Streams without a rate are left out; of spatial
\* layers all after the first without a rate.
Cumulative(rates) == [k \in DOMAIN rates |-> Total(SubSeq(rates, 1, k))]
Added(below, rates) ==
    [k \in DOMAIN rates |-> rates[k] + (IF k \in DOMAIN below THEN below[k] ELSE 0)]
SimulcastLayers(codec, allocation) ==
    {[stream |-> i, spatial |-> 0, size |-> codec.streams[i].size,
      rates |-> Cumulative(TemporalRates(codec.format, allocation[i]))] :
        i \in {j \in DOMAIN codec.streams : Total(allocation[j]) > 0}}
SpatialLayers(codec, allocation) ==
    LET layers == Layers(codec)
        Own(i) == Cumulative(TemporalRates(codec.format, allocation[i]))
        Predicted[i \in 0..Len(layers)] ==
           IF i = 0 THEN <<>> ELSE Added(Predicted[i - 1], Own(i))
        used == {i \in DOMAIN layers : \A j \in 1..i : Total(allocation[j]) > 0}
    IN  {[stream |-> 1, spatial |-> i, size |-> layers[i].size,
          rates |-> IF codec.format = "VP9" THEN Predicted[i] ELSE Own(i)] : i \in used}
CreateVideoLayersAllocation(codec, allocation) ==
    IF Len(codec.streams) > 1 THEN SimulcastLayers(codec, allocation)
    ELSE SpatialLayers(codec, allocation)

\* The congestion window's pushback: how many frames to drop, and the target that
\* is left, which is not below min but for rounding.  reduce_ratio is in percent.
FrameDropInterval(min, target, reduce_ratio) ==
    LET reduce == MinOf((target * reduce_ratio) \div 100, target - min)
    IN  IF reduce_ratio <= 1 \/ target = 0 \/ reduce <= 0 THEN 0
        ELSE MaxOf(2, target \div reduce)
ReducedTarget(target, interval) ==
    IF interval = 0 THEN target ELSE target - target \div interval
=============================================================================
