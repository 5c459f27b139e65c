------------------------------ MODULE VideoAdapter ------------------------------
(***************************************************************************)
(* media/base/video_adapter.cc: decides, for each frame a source captures, *)
(* whether it is dropped, how it is cropped and to what size it is scaled. *)
(* Two parties steer it: the sinks' wants (limits of pixels and of rate,   *)
(* an alignment, a resolution to fit into) and the application's format    *)
(* request, which is stashed while the wants replace it.                   *)
(*                                                                         *)
(* Every method holds the mutex: an action is a call.  The counters of     *)
(* frames and of changes only feed the log.                                *)
(***************************************************************************)
EXTENDS Integers, FiniteSets

CONSTANTS
    Sizes,                          \* frames' sizes, <<width, height>>
    source_resolution_alignment_,
    Aspects,                        \* aspect ratios requested, <<width, height>>
    PixelLimits, Rates, Alignments, \* limits sinks and application may set
    Resolutions,                    \* values of scale_resolution_down_to
    Unlimited,                      \* std::numeric_limits<int>::max()
    Depth                           \* bound on the steps of FindScale

ASSUME SizesPositive ==
    /\ Sizes \cup Aspects \cup Resolutions \subseteq (Nat \ {0}) \X (Nat \ {0})
    /\ {source_resolution_alignment_} \cup Alignments \subseteq Nat \ {0}
ASSUME LimitsTyped ==
    /\ Unlimited \in Nat
    /\ PixelLimits \cup Rates \subseteq 0..Unlimited
    /\ \A s \in Sizes : s[1] * s[2] < Unlimited
    /\ Depth \in Nat

VARIABLES
    resolution_request_max_pixel_count_, resolution_request_target_pixel_count_,
    max_framerate_request_, resolution_alignment_, scale_resolution_down_to_,
    output_format_request_, stashed_output_format_request_,
    requested,      \* the application's last format request
    last            \* the last frame: its input and what became of it

wants == <<resolution_request_max_pixel_count_,
           resolution_request_target_pixel_count_, max_framerate_request_,
           resolution_alignment_, scale_resolution_down_to_>>
format == <<output_format_request_, stashed_output_format_request_, requested>>
vars == <<wants, format, last>>

None == <<>>
MinOf(a, b) == IF a < b THEN a ELSE b
MaxOf(a, b) == IF a > b THEN a ELSE b
Pixels(size) == size[1] * size[2]
Gcd(a, b) == CHOOSE d \in 1..a : /\ a % d = 0 /\ b % d = 0
                                 /\ \A e \in (d + 1)..a : a % e # 0 \/ b % e # 0
Lcm(a, b) == (a \div Gcd(a, b)) * b

NoFormat == [landscape |-> None, landscape_pixels |-> Unlimited,
             portrait |-> None, portrait_pixels |-> Unlimited, fps |-> Unlimited]
NoFrame == [delivered |-> FALSE]

Init ==
    /\ resolution_request_max_pixel_count_ = Unlimited
    /\ resolution_request_target_pixel_count_ = Unlimited
    /\ max_framerate_request_ = Unlimited
    /\ resolution_alignment_ = source_resolution_alignment_
    /\ scale_resolution_down_to_ = None
    /\ output_format_request_ = NoFormat
    /\ stashed_output_format_request_ = None
    /\ requested = NoFormat
    /\ last = NoFrame

-----------------------------------------------------------------------------
(* The sizes.                                                               *)

roundUp(value, multiple, max) ==
    LET rounded == ((value + multiple - 1) \div multiple) * multiple
    IN  IF rounded <= max THEN rounded ELSE (max \div multiple) * multiple

scale_pixel_count(scale, input) ==
    (scale.n * scale.n * input) \div (scale.d * scale.d)

\* Down by 2/3 where it can be done without a remainder, by 3/4 otherwise.
Down(scale) == IF scale.n % 3 = 0 /\ scale.d % 2 = 0
               THEN [n |-> scale.n \div 3, d |-> scale.d \div 2]
               ELSE [n |-> scale.n * 3, d |-> scale.d * 4]
Start(size) == LET threes == IF size[1] % 9 = 0 /\ size[2] % 9 = 0 THEN 36
                             ELSE IF size[1] % 3 = 0 /\ size[2] % 3 = 0 THEN 6
                             ELSE 1
               IN  [n |-> threes, d |-> threes]
Lowest(scale) == LET g == Gcd(scale.n, scale.d)
                 IN  [n |-> scale.n \div g, d |-> scale.d \div g]

Scales(size) ==
    LET scale[k \in 0..Depth] == IF k = 0 THEN Start(size) ELSE Down(scale[k - 1])
    IN  scale

\* The loop of FindScale ends within Depth steps, whatever the crop.
ASSUME DepthSuffices ==
    \A size \in Sizes : \A w \in 0..size[1], h \in 0..size[2] :
       scale_pixel_count(Scales(<<w, h>>)[Depth], w * h) = 0

\* The scales the loop meets: it ends with the first at or below the target.
Met(size, target) ==
    LET scale == Scales(size)
        count(k) == scale_pixel_count(scale[k], Pixels(size))
    IN  {scale[k] : k \in {j \in 0..Depth : j > 0 => count(j - 1) > target}}
Nearest(scales, size, target) ==
    LET away(scale) == LET count == scale_pixel_count(scale, Pixels(size))
                       IN  IF count > target THEN count - target ELSE target - count
    IN  CHOOSE s \in scales : \A t \in scales :
           \/ away(s) < away(t)
           \/ away(s) = away(t) /\ s.n * t.d >= t.n * s.d

\* The size nearest to the target, the limit or not.
NearestWhateverTheLimit(size, target, max) ==
    Lowest(Nearest(Met(size, target), size, target))

\* The nearest to the target of those that are allowed, the larger of two.
FindScale(size, target, max) ==
    LET allowed == {scale \in Met(size, target) :
                       scale_pixel_count(scale, Pixels(size)) <= max}
    IN  IF target >= Pixels(size) \/ allowed = {} THEN [n |-> 1, d |-> 1]
        ELSE Lowest(Nearest(allowed, size, target))

\* int(length * (n / m)) with a float for the quotient, which may fall just
\* short of a whole product.
Truncated(length, n, m) ==
    LET whole == (length * n) \div m
    IN  IF (length * n) % m = 0 /\ n % m # 0 THEN {whole, whole - 1} ELSE {whole}

Cropped(size, aspect) ==
    IF aspect = None THEN {size}
    ELSE {<<MinOf(size[1], w), MinOf(size[2], h)>> :
             w \in Truncated(size[2], aspect[1], aspect[2]),
             h \in Truncated(size[1], aspect[2], aspect[1])}

\* The crop grows to what the scale divides and the alignment needs.
Adjusted(crop, scale, size) ==
    <<roundUp(crop[1], scale.d * resolution_alignment_, size[1]),
      roundUp(crop[2], scale.d * resolution_alignment_, size[2])>>
Scaled(crop, scale) == <<(crop[1] \div scale.d) * scale.n,
                         (crop[2] \div scale.d) * scale.n>>

\* std::round(length * n / m); the resolution turns with the frame.
Rounded(length, n, m) == (2 * length * n + m) \div (2 * m)
Oriented(out) ==
    LET to == scale_resolution_down_to_
    IN  IF (out[1] < out[2]) # (to[1] < to[2]) THEN <<to[2], to[1]>> ELSE to
Fitted(out) ==
    IF \/ scale_resolution_down_to_ = None
       \/ out[1] = 0 \/ out[2] = 0
       \/ out[1] <= Oriented(out)[1] /\ out[2] <= Oriented(out)[2]
    THEN out
    ELSE LET to == Oriented(out)
             side == IF to[1] * out[2] < to[2] * out[1] THEN 1 ELSE 2
         IN  [i \in 1..2 |-> roundUp(Rounded(out[i], to[side], out[side]),
                                     resolution_alignment_, to[i])]

-----------------------------------------------------------------------------
(* A frame.                                                                 *)

\* The framerate controller may drop a frame only if there is a limit, and
\* drops each one if it is zero.
DropFrame(drop) ==
    LET max_fps == MinOf(max_framerate_request_, output_format_request_.fps)
    IN  /\ max_fps = Unlimited => ~drop
        /\ max_fps = 0 => drop

AdaptFrameResolution ==
    \E size \in Sizes, drop \in BOOLEAN :
       LET wide == size[1] > size[2]
           aspect == IF wide THEN output_format_request_.landscape
                     ELSE output_format_request_.portrait
           max == MinOf(resolution_request_max_pixel_count_,
                        IF wide THEN output_format_request_.landscape_pixels
                        ELSE output_format_request_.portrait_pixels)
           target == MinOf(resolution_request_target_pixel_count_, max)
       IN  /\ DropFrame(drop)
           /\ IF max = 0 \/ drop
              THEN last' = NoFrame
              ELSE \E crop \in Cropped(size, aspect) :
                      LET scale == FindScale(crop, target, max)
                          adjusted == Adjusted(crop, scale, size)
                      IN  last' = [delivered |-> TRUE, size |-> size,
                                   crop |-> crop, adjusted |-> adjusted,
                                   scale |-> scale, target |-> target,
                                   max |-> max,
                                   out |-> Fitted(Scaled(adjusted, scale))]
           /\ UNCHANGED <<wants, format>>

-----------------------------------------------------------------------------
(* The application and the sinks.                                           *)

\* The request is put in force even while another is stashed.
InForceAtOnce(request) ==
    /\ output_format_request_' = request
    /\ UNCHANGED stashed_output_format_request_
KeepOrStash(request) ==
    IF stashed_output_format_request_ # None
    THEN /\ stashed_output_format_request_' = request
         /\ UNCHANGED output_format_request_
    ELSE /\ output_format_request_' = request
         /\ UNCHANGED stashed_output_format_request_

Request(landscape, landscape_pixels, portrait, portrait_pixels, fps) ==
    LET request == [landscape |-> landscape, landscape_pixels |-> landscape_pixels,
                    portrait |-> portrait, portrait_pixels |-> portrait_pixels,
                    fps |-> fps]
    IN  /\ KeepOrStash(request)
        /\ requested' = request /\ last' = NoFrame
        /\ UNCHANGED wants

\* One aspect ratio for both orientations; none counts as unset.
RequestAspect(aspect, pixels, fps) ==
    IF aspect = None THEN Request(None, pixels, None, pixels, fps)
    ELSE LET long == MaxOf(aspect[1], aspect[2])
             short == MinOf(aspect[1], aspect[2])
         IN  Request(<<long, short>>, pixels, <<short, long>>, pixels, fps)

\* A VideoFormat (its interval as the rate it means), an aspect ratio, or one
\* for each orientation.
OnOutputFormatRequest ==
    \/ RequestAspect(None, Unlimited, Unlimited)
    \/ \E size \in Resolutions, fps \in Rates \cup {Unlimited} :
          RequestAspect(size, Pixels(size), fps)
    \/ \E aspect \in Aspects, pixels \in PixelLimits :
          RequestAspect(aspect, pixels, Unlimited)
    \/ \E aspect \in Aspects, pixels \in PixelLimits :
          Request(aspect, pixels, None, Unlimited, Unlimited)

OnSinkWants ==
    \E max \in PixelLimits \cup {Unlimited} : \E target \in PixelLimits \cup {max},
       fps \in Rates \cup {Unlimited}, alignment \in Alignments,
       requested_resolution \in Resolutions \cup {None},
       any_active_without_requested_resolution \in BOOLEAN :
          /\ resolution_request_max_pixel_count_' = max
          /\ resolution_request_target_pixel_count_' = target
          /\ max_framerate_request_' = fps
          /\ resolution_alignment_' = Lcm(source_resolution_alignment_, alignment)
          /\ scale_resolution_down_to_' = requested_resolution
          /\ \/ /\ requested_resolution = None
                /\ stashed_output_format_request_ # None
                /\ output_format_request_' = stashed_output_format_request_
                /\ stashed_output_format_request_' = None
             \/ /\ \/ requested_resolution = None
                      /\ stashed_output_format_request_ = None
                   \/ requested_resolution # None
                      /\ any_active_without_requested_resolution
                /\ UNCHANGED <<output_format_request_, stashed_output_format_request_>>
             \/ /\ requested_resolution # None
                /\ ~any_active_without_requested_resolution
                /\ stashed_output_format_request_' =
                      IF stashed_output_format_request_ = None
                      THEN output_format_request_ ELSE stashed_output_format_request_
                /\ output_format_request_' = NoFormat
          /\ last' = NoFrame
          /\ UNCHANGED requested

Next == AdaptFrameResolution \/ OnOutputFormatRequest \/ OnSinkWants
Spec == Init /\ [][Next]_vars

-----------------------------------------------------------------------------
(* Properties.                                                              *)

\* Whatever the order of wants and requests, the application's last format
\* request is never lost: it is in force, or it waits in the stash while a
\* resolution to fit into replaces it, and it comes back with the first wants
\* that name none.
FormatRequestKept ==
    \/ output_format_request_ = requested /\ stashed_output_format_request_ = None
    \/ /\ stashed_output_format_request_ = requested
       /\ output_format_request_ = NoFormat
       /\ scale_resolution_down_to_ # None

\* Each side of what is delivered is a multiple of the alignment, of the source
\* and of the encoder.
Aligned == /\ last.out[1] % resolution_alignment_ = 0
           /\ last.out[2] % resolution_alignment_ = 0

\* Growing the crop makes each side exceed what the scale promised by less than
\* one step of the alignment, and never the frame.
WithinLimit ==
    LET step == last.scale.n * resolution_alignment_
    IN  /\ \A i \in 1..2 : last.adjusted[i] <= last.size[i]
        /\ \A i \in 1..2 : last.out[i] <= last.adjusted[i]
        /\ \/ \E i \in 1..2 : last.out[i] <= step
           \/ (last.out[1] - step) * (last.out[2] - step) <= last.max

\* A side vanishes only if the frame, or the resolution to fit into, is narrower
\* than one step of the alignment, if the requested aspect ratio crops the frame
\* to nothing, or if the frame is so oblong that the side rounds to nothing in
\* the resolution to fit into.
VanishesOnlyIfNarrow ==
    LET to == scale_resolution_down_to_
        scaled == Scaled(last.adjusted, last.scale)
    IN  \A i \in 1..2 :
           last.out[i] = 0 =>
              \/ last.size[i] < last.scale.d * resolution_alignment_
              \/ last.crop[i] = 0
              \/ /\ to # None
                 /\ \E j \in 1..2 : \/ to[j] < resolution_alignment_
                                    \/ 2 * scaled[i] * MinOf(to[1], to[2]) < scaled[j]

FitsResolution ==
    scale_resolution_down_to_ # None /\ last.out[1] > 0 /\ last.out[2] > 0 =>
       LET to == scale_resolution_down_to_
       IN  /\ MaxOf(last.out[1], last.out[2]) <= MaxOf(to[1], to[2])
           /\ MinOf(last.out[1], last.out[2]) <= MinOf(to[1], to[2])

\* Of all sizes the alternation of 2/3 and 3/4 leads to, those below the one the
\* loop stops at included, none that the limit allows is nearer to the target.
TwoTo[k \in 0..Depth] == IF k = 0 THEN 1 ELSE 2 * TwoTo[k - 1]
Ladder(size) ==
    LET halves(n, d) == {[n |-> n, d |-> d * TwoTo[k]] :
                            k \in {j \in 0..Depth : 2 * j + 2 <= Depth}}
        start == Start(size).n
    IN  IF start = 1 THEN halves(1, 1) \cup halves(3, 4)
        ELSE IF start = 6 THEN halves(1, 1) \cup halves(2, 3)
        ELSE {[n |-> 1, d |-> 1]} \cup halves(2, 3) \cup halves(4, 9)
ScaleIsNearest ==
    LET count(scale) == scale_pixel_count(scale, Pixels(last.crop))
        away(scale) == IF count(scale) > last.target
                       THEN count(scale) - last.target
                       ELSE last.target - count(scale)
    IN  /\ count(last.scale) <= last.max
        /\ \A scale \in Ladder(last.crop) :
              count(scale) <= last.max => away(last.scale) <= away(scale)

\* What a frame becomes is right in each respect (AdaptFrameResolution and
\* FindScale, for every frame under every setting).
DeliveredFrameIsRight ==
    last.delivered =>
       /\ Aligned /\ WithinLimit /\ VanishesOnlyIfNarrow
       /\ FitsResolution /\ ScaleIsNearest
=============================================================================
