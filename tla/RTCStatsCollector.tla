--------------------------- MODULE RTCStatsCollector ---------------------------
(***************************************************************************)
(* pc/rtc_stats_collector.cc: answers getStats().  A collection visits the *)
(* signaling, worker, signaling, network and signaling threads in turn,    *)
(* with posted tasks and without locks, while negotiation goes on between  *)
(* the visits; requests made meanwhile join it, and requests made soon     *)
(* after are answered from a cached report.                                *)
(*                                                                         *)
(* A report is a set of objects [id, refs]: what an object is about and    *)
(* the ids it names; its measurements are left out.  A transceiver has one *)
(* sender and one receiver, and its number stands for their SSRCs.         *)
(***************************************************************************)
EXTENDS Naturals, Sequences, FiniteSets

CONSTANTS
    Transceivers, Transports, Channels,
    Audio,              \* the transceivers of audio; the others are of video
    Negotiated,         \* what transports the transceivers may have at first
    Receiving,          \* transceivers that have received packets
    Reported,           \* ... that the peer sends RTCP reports about, and to
    Selected,           \* ... whose sender or receiver a request may ask for
    cache_lifetime_us_, \* in ticks
    MaxRequests,        \* bound on the calls of GetStatsReport
    MaxChanges,         \* bound on the application's other calls
    MaxTime             \* bound on the ticks of the clock

ASSUME CollectorConstants ==
    /\ Receiving \subseteq Transceivers /\ Reported \subseteq Transceivers
    /\ Selected \cup Audio \subseteq Transceivers
    /\ Negotiated \subseteq [Transceivers -> Transports \cup {""}]
    /\ {cache_lifetime_us_, MaxRequests, MaxChanges, MaxTime} \subseteq Nat

None == [none |-> TRUE]
NoTransport == ""

VARIABLES
    transceivers,   \* the peer connection's, as the signaling thread sees them
    attachments,    \* the last attachment id given to a sender's track
    requests_, collection_context_, cached_report_, cache_timestamp_us_,
    cached_certificates_by_transport_,
    opened_data_channels, data_channels_opened, data_channels_closed,
    signaling, worker, network,         \* the threads' queues
    signaling_alive, worker_alive, network_alive,
    delivering,     \* the requests OnNetworkReportReady still has to answer
    asked, answers, \* per request: what it asks for, the report it was given
    changes, now, collections,
    raced           \* a collection was under way at some negotiation

peer == <<transceivers, attachments, raced>>
cache == <<cached_report_, cache_timestamp_us_>>
channels == <<opened_data_channels, data_channels_opened, data_channels_closed>>
queues == <<signaling, worker, network>>
alive == <<signaling_alive, worker_alive, network_alive>>
vars == <<peer, requests_, collection_context_, cache,
          cached_certificates_by_transport_, channels, queues, alive,
          delivering, asked, answers, changes, now, collections>>

Asked == DOMAIN asked
Init ==
    /\ \E transports \in Negotiated :
          transceivers = [x \in Transceivers |->
             [transport |-> transports[x], attachment |-> 0,
              direction |-> IF transports[x] = NoTransport THEN "none"
                            ELSE "sendrecv"]]
    /\ attachments = 0
    /\ requests_ = <<>> /\ collection_context_ = None
    /\ cached_report_ = None /\ cache_timestamp_us_ = 0
    /\ cached_certificates_by_transport_ = {}
    /\ opened_data_channels = {}
    /\ data_channels_opened = 0 /\ data_channels_closed = 0
    /\ signaling = <<>> /\ worker = <<>> /\ network = <<>>
    /\ signaling_alive = TRUE /\ worker_alive = TRUE /\ network_alive = TRUE
    /\ delivering = <<>> /\ asked = <<>> /\ answers = <<>>
    /\ changes = 0 /\ now = 0 /\ collections = 0 /\ raced = FALSE

-----------------------------------------------------------------------------
(* The objects of a report and what each refers to.                         *)

Object(id, refs) == [id |-> id, refs |-> refs]
Ids(objects) == {o.id : o \in objects}
TransportId(t) == <<"T", t>>
OutboundId(t, kind, x) == <<"O", t, kind, x>>
InboundId(t, kind, x) == <<"I", t, kind, x>>
RemoteInboundId(kind, x) == <<"RI", kind, x>>
RemoteOutboundId(kind, x) == <<"RO", kind, x>>
CodecId(direction, t) == <<"C", direction, t>>
MediaSourceId(attachment) == <<"S", attachment>>
CertificateId(of) == <<"CF", of>>
CandidatePairId(t) == <<"CP", t>>
CandidateId(side, t) == <<"I", t, side>>
Playout == <<"AP">>

KindOf(x) == IF x \in Audio THEN "audio" ELSE "video"
Stopped(info) == info.direction = "stopped"

\* A transceiver that was stopped has nothing; the sender's track is the one of
\* this moment.
ProduceMediaSourceStats_s(infos) ==
    {Object(MediaSourceId(transceivers[x].attachment), {}) :
        x \in {y \in Transceivers : /\ ~Stopped(infos[y])
                                    /\ transceivers[y].attachment # 0}}
ProducePeerConnectionStats_s == {Object(<<"P">>, {})}
\* There are statistics of the device if an audio transceiver receives.
ProduceAudioPlayoutStats_s(infos) ==
    {Object(Playout, {}) : x \in {y \in Audio : ~Stopped(infos[y])}}
ProduceDataChannelStats_s(data) == {Object(<<"D", c>>, {}) : c \in data}

\* A certificate that is in the report already is skipped: the peer has one for
\* all transports.
CertificateStats(of) == Object(CertificateId(of), {})
\* The remote ends' are taken to be there.
LocalCertificatesOnly(certified) == {CertificateStats(t) : t \in certified}
ProduceCertificateStats_s(certified) ==
    UNION {{CertificateStats(t), CertificateStats("peer")} : t \in certified}

ProduceIceCandidateStats(side, t) == Object(CandidateId(side, t), {TransportId(t)})
ProduceIceCandidateAndPairStats_s(transports) ==
    UNION {{ProduceIceCandidateStats("local", t), ProduceIceCandidateStats("remote", t),
            Object(CandidatePairId(t), {CandidateId("local", t),
                                        CandidateId("remote", t), TransportId(t)})} :
              t \in transports}

ProduceTransportStats_s(transports, certified) ==
    {Object(TransportId(t),
            {CandidatePairId(t)} \cup
            (IF t \in certified THEN {CertificateId(t), CertificateId("peer")}
             ELSE {})) : t \in transports}

\* A codec's object is made by the first stream that names it.
Codec(direction, t) == Object(CodecId(direction, t), {TransportId(t)})

\* The remote ends name their streams; the sender's names a transport only if
\* the report has it.
RemoteOutbound(x, t) ==
    {Object(RemoteOutboundId(KindOf(x), x),
            {TransportId(t), CodecId("I", t), InboundId(t, KindOf(x), x)}) :
        y \in Reported \cap {x}}
RemoteInbound(x, t, transports) ==
    {Object(RemoteInboundId(KindOf(x), x),
            {CodecId("O", t), OutboundId(t, KindOf(x), x)}
               \cup {TransportId(u) : u \in transports \cap {t}}) :
        y \in Reported \cap {x}}

\* Nothing of a receiver that has received nothing.
InboundStats(x, t, more) ==
    IF x \notin Receiving THEN {}
    ELSE {Codec("I", t),
          Object(InboundId(t, KindOf(x), x),
                 {TransportId(t), CodecId("I", t)} \cup more
                    \cup Ids(RemoteOutbound(x, t)))}
         \cup RemoteOutbound(x, t)

\* The source is that of the track the sender had when the collection began.
OutboundStats(x, info, transports) ==
    LET t == info.transport
    IN  {Codec("O", t),
         Object(OutboundId(t, KindOf(x), x),
                {TransportId(t), CodecId("O", t)}
                   \cup {MediaSourceId(a) : a \in {info.attachment} \ {0}}
                   \cup Ids(RemoteInbound(x, t, transports)))}
        \cup RemoteInbound(x, t, transports)

ProduceAudioRTPStreamStats_s(x, info, transports) ==
    InboundStats(x, info.transport, {Playout}) \cup OutboundStats(x, info, transports)
ProduceVideoRTPStreamStats_s(x, info, transports) ==
    InboundStats(x, info.transport, {}) \cup OutboundStats(x, info, transports)

ProduceRTPStreamStats_s(infos, transports) ==
    LET shown == {x \in Transceivers : /\ infos[x].transport # NoTransport
                                       /\ ~Stopped(infos[x])}
    IN  (UNION {ProduceAudioRTPStreamStats_s(x, infos[x], transports) :
                   x \in shown \cap Audio})
        \cup (UNION {ProduceVideoRTPStreamStats_s(x, infos[x], transports) :
                        x \in shown \ Audio})

-----------------------------------------------------------------------------
(* A request.                                                               *)

\* TakeReferencedStats: what the roots refer to, directly or through others.
Followed(objects, from) ==
    from \cup (UNION {{o \in objects : o.id = id} : id \in UNION {p.refs : p \in from}})
Reachable(objects, roots) ==
    LET streams == {o \in objects : o.id \in roots}
        ends == Followed(objects, streams)
        transports == Followed(objects, ends)
    IN  Followed(objects, transports)

\* The streams of a sender or a receiver are looked up when the report is
\* delivered.
CreateReportFilteredBySelector(filter, objects) ==
    Reachable(objects, IF filter.kind = "sender"
                       THEN {OutboundId(t, KindOf(filter.of), filter.of) : t \in Transports}
                       ELSE {InboundId(t, KindOf(filter.of), filter.of) : t \in Transports})

\* Of an answer, what it is about and which ids it names in vain are kept.
Dangling(objects) == (UNION {o.refs : o \in objects}) \ Ids(objects)
DeliverReport(request, report) ==
    answers' = Append(answers,
       [request |-> request, started |-> report.started,
        collection |-> report.collection, undisturbed |-> report.undisturbed,
        missing |-> Dangling(IF asked[request].filter.kind = "all"
                             THEN report.objects
                             ELSE CreateReportFilteredBySelector(
                                     asked[request].filter, report.objects))])

Filters == {[kind |-> "all"]} \cup [kind : {"sender", "receiver"}, of : Transceivers]
Fresh == now - cache_timestamp_us_ <= cache_lifetime_us_

\* The signaling thread runs one task at a time; a callback may call again.
Idle == delivering = <<>>
PostTo(queue, task) == Append(queue, task)

\* What the worker thread's task is given; it adds what the channels measured.
PrepareTransceiverStatsInfosAndCallStats_s_w == [infos |-> transceivers]

GetStatsReportInternal ==
    /\ Len(asked) < MaxRequests /\ signaling_alive
    /\ \E filter \in Filters :
          asked' = Append(asked, [filter |-> filter, at |-> now,
                                  collection |-> collections])
    /\ LET request == Len(asked) + 1
       IN  IF cached_report_ # None /\ Fresh
           THEN /\ signaling' = PostTo(signaling, [kind |-> "deliver",
                                  request |-> request, report |-> cached_report_])
                /\ UNCHANGED <<requests_, collection_context_, worker>>
           ELSE /\ requests_' = Append(requests_, request)
                /\ IF collection_context_ # None
                   THEN UNCHANGED <<collection_context_, worker>>
                   ELSE /\ collection_context_' =
                              [started |-> now, partial |-> {}, undisturbed |-> TRUE]
                        /\ worker' = PostTo(worker,
                              PrepareTransceiverStatsInfosAndCallStats_s_w)
                /\ UNCHANGED signaling
    /\ UNCHANGED <<peer, cache, cached_certificates_by_transport_, channels,
                   network, alive, delivering, answers, changes, now, collections>>

-----------------------------------------------------------------------------
(* The collection's way through the threads.                                *)

WorkerTask ==
    /\ worker # <<>> /\ worker' = Tail(worker)
    /\ signaling' = IF worker_alive
                    THEN PostTo(signaling, [kind |-> "worker_result",
                                            infos |-> Head(worker).infos])
                    ELSE signaling
    /\ UNCHANGED <<peer, requests_, collection_context_, cache,
                   cached_certificates_by_transport_, channels, network, alive,
                   delivering, asked, answers, changes, now, collections>>

\* A task of the signaling thread that outlived the shutdown does nothing.
Take(kind) == /\ Idle /\ signaling # <<>> /\ Head(signaling).kind = kind
              /\ signaling' = Tail(signaling)
Skip == /\ Idle /\ signaling # <<>> /\ ~signaling_alive
        /\ signaling' = Tail(signaling)
        /\ UNCHANGED <<peer, requests_, collection_context_, cache,
                       cached_certificates_by_transport_, channels, worker,
                       network, alive, delivering, asked, answers, changes, now,
                       collections>>

ProducePartialResultsOnSignalingThread ==
    /\ Take("worker_result") /\ signaling_alive
    /\ LET infos == Head(signaling).infos
       IN  /\ collection_context_' = [collection_context_ EXCEPT !.partial =
                 @ \cup ProduceMediaSourceStats_s(infos)
                   \cup ProducePeerConnectionStats_s
                   \cup ProduceAudioPlayoutStats_s(infos)]
           /\ network' = PostTo(network,
                 [kind |-> "collect", infos |-> infos,
                  names |-> {infos[x].transport : x \in Transceivers} \ {NoTransport}])
    /\ UNCHANGED <<peer, requests_, cache, cached_certificates_by_transport_,
                   channels, worker, alive, delivering, asked, answers, changes,
                   now, collections>>

\* The cached certificates, of whatever transports, if there are any.
PrepareTransportCertificateStats_n(names) ==
    IF cached_certificates_by_transport_ = {} THEN names
    ELSE cached_certificates_by_transport_

\* GetTransportStatsByNames knows the transports of this moment.
Existing == {transceivers[x].transport : x \in Transceivers} \ {NoTransport}

ProducePartialResultsOnNetworkThread ==
    /\ network # <<>> /\ Head(network).kind = "collect"
    /\ network' = Tail(network)
    /\ IF network_alive
       THEN LET transports == Head(network).names \cap Existing
                certified == PrepareTransportCertificateStats_n(transports)
            IN  /\ cached_certificates_by_transport_' = certified
                /\ signaling' = PostTo(signaling,
                      [kind |-> "network_result", infos |-> Head(network).infos,
                       transports |-> transports, certified |-> certified,
                       data |-> opened_data_channels])
       ELSE UNCHANGED <<cached_certificates_by_transport_, signaling>>
    /\ UNCHANGED <<peer, requests_, collection_context_, cache, channels, worker,
                   alive, delivering, asked, answers, changes, now, collections>>

ClearCertificates ==
    /\ network # <<>> /\ Head(network).kind = "clear"
    /\ network' = Tail(network)
    /\ cached_certificates_by_transport_' =
          IF network_alive THEN {} ELSE cached_certificates_by_transport_
    /\ UNCHANGED <<peer, requests_, collection_context_, cache, channels,
                   signaling, worker, alive, delivering, asked, answers, changes,
                   now, collections>>

\* The network thread's part of the report.
ProcessResultsFromNetworkThread(task) ==
    ProduceCertificateStats_s(task.certified)
    \cup ProduceIceCandidateAndPairStats_s(task.transports)
    \cup ProduceTransportStats_s(task.transports, task.certified)
    \cup ProduceRTPStreamStats_s(task.infos, task.transports)

\* The age of the cache counts from the end of the collection.
CompletionTime == now
CacheTime == collection_context_.started
\* requests_ after the report: copied instead of moved from.
CopiedNotMoved == requests_
RequestsLeft == <<>>
\* The collection's context is kept for the next one.
ContextKept == collection_context_
ContextLeft == None

OnNetworkReportReady ==
    /\ Take("network_result") /\ signaling_alive
    /\ LET task == Head(signaling)
       IN  cached_report_' =
              [objects |-> collection_context_.partial
                  \cup ProcessResultsFromNetworkThread(task)
                  \cup ProduceDataChannelStats_s(task.data),
               started |-> collection_context_.started,
               collection |-> collections + 1,
               undisturbed |-> collection_context_.undisturbed]
    /\ cache_timestamp_us_' = CacheTime
    /\ collection_context_' = ContextLeft
    /\ delivering' = requests_ /\ requests_' = RequestsLeft
    /\ collections' = collections + 1
    /\ UNCHANGED <<peer, cached_certificates_by_transport_, channels, worker,
                   network, alive, asked, answers, changes, now>>

\* The loop of OnNetworkReportReady; between two callbacks, a callback's calls.
DeliverNext ==
    /\ delivering # <<>>
    /\ delivering' = Tail(delivering)
    /\ DeliverReport(Head(delivering), cached_report_)
    /\ UNCHANGED <<peer, requests_, collection_context_, cache,
                   cached_certificates_by_transport_, channels, queues, alive,
                   asked, changes, now, collections>>

DeliverTask ==
    /\ Take("deliver") /\ signaling_alive
    /\ DeliverReport(Head(signaling).request, Head(signaling).report)
    /\ UNCHANGED <<peer, requests_, collection_context_, cache,
                   cached_certificates_by_transport_, channels, worker, network,
                   alive, delivering, asked, changes, now, collections>>

-----------------------------------------------------------------------------
(* The application's other calls, on the signaling thread.                  *)

Change == /\ Idle /\ signaling_alive /\ changes < MaxChanges
          /\ changes' = changes + 1
          /\ UNCHANGED <<cached_certificates_by_transport_, worker, delivering,
                         requests_, asked, answers, now, collections>>
Disturb == collection_context_' = IF collection_context_ = None THEN None
              ELSE [collection_context_ EXCEPT !.undisturbed = FALSE]

CertificatesToo(tasks) == PostTo(tasks, [kind |-> "clear"])
Clear == /\ cached_report_' = None
         /\ network' = CertificatesToo(network)
         /\ UNCHANGED cache_timestamp_us_
ClearCachedStatsReport ==
    /\ Change /\ Clear
    /\ UNCHANGED <<peer, collection_context_, channels, signaling, alive>>

\* Negotiation gives a transceiver a transport, its own or a shared one, and
\* clears what is cached.
Negotiate ==
    /\ Change /\ Disturb /\ Clear
    /\ \E x \in Transceivers, t \in Transports :
          /\ transceivers[x].direction # "stopped" /\ transceivers[x].transport # t
          /\ transceivers' = [transceivers EXCEPT ![x].transport = t,
                                                   ![x].direction = "sendrecv"]
    /\ raced' = (raced \/ collection_context_ # None)
    /\ UNCHANGED <<attachments, channels, signaling, alive>>

Stop ==
    /\ Change /\ Disturb
    /\ \E x \in Transceivers :
          /\ transceivers[x].direction # "stopped"
          /\ transceivers' = [transceivers EXCEPT ![x].transport = NoTransport,
                                                   ![x].direction = "stopped"]
    /\ UNCHANGED <<attachments, raced, cache, channels, signaling, network, alive>>

ReplaceTrack ==
    /\ Change /\ Disturb
    /\ attachments' = attachments + 1
    /\ \E x \in Transceivers, to \in {0, attachments + 1} :
          /\ transceivers[x].attachment # to
          /\ transceivers' = [transceivers EXCEPT ![x].attachment = to]
    /\ UNCHANGED <<raced, cache, channels, signaling, network, alive>>

OnSctpDataChannelStateChanged ==
    /\ Change
    /\ \E c \in Channels :
          \/ /\ c \notin opened_data_channels
             /\ opened_data_channels' = opened_data_channels \cup {c}
             /\ data_channels_opened' = data_channels_opened + 1
             /\ UNCHANGED data_channels_closed
          \/ /\ c \in opened_data_channels
             /\ opened_data_channels' = opened_data_channels \ {c}
             /\ data_channels_closed' = data_channels_closed + 1
             /\ UNCHANGED data_channels_opened
    /\ UNCHANGED <<peer, collection_context_, cache, signaling, network, alive>>

\* The other threads' flags fall when they get to it.
CancelPendingRequestAndGetShutdownTasks ==
    /\ Idle /\ signaling_alive /\ signaling_alive' = FALSE
    /\ UNCHANGED <<peer, requests_, collection_context_, cache,
                   cached_certificates_by_transport_, channels, queues,
                   worker_alive, network_alive, delivering, asked, answers,
                   changes, now, collections>>
ShutdownTasks ==
    /\ ~signaling_alive
    /\ \/ worker_alive /\ worker_alive' = FALSE /\ UNCHANGED network_alive
       \/ network_alive /\ network_alive' = FALSE /\ UNCHANGED worker_alive
    /\ UNCHANGED <<peer, requests_, collection_context_, cache,
                   cached_certificates_by_transport_, channels, queues,
                   signaling_alive, delivering, asked, answers, changes, now,
                   collections>>

Tick ==
    /\ now < MaxTime /\ now' = now + 1
    /\ UNCHANGED <<peer, requests_, collection_context_, cache,
                   cached_certificates_by_transport_, channels, queues, alive,
                   delivering, asked, answers, changes, collections>>

SignalingTask == \/ Skip \/ ProducePartialResultsOnSignalingThread
                 \/ OnNetworkReportReady \/ DeliverNext \/ DeliverTask
NetworkTask == ProducePartialResultsOnNetworkThread \/ ClearCertificates

Next ==
    \/ GetStatsReportInternal
    \/ WorkerTask
    \/ SignalingTask
    \/ NetworkTask
    \/ ClearCachedStatsReport \/ Negotiate \/ Stop \/ ReplaceTrack
    \/ OnSctpDataChannelStateChanged
    \/ CancelPendingRequestAndGetShutdownTasks \/ ShutdownTasks
    \/ Tick

\* Each thread keeps running its tasks.
Spec == Init /\ [][Next]_vars
FairSpec == /\ Spec
            /\ WF_vars(SignalingTask) /\ WF_vars(WorkerTask) /\ WF_vars(NetworkTask)

-----------------------------------------------------------------------------
(* Properties.                                                              *)

Count(s, P(_)) == Cardinality({k \in DOMAIN s : P(s[k])})
Places(r) ==
    Count(requests_, LAMBDA q : q = r) + Count(delivering, LAMBDA q : q = r)
    + Count(signaling, LAMBDA task : task.kind = "deliver" /\ task.request = r)
    + Count(answers, LAMBDA a : a.request = r)

InFlight == Len(worker)
            + Count(signaling, LAMBDA task : task.kind # "deliver")
            + Count(network, LAMBDA task : task.kind = "collect")

\* Until the shutdown each request is in exactly one place: it waits for the
\* collection, for the loop or for its task, or it was answered (once).  There is
\* one collection in flight if there is a context and none otherwise: the tasks
\* find the context they use, no two share it, and whoever waits has one to wait
\* for (GetStatsReportInternal, OnNetworkReportReady).
RequestsAccounted ==
    signaling_alive =>
       /\ \A r \in DOMAIN asked : Places(r) = 1
       /\ InFlight = IF collection_context_ = None THEN 0 ELSE 1
       /\ requests_ # <<>> => collection_context_ # None

\* Every id a delivered report names is in it, if nothing changed while it was
\* collected; if something did, what is missing is a transport that is gone or a
\* source that was replaced, never a certificate, a codec, a candidate or the
\* remote end of a stream.
ReferencesResolve ==
    \A k \in DOMAIN answers :
       LET missing == answers[k].missing
       IN  /\ answers[k].undisturbed => missing = {}
           /\ \A id \in missing : id[1] \in {"T", "S"}

\* A report was finished after it was asked for, or started no longer ago than the cache
\* may live.  Each transport of a report has its certificates, as
\* ProduceTransportStats_s asserts, unless some negotiation fell into a collection: the
\* clearing of the cache overtakes that collection on its way, which then fills the
\* cache with the certificates of the old transports.
CertificatesUnlessRaced ==
    \A k \in DOMAIN signaling :
       signaling[k].kind = "network_result" /\ ~raced =>
          signaling[k].transports \subseteq signaling[k].certified
AnswersAreFresh ==
    /\ \A k \in DOMAIN answers :
          LET request == asked[answers[k].request]
          IN  \/ answers[k].collection > request.collection
              \/ request.at - answers[k].started <= cache_lifetime_us_
    /\ CertificatesUnlessRaced

\* Every request is answered, unless the peer connection is closed first.
RequestsAnswered ==
    \A r \in 1..MaxRequests :
       (r \in DOMAIN asked)
          ~> (~signaling_alive \/ \E k \in DOMAIN answers : answers[k].request = r)
=============================================================================
