------------------------- MODULE RTCStatsCollectorProofs -------------------------
(***************************************************************************)
(* Proofs about RTCStatsCollector, for any transceivers, transports and    *)
(* data channels, any lifetime of the cache, and any number of requests    *)
(* and of changes meanwhile.                                               *)
(*                                                                         *)
(* One invariant serves all: what is on its way between the threads is     *)
(* counted (RequestsAccounted), carries what is there as long as nothing   *)
(* changed (CarriesCurrent, PartialSupplies), and finds the certificates   *)
(* of that (CertificatesCurrent); so reports are well-formed and complete  *)
(* (ReportsGood), and what TakeReferencedStats takes of them is, too.      *)
(***************************************************************************)
EXTENDS RTCStatsCollector, FiniteSetTheorems, TLAPS

-----------------------------------------------------------------------------
(* The invariant.                                                           *)

\* A transceiver's state, as the signaling thread sees it or has noted it.
Infos == [Transceivers -> [transport : Transports \cup {NoTransport},
                           attachment : Nat,
                           direction : {"none", "sendrecv", "stopped"}]]
NamesOf(infos) == {infos[x].transport : x \in Transceivers} \ {NoTransport}

IsSequence(s) == \E S : s \in Seq(S)

\* The tasks on a collection's way, by the thread they wait for.
OfCollection(task) == task.kind \in {"worker_result", "network_result"}
Carried == {k \in DOMAIN signaling : signaling[k].kind # "deliver"}
Collecting == {k \in DOMAIN network : network[k].kind = "collect"}

QueuesTyped ==
    /\ IsSequence(worker) /\ IsSequence(signaling) /\ IsSequence(network)
    /\ \A k \in DOMAIN worker : worker[k].infos \in Infos
    /\ \A k \in DOMAIN signaling :
          /\ OfCollection(signaling[k]) \/ signaling[k].kind = "deliver"
          /\ OfCollection(signaling[k]) => signaling[k].infos \in Infos
          /\ signaling[k].kind = "deliver" => signaling[k].request \in Asked
    /\ \A k \in DOMAIN network :
          /\ network[k].kind \in {"collect", "clear"}
          /\ network[k].kind = "collect" =>
                /\ network[k].infos \in Infos
                /\ network[k].names = NamesOf(network[k].infos)

RequestsTyped ==
    /\ asked \in Seq([filter : Filters, at : Nat, collection : Nat])
    /\ \A r \in Asked : asked[r].at <= now /\ asked[r].collection <= collections
    /\ requests_ \in Seq(Asked) /\ delivering \in Seq(Asked)
    /\ IsSequence(answers)
    /\ \A k \in DOMAIN answers : answers[k].request \in Asked

ContextTyped ==
    collection_context_ # None =>
        /\ collection_context_ = [started |-> collection_context_.started,
                                  partial |-> collection_context_.partial,
                                  undisturbed |-> collection_context_.undisturbed]
        /\ collection_context_.started \in Nat
        /\ collection_context_.undisturbed \in BOOLEAN

TypeInv ==
    /\ transceivers \in Infos /\ attachments \in Nat
    /\ now \in Nat /\ collections \in Nat /\ raced \in BOOLEAN
    /\ {signaling_alive, worker_alive, network_alive} \subseteq BOOLEAN
    /\ cache_timestamp_us_ \in Nat
    /\ signaling_alive => worker_alive /\ network_alive
    /\ QueuesTyped /\ RequestsTyped /\ ContextTyped

\* The objects of a report: what each may refer to, and what it must.
WellFormed(o) ==
    LET id == o.id
    IN  /\ id[1] \in {"S", "P", "AP", "D", "CF"} => o.refs = {}
        /\ id[1] = "T" =>
              o.refs \subseteq {CandidatePairId(id[2]), CertificateId(id[2]),
                                CertificateId("peer")}
        /\ id[1] = "CP" =>
              o.refs \subseteq {CandidateId("local", id[2]), CandidateId("remote", id[2]),
                                TransportId(id[2])}
        /\ id[1] = "I" /\ id[3] \in {"local", "remote"} =>
              o.refs \subseteq {TransportId(id[2])}
        /\ id[1] = "C" => o.refs \subseteq {TransportId(id[3])}
        /\ id[1] = "O" =>
              /\ {TransportId(id[2]), CodecId("O", id[2])} \subseteq o.refs
              /\ \A ref \in o.refs :
                    \/ ref \in {TransportId(id[2]), CodecId("O", id[2]),
                                RemoteInboundId(id[3], id[4])}
                    \/ ref[1] = "S"
        /\ id[1] = "I" /\ id[3] \in {"audio", "video"} =>
              /\ {TransportId(id[2]), CodecId("I", id[2])} \subseteq o.refs
              /\ o.refs \subseteq {TransportId(id[2]), CodecId("I", id[2]), Playout,
                                   RemoteOutboundId(id[3], id[4])}
        /\ id[1] = "RI" =>
              \E t \in Transports :
                 /\ OutboundId(t, id[2], id[3]) \in o.refs
                 /\ o.refs \subseteq {CodecId("O", t), TransportId(t),
                                      OutboundId(t, id[2], id[3])}
        /\ id[1] = "RO" =>
              \E t \in Transports :
                 /\ InboundId(t, id[2], id[3]) \in o.refs
                 /\ o.refs \subseteq {CodecId("I", t), TransportId(t),
                                      InboundId(t, id[2], id[3])}

\* A report misses nothing but what may have gone meanwhile.
Resolves(objects, undisturbed) ==
    /\ \A id \in Dangling(objects) : id[1] \in {"T", "S"}
    /\ undisturbed => Dangling(objects) = {}
Good(report) ==
    /\ \A o \in report.objects : WellFormed(o)
    /\ Resolves(report.objects, report.undisturbed)

\* What is in a queue, and what is on its way of a collection.
Held(queue) == {queue[k] : k \in DOMAIN queue}
Results == {task \in Held(signaling) : OfCollection(task)}
NetworkResults == {task \in Held(signaling) : task.kind = "network_result"}
Collects == {task \in Held(network) : task.kind = "collect"}

\* While nothing changed, a collection carries what is there.
CarriesCurrent ==
    collection_context_ # None /\ collection_context_.undisturbed =>
        /\ \A task \in Held(worker) \cup Results \cup Collects : task.infos = transceivers
        /\ \A task \in NetworkResults : task.transports = Existing

\* The first part of a report has what the second one refers to.
Supplies(partial, undisturbed, infos) ==
    /\ \A x \in Audio : ~Stopped(infos[x]) => Object(Playout, {}) \in partial
    /\ undisturbed =>
          \A x \in Transceivers :
             ~Stopped(infos[x]) /\ infos[x].attachment # 0 =>
                Object(MediaSourceId(infos[x].attachment), {}) \in partial
PartialSupplies ==
    collection_context_ # None =>
        /\ \A o \in collection_context_.partial : WellFormed(o) /\ o.refs = {}
        /\ \A task \in NetworkResults \cup Collects :
              Supplies(collection_context_.partial, collection_context_.undisturbed,
                       task.infos)

\* Unless a negotiation fell into it, a collection asks for all transports there
\* are, and finds certificates of all of them or none, once the network thread has
\* cleared what it was told to.
ClearedFirst ==
    \E k \in DOMAIN network :
       network[k].kind = "clear" /\ \A j \in 1..(k - 1) : network[j].kind # "collect"
CertificatesCurrent ==
    ~raced =>
        /\ \A task \in Held(worker) \cup Results \cup Collects :
              Existing \subseteq NamesOf(task.infos)
        /\ \A task \in NetworkResults : task.transports \subseteq task.certified
        /\ network_alive => \/ cached_certificates_by_transport_ = {}
                            \/ Existing \subseteq cached_certificates_by_transport_
                            \/ ClearedFirst

\* What is delivered is good, and fresh enough for who gets it.
FreshFor(request, report) ==
    \/ report.collection > asked[request].collection
    \/ asked[request].at - report.started <= cache_lifetime_us_
ReportsGood ==
    /\ cached_report_ # None =>
          Good(cached_report_) /\ cached_report_.started = cache_timestamp_us_
    /\ \A task \in Held(signaling) :
          task.kind = "deliver" =>
             Good(task.report) /\ FreshFor(task.request, task.report)
    /\ \A request \in Held(delivering) :
          Good(cached_report_) /\ FreshFor(request, cached_report_)
AnswersGood ==
    \A answer \in Held(answers) :
       /\ \A id \in answer.missing : id[1] \in {"T", "S"}
       /\ answer.undisturbed => answer.missing = {}
       /\ FreshFor(answer.request, answer)

IInv == /\ TypeInv /\ RequestsAccounted
        /\ CarriesCurrent /\ PartialSupplies /\ CertificatesCurrent
        /\ ReportsGood /\ AnswersGood
-----------------------------------------------------------------------------
(* Sequences, and how many members of one are of a kind.                    *)

\* A task is posted at the end of a queue.
LEMMA AppendFacts ==
    ASSUME NEW s, NEW e, IsSequence(s)
    PROVE  /\ IsSequence(Append(s, e))
           /\ Len(s) \in Nat /\ DOMAIN s = 1..Len(s)
           /\ DOMAIN Append(s, e) = 1..(Len(s) + 1)
           /\ Len(Append(s, e)) = Len(s) + 1
           /\ Append(s, e)[Len(s) + 1] = e
           /\ \A k \in DOMAIN s : Append(s, e)[k] = s[k]
<1>1. PICK S : s \in Seq(S)
  BY DEF IsSequence
<1>2. s \in Seq(S \cup {e}) /\ e \in S \cup {e}
  BY <1>1
<1>3. Append(s, e) \in Seq(S \cup {e})
  BY <1>2
<1> QED BY <1>2, <1>3 DEF IsSequence

\* A task is taken from its head.
LEMMA TailFacts ==
    ASSUME NEW s, IsSequence(s), s # <<>>
    PROVE  /\ IsSequence(Tail(s))
           /\ Len(s) \in Nat \ {0} /\ DOMAIN s = 1..Len(s) /\ 1 \in DOMAIN s
           /\ DOMAIN Tail(s) = 1..(Len(s) - 1)
           /\ Len(Tail(s)) = Len(s) - 1
           /\ Head(s) = s[1]
           /\ \A k \in DOMAIN Tail(s) : k + 1 \in DOMAIN s /\ Tail(s)[k] = s[k + 1]
<1>1. PICK S : s \in Seq(S)
  BY DEF IsSequence
<1>2. Tail(s) \in Seq(S)
  BY <1>1
<1> QED BY <1>1, <1>2 DEF IsSequence

LEMMA MemberTyped ==
    ASSUME NEW S, NEW s \in Seq(S), NEW k \in DOMAIN s
    PROVE  s[k] \in S
  OBVIOUS

\* Positions of a sequence are finitely many.
LEMMA PositionsFinite ==
    ASSUME NEW s, IsSequence(s), NEW H \in SUBSET (DOMAIN s)
    PROVE  IsFiniteSet(H) /\ Cardinality(H) \in Nat /\ (Cardinality(H) = 0 <=> H = {})
<1>1. Len(s) \in Nat /\ DOMAIN s = 1..Len(s)
  BY AppendFacts
<1>2. IsFiniteSet(1..Len(s))
  BY <1>1, FS_Interval
<1>3. IsFiniteSet(H)
  BY <1>1, <1>2, FS_Subset
<1> QED BY <1>3, FS_CardinalityType, FS_EmptySet

\* A member more at the end.
LEMMA CountAppend ==
    ASSUME NEW s, NEW e, IsSequence(s),
           NEW H \in SUBSET (DOMAIN s), NEW G \in SUBSET (DOMAIN Append(s, e)),
           \A k \in DOMAIN s : k \in G <=> k \in H
    PROVE  Cardinality(G) = Cardinality(H) + (IF Len(s) + 1 \in G THEN 1 ELSE 0)
<1>1. Len(s) \in Nat /\ DOMAIN s = 1..Len(s) /\ DOMAIN Append(s, e) = 1..(Len(s) + 1)
  BY AppendFacts
<1>2. IsFiniteSet(H) /\ Cardinality(H) \in Nat /\ Len(s) + 1 \notin H
  BY <1>1, PositionsFinite
<1>3. CASE Len(s) + 1 \in G
  <2>1. G = H \cup {Len(s) + 1}
    BY <1>1, <1>3
  <2> QED BY <2>1, <1>2, <1>3, FS_AddElement
<1>4. CASE Len(s) + 1 \notin G
  <2>1. G = H
    BY <1>1, <1>4
  <2> QED BY <2>1, <1>2, <1>4
<1> QED BY <1>3, <1>4

\* A member less at the head.
LEMMA CountTail ==
    ASSUME NEW s, IsSequence(s), s # <<>>,
           NEW H \in SUBSET (DOMAIN s), NEW G \in SUBSET (DOMAIN Tail(s)),
           \A k \in DOMAIN Tail(s) : k \in G <=> k + 1 \in H
    PROVE  Cardinality(H) = Cardinality(G) + (IF 1 \in H THEN 1 ELSE 0)
<1> DEFINE shift == [k \in G |-> k + 1]
           Rest == H \ {1}
<1>1. /\ Len(s) \in Nat \ {0} /\ DOMAIN s = 1..Len(s)
      /\ DOMAIN Tail(s) = 1..(Len(s) - 1) /\ IsSequence(Tail(s))
  BY TailFacts
<1>2. /\ IsFiniteSet(H) /\ IsFiniteSet(G)
      /\ Cardinality(H) \in Nat /\ Cardinality(G) \in Nat
  BY <1>1, PositionsFinite
<1>3. shift \in Bijection(G, Rest)
  <2>1. \A k \in G : k \in Nat /\ k + 1 \in Rest
    BY <1>1
  <2>2. shift \in Injection(G, Rest)
    <3>1. shift \in [G -> Rest]
      BY <2>1
    <3>2. \A j, k \in G : shift[j] = shift[k] => j = k
      BY <2>1
    <3> QED BY <3>1, <3>2 DEF Injection, IsInjective
  <2>3. \A n \in Rest : \E k \in G : shift[k] = n
    <3> SUFFICES ASSUME NEW n \in Rest PROVE \E k \in G : shift[k] = n
      OBVIOUS
    <3>1. n - 1 \in DOMAIN Tail(s) /\ (n - 1) + 1 = n
      BY <1>1
    <3>2. n - 1 \in G
      BY <3>1
    <3> QED BY <3>1, <3>2
  <2>4. shift \in Surjection(G, Rest)
    BY <2>2, <2>3 DEF Injection, Surjection
  <2> QED BY <2>2, <2>4 DEF Bijection
<1>4. IsFiniteSet(Rest) /\ Cardinality(Rest) = Cardinality(G)
  <2>1. ExistsBijection(G, Rest)
    BY <1>3 DEF ExistsBijection
  <2>2. IsFiniteSet(Rest)
    BY <1>2, FS_Subset
  <2> QED BY <1>2, <2>1, <2>2, FS_Bijection
<1>5. CASE 1 \in H
  BY <1>2, <1>4, <1>5, FS_RemoveElement
<1>6. CASE 1 \notin H
  <2>1. Rest = H
    BY <1>6
  <2>2. Cardinality(Rest) = Cardinality(H)
    BY <2>1, Zenon
  <2> QED BY <1>2, <1>4, <1>6, <2>2
<1> QED BY <1>5, <1>6

-----------------------------------------------------------------------------
(* Where requests and collections are.                                      *)

Waiting(r) == {k \in DOMAIN requests_ : requests_[k] = r}
InLoop(r) == {k \in DOMAIN delivering : delivering[k] = r}
Posted(r) ==
    {k \in DOMAIN signaling : signaling[k].kind = "deliver" /\ signaling[k].request = r}
Given(r) == {k \in DOMAIN answers : answers[k].request = r}

LEMMA PlacesCounted ==
    ASSUME NEW r
    PROVE  Places(r) = Cardinality(Waiting(r)) + Cardinality(InLoop(r))
                       + Cardinality(Posted(r)) + Cardinality(Given(r))
  BY DEF Places, Count, Waiting, InLoop, Posted, Given

LEMMA InFlightCounted ==
    InFlight = Len(worker) + Cardinality(Carried) + Cardinality(Collecting)
  BY DEF InFlight, Count, Carried, Collecting

\* The sequences of requests are sequences.
LEMMA QueuesAreSequences ==
    ASSUME TypeInv
    PROVE  /\ IsSequence(worker) /\ IsSequence(signaling) /\ IsSequence(network)
           /\ IsSequence(requests_) /\ IsSequence(delivering) /\ IsSequence(answers)
  BY DEF TypeInv, QueuesTyped, RequestsTyped, IsSequence

\* All these numbers are natural, and none is of a request that nobody made.
LEMMA PlacesTyped ==
    ASSUME TypeInv
    PROVE  /\ Cardinality(Carried) \in Nat /\ Cardinality(Collecting) \in Nat
           /\ Len(worker) \in Nat /\ InFlight \in Nat
           /\ \A r : /\ Cardinality(Waiting(r)) \in Nat /\ Cardinality(InLoop(r)) \in Nat
                     /\ Cardinality(Posted(r)) \in Nat /\ Cardinality(Given(r)) \in Nat
                     /\ Places(r) \in Nat
           /\ \A r : r \notin Asked => Places(r) = 0
<1>1. /\ Cardinality(Carried) \in Nat /\ Cardinality(Collecting) \in Nat
      /\ Len(worker) \in Nat
  BY QueuesAreSequences, PositionsFinite, AppendFacts DEF Carried, Collecting
<1>2. ASSUME NEW r
      PROVE  /\ Cardinality(Waiting(r)) \in Nat /\ Cardinality(InLoop(r)) \in Nat
             /\ Cardinality(Posted(r)) \in Nat /\ Cardinality(Given(r)) \in Nat
  BY QueuesAreSequences, PositionsFinite DEF Waiting, InLoop, Posted, Given
<1>3. ASSUME NEW r, r \notin Asked PROVE Places(r) = 0
  <2>1. Waiting(r) = {} /\ InLoop(r) = {} /\ Posted(r) = {} /\ Given(r) = {}
    BY <1>3 DEF TypeInv, RequestsTyped, QueuesTyped, Waiting, InLoop, Posted, Given
  <2>2. /\ Cardinality(Waiting(r)) = 0 /\ Cardinality(InLoop(r)) = 0
        /\ Cardinality(Posted(r)) = 0 /\ Cardinality(Given(r)) = 0
    BY <2>1, FS_EmptySet, Zenon
  <2> QED BY <2>2, PlacesCounted
<1>4. InFlight \in Nat
  BY <1>1, InFlightCounted
<1>5. ASSUME NEW r PROVE Places(r) \in Nat
  BY <1>2, PlacesCounted
<1> QED BY <1>1, <1>2, <1>3, <1>4, <1>5

\* While nothing is under way, there is no task of a collection.
LEMMA NothingInFlight ==
    ASSUME TypeInv, RequestsAccounted, signaling_alive, collection_context_ = None
    PROVE  /\ worker = <<>> /\ \A k \in DOMAIN worker : FALSE
           /\ \A k \in DOMAIN signaling : signaling[k].kind = "deliver"
           /\ \A k \in DOMAIN network : network[k].kind = "clear"
<1>1. Len(worker) = 0 /\ Cardinality(Carried) = 0 /\ Cardinality(Collecting) = 0
  BY PlacesTyped, InFlightCounted DEF RequestsAccounted
<1>2. Carried = {} /\ Collecting = {}
  BY <1>1, QueuesAreSequences, PositionsFinite DEF Carried, Collecting
<1>3. worker = <<>>
  BY <1>1 DEF TypeInv, QueuesTyped, IsSequence
<1> QED BY <1>2, <1>3 DEF Carried, Collecting, TypeInv, QueuesTyped, OfCollection

\* A task of a collection finds its context.
LEMMA ContextThere ==
    ASSUME TypeInv, RequestsAccounted, signaling_alive,
           \/ \E k \in DOMAIN signaling : signaling[k].kind # "deliver"
           \/ \E k \in DOMAIN network : network[k].kind = "collect"
           \/ worker # <<>>
    PROVE  collection_context_ # None
  BY NothingInFlight

-----------------------------------------------------------------------------
(* Types.                                                                   *)

\* A context is not the empty optional, nor does changing its fields empty it.
LEMMA NotNone ==
    ASSUME NEW a, NEW b, NEW c
    PROVE  /\ [started |-> a, partial |-> b, undisturbed |-> c] # None
           /\ [[started |-> a, partial |-> b, undisturbed |-> c] EXCEPT !.partial = b] # None
<1>1. "started" \in DOMAIN [started |-> a, partial |-> b, undisturbed |-> c]
  OBVIOUS
<1>2. "started" \notin DOMAIN None
  BY DEF None
<1> QED BY <1>1, <1>2

LEMMA ContextChanged ==
    ASSUME NEW c, NEW p, NEW u,
           c = [started |-> c.started, partial |-> c.partial, undisturbed |-> c.undisturbed]
    PROVE  /\ [c EXCEPT !.partial = p] =
                 [started |-> c.started, partial |-> p, undisturbed |-> c.undisturbed]
           /\ [c EXCEPT !.undisturbed = u] =
                 [started |-> c.started, partial |-> c.partial, undisturbed |-> u]
           /\ [c EXCEPT !.partial = p] # None /\ [c EXCEPT !.undisturbed = u] # None
           /\ c # None
<1>1. /\ [c EXCEPT !.partial = p] =
            [started |-> c.started, partial |-> p, undisturbed |-> c.undisturbed]
      /\ [c EXCEPT !.undisturbed = u] =
            [started |-> c.started, partial |-> c.partial, undisturbed |-> u]
  OBVIOUS
<1> QED BY <1>1, NotNone

\* What Disturb leaves of the context.
LEMMA DisturbedContext ==
    ASSUME ContextTyped, Disturb
    PROVE  /\ collection_context_' = None <=> collection_context_ = None
           /\ collection_context_ # None =>
                 collection_context_' = [started |-> collection_context_.started,
                                         partial |-> collection_context_.partial,
                                         undisturbed |-> FALSE]
<1>1. CASE collection_context_ = None
  BY <1>1 DEF Disturb
<1>2. CASE collection_context_ # None
  BY <1>2, ContextChanged DEF Disturb, ContextTyped
<1> QED BY <1>1, <1>2

LEMMA InitTypes == Init => TypeInv
<1> SUFFICES ASSUME Init PROVE TypeInv
  OBVIOUS
<1>1. transceivers \in Infos
  <2>1. PICK transports \in Negotiated :
          transceivers = [x \in Transceivers |->
             [transport |-> transports[x], attachment |-> 0,
              direction |-> IF transports[x] = NoTransport THEN "none" ELSE "sendrecv"]]
    BY DEF Init
  <2>2. transports \in [Transceivers -> Transports \cup {NoTransport}]
    BY <2>1, CollectorConstants DEF NoTransport
  <2> QED BY <2>1, <2>2 DEF Infos
<1>2. QueuesTyped
  BY DEF Init, QueuesTyped, IsSequence
<1>3. RequestsTyped
  BY DEF Init, RequestsTyped, IsSequence, Asked
<1>4. ContextTyped
  BY DEF Init, ContextTyped
<1> QED BY <1>1, <1>2, <1>3, <1>4 DEF Init, TypeInv

\* The queues keep their types when tasks of those types are posted and taken.
LEMMA PostedTyped ==
    ASSUME TypeInv, NEW task,
           OfCollection(task) \/ task.kind = "deliver",
           OfCollection(task) => task.infos \in Infos,
           task.kind = "deliver" => task.request \in Asked'
    PROVE  /\ IsSequence(Append(signaling, task))
           /\ Asked \subseteq Asked' =>
              \A k \in DOMAIN Append(signaling, task) :
              LET t == Append(signaling, task)[k]
              IN  /\ OfCollection(t) \/ t.kind = "deliver"
                  /\ OfCollection(t) => t.infos \in Infos
                  /\ t.kind = "deliver" => t.request \in Asked'
<1>1. /\ IsSequence(Append(signaling, task)) /\ DOMAIN signaling = 1..Len(signaling)
      /\ DOMAIN Append(signaling, task) = 1..(Len(signaling) + 1)
      /\ Len(signaling) \in Nat
      /\ Append(signaling, task)[Len(signaling) + 1] = task
      /\ \A k \in DOMAIN signaling : Append(signaling, task)[k] = signaling[k]
  BY QueuesAreSequences, AppendFacts
<1>2. ASSUME Asked \subseteq Asked', NEW k \in DOMAIN Append(signaling, task)
      PROVE  LET t == Append(signaling, task)[k]
             IN  /\ OfCollection(t) \/ t.kind = "deliver"
                 /\ OfCollection(t) => t.infos \in Infos
                 /\ t.kind = "deliver" => t.request \in Asked'
  <2>1. CASE k = Len(signaling) + 1
    BY <2>1, <1>1
  <2>2. CASE k \in DOMAIN signaling
    BY <2>2, <1>1, <1>2 DEF TypeInv, QueuesTyped
  <2> QED BY <1>1, <1>2, <2>1, <2>2
<1> QED BY <1>1, <1>2

\* The rest of a queue is typed as the queue was.
LEMMA TakenTyped ==
    ASSUME TypeInv, signaling # <<>>, signaling' = Tail(signaling), Asked \subseteq Asked'
    PROVE  /\ IsSequence(signaling)'
           /\ \A k \in DOMAIN signaling' :
                 /\ OfCollection(signaling'[k]) \/ signaling'[k].kind = "deliver"
                 /\ OfCollection(signaling'[k]) => signaling'[k].infos \in Infos
                 /\ signaling'[k].kind = "deliver" => signaling'[k].request \in Asked'
<1>1. /\ IsSequence(Tail(signaling))
      /\ \A k \in DOMAIN Tail(signaling) :
            k + 1 \in DOMAIN signaling /\ Tail(signaling)[k] = signaling[k + 1]
  BY QueuesAreSequences, TailFacts
<1>2. IsSequence(signaling)'
  BY <1>1 DEF IsSequence
<1> QED BY <1>1, <1>2 DEF TypeInv, QueuesTyped

\* A request is numbered after those before it.
LEMMA AskedGrows ==
    ASSUME TypeInv, GetStatsReportInternal
    PROVE  /\ Asked = 1..Len(asked) /\ Len(asked) \in Nat
           /\ Asked' = 1..(Len(asked) + 1) /\ Asked \subseteq Asked'
           /\ asked' \in Seq([filter : Filters, at : Nat, collection : Nat])
           /\ \A r \in Asked : asked'[r] = asked[r]
           /\ asked'[Len(asked) + 1].at = now
           /\ asked'[Len(asked) + 1].collection = collections
<1>1. PICK filter \in Filters :
        asked' = Append(asked, [filter |-> filter, at |-> now, collection |-> collections])
  BY DEF GetStatsReportInternal
<1>2. asked \in Seq([filter : Filters, at : Nat, collection : Nat])
  BY DEF TypeInv, RequestsTyped
<1>3. [filter |-> filter, at |-> now, collection |-> collections]
         \in [filter : Filters, at : Nat, collection : Nat]
  BY DEF TypeInv
<1>4. asked' \in Seq([filter : Filters, at : Nat, collection : Nat])
  BY <1>1, <1>2, <1>3
<1>5. Len(asked') = Len(asked) + 1 /\ Len(asked) \in Nat
  BY <1>1, <1>2
<1>6. \A r \in 1..Len(asked) : asked'[r] = asked[r]
  BY <1>1, <1>2
<1>7. asked'[Len(asked) + 1] = [filter |-> filter, at |-> now, collection |-> collections]
  BY <1>1, <1>2
<1>8. Asked = 1..Len(asked) /\ Asked' = 1..(Len(asked) + 1)
  BY <1>2, <1>4, <1>5 DEF Asked
<1> QED BY <1>4, <1>5, <1>6, <1>7, <1>8

LEMMA GetStatsKeepsTypes ==
    ASSUME TypeInv, GetStatsReportInternal
    PROVE  TypeInv'
<1> DEFINE request == Len(asked) + 1
           task == [kind |-> "deliver", request |-> request, report |-> cached_report_]
<1>1. RequestsTyped'
  <2>1. \A r \in Asked' : asked'[r].at <= now /\ asked'[r].collection <= collections
    <3>1. ASSUME NEW r \in Asked
          PROVE  asked[r].at <= now /\ asked[r].collection <= collections
      BY <3>1 DEF TypeInv, RequestsTyped
    <3>2. now <= now /\ collections <= collections
      BY DEF TypeInv
    <3>3. \A r \in Asked' : r \in Asked \/ r = request
      BY AskedGrows
    <3> QED BY <3>1, <3>2, <3>3, AskedGrows
  <2>2. requests_' = requests_ \/ requests_' = Append(requests_, request)
    BY DEF GetStatsReportInternal
  <2>3. request \in Asked'
    BY AskedGrows
  <2>4. requests_ \in Seq(Asked') /\ delivering \in Seq(Asked')
    BY AskedGrows DEF TypeInv, RequestsTyped
  <2>5. requests_' \in Seq(Asked')
    BY <2>2, <2>3, <2>4
  <2>6. UNCHANGED <<delivering, answers, now, collections>>
    BY DEF GetStatsReportInternal
  <2> QED BY <2>1, <2>4, <2>5, <2>6, AskedGrows DEF TypeInv, RequestsTyped, IsSequence
<1>2. QueuesTyped'
  <2>1. network' = network /\ IsSequence(network)'
    BY DEF GetStatsReportInternal, TypeInv, QueuesTyped, IsSequence
  <2>2. /\ IsSequence(worker)'
        /\ \A k \in DOMAIN worker' : worker'[k].infos \in Infos
    <3>1. CASE worker' = worker
      BY <3>1 DEF TypeInv, QueuesTyped, IsSequence
    <3>2. CASE worker' = Append(worker, [infos |-> transceivers])
      <4>1. /\ IsSequence(worker')
            /\ DOMAIN worker' = 1..(Len(worker) + 1) /\ DOMAIN worker = 1..Len(worker)
            /\ worker'[Len(worker) + 1] = [infos |-> transceivers]
            /\ \A k \in DOMAIN worker : worker'[k] = worker[k]
            /\ Len(worker) \in Nat
        BY <3>2, QueuesAreSequences, AppendFacts
      <4> QED BY <4>1 DEF TypeInv, QueuesTyped, IsSequence
    <3> QED BY <3>1, <3>2 DEF GetStatsReportInternal, PostTo,
                             PrepareTransceiverStatsInfosAndCallStats_s_w
  <2>3. CASE signaling' = signaling
    <3>1. \A k \in DOMAIN signaling' :
             signaling'[k].kind = "deliver" => signaling'[k].request \in Asked'
      BY <2>3, AskedGrows DEF TypeInv, QueuesTyped
    <3>2. IsSequence(signaling)'
      BY <2>3 DEF TypeInv, QueuesTyped, IsSequence
    <3> QED BY <2>1, <2>2, <2>3, <3>1, <3>2 DEF TypeInv, QueuesTyped
  <2>4. CASE signaling' = Append(signaling, task)
    <3>1. OfCollection(task) \/ task.kind = "deliver"
      OBVIOUS
    <3>2. ~OfCollection(task) /\ task.request \in Asked'
      BY AskedGrows DEF OfCollection
    <3>3. /\ IsSequence(signaling')
          /\ \A k \in DOMAIN signaling' :
              /\ OfCollection(signaling'[k]) \/ signaling'[k].kind = "deliver"
              /\ OfCollection(signaling'[k]) => signaling'[k].infos \in Infos
              /\ signaling'[k].kind = "deliver" => signaling'[k].request \in Asked'
      <4> HIDE DEF task
      <4> QED BY <2>4, <3>1, <3>2, PostedTyped, AskedGrows
    <3> QED BY <2>1, <2>2, <3>3 DEF TypeInv, QueuesTyped, IsSequence
  <2> QED BY <2>3, <2>4 DEF GetStatsReportInternal, PostTo
<1>3. ContextTyped'
  <2>1. CASE collection_context_' = collection_context_
    BY <2>1 DEF TypeInv, ContextTyped
  <2>2. CASE collection_context_' = [started |-> now, partial |-> {}, undisturbed |-> TRUE]
    BY <2>2 DEF TypeInv, ContextTyped
  <2> QED BY <2>1, <2>2 DEF GetStatsReportInternal
<1> QED BY <1>1, <1>2, <1>3 DEF TypeInv, GetStatsReportInternal, peer, cache, alive

\* Requests and their kinds keep their types when no request is made.
LEMMA RequestsStayTyped ==
    ASSUME TypeInv, asked' = asked, now' >= now, collections' >= collections,
           now' \in Nat, collections' \in Nat,
           UNCHANGED <<requests_, delivering, answers>>
    PROVE  RequestsTyped'
<1>1. ASSUME NEW r \in Asked
      PROVE  asked[r].at <= now' /\ asked[r].collection <= collections'
  <2>1. asked[r].at \in Nat /\ asked[r].collection \in Nat
    <3>1. asked \in Seq([filter : Filters, at : Nat, collection : Nat]) /\ r \in DOMAIN asked
      BY DEF TypeInv, RequestsTyped, Asked
    <3>2. asked[r] \in [filter : Filters, at : Nat, collection : Nat]
      BY <3>1, MemberTyped
    <3> QED BY <3>2
  <2>2. asked[r].at <= now /\ asked[r].collection <= collections
    BY DEF TypeInv, RequestsTyped
  <2> QED BY <2>1, <2>2 DEF TypeInv
<1>2. Asked' = Asked
  BY DEF Asked
<1> QED BY <1>1, <1>2 DEF TypeInv, RequestsTyped, IsSequence

\* A task that is posted for the signaling thread.
LEMMA PostKeepsTypes ==
    ASSUME TypeInv, NEW task, UNCHANGED asked,
           signaling' = Append(signaling, task), OfCollection(task), task.infos \in Infos
    PROVE  /\ IsSequence(signaling)'
           /\ \A k \in DOMAIN signaling' :
                 /\ OfCollection(signaling'[k]) \/ signaling'[k].kind = "deliver"
                 /\ OfCollection(signaling'[k]) => signaling'[k].infos \in Infos
                 /\ signaling'[k].kind = "deliver" => signaling'[k].request \in Asked'
<1>1. Asked' = Asked /\ (task.kind = "deliver" => task.request \in Asked')
  BY DEF Asked, OfCollection
<1>2. IsSequence(Append(signaling, task))
  BY QueuesAreSequences, AppendFacts
<1> QED BY <1>1, <1>2, PostedTyped DEF IsSequence

LEMMA WorkerKeepsTypes ==
    ASSUME TypeInv, WorkerTask
    PROVE  TypeInv'
<1> DEFINE task == [kind |-> "worker_result", infos |-> Head(worker).infos]
<1>1. worker # <<>> /\ worker' = Tail(worker)
  BY DEF WorkerTask
<1>2. /\ IsSequence(worker) /\ IsSequence(Tail(worker)) /\ Head(worker) = worker[1]
      /\ 1 \in DOMAIN worker
      /\ \A k \in DOMAIN Tail(worker) :
            k + 1 \in DOMAIN worker /\ Tail(worker)[k] = worker[k + 1]
  BY <1>1, QueuesAreSequences, TailFacts
<1>3. /\ IsSequence(worker)'
      /\ \A k \in DOMAIN worker' : worker'[k].infos \in Infos
  BY <1>1, <1>2 DEF TypeInv, QueuesTyped, IsSequence
<1>4. /\ IsSequence(signaling)'
      /\ \A k \in DOMAIN signaling' :
            /\ OfCollection(signaling'[k]) \/ signaling'[k].kind = "deliver"
            /\ OfCollection(signaling'[k]) => signaling'[k].infos \in Infos
            /\ signaling'[k].kind = "deliver" => signaling'[k].request \in Asked'
  <2>1. CASE signaling' = signaling
    BY <2>1 DEF WorkerTask, TypeInv, QueuesTyped, IsSequence, Asked
  <2>2. CASE signaling' = Append(signaling, task)
    <3>1. OfCollection(task) /\ task.infos \in Infos
      BY <1>2 DEF TypeInv, QueuesTyped, OfCollection
    <3>2. asked' = asked
      BY DEF WorkerTask
    <3> HIDE DEF task
    <3> QED BY <2>2, <3>1, <3>2, PostKeepsTypes
  <2> QED BY <2>1, <2>2 DEF WorkerTask, PostTo
<1>5. UNCHANGED <<network, asked, requests_, delivering, answers, now, collections>>
  BY DEF WorkerTask
<1>6. QueuesTyped'
  BY <1>3, <1>4, <1>5 DEF TypeInv, QueuesTyped, IsSequence
<1>7. RequestsTyped'
  BY <1>5, RequestsStayTyped DEF TypeInv
<1>8. ContextTyped'
  BY DEF WorkerTask, TypeInv, ContextTyped
<1> QED BY <1>6, <1>7, <1>8 DEF TypeInv, WorkerTask, peer, cache, alive

LEMMA PartialKeepsTypes ==
    ASSUME TypeInv, ProducePartialResultsOnSignalingThread, collection_context_ # None
    PROVE  TypeInv'
<1> DEFINE infos == Head(signaling).infos
           task == [kind |-> "collect", infos |-> infos,
                    names |-> {infos[x].transport : x \in Transceivers} \ {NoTransport}]
<1>1. /\ signaling # <<>> /\ signaling' = Tail(signaling)
      /\ Head(signaling).kind = "worker_result"
      /\ UNCHANGED <<worker, asked, requests_, delivering, answers, now, collections>>
  BY DEF ProducePartialResultsOnSignalingThread, Take
<1>2. Head(signaling) = signaling[1] /\ 1 \in DOMAIN signaling
  BY <1>1, QueuesAreSequences, TailFacts
<1>3. infos \in Infos
  BY <1>1, <1>2 DEF TypeInv, QueuesTyped, OfCollection
<1>4. network' = Append(network, task)
  BY DEF ProducePartialResultsOnSignalingThread, PostTo
<1>5. /\ IsSequence(network)'
      /\ \A k \in DOMAIN network' :
            /\ network'[k].kind \in {"collect", "clear"}
            /\ network'[k].kind = "collect" =>
                  /\ network'[k].infos \in Infos
                  /\ network'[k].names = NamesOf(network'[k].infos)
  <2>1. task.kind = "collect" /\ task.infos \in Infos /\ task.names = NamesOf(task.infos)
    BY <1>3 DEF NamesOf
  <2> HIDE DEF task
  <2>2. /\ IsSequence(network')
        /\ DOMAIN network' = 1..(Len(network) + 1) /\ DOMAIN network = 1..Len(network)
        /\ network'[Len(network) + 1] = task /\ Len(network) \in Nat
        /\ \A k \in DOMAIN network : network'[k] = network[k]
    BY <1>4, QueuesAreSequences, AppendFacts
  <2> QED BY <2>1, <2>2 DEF TypeInv, QueuesTyped, IsSequence
<1>6. QueuesTyped'
  <2>1. Asked' = Asked
    BY <1>1 DEF Asked
  <2> QED BY <1>1, <1>5, <2>1, TakenTyped DEF TypeInv, QueuesTyped, IsSequence
<1>7. RequestsTyped'
  BY <1>1, RequestsStayTyped DEF TypeInv
<1>8. ContextTyped'
  <2>1. PICK p : collection_context_' = [collection_context_ EXCEPT !.partial = p]
    BY DEF ProducePartialResultsOnSignalingThread
  <2>2. collection_context_ = [started |-> collection_context_.started,
                               partial |-> collection_context_.partial,
                               undisturbed |-> collection_context_.undisturbed]
    BY DEF TypeInv, ContextTyped
  <2>3. collection_context_' = [started |-> collection_context_.started, partial |-> p,
                                undisturbed |-> collection_context_.undisturbed]
    BY <2>1, <2>2, ContextChanged
  <2> QED BY <2>3 DEF TypeInv, ContextTyped
<1> QED BY <1>6, <1>7, <1>8 DEF TypeInv, ProducePartialResultsOnSignalingThread, peer,
                                cache, alive

LEMMA NetworkKeepsTypes ==
    ASSUME TypeInv, ProducePartialResultsOnNetworkThread \/ ClearCertificates
    PROVE  TypeInv'
<1>1. /\ network # <<>> /\ network' = Tail(network)
      /\ UNCHANGED <<worker, asked, requests_, delivering, answers, now, collections,
                     collection_context_, peer, cache, alive>>
  BY DEF ProducePartialResultsOnNetworkThread, ClearCertificates
<1>2. /\ IsSequence(Tail(network)) /\ Head(network) = network[1] /\ 1 \in DOMAIN network
      /\ \A k \in DOMAIN Tail(network) :
            k + 1 \in DOMAIN network /\ Tail(network)[k] = network[k + 1]
  BY <1>1, QueuesAreSequences, TailFacts
<1>3. /\ IsSequence(network)'
      /\ \A k \in DOMAIN network' :
            /\ network'[k].kind \in {"collect", "clear"}
            /\ network'[k].kind = "collect" =>
                  /\ network'[k].infos \in Infos
                  /\ network'[k].names = NamesOf(network'[k].infos)
  BY <1>1, <1>2 DEF TypeInv, QueuesTyped, IsSequence
<1>4. /\ IsSequence(signaling)'
      /\ \A k \in DOMAIN signaling' :
            /\ OfCollection(signaling'[k]) \/ signaling'[k].kind = "deliver"
            /\ OfCollection(signaling'[k]) => signaling'[k].infos \in Infos
            /\ signaling'[k].kind = "deliver" => signaling'[k].request \in Asked'
  <2>1. CASE signaling' = signaling
    BY <1>1, <2>1 DEF TypeInv, QueuesTyped, IsSequence, Asked
  <2>2. CASE \E transports, certified :
               /\ Head(network).kind = "collect"
               /\ signaling' = Append(signaling,
                    [kind |-> "network_result", infos |-> Head(network).infos,
                     transports |-> transports, certified |-> certified,
                     data |-> opened_data_channels])
    <3>1. PICK transports, certified :
               /\ Head(network).kind = "collect"
               /\ signaling' = Append(signaling,
                    [kind |-> "network_result", infos |-> Head(network).infos,
                     transports |-> transports, certified |-> certified,
                     data |-> opened_data_channels])
      BY <2>2
    <3> DEFINE task == [kind |-> "network_result", infos |-> Head(network).infos,
                        transports |-> transports, certified |-> certified,
                        data |-> opened_data_channels]
    <3>2. OfCollection(task) /\ task.infos \in Infos
      BY <3>1, <1>2 DEF TypeInv, QueuesTyped, OfCollection
    <3> HIDE DEF task
    <3> QED BY <1>1, <3>1, <3>2, PostKeepsTypes DEF task
  <2> QED BY <2>1, <2>2 DEF ProducePartialResultsOnNetworkThread, ClearCertificates, PostTo
<1>5. QueuesTyped'
  BY <1>1, <1>3, <1>4 DEF TypeInv, QueuesTyped, IsSequence
<1>6. RequestsTyped'
  BY <1>1, RequestsStayTyped DEF TypeInv
<1> QED BY <1>1, <1>5, <1>6 DEF TypeInv, ContextTyped, peer, cache, alive

LEMMA ReadyKeepsTypes ==
    ASSUME TypeInv, OnNetworkReportReady, collection_context_ # None
    PROVE  TypeInv'
<1>1. /\ signaling # <<>> /\ signaling' = Tail(signaling)
      /\ collection_context_' = None
      /\ cache_timestamp_us_' = collection_context_.started
      /\ delivering' = requests_ /\ requests_' = <<>> /\ collections' = collections + 1
      /\ UNCHANGED <<worker, network, asked, answers, now, peer, alive>>
  BY DEF OnNetworkReportReady, Take, CacheTime, ContextLeft, RequestsLeft
<1>2. Asked' = Asked
  BY <1>1 DEF Asked
<1>3. QueuesTyped'
  BY <1>1, <1>2, TakenTyped DEF TypeInv, QueuesTyped, IsSequence
<1>4. RequestsTyped'
  <2>1. ASSUME NEW r \in Asked PROVE asked[r].collection <= collections'
    <3>1. asked \in Seq([filter : Filters, at : Nat, collection : Nat]) /\ r \in DOMAIN asked
      BY DEF TypeInv, RequestsTyped, Asked
    <3>2. asked[r] \in [filter : Filters, at : Nat, collection : Nat]
      BY <3>1, MemberTyped
    <3>3. asked[r].collection <= collections
      BY DEF TypeInv, RequestsTyped
    <3> QED BY <1>1, <3>2, <3>3 DEF TypeInv
  <2>2. <<>> \in Seq(Asked)
    OBVIOUS
  <2> QED BY <1>1, <1>2, <2>1, <2>2 DEF TypeInv, RequestsTyped, IsSequence
<1>5. ContextTyped'
  BY <1>1 DEF ContextTyped
<1>6. cache_timestamp_us_' \in Nat /\ collections' \in Nat
  BY <1>1 DEF TypeInv, ContextTyped
<1> QED BY <1>1, <1>3, <1>4, <1>5, <1>6 DEF TypeInv, peer, alive

\* An answer is about a request.
LEMMA DeliverKeepsTypes ==
    ASSUME TypeInv, DeliverNext \/ DeliverTask
    PROVE  TypeInv'
<1>1. UNCHANGED <<worker, network, asked, requests_, now, collections, peer, alive,
                  collection_context_, cache>>
  BY DEF DeliverNext, DeliverTask, queues
<1>2. Asked' = Asked
  BY <1>1 DEF Asked
<1>3. \E request \in Asked : \E report : DeliverReport(request, report)
  <2>1. CASE DeliverNext
    <3>1. Head(delivering) \in Asked
      BY <2>1 DEF DeliverNext, TypeInv, RequestsTyped
    <3> QED BY <2>1, <3>1 DEF DeliverNext
  <2>2. CASE DeliverTask
    <3>1. signaling # <<>> /\ Head(signaling).kind = "deliver"
      BY <2>2 DEF DeliverTask, Take
    <3>2. Head(signaling) = signaling[1] /\ 1 \in DOMAIN signaling
      BY <3>1, QueuesAreSequences, TailFacts
    <3>3. Head(signaling).request \in Asked
      BY <3>1, <3>2 DEF TypeInv, QueuesTyped
    <3> QED BY <2>2, <3>3 DEF DeliverTask
  <2> QED BY <2>1, <2>2
<1>4. PICK answer : answers' = Append(answers, answer) /\ answer.request \in Asked
  <2>1. PICK request \in Asked : \E report : DeliverReport(request, report)
    BY <1>3
  <2>2. PICK report : DeliverReport(request, report)
    BY <2>1
  <2> QED BY <2>2 DEF DeliverReport
<1>5. /\ IsSequence(answers') /\ DOMAIN answers = 1..Len(answers)
      /\ DOMAIN answers' = 1..(Len(answers) + 1) /\ Len(answers) \in Nat
      /\ answers'[Len(answers) + 1] = answer
      /\ \A k \in DOMAIN answers : answers'[k] = answers[k]
  BY <1>4, QueuesAreSequences, AppendFacts
<1>6. delivering' \in Seq(Asked)
  <2>1. delivering \in Seq(Asked)
    BY DEF TypeInv, RequestsTyped
  <2>2. delivering' = delivering \/ (delivering # <<>> /\ delivering' = Tail(delivering))
    BY DEF DeliverNext, DeliverTask
  <2> QED BY <2>1, <2>2
<1>7. RequestsTyped'
  BY <1>1, <1>2, <1>4, <1>5, <1>6 DEF TypeInv, RequestsTyped, IsSequence
<1>8. QueuesTyped'
  <2>1. CASE signaling' = signaling
    BY <1>1, <1>2, <2>1 DEF TypeInv, QueuesTyped, IsSequence
  <2>2. CASE signaling # <<>> /\ signaling' = Tail(signaling)
    BY <1>1, <1>2, <2>2, TakenTyped DEF TypeInv, QueuesTyped, IsSequence
  <2> QED BY <2>1, <2>2 DEF DeliverNext, DeliverTask, Take, queues
<1> QED BY <1>1, <1>7, <1>8 DEF TypeInv, ContextTyped, peer, cache, alive

\* The other calls, the clock and the shutdown.
OtherCall ==
    \/ ClearCachedStatsReport \/ Negotiate \/ Stop \/ ReplaceTrack
    \/ OnSctpDataChannelStateChanged
    \/ CancelPendingRequestAndGetShutdownTasks \/ ShutdownTasks
    \/ Tick \/ UNCHANGED vars

LEMMA ChangedTransceivers ==
    ASSUME TypeInv, Negotiate \/ Stop \/ ReplaceTrack
    PROVE  transceivers' \in Infos
<1>1. CASE Negotiate
  <2>1. PICK x \in Transceivers, t \in Transports :
          transceivers' = [transceivers EXCEPT ![x].transport = t,
                                                ![x].direction = "sendrecv"]
    BY <1>1 DEF Negotiate
  <2> QED BY <2>1 DEF TypeInv, Infos
<1>2. CASE Stop
  <2>1. PICK x \in Transceivers :
          transceivers' = [transceivers EXCEPT ![x].transport = NoTransport,
                                                ![x].direction = "stopped"]
    BY <1>2 DEF Stop
  <2> QED BY <2>1 DEF TypeInv, Infos
<1>3. CASE ReplaceTrack
  <2>1. PICK x \in Transceivers, to \in {0, attachments + 1} :
          transceivers' = [transceivers EXCEPT ![x].attachment = to]
    BY <1>3 DEF ReplaceTrack
  <2>2. to \in Nat
    BY DEF TypeInv
  <2> QED BY <2>1, <2>2 DEF TypeInv, Infos
<1> QED BY <1>1, <1>2, <1>3

LEMMA OtherKeepsTypes ==
    ASSUME TypeInv, OtherCall
    PROVE  TypeInv'
<1>1. /\ UNCHANGED <<worker, signaling, asked, requests_, delivering, answers,
                     collections, cache_timestamp_us_>>
      /\ now' \in Nat /\ now' >= now
  BY DEF OtherCall, ClearCachedStatsReport, Negotiate, Stop, ReplaceTrack, Change, Clear,
     OnSctpDataChannelStateChanged, CancelPendingRequestAndGetShutdownTasks, queues,
     ShutdownTasks, Tick, vars, cache, TypeInv
<1>2. Asked' = Asked
  BY <1>1 DEF Asked
<1>3. RequestsTyped'
  BY <1>1, RequestsStayTyped DEF TypeInv
<1>4. transceivers' \in Infos /\ attachments' \in Nat /\ raced' \in BOOLEAN
  <2>1. CASE Negotiate \/ Stop \/ ReplaceTrack
    <3>1. attachments' \in Nat
      BY <2>1 DEF Negotiate, Stop, ReplaceTrack, TypeInv
    <3>2. raced' = raced \/ raced' = (raced \/ collection_context_ # None)
      BY <2>1 DEF Negotiate, Stop, ReplaceTrack
    <3>3. raced' \in BOOLEAN
      BY <3>2, Zenon DEF TypeInv
    <3> QED BY <2>1, <3>1, <3>3, ChangedTransceivers
  <2>2. CASE UNCHANGED peer
    BY <2>2 DEF peer, TypeInv
  <2> QED BY <2>1, <2>2 DEF OtherCall, ClearCachedStatsReport,
     OnSctpDataChannelStateChanged, CancelPendingRequestAndGetShutdownTasks,
     ShutdownTasks, Tick, vars
<1>5. ContextTyped'
  <2>1. CASE Disturb
    <3>1. SUFFICES ASSUME collection_context_' # None PROVE ContextTyped'
      BY DEF ContextTyped
    <3>2. /\ collection_context_ # None
          /\ collection_context_' = [started |-> collection_context_.started,
                                     partial |-> collection_context_.partial,
                                     undisturbed |-> FALSE]
      BY <2>1, <3>1, DisturbedContext DEF TypeInv
    <3> QED BY <3>2 DEF TypeInv, ContextTyped
  <2>2. CASE collection_context_' = collection_context_
    BY <2>2 DEF TypeInv, ContextTyped
  <2> QED BY <2>1, <2>2 DEF OtherCall, ClearCachedStatsReport, Negotiate, Stop,
     ReplaceTrack, OnSctpDataChannelStateChanged, CancelPendingRequestAndGetShutdownTasks,
     ShutdownTasks, Tick, vars
<1>6. /\ IsSequence(network)'
      /\ \A k \in DOMAIN network' :
            /\ network'[k].kind \in {"collect", "clear"}
            /\ network'[k].kind = "collect" =>
                  /\ network'[k].infos \in Infos
                  /\ network'[k].names = NamesOf(network'[k].infos)
  <2>1. CASE network' = network
    BY <2>1 DEF TypeInv, QueuesTyped, IsSequence
  <2>2. CASE network' = Append(network, [kind |-> "clear"])
    <3>1. /\ IsSequence(network')
          /\ DOMAIN network' = 1..(Len(network) + 1) /\ DOMAIN network = 1..Len(network)
          /\ network'[Len(network) + 1] = [kind |-> "clear"] /\ Len(network) \in Nat
          /\ \A k \in DOMAIN network : network'[k] = network[k]
      BY <2>2, QueuesAreSequences, AppendFacts
    <3> QED BY <3>1 DEF TypeInv, QueuesTyped, IsSequence
  <2> QED BY <2>1, <2>2 DEF OtherCall, ClearCachedStatsReport, Negotiate, Stop,
     ReplaceTrack, OnSctpDataChannelStateChanged, CancelPendingRequestAndGetShutdownTasks,
     ShutdownTasks, Tick, vars, queues, Clear, CertificatesToo, PostTo
<1>7. QueuesTyped'
  BY <1>1, <1>2, <1>6 DEF TypeInv, QueuesTyped, IsSequence
<1>8. /\ {signaling_alive', worker_alive', network_alive'} \subseteq BOOLEAN
      /\ signaling_alive' => worker_alive' /\ network_alive'
  <2>1. CASE UNCHANGED alive
    BY <2>1 DEF alive, TypeInv
  <2>2. CASE CancelPendingRequestAndGetShutdownTasks
    BY <2>2 DEF CancelPendingRequestAndGetShutdownTasks, TypeInv
  <2>3. CASE ShutdownTasks
    <3>1. ~signaling_alive /\ signaling_alive' = signaling_alive
      BY <2>3 DEF ShutdownTasks
    <3>2. {worker_alive', network_alive'} \subseteq {FALSE, worker_alive, network_alive}
      BY <2>3 DEF ShutdownTasks
    <3> QED BY <3>1, <3>2 DEF TypeInv
  <2> QED BY <2>1, <2>2, <2>3 DEF OtherCall, ClearCachedStatsReport, Negotiate, Stop,
     ReplaceTrack, OnSctpDataChannelStateChanged, Tick, vars
<1> QED BY <1>1, <1>3, <1>4, <1>5, <1>7, <1>8 DEF TypeInv

LEMMA SkipKeepsTypes == ASSUME TypeInv, Skip PROVE TypeInv'
<1>1. /\ signaling # <<>> /\ signaling' = Tail(signaling)
      /\ UNCHANGED <<worker, network, asked, requests_, delivering, answers, now,
                     collections, peer, alive, collection_context_, cache>>
  BY DEF Skip
<1>2. Asked' = Asked
  BY <1>1 DEF Asked
<1>3. QueuesTyped'
  BY <1>1, <1>2, TakenTyped DEF TypeInv, QueuesTyped, IsSequence
<1>4. RequestsTyped'
  BY <1>1, RequestsStayTyped DEF TypeInv
<1> QED BY <1>1, <1>3, <1>4 DEF TypeInv, ContextTyped, peer, cache, alive

\* Every step keeps the types, because a task of a collection finds its context.
LEMMA NextKeepsTypes ==
    ASSUME TypeInv, RequestsAccounted, [Next]_vars
    PROVE  TypeInv'
<1>1. CASE ProducePartialResultsOnSignalingThread \/ OnNetworkReportReady
  <2>1. /\ signaling_alive /\ signaling # <<>>
        /\ Head(signaling).kind \in {"worker_result", "network_result"}
    BY <1>1 DEF ProducePartialResultsOnSignalingThread, OnNetworkReportReady, Take
  <2>2. Head(signaling) = signaling[1] /\ 1 \in DOMAIN signaling
    BY <2>1, QueuesAreSequences, TailFacts
  <2>3. collection_context_ # None
    BY <2>1, <2>2, ContextThere
  <2> QED BY <1>1, <2>3, PartialKeepsTypes, ReadyKeepsTypes
<1> QED BY <1>1, GetStatsKeepsTypes, WorkerKeepsTypes, NetworkKeepsTypes,
           DeliverKeepsTypes, OtherKeepsTypes, SkipKeepsTypes
        DEF Next, SignalingTask, NetworkTask, OtherCall

-----------------------------------------------------------------------------
(* Each request is in one place, and there is one collection at most.       *)

\* What a task posted to the signaling thread adds, and what one taken takes.
LEMMA CountPosted ==
    ASSUME TypeInv, NEW task, signaling' = Append(signaling, task)
    PROVE  /\ \A r : Cardinality(Posted(r)') = Cardinality(Posted(r))
                 + (IF task.kind = "deliver" /\ task.request = r THEN 1 ELSE 0)
           /\ Cardinality(Carried') = Cardinality(Carried)
                 + (IF task.kind # "deliver" THEN 1 ELSE 0)
<1>1. /\ IsSequence(signaling) /\ DOMAIN signaling = 1..Len(signaling)
      /\ DOMAIN signaling' = 1..(Len(signaling) + 1) /\ Len(signaling) \in Nat
      /\ signaling'[Len(signaling) + 1] = task
      /\ \A k \in DOMAIN signaling : signaling'[k] = signaling[k]
  BY QueuesAreSequences, AppendFacts
<1>2. /\ Carried \in SUBSET (DOMAIN signaling)
      /\ Carried' \in SUBSET (DOMAIN Append(signaling, task))
      /\ \A k \in DOMAIN signaling : k \in Carried' <=> k \in Carried
      /\ Len(signaling) + 1 \in Carried' <=> task.kind # "deliver"
  BY <1>1 DEF Carried
<1>3. ASSUME NEW r
      PROVE  /\ Posted(r) \in SUBSET (DOMAIN signaling)
             /\ Posted(r)' \in SUBSET (DOMAIN Append(signaling, task))
             /\ \A k \in DOMAIN signaling : k \in Posted(r)' <=> k \in Posted(r)
             /\ Len(signaling) + 1 \in Posted(r)' <=>
                   task.kind = "deliver" /\ task.request = r
  BY <1>1 DEF Posted
<1>4. Cardinality(Carried') = Cardinality(Carried)
         + (IF Len(signaling) + 1 \in Carried' THEN 1 ELSE 0)
  BY <1>1, <1>2, CountAppend
<1>5. ASSUME NEW r
      PROVE  Cardinality(Posted(r)') = Cardinality(Posted(r))
                + (IF Len(signaling) + 1 \in Posted(r)' THEN 1 ELSE 0)
  BY <1>1, <1>3, CountAppend
<1> QED BY <1>2, <1>3, <1>4, <1>5

LEMMA CountTaken ==
    ASSUME TypeInv, signaling # <<>>, signaling' = Tail(signaling)
    PROVE  /\ \A r : Cardinality(Posted(r)) = Cardinality(Posted(r)')
                 + (IF /\ Head(signaling).kind = "deliver"
                       /\ Head(signaling).request = r THEN 1 ELSE 0)
           /\ Cardinality(Carried) = Cardinality(Carried')
                 + (IF Head(signaling).kind # "deliver" THEN 1 ELSE 0)
<1>1. /\ IsSequence(signaling) /\ 1 \in DOMAIN signaling /\ Head(signaling) = signaling[1]
      /\ \A k \in DOMAIN Tail(signaling) :
            k + 1 \in DOMAIN signaling /\ signaling'[k] = signaling[k + 1]
  BY QueuesAreSequences, TailFacts
<1>2. /\ Carried \in SUBSET (DOMAIN signaling)
      /\ Carried' \in SUBSET (DOMAIN Tail(signaling))
      /\ \A k \in DOMAIN Tail(signaling) : k \in Carried' <=> k + 1 \in Carried
      /\ 1 \in Carried <=> Head(signaling).kind # "deliver"
  BY <1>1 DEF Carried
<1>3. ASSUME NEW r
      PROVE  /\ Posted(r) \in SUBSET (DOMAIN signaling)
             /\ Posted(r)' \in SUBSET (DOMAIN Tail(signaling))
             /\ \A k \in DOMAIN Tail(signaling) : k \in Posted(r)' <=> k + 1 \in Posted(r)
             /\ 1 \in Posted(r) <=>
                   Head(signaling).kind = "deliver" /\ Head(signaling).request = r
  BY <1>1 DEF Posted
<1>4. Cardinality(Carried) = Cardinality(Carried') + (IF 1 \in Carried THEN 1 ELSE 0)
  BY <1>1, <1>2, CountTail
<1>5. ASSUME NEW r
      PROVE  Cardinality(Posted(r)) = Cardinality(Posted(r)')
                + (IF 1 \in Posted(r) THEN 1 ELSE 0)
  BY <1>1, <1>3, CountTail
<1> QED BY <1>2, <1>3, <1>4, <1>5

LEMMA CountSent ==
    ASSUME TypeInv, NEW task, network' = Append(network, task)
    PROVE  Cardinality(Collecting') = Cardinality(Collecting)
              + (IF task.kind = "collect" THEN 1 ELSE 0)
<1>1. /\ IsSequence(network) /\ DOMAIN network = 1..Len(network)
      /\ DOMAIN network' = 1..(Len(network) + 1) /\ Len(network) \in Nat
      /\ network'[Len(network) + 1] = task
      /\ \A k \in DOMAIN network : network'[k] = network[k]
  BY QueuesAreSequences, AppendFacts
<1>2. /\ Collecting \in SUBSET (DOMAIN network)
      /\ Collecting' \in SUBSET (DOMAIN Append(network, task))
      /\ \A k \in DOMAIN network : k \in Collecting' <=> k \in Collecting
      /\ Len(network) + 1 \in Collecting' <=> task.kind = "collect"
  BY <1>1 DEF Collecting
<1>3. Cardinality(Collecting') = Cardinality(Collecting)
         + (IF Len(network) + 1 \in Collecting' THEN 1 ELSE 0)
  BY <1>1, <1>2, CountAppend
<1> QED BY <1>2, <1>3

LEMMA CountReceived ==
    ASSUME TypeInv, network # <<>>, network' = Tail(network)
    PROVE  Cardinality(Collecting) = Cardinality(Collecting')
              + (IF Head(network).kind = "collect" THEN 1 ELSE 0)
<1>1. /\ IsSequence(network) /\ 1 \in DOMAIN network /\ Head(network) = network[1]
      /\ \A k \in DOMAIN Tail(network) :
            k + 1 \in DOMAIN network /\ network'[k] = network[k + 1]
  BY QueuesAreSequences, TailFacts
<1>2. /\ Collecting \in SUBSET (DOMAIN network)
      /\ Collecting' \in SUBSET (DOMAIN Tail(network))
      /\ \A k \in DOMAIN Tail(network) : k \in Collecting' <=> k + 1 \in Collecting
      /\ 1 \in Collecting <=> Head(network).kind = "collect"
  BY <1>1 DEF Collecting
<1>3. Cardinality(Collecting) = Cardinality(Collecting')
         + (IF 1 \in Collecting THEN 1 ELSE 0)
  BY <1>1, <1>2, CountTail
<1> QED BY <1>2, <1>3

\* A request that joins, one whose turn it is, and one that is answered.
LEMMA CountJoined ==
    ASSUME TypeInv, NEW q, requests_' = Append(requests_, q)
    PROVE  \A r : Cardinality(Waiting(r)') = Cardinality(Waiting(r))
                     + (IF q = r THEN 1 ELSE 0)
<1>1. /\ IsSequence(requests_) /\ DOMAIN requests_ = 1..Len(requests_)
      /\ DOMAIN requests_' = 1..(Len(requests_) + 1) /\ Len(requests_) \in Nat
      /\ requests_'[Len(requests_) + 1] = q
      /\ \A k \in DOMAIN requests_ : requests_'[k] = requests_[k]
  BY QueuesAreSequences, AppendFacts
<1>2. ASSUME NEW r
      PROVE  /\ Waiting(r) \in SUBSET (DOMAIN requests_)
             /\ Waiting(r)' \in SUBSET (DOMAIN Append(requests_, q))
             /\ \A k \in DOMAIN requests_ : k \in Waiting(r)' <=> k \in Waiting(r)
             /\ Len(requests_) + 1 \in Waiting(r)' <=> q = r
  BY <1>1 DEF Waiting
<1>3. ASSUME NEW r
      PROVE  Cardinality(Waiting(r)') = Cardinality(Waiting(r))
                + (IF Len(requests_) + 1 \in Waiting(r)' THEN 1 ELSE 0)
  BY <1>1, <1>2, CountAppend
<1> QED BY <1>2, <1>3

LEMMA CountServed ==
    ASSUME TypeInv, delivering # <<>>, delivering' = Tail(delivering)
    PROVE  \A r : Cardinality(InLoop(r)) = Cardinality(InLoop(r)')
                     + (IF Head(delivering) = r THEN 1 ELSE 0)
<1>1. /\ IsSequence(delivering) /\ 1 \in DOMAIN delivering
      /\ Head(delivering) = delivering[1]
      /\ \A k \in DOMAIN Tail(delivering) :
            k + 1 \in DOMAIN delivering /\ delivering'[k] = delivering[k + 1]
  BY QueuesAreSequences, TailFacts
<1>2. ASSUME NEW r
      PROVE  /\ InLoop(r) \in SUBSET (DOMAIN delivering)
             /\ InLoop(r)' \in SUBSET (DOMAIN Tail(delivering))
             /\ \A k \in DOMAIN Tail(delivering) : k \in InLoop(r)' <=> k + 1 \in InLoop(r)
             /\ 1 \in InLoop(r) <=> Head(delivering) = r
  BY <1>1 DEF InLoop
<1>3. ASSUME NEW r
      PROVE  Cardinality(InLoop(r)) = Cardinality(InLoop(r)')
                + (IF 1 \in InLoop(r) THEN 1 ELSE 0)
  BY <1>1, <1>2, CountTail
<1> QED BY <1>2, <1>3

LEMMA CountAnswered ==
    ASSUME TypeInv, NEW request, NEW report, DeliverReport(request, report)
    PROVE  \A r : Cardinality(Given(r)') = Cardinality(Given(r))
                     + (IF request = r THEN 1 ELSE 0)
<1>1. PICK answer : answers' = Append(answers, answer) /\ answer.request = request
  BY DEF DeliverReport
<1>2. /\ IsSequence(answers) /\ DOMAIN answers = 1..Len(answers)
      /\ DOMAIN answers' = 1..(Len(answers) + 1) /\ Len(answers) \in Nat
      /\ answers'[Len(answers) + 1] = answer
      /\ \A k \in DOMAIN answers : answers'[k] = answers[k]
  BY <1>1, QueuesAreSequences, AppendFacts
<1>3. ASSUME NEW r
      PROVE  /\ Given(r) \in SUBSET (DOMAIN answers)
             /\ Given(r)' \in SUBSET (DOMAIN Append(answers, answer))
             /\ \A k \in DOMAIN answers : k \in Given(r)' <=> k \in Given(r)
             /\ Len(answers) + 1 \in Given(r)' <=> request = r
  BY <1>1, <1>2 DEF Given
<1>4. ASSUME NEW r
      PROVE  Cardinality(Given(r)') = Cardinality(Given(r))
                + (IF Len(answers) + 1 \in Given(r)' THEN 1 ELSE 0)
  BY <1>1, <1>2, <1>3, CountAppend
<1> QED BY <1>3, <1>4

\* A step that leaves a queue alone leaves the numbers alone.
LEMMA CountsSame ==
    /\ requests_' = requests_ => \A r : Waiting(r)' = Waiting(r)
    /\ delivering' = delivering => \A r : InLoop(r)' = InLoop(r)
    /\ answers' = answers => \A r : Given(r)' = Given(r)
    /\ signaling' = signaling => Carried' = Carried /\ \A r : Posted(r)' = Posted(r)
    /\ network' = network => Collecting' = Collecting
  BY DEF Waiting, InLoop, Given, Carried, Posted, Collecting

LEMMA PrimedCounts ==
    /\ InFlight' = Len(worker') + Cardinality(Carried') + Cardinality(Collecting')
    /\ \A r : Places(r)' = Cardinality(Waiting(r)') + Cardinality(InLoop(r)')
                              + Cardinality(Posted(r)') + Cardinality(Given(r)')
<1>1. InFlight' = Len(worker') + Cardinality(Carried') + Cardinality(Collecting')
  BY InFlightCounted DEF InFlight, Count, Carried, Collecting
<1>2. ASSUME NEW r
      PROVE  Places(r)' = Cardinality(Waiting(r)') + Cardinality(InLoop(r)')
                             + Cardinality(Posted(r)') + Cardinality(Given(r)')
  BY DEF Places, Count, Waiting, InLoop, Posted, Given
<1> QED BY <1>1, <1>2

\* What the three parts of RequestsAccounted are kept by.
LEMMA AccountsFollow ==
    ASSUME TypeInv, RequestsAccounted, signaling_alive, Asked' = Asked,
           \A r : Places(r)' = Places(r),
           InFlight' = InFlight, collection_context_' = None <=> collection_context_ = None,
           requests_' = requests_
    PROVE  RequestsAccounted'
  BY DEF RequestsAccounted, Asked

LEMMA InitAccounts == Init => RequestsAccounted
<1> SUFFICES ASSUME Init PROVE RequestsAccounted
  OBVIOUS
<1>1. worker = <<>> /\ signaling = <<>> /\ network = <<>> /\ asked = <<>>
  BY DEF Init
<1>2. Carried = {} /\ Collecting = {}
  BY <1>1 DEF Carried, Collecting
<1>3. Cardinality(Carried) = 0 /\ Cardinality(Collecting) = 0
  BY <1>2, FS_EmptySet, Zenon
<1>4. InFlight = 0
  BY <1>1, <1>3, InFlightCounted
<1> QED BY <1>1, <1>4 DEF Init, RequestsAccounted

LEMMA GetStatsKeepsAccounts ==
    ASSUME TypeInv, RequestsAccounted, GetStatsReportInternal
    PROVE  RequestsAccounted'
<1> DEFINE request == Len(asked) + 1
           task == [kind |-> "deliver", request |-> request, report |-> cached_report_]
<1>1. /\ UNCHANGED <<delivering, answers, network>> /\ signaling_alive
      /\ \A r \in Asked' : r \in Asked \/ r = request
      /\ request \notin Asked /\ request \in Nat
  BY AskedGrows DEF GetStatsReportInternal
<1>2. \A r : /\ Cardinality(Waiting(r)) \in Nat /\ Cardinality(InLoop(r)) \in Nat
             /\ Cardinality(Posted(r)) \in Nat /\ Cardinality(Given(r)) \in Nat
  BY PlacesTyped
<1>3. \A r \in Asked : Places(r) = 1
  BY <1>1 DEF RequestsAccounted, Asked
<1>4. Places(request) = 0
  BY <1>1, PlacesTyped
<1>5. CASE /\ signaling' = Append(signaling, task)
           /\ UNCHANGED <<requests_, collection_context_, worker>>
  <2>1. \A r : Cardinality(Posted(r)') = Cardinality(Posted(r))
                  + (IF request = r THEN 1 ELSE 0)
    BY <1>5, CountPosted
  <2>2. Cardinality(Carried') = Cardinality(Carried)
    <3>1. Cardinality(Carried') = Cardinality(Carried) + 0
      BY <1>5, CountPosted
    <3> QED BY <3>1, PlacesTyped
  <2>3. ASSUME NEW r
        PROVE  Places(r)' = Places(r) + (IF request = r THEN 1 ELSE 0)
    <3>1. Waiting(r)' = Waiting(r) /\ InLoop(r)' = InLoop(r) /\ Given(r)' = Given(r)
      BY <1>1, <1>5, CountsSame
    <3> QED BY <1>2, <2>1, <3>1, PrimedCounts, PlacesCounted
  <2>4. InFlight' = InFlight
    BY <1>1, <1>5, <2>2, CountsSame, PrimedCounts, InFlightCounted
  <2>5. \A r \in Asked' : Places(r)' = 1
    BY <1>1, <1>3, <1>4, <2>3
  <2> QED BY <1>1, <1>5, <2>4, <2>5 DEF RequestsAccounted, Asked
<1>6. CASE /\ requests_' = Append(requests_, request) /\ signaling' = signaling
           /\ \/ collection_context_ # None /\ UNCHANGED <<collection_context_, worker>>
              \/ /\ collection_context_ = None
                 /\ collection_context_' =
                       [started |-> now, partial |-> {}, undisturbed |-> TRUE]
                 /\ worker' = Append(worker, [infos |-> transceivers])
  <2>1. \A r : Cardinality(Waiting(r)') = Cardinality(Waiting(r))
                  + (IF request = r THEN 1 ELSE 0)
    BY <1>6, CountJoined
  <2>2. \A r : Places(r)' = Places(r) + (IF request = r THEN 1 ELSE 0)
    BY <1>1, <1>2, <1>6, <2>1, CountsSame, PrimedCounts, PlacesCounted
  <2>3. \A r \in Asked' : Places(r)' = 1
    BY <1>1, <1>3, <1>4, <2>2
  <2>4. collection_context_' # None
    BY <1>6, NotNone
  <2>5. InFlight' = 1
    <3>1. Carried' = Carried /\ Collecting' = Collecting
      BY <1>1, <1>6, CountsSame
    <3>2. CASE collection_context_ # None
      <4>1. worker' = worker
        BY <1>6, <3>2
      <4>2. InFlight' = InFlight
        BY <3>1, <4>1, PrimedCounts, InFlightCounted
      <4> QED BY <1>1, <3>2, <4>2 DEF RequestsAccounted
    <3>3. CASE collection_context_ = None
      <4>1. worker' = Append(worker, [infos |-> transceivers])
        BY <1>6, <3>3
      <4>2. Len(worker') = Len(worker) + 1
        BY <4>1, QueuesAreSequences, AppendFacts
      <4>3. InFlight' = InFlight + 1
        BY <3>1, <4>2, PrimedCounts, InFlightCounted, PlacesTyped
      <4>4. InFlight = 0
        BY <1>1, <3>3 DEF RequestsAccounted
      <4> QED BY <4>3, <4>4
    <3> QED BY <3>2, <3>3
  <2> QED BY <2>3, <2>4, <2>5 DEF RequestsAccounted, Asked
<1>7. <1>5!1 \/ <1>6!1
  BY DEF GetStatsReportInternal, PostTo, PrepareTransceiverStatsInfosAndCallStats_s_w
<1> QED BY <1>5, <1>6, <1>7

LEMMA WorkerKeepsAccounts ==
    ASSUME TypeInv, RequestsAccounted, WorkerTask, signaling_alive
    PROVE  RequestsAccounted'
<1> DEFINE task == [kind |-> "worker_result", infos |-> Head(worker).infos]
<1>1. /\ worker # <<>> /\ worker' = Tail(worker)
      /\ signaling' = Append(signaling, task)
      /\ UNCHANGED <<requests_, delivering, answers, network, collection_context_, asked>>
  BY DEF WorkerTask, PostTo, TypeInv
<1>2. Len(worker') = Len(worker) - 1 /\ Len(worker) \in Nat
  BY <1>1, QueuesAreSequences, TailFacts
<1>3. \A r : Cardinality(Posted(r)') = Cardinality(Posted(r)) + 0
  BY <1>1, CountPosted
<1>4. Cardinality(Carried') = Cardinality(Carried) + 1
  BY <1>1, CountPosted
<1>5. InFlight' = InFlight
  BY <1>1, <1>2, <1>4, CountsSame, PrimedCounts, InFlightCounted, PlacesTyped
<1>6. \A r : Places(r)' = Places(r)
  BY <1>1, <1>3, CountsSame, PrimedCounts, PlacesCounted, PlacesTyped
<1>7. Asked' = Asked
  BY <1>1 DEF Asked
<1> QED BY <1>1, <1>5, <1>6, <1>7, AccountsFollow

LEMMA PartialKeepsAccounts ==
    ASSUME TypeInv, RequestsAccounted, ProducePartialResultsOnSignalingThread
    PROVE  RequestsAccounted'
<1> DEFINE infos == Head(signaling).infos
           task == [kind |-> "collect", infos |-> infos,
                    names |-> {infos[x].transport : x \in Transceivers} \ {NoTransport}]
<1>1. /\ signaling # <<>> /\ signaling' = Tail(signaling)
      /\ Head(signaling).kind = "worker_result" /\ signaling_alive
      /\ network' = Append(network, task)
      /\ UNCHANGED <<worker, asked, requests_, delivering, answers>>
  BY DEF ProducePartialResultsOnSignalingThread, Take, PostTo
<1>2. Head(signaling) = signaling[1] /\ 1 \in DOMAIN signaling
  BY <1>1, QueuesAreSequences, TailFacts
<1>3. collection_context_ # None
  BY <1>1, <1>2, ContextThere
<1>4. collection_context_' # None
  <2>1. collection_context_ = [started |-> collection_context_.started,
                               partial |-> collection_context_.partial,
                               undisturbed |-> collection_context_.undisturbed]
    BY <1>3 DEF TypeInv, ContextTyped
  <2>2. PICK p : collection_context_' = [collection_context_ EXCEPT !.partial = p]
    BY DEF ProducePartialResultsOnSignalingThread
  <2> QED BY <2>1, <2>2, ContextChanged
<1>5. Cardinality(Carried) = Cardinality(Carried') + 1
  BY <1>1, CountTaken
<1>6. \A r : Cardinality(Posted(r)) = Cardinality(Posted(r)') + 0
  BY <1>1, CountTaken
<1>7. Cardinality(Collecting') = Cardinality(Collecting) + 1
  BY <1>1, CountSent
<1>8. \A r : Cardinality(Posted(r)') = Cardinality(Posted(r))
  <2> SUFFICES ASSUME NEW r PROVE Cardinality(Posted(r)') = Cardinality(Posted(r))
    OBVIOUS
  <2>1. Posted(r)' \in SUBSET (DOMAIN signaling')
    BY DEF Posted
  <2>2. IsSequence(signaling')
    BY <1>1, QueuesAreSequences, TailFacts
  <2>3. Cardinality(Posted(r)') \in Nat
    BY <2>1, <2>2, PositionsFinite
  <2> QED BY <1>6, <2>3
<1>9. Cardinality(Carried') \in Nat
  <2>1. Carried' \in SUBSET (DOMAIN signaling')
    BY DEF Carried
  <2>2. IsSequence(signaling')
    BY <1>1, QueuesAreSequences, TailFacts
  <2> QED BY <2>1, <2>2, PositionsFinite
<1>10. InFlight' = InFlight
  BY <1>1, <1>5, <1>7, <1>9, CountsSame, PrimedCounts, InFlightCounted, PlacesTyped
<1>11. \A r : Places(r)' = Places(r)
  BY <1>1, <1>8, CountsSame, PrimedCounts, PlacesCounted
<1>12. Asked' = Asked
  BY <1>1 DEF Asked
<1> QED BY <1>1, <1>3, <1>4, <1>10, <1>11, <1>12, AccountsFollow

LEMMA NetworkKeepsAccounts ==
    ASSUME TypeInv, RequestsAccounted, signaling_alive,
           ProducePartialResultsOnNetworkThread \/ ClearCertificates
    PROVE  RequestsAccounted'
<1>1. /\ network # <<>> /\ network' = Tail(network)
      /\ UNCHANGED <<worker, asked, requests_, delivering, answers, collection_context_>>
      /\ Head(network).kind \in {"collect", "clear"} /\ network_alive
  BY DEF ProducePartialResultsOnNetworkThread, ClearCertificates, TypeInv
<1>2. Asked' = Asked
  BY <1>1 DEF Asked
<1>3. Cardinality(Collecting') \in Nat
  <2>1. Collecting' \in SUBSET (DOMAIN network') /\ IsSequence(network')
    BY <1>1, QueuesAreSequences, TailFacts DEF Collecting
  <2> QED BY <2>1, PositionsFinite
<1>4. CASE Head(network).kind = "clear"
  <2>1. signaling' = signaling
    BY <1>4 DEF ProducePartialResultsOnNetworkThread, ClearCertificates
  <2>2. Cardinality(Collecting) = Cardinality(Collecting') + 0
    BY <1>1, <1>4, CountReceived
  <2>3. InFlight' = InFlight
    BY <1>1, <1>3, <2>1, <2>2, CountsSame, PrimedCounts, InFlightCounted, PlacesTyped
  <2>4. \A r : Places(r)' = Places(r)
    BY <1>1, <2>1, CountsSame, PrimedCounts, PlacesCounted
  <2> QED BY <1>1, <1>2, <2>3, <2>4, AccountsFollow
<1>5. CASE Head(network).kind = "collect"
  <2>1. PICK task : signaling' = Append(signaling, task) /\ task.kind = "network_result"
    <3>1. ProducePartialResultsOnNetworkThread
      BY <1>5 DEF ClearCertificates
    <3>2. PICK transports, certified :
            signaling' = Append(signaling,
                    [kind |-> "network_result", infos |-> Head(network).infos,
                     transports |-> transports, certified |-> certified,
                     data |-> opened_data_channels])
      BY <1>1, <3>1 DEF ProducePartialResultsOnNetworkThread, PostTo
    <3> QED BY <3>2
  <2>2. Cardinality(Collecting) = Cardinality(Collecting') + 1
    BY <1>1, <1>5, CountReceived
  <2>3. Cardinality(Carried') = Cardinality(Carried) + 1
    BY <2>1, CountPosted
  <2>4. \A r : Cardinality(Posted(r)') = Cardinality(Posted(r)) + 0
    BY <2>1, CountPosted
  <2>5. InFlight' = InFlight
    BY <1>1, <1>3, <2>2, <2>3, CountsSame, PrimedCounts, InFlightCounted, PlacesTyped
  <2>6. ASSUME NEW r PROVE Places(r)' = Places(r)
    BY <1>1, <2>4, CountsSame, PrimedCounts, PlacesCounted, PlacesTyped
  <2> QED BY <1>1, <1>2, <2>5, <2>6, AccountsFollow
<1> QED BY <1>1, <1>4, <1>5

\* All that wait have their turn when the report is ready.
LEMMA ReadyKeepsAccounts ==
    ASSUME TypeInv, RequestsAccounted, OnNetworkReportReady
    PROVE  RequestsAccounted'
<1>1. /\ signaling # <<>> /\ signaling' = Tail(signaling)
      /\ Head(signaling).kind = "network_result" /\ signaling_alive
      /\ delivering = <<>> /\ delivering' = requests_ /\ requests_' = <<>>
      /\ collection_context_' = None
      /\ UNCHANGED <<worker, network, asked, answers>>
  BY DEF OnNetworkReportReady, Take, Idle, ContextLeft, RequestsLeft
<1>2. /\ Head(signaling) = signaling[1] /\ 1 \in DOMAIN signaling
      /\ IsSequence(signaling')
  BY <1>1, QueuesAreSequences, TailFacts
<1>3. collection_context_ # None
  BY <1>1, <1>2, ContextThere
<1>4. InFlight = 1
  BY <1>1, <1>3 DEF RequestsAccounted
<1>5. Cardinality(Carried) = Cardinality(Carried') + 1
  BY <1>1, CountTaken
<1>6. Cardinality(Carried') \in Nat
  BY <1>2, PositionsFinite DEF Carried
<1>7. InFlight' = 0
  BY <1>1, <1>4, <1>5, <1>6, CountsSame, PrimedCounts, InFlightCounted, PlacesTyped
<1>8. ASSUME NEW r PROVE Places(r)' = Places(r)
  <2>1. Cardinality(Posted(r)) = Cardinality(Posted(r)') + 0
    BY <1>1, CountTaken
  <2>2. Cardinality(Posted(r)') \in Nat
    BY <1>2, PositionsFinite DEF Posted
  <2>3. InLoop(r)' = Waiting(r) /\ InLoop(r) = {} /\ Waiting(r)' = {} /\ Given(r)' = Given(r)
    BY <1>1 DEF InLoop, Waiting, Given
  <2>4. Cardinality(InLoop(r)) = 0 /\ Cardinality(Waiting(r)') = 0
    BY <2>3, FS_EmptySet, Zenon
  <2>5. /\ Cardinality(InLoop(r)') = Cardinality(Waiting(r))
        /\ Cardinality(Given(r)') = Cardinality(Given(r))
    BY <2>3, Zenon
  <2>6. /\ Cardinality(Posted(r)) = Cardinality(Posted(r)')
        /\ Cardinality(Waiting(r)) \in Nat /\ Cardinality(Given(r)) \in Nat
    BY <2>1, <2>2, PlacesTyped
  <2> QED BY <2>2, <2>4, <2>5, <2>6, PrimedCounts, PlacesCounted
<1>9. Asked' = Asked
  BY <1>1 DEF Asked
<1> QED BY <1>1, <1>7, <1>8, <1>9 DEF RequestsAccounted, Asked

LEMMA DeliverKeepsAccounts ==
    ASSUME TypeInv, RequestsAccounted, signaling_alive, DeliverNext \/ DeliverTask
    PROVE  RequestsAccounted'
<1>1. UNCHANGED <<worker, network, asked, requests_, collection_context_>>
  BY DEF DeliverNext, DeliverTask, queues
<1>2. Asked' = Asked
  BY <1>1 DEF Asked
<1>3. CASE DeliverNext
  <2>1. /\ delivering # <<>> /\ delivering' = Tail(delivering) /\ signaling' = signaling
        /\ DeliverReport(Head(delivering), cached_report_)
    BY <1>3 DEF DeliverNext, queues
  <2>2. IsSequence(delivering')
    BY <2>1, QueuesAreSequences, TailFacts
  <2>3. ASSUME NEW r PROVE Places(r)' = Places(r)
    <3>1. Cardinality(InLoop(r)) = Cardinality(InLoop(r)')
             + (IF Head(delivering) = r THEN 1 ELSE 0)
      BY <2>1, CountServed
    <3>2. Cardinality(Given(r)') = Cardinality(Given(r))
             + (IF Head(delivering) = r THEN 1 ELSE 0)
      BY <2>1, CountAnswered
    <3>3. Cardinality(InLoop(r)') \in Nat
      BY <2>2, PositionsFinite DEF InLoop
    <3>4. Waiting(r)' = Waiting(r) /\ Posted(r)' = Posted(r)
      BY <1>1, <2>1, CountsSame
    <3>5. /\ Cardinality(Waiting(r)') = Cardinality(Waiting(r))
          /\ Cardinality(Posted(r)') = Cardinality(Posted(r))
          /\ Cardinality(Waiting(r)) \in Nat /\ Cardinality(Posted(r)) \in Nat
          /\ Cardinality(Given(r)) \in Nat
      BY <3>4, PlacesTyped
    <3> QED BY <3>1, <3>2, <3>3, <3>5, PrimedCounts, PlacesCounted
  <2>4. InFlight' = InFlight
    BY <1>1, <2>1, CountsSame, PrimedCounts, InFlightCounted
  <2> QED BY <1>1, <1>2, <2>3, <2>4, AccountsFollow
<1>4. CASE DeliverTask
  <2>1. /\ signaling # <<>> /\ signaling' = Tail(signaling) /\ delivering' = delivering
        /\ Head(signaling).kind = "deliver"
        /\ DeliverReport(Head(signaling).request, Head(signaling).report)
    BY <1>4 DEF DeliverTask, Take
  <2>2. IsSequence(signaling')
    BY <2>1, QueuesAreSequences, TailFacts
  <2>3. ASSUME NEW r PROVE Places(r)' = Places(r)
    <3>1. Cardinality(Posted(r)) = Cardinality(Posted(r)')
             + (IF Head(signaling).request = r THEN 1 ELSE 0)
      BY <2>1, CountTaken
    <3>2. Cardinality(Given(r)') = Cardinality(Given(r))
             + (IF Head(signaling).request = r THEN 1 ELSE 0)
      BY <2>1, CountAnswered
    <3>3. Cardinality(Posted(r)') \in Nat
      BY <2>2, PositionsFinite DEF Posted
    <3>4. Waiting(r)' = Waiting(r) /\ InLoop(r)' = InLoop(r)
      BY <1>1, <2>1, CountsSame
    <3> QED BY <3>1, <3>2, <3>3, <3>4, PrimedCounts, PlacesCounted, PlacesTyped
  <2>4. Cardinality(Carried) = Cardinality(Carried') + 0
    BY <2>1, CountTaken
  <2>5. Cardinality(Carried') \in Nat
    BY <2>2, PositionsFinite DEF Carried
  <2>6. InFlight' = InFlight
    BY <1>1, <2>4, <2>5, CountsSame, PrimedCounts, InFlightCounted, PlacesTyped
  <2> QED BY <1>1, <1>2, <2>3, <2>6, AccountsFollow
<1> QED BY <1>3, <1>4

LEMMA OtherKeepsAccounts ==
    ASSUME TypeInv, RequestsAccounted, signaling_alive, OtherCall
    PROVE  RequestsAccounted'
<1>1. UNCHANGED <<worker, signaling, asked, requests_, delivering, answers>>
  BY DEF OtherCall, ClearCachedStatsReport, Negotiate, Stop, ReplaceTrack, Change,
     OnSctpDataChannelStateChanged, CancelPendingRequestAndGetShutdownTasks, queues,
     ShutdownTasks, Tick, vars
<1>2. Cardinality(Collecting') = Cardinality(Collecting)
  <2>1. CASE network' = network
    BY <2>1, CountsSame
  <2>2. CASE network' = Append(network, [kind |-> "clear"])
    <3>1. Cardinality(Collecting') = Cardinality(Collecting) + 0
      BY <2>2, CountSent
    <3> QED BY <3>1, PlacesTyped
  <2> QED BY <2>1, <2>2 DEF OtherCall, ClearCachedStatsReport, Negotiate, Stop,
     ReplaceTrack, OnSctpDataChannelStateChanged, CancelPendingRequestAndGetShutdownTasks,
     ShutdownTasks, Tick, vars, queues, Clear, CertificatesToo, PostTo
<1>3. collection_context_' = None <=> collection_context_ = None
  <2>1. CASE Disturb
    BY <2>1, DisturbedContext DEF TypeInv
  <2>2. CASE collection_context_' = collection_context_
    BY <2>2
  <2> QED BY <2>1, <2>2 DEF OtherCall, ClearCachedStatsReport, Negotiate, Stop,
     ReplaceTrack, OnSctpDataChannelStateChanged, CancelPendingRequestAndGetShutdownTasks,
     ShutdownTasks, Tick, vars
<1>4. InFlight' = InFlight
  BY <1>1, <1>2, CountsSame, PrimedCounts, InFlightCounted
<1>5. \A r : Places(r)' = Places(r)
  BY <1>1, CountsSame, PrimedCounts, PlacesCounted
<1>6. Asked' = Asked
  BY <1>1 DEF Asked
<1> QED BY <1>1, <1>3, <1>4, <1>5, <1>6, AccountsFollow

\* After the shutdown nothing is promised, and it lasts.
LEMMA NextKeepsAccounts ==
    ASSUME TypeInv, RequestsAccounted, [Next]_vars
    PROVE  RequestsAccounted'
<1>1. CASE ~signaling_alive'
  BY <1>1 DEF RequestsAccounted
<1>2. CASE signaling_alive'
  <2>1. signaling_alive
    BY <1>2 DEF Next, SignalingTask, NetworkTask, GetStatsReportInternal, WorkerTask, Skip,
       ProducePartialResultsOnSignalingThread, OnNetworkReportReady, DeliverNext,
       DeliverTask, ProducePartialResultsOnNetworkThread, ClearCertificates, Change,
       ClearCachedStatsReport, Negotiate, Stop, ReplaceTrack,
       OnSctpDataChannelStateChanged, CancelPendingRequestAndGetShutdownTasks,
       ShutdownTasks, Tick, vars, alive
  <2> QED BY <2>1, GetStatsKeepsAccounts, WorkerKeepsAccounts, PartialKeepsAccounts,
             NetworkKeepsAccounts, ReadyKeepsAccounts, DeliverKeepsAccounts,
             OtherKeepsAccounts
          DEF Next, SignalingTask, NetworkTask, Skip, OtherCall
<1> QED BY <1>1, <1>2

-----------------------------------------------------------------------------
(* What the queues hold.                                                    *)

LEMMA HeldAfterAppend ==
    ASSUME NEW s, NEW e, IsSequence(s)
    PROVE  Held(Append(s, e)) = Held(s) \cup {e}
<1>1. /\ Len(s) \in Nat /\ DOMAIN s = 1..Len(s)
      /\ DOMAIN Append(s, e) = 1..(Len(s) + 1)
      /\ Append(s, e)[Len(s) + 1] = e
      /\ \A k \in DOMAIN s : Append(s, e)[k] = s[k]
  BY AppendFacts
<1>2. ASSUME NEW m \in Held(Append(s, e)) PROVE m \in Held(s) \cup {e}
  <2>1. PICK k \in DOMAIN Append(s, e) : m = Append(s, e)[k]
    BY DEF Held
  <2>2. k \in DOMAIN s \/ k = Len(s) + 1
    BY <1>1, <2>1
  <2> QED BY <1>1, <2>1, <2>2 DEF Held
<1>3. ASSUME NEW m \in Held(s) \cup {e} PROVE m \in Held(Append(s, e))
  <2>1. CASE m = e
    BY <1>1, <2>1 DEF Held
  <2>2. CASE m \in Held(s)
    <3>1. PICK k \in DOMAIN s : m = s[k]
      BY <2>2 DEF Held
    <3>2. k \in DOMAIN Append(s, e)
      BY <1>1
    <3> QED BY <1>1, <3>1, <3>2 DEF Held
  <2> QED BY <2>1, <2>2
<1> QED BY <1>2, <1>3

LEMMA HeldAfterTail ==
    ASSUME NEW s, IsSequence(s), s # <<>>
    PROVE  Held(Tail(s)) \subseteq Held(s) /\ Head(s) \in Held(s)
<1>1. /\ Head(s) = s[1] /\ 1 \in DOMAIN s
      /\ \A k \in DOMAIN Tail(s) : k + 1 \in DOMAIN s /\ Tail(s)[k] = s[k + 1]
  BY TailFacts
<1> QED BY <1>1 DEF Held

LEMMA HeldNothing == Held(<<>>) = {}
  BY DEF Held

\* The types, of what is held.
LEMMA HeldTyped ==
    ASSUME TypeInv
    PROVE  /\ \A task \in Held(worker) \cup Results \cup Collects : task.infos \in Infos
           /\ \A task \in Collects : task.names = NamesOf(task.infos)
           /\ \A task \in Held(signaling) : task.kind = "deliver" => task.request \in Asked
           /\ \A request \in Held(delivering) : request \in Asked
           /\ \A answer \in Held(answers) : answer.request \in Asked
           /\ NetworkResults \subseteq Results
<1>1. \A request \in Held(delivering) : request \in Asked
  BY MemberTyped DEF TypeInv, RequestsTyped, Held
<1> QED BY <1>1 DEF TypeInv, QueuesTyped, RequestsTyped, Held, Results, Collects,
            NetworkResults, OfCollection

\* What a request adds to the queues.
LEMMA GetStatsHolds ==
    ASSUME TypeInv, RequestsAccounted, GetStatsReportInternal
    PROVE  /\ Results' = Results /\ NetworkResults' = NetworkResults /\ Collects' = Collects
           /\ \/ /\ collection_context_' = collection_context_ /\ worker' = worker
                 /\ cached_report_ # None /\ Fresh
                 /\ Held(signaling)' = Held(signaling) \cup
                       {[kind |-> "deliver", request |-> Len(asked) + 1,
                         report |-> cached_report_]}
              \/ /\ signaling' = signaling
                 /\ collection_context_' = collection_context_ /\ worker' = worker
              \/ /\ signaling' = signaling
                 /\ collection_context_' =
                       [started |-> now, partial |-> {}, undisturbed |-> TRUE]
                 /\ Held(worker)' = {[infos |-> transceivers]}
                 /\ Results = {} /\ Collects = {}
<1> DEFINE task == [kind |-> "deliver", request |-> Len(asked) + 1,
                    report |-> cached_report_]
<1>1. network' = network /\ Collects' = Collects /\ signaling_alive
  BY DEF GetStatsReportInternal, Collects, Held
<1>2. CASE /\ signaling' = Append(signaling, task) /\ cached_report_ # None /\ Fresh
           /\ UNCHANGED <<collection_context_, worker>>
  <2>1. Held(signaling') = Held(signaling) \cup {task}
    BY <1>2, QueuesAreSequences, HeldAfterAppend
  <2>2. ~OfCollection(task) /\ task.kind # "network_result"
    BY DEF OfCollection
  <2>3. Results' = Results /\ NetworkResults' = NetworkResults
    <3> HIDE DEF task
    <3> QED BY <2>1, <2>2 DEF Results, NetworkResults, Held
  <2> QED BY <1>1, <1>2, <2>1, <2>3 DEF Held
<1>3. CASE signaling' = signaling /\ UNCHANGED <<collection_context_, worker>>
  BY <1>1, <1>3 DEF Results, NetworkResults, Held
<1>4. CASE /\ signaling' = signaling /\ collection_context_ = None
           /\ collection_context_' =
                 [started |-> now, partial |-> {}, undisturbed |-> TRUE]
           /\ worker' = Append(worker, [infos |-> transceivers])
  <2>1. worker = <<>> /\ Results = {} /\ Collects = {}
    BY <1>1, <1>4, NothingInFlight DEF Results, Collects, Held, OfCollection
  <2>2. Held(worker') = Held(worker) \cup {[infos |-> transceivers]}
    BY <1>4, QueuesAreSequences, HeldAfterAppend
  <2>3. Held(worker') = {[infos |-> transceivers]}
    BY <2>1, <2>2, HeldNothing
  <2>4. Results' = Results /\ NetworkResults' = NetworkResults
    BY <1>4 DEF Results, NetworkResults, Held
  <2>5. Held(worker)' = {[infos |-> transceivers]}
    BY <2>3 DEF Held
  <2> QED BY <1>1, <1>4, <2>1, <2>4, <2>5
<1> QED BY <1>2, <1>3, <1>4 DEF GetStatsReportInternal, PostTo,
             PrepareTransceiverStatsInfosAndCallStats_s_w

\* What the threads move.
LEMMA WorkerHolds ==
    ASSUME TypeInv, WorkerTask
    PROVE  \E task \in Held(worker) :
             /\ Held(worker)' \subseteq Held(worker) /\ Collects' = Collects
             /\ Results' \subseteq Results
                   \cup {[kind |-> "worker_result", infos |-> task.infos]}
             /\ NetworkResults' = NetworkResults
             /\ Held(signaling)' \subseteq Held(signaling)
                   \cup {[kind |-> "worker_result", infos |-> task.infos]}
<1> DEFINE head == Head(worker)
           task == [kind |-> "worker_result", infos |-> Head(worker).infos]
<1>1. worker # <<>> /\ worker' = Tail(worker) /\ network' = network
  BY DEF WorkerTask
<1>2. Held(worker') \subseteq Held(worker) /\ head \in Held(worker)
  BY <1>1, QueuesAreSequences, HeldAfterTail
<1>3. /\ Held(signaling') \subseteq Held(signaling) \cup {task}
      /\ Held(signaling) \subseteq Held(signaling')
  <2>1. signaling' = signaling \/ signaling' = Append(signaling, task)
    BY DEF WorkerTask, PostTo
  <2> HIDE DEF task
  <2>2. Held(Append(signaling, task)) = Held(signaling) \cup {task}
    BY QueuesAreSequences, HeldAfterAppend
  <2> QED BY <2>1, <2>2
<1>4. task.kind = "worker_result"
  OBVIOUS
<1>5. /\ Results' \subseteq Results \cup {task} /\ NetworkResults' = NetworkResults
      /\ Held(signaling)' \subseteq Held(signaling) \cup {task}
  <2> HIDE DEF task
  <2> QED BY <1>3, <1>4 DEF Results, NetworkResults, OfCollection, Held
<1>6. Collects' = Collects /\ Held(worker)' \subseteq Held(worker)
  BY <1>1, <1>2 DEF Collects, Held
<1> QED BY <1>2, <1>5, <1>6

LEMMA PartialHolds ==
    ASSUME TypeInv, ProducePartialResultsOnSignalingThread
    PROVE  \E task, names :
             /\ task \in Results
             /\ task.kind = "worker_result" /\ task = Head(signaling)
             /\ worker' = worker
             /\ Held(signaling)' \subseteq Held(signaling)
             /\ Results' \subseteq Results /\ NetworkResults' \subseteq NetworkResults
             /\ Collects' \subseteq Collects
                   \cup {[kind |-> "collect", infos |-> task.infos, names |-> names]}
<1> DEFINE head == Head(signaling)
           names == {head.infos[x].transport : x \in Transceivers} \ {NoTransport}
           task == [kind |-> "collect", infos |-> head.infos, names |-> names]
<1>1. /\ signaling # <<>> /\ signaling' = Tail(signaling) /\ worker' = worker
      /\ head.kind = "worker_result"
      /\ network' = Append(network, task)
  BY DEF ProducePartialResultsOnSignalingThread, Take, PostTo
<1>2. Held(signaling') \subseteq Held(signaling) /\ head \in Held(signaling)
  BY <1>1, QueuesAreSequences, HeldAfterTail
<1>3. Held(network') = Held(network) \cup {task}
  BY <1>1, QueuesAreSequences, HeldAfterAppend
<1>4. Collects' \subseteq Collects \cup {task}
  <2> HIDE DEF task
  <2> QED BY <1>3 DEF Collects, Held
<1>5. /\ head \in Results /\ Results' \subseteq Results
      /\ NetworkResults' \subseteq NetworkResults
      /\ Held(signaling)' \subseteq Held(signaling)
  BY <1>1, <1>2 DEF Results, NetworkResults, OfCollection, Held
<1> HIDE DEF names
<1> QED BY <1>1, <1>4, <1>5

LEMMA NetworkHolds ==
    ASSUME TypeInv, ProducePartialResultsOnNetworkThread
    PROVE  /\ Head(network) \in Collects /\ network # <<>> /\ network' = Tail(network)
           /\ worker' = worker /\ Collects' \subseteq Collects
           /\ \/ ~network_alive /\ signaling' = signaling
                 /\ cached_certificates_by_transport_' = cached_certificates_by_transport_
              \/ \E result :
                    /\ network_alive
                    /\ result.kind = "network_result"
                    /\ result.infos = Head(network).infos
                    /\ result.transports = Head(network).names \cap Existing
                    /\ result.certified =
                          PrepareTransportCertificateStats_n(result.transports)
                    /\ cached_certificates_by_transport_' = result.certified
                    /\ Held(signaling)' = Held(signaling) \cup {result}
<1>1. /\ network # <<>> /\ network' = Tail(network) /\ worker' = worker
      /\ Head(network).kind = "collect"
  BY DEF ProducePartialResultsOnNetworkThread
<1>2. Held(network') \subseteq Held(network) /\ Head(network) \in Held(network)
  BY <1>1, QueuesAreSequences, HeldAfterTail
<1>3. Collects' \subseteq Collects /\ Head(network) \in Collects
  BY <1>1, <1>2 DEF Collects, Held
<1>4. CASE network_alive
  <2> DEFINE transports == Head(network).names \cap Existing
             certified == PrepareTransportCertificateStats_n(transports)
             result == [kind |-> "network_result", infos |-> Head(network).infos,
                        transports |-> transports, certified |-> certified,
                        data |-> opened_data_channels]
  <2>1. /\ cached_certificates_by_transport_' = certified
        /\ signaling' = Append(signaling, result)
    BY <1>4 DEF ProducePartialResultsOnNetworkThread, PostTo
  <2>2. /\ result.kind = "network_result" /\ result.infos = Head(network).infos
        /\ result.transports = transports /\ result.certified = certified
    OBVIOUS
  <2>3. Held(signaling)' = Held(signaling) \cup {result}
    <3>1. Held(signaling') = Held(signaling) \cup {result}
      BY <2>1, QueuesAreSequences, HeldAfterAppend
    <3> QED BY <3>1 DEF Held
  <2> HIDE DEF result
  <2> QED BY <1>1, <1>3, <1>4, <2>1, <2>2, <2>3
<1>5. CASE ~network_alive
  BY <1>1, <1>3, <1>5 DEF ProducePartialResultsOnNetworkThread
<1> QED BY <1>4, <1>5

\* The other steps add no task of a collection.
LEMMA OthersHold ==
    ASSUME TypeInv, \/ OtherCall \/ Skip \/ ClearCertificates \/ OnNetworkReportReady
                    \/ DeliverNext \/ DeliverTask
    PROVE  /\ worker' = worker /\ Held(signaling)' \subseteq Held(signaling)
           /\ Results' \subseteq Results /\ NetworkResults' \subseteq NetworkResults
           /\ Collects' \subseteq Collects
<1>1. worker' = worker
  BY DEF OtherCall, ClearCachedStatsReport, Negotiate, Stop, ReplaceTrack, Change,
     OnSctpDataChannelStateChanged, CancelPendingRequestAndGetShutdownTasks, queues,
     ShutdownTasks, Tick, vars, Skip, ClearCertificates, OnNetworkReportReady,
     DeliverNext, DeliverTask
<1>2. Held(signaling') \subseteq Held(signaling)
  <2>1. signaling' = signaling \/ (signaling # <<>> /\ signaling' = Tail(signaling))
    BY DEF OtherCall, ClearCachedStatsReport, Negotiate, Stop, ReplaceTrack, Change, Take,
       OnSctpDataChannelStateChanged, CancelPendingRequestAndGetShutdownTasks, queues,
       ShutdownTasks, Tick, vars, Skip, ClearCertificates, OnNetworkReportReady,
       DeliverNext, DeliverTask
  <2> QED BY <2>1, QueuesAreSequences, HeldAfterTail
<1>3. Held(network') \subseteq Held(network) \cup {[kind |-> "clear"]}
  <2>1. \/ network' = network \/ network' = Append(network, [kind |-> "clear"])
        \/ network # <<>> /\ network' = Tail(network)
    BY DEF OtherCall, ClearCachedStatsReport, Negotiate, Stop, ReplaceTrack, Change, Clear,
       OnSctpDataChannelStateChanged, CancelPendingRequestAndGetShutdownTasks, queues,
       ShutdownTasks, Tick, vars, Skip, ClearCertificates, OnNetworkReportReady,
       DeliverNext, DeliverTask, CertificatesToo, PostTo
  <2>2. Held(Append(network, [kind |-> "clear"])) = Held(network) \cup {[kind |-> "clear"]}
    BY QueuesAreSequences, HeldAfterAppend
  <2>3. network # <<>> => Held(Tail(network)) \subseteq Held(network)
    BY QueuesAreSequences, HeldAfterTail
  <2> QED BY <2>1, <2>2, <2>3
<1>4. /\ Held(signaling)' \subseteq Held(signaling)
      /\ Held(network)' \subseteq Held(network) \cup {[kind |-> "clear"]}
  BY <1>2, <1>3 DEF Held
<1> QED BY <1>1, <1>4 DEF Results, NetworkResults, Collects

-----------------------------------------------------------------------------
(* The objects of a report.                                                 *)

\* The parts of the ids.
LEMMA IdParts ==
    ASSUME NEW t, NEW k, NEW x
    PROVE  /\ TransportId(t)[1] = "T" /\ TransportId(t)[2] = t
           /\ OutboundId(t, k, x)[1] = "O" /\ OutboundId(t, k, x)[2] = t
           /\ OutboundId(t, k, x)[3] = k /\ OutboundId(t, k, x)[4] = x
           /\ InboundId(t, k, x)[1] = "I" /\ InboundId(t, k, x)[2] = t
           /\ InboundId(t, k, x)[3] = k /\ InboundId(t, k, x)[4] = x
           /\ RemoteInboundId(k, x)[1] = "RI" /\ RemoteInboundId(k, x)[2] = k
           /\ RemoteInboundId(k, x)[3] = x
           /\ RemoteOutboundId(k, x)[1] = "RO" /\ RemoteOutboundId(k, x)[2] = k
           /\ RemoteOutboundId(k, x)[3] = x
           /\ CodecId(k, t)[1] = "C" /\ CodecId(k, t)[3] = t
           /\ MediaSourceId(x)[1] = "S" /\ CertificateId(t)[1] = "CF"
           /\ CandidatePairId(t)[1] = "CP" /\ CandidatePairId(t)[2] = t
           /\ CandidateId(k, t)[1] = "I" /\ CandidateId(k, t)[2] = t
           /\ CandidateId(k, t)[3] = k /\ Playout[1] = "AP"
  BY DEF TransportId, OutboundId, InboundId, RemoteInboundId, RemoteOutboundId, CodecId,
         MediaSourceId, CertificateId, CandidatePairId, CandidateId, Playout

LEMMA ObjectParts ==
    ASSUME NEW id, NEW refs
    PROVE  Object(id, refs).id = id /\ Object(id, refs).refs = refs
  BY DEF Object

LEMMA KindOfStream == \A x : KindOf(x) \in {"audio", "video"}
  BY DEF KindOf

\* Objects that refer to nothing.
LEMMA PlainWellFormed ==
    ASSUME NEW id, id[1] \in {"S", "P", "AP", "D", "CF"}
    PROVE  WellFormed(Object(id, {}))
  BY ObjectParts DEF WellFormed

LEMMA TransportObjects ==
    ASSUME NEW transports, NEW certified
    PROVE  \A o \in ProduceIceCandidateAndPairStats_s(transports)
                    \cup ProduceTransportStats_s(transports, certified)
                    \cup ProduceCertificateStats_s(certified) :
             /\ WellFormed(o)
             /\ \A ref \in o.refs :
                   ref \in Ids(ProduceIceCandidateAndPairStats_s(transports)
                               \cup ProduceTransportStats_s(transports, certified)
                               \cup ProduceCertificateStats_s(certified))
<1> DEFINE candidate(side, t) == Object(CandidateId(side, t), {TransportId(t)})
           pair(t) == Object(CandidatePairId(t), {CandidateId("local", t),
                                                  CandidateId("remote", t), TransportId(t)})
           of(t) == IF t \in certified THEN {CertificateId(t), CertificateId("peer")} ELSE {}
           transport(t) == Object(TransportId(t), {CandidatePairId(t)} \cup of(t))
           All == ProduceIceCandidateAndPairStats_s(transports)
                  \cup ProduceTransportStats_s(transports, certified)
                  \cup ProduceCertificateStats_s(certified)
<1>1. ASSUME NEW t \in transports
      PROVE  {candidate("local", t), candidate("remote", t), pair(t), transport(t)}
                \subseteq All
  <2>1. {candidate("local", t), candidate("remote", t), pair(t)}
           \subseteq ProduceIceCandidateAndPairStats_s(transports)
    BY DEF ProduceIceCandidateAndPairStats_s, ProduceIceCandidateStats
  <2>2. transport(t) \in ProduceTransportStats_s(transports, certified)
    BY DEF ProduceTransportStats_s
  <2> HIDE DEF candidate, pair, transport
  <2> QED BY <2>1, <2>2
<1>2. ASSUME NEW t \in certified
      PROVE  {CertificateStats(t), CertificateStats("peer")} \subseteq All
  BY DEF ProduceCertificateStats_s
<1>3. ASSUME NEW o \in All
      PROVE  \/ \E t \in transports : o \in {candidate("local", t), candidate("remote", t),
                                             pair(t), transport(t)}
             \/ \E t \in certified : o \in {CertificateStats(t), CertificateStats("peer")}
  BY <1>3 DEF ProduceIceCandidateAndPairStats_s, ProduceIceCandidateStats,
         ProduceTransportStats_s, ProduceCertificateStats_s
<1>4. ASSUME NEW t \in transports
      PROVE  {CandidateId("local", t), CandidateId("remote", t), CandidatePairId(t),
              TransportId(t)} \subseteq Ids(All)
  <2> HIDE DEF All, of
  <2>1. \A o \in All : o.id \in Ids(All)
    BY DEF Ids
  <2>2. {candidate("local", t).id, candidate("remote", t).id, pair(t).id, transport(t).id}
           \subseteq Ids(All)
    <3> HIDE DEF candidate, pair, transport
    <3> QED BY <1>1, <2>1
  <2> QED BY <2>2, ObjectParts
<1>5. ASSUME NEW t \in certified
      PROVE  {CertificateId(t), CertificateId("peer")} \subseteq Ids(All)
  <2> HIDE DEF All
  <2>1. \A o \in All : o.id \in Ids(All)
    BY DEF Ids
  <2> QED BY <1>2, <2>1, ObjectParts DEF CertificateStats
<1>6. ASSUME NEW t, NEW side \in {"local", "remote"} PROVE WellFormed(candidate(side, t))
  <2>1. /\ candidate(side, t).id[1] = "I" /\ candidate(side, t).id[2] = t
        /\ candidate(side, t).id[3] = side /\ candidate(side, t).refs = {TransportId(t)}
    BY IdParts, ObjectParts
  <2> HIDE DEF candidate
  <2> QED BY <1>6, <2>1 DEF WellFormed
<1>7. ASSUME NEW t PROVE WellFormed(pair(t))
  BY IdParts, ObjectParts DEF WellFormed
<1>8. ASSUME NEW t PROVE WellFormed(transport(t))
  <2>1. {CandidatePairId(t)} \cup of(t)
           \subseteq {CandidatePairId(t), CertificateId(t), CertificateId("peer")}
    OBVIOUS
  <2> HIDE DEF of
  <2> QED BY <2>1, IdParts, ObjectParts DEF WellFormed
<1>9. ASSUME NEW t PROVE WellFormed(CertificateStats(t))
  BY IdParts, PlainWellFormed DEF CertificateStats
<1> HIDE DEF All
<1>10. ASSUME NEW o \in All PROVE WellFormed(o)
  <2>1. CASE \E t \in transports : o \in {candidate("local", t), candidate("remote", t),
                                          pair(t), transport(t)}
    <3> HIDE DEF candidate, pair, transport
    <3> QED BY <2>1, <1>6, <1>7, <1>8
  <2>2. CASE \E t \in certified : o \in {CertificateStats(t), CertificateStats("peer")}
    BY <2>2, <1>9
  <2> QED BY <1>3, <2>1, <2>2
<1>11. ASSUME NEW o \in All, NEW ref \in o.refs PROVE ref \in Ids(All)
  <2>1. CASE \E t \in transports : o \in {candidate("local", t), candidate("remote", t),
                                          pair(t), transport(t)}
    <3>1. PICK t \in transports : o \in {candidate("local", t), candidate("remote", t),
                                         pair(t), transport(t)}
      BY <2>1
    <3>2. \/ ref \in {CandidateId("local", t), CandidateId("remote", t), CandidatePairId(t),
                      TransportId(t)}
          \/ t \in certified /\ ref \in {CertificateId(t), CertificateId("peer")}
      BY <1>11, <3>1, ObjectParts
    <3> QED BY <1>4, <1>5, <3>2
  <2>2. CASE \E t \in certified : o \in {CertificateStats(t), CertificateStats("peer")}
    BY <1>11, <2>2, ObjectParts DEF CertificateStats
  <2> QED BY <1>3, <2>1, <2>2
<1> QED BY <1>10, <1>11 DEF All

\* The objects of one transceiver's streams: what they refer to is there, but for
\* the transport, the source and the device.
LEMMA InboundObjects ==
    ASSUME NEW x, NEW t \in Transports, NEW more \in SUBSET {Playout}
    PROVE  \A o \in InboundStats(x, t, more) :
             /\ WellFormed(o)
             /\ \A ref \in o.refs : \/ ref \in Ids(InboundStats(x, t, more))
                                    \/ ref = TransportId(t) \/ ref \in more
<1> DEFINE k == KindOf(x)
           out == Object(RemoteOutboundId(k, x),
                         {TransportId(t), CodecId("I", t), InboundId(t, k, x)})
           codec == Codec("I", t)
           remote == Ids(RemoteOutbound(x, t))
           in == Object(InboundId(t, k, x), {TransportId(t), CodecId("I", t)} \cup more \cup remote)
           All == InboundStats(x, t, more)
<1>1. RemoteOutbound(x, t) \subseteq {out}
  BY DEF RemoteOutbound
<1>2. remote \subseteq {RemoteOutboundId(k, x)}
  <2> HIDE DEF out
  <2>1. remote \subseteq {out.id}
    BY <1>1 DEF Ids
  <2> QED BY <2>1, ObjectParts DEF out
<1>3. CASE x \notin Receiving
  BY <1>3 DEF InboundStats
<1>4. CASE x \in Receiving
  <2>1. All = {codec, in} \cup RemoteOutbound(x, t)
    BY <1>4 DEF InboundStats
  <2>2. WellFormed(codec) /\ codec.id = CodecId("I", t) /\ codec.refs = {TransportId(t)}
    <3>1. /\ codec.id = CodecId("I", t) /\ codec.refs = {TransportId(t)}
          /\ codec.id[1] = "C" /\ codec.id[3] = t
      BY IdParts, ObjectParts DEF Codec
    <3> HIDE DEF codec
    <3> QED BY <3>1 DEF WellFormed
  <2>3. /\ WellFormed(in) /\ in.id = InboundId(t, k, x)
        /\ in.refs = {TransportId(t), CodecId("I", t)} \cup more \cup remote
    <3>1. /\ in.id = InboundId(t, k, x)
          /\ in.id[1] = "I" /\ in.id[2] = t /\ in.id[3] = k /\ in.id[4] = x
          /\ in.refs = {TransportId(t), CodecId("I", t)} \cup more \cup remote
      BY IdParts, ObjectParts
    <3>2. in.refs \subseteq {TransportId(t), CodecId("I", t), Playout, RemoteOutboundId(k, x)}
      BY <3>1, <1>2
    <3> HIDE DEF in, remote
    <3>3. k \in {"audio", "video"}
      BY KindOfStream
    <3>4. {TransportId(t), CodecId("I", t)} \subseteq in.refs
      BY <3>1
    <3> HIDE DEF k
    <3> QED BY <3>1, <3>2, <3>3, <3>4 DEF WellFormed
  <2>4. /\ WellFormed(out) /\ out.id = RemoteOutboundId(k, x)
        /\ out.refs = {TransportId(t), CodecId("I", t), InboundId(t, k, x)}
    <3>1. /\ out.id = RemoteOutboundId(k, x)
          /\ out.id[1] = "RO" /\ out.id[2] = k /\ out.id[3] = x
          /\ out.refs = {TransportId(t), CodecId("I", t), InboundId(t, k, x)}
      BY IdParts, ObjectParts
    <3> HIDE DEF out, k
    <3> QED BY <3>1 DEF WellFormed
  <2> HIDE DEF All, in, out, codec
  <2>5. codec.id \in Ids(All) /\ in.id \in Ids(All) /\ remote \subseteq Ids(All)
    BY <2>1 DEF Ids
  <2>6. ASSUME NEW o \in All PROVE o \in {codec, in, out}
    BY <1>1, <2>1
  <2>7. ASSUME NEW o \in All, NEW ref \in o.refs
        PROVE  ref \in Ids(All) \/ ref = TransportId(t) \/ ref \in more
    <3> HIDE DEF k, remote
    <3>1. CASE o = codec
      BY <2>2, <2>7, <3>1
    <3>2. CASE o = in
      BY <2>2, <2>3, <2>5, <2>7, <3>2
    <3>3. CASE o = out
      BY <2>2, <2>3, <2>4, <2>5, <2>7, <3>3
    <3> QED BY <2>6, <3>1, <3>2, <3>3
  <2> QED BY <2>2, <2>3, <2>4, <2>6, <2>7 DEF All
<1> QED BY <1>3, <1>4

LEMMA OutboundObjects ==
    ASSUME NEW x, NEW info, info.transport \in Transports, NEW transports
    PROVE  \A o \in OutboundStats(x, info, transports) :
             /\ WellFormed(o)
             /\ \A ref \in o.refs :
                  \/ ref \in Ids(OutboundStats(x, info, transports))
                  \/ ref = TransportId(info.transport)
                  \/ info.attachment # 0 /\ ref = MediaSourceId(info.attachment)
<1> DEFINE k == KindOf(x)
           t == info.transport
           own == {TransportId(u) : u \in transports \cap {t}}
           sources == {MediaSourceId(a) : a \in {info.attachment} \ {0}}
           remote == Ids(RemoteInbound(x, t, transports))
           in == Object(RemoteInboundId(k, x), {CodecId("O", t), OutboundId(t, k, x)} \cup own)
           codec == Codec("O", t)
           out == Object(OutboundId(t, k, x),
                         {TransportId(t), CodecId("O", t)} \cup sources \cup remote)
           All == OutboundStats(x, info, transports)
<1>1. RemoteInbound(x, t, transports) \subseteq {in}
  BY DEF RemoteInbound
<1>2. remote \subseteq {RemoteInboundId(k, x)}
  <2> HIDE DEF in
  <2>1. remote \subseteq {in.id}
    BY <1>1 DEF Ids
  <2> QED BY <2>1, ObjectParts DEF in
<1>3. All = {codec, out} \cup RemoteInbound(x, t, transports)
  BY DEF OutboundStats
<1>4. WellFormed(codec) /\ codec.id = CodecId("O", t) /\ codec.refs = {TransportId(t)}
  <2>1. /\ codec.id = CodecId("O", t) /\ codec.refs = {TransportId(t)}
        /\ codec.id[1] = "C" /\ codec.id[3] = t
    BY IdParts, ObjectParts DEF Codec
  <2> HIDE DEF codec, t
  <2> QED BY <2>1 DEF WellFormed
<1>5. \A ref \in sources : /\ info.attachment # 0 /\ ref = MediaSourceId(info.attachment)
                           /\ ref[1] = "S"
  BY IdParts
<1>6. /\ WellFormed(out) /\ out.id = OutboundId(t, k, x)
      /\ out.refs = {TransportId(t), CodecId("O", t)} \cup sources \cup remote
  <2>1. /\ out.id = OutboundId(t, k, x)
        /\ out.id[1] = "O" /\ out.id[2] = t /\ out.id[3] = k /\ out.id[4] = x
        /\ out.refs = {TransportId(t), CodecId("O", t)} \cup sources \cup remote
    BY IdParts, ObjectParts
  <2> HIDE DEF out, remote, sources, k, t
  <2>2. /\ {TransportId(t), CodecId("O", t)} \subseteq out.refs
        /\ \A ref \in out.refs :
              \/ ref \in {TransportId(t), CodecId("O", t), RemoteInboundId(k, x)}
              \/ ref[1] = "S"
    BY <1>2, <1>5, <2>1
  <2> QED BY <2>1, <2>2 DEF WellFormed
<1>7. /\ WellFormed(in) /\ in.id = RemoteInboundId(k, x)
      /\ in.refs = {CodecId("O", t), OutboundId(t, k, x)} \cup own
      /\ own \subseteq {TransportId(t)}
  <2>1. /\ in.id = RemoteInboundId(k, x)
        /\ in.id[1] = "RI" /\ in.id[2] = k /\ in.id[3] = x
        /\ in.refs = {CodecId("O", t), OutboundId(t, k, x)} \cup own
    BY IdParts, ObjectParts
  <2>2. own \subseteq {TransportId(t)}
    OBVIOUS
  <2>3. t \in Transports
    OBVIOUS
  <2> HIDE DEF in, own, k, t
  <2> QED BY <2>1, <2>2, <2>3 DEF WellFormed
<1> HIDE DEF All, in, out, codec
<1>8. codec.id \in Ids(All) /\ out.id \in Ids(All) /\ remote \subseteq Ids(All)
  BY <1>3 DEF Ids
<1>9. ASSUME NEW o \in All PROVE o \in {codec, in, out}
  BY <1>1, <1>3
<1>10. ASSUME NEW o \in All, NEW ref \in o.refs
      PROVE  \/ ref \in Ids(All) \/ ref = TransportId(t)
             \/ info.attachment # 0 /\ ref = MediaSourceId(info.attachment)
  <2> HIDE DEF k, remote, own, sources, t
  <2>1. CASE o = codec
    BY <1>4, <1>10, <2>1
  <2>2. CASE o = out
    BY <1>4, <1>5, <1>6, <1>8, <1>10, <2>2
  <2>3. CASE o = in
    BY <1>4, <1>6, <1>7, <1>8, <1>10, <2>3
  <2> QED BY <1>9, <2>1, <2>2, <2>3
<1> QED BY <1>4, <1>6, <1>7, <1>9, <1>10 DEF All

LEMMA IdsGrow == ASSUME NEW A, NEW B, A \subseteq B PROVE Ids(A) \subseteq Ids(B)
  BY DEF Ids

LEMMA DanglingIsReferred ==
    ASSUME NEW objects, NEW id
    PROVE  id \in Dangling(objects) <=>
              id \notin Ids(objects) /\ \E o \in objects : id \in o.refs
<1> DEFINE referred == {o.refs : o \in objects}
<1>1. id \in UNION referred <=> \E refs \in referred : id \in refs
  <2> HIDE DEF referred
  <2> QED OBVIOUS
<1>2. (\E refs \in referred : id \in refs) <=> \E o \in objects : id \in o.refs
  BY Zenon
<1>3. id \in Dangling(objects) <=> id \in UNION referred /\ id \notin Ids(objects)
  BY Zenon DEF Dangling
<1> QED BY <1>1, <1>2, <1>3, Zenon

\* Each stream's object is made for a transceiver that has a transport.
LEMMA StreamObjects ==
    ASSUME NEW infos \in Infos, NEW transports,
           NEW o \in ProduceRTPStreamStats_s(infos, transports)
    PROVE  \E x \in Transceivers, more \in SUBSET {Playout} :
             /\ infos[x].transport \in Transports /\ infos[x].transport # NoTransport
             /\ ~Stopped(infos[x])
             /\ more # {} => x \in Audio
             /\ o \in InboundStats(x, infos[x].transport, more)
                      \cup OutboundStats(x, infos[x], transports)
             /\ InboundStats(x, infos[x].transport, more)
                   \cup OutboundStats(x, infos[x], transports)
                \subseteq ProduceRTPStreamStats_s(infos, transports)
<1> DEFINE shown == {x \in Transceivers : /\ infos[x].transport # NoTransport
                                          /\ ~Stopped(infos[x])}
           audio(x) == InboundStats(x, infos[x].transport, {Playout})
                          \cup OutboundStats(x, infos[x], transports)
           video(x) == InboundStats(x, infos[x].transport, {})
                          \cup OutboundStats(x, infos[x], transports)
           audios == UNION {audio(x) : x \in shown \cap Audio}
           videos == UNION {video(x) : x \in shown \ Audio}
<1>1. ProduceRTPStreamStats_s(infos, transports) = audios \cup videos
  BY Zenon DEF ProduceRTPStreamStats_s, ProduceAudioRTPStreamStats_s, ProduceVideoRTPStreamStats_s
<1>2. \A x \in shown : infos[x].transport \in Transports
  BY DEF Infos
<1>3. CASE \E x \in shown \cap Audio : o \in audio(x)
  <2>1. PICK x \in shown \cap Audio : o \in audio(x)
    BY <1>3
  <2> HIDE DEF audio, video
  <2>2. audio(x) \subseteq audios
    <3> HIDE DEF shown
    <3> QED OBVIOUS
  <2> HIDE DEF audios, videos
  <2>3. audio(x) \subseteq ProduceRTPStreamStats_s(infos, transports)
    BY <1>1, <2>2
  <2> QED BY <1>2, <2>1, <2>3 DEF audio
<1>4. CASE \E x \in shown \ Audio : o \in video(x)
  <2>1. PICK x \in shown \ Audio : o \in video(x)
    BY <1>4
  <2> HIDE DEF audio, video
  <2>2. video(x) \subseteq videos
    <3> HIDE DEF shown
    <3> QED OBVIOUS
  <2> HIDE DEF audios, videos
  <2>3. video(x) \subseteq ProduceRTPStreamStats_s(infos, transports)
    BY <1>1, <2>2
  <2> QED BY <1>2, <2>1, <2>3 DEF video
<1> HIDE DEF audio, video
<1>5. (\E x \in shown \cap Audio : o \in audio(x)) \/ (\E x \in shown \ Audio : o \in video(x))
  <2>1. o \in audios \/ o \in videos
    <3> HIDE DEF audios, videos
    <3> QED BY <1>1
  <2> HIDE DEF shown
  <2> QED BY <2>1
<1> QED BY <1>3, <1>4, <1>5

\* A report made of a first part that supplies it is good.
LEMMA ReportIsGood ==
    ASSUME NEW task, task.infos \in Infos, NEW partial, NEW undisturbed \in BOOLEAN,
           \A o \in partial : WellFormed(o) /\ o.refs = {},
           Supplies(partial, undisturbed, task.infos),
           undisturbed => task.transports = NamesOf(task.infos),
           NEW objects,
           objects = partial \cup ProcessResultsFromNetworkThread(task)
                        \cup ProduceDataChannelStats_s(task.data)
    PROVE  /\ \A o \in objects : WellFormed(o)
           /\ Resolves(objects, undisturbed)
<1> DEFINE infos == task.infos
           transports == task.transports
           network_objects == ProduceIceCandidateAndPairStats_s(transports)
                         \cup ProduceTransportStats_s(transports, task.certified)
                         \cup ProduceCertificateStats_s(task.certified)
           rtp == ProduceRTPStreamStats_s(infos, transports)
           channel_objects == ProduceDataChannelStats_s(task.data)
           Missing(ref) ==
              /\ ref[1] \in {"T", "S"}
              /\ undisturbed => ref \in Ids(objects)
<1>1. objects = partial \cup network_objects \cup rtp \cup channel_objects
  BY DEF ProcessResultsFromNetworkThread
<1>2. Ids(network_objects) \subseteq Ids(objects) /\ Ids(rtp) \subseteq Ids(objects)
      /\ Ids(partial) \subseteq Ids(objects)
  <2> HIDE DEF network_objects, rtp, channel_objects
  <2> QED BY <1>1 DEF Ids
<1>3. \A o \in network_objects : WellFormed(o) /\ o.refs \subseteq Ids(objects)
  <2>1. \A o \in network_objects :
           WellFormed(o) /\ \A ref \in o.refs : ref \in Ids(network_objects)
    BY TransportObjects
  <2> HIDE DEF network_objects
  <2> QED BY <1>2, <2>1
<1>4. \A o \in channel_objects : WellFormed(o) /\ o.refs = {}
  <2>1. \A o \in channel_objects : \E c : o = Object(<<"D", c>>, {})
    BY DEF ProduceDataChannelStats_s
  <2>2. ASSUME NEW c
        PROVE  /\ WellFormed(Object(<<"D", c>>, {})) /\ Object(<<"D", c>>, {}).refs = {}
    <3> DEFINE id == <<"D", c>>
    <3>1. id[1] = "D"
      OBVIOUS
    <3> HIDE DEF id
    <3>2. WellFormed(Object(id, {})) /\ Object(id, {}).refs = {}
      BY <3>1, PlainWellFormed, ObjectParts
    <3> QED BY <3>2 DEF id
  <2> QED BY <2>1, <2>2
<1>5. ASSUME NEW t \in transports PROVE TransportId(t) \in Ids(objects)
  <2>1. PICK refs : Object(TransportId(t), refs) \in ProduceTransportStats_s(transports, task.certified)
    BY DEF ProduceTransportStats_s
  <2>2. Object(TransportId(t), refs) \in network_objects
    BY <2>1
  <2>3. Object(TransportId(t), refs).id \in Ids(network_objects)
    <3> HIDE DEF network_objects
    <3> QED BY <2>2 DEF Ids
  <2>4. Object(TransportId(t), refs).id = TransportId(t)
    BY ObjectParts
  <2> HIDE DEF network_objects
  <2>5. TransportId(t) \in Ids(network_objects)
    BY <2>3, <2>4, Zenon
  <2> QED BY <1>2, <2>5
<1>6. ASSUME NEW o \in rtp
      PROVE  WellFormed(o) /\ \A ref \in o.refs : ref \in Ids(objects) \/ Missing(ref)
  <2>1. PICK x \in Transceivers, more \in SUBSET {Playout} :
             /\ infos[x].transport \in Transports /\ infos[x].transport # NoTransport
             /\ ~Stopped(infos[x])
             /\ more # {} => x \in Audio
             /\ o \in InboundStats(x, infos[x].transport, more)
                      \cup OutboundStats(x, infos[x], transports)
             /\ InboundStats(x, infos[x].transport, more)
                   \cup OutboundStats(x, infos[x], transports) \subseteq rtp
    BY <1>6, StreamObjects
  <2> DEFINE t == infos[x].transport
  <2>2. Ids(InboundStats(x, t, more)) \subseteq Ids(objects)
        /\ Ids(OutboundStats(x, infos[x], transports)) \subseteq Ids(objects)
    BY <1>2, <2>1, IdsGrow
  <2>3. WellFormed(o) /\ \A ref \in o.refs :
           \/ ref \in Ids(objects) \/ ref = TransportId(t) \/ ref \in more
           \/ infos[x].attachment # 0 /\ ref = MediaSourceId(infos[x].attachment)
    <3>1. CASE o \in InboundStats(x, t, more)
      BY <2>1, <2>2, <3>1, InboundObjects
    <3>2. CASE o \in OutboundStats(x, infos[x], transports)
      BY <2>1, <2>2, <3>2, OutboundObjects
    <3> QED BY <2>1, <3>1, <3>2
  <2>4. Missing(TransportId(t))
    <3>1. undisturbed => t \in transports
      BY <2>1 DEF NamesOf
    <3> QED BY <1>5, <3>1, IdParts
  <2>5. ASSUME infos[x].attachment # 0 PROVE Missing(MediaSourceId(infos[x].attachment))
    <3>1. undisturbed => Object(MediaSourceId(infos[x].attachment), {}) \in partial
      BY <2>1, <2>5 DEF Supplies
    <3>2. undisturbed => MediaSourceId(infos[x].attachment) \in Ids(partial)
      <4> SUFFICES ASSUME undisturbed PROVE MediaSourceId(infos[x].attachment) \in Ids(partial)
        OBVIOUS
      <4>1. Object(MediaSourceId(infos[x].attachment), {}).id \in Ids(partial)
        BY <3>1 DEF Ids
      <4> QED BY <4>1, ObjectParts
    <3> QED BY <1>2, <3>2, IdParts
  <2>6. \A ref \in more : ref \in Ids(objects)
    <3> SUFFICES ASSUME more # {} PROVE Playout \in Ids(objects)
      OBVIOUS
    <3>1. Object(Playout, {}) \in partial
      BY <2>1 DEF Supplies
    <3>2. Object(Playout, {}).id \in Ids(partial)
      BY <3>1 DEF Ids
    <3>3. Object(Playout, {}).id = Playout
      BY ObjectParts
    <3>4. Playout \in Ids(partial)
      BY <3>2, <3>3, Zenon
    <3> QED BY <1>2, <3>4
  <2> HIDE DEF Missing, t, infos, transports
  <2> QED BY <2>3, <2>4, <2>5, <2>6
<1>7. \A o \in objects :
         WellFormed(o) /\ \A ref \in o.refs : ref \in Ids(objects) \/ Missing(ref)
  <2> HIDE DEF network_objects, rtp, channel_objects, Missing
  <2> QED BY <1>1, <1>3, <1>4, <1>6
<1>8. ASSUME NEW id \in Dangling(objects) PROVE id[1] \in {"T", "S"} /\ ~undisturbed
  <2>1. PICK o \in objects : id \in o.refs /\ id \notin Ids(objects)
    BY DanglingIsReferred
  <2>2. Missing(id)
    <3> HIDE DEF Missing
    <3> QED BY <1>7, <2>1
  <2> QED BY <2>1, <2>2
<1> QED BY <1>7, <1>8 DEF Resolves

-----------------------------------------------------------------------------
(* The report of one sender or receiver.                                    *)

LEMMA FollowedMeans ==
    ASSUME NEW objects, NEW from, NEW o
    PROVE  o \in Followed(objects, from) <=>
              o \in from \/ (o \in objects /\ \E p \in from : o.id \in p.refs)
<1> DEFINE named == UNION {p.refs : p \in from}
           found == UNION {{w \in objects : w.id = id} : id \in named}
<1>1. \A id : id \in named <=> \E p \in from : id \in p.refs
  BY Zenon
<1> HIDE DEF named
<1>2. o \in found <=> \E id \in named : o \in objects /\ o.id = id
  <2>1. \A id : o \in {w \in objects : w.id = id} <=> o \in objects /\ o.id = id
    OBVIOUS
  <2>2. o \in found <=> \E id \in named : o \in {w \in objects : w.id = id}
    BY Zenon
  <2> QED BY <2>1, <2>2
<1>3. o \in Followed(objects, from) <=> o \in from \/ o \in found
  BY Zenon DEF Followed, named
<1> QED BY <1>1, <1>2, <1>3

LEMMA IdsMean ==
    ASSUME NEW objects, NEW id
    PROVE  id \in Ids(objects) <=> \E o \in objects : o.id = id
  BY DEF Ids

\* Four generations of references are enough: the streams, what they name, the
\* candidate pairs and certificates of a transport, and the candidates.
LEMMA ReachableResolves ==
    ASSUME NEW objects, NEW roots, NEW direction, NEW remote,
           \A o \in objects : WellFormed(o),
           \A s \in objects : s.id \in roots =>
              \E t : /\ {TransportId(t), CodecId(direction, t)} \subseteq s.refs
                     /\ \A ref \in s.refs :
                           \/ ref \in {TransportId(t), CodecId(direction, t), remote}
                           \/ ref[1] \in {"S", "AP"},
           \A q \in objects : q.id = remote =>
              \E t : \E s \in objects :
                 /\ s.id \in roots
                 /\ {TransportId(t), CodecId(direction, t)} \subseteq s.refs
                 /\ q.refs \subseteq {CodecId(direction, t), TransportId(t), s.id}
    PROVE  Dangling(Reachable(objects, roots)) \subseteq Dangling(objects)
<1> DEFINE streams == {o \in objects : o.id \in roots}
           ends == Followed(objects, streams)
           transports == Followed(objects, ends)
           all == Followed(objects, transports)
<1>1. /\ streams \subseteq ends /\ ends \subseteq transports /\ transports \subseteq all
      /\ all \subseteq objects
  <2>1. ASSUME NEW from, from \subseteq objects
        PROVE  from \subseteq Followed(objects, from) /\ Followed(objects, from) \subseteq objects
    BY <2>1, FollowedMeans
  <2>2. streams \subseteq objects
    OBVIOUS
  <2> HIDE DEF streams
  <2>3. streams \subseteq ends /\ ends \subseteq objects
    BY <2>1, <2>2
  <2> HIDE DEF ends
  <2>4. ends \subseteq transports /\ transports \subseteq objects
    BY <2>1, <2>3
  <2> HIDE DEF transports
  <2> QED BY <2>1, <2>3, <2>4
<1>2. /\ \A o \in objects, p \in streams : o.id \in p.refs => o \in ends
      /\ \A o \in objects, p \in ends : o.id \in p.refs => o \in transports
      /\ \A o \in objects, p \in transports : o.id \in p.refs => o \in all
  BY FollowedMeans
<1>3. /\ \A o \in all : o \notin transports => \E p \in transports : o.id \in p.refs
      /\ \A o \in transports : o \notin ends => \E p \in ends : o.id \in p.refs
      /\ \A o \in ends : o \notin streams => \E p \in streams : o.id \in p.refs
  BY FollowedMeans
<1>4. \A s \in streams : s.id \in roots
  OBVIOUS
<1>5. \A s \in objects : s.id \in roots => s \in streams
  OBVIOUS
<1>6. Reachable(objects, roots) = all
  BY DEF Reachable
<1> HIDE DEF streams, ends, transports, all
\* An object of the last generation alone is a candidate, and its transport is there.
<1>7. ASSUME NEW o \in all, o \notin transports, NEW id \in o.refs
      PROVE  id \in Ids(all)
  <2>1. PICK p \in transports : o.id \in p.refs
    BY <1>3, <1>7
  <2>2. p \notin ends
    BY <1>1, <1>2, <1>7, <2>1
  <2>3. PICK q \in ends : p.id \in q.refs
    BY <1>3, <2>2
  <2>4. q \notin streams
    BY <1>1, <1>2, <2>2, <2>3
  <2>5. PICK s \in streams : q.id \in s.refs
    BY <1>3, <2>4
  <2>6. /\ o \in objects /\ p \in objects /\ q \in objects /\ s \in objects
        /\ WellFormed(o) /\ WellFormed(p) /\ WellFormed(q)
    BY <1>1
  <2>7. PICK t : /\ {TransportId(t), CodecId(direction, t)} \subseteq s.refs
                 /\ \A ref \in s.refs :
                       \/ ref \in {TransportId(t), CodecId(direction, t), remote}
                       \/ ref[1] \in {"S", "AP"}
    BY <1>4, <2>6
  <2>8. q.id[1] \notin {"S", "AP"}
    BY <2>3, <2>6 DEF WellFormed
  <2>9. q.id # CodecId(direction, t)
    <3> SUFFICES ASSUME q.id = CodecId(direction, t) PROVE FALSE
      OBVIOUS
    <3>1. q.id[1] = "C" /\ q.id[3] = t
      BY IdParts
    <3>2. p.id = TransportId(t)
      BY <2>3, <2>6, <3>1 DEF WellFormed
    <3> QED BY <1>2, <2>2, <2>6, <2>7, <3>2
  <2>10. q.id # remote
    <3> SUFFICES ASSUME q.id = remote PROVE FALSE
      OBVIOUS
    <3>1. PICK u : \E r \in objects :
             /\ r.id \in roots
             /\ {TransportId(u), CodecId(direction, u)} \subseteq r.refs
             /\ q.refs \subseteq {CodecId(direction, u), TransportId(u), r.id}
      BY <2>6
    <3>2. PICK r \in objects :
             /\ r.id \in roots
             /\ {TransportId(u), CodecId(direction, u)} \subseteq r.refs
             /\ q.refs \subseteq {CodecId(direction, u), TransportId(u), r.id}
      BY <3>1
    <3>3. r \in streams
      BY <1>5, <3>2
    <3>4. p.id \in r.refs \/ p.id = r.id
      BY <2>3, <3>2
    <3>5. p \notin streams
      BY <1>1, <2>2
    <3> QED BY <1>2, <1>5, <2>2, <2>6, <3>2, <3>3, <3>4, <3>5
  <2>11. q.id = TransportId(t)
    BY <2>5, <2>7, <2>8, <2>9, <2>10
  <2>12. p.id \in {CandidatePairId(t), CertificateId(t), CertificateId("peer")}
    <3>1. TransportId(t)[1] = "T" /\ TransportId(t)[2] = t
      BY IdParts
    <3>2. q.id[1] = "T" /\ q.id[2] = t
      BY <2>11, <3>1
    <3> QED BY <2>3, <2>6, <3>2 DEF WellFormed
  <2>13. p.id = CandidatePairId(t)
    <3>1. p.id[1] # "CF"
      BY <2>1, <2>6 DEF WellFormed
    <3>2. \A of : CertificateId(of)[1] = "CF"
      BY IdParts
    <3> QED BY <2>12, <3>1, <3>2
  <2>14. o.id \in {CandidateId("local", t), CandidateId("remote", t), TransportId(t)}
    <3>1. p.id[1] = "CP" /\ p.id[2] = t
      BY <2>13, IdParts
    <3> QED BY <2>1, <2>6, <3>1 DEF WellFormed
  <2>15. o.id # TransportId(t)
    BY <1>1, <1>2, <1>7, <2>6, <2>7
  <2>16. id = TransportId(t)
    <3>1. PICK side \in {"local", "remote"} : o.id = CandidateId(side, t)
      BY <2>14, <2>15
    <3>2. o.id[1] = "I" /\ o.id[2] = t /\ o.id[3] = side
      BY <3>1, IdParts
    <3>3. o.refs \subseteq {TransportId(t)}
      BY <2>6, <3>2 DEF WellFormed
    <3> QED BY <1>7, <3>3
  <2>17. q \in all
    BY <1>1
  <2> QED BY <2>11, <2>16, <2>17, IdsMean
<1>8. ASSUME NEW id \in Dangling(all) PROVE id \in Dangling(objects)
  <2>1. id \notin Ids(all) /\ \E o \in all : id \in o.refs
    BY DanglingIsReferred
  <2>2. PICK o \in all : id \in o.refs
    BY <2>1
  <2>3. o \in transports
    BY <1>7, <2>1, <2>2
  <2>4. id \notin Ids(objects)
    BY <1>2, <2>1, <2>2, <2>3, IdsMean
  <2>5. o \in objects
    BY <1>1
  <2> QED BY <2>2, <2>4, <2>5, DanglingIsReferred
<1> QED BY <1>6, <1>8

\* A stream that is referred to and is no transport or source is in the report.
LEMMA ReferredIsThere ==
    ASSUME NEW objects, \A id \in Dangling(objects) : id[1] \in {"T", "S"},
           NEW q \in objects, NEW id \in q.refs, id[1] \notin {"T", "S"}
    PROVE  \E s \in objects : s.id = id
<1>1. id \notin Dangling(objects)
  OBVIOUS
<1>2. id \in Ids(objects)
  BY <1>1, DanglingIsReferred
<1> QED BY <1>2, IdsMean

LEMMA SenderResolves ==
    ASSUME NEW objects, NEW x,
           \A o \in objects : WellFormed(o),
           \A id \in Dangling(objects) : id[1] \in {"T", "S"}
    PROVE  Dangling(Reachable(objects, {OutboundId(t, KindOf(x), x) : t \in Transports}))
              \subseteq Dangling(objects)
<1> DEFINE k == KindOf(x)
           roots == {OutboundId(t, k, x) : t \in Transports}
           remote == RemoteInboundId(k, x)
<1> HIDE DEF k
<1>1. ASSUME NEW s \in objects, NEW t \in Transports, s.id = OutboundId(t, k, x)
      PROVE  /\ {TransportId(t), CodecId("O", t)} \subseteq s.refs
             /\ \A ref \in s.refs :
                   \/ ref \in {TransportId(t), CodecId("O", t), remote}
                   \/ ref[1] \in {"S", "AP"}
  <2>1. s.id[1] = "O" /\ s.id[2] = t /\ s.id[3] = k /\ s.id[4] = x
    BY <1>1, IdParts
  <2> QED BY <2>1 DEF WellFormed
<1>2. \A t \in Transports : OutboundId(t, k, x) \in roots
  OBVIOUS
<1>3. \A id \in roots : \E t \in Transports : id = OutboundId(t, k, x)
  OBVIOUS
<1> HIDE DEF roots
<1>4. ASSUME NEW s \in objects, s.id \in roots
      PROVE  \E t : /\ {TransportId(t), CodecId("O", t)} \subseteq s.refs
                    /\ \A ref \in s.refs :
                          \/ ref \in {TransportId(t), CodecId("O", t), remote}
                          \/ ref[1] \in {"S", "AP"}
  BY <1>1, <1>3, <1>4
<1>5. ASSUME NEW q \in objects, q.id = remote
      PROVE  \E t : \E s \in objects :
                /\ s.id \in roots
                /\ {TransportId(t), CodecId("O", t)} \subseteq s.refs
                /\ q.refs \subseteq {CodecId("O", t), TransportId(t), s.id}
  <2>1. q.id[1] = "RI" /\ q.id[2] = k /\ q.id[3] = x
    BY <1>5, IdParts
  <2>2. PICK t \in Transports :
           /\ OutboundId(t, k, x) \in q.refs
           /\ q.refs \subseteq {CodecId("O", t), TransportId(t), OutboundId(t, k, x)}
    BY <2>1 DEF WellFormed
  <2>3. OutboundId(t, k, x)[1] = "O"
    BY IdParts
  <2>4. PICK s \in objects : s.id = OutboundId(t, k, x)
    BY <2>2, <2>3, ReferredIsThere
  <2>5. s.id \in roots /\ {TransportId(t), CodecId("O", t)} \subseteq s.refs
    BY <1>1, <1>2, <2>4
  <2>6. q.refs \subseteq {CodecId("O", t), TransportId(t), s.id}
    BY <2>2, <2>4
  <2> QED BY <2>5, <2>6
<1> HIDE DEF remote
<1>6. Dangling(Reachable(objects, roots)) \subseteq Dangling(objects)
  BY <1>4, <1>5, ReachableResolves
<1> QED BY <1>6 DEF roots, k

LEMMA ReceiverResolves ==
    ASSUME NEW objects, NEW x,
           \A o \in objects : WellFormed(o),
           \A id \in Dangling(objects) : id[1] \in {"T", "S"}
    PROVE  Dangling(Reachable(objects, {InboundId(t, KindOf(x), x) : t \in Transports}))
              \subseteq Dangling(objects)
<1> DEFINE k == KindOf(x)
           roots == {InboundId(t, k, x) : t \in Transports}
           remote == RemoteOutboundId(k, x)
<1>k. k \in {"audio", "video"}
  BY KindOfStream
<1> HIDE DEF k
<1>1. ASSUME NEW s \in objects, NEW t \in Transports, s.id = InboundId(t, k, x)
      PROVE  /\ {TransportId(t), CodecId("I", t)} \subseteq s.refs
             /\ \A ref \in s.refs :
                   \/ ref \in {TransportId(t), CodecId("I", t), remote}
                   \/ ref[1] \in {"S", "AP"}
  <2>1. s.id[1] = "I" /\ s.id[2] = t /\ s.id[3] = k /\ s.id[4] = x
    BY <1>1, IdParts
  <2>2. Playout[1] = "AP"
    BY IdParts
  <2> QED BY <1>k, <2>1, <2>2 DEF WellFormed
<1>2. \A t \in Transports : InboundId(t, k, x) \in roots
  OBVIOUS
<1>3. \A id \in roots : \E t \in Transports : id = InboundId(t, k, x)
  OBVIOUS
<1> HIDE DEF roots
<1>4. ASSUME NEW s \in objects, s.id \in roots
      PROVE  \E t : /\ {TransportId(t), CodecId("I", t)} \subseteq s.refs
                    /\ \A ref \in s.refs :
                          \/ ref \in {TransportId(t), CodecId("I", t), remote}
                          \/ ref[1] \in {"S", "AP"}
  BY <1>1, <1>3, <1>4
<1>5. ASSUME NEW q \in objects, q.id = remote
      PROVE  \E t : \E s \in objects :
                /\ s.id \in roots
                /\ {TransportId(t), CodecId("I", t)} \subseteq s.refs
                /\ q.refs \subseteq {CodecId("I", t), TransportId(t), s.id}
  <2>1. q.id[1] = "RO" /\ q.id[2] = k /\ q.id[3] = x
    BY <1>5, IdParts
  <2>2. PICK t \in Transports :
           /\ InboundId(t, k, x) \in q.refs
           /\ q.refs \subseteq {CodecId("I", t), TransportId(t), InboundId(t, k, x)}
    BY <2>1 DEF WellFormed
  <2>3. InboundId(t, k, x)[1] = "I"
    BY IdParts
  <2>4. PICK s \in objects : s.id = InboundId(t, k, x)
    BY <2>2, <2>3, ReferredIsThere
  <2>5. s.id \in roots /\ {TransportId(t), CodecId("I", t)} \subseteq s.refs
    BY <1>1, <1>2, <2>4
  <2>6. q.refs \subseteq {CodecId("I", t), TransportId(t), s.id}
    BY <2>2, <2>4
  <2> QED BY <2>5, <2>6
<1> HIDE DEF remote
<1>6. Dangling(Reachable(objects, roots)) \subseteq Dangling(objects)
  BY <1>4, <1>5, ReachableResolves
<1> QED BY <1>6 DEF roots, k

\* What is delivered of a good report misses no more than the report does.
LEMMA DeliveredIsGood ==
    ASSUME TypeInv, NEW request, NEW report, Good(report), FreshFor(request, report),
           AnswersGood, DeliverReport(request, report), UNCHANGED asked
    PROVE  AnswersGood'
<1> DEFINE filter == asked[request].filter
           shown == IF filter.kind = "all" THEN report.objects
                    ELSE CreateReportFilteredBySelector(filter, report.objects)
           answer == [request |-> request, started |-> report.started,
                      collection |-> report.collection,
                      undisturbed |-> report.undisturbed, missing |-> Dangling(shown)]
<1>1. answers' = Append(answers, answer)
  BY DEF DeliverReport
<1>2. Dangling(shown) \subseteq Dangling(report.objects)
  <2>1. \A o \in report.objects : WellFormed(o)
    BY DEF Good
  <2>2. \A id \in Dangling(report.objects) : id[1] \in {"T", "S"}
    BY DEF Good, Resolves
  <2>3. CASE filter.kind = "all"
    BY <2>3
  <2>4. CASE filter.kind # "all" /\ filter.kind = "sender"
    <3>1. Dangling(Reachable(report.objects,
             {OutboundId(t, KindOf(filter.of), filter.of) : t \in Transports}))
             \subseteq Dangling(report.objects)
      BY <2>1, <2>2, SenderResolves
    <3> QED BY <2>4, <3>1 DEF CreateReportFilteredBySelector
  <2>5. CASE filter.kind # "all" /\ filter.kind # "sender"
    <3>1. Dangling(Reachable(report.objects,
             {InboundId(t, KindOf(filter.of), filter.of) : t \in Transports}))
             \subseteq Dangling(report.objects)
      BY <2>1, <2>2, ReceiverResolves
    <3> QED BY <2>5, <3>1 DEF CreateReportFilteredBySelector
  <2> QED BY <2>3, <2>4, <2>5
<1>3. /\ answer.request = request /\ answer.started = report.started
      /\ answer.collection = report.collection
      /\ answer.undisturbed = report.undisturbed /\ answer.missing = Dangling(shown)
  OBVIOUS
<1> HIDE DEF answer, shown
<1>4. /\ \A id \in answer.missing : id[1] \in {"T", "S"}
      /\ answer.undisturbed => answer.missing = {}
  BY <1>2, <1>3 DEF Good, Resolves
<1>5. FreshFor(answer.request, answer)
  BY <1>3 DEF FreshFor
<1>6. Held(Append(answers, answer)) = Held(answers) \cup {answer}
  BY QueuesAreSequences, HeldAfterAppend
<1>7. Held(answers)' = Held(answers) \cup {answer}
  BY <1>1, <1>6 DEF Held
<1> QED BY <1>4, <1>5, <1>7 DEF AnswersGood, FreshFor

-----------------------------------------------------------------------------
(* What a collection carries.                                               *)

\* Steps other than the collection's own leave its context as it is, end it, or
\* mark it.
LEMMA OthersContext ==
    ASSUME TypeInv, \/ OtherCall \/ Skip \/ ClearCertificates \/ OnNetworkReportReady
                    \/ DeliverNext \/ DeliverTask
    PROVE  \/ UNCHANGED <<collection_context_, transceivers>>
           \/ collection_context_' = None
           \/ /\ collection_context_ # None
              /\ collection_context_' = [started |-> collection_context_.started,
                                         partial |-> collection_context_.partial,
                                         undisturbed |-> FALSE]
<1>1. CASE Disturb
  BY <1>1, DisturbedContext DEF TypeInv
<1>2. CASE collection_context_' = None
  BY <1>2
<1>3. CASE UNCHANGED <<collection_context_, transceivers>>
  BY <1>3
<1>4. Disturb \/ collection_context_' = None \/ UNCHANGED <<collection_context_, transceivers>>
  BY DEF OtherCall, ClearCachedStatsReport, Negotiate, Stop, ReplaceTrack, peer,
     OnSctpDataChannelStateChanged, CancelPendingRequestAndGetShutdownTasks,
     ShutdownTasks, Tick, vars, Skip, ClearCertificates, OnNetworkReportReady, ContextLeft,
     DeliverNext, DeliverTask
<1> QED BY <1>1, <1>2, <1>3, <1>4

\* The context after the first part of the report was made.
LEMMA PartialContext ==
    ASSUME TypeInv, RequestsAccounted, ProducePartialResultsOnSignalingThread
    PROVE  /\ collection_context_ # None
           /\ collection_context_' =
                 [started |-> collection_context_.started,
                  partial |-> collection_context_.partial
                     \cup ProduceMediaSourceStats_s(Head(signaling).infos)
                     \cup ProducePeerConnectionStats_s
                     \cup ProduceAudioPlayoutStats_s(Head(signaling).infos),
                  undisturbed |-> collection_context_.undisturbed]
           /\ UNCHANGED <<peer, asked, cache, delivering, answers,
                          cached_certificates_by_transport_, network_alive>>
<1>1. signaling # <<>> /\ Head(signaling).kind = "worker_result" /\ signaling_alive
  BY DEF ProducePartialResultsOnSignalingThread, Take
<1>2. \E k \in DOMAIN signaling : signaling[k].kind # "deliver"
  BY <1>1, QueuesAreSequences, TailFacts
<1>3. collection_context_ # None
  BY <1>1, <1>2, ContextThere
<1> QED BY <1>3, ContextChanged
        DEF ProducePartialResultsOnSignalingThread, TypeInv, ContextTyped, alive

LEMMA InitCarries == Init => CarriesCurrent /\ PartialSupplies
  BY DEF Init, CarriesCurrent, PartialSupplies

LEMMA NextCarries ==
    ASSUME TypeInv, RequestsAccounted, CarriesCurrent, [Next]_vars
    PROVE  CarriesCurrent'
<1> SUFFICES ASSUME collection_context_' # None, collection_context_'.undisturbed
             PROVE  /\ \A task \in Held(worker)' \cup Results' \cup Collects' :
                          task.infos = transceivers'
                    /\ \A task \in NetworkResults' : task.transports = Existing'
  BY DEF CarriesCurrent
<1>1. CASE GetStatsReportInternal
  <2>1. transceivers' = transceivers /\ Existing' = Existing
    BY <1>1 DEF GetStatsReportInternal, peer, Existing
  <2>2. NetworkResults' \subseteq Results'
    BY DEF NetworkResults, Results, OfCollection
  <2>3. CASE collection_context_' = collection_context_ /\ worker' = worker
    <3>1. Held(worker)' = Held(worker)
      BY <2>3 DEF Held
    <3>2. Results' = Results /\ NetworkResults' = NetworkResults /\ Collects' = Collects
      BY <1>1, GetStatsHolds
    <3> QED BY <2>1, <2>3, <3>1, <3>2 DEF CarriesCurrent
  <2>4. CASE /\ Held(worker)' = {[infos |-> transceivers]}
             /\ Results = {} /\ Collects = {}
    <3>1. Results' = {} /\ NetworkResults' = {} /\ Collects' = {}
      BY <1>1, <2>2, <2>4, GetStatsHolds
    <3> QED BY <2>1, <2>4, <3>1
  <2> QED BY <1>1, <2>3, <2>4, GetStatsHolds
<1>2. CASE WorkerTask
  <2>1. /\ UNCHANGED <<collection_context_, transceivers>> /\ Existing' = Existing
    BY <1>2 DEF WorkerTask, peer, Existing
  <2> QED BY <1>2, <2>1, WorkerHolds DEF CarriesCurrent
<1>3. CASE ProducePartialResultsOnSignalingThread
  <2>1. transceivers' = transceivers /\ Existing' = Existing
    BY <1>3 DEF ProducePartialResultsOnSignalingThread, peer, Existing
  <2>2. collection_context_ # None /\ collection_context_.undisturbed
    BY <1>3, PartialContext
  <2>3. PICK task, names :
           /\ task \in Results
           /\ worker' = worker
           /\ Results' \subseteq Results /\ NetworkResults' \subseteq NetworkResults
           /\ Collects' \subseteq Collects
                 \cup {[kind |-> "collect", infos |-> task.infos, names |-> names]}
    BY <1>3, PartialHolds
  <2>4. Held(worker)' = Held(worker)
    BY <2>3 DEF Held
  <2> QED BY <2>1, <2>2, <2>3, <2>4 DEF CarriesCurrent
<1>4. CASE ProducePartialResultsOnNetworkThread
  <2>1. UNCHANGED <<collection_context_, transceivers>> /\ Existing' = Existing
    BY <1>4 DEF ProducePartialResultsOnNetworkThread, peer, Existing
  <2>2. /\ Head(network) \in Collects /\ Held(worker)' = Held(worker)
        /\ Collects' \subseteq Collects
    BY <1>4, NetworkHolds DEF Held
  <2>3. Head(network).infos = transceivers
    BY <2>1, <2>2 DEF CarriesCurrent
  <2>4. Head(network).names \cap Existing = Existing
    <3>1. Head(network).names = NamesOf(transceivers)
      BY <2>2, <2>3, HeldTyped
    <3> QED BY <3>1 DEF NamesOf, Existing
  <2>5. CASE signaling' = signaling
    <3>1. Results' = Results /\ NetworkResults' = NetworkResults
      BY <2>5 DEF Results, NetworkResults, Held
    <3> QED BY <2>1, <2>2, <3>1 DEF CarriesCurrent
  <2>6. CASE \E result : /\ result.infos = Head(network).infos
                         /\ result.transports = Head(network).names \cap Existing
                         /\ Held(signaling)' = Held(signaling) \cup {result}
    <3>1. PICK result : /\ result.infos = Head(network).infos
                        /\ result.transports = Head(network).names \cap Existing
                        /\ Held(signaling)' = Held(signaling) \cup {result}
      BY <2>6
    <3>2. /\ Results' \subseteq Results \cup {result}
          /\ NetworkResults' \subseteq NetworkResults \cup {result}
      BY <3>1 DEF Results, NetworkResults, OfCollection
    <3> QED BY <2>1, <2>2, <2>3, <2>4, <3>1, <3>2 DEF CarriesCurrent
  <2> QED BY <1>4, <2>5, <2>6, NetworkHolds
<1>5. CASE \/ OtherCall \/ Skip \/ ClearCertificates \/ OnNetworkReportReady
           \/ DeliverNext \/ DeliverTask
  <2>1. UNCHANGED <<collection_context_, transceivers>>
    <3>1. ~[started |-> collection_context_.started,
            partial |-> collection_context_.partial, undisturbed |-> FALSE].undisturbed
      OBVIOUS
    <3> QED BY <1>5, <3>1, OthersContext
  <2>2. Existing' = Existing
    BY <2>1 DEF Existing
  <2>3. Held(worker)' = Held(worker)
    BY <1>5, OthersHold DEF Held
  <2> QED BY <1>5, <2>1, <2>2, <2>3, OthersHold DEF CarriesCurrent
<1>6. <1>1!1 \/ <1>2!1 \/ <1>3!1 \/ <1>4!1 \/ <1>5!1
  BY DEF Next, SignalingTask, NetworkTask, OtherCall
<1> QED BY <1>1, <1>2, <1>3, <1>4, <1>5, <1>6

\* More objects supply no less.
LEMMA SuppliesMore ==
    ASSUME NEW partial, NEW more, NEW undisturbed, NEW infos,
           Supplies(partial, undisturbed, infos), partial \subseteq more
    PROVE  Supplies(more, undisturbed, infos)
  BY DEF Supplies

LEMMA NextSupplies ==
    ASSUME TypeInv, RequestsAccounted, CarriesCurrent, PartialSupplies, [Next]_vars
    PROVE  PartialSupplies'
<1> DEFINE Plain(partial) == \A o \in partial : WellFormed(o) /\ o.refs = {}
           context == collection_context_
<1> SUFFICES ASSUME context' # None
             PROVE  /\ Plain(context'.partial)
                    /\ \A task \in NetworkResults' \cup Collects' :
                          Supplies(context'.partial, context'.undisturbed, task.infos)
  BY DEF PartialSupplies
<1>1. CASE GetStatsReportInternal
  <2>1. CASE context' = context
    BY <1>1, <2>1, GetStatsHolds DEF PartialSupplies
  <2>2. CASE /\ context' = [started |-> now, partial |-> {}, undisturbed |-> TRUE]
             /\ Results = {} /\ Collects = {}
    <3>1. NetworkResults' = {} /\ Collects' = {}
      BY <1>1, <2>2, GetStatsHolds DEF NetworkResults, Results, OfCollection
    <3>2. context'.partial = {}
      BY <2>2
    <3> QED BY <3>1, <3>2
  <2> QED BY <1>1, <2>1, <2>2, GetStatsHolds
<1>2. CASE WorkerTask
  <2>1. context' = context
    BY <1>2 DEF WorkerTask
  <2> QED BY <1>2, <2>1, WorkerHolds DEF PartialSupplies
<1>3. CASE ProducePartialResultsOnSignalingThread
  <2> DEFINE infos == Head(signaling).infos
             sources == ProduceMediaSourceStats_s(infos)
             playout == ProduceAudioPlayoutStats_s(infos)
             more == sources \cup ProducePeerConnectionStats_s \cup playout
  <2>1. /\ context # None
        /\ context' = [started |-> context.started, partial |-> context.partial \cup more,
                       undisturbed |-> context.undisturbed]
    <3>1. context.partial \cup more = context.partial \cup sources
             \cup ProducePeerConnectionStats_s \cup playout
      OBVIOUS
    <3> QED BY <1>3, <3>1, PartialContext
  <2>2. context'.partial = context.partial \cup more
        /\ context'.undisturbed = context.undisturbed
    BY <2>1
  <2>3. Plain(more)
    <3>1. ASSUME NEW o \in more
          PROVE  \E id : id[1] \in {"S", "P", "AP"} /\ o = Object(id, {})
      <4>1. CASE o \in sources
        BY <4>1, IdParts DEF ProduceMediaSourceStats_s
      <4>2. CASE o \in ProducePeerConnectionStats_s
        BY <4>2 DEF ProducePeerConnectionStats_s
      <4>3. CASE o \in playout
        BY <4>3, IdParts DEF ProduceAudioPlayoutStats_s
      <4> QED BY <3>1, <4>1, <4>2, <4>3
    <3>2. ASSUME NEW id, id[1] \in {"S", "P", "AP"}
          PROVE  WellFormed(Object(id, {})) /\ Object(id, {}).refs = {}
      BY <3>2, PlainWellFormed, ObjectParts
    <3> QED BY <3>1, <3>2
  <2>4. PICK task, names :
           /\ task \in Results
           /\ task = Head(signaling)
           /\ NetworkResults' \subseteq NetworkResults
           /\ Collects' \subseteq Collects
                 \cup {[kind |-> "collect", infos |-> task.infos, names |-> names]}
    BY <1>3, PartialHolds
  <2>5. Supplies(more, context.undisturbed, infos)
    <3>1. ASSUME NEW x \in Audio, ~Stopped(infos[x]) PROVE Object(Playout, {}) \in more
      BY <3>1 DEF ProduceAudioPlayoutStats_s
    <3>2. ASSUME context.undisturbed, NEW x \in Transceivers, ~Stopped(infos[x]),
                 infos[x].attachment # 0
          PROVE  Object(MediaSourceId(infos[x].attachment), {}) \in more
      <4>1. infos = transceivers
        BY <2>1, <2>4, <3>2 DEF CarriesCurrent
      <4>2. Object(MediaSourceId(transceivers[x].attachment), {}) \in sources
        BY <3>2, <4>1 DEF ProduceMediaSourceStats_s
      <4> QED BY <4>1, <4>2
    <3> HIDE DEF more, infos
    <3> QED BY <3>1, <3>2 DEF Supplies
  <2> HIDE DEF more, infos, Plain
  <2>6. \A other \in NetworkResults \cup Collects :
           Supplies(context.partial \cup more, context.undisturbed, other.infos)
    BY <2>1, SuppliesMore DEF PartialSupplies
  <2>7. Supplies(context.partial \cup more, context.undisturbed, task.infos)
    BY <2>4, <2>5, SuppliesMore DEF infos
  <2>8. Plain(context.partial \cup more)
    BY <2>1, <2>3 DEF Plain, PartialSupplies
  <2>9. \A other \in NetworkResults' \cup Collects' :
           other \in NetworkResults \cup Collects \/ other.infos = task.infos
    BY <2>4
  <2>10. \A other \in NetworkResults' \cup Collects' :
            Supplies(context.partial \cup more, context.undisturbed, other.infos)
    BY <2>6, <2>7, <2>9
  <2> HIDE DEF context
  <2> QED BY <2>2, <2>8, <2>10 DEF Plain
<1>4. CASE ProducePartialResultsOnNetworkThread
  <2>1. context' = context
    BY <1>4 DEF ProducePartialResultsOnNetworkThread
  <2>2. Head(network) \in Collects /\ Collects' \subseteq Collects
    BY <1>4, NetworkHolds
  <2>3. CASE signaling' = signaling
    <3>1. NetworkResults' = NetworkResults
      BY <2>3 DEF NetworkResults, Held
    <3> QED BY <2>1, <2>2, <3>1 DEF PartialSupplies
  <2>4. CASE \E result : /\ result.infos = Head(network).infos
                         /\ Held(signaling)' = Held(signaling) \cup {result}
    <3>1. PICK result : /\ result.infos = Head(network).infos
                        /\ Held(signaling)' = Held(signaling) \cup {result}
      BY <2>4
    <3>2. NetworkResults' \subseteq NetworkResults \cup {result}
      BY <3>1 DEF NetworkResults
    <3> QED BY <2>1, <2>2, <3>1, <3>2 DEF PartialSupplies
  <2> QED BY <1>4, <2>3, <2>4, NetworkHolds
<1>5. CASE \/ OtherCall \/ Skip \/ ClearCertificates \/ OnNetworkReportReady
           \/ DeliverNext \/ DeliverTask
  <2>1. NetworkResults' \subseteq NetworkResults /\ Collects' \subseteq Collects
    BY <1>5, OthersHold
  <2>2. CASE context' = context
    BY <2>1, <2>2 DEF PartialSupplies
  <2>3. CASE /\ context # None
             /\ context' = [started |-> context.started, partial |-> context.partial,
                            undisturbed |-> FALSE]
    <3>1. context'.partial = context.partial /\ context'.undisturbed = FALSE
      BY <2>3
    <3>2. \A task \in NetworkResults \cup Collects :
             Supplies(context.partial, FALSE, task.infos)
      BY <2>3 DEF PartialSupplies, Supplies
    <3> QED BY <2>1, <2>3, <3>1, <3>2 DEF PartialSupplies
  <2> QED BY <1>5, <2>2, <2>3, OthersContext
<1>6. <1>1!1 \/ <1>2!1 \/ <1>3!1 \/ <1>4!1 \/ <1>5!1
  BY DEF Next, SignalingTask, NetworkTask, OtherCall
<1> QED BY <1>1, <1>2, <1>3, <1>4, <1>5, <1>6

\* A clearing that comes first still does when something is posted behind it.
LEMMA ClearedFirstLasts ==
    ASSUME TypeInv, ClearedFirst,
           \/ network' = network \/ \E task : network' = Append(network, task)
    PROVE  ClearedFirst'
<1>1. CASE network' = network
  BY <1>1 DEF ClearedFirst
<1>2. CASE \E task : network' = Append(network, task)
  <2>1. /\ DOMAIN network' = 1..(Len(network) + 1) /\ DOMAIN network = 1..Len(network)
        /\ Len(network) \in Nat /\ \A k \in DOMAIN network : network'[k] = network[k]
    BY <1>2, QueuesAreSequences, AppendFacts
  <2>2. PICK k \in DOMAIN network :
           network[k].kind = "clear" /\ \A j \in 1..(k - 1) : network[j].kind # "collect"
    BY DEF ClearedFirst
  <2>3. k \in DOMAIN network' /\ \A j \in 1..(k - 1) : j \in DOMAIN network
    BY <2>1, <2>2
  <2> QED BY <2>1, <2>2, <2>3 DEF ClearedFirst
<1> QED BY <1>1, <1>2

\* Negotiation outside of a collection puts a clearing at the head of the tasks.
LEMMA ClearPostedFirst ==
    ASSUME TypeInv, RequestsAccounted, signaling_alive, collection_context_ = None,
           network' = Append(network, [kind |-> "clear"])
    PROVE  ClearedFirst'
<1>1. /\ DOMAIN network' = 1..(Len(network) + 1) /\ DOMAIN network = 1..Len(network)
      /\ Len(network) \in Nat /\ \A k \in DOMAIN network : network'[k] = network[k]
      /\ network'[Len(network) + 1] = [kind |-> "clear"]
  BY QueuesAreSequences, AppendFacts
<1>2. \A k \in DOMAIN network : network[k].kind = "clear"
  BY NothingInFlight
<1>3. Len(network) + 1 \in DOMAIN network' /\ network'[Len(network) + 1].kind = "clear"
  BY <1>1
<1>4. \A j \in 1..(Len(network) + 1 - 1) : network'[j].kind # "collect"
  BY <1>1, <1>2
<1> QED BY <1>3, <1>4 DEF ClearedFirst

\* A collection that the network thread takes was not overtaken by a clearing.
LEMMA CollectAtHead ==
    ASSUME TypeInv, network # <<>>, Head(network).kind = "collect"
    PROVE  ~ClearedFirst
<1>1. /\ DOMAIN network = 1..Len(network) /\ Len(network) \in Nat
      /\ Head(network) = network[1]
  BY QueuesAreSequences, TailFacts
<1> SUFFICES ASSUME NEW k \in DOMAIN network, network[k].kind = "clear",
                    \A j \in 1..(k - 1) : network[j].kind # "collect"
             PROVE  FALSE
  BY DEF ClearedFirst
<1>2. CASE k = 1
  BY <1>1, <1>2
<1>3. CASE k # 1
  <2>1. 1 \in 1..(k - 1)
    BY <1>1, <1>3
  <2> QED BY <1>1, <2>1
<1> QED BY <1>2, <1>3

LEMMA InitCertificates == Init => CertificatesCurrent
  BY DEF Init, CertificatesCurrent, Held, Results, NetworkResults, Collects

\* Steps that post no task of a collection.
LEMMA CertificatesKept ==
    ASSUME TypeInv, CertificatesCurrent, ~raced,
           Held(worker)' \subseteq Held(worker), Results' \subseteq Results,
           NetworkResults' \subseteq NetworkResults, Collects' \subseteq Collects,
           Existing' \subseteq Existing,
           cached_certificates_by_transport_' = cached_certificates_by_transport_,
           network_alive' => network_alive,
           \/ network' = network \/ \E task : network' = Append(network, task)
    PROVE  CertificatesCurrent'
<1>1. ClearedFirst => ClearedFirst'
  BY ClearedFirstLasts
<1> QED BY <1>1 DEF CertificatesCurrent

LEMMA NextKeepsCertificates ==
    ASSUME TypeInv, RequestsAccounted, CertificatesCurrent, [Next]_vars
    PROVE  CertificatesCurrent'
<1> SUFFICES ASSUME ~raced' PROVE CertificatesCurrent'
  BY DEF CertificatesCurrent
<1>0. ~raced
  BY DEF Next, SignalingTask, NetworkTask, GetStatsReportInternal, WorkerTask, Skip, peer,
     ProducePartialResultsOnSignalingThread, OnNetworkReportReady, DeliverNext, DeliverTask,
     ProducePartialResultsOnNetworkThread, ClearCertificates, ClearCachedStatsReport,
     Negotiate, Stop, ReplaceTrack, OnSctpDataChannelStateChanged,
     CancelPendingRequestAndGetShutdownTasks, ShutdownTasks, Tick, vars
<1>1. CASE GetStatsReportInternal
  <2>1. /\ Existing' = Existing /\ network' = network /\ network_alive' = network_alive
        /\ cached_certificates_by_transport_' = cached_certificates_by_transport_
        /\ (ClearedFirst' <=> ClearedFirst)
    BY <1>1 DEF GetStatsReportInternal, peer, Existing, alive, ClearedFirst
  <2>2. /\ Results' = Results /\ NetworkResults' = NetworkResults /\ Collects' = Collects
    BY <1>1, GetStatsHolds
  <2>3. Held(worker)' \subseteq Held(worker) \cup {[infos |-> transceivers]}
    BY <1>1, GetStatsHolds DEF Held
  <2>4. Existing \subseteq NamesOf(transceivers)
    BY DEF Existing, NamesOf
  <2>5. \A task \in Held(worker)' : Existing \subseteq NamesOf(task.infos)
    BY <1>0, <2>3, <2>4 DEF CertificatesCurrent
  <2> QED BY <1>0, <2>1, <2>2, <2>5 DEF CertificatesCurrent
<1>2. CASE WorkerTask
  <2>1. /\ Existing' = Existing /\ network' = network /\ network_alive' = network_alive
        /\ cached_certificates_by_transport_' = cached_certificates_by_transport_
        /\ (ClearedFirst' <=> ClearedFirst)
    BY <1>2 DEF WorkerTask, peer, Existing, alive, ClearedFirst
  <2>2. PICK task \in Held(worker) :
             /\ Held(worker)' \subseteq Held(worker) /\ Collects' = Collects
             /\ Results' \subseteq Results
                   \cup {[kind |-> "worker_result", infos |-> task.infos]}
             /\ NetworkResults' = NetworkResults
    BY <1>2, WorkerHolds
  <2>3. \A other \in Results' : other \in Results \/ other.infos = task.infos
    BY <2>2
  <2>4. \A other \in Held(worker)' \cup Results' \cup Collects' :
           Existing \subseteq NamesOf(other.infos)
    BY <1>0, <2>2, <2>3 DEF CertificatesCurrent
  <2> QED BY <1>0, <2>1, <2>2, <2>4 DEF CertificatesCurrent
<1>3. CASE ProducePartialResultsOnSignalingThread
  <2>1. /\ Existing' = Existing /\ network_alive' = network_alive
        /\ cached_certificates_by_transport_' = cached_certificates_by_transport_
        /\ \E task : network' = Append(network, task)
    BY <1>3 DEF ProducePartialResultsOnSignalingThread, peer, Existing, alive, PostTo
  <2>2. PICK task, names :
             /\ task \in Results
             /\ worker' = worker
             /\ Results' \subseteq Results /\ NetworkResults' \subseteq NetworkResults
             /\ Collects' \subseteq Collects
                   \cup {[kind |-> "collect", infos |-> task.infos, names |-> names]}
    BY <1>3, PartialHolds
  <2>3. \A other \in Collects' : other \in Collects \/ other.infos = task.infos
    BY <2>2
  <2>4. Held(worker)' = Held(worker)
    BY <2>2 DEF Held
  <2>5. \A other \in Held(worker)' \cup Results' \cup Collects' :
           Existing \subseteq NamesOf(other.infos)
    BY <1>0, <2>2, <2>3, <2>4 DEF CertificatesCurrent
  <2>6. ClearedFirst => ClearedFirst'
    BY <2>1, ClearedFirstLasts
  <2> QED BY <1>0, <2>1, <2>2, <2>5, <2>6 DEF CertificatesCurrent
<1>4. CASE ProducePartialResultsOnNetworkThread
  <2>1. /\ Existing' = Existing /\ network_alive' = network_alive
        /\ network # <<>> /\ Head(network).kind = "collect"
    BY <1>4 DEF ProducePartialResultsOnNetworkThread, peer, Existing, alive
  <2>2. /\ Head(network) \in Collects /\ Held(worker)' = Held(worker)
        /\ Collects' \subseteq Collects
    BY <1>4, NetworkHolds DEF Held
  <2>3. Existing \subseteq NamesOf(Head(network).infos)
    BY <1>0, <2>2 DEF CertificatesCurrent
  <2>4. CASE ~network_alive /\ signaling' = signaling
    <3>1. Results' = Results /\ NetworkResults' = NetworkResults
      BY <2>4 DEF Results, NetworkResults, Held
    <3> QED BY <1>0, <2>1, <2>2, <2>4, <3>1 DEF CertificatesCurrent
  <2>5. CASE \E result :
                /\ network_alive
                /\ result.infos = Head(network).infos
                /\ result.transports = Head(network).names \cap Existing
                /\ result.certified = PrepareTransportCertificateStats_n(result.transports)
                /\ cached_certificates_by_transport_' = result.certified
                /\ Held(signaling)' = Held(signaling) \cup {result}
    <3>1. PICK result :
                /\ network_alive
                /\ result.infos = Head(network).infos
                /\ result.transports = Head(network).names \cap Existing
                /\ result.certified = PrepareTransportCertificateStats_n(result.transports)
                /\ cached_certificates_by_transport_' = result.certified
                /\ Held(signaling)' = Held(signaling) \cup {result}
      BY <2>5
    <3>2. result.transports = Existing
      BY <2>2, <2>3, <3>1, HeldTyped
    <3>3. Existing \subseteq result.certified
      <4>1. \/ cached_certificates_by_transport_ = {}
            \/ Existing \subseteq cached_certificates_by_transport_
        BY <1>0, <2>1, <3>1, CollectAtHead DEF CertificatesCurrent
      <4> QED BY <3>1, <3>2, <4>1 DEF PrepareTransportCertificateStats_n
    <3>4. /\ Results' \subseteq Results \cup {result}
          /\ NetworkResults' \subseteq NetworkResults \cup {result}
      BY <3>1 DEF Results, NetworkResults, OfCollection
    <3>5. \A other \in Held(worker)' \cup Results' \cup Collects' :
             Existing \subseteq NamesOf(other.infos)
      BY <1>0, <2>2, <2>3, <3>1, <3>4 DEF CertificatesCurrent
    <3>6. \A other \in NetworkResults' : other.transports \subseteq other.certified
      BY <1>0, <3>2, <3>3, <3>4 DEF CertificatesCurrent
    <3> QED BY <2>1, <3>1, <3>3, <3>5, <3>6 DEF CertificatesCurrent
  <2> QED BY <1>4, <2>4, <2>5, NetworkHolds
<1>5. CASE ClearCertificates
  <2>1. /\ Existing' = Existing /\ network_alive' = network_alive
        /\ network_alive => cached_certificates_by_transport_' = {}
    BY <1>5 DEF ClearCertificates, peer, Existing, alive
  <2>2. /\ Held(worker)' = Held(worker) /\ Results' \subseteq Results
        /\ NetworkResults' \subseteq NetworkResults /\ Collects' \subseteq Collects
    BY <1>5, OthersHold DEF Held
  <2> QED BY <1>0, <2>1, <2>2 DEF CertificatesCurrent
<1>6. CASE Negotiate
  <2>1. /\ collection_context_ = None /\ signaling_alive
        /\ network' = Append(network, [kind |-> "clear"])
    BY <1>6 DEF Negotiate, Change, Clear, CertificatesToo, PostTo
  <2>2. worker = <<>> /\ Results = {} /\ NetworkResults = {} /\ Collects = {}
    BY <2>1, NothingInFlight DEF Results, NetworkResults, Collects, Held, OfCollection
  <2>3. Held(worker)' = {} /\ Results' = {} /\ NetworkResults' = {} /\ Collects' = {}
    <3>1. OtherCall
      BY <1>6 DEF OtherCall
    <3>2. worker' = <<>>
      BY <2>2, <3>1, OthersHold
    <3> QED BY <2>2, <3>1, <3>2, OthersHold DEF Held
  <2>4. ClearedFirst'
    BY <2>1, ClearPostedFirst
  <2> QED BY <2>3, <2>4 DEF CertificatesCurrent
<1>7. CASE Stop
  <2>1. /\ network' = network /\ network_alive' = network_alive
        /\ cached_certificates_by_transport_' = cached_certificates_by_transport_
    BY <1>7 DEF Stop, Change, alive
  <2>2. Existing' \subseteq Existing
    <3>1. PICK x \in Transceivers :
             transceivers' = [transceivers EXCEPT ![x].transport = NoTransport,
                                                  ![x].direction = "stopped"]
      BY <1>7 DEF Stop
    <3>2. transceivers \in Infos
      BY DEF TypeInv
    <3>3. \A y \in Transceivers : \/ transceivers'[y].transport = transceivers[y].transport
                                  \/ transceivers'[y].transport = NoTransport
      BY <3>1, <3>2 DEF Infos
    <3> QED BY <3>3 DEF Existing
  <2>3. Held(worker)' = Held(worker) /\ OtherCall
    BY <1>7, OthersHold DEF Held, OtherCall
  <2> QED BY <1>0, <2>1, <2>2, <2>3, OthersHold, CertificatesKept
<1>8. CASE ReplaceTrack
  <2>1. /\ network' = network /\ network_alive' = network_alive
        /\ cached_certificates_by_transport_' = cached_certificates_by_transport_
    BY <1>8 DEF ReplaceTrack, Change, alive
  <2>2. Existing' = Existing
    <3>1. PICK x, to :
             transceivers' = [transceivers EXCEPT ![x].attachment = to]
      BY <1>8 DEF ReplaceTrack
    <3>2. transceivers \in Infos
      BY DEF TypeInv
    <3>3. \A y \in Transceivers : transceivers'[y].transport = transceivers[y].transport
      BY <3>1, <3>2 DEF Infos
    <3> QED BY <3>3 DEF Existing
  <2>3. Held(worker)' = Held(worker) /\ OtherCall
    BY <1>8, OthersHold DEF Held, OtherCall
  <2> QED BY <1>0, <2>1, <2>2, <2>3, OthersHold, CertificatesKept
<1>9. CASE \/ ClearCachedStatsReport \/ OnSctpDataChannelStateChanged
           \/ CancelPendingRequestAndGetShutdownTasks \/ ShutdownTasks
           \/ Tick \/ UNCHANGED vars
           \/ Skip \/ OnNetworkReportReady \/ DeliverNext \/ DeliverTask
  <2>1. /\ transceivers' = transceivers /\ (network_alive' => network_alive)
        /\ cached_certificates_by_transport_' = cached_certificates_by_transport_
        /\ \/ network' = network \/ \E task : network' = Append(network, task)
    BY <1>9 DEF ClearCachedStatsReport, OnSctpDataChannelStateChanged, Change, Clear,
       CancelPendingRequestAndGetShutdownTasks, ShutdownTasks, Tick, vars, Skip, peer,
       OnNetworkReportReady, DeliverNext, DeliverTask, alive, queues, CertificatesToo, PostTo
  <2>2. Existing' = Existing
    BY <2>1 DEF Existing
  <2>3. \/ OtherCall \/ Skip \/ ClearCertificates \/ OnNetworkReportReady
        \/ DeliverNext \/ DeliverTask
    BY <1>9 DEF OtherCall
  <2>4. Held(worker)' = Held(worker)
    BY <2>3, OthersHold DEF Held
  <2> QED BY <1>0, <2>1, <2>2, <2>3, <2>4, OthersHold, CertificatesKept
<1> QED BY <1>1, <1>2, <1>3, <1>4, <1>5, <1>6, <1>7, <1>8, <1>9
        DEF Next, SignalingTask, NetworkTask

-----------------------------------------------------------------------------
(* What is delivered.                                                       *)

LEMMA InitReports == Init => ReportsGood /\ AnswersGood
  BY DEF Init, ReportsGood, AnswersGood, Held

\* Steps that keep the report, and add nothing to deliver.
LEMMA ReportsKept ==
    ASSUME TypeInv, ReportsGood, UNCHANGED <<cached_report_, cache_timestamp_us_, asked>>,
           Held(delivering)' \subseteq Held(delivering),
           \A task \in Held(signaling)' :
              task.kind = "deliver" => task \in Held(signaling)
    PROVE  ReportsGood'
  BY DEF ReportsGood, FreshFor

LEMMA NextReports ==
    ASSUME TypeInv, RequestsAccounted, CarriesCurrent, PartialSupplies, ReportsGood,
           [Next]_vars
    PROVE  ReportsGood'
<1>1. CASE GetStatsReportInternal
  <2>1. /\ UNCHANGED <<cached_report_, cache_timestamp_us_, delivering>>
    BY <1>1 DEF GetStatsReportInternal, cache
  <2>2. Held(delivering)' = Held(delivering)
    BY <2>1 DEF Held
  <2>3. /\ \A r \in Asked : asked'[r] = asked[r]
        /\ asked'[Len(asked) + 1].at = now
    BY <1>1, AskedGrows
  <2>4. ASSUME NEW r \in Asked, NEW report, FreshFor(r, report) PROVE FreshFor(r, report)'
    BY <2>3, <2>4 DEF FreshFor
  <2>5. \A request \in Held(delivering)' :
           Good(cached_report_') /\ FreshFor(request, cached_report_)'
    BY <2>1, <2>2, <2>4, HeldTyped DEF ReportsGood
  <2>6. ASSUME NEW task \in Held(signaling), task.kind = "deliver"
        PROVE  Good(task.report) /\ FreshFor(task.request, task.report)'
    BY <2>4, <2>6, HeldTyped DEF ReportsGood
  <2>7. CASE /\ cached_report_ # None /\ Fresh
             /\ Held(signaling)' = Held(signaling) \cup
                   {[kind |-> "deliver", request |-> Len(asked) + 1,
                     report |-> cached_report_]}
    <3>1. Good(cached_report_) /\ cached_report_.started = cache_timestamp_us_
      BY <2>7 DEF ReportsGood
    <3>2. PICK n : n = Len(asked) + 1
      OBVIOUS
    <3>3. PICK report : report = cached_report_
      OBVIOUS
    <3>4. FreshFor(n, report)'
      BY <2>3, <2>7, <3>1, <3>2, <3>3 DEF FreshFor, Fresh
    <3>5. PICK task : task = [kind |-> "deliver", request |-> n, report |-> report]
      OBVIOUS
    <3>6. task.request = n /\ task.report = report
      BY <3>5
    <3>7. Held(signaling)' = Held(signaling) \cup {task}
      BY <2>7, <3>2, <3>3, <3>5
    <3>8. Good(task.report) /\ FreshFor(task.request, task.report)'
      BY <3>1, <3>3, <3>4, <3>6
    <3>9. \A other \in Held(signaling)' : other.kind = "deliver" =>
             Good(other.report) /\ FreshFor(other.request, other.report)'
      BY <2>6, <3>7, <3>8
    <3> QED BY <2>1, <2>5, <3>1, <3>9 DEF ReportsGood, FreshFor
  <2>8. CASE signaling' = signaling
    <3>1. Held(signaling)' = Held(signaling)
      BY <2>8 DEF Held
    <3> QED BY <2>1, <2>5, <2>6, <3>1 DEF ReportsGood, FreshFor
  <2> QED BY <1>1, <2>7, <2>8, GetStatsHolds
<1>2. CASE WorkerTask
  <2>1. UNCHANGED <<cached_report_, cache_timestamp_us_, asked, delivering>>
    BY <1>2 DEF WorkerTask, cache
  <2>2. PICK infos : Held(signaling)' \subseteq Held(signaling)
                        \cup {[kind |-> "worker_result", infos |-> infos]}
    BY <1>2, WorkerHolds
  <2>3. \A task \in Held(signaling)' : task.kind = "deliver" => task \in Held(signaling)
    BY <2>2
  <2>4. Held(delivering)' = Held(delivering)
    BY <2>1 DEF Held
  <2> QED BY <2>1, <2>3, <2>4, ReportsKept
<1>3. CASE ProducePartialResultsOnSignalingThread
  <2>1. UNCHANGED <<cached_report_, cache_timestamp_us_, asked, delivering>>
    BY <1>3 DEF ProducePartialResultsOnSignalingThread, cache
  <2>2. Held(signaling)' \subseteq Held(signaling)
    BY <1>3, PartialHolds
  <2>3. Held(delivering)' = Held(delivering)
    BY <2>1 DEF Held
  <2> QED BY <2>1, <2>2, <2>3, ReportsKept
<1>4. CASE ProducePartialResultsOnNetworkThread
  <2>1. UNCHANGED <<cached_report_, cache_timestamp_us_, asked, delivering>>
    BY <1>4 DEF ProducePartialResultsOnNetworkThread, cache
  <2>2. Held(delivering)' = Held(delivering)
    BY <2>1 DEF Held
  <2>3. CASE signaling' = signaling
    <3>1. Held(signaling)' = Held(signaling)
      BY <2>3 DEF Held
    <3> QED BY <2>1, <2>2, <3>1, ReportsKept
  <2>4. CASE \E result : /\ result.kind = "network_result"
                         /\ Held(signaling)' = Held(signaling) \cup {result}
    <3>1. \A task \in Held(signaling)' : task.kind = "deliver" => task \in Held(signaling)
      BY <2>4
    <3> QED BY <2>1, <2>2, <3>1, ReportsKept
  <2> QED BY <1>4, <2>3, <2>4, NetworkHolds
<1>5. CASE OnNetworkReportReady
  <2> DEFINE task == Head(signaling)
             objects == collection_context_.partial
                           \cup ProcessResultsFromNetworkThread(task)
                           \cup ProduceDataChannelStats_s(task.data)
             report == [objects |-> objects, started |-> collection_context_.started,
                        collection |-> collections + 1,
                        undisturbed |-> collection_context_.undisturbed]
  <2>1. /\ signaling # <<>> /\ task.kind = "network_result" /\ signaling_alive
        /\ cached_report_' = report /\ cache_timestamp_us_' = collection_context_.started
        /\ delivering' = requests_ /\ asked' = asked
    BY <1>5 DEF OnNetworkReportReady, Take, CacheTime
  <2>2. task \in Held(signaling)
    BY <2>1, QueuesAreSequences, HeldAfterTail
  <2>3. task \in NetworkResults /\ task \in Results
    BY <2>1, <2>2 DEF NetworkResults, Results, OfCollection
  <2>4. collection_context_ # None
    <3>1. \E k \in DOMAIN signaling : signaling[k].kind # "deliver"
      BY <2>1, <2>2 DEF Held
    <3> QED BY <2>1, <3>1, ContextThere
  <2>5. /\ collection_context_.undisturbed \in BOOLEAN /\ task.infos \in Infos
        /\ \A o \in collection_context_.partial : WellFormed(o) /\ o.refs = {}
        /\ Supplies(collection_context_.partial, collection_context_.undisturbed, task.infos)
    BY <2>3, <2>4, HeldTyped DEF PartialSupplies, TypeInv, ContextTyped
  <2>6. collection_context_.undisturbed => task.transports = NamesOf(task.infos)
    BY <2>3, <2>4 DEF CarriesCurrent, NamesOf, Existing
  <2>7. /\ \A o \in objects : WellFormed(o)
        /\ Resolves(objects, collection_context_.undisturbed)
    <3> HIDE DEF task
    <3> QED BY <2>5, <2>6, ReportIsGood
  <2> HIDE DEF objects, task
  <2>8. /\ report.objects = objects /\ report.started = collection_context_.started
        /\ report.collection = collections + 1
        /\ report.undisturbed = collection_context_.undisturbed
    OBVIOUS
  <2> HIDE DEF report
  <2>9. Good(report)
    BY <2>7, <2>8 DEF Good
  <2>10. ASSUME NEW request \in Held(delivering)' PROVE FreshFor(request, cached_report_)'
    <3>1. PICK k \in DOMAIN requests_ : request = requests_[k]
      BY <2>1, <2>10 DEF Held
    <3>2. request \in Asked
      BY <3>1, MemberTyped DEF TypeInv, RequestsTyped
    <3>3. /\ asked[request].collection <= collections /\ collections \in Nat
          /\ asked[request].collection \in Nat
      <4>1. asked[request] \in [filter : Filters, at : Nat, collection : Nat]
        BY <3>2, MemberTyped DEF TypeInv, RequestsTyped, Asked
      <4> QED BY <3>2, <4>1 DEF TypeInv, RequestsTyped
    <3>4. collections + 1 > asked[request].collection
      BY <3>3
    <3> QED BY <2>1, <2>8, <3>4 DEF FreshFor
  <2>11. Held(signaling)' \subseteq Held(signaling)
    BY <1>5, OthersHold
  <2>12. \A other \in Held(signaling)' : other.kind = "deliver" =>
            Good(other.report) /\ FreshFor(other.request, other.report)'
    BY <2>1, <2>11 DEF ReportsGood, FreshFor
  <2> QED BY <2>1, <2>8, <2>9, <2>10, <2>12 DEF ReportsGood, FreshFor
<1>6. CASE DeliverNext \/ DeliverTask \/ Skip
  <2>1. UNCHANGED <<cached_report_, cache_timestamp_us_, asked>>
    BY <1>6 DEF DeliverNext, DeliverTask, Skip, cache
  <2>2. Held(signaling)' \subseteq Held(signaling)
    BY <1>6, OthersHold
  <2>3. Held(delivering)' \subseteq Held(delivering)
    <3>1. delivering' = delivering \/ (delivering # <<>> /\ delivering' = Tail(delivering))
      BY <1>6 DEF DeliverNext, DeliverTask, Skip
    <3>2. Held(delivering') \subseteq Held(delivering)
      BY <3>1, QueuesAreSequences, HeldAfterTail
    <3> QED BY <3>2 DEF Held
  <2> QED BY <2>1, <2>2, <2>3, ReportsKept
<1>7. CASE ClearCachedStatsReport \/ Negotiate
  <2>1. cached_report_' = None /\ delivering' = <<>> /\ asked' = asked
    BY <1>7 DEF ClearCachedStatsReport, Negotiate, Change, Clear, Idle
  <2>2. Held(delivering)' = {}
    BY <2>1 DEF Held
  <2>3. Held(signaling)' \subseteq Held(signaling)
    BY <1>7, OthersHold DEF OtherCall
  <2>4. \A other \in Held(signaling)' : other.kind = "deliver" =>
            Good(other.report) /\ FreshFor(other.request, other.report)'
    BY <2>1, <2>3 DEF ReportsGood, FreshFor
  <2> QED BY <2>1, <2>2, <2>4 DEF ReportsGood, FreshFor
<1>8. CASE \/ Stop \/ ReplaceTrack \/ OnSctpDataChannelStateChanged
           \/ CancelPendingRequestAndGetShutdownTasks \/ ShutdownTasks
           \/ Tick \/ UNCHANGED vars \/ ClearCertificates
  <2>1. UNCHANGED <<cached_report_, cache_timestamp_us_, asked, delivering>>
    BY <1>8 DEF Stop, ReplaceTrack, OnSctpDataChannelStateChanged, Change, cache,
       CancelPendingRequestAndGetShutdownTasks, ShutdownTasks, Tick, vars, ClearCertificates
  <2>2. Held(signaling)' \subseteq Held(signaling)
    BY <1>8, OthersHold DEF OtherCall
  <2>3. Held(delivering)' = Held(delivering)
    BY <2>1 DEF Held
  <2> QED BY <2>1, <2>2, <2>3, ReportsKept
<1> QED BY <1>1, <1>2, <1>3, <1>4, <1>5, <1>6, <1>7, <1>8
        DEF Next, SignalingTask, NetworkTask

LEMMA NextAnswers ==
    ASSUME TypeInv, ReportsGood, AnswersGood, [Next]_vars
    PROVE  AnswersGood'
<1>1. CASE GetStatsReportInternal
  <2>1. Held(answers)' = Held(answers)
    BY <1>1 DEF GetStatsReportInternal, Held
  <2>2. \A r \in Asked : asked'[r] = asked[r]
    BY <1>1, AskedGrows
  <2> QED BY <2>1, <2>2, HeldTyped DEF AnswersGood, FreshFor
<1>2. CASE DeliverNext
  <2>1. Head(delivering) \in Held(delivering) /\ asked' = asked
    BY <1>2, QueuesAreSequences, HeldAfterTail DEF DeliverNext
  <2>2. Good(cached_report_) /\ FreshFor(Head(delivering), cached_report_)
    BY <2>1 DEF ReportsGood
  <2>3. DeliverReport(Head(delivering), cached_report_)
    BY <1>2 DEF DeliverNext
  <2> QED BY <2>1, <2>2, <2>3, DeliveredIsGood
<1>3. CASE DeliverTask
  <2>1. /\ Head(signaling) \in Held(signaling) /\ Head(signaling).kind = "deliver"
        /\ asked' = asked
    BY <1>3, QueuesAreSequences, HeldAfterTail DEF DeliverTask, Take
  <2>2. /\ Good(Head(signaling).report)
        /\ FreshFor(Head(signaling).request, Head(signaling).report)
    BY <2>1 DEF ReportsGood
  <2>3. DeliverReport(Head(signaling).request, Head(signaling).report)
    BY <1>3 DEF DeliverTask
  <2> QED BY <2>1, <2>2, <2>3, DeliveredIsGood
<1>4. CASE UNCHANGED <<answers, asked>>
  <2>1. Held(answers)' = Held(answers)
    BY <1>4 DEF Held
  <2> QED BY <1>4, <2>1 DEF AnswersGood, FreshFor
<1> QED BY <1>1, <1>2, <1>3, <1>4
        DEF Next, SignalingTask, NetworkTask, WorkerTask, Skip, Change,
            ProducePartialResultsOnSignalingThread, OnNetworkReportReady,
            ProducePartialResultsOnNetworkThread, ClearCertificates, ClearCachedStatsReport,
            Negotiate, Stop, ReplaceTrack, OnSctpDataChannelStateChanged,
            CancelPendingRequestAndGetShutdownTasks, ShutdownTasks, Tick, vars

-----------------------------------------------------------------------------
(* The theorems.                                                            *)

LEMMA InitInvariant == Init => IInv
  BY InitTypes, InitAccounts, InitCarries, InitCertificates, InitReports DEF IInv

LEMMA NextInvariant == IInv /\ [Next]_vars => IInv'
  BY NextKeepsTypes, NextKeepsAccounts, NextCarries, NextSupplies, NextKeepsCertificates,
     NextReports, NextAnswers DEF IInv

LEMMA SpecInvariant == Spec => []IInv
<1>1. Init => IInv BY InitInvariant
<1>2. IInv /\ [Next]_vars => IInv' BY NextInvariant
<1> QED BY <1>1, <1>2, PTL DEF Spec

\* Until the shutdown each request waits in one place or was answered once, and
\* whoever waits has a collection to wait for, of which there is one
\* (GetStatsReportInternal, OnNetworkReportReady): however many requests, threads'
\* interleavings and negotiations there are.
THEOREM SpecRequestsAccounted == Spec => []RequestsAccounted
<1>1. IInv => RequestsAccounted BY DEF IInv
<1> QED BY <1>1, SpecInvariant, PTL

\* A delivered report names no id in vain, but for transports and sources that went
\* while it was collected (ProcessResultsFromNetworkThread, TakeReferencedStats).
THEOREM SpecReferencesResolve == Spec => []ReferencesResolve
<1>1. IInv => ReferencesResolve
  BY DEF IInv, AnswersGood, ReferencesResolve, Held
<1> QED BY <1>1, SpecInvariant, PTL

\* A delivered report is finished after its request or fresh enough for it, and has
\* the certificates of its transports unless a negotiation fell into a collection
\* (OnNetworkReportReady, PrepareTransportCertificateStats_n).
THEOREM SpecAnswersAreFresh == Spec => []AnswersAreFresh
<1>1. IInv => AnswersAreFresh
  <2> SUFFICES ASSUME IInv PROVE AnswersAreFresh
    OBVIOUS
  <2>1. \A k \in DOMAIN answers : FreshFor(answers[k].request, answers[k])
    BY DEF IInv, AnswersGood, Held
  <2>2. CertificatesUnlessRaced
    <3> SUFFICES ASSUME NEW k \in DOMAIN signaling,
                        signaling[k].kind = "network_result", ~raced
                 PROVE  signaling[k].transports \subseteq signaling[k].certified
      BY DEF CertificatesUnlessRaced
    <3>1. signaling[k] \in NetworkResults
      BY DEF NetworkResults, Held
    <3> QED BY <3>1 DEF IInv, CertificatesCurrent
  <2> QED BY <2>1, <2>2 DEF AnswersAreFresh, FreshFor
<1> QED BY <1>1, SpecInvariant, PTL
=============================================================================
