------------------------ MODULE InboundEventsProofs ------------------------
(***************************************************************************)
(* What holds of InboundEvents for any number of events, handlers, jobs,   *)
(* posts, deliveries and failures.                                         *)
(*                                                                         *)
(* The states a row passes through say where the event has been, although  *)
(* every mark is unconditional, because each writer writes only what is    *)
(* true of the event at that moment and stays true: a publish that was     *)
(* taken, a run that completed, an alert that was recorded.  `shed` alone  *)
(* is no evidence of an end: it is written before the refusal is seen out. *)
(***************************************************************************)
EXTENDS InboundEvents, FiniteSetTheorems, SequenceTheorems, TLAPS

\* What a state, once written, is evidence of.
RowInv ==
    \A e \in Events :
        /\ state[e] \in QueuedStates => published[e]
        /\ state[e] = "processed" => finished[e]
        /\ state[e] = "shed" => published[e]
        /\ replied[e] => finished[e]
        /\ state[e] = "expired_unqueued" => "stranded" \in alerts[e]

\* A job, a remembered id and a finished run all come from a publish that was taken.
QueueInv ==
    /\ \A e \in Events : dedup[e] => published[e]
    /\ \A e \in Events : finished[e] => published[e]
    /\ \A s \in Slots : job[s].at # "free" => published[job[s].event]
    /\ \A s \in Slots : job[s].at = "waiting" => job[s].left > 0

\* What the handlers and the sweep are about to write is true already.
RouteInv ==
    \A r \in Routes :
        /\ route[r].at # "idle" => state[route[r].event] # "none"
        /\ route[r].at = "queued" => published[route[r].event]

SweepInv ==
    /\ sweep.at # "idle" => sweep.todo # <<>>
    /\ sweep.at = "mark" => published[Current]
    /\ sweep.at = "expire" => "stranded" \in alerts[Current]

AckInv ==
    \A e \in Events \ Unrouted : acked[e] =>
        /\ state[e] # "none"
        /\ published[e] \/ "stranded" \in alerts[e]

IInv == TypeOK /\ RowInv /\ QueueInv /\ RouteInv /\ SweepInv /\ AckInv

USE DEF NoEvent, Ages, New, PastWindow, AlertKinds, RoutePlaces, JobPlaces, SweepPlaces, row,
        EventStates, UnqueuedStates, QueuedStates, Verdicts, queue, Working

LEMMA InitIInv == Init => IInv
<1> SUFFICES ASSUME Init PROVE IInv
  OBVIOUS
<1>1. TypeOK
  BY InboundAssumption DEF Init, TypeOK
<1>2. RowInv
  BY DEF Init, RowInv
<1>3. QueueInv
  BY DEF Init, QueueInv
<1>4. RouteInv
  BY DEF Init, RouteInv
<1>5. SweepInv
  BY DEF Init, SweepInv
<1>6. AckInv
  BY DEF Init, AckInv
<1> QED  BY <1>1, <1>2, <1>3, <1>4, <1>5, <1>6 DEF IInv

(***************************************************************************)
(* What the shared pieces of the actions do.                               *)
(***************************************************************************)

LEMMA CountsFailures ==
    ASSUME faults \in Nat, NEW k, Works \/ Fails(k)
    PROVE  faults' \in Nat
  BY DEF Works, Fails

LEMMA Alerting ==
    ASSUME TypeOK, NEW e \in Events, NEW k \in AlertKinds, alerts' = [alerts EXCEPT ![e] = @ \cup {k}]
    PROVE  /\ alerts' \in [Events -> SUBSET AlertKinds]
           /\ \A d \in Events : alerts[d] \subseteq alerts'[d]
           /\ k \in alerts'[e]
<1>1. alerts[e] \cup {k} \in SUBSET AlertKinds
  BY DEF TypeOK
<1>2. \A d \in Events : alerts'[d] = IF d = e THEN alerts[e] \cup {k} ELSE alerts[d]
  BY DEF TypeOK
<1> QED  BY <1>1, <1>2 DEF TypeOK

\* A publish that is taken fills a slot with the event's job, or finds it remembered.
LEMMA Taking ==
    ASSUME TypeOK, QueueInv, NEW e \in Events, TakesJob(e)
    PROVE  /\ job' \in [Slots -> {[at |-> "free"]}
                         \cup [at : JobPlaces \ {"free"}, event : Events, left : Nat, count : Nat]]
           /\ dedup' \in [Events -> BOOLEAN]
           /\ published' \in [Events -> BOOLEAN]
           /\ published'[e]
           /\ \A d \in Events : published[d] => published'[d]
           /\ \A d \in Events : dedup'[d] => published'[d]
           /\ \A s \in Slots : job'[s].at # "free" => published'[job'[s].event]
           /\ \A s \in Slots : job'[s].at = "waiting" => job'[s].left > 0
<1>1. CASE ~dedup[e] /\ ~UNCHANGED queue
  <2>1. PICK s \in Slots :
            /\ job[s].at = "free"
            /\ job' = [job EXCEPT ![s] = [at |-> "waiting", event |-> e, left |-> Deliveries, count |-> 0]]
    BY <1>1 DEF TakesJob
  <2>2. dedup' = [dedup EXCEPT ![e] = TRUE] /\ published' = [published EXCEPT ![e] = TRUE]
    BY <1>1 DEF TakesJob
  <2>3. \A t \in Slots : t # s => job'[t] = job[t]
    BY <2>1 DEF TypeOK
  <2>4. job'[s] = [at |-> "waiting", event |-> e, left |-> Deliveries, count |-> 0]
    BY <2>1 DEF TypeOK
  <2>5. job' \in [Slots -> {[at |-> "free"]}
                   \cup [at : JobPlaces \ {"free"}, event : Events, left : Nat, count : Nat]]
    BY <2>1, InboundAssumption DEF TypeOK
  <2>6. \A t \in Slots : job[t].at # "free" => job[t].event \in Events
    BY DEF TypeOK
  <2>7. \A t \in Slots : job'[t].at # "free" => published'[job'[t].event]
    <3>1. \A d \in Events : published[d] => published'[d]
      BY <2>2 DEF TypeOK
    <3>2. published'[e]
      BY <2>2 DEF TypeOK
    <3>3. SUFFICES ASSUME NEW t \in Slots, job'[t].at # "free" PROVE published'[job'[t].event]
      OBVIOUS
    <3>4. CASE t = s
      BY <3>2, <3>4, <2>4
    <3>5. CASE t # s
      <4>1. job'[t] = job[t]
        BY <3>5, <2>3
      <4>2. job[t].at # "free"
        BY <4>1, <3>3
      <4>3. published[job[t].event] /\ job[t].event \in Events
        BY <4>2, <2>6 DEF QueueInv
      <4> QED  BY <4>1, <4>3, <3>1
    <3> QED  BY <3>4, <3>5
  <2>8. \A t \in Slots : job'[t].at = "waiting" => job'[t].left > 0
    BY <2>3, <2>4, InboundAssumption DEF QueueInv
  <2> QED  BY <2>2, <2>5, <2>7, <2>8 DEF TypeOK, QueueInv
<1>2. CASE UNCHANGED queue
  <2>1. published[e]
    BY <1>2 DEF TakesJob, TypeOK, QueueInv
  <2> QED  BY <1>2, <2>1 DEF TypeOK, QueueInv
<1> QED  BY <1>1, <1>2 DEF TakesJob

\* A run that ends leaves its slot to the same event or to nobody.
LEMMA JobEnds ==
    ASSUME TypeOK, QueueInv, NEW s \in Slots, job[s].at \in Working, JobDone(s) \/ JobRetried(s)
    PROVE  /\ job' \in [Slots -> {[at |-> "free"]}
                         \cup [at : JobPlaces \ {"free"}, event : Events, left : Nat, count : Nat]]
           /\ \A t \in Slots : job'[t].at # "free" => job[t].at # "free" /\ job'[t].event = job[t].event
           /\ \A t \in Slots : job'[t].at = "waiting" => job'[t].left > 0
<1>1. job[s] \in [at : JobPlaces \ {"free"}, event : Events, left : Nat, count : Nat]
  BY DEF TypeOK
<1>2. CASE JobDone(s)
  BY <1>2, <1>1 DEF TypeOK, QueueInv, JobDone
<1>3. CASE job[s].left > 0 /\ job' = [job EXCEPT ![s].at = "waiting"]
  BY <1>3, <1>1 DEF TypeOK, QueueInv
<1> QED  BY <1>2, <1>3 DEF JobRetried

\* A mark leaves the row of the right type, and touches no other.
LEMMA Marking ==
    ASSUME TypeOK, NEW e \in Events, NEW to \in EventStates, NEW answered \in BOOLEAN,
           MarkEventState(e, to, answered)
    PROVE  /\ state' \in [Events -> EventStates]
           /\ replied' \in [Events -> BOOLEAN]
           /\ attempts' \in [Events -> Nat]
           /\ state'[e] = to /\ (replied'[e] => replied[e] \/ answered)
           /\ \A d \in Events \ {e} : state'[d] = state[d] /\ replied'[d] = replied[d]
<1>1. (replied[e] \/ answered) \in BOOLEAN
  OBVIOUS
<1>2. replied' = [replied EXCEPT ![e] = replied[e] \/ answered]
  BY DEF MarkEventState, TypeOK
<1>3. state' = [state EXCEPT ![e] = to] /\ attempts' = attempts
  BY DEF MarkEventState
<1>4. replied' \in [Events -> BOOLEAN]
  BY <1>1, <1>2 DEF TypeOK
<1>5. replied'[e] = (replied[e] \/ answered)
  BY <1>2 DEF TypeOK
<1>6. \A d \in Events \ {e} : replied'[d] = replied[d]
  BY <1>2 DEF TypeOK
<1> QED  BY <1>3, <1>4, <1>5, <1>6 DEF TypeOK

LEMMA CurrentEvent ==
    ASSUME IInv, sweep.at # "idle"
    PROVE  Current \in Events
<1>1. sweep.todo \in Seq([event : Events, age : Ages]) /\ sweep.todo # <<>>
  BY DEF IInv, TypeOK, SweepInv
<1>2. Head(sweep.todo) \in [event : Events, age : Ages]
  BY <1>1, HeadTailProperties
<1> QED  BY <1>2 DEF Current

LEMMA NonEmpty ==
    ASSUME NEW S, NEW q \in Seq(S), Len(q) > 0
    PROVE  q # <<>>
<1>1. Len(<<>>) = 0
  BY EmptySeq
<1> QED  BY <1>1

LEMMA SeqOf ==
    ASSUME NEW S, NEW n \in Nat, NEW q \in [1 .. n -> S]
    PROVE  q \in Seq(S) /\ Len(q) = n
  OBVIOUS

\* The sweep's list only shrinks, and is not empty while it runs.
LEMMA SweepingOn ==
    ASSUME IInv, sweep.at # "idle", SweepNext
    PROVE  /\ sweep' \in [at : SweepPlaces, todo : Seq([event : Events, age : Ages])]
           /\ sweep'.at \in {"idle", "next"}
           /\ sweep'.at # "idle" => sweep'.todo # <<>>
<1> DEFINE Item == [event : Events, age : Ages]
<1>1. sweep.todo \in Seq(Item) /\ sweep.todo # <<>>
  BY DEF IInv, TypeOK, SweepInv
<1>2. CASE Len(sweep.todo) > 1
  <2>1. Tail(sweep.todo) \in Seq(Item) /\ Len(Tail(sweep.todo)) = Len(sweep.todo) - 1
    BY <1>1, HeadTailProperties
  <2>2. Tail(sweep.todo) # <<>>
    <3>1. Len(Tail(sweep.todo)) > 0
      BY <1>1, <1>2, <2>1, LenProperties
    <3> QED  BY <2>1, <3>1, NonEmpty
  <2> QED  BY <1>2, <2>1, <2>2 DEF SweepNext
<1>3. CASE ~(Len(sweep.todo) > 1)
  BY <1>3 DEF SweepNext
<1> QED  BY <1>2, <1>3
(***************************************************************************)
(* The step.  Histories, recorded alerts and claimed rows are never taken  *)
(* back; the rest is one case per action.                                  *)
(***************************************************************************)

Keeping ==
    \A e \in Events :
        /\ published[e] => published'[e]
        /\ finished[e] => finished'[e]
        /\ alerts[e] \subseteq alerts'[e]
        /\ state[e] # "none" => state'[e] # "none"

LEMMA RowKept ==
    ASSUME IInv, Keeping, UNCHANGED <<state, replied>>
    PROVE  RowInv'
  BY DEF IInv, Keeping, RowInv

LEMMA QueueKept ==
    ASSUME IInv, UNCHANGED <<queue, finished>>
    PROVE  QueueInv'
  BY DEF IInv, QueueInv

LEMMA RouteKept ==
    ASSUME IInv, Keeping, UNCHANGED route
    PROVE  RouteInv'
<1>1. \A r \in Routes : route[r].at # "idle" => route[r].event \in Events
  BY DEF IInv, TypeOK
<1> QED  BY <1>1 DEF IInv, Keeping, RouteInv

LEMMA SweepKept ==
    ASSUME IInv, Keeping, UNCHANGED sweep
    PROVE  SweepInv'
  BY CurrentEvent DEF IInv, Keeping, SweepInv, Current

LEMMA AckKept ==
    ASSUME IInv, Keeping, UNCHANGED acked
    PROVE  AckInv'
  BY DEF IInv, Keeping, AckInv

LEMMA PostUnroutedStep ==
    ASSUME IInv, NEW e \in Events, PostUnrouted(e)
    PROVE  IInv' /\ Keeping
<1>1. /\ state' \in [Events -> EventStates]
     /\ replied' \in [Events -> BOOLEAN]
     /\ attempts' \in [Events -> Nat]
  BY DEF PostUnrouted, Answer200, IInv, TypeOK
<1>2. posts' \in [Events -> Nat]
  BY InboundAssumption DEF PostUnrouted, Answer200, IInv, TypeOK
<1>3. acked' \in [Events -> BOOLEAN]
  BY DEF PostUnrouted, Answer200, IInv, TypeOK
<1>4. faults' \in Nat
  BY DEF PostUnrouted, Answer200, Works, Fails, PublishOk, PublishFails, IInv, TypeOK
<1>5. TypeOK'
  BY <1>1, <1>2, <1>3, <1>4 DEF PostUnrouted, Answer200, IInv, TypeOK
<1>6. Keeping
  BY DEF PostUnrouted, Answer200, IInv, TypeOK, Keeping
<1>7. RowInv'
  BY <1>6 DEF PostUnrouted, Answer200, IInv, TypeOK, RowInv, RouteInv, SweepInv, Keeping
<1>8. QueueInv'
  BY QueueKept DEF PostUnrouted, Answer200
<1>9. RouteInv'
  BY <1>6, RouteKept DEF PostUnrouted, Answer200
<1>10. SweepInv'
  BY <1>6, SweepKept DEF PostUnrouted, Answer200
<1>11. AckInv'
  BY <1>6 DEF PostUnrouted, Answer200, IInv, TypeOK, RowInv, QueueInv, RouteInv, AckInv, Keeping
<1> QED  BY <1>5, <1>6, <1>7, <1>8, <1>9, <1>10, <1>11 DEF IInv

LEMMA PostStep ==
    ASSUME IInv, NEW r \in Routes, NEW e \in Events, Post(r, e)
    PROVE  IInv' /\ Keeping
<1>1. /\ state' \in [Events -> EventStates]
     /\ replied' \in [Events -> BOOLEAN]
     /\ attempts' \in [Events -> Nat]
  BY DEF Post, Answer200, IInv, TypeOK
<1>2. posts' \in [Events -> Nat]
  BY InboundAssumption DEF Post, Answer200, IInv, TypeOK
<1>3. acked' \in [Events -> BOOLEAN]
  BY DEF Post, Answer200, IInv, TypeOK
<1>4. route' \in [Routes -> {NoEvent} \cup [at : RoutePlaces \ {"idle"}, event : Events]]
  <2>1. UNCHANGED route \/ route' = [route EXCEPT ![r] = [at |-> "claimed", event |-> e]]
    BY DEF Post
  <2>2. [at |-> "claimed", event |-> e] \in [at : RoutePlaces \ {"idle"}, event : Events]
    OBVIOUS
  <2> QED  BY <2>1, <2>2 DEF IInv, TypeOK
<1>5. faults' \in Nat
  BY DEF Post, Answer200, Works, Fails, PublishOk, PublishFails, IInv, TypeOK
<1>6. TypeOK'
  BY <1>1, <1>2, <1>3, <1>4, <1>5 DEF Post, Answer200, IInv, TypeOK
<1>7. Keeping
  BY DEF Post, Answer200, IInv, TypeOK, Keeping
<1>8. RowInv'
  BY <1>7 DEF Post, Answer200, IInv, TypeOK, RowInv, RouteInv, SweepInv, Keeping
<1>9. QueueInv'
  BY QueueKept DEF Post, Answer200
<1>10. RouteInv'
  <2>1. CASE UNCHANGED route
    BY <1>7, <2>1, RouteKept
  <2>2. CASE ~UNCHANGED route
    <3>1. route' = [route EXCEPT ![r] = [at |-> "claimed", event |-> e]]
      BY <2>2 DEF Post
    <3>2. state'[e] # "none"
      BY <2>2 DEF Post, IInv, TypeOK
    <3>3. \A q \in Routes : route[q].at # "idle" => route[q].event \in Events
      BY DEF IInv, TypeOK
    <3>4. \A q \in Routes : q # r => route'[q] = route[q]
      BY <3>1 DEF IInv, TypeOK
    <3>5. route'[r] = [at |-> "claimed", event |-> e]
      BY <3>1 DEF IInv, TypeOK
    <3> QED  BY <1>7, <3>2, <3>3, <3>4, <3>5 DEF IInv, RouteInv, Keeping
  <2> QED  BY <2>1, <2>2
<1>11. SweepInv'
  BY <1>7, SweepKept DEF Post, Answer200
<1>12. AckInv'
  <2>1. CASE UNCHANGED acked
    BY <1>7, <2>1, AckKept
  <2>2. CASE ~UNCHANGED acked
    <3>1. /\ state[e] # "none" /\ ~NeverReachedQueue(state[e])
          /\ acked' = [acked EXCEPT ![e] = TRUE]
      BY <2>2 DEF Post, Answer200
    <3>2. published[e] \/ "stranded" \in alerts[e]
      BY <3>1 DEF NeverReachedQueue, IInv, TypeOK, RowInv, QueueInv
    <3> QED  BY <1>7, <3>1, <3>2 DEF IInv, TypeOK, AckInv, Keeping
  <2> QED  BY <2>1, <2>2
<1> QED  BY <1>6, <1>7, <1>8, <1>9, <1>10, <1>11, <1>12 DEF IInv

LEMMA EnqueueStep ==
    ASSUME IInv, NEW r \in Routes, Enqueue(r)
    PROVE  IInv' /\ Keeping
<1>1. route[r].event \in Events
  BY DEF Enqueue, IInv, TypeOK
<1>2. UNCHANGED queue \/ TakesJob(route[r].event)
  BY DEF Enqueue, PublishOk, PublishFails
<1>3. /\ job' \in [Slots -> {[at |-> "free"]}
                 \cup [at : JobPlaces \ {"free"}, event : Events, left : Nat, count : Nat]]
     /\ dedup' \in [Events -> BOOLEAN]
     /\ published' \in [Events -> BOOLEAN]
     /\ \A d \in Events : published[d] => published'[d]
  <2>1. CASE TakesJob(route[r].event)
    BY <1>1, <2>1, Taking DEF IInv
  <2>2. CASE UNCHANGED queue
    BY <2>2 DEF IInv, TypeOK
  <2> QED  BY <1>2, <2>1, <2>2
<1>4. route' \in [Routes -> {NoEvent} \cup [at : RoutePlaces \ {"idle"}, event : Events]]
  <2>1. route[r] \in [at : RoutePlaces \ {"idle"}, event : Events]
    BY DEF Enqueue, IInv, TypeOK
  <2>2. \/ route' = [route EXCEPT ![r].at = "queued"]
        \/ route' = [route EXCEPT ![r].at = "refused"]
    BY DEF Enqueue
  <2>3. route' = [q \in Routes |-> route'[q]]
    BY <2>2 DEF IInv, TypeOK
  <2>4. \A q \in Routes : q # r => route'[q] = route[q]
    BY <2>2 DEF IInv, TypeOK
  <2>5. route'[r] = [at |-> "queued", event |-> route[r].event]
          \/ route'[r] = [at |-> "refused", event |-> route[r].event]
    BY <2>1, <2>2 DEF IInv, TypeOK
  <2>6. \A q \in Routes : route'[q] \in {NoEvent} \cup [at : RoutePlaces \ {"idle"}, event : Events]
    <3>1. route'[r] \in [at : RoutePlaces \ {"idle"}, event : Events]
      BY <1>1, <2>5
    <3>2. \A q \in Routes : route[q] \in {NoEvent} \cup [at : RoutePlaces \ {"idle"}, event : Events]
      BY DEF IInv, TypeOK
    <3> QED  BY <3>1, <3>2, <2>4
  <2> QED  BY <2>3, <2>6
<1>5. faults' \in Nat
  BY DEF Enqueue, Works, Fails, PublishOk, PublishFails, IInv, TypeOK
<1>6. TypeOK'
  BY <1>3, <1>4, <1>5 DEF Enqueue, IInv, TypeOK
<1>7. Keeping
  BY <1>1, <1>3 DEF Enqueue, IInv, TypeOK, Keeping
<1>8. RowInv'
  BY <1>7, RowKept DEF Enqueue
<1>9. QueueInv'
  <2>1. UNCHANGED finished
    BY DEF Enqueue
  <2>2. CASE UNCHANGED queue
    BY <2>1, <2>2, QueueKept
  <2>3. CASE TakesJob(route[r].event)
    <3>1. TypeOK /\ QueueInv
      BY DEF IInv
    <3>2. \A d \in Events : finished'[d] => published'[d]
      BY <1>3, <2>1, <3>1 DEF QueueInv
    <3> QED  BY <1>1, <2>3, <3>1, <3>2, Taking DEF QueueInv
  <2> QED  BY <1>2, <2>2, <2>3
<1>10. RouteInv'
  <2>1. route[r] \in [at : RoutePlaces \ {"idle"}, event : Events]
    BY DEF Enqueue, IInv, TypeOK
  <2>2. \A q \in Routes : q # r => route'[q] = route[q]
    BY DEF Enqueue, IInv, TypeOK
  <2>3. route'[r].event = route[r].event
    BY <2>1 DEF Enqueue, IInv, TypeOK
  <2>4. route'[r].at = "queued" => published'[route[r].event]
    <3>1. SUFFICES ASSUME route'[r].at = "queued" PROVE published'[route[r].event]
      OBVIOUS
    <3>2. PublishOk(route[r].event)
      BY <2>1, <3>1 DEF Enqueue, IInv, TypeOK
    <3> QED  BY <1>1, <3>2, Taking DEF PublishOk, IInv
  <2>5. \A q \in Routes : route[q].at # "idle" => route[q].event \in Events
    BY DEF IInv, TypeOK
  <2>6. route[r].at # "idle"
    BY DEF Enqueue
  <2> QED  BY <1>7, <2>2, <2>3, <2>4, <2>5, <2>6 DEF IInv, RouteInv, Keeping
<1>11. SweepInv'
  BY <1>7, SweepKept DEF Enqueue
<1>12. AckInv'
  BY <1>7, AckKept DEF Enqueue
<1> QED  BY <1>6, <1>7, <1>8, <1>9, <1>10, <1>11, <1>12 DEF IInv

LEMMA RespondStep ==
    ASSUME IInv, NEW r \in Routes, Respond(r)
    PROVE  IInv' /\ Keeping
<1>1. /\ state' \in [Events -> EventStates]
     /\ replied' \in [Events -> BOOLEAN]
     /\ attempts' \in [Events -> Nat]
  BY DEF Respond, MarkEventState, IInv, TypeOK
<1>2. acked' \in [Events -> BOOLEAN]
  BY DEF Respond, IInv, TypeOK
<1>3. route' \in [Routes -> {NoEvent} \cup [at : RoutePlaces \ {"idle"}, event : Events]]
  BY DEF Respond, IInv, TypeOK
<1>4. faults' \in Nat
  <2>1. Works \/ Fails("db")
    BY DEF Respond
  <2> QED  BY <2>1, CountsFailures DEF IInv, TypeOK
<1>5. TypeOK'
  BY <1>1, <1>2, <1>3, <1>4 DEF Respond, MarkEventState, IInv, TypeOK
<1>6. Keeping
  BY DEF Respond, MarkEventState, IInv, TypeOK, Keeping
<1>7. RowInv'
  BY <1>6 DEF Respond, MarkEventState, IInv, TypeOK, RowInv, RouteInv, SweepInv, Keeping
<1>8. QueueInv'
  BY QueueKept DEF Respond
<1>9. RouteInv'
  BY <1>6 DEF Respond, IInv, TypeOK, RouteInv, Keeping
<1>10. SweepInv'
  BY <1>6, SweepKept DEF Respond
<1>11. AckInv'
  BY <1>6 DEF Respond, MarkEventState, IInv, TypeOK, RowInv, QueueInv, RouteInv, AckInv, Keeping
<1> QED  BY <1>5, <1>6, <1>7, <1>8, <1>9, <1>10, <1>11 DEF IInv

LEMMA RouteDiesStep ==
    ASSUME IInv, NEW r \in Routes, RouteDies(r)
    PROVE  IInv' /\ Keeping
<1>1. route' \in [Routes -> {NoEvent} \cup [at : RoutePlaces \ {"idle"}, event : Events]]
  BY DEF RouteDies, IInv, TypeOK
<1>2. faults' \in Nat
  BY DEF RouteDies, Works, Fails, PublishOk, PublishFails, IInv, TypeOK
<1>3. TypeOK'
  BY <1>1, <1>2 DEF RouteDies, IInv, TypeOK
<1>4. Keeping
  BY DEF RouteDies, IInv, TypeOK, Keeping
<1>5. RowInv'
  BY <1>4, RowKept DEF RouteDies
<1>6. QueueInv'
  BY QueueKept DEF RouteDies
<1>7. RouteInv'
  BY <1>4 DEF RouteDies, IInv, TypeOK, RouteInv, Keeping
<1>8. SweepInv'
  BY <1>4, SweepKept DEF RouteDies
<1>9. AckInv'
  BY <1>4, AckKept DEF RouteDies
<1> QED  BY <1>3, <1>4, <1>5, <1>6, <1>7, <1>8, <1>9 DEF IInv

LEMMA ForgetStep ==
    ASSUME IInv, NEW e \in Events, Forget(e)
    PROVE  IInv' /\ Keeping
<1>1. dedup' \in [Events -> BOOLEAN]
  BY DEF Forget, IInv, TypeOK
<1>2. TypeOK'
  BY <1>1 DEF Forget, IInv, TypeOK
<1>3. Keeping
  BY DEF Forget, IInv, TypeOK, Keeping
<1>4. RowInv'
  BY <1>3, RowKept DEF Forget
<1>5. QueueInv'
  BY <1>3 DEF Forget, IInv, TypeOK, QueueInv, Keeping
<1>6. RouteInv'
  BY <1>3, RouteKept DEF Forget
<1>7. SweepInv'
  BY <1>3, SweepKept DEF Forget
<1>8. AckInv'
  BY <1>3, AckKept DEF Forget
<1> QED  BY <1>2, <1>3, <1>4, <1>5, <1>6, <1>7, <1>8 DEF IInv

LEMMA DeliverStep ==
    ASSUME IInv, NEW s \in Slots, Deliver(s)
    PROVE  IInv' /\ Keeping
<1>1. /\ state' \in [Events -> EventStates]
     /\ replied' \in [Events -> BOOLEAN]
     /\ attempts' \in [Events -> Nat]
  <2>1. job[s].event \in Events
    BY DEF Deliver, IInv, TypeOK
  <2>2. UNCHANGED <<state, replied>>
    BY DEF Deliver
  <2> DEFINE n == IF attempts[job[s].event] < MaxDeliveries
                  THEN attempts[job[s].event] + 1 ELSE MaxDeliveries
  <2>3. n \in Nat
    <3>1. attempts[job[s].event] \in Nat /\ MaxDeliveries \in Nat
      BY <2>1, InboundAssumption DEF IInv, TypeOK
    <3> QED  BY <3>1
  <2>4. UNCHANGED attempts \/ attempts' = [attempts EXCEPT ![job[s].event] = n]
    BY DEF Deliver
  <2>5. attempts \in [Events -> Nat]
    BY DEF IInv, TypeOK
  <2> HIDE DEF n
  <2>6. attempts' \in [Events -> Nat]
    BY <2>1, <2>3, <2>4, <2>5
  <2> QED  BY <2>2, <2>6 DEF IInv, TypeOK
<1>2. job' \in [Slots -> {[at |-> "free"]}
                 \cup [at : JobPlaces \ {"free"}, event : Events, left : Nat, count : Nat]]
  <2>1. job[s] \in [at : JobPlaces \ {"free"}, event : Events, left : Nat, count : Nat]
    BY DEF Deliver, IInv, TypeOK
  <2>2. job[s].left > 0
    BY DEF Deliver, IInv, TypeOK, QueueInv
  <2> DEFINE n == IF attempts[job[s].event] < MaxDeliveries
                  THEN attempts[job[s].event] + 1 ELSE MaxDeliveries
  <2>3. n \in Nat
    <3>1. attempts[job[s].event] \in Nat /\ MaxDeliveries \in Nat
      BY <2>1, InboundAssumption DEF IInv, TypeOK
    <3> QED  BY <3>1
  <2>4. job' = [job EXCEPT ![s].at = "running", ![s].left = @ - 1, ![s].count = n]
    BY DEF Deliver
  <2> HIDE DEF n
  <2> DEFINE run == [at |-> "running", event |-> job[s].event, left |-> job[s].left - 1, count |-> n]
  <2>5. run \in [at : JobPlaces \ {"free"}, event : Events, left : Nat, count : Nat]
    BY <2>1, <2>2, <2>3
  <2>6. job'[s] = run
    BY <2>1, <2>4 DEF IInv, TypeOK
  <2>7. /\ job' = [t \in Slots |-> job'[t]]
        /\ \A t \in Slots : t # s => job'[t] = job[t]
    BY <2>4 DEF IInv, TypeOK
  <2> HIDE DEF run
  <2>8. \A t \in Slots : job'[t] \in {[at |-> "free"]}
          \cup [at : JobPlaces \ {"free"}, event : Events, left : Nat, count : Nat]
    BY <2>5, <2>6, <2>7 DEF IInv, TypeOK
  <2> QED  BY <2>7, <2>8
<1>3. faults' \in Nat
  BY DEF Deliver, Works, Fails, PublishOk, PublishFails, IInv, TypeOK
<1>4. TypeOK'
  BY <1>1, <1>2, <1>3 DEF Deliver, IInv, TypeOK
<1>5. Keeping
  BY DEF Deliver, IInv, TypeOK, Keeping
<1>6. RowInv'
  BY <1>5, RowKept DEF Deliver
<1>7. QueueInv'
  BY <1>5 DEF Deliver, IInv, TypeOK, QueueInv, Keeping
<1>8. RouteInv'
  BY <1>5, RouteKept DEF Deliver
<1>9. SweepInv'
  BY <1>5, SweepKept DEF Deliver
<1>10. AckInv'
  BY <1>5, AckKept DEF Deliver
<1> QED  BY <1>4, <1>5, <1>6, <1>7, <1>8, <1>9, <1>10 DEF IInv

LEMMA SettleStep ==
    ASSUME IInv, NEW s \in Slots, Settle(s)
    PROVE  IInv' /\ Keeping
<1> DEFINE e == job[s].event
<1>0. /\ e \in Events /\ published[e]
      /\ JobDone(s) \/ JobRetried(s)
      /\ finished' = [finished EXCEPT ![e] = TRUE]
      /\ \/ \E answered \in BOOLEAN : MarkEventState(e, "processed", answered)
         \/ UNCHANGED row
      /\ UNCHANGED <<age, posts, acked, route, dedup, published, alerts, sweep>>
      /\ \E k \in {"db", "crash"} : Works \/ Fails(k)
      /\ job[s].at \in Working
  BY DEF Settle, IInv, TypeOK, QueueInv
<1> HIDE DEF e
<1>1. /\ state' \in [Events -> EventStates]
     /\ replied' \in [Events -> BOOLEAN]
     /\ attempts' \in [Events -> Nat]
  BY <1>0, Marking DEF IInv, TypeOK
<1>2. job' \in [Slots -> {[at |-> "free"]}
                 \cup [at : JobPlaces \ {"free"}, event : Events, left : Nat, count : Nat]]
  BY <1>0, JobEnds DEF IInv, TypeOK
<1>3. finished' \in [Events -> BOOLEAN]
  BY <1>0 DEF IInv, TypeOK
<1>4. faults' \in Nat
  BY <1>0, CountsFailures DEF IInv, TypeOK
<1>5. TypeOK'
  BY <1>0, <1>1, <1>2, <1>3, <1>4 DEF IInv, TypeOK
<1>6. Keeping
  BY <1>0, Marking DEF IInv, TypeOK, Keeping
<1>7. RowInv'
  <2>1. CASE UNCHANGED row
    BY <1>0, <2>1 DEF IInv, TypeOK, RowInv
  <2>2. CASE ~UNCHANGED row
    BY <1>0, <2>2, Marking DEF IInv, TypeOK, RowInv
  <2> QED  BY <2>1, <2>2
<1>8. QueueInv'
  <2>1. \A t \in Slots : job'[t].at # "free" => job[t].at # "free" /\ job'[t].event = job[t].event
    BY <1>0, JobEnds DEF IInv
  <2>2. \A t \in Slots : job'[t].at = "waiting" => job'[t].left > 0
    BY <1>0, JobEnds DEF IInv
  <2> QED  BY <1>0, <2>1, <2>2 DEF IInv, TypeOK, QueueInv
<1>9. RouteInv'
  BY <1>0, <1>6, RouteKept
<1>10. SweepInv'
  BY <1>0, <1>6, SweepKept
<1>11. AckInv'
  BY <1>0, <1>6, AckKept
<1> QED  BY <1>5, <1>6, <1>7, <1>8, <1>9, <1>10, <1>11 DEF IInv

LEMMA ShedStep ==
    ASSUME IInv, NEW s \in Slots, Shed(s)
    PROVE  IInv' /\ Keeping
<1> DEFINE e == job[s].event
<1>a. job[s] \in [at : JobPlaces \ {"free"}, event : Events, left : Nat, count : Nat]
  BY DEF Shed, IInv, TypeOK
<1>b. published[e]
  BY <1>a DEF Shed, IInv, QueueInv
<1>c. /\ job' = [job EXCEPT ![s].at = "shedding"]
      /\ MarkEventState(e, "shed", FALSE) \/ UNCHANGED row
      /\ UNCHANGED <<age, posts, acked, route, dedup, published, finished, alerts, sweep>>
      /\ Works \/ Fails("db")
  BY DEF Shed
<1>0. /\ e \in Events /\ published[e]
      /\ job' = [job EXCEPT ![s].at = "shedding"]
      /\ MarkEventState(e, "shed", FALSE) \/ UNCHANGED row
      /\ UNCHANGED <<age, posts, acked, route, dedup, published, finished, alerts, sweep>>
      /\ Works \/ Fails("db")
  BY <1>a, <1>b, <1>c
<1> HIDE DEF e
<1>1. /\ state' \in [Events -> EventStates]
     /\ replied' \in [Events -> BOOLEAN]
     /\ attempts' \in [Events -> Nat]
  BY <1>0, Marking DEF IInv, TypeOK
<1>2. job' \in [Slots -> {[at |-> "free"]}
                 \cup [at : JobPlaces \ {"free"}, event : Events, left : Nat, count : Nat]]
  BY <1>0, <1>a DEF IInv, TypeOK
<1>3. faults' \in Nat
  BY <1>0, CountsFailures DEF IInv, TypeOK
<1>4. TypeOK'
  BY <1>0, <1>1, <1>2, <1>3 DEF IInv, TypeOK
<1>5. Keeping
  <2>1. CASE UNCHANGED row
    BY <1>0, <2>1 DEF Keeping
  <2>2. CASE MarkEventState(e, "shed", FALSE)
    <3>1. state'[e] = "shed" /\ \A d \in Events \ {e} : state'[d] = state[d]
      BY <1>0, <2>2, Marking DEF IInv
    <3> QED  BY <1>0, <3>1 DEF Keeping
  <2> QED  BY <1>0, <2>1, <2>2
<1>6. RowInv'
  <2>1. CASE UNCHANGED row
    BY <1>0, <2>1 DEF IInv, TypeOK, RowInv
  <2>2. CASE MarkEventState(e, "shed", FALSE)
    <3>1. /\ state'[e] = "shed" /\ (replied'[e] => replied[e])
          /\ \A d \in Events \ {e} : state'[d] = state[d] /\ replied'[d] = replied[d]
      BY <1>0, <2>2, Marking DEF IInv
    <3> QED  BY <1>0, <3>1 DEF IInv, TypeOK, RowInv
  <2> QED  BY <1>0, <2>1, <2>2
<1>7. QueueInv'
  <2>1. \A t \in Slots : job'[t].at # "free" => job[t].at # "free" /\ job'[t].event = job[t].event
    BY <1>0, <1>a DEF IInv, TypeOK
  <2>2. \A t \in Slots : job'[t].at = "waiting" => job'[t].left > 0
    BY <1>0 DEF IInv, TypeOK, QueueInv
  <2> QED  BY <1>0, <2>1, <2>2 DEF IInv, TypeOK, QueueInv
<1>8. RouteInv'
  BY <1>0, <1>5, RouteKept
<1>9. SweepInv'
  BY <1>0, <1>5, SweepKept
<1>10. AckInv'
  BY <1>0, <1>5, AckKept
<1> QED  BY <1>4, <1>5, <1>6, <1>7, <1>8, <1>9, <1>10 DEF IInv

LEMMA EndShedStep ==
    ASSUME IInv, NEW s \in Slots, EndShed(s)
    PROVE  IInv' /\ Keeping
<1> DEFINE e == job[s].event
<1>0. /\ e \in Events /\ published[e]
      /\ JobDone(s)
      /\ finished' = [finished EXCEPT ![e] = TRUE]
      /\ UNCHANGED <<row, age, posts, acked, route, dedup, published, alerts, sweep, faults>>
      /\ job[s].at \in Working
  BY DEF EndShed, IInv, TypeOK, QueueInv
<1> HIDE DEF e
<1>1. job' \in [Slots -> {[at |-> "free"]}
                 \cup [at : JobPlaces \ {"free"}, event : Events, left : Nat, count : Nat]]
  BY <1>0, JobEnds DEF IInv, TypeOK
<1>2. TypeOK'
  BY <1>0, <1>1 DEF IInv, TypeOK
<1>3. Keeping
  BY <1>0 DEF IInv, TypeOK, Keeping
<1>4. RowInv'
  BY <1>0, <1>3, RowKept
<1>5. QueueInv'
  <2>1. \A t \in Slots : job'[t].at # "free" => job[t].at # "free" /\ job'[t].event = job[t].event
    BY <1>0, JobEnds DEF IInv
  <2>2. \A t \in Slots : job'[t].at = "waiting" => job'[t].left > 0
    BY <1>0, JobEnds DEF IInv
  <2> QED  BY <1>0, <2>1, <2>2 DEF IInv, TypeOK, QueueInv
<1>6. RouteInv'
  BY <1>0, <1>3, RouteKept
<1>7. SweepInv'
  BY <1>0, <1>3, SweepKept
<1>8. AckInv'
  BY <1>0, <1>3, AckKept
<1> QED  BY <1>2, <1>3, <1>4, <1>5, <1>6, <1>7, <1>8 DEF IInv

LEMMA RefuseStep ==
    ASSUME IInv, NEW s \in Slots, Refuse(s)
    PROVE  IInv' /\ Keeping
<1>1. job' \in [Slots -> {[at |-> "free"]}
                 \cup [at : JobPlaces \ {"free"}, event : Events, left : Nat, count : Nat]]
  BY JobEnds DEF Refuse, IInv, TypeOK
<1>2. alerts' \in [Events -> SUBSET AlertKinds]
  <2>0. job[s].event \in Events
    BY DEF Refuse, IInv, TypeOK
  <2>1. UNCHANGED alerts \/ alerts' = [alerts EXCEPT ![job[s].event] = @ \cup {"exhausted"}]
    BY DEF Refuse
  <2> QED  BY <2>0, <2>1, Alerting DEF IInv, TypeOK
<1>3. faults' \in Nat
  BY DEF Refuse, Works, Fails, PublishOk, PublishFails, IInv, TypeOK
<1>4. TypeOK'
  BY <1>1, <1>2, <1>3 DEF Refuse, IInv, TypeOK
<1>5. Keeping
  <2>0. job[s].event \in Events
    BY DEF Refuse, IInv, TypeOK
  <2>1. UNCHANGED alerts \/ alerts' = [alerts EXCEPT ![job[s].event] = @ \cup {"exhausted"}]
    BY DEF Refuse
  <2>2. \A d \in Events : alerts[d] \subseteq alerts'[d]
    BY <2>0, <2>1, Alerting DEF IInv
  <2> QED  BY <2>2 DEF Refuse, Keeping
<1>6. RowInv'
  BY <1>5, RowKept DEF Refuse
<1>7. QueueInv'
  BY <1>5, JobEnds DEF Refuse, IInv, TypeOK, QueueInv, Keeping
<1>8. RouteInv'
  BY <1>5, RouteKept DEF Refuse
<1>9. SweepInv'
  BY <1>5, SweepKept DEF Refuse
<1>10. AckInv'
  BY <1>5, AckKept DEF Refuse
<1> QED  BY <1>4, <1>5, <1>6, <1>7, <1>8, <1>9, <1>10 DEF IInv

LEMMA DropStep ==
    ASSUME IInv, NEW s \in Slots, Drop(s)
    PROVE  IInv' /\ Keeping
<1>1. job' \in [Slots -> {[at |-> "free"]}
                 \cup [at : JobPlaces \ {"free"}, event : Events, left : Nat, count : Nat]]
  BY JobEnds DEF Drop, IInv, TypeOK
<1>2. faults' \in Nat
  BY DEF Drop, Works, Fails, PublishOk, PublishFails, IInv, TypeOK
<1>3. TypeOK'
  BY <1>1, <1>2 DEF Drop, IInv, TypeOK
<1>4. Keeping
  BY DEF Drop, IInv, TypeOK, Keeping
<1>5. RowInv'
  BY <1>4, RowKept DEF Drop
<1>6. QueueInv'
  BY <1>4, JobEnds DEF Drop, IInv, TypeOK, QueueInv, Keeping
<1>7. RouteInv'
  BY <1>4, RouteKept DEF Drop
<1>8. SweepInv'
  BY <1>4, SweepKept DEF Drop
<1>9. AckInv'
  BY <1>4, AckKept DEF Drop
<1> QED  BY <1>3, <1>4, <1>5, <1>6, <1>7, <1>8, <1>9 DEF IInv

LEMMA WorkerDiesStep ==
    ASSUME IInv, NEW s \in Slots, WorkerDies(s)
    PROVE  IInv' /\ Keeping
<1>1. job' \in [Slots -> {[at |-> "free"]}
                 \cup [at : JobPlaces \ {"free"}, event : Events, left : Nat, count : Nat]]
  BY JobEnds DEF WorkerDies, IInv, TypeOK
<1>2. faults' \in Nat
  BY DEF WorkerDies, Works, Fails, PublishOk, PublishFails, IInv, TypeOK
<1>3. TypeOK'
  BY <1>1, <1>2 DEF WorkerDies, IInv, TypeOK
<1>4. Keeping
  BY DEF WorkerDies, IInv, TypeOK, Keeping
<1>5. RowInv'
  BY <1>4, RowKept DEF WorkerDies
<1>6. QueueInv'
  BY <1>4, JobEnds DEF WorkerDies, IInv, TypeOK, QueueInv, Keeping
<1>7. RouteInv'
  BY <1>4, RouteKept DEF WorkerDies
<1>8. SweepInv'
  BY <1>4, SweepKept DEF WorkerDies
<1>9. AckInv'
  BY <1>4, AckKept DEF WorkerDies
<1> QED  BY <1>3, <1>4, <1>5, <1>6, <1>7, <1>8, <1>9 DEF IInv

\* The list of a run, as SweepStart builds it.
LEMMA Due ==
    ASSUME IInv, NEW due \in SUBSET Events, due # {}, NEW order \in [1 .. Cardinality(due) -> due],
           sweep' = [at |-> "next",
                     todo |-> [i \in DOMAIN order |-> [event |-> order[i], age |-> age[order[i]]]]]
    PROVE  /\ sweep' \in [at : SweepPlaces, todo : Seq([event : Events, age : Ages])]
           /\ sweep'.at = "next" /\ sweep'.todo # <<>>
<1> DEFINE n == Cardinality(due)
           Item == [event : Events, age : Ages]
           todo == [i \in DOMAIN order |-> [event |-> order[i], age |-> age[order[i]]]]
<1>1. n \in Nat /\ n > 0
  <2>1. IsFiniteSet(due)
    BY InboundAssumption, FS_Subset
  <2> QED  BY <2>1, FS_CardinalityType, FS_EmptySet
<1>2. DOMAIN order = 1 .. n
  OBVIOUS
<1>3. \A i \in 1 .. n : [event |-> order[i], age |-> age[order[i]]] \in Item
  BY DEF IInv, TypeOK
<1>4. todo \in [1 .. n -> Item]
  BY <1>2, <1>3
<1>5. todo \in Seq(Item) /\ Len(todo) = n
  <2> HIDE DEF todo, n, Item
  <2> QED  BY <1>1, <1>4, SeqOf
<1>6. todo # <<>>
  <2> HIDE DEF todo, n, Item
  <2> QED  BY <1>1, <1>5, NonEmpty
<1> HIDE DEF todo
<1>7. sweep' = [at |-> "next", todo |-> todo]
  BY DEF todo
<1> QED  BY <1>5, <1>6, <1>7

LEMMA SweepStartStep ==
    ASSUME IInv, SweepStart
    PROVE  IInv' /\ Keeping
<1>1. sweep' \in [at : SweepPlaces, todo : Seq([event : Events, age : Ages])]
  <2>1. PICK due \in SUBSET Events : \E order \in [1 .. Cardinality(due) -> due] :
            /\ due # {}
            /\ sweep' = [at |-> "next",
                         todo |-> [i \in DOMAIN order |-> [event |-> order[i], age |-> age[order[i]]]]]
    BY DEF SweepStart
  <2> QED  BY <2>1, Due
<1>2. TypeOK'
  BY <1>1 DEF SweepStart, IInv, TypeOK
<1>3. Keeping
  BY DEF SweepStart, IInv, TypeOK, Keeping
<1>4. RowInv'
  BY <1>3, RowKept DEF SweepStart
<1>5. QueueInv'
  BY QueueKept DEF SweepStart
<1>6. RouteInv'
  BY <1>3, RouteKept DEF SweepStart
<1>7. SweepInv'
  <2>1. PICK due \in SUBSET Events : \E order \in [1 .. Cardinality(due) -> due] :
            /\ due # {}
            /\ sweep' = [at |-> "next",
                         todo |-> [i \in DOMAIN order |-> [event |-> order[i], age |-> age[order[i]]]]]
    BY DEF SweepStart
  <2> QED  BY <2>1, Due DEF SweepInv
<1>8. AckInv'
  BY <1>3, AckKept DEF SweepStart
<1> QED  BY <1>2, <1>3, <1>4, <1>5, <1>6, <1>7, <1>8 DEF IInv

LEMMA RequeueStep ==
    ASSUME IInv, Requeue
    PROVE  IInv' /\ Keeping
<1>1. Current \in Events
  BY CurrentEvent DEF Requeue
<1>2. UNCHANGED queue \/ TakesJob(Current)
  BY DEF Requeue, PublishOk, PublishFails
<1>3. /\ job' \in [Slots -> {[at |-> "free"]}
                 \cup [at : JobPlaces \ {"free"}, event : Events, left : Nat, count : Nat]]
     /\ dedup' \in [Events -> BOOLEAN]
     /\ published' \in [Events -> BOOLEAN]
     /\ \A d \in Events : published[d] => published'[d]
  <2>1. CASE TakesJob(Current)
    BY <1>1, <2>1, Taking DEF IInv
  <2>2. CASE UNCHANGED queue
    BY <2>2 DEF IInv, TypeOK
  <2> QED  BY <1>2, <2>1, <2>2
<1>4. sweep' \in [at : SweepPlaces, todo : Seq([event : Events, age : Ages])]
  BY <1>1 DEF Requeue, IInv, TypeOK
<1>5. faults' \in Nat
  BY DEF Requeue, Works, Fails, PublishOk, PublishFails, IInv, TypeOK
<1>6. TypeOK'
  BY <1>3, <1>4, <1>5 DEF Requeue, IInv, TypeOK
<1>7. Keeping
  BY <1>1, <1>3 DEF Requeue, IInv, TypeOK, Keeping
<1>8. RowInv'
  BY <1>7, RowKept DEF Requeue
<1>9. QueueInv'
  <2>1. UNCHANGED finished
    BY DEF Requeue
  <2>2. CASE UNCHANGED queue
    BY <2>1, <2>2, QueueKept
  <2>3. CASE TakesJob(Current)
    <3>1. TypeOK /\ QueueInv
      BY DEF IInv
    <3>2. \A d \in Events : finished'[d] => published'[d]
      BY <1>3, <2>1, <3>1 DEF QueueInv
    <3> QED  BY <1>1, <2>3, <3>1, <3>2, Taking DEF QueueInv
  <2> QED  BY <1>2, <2>2, <2>3
<1>10. RouteInv'
  BY <1>7, RouteKept DEF Requeue
<1>11. SweepInv'
  <2>1. /\ sweep'.todo = sweep.todo /\ sweep.todo # <<>>
        /\ sweep'.at \in {"mark", "warn"}
    BY DEF Requeue, IInv, TypeOK, SweepInv
  <2>2. sweep'.at = "mark" => published'[Current]
    <3>1. SUFFICES ASSUME sweep'.at = "mark" PROVE published'[Current]
      OBVIOUS
    <3>2. PublishOk(Current)
      BY <3>1 DEF Requeue, IInv, TypeOK
    <3> QED  BY <1>1, <3>2, Taking DEF PublishOk, IInv
  <2> QED  BY <2>1, <2>2 DEF SweepInv, Current
<1>12. AckInv'
  BY <1>7, AckKept DEF Requeue
<1> QED  BY <1>6, <1>7, <1>8, <1>9, <1>10, <1>11, <1>12 DEF IInv

LEMMA MarkRequeuedStep ==
    ASSUME IInv, MarkRequeued
    PROVE  IInv' /\ Keeping
<1>1. Current \in Events
  BY CurrentEvent DEF MarkRequeued
<1>2. /\ state' \in [Events -> EventStates]
     /\ replied' \in [Events -> BOOLEAN]
     /\ attempts' \in [Events -> Nat]
  BY <1>1 DEF MarkRequeued, MarkEventState, IInv, TypeOK
<1>3. sweep' \in [at : SweepPlaces, todo : Seq([event : Events, age : Ages])]
  BY <1>1 DEF MarkRequeued, IInv, TypeOK
<1>4. faults' \in Nat
  <2>1. Works \/ Fails("db")
    BY DEF MarkRequeued
  <2> QED  BY <2>1, CountsFailures DEF IInv, TypeOK
<1>5. TypeOK'
  BY <1>2, <1>3, <1>4 DEF MarkRequeued, MarkEventState, IInv, TypeOK
<1>6. Keeping
  BY <1>1 DEF MarkRequeued, MarkEventState, IInv, TypeOK, Keeping
<1>7. RowInv'
  BY <1>1, <1>6 DEF MarkRequeued, MarkEventState, IInv, TypeOK, RowInv, RouteInv, SweepInv, Keeping
<1>8. QueueInv'
  BY QueueKept DEF MarkRequeued
<1>9. RouteInv'
  BY <1>6, RouteKept DEF MarkRequeued
<1>10. SweepInv'
  BY <1>1, <1>6 DEF MarkRequeued, IInv, TypeOK, SweepInv, Keeping, Current
<1>11. AckInv'
  BY <1>6, AckKept DEF MarkRequeued
<1> QED  BY <1>5, <1>6, <1>7, <1>8, <1>9, <1>10, <1>11 DEF IInv

LEMMA WarnRequeuedStep ==
    ASSUME IInv, WarnRequeued
    PROVE  IInv' /\ Keeping
<1>1. Current \in Events
  BY CurrentEvent DEF WarnRequeued
<1>2. alerts' \in [Events -> SUBSET AlertKinds]
  <2>1. UNCHANGED alerts \/ alerts' = [alerts EXCEPT ![Current] = @ \cup {"requeued"}]
    BY DEF WarnRequeued
  <2> QED  BY <1>1, <2>1, Alerting DEF IInv, TypeOK
<1>3. sweep' \in [at : SweepPlaces, todo : Seq([event : Events, age : Ages])]
  BY <1>1, SweepingOn DEF WarnRequeued, IInv, TypeOK
<1>4. faults' \in Nat
  BY DEF WarnRequeued, Works, Fails, PublishOk, PublishFails, IInv, TypeOK
<1>5. TypeOK'
  BY <1>2, <1>3, <1>4 DEF WarnRequeued, IInv, TypeOK
<1>6. Keeping
  <2>1. UNCHANGED alerts \/ alerts' = [alerts EXCEPT ![Current] = @ \cup {"requeued"}]
    BY DEF WarnRequeued
  <2>2. \A d \in Events : alerts[d] \subseteq alerts'[d]
    BY <1>1, <2>1, Alerting DEF IInv
  <2> QED  BY <2>2 DEF WarnRequeued, Keeping
<1>7. RowInv'
  BY <1>6, RowKept DEF WarnRequeued
<1>8. QueueInv'
  BY QueueKept DEF WarnRequeued
<1>9. RouteInv'
  BY <1>6, RouteKept DEF WarnRequeued
<1>10. SweepInv'
  BY <1>1, <1>6, SweepingOn DEF WarnRequeued, IInv, TypeOK, SweepInv, Keeping, Current
<1>11. AckInv'
  BY <1>6, AckKept DEF WarnRequeued
<1> QED  BY <1>5, <1>6, <1>7, <1>8, <1>9, <1>10, <1>11 DEF IInv

LEMMA TellStep ==
    ASSUME IInv, Tell
    PROVE  IInv' /\ Keeping
<1>1. Current \in Events
  BY CurrentEvent DEF Tell
<1>2. alerts' \in [Events -> SUBSET AlertKinds]
  <2>1. UNCHANGED alerts \/ alerts' = [alerts EXCEPT ![Current] = @ \cup {"stranded"}]
    BY DEF Tell
  <2> QED  BY <1>1, <2>1, Alerting DEF IInv, TypeOK
<1>3. sweep' \in [at : SweepPlaces, todo : Seq([event : Events, age : Ages])]
  BY <1>1, SweepingOn DEF Tell, IInv, TypeOK
<1>4. faults' \in Nat
  BY DEF Tell, Works, Fails, PublishOk, PublishFails, IInv, TypeOK
<1>5. TypeOK'
  BY <1>2, <1>3, <1>4 DEF Tell, IInv, TypeOK
<1>6. Keeping
  <2>1. UNCHANGED alerts \/ alerts' = [alerts EXCEPT ![Current] = @ \cup {"stranded"}]
    BY DEF Tell
  <2>2. \A d \in Events : alerts[d] \subseteq alerts'[d]
    BY <1>1, <2>1, Alerting DEF IInv
  <2> QED  BY <2>2 DEF Tell, Keeping
<1>7. RowInv'
  BY <1>6, RowKept DEF Tell
<1>8. QueueInv'
  BY QueueKept DEF Tell
<1>9. RouteInv'
  BY <1>6, RouteKept DEF Tell
<1>10. SweepInv'
  BY <1>1, <1>6, SweepingOn DEF Tell, IInv, TypeOK, SweepInv, Keeping, Current
<1>11. AckInv'
  BY <1>6, AckKept DEF Tell
<1> QED  BY <1>5, <1>6, <1>7, <1>8, <1>9, <1>10, <1>11 DEF IInv

LEMMA ExpireStep ==
    ASSUME IInv, Expire
    PROVE  IInv' /\ Keeping
<1>1. Current \in Events
  BY CurrentEvent DEF Expire
<1>2. /\ state' \in [Events -> EventStates]
     /\ replied' \in [Events -> BOOLEAN]
     /\ attempts' \in [Events -> Nat]
  BY <1>1 DEF Expire, MarkEventState, IInv, TypeOK
<1>3. sweep' \in [at : SweepPlaces, todo : Seq([event : Events, age : Ages])]
  BY <1>1, SweepingOn DEF Expire, IInv, TypeOK
<1>4. faults' \in Nat
  <2>1. Works \/ Fails("db")
    BY DEF Expire
  <2> QED  BY <2>1, CountsFailures DEF IInv, TypeOK
<1>5. TypeOK'
  BY <1>2, <1>3, <1>4 DEF Expire, MarkEventState, IInv, TypeOK
<1>6. Keeping
  BY <1>1 DEF Expire, MarkEventState, IInv, TypeOK, Keeping
<1>7. RowInv'
  BY <1>1, <1>6 DEF Expire, MarkEventState, IInv, TypeOK, RowInv, RouteInv, SweepInv, Keeping
<1>8. QueueInv'
  BY QueueKept DEF Expire
<1>9. RouteInv'
  BY <1>6, RouteKept DEF Expire
<1>10. SweepInv'
  BY <1>1, <1>6, SweepingOn DEF Expire, IInv, TypeOK, SweepInv, Keeping, Current
<1>11. AckInv'
  BY <1>6, AckKept DEF Expire
<1> QED  BY <1>5, <1>6, <1>7, <1>8, <1>9, <1>10, <1>11 DEF IInv

LEMMA SweepDiesStep ==
    ASSUME IInv, SweepDies
    PROVE  IInv' /\ Keeping
<1>1. sweep' \in [at : SweepPlaces, todo : Seq([event : Events, age : Ages])]
  BY DEF SweepDies, IInv, TypeOK
<1>2. faults' \in Nat
  BY DEF SweepDies, Works, Fails, PublishOk, PublishFails, IInv, TypeOK
<1>3. TypeOK'
  BY <1>1, <1>2 DEF SweepDies, IInv, TypeOK
<1>4. Keeping
  BY DEF SweepDies, IInv, TypeOK, Keeping
<1>5. RowInv'
  BY <1>4, RowKept DEF SweepDies
<1>6. QueueInv'
  BY QueueKept DEF SweepDies
<1>7. RouteInv'
  BY <1>4, RouteKept DEF SweepDies
<1>8. SweepInv'
  BY <1>4 DEF SweepDies, IInv, TypeOK, SweepInv, Keeping, Current
<1>9. AckInv'
  BY <1>4, AckKept DEF SweepDies
<1> QED  BY <1>3, <1>4, <1>5, <1>6, <1>7, <1>8, <1>9 DEF IInv

LEMMA TickStep ==
    ASSUME IInv, NEW e \in Events, Tick(e)
    PROVE  IInv' /\ Keeping
<1>1. age' \in [Events -> Ages]
  BY InboundAssumption DEF Tick, IInv, TypeOK
<1>2. TypeOK'
  BY <1>1 DEF Tick, IInv, TypeOK
<1>3. Keeping
  BY DEF Tick, IInv, TypeOK, Keeping
<1>4. RowInv'
  BY <1>3, RowKept DEF Tick
<1>5. QueueInv'
  BY QueueKept DEF Tick
<1>6. RouteInv'
  BY <1>3, RouteKept DEF Tick
<1>7. SweepInv'
  BY <1>3, SweepKept DEF Tick
<1>8. AckInv'
  BY <1>3, AckKept DEF Tick
<1> QED  BY <1>2, <1>3, <1>4, <1>5, <1>6, <1>7, <1>8 DEF IInv

LEMMA Inductive == IInv /\ [Next]_vars => IInv'
<1> SUFFICES ASSUME IInv, [Next]_vars PROVE IInv'
  OBVIOUS
<1>1. CASE \E e \in Events : PostUnrouted(e) \/ Forget(e) \/ Tick(e)
  BY <1>1, PostUnroutedStep, ForgetStep, TickStep
<1>2. CASE \E r \in Routes, e \in Events : Post(r, e)
  BY <1>2, PostStep
<1>3. CASE \E r \in Routes : Enqueue(r) \/ Respond(r) \/ RouteDies(r)
  BY <1>3, EnqueueStep, RespondStep, RouteDiesStep
<1>4. CASE \E s \in Slots : \/ Deliver(s) \/ Settle(s) \/ Shed(s) \/ EndShed(s)
                             \/ Refuse(s) \/ Drop(s) \/ WorkerDies(s)
  BY <1>4, DeliverStep, SettleStep, ShedStep, EndShedStep, RefuseStep, DropStep, WorkerDiesStep
<1>5. CASE SweepStart \/ Requeue \/ MarkRequeued \/ WarnRequeued \/ Tell \/ Expire \/ SweepDies
  BY <1>5, SweepStartStep, RequeueStep, MarkRequeuedStep, WarnRequeuedStep, TellStep, ExpireStep, SweepDiesStep
<1>6. CASE UNCHANGED vars
  BY <1>6 DEF vars, IInv, TypeOK, RowInv, QueueInv, RouteInv, SweepInv, AckInv, Current
<1> QED  BY <1>1, <1>2, <1>3, <1>4, <1>5, <1>6 DEF Next

THEOREM Invariant == Spec => []IInv
  BY InitIInv, Inductive, PTL DEF Spec

(***************************************************************************)
(* What follows for the events.                                            *)
(***************************************************************************)

\* Every variable of InboundEvents keeps its type.
THEOREM TypeCorrect == Spec => []TypeOK
<1>1. IInv => TypeOK
  BY DEF IInv
<1> QED  BY <1>1, Invariant, PTL

\* A 200 is the truth: handleMetaEntry never answers Meta's retry of an event that QStash
\* refused, unless the sweep has already told the founder.
THEOREM RetriesAreNotSwallowed == Spec => []AckedReachedQueue
<1>1. IInv => AckedReachedQueue
  BY DEF IInv, AckInv, AckedReachedQueue, Told
<1> QED  BY <1>1, Invariant, PTL

\* An event Meta will not send again is done, announced, still in the sweep's list, or its row
\* says that a run refused it (reception.ts:1824): no order of the marks hides any other.
THEOREM NoEventIsLost == Spec => []SomebodyOwnsIt
<1>1. IInv => SomebodyOwnsIt
  BY DEF IInv, TypeOK, AckInv, RowInv, SomebodyOwnsIt, Told, Listed, Refused
<1> QED  BY <1>1, Invariant, PTL

\* sweepStrandedEvents retires a row only after its alert is recorded.
THEOREM ExpiryIsAnnounced == Spec => []ExpiredWasTold
<1>1. IInv => ExpiredWasTold
  BY DEF IInv, RowInv, ExpiredWasTold
<1> QED  BY <1>1, Invariant, PTL

\* No mark of the route, the worker or the sweep takes an answer back.
THEOREM AnswersAreKept == Spec => AnswerIsKept
<1>1. IInv /\ [Next]_vars => [\A e \in Events : replied[e] => replied'[e]]_vars
  <2> SUFFICES ASSUME IInv, Next PROVE \A e \in Events : replied[e] => replied'[e]
    OBVIOUS
  <2>1. \/ UNCHANGED replied
        \/ \E e, to, answered : MarkEventState(e, to, answered)
    BY DEF Next, PostUnrouted, Forget, Tick, Post, Enqueue, Respond, RouteDies, Deliver, Settle, Shed,
           EndShed, Refuse, Drop, WorkerDies, SweepStart, Requeue, MarkRequeued, WarnRequeued, Tell, Expire, SweepDies
  <2> QED  BY <2>1 DEF MarkEventState, IInv, TypeOK
<1> QED  BY <1>1, Invariant, PTL DEF Spec, AnswerIsKept
=============================================================================
