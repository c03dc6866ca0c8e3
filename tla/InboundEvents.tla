--------------------------- MODULE InboundEvents ---------------------------
(***************************************************************************)
(* An inbound Meta delivery from the POST to the row that says it is over. *)
(*                                                                         *)
(* Meta posts an event until it is answered 200.  The route claims a row   *)
(* of webhook_events, publishes a QStash job and records how the publish   *)
(* went.  QStash delivers the job to the worker until the worker answers   *)
(* 200.  The hourly stranded sweep looks for rows that neither of them     *)
(* finished.  All of them write webhook_events.state by id, without a      *)
(* compare-and-set (src/lib/webhook/events.ts, markEventState), so each    *)
(* may overwrite what another has just written.                            *)
(*                                                                         *)
(* What the worker does with the event is OutboundDelivery's subject: here *)
(* a run settles the event, sheds it (a refusal it records and then sees   *)
(* out), refuses it (503), drops it or dies.                               *)
(***************************************************************************)
EXTENDS Naturals, Sequences, FiniteSets

CONSTANTS
    Events,      \* entries Meta sends us, by the order they are received in
    Routes,      \* POST handlers that may run at once
    Slots,       \* jobs QStash may hold at once
    Unrouted,    \* events of a Page no tenant has
    Owed,        \* plain customer text on a live channel: a late one is owed the hand-off line
    SweepLimit,  \* SWEEP_LIMIT
    MaxPosts,    \* bound: how often Meta posts one event
    Deliveries,  \* how often QStash delivers one job (retries: 3)
    MaxDeliveries, \* RECEPTION_MAX_DELIVERIES, the delivery that pages
    Faults,      \* kinds of failure a run explores
    MaxFaults    \* bound: failures of one behaviour

ASSUME InboundAssumption ==
    /\ Events \subseteq Nat
    /\ IsFiniteSet(Slots) /\ Cardinality(Slots) >= Cardinality(Events)
    /\ IsFiniteSet(Events)
    /\ Unrouted \subseteq Events
    /\ Owed \subseteq Events
    /\ SweepLimit \in Nat \ {0}
    /\ MaxPosts \in Nat
    /\ Deliveries \in Nat \ {0}
    /\ MaxDeliveries \in Nat
    /\ Faults \subseteq {"db", "alert", "queue", "worker", "crash", "channel"}
    /\ MaxFaults \in Nat

VARIABLES
    state,      \* webhook_events.state; "none" is no row
    replied,    \* webhook_events.replied_at is set
    attempts,   \* webhook_events.attempts
    age,        \* how long ago the row was received, in the classes the sweep tells apart
    posts,      \* posts of the event so far
    acked,      \* Meta has been answered 200 for the event
    route,      \* what each POST handler is doing
    job,        \* what QStash holds, and the worker run on it
    dedup,      \* QStash remembers the event's deduplicationId
    published,  \* history: QStash has taken a job for the event
    finished,   \* history: a worker run completed the event
    alerts,     \* the alert rows keyed on the event
    sweep,      \* the stranded sweep's run
    faults      \* failures so far

vars == <<state, replied, attempts, age, posts, acked, route, job, dedup, published, finished, alerts, sweep, faults>>
row == <<state, replied, attempts>>
queue == <<job, dedup, published>>

\* Fault: the sweep does not know the queued class.
NoQueuedStates == {}
QueuedStates == {"pending_enqueue"}
UnqueuedStates == {"received", "failed"}
\* "shed" stands for shed, blocked_no_token and standby_not_primary: a run that will not answer.
Verdicts == {"processed", "shed"}
EventStates == UnqueuedStates \cup QueuedStates \cup Verdicts \cup {"none", "expired_unqueued"}

\* The classes of age: inside both graces, past RETRY_GRACE_MINUTES, past
\* QUEUED_GRACE_MINUTES, past the tenant's reply limit, past Meta's 24 hours.
New == 0
PastRetryGrace == 1
PastQueuedGrace == 2
Late == 3
PastWindow == 4
Ages == New .. PastWindow

AlertKinds == {"requeued", "stranded", "exhausted"}
RoutePlaces == {"idle", "claimed", "queued", "refused"}
JobPlaces == {"free", "waiting", "running", "shedding"}
\* A worker run is on the job; at "shedding" it has marked the row of a refusal.
Working == {"running", "shedding"}
SweepPlaces == {"idle", "next", "mark", "warn", "expire"}
NoEvent == [at |-> "idle"]

TypeOK ==
    /\ state \in [Events -> EventStates]
    /\ replied \in [Events -> BOOLEAN]
    /\ attempts \in [Events -> Nat]
    /\ age \in [Events -> Ages]
    /\ posts \in [Events -> Nat]
    /\ acked \in [Events -> BOOLEAN]
    /\ route \in [Routes -> {NoEvent} \cup [at : RoutePlaces \ {"idle"}, event : Events]]
    /\ job \in [Slots -> {[at |-> "free"]}
                      \cup [at : JobPlaces \ {"free"}, event : Events, left : Nat, count : Nat]]
    /\ dedup \in [Events -> BOOLEAN]
    /\ published \in [Events -> BOOLEAN]
    /\ finished \in [Events -> BOOLEAN]
    /\ alerts \in [Events -> SUBSET AlertKinds]
    /\ sweep \in [at : SweepPlaces, todo : Seq([event : Events, age : Ages])]
    /\ faults \in Nat

Init ==
    /\ state = [e \in Events |-> "none"]
    /\ replied = [e \in Events |-> FALSE]
    /\ attempts = [e \in Events |-> 0]
    /\ age = [e \in Events |-> New]
    /\ posts = [e \in Events |-> 0]
    /\ acked = [e \in Events |-> FALSE]
    /\ route = [r \in Routes |-> NoEvent]
    /\ job = [s \in Slots |-> [at |-> "free"]]
    /\ dedup = [e \in Events |-> FALSE]
    /\ published = [e \in Events |-> FALSE]
    /\ finished = [e \in Events |-> FALSE]
    /\ alerts = [e \in Events |-> {}]
    /\ sweep = [at |-> "idle", todo |-> <<>>]
    /\ faults = 0

\* A failure of the given kind happens here.
Fails(kind) ==
    /\ kind \in Faults
    /\ faults < MaxFaults
    /\ faults' = faults + 1
Works == UNCHANGED faults

\* markEventState: the state by id, whatever it was; replied_at only when there was an answer.
\* The write may fail, and only the sweep looks at that.
MarkEventState(e, to, answered) ==
    /\ state' = [state EXCEPT ![e] = to]
    /\ replied' = [replied EXCEPT ![e] = @ \/ answered]
    /\ UNCHANGED attempts

(***************************************************************************)
(* QStash: enqueueReception                                                *)
(***************************************************************************)

\* A job of the event is taken into a free slot, or the publish is deduplicated.
TakesJob(e) ==
    \/ /\ ~dedup[e]
       /\ \E s \in Slots :
            /\ job[s].at = "free"
            /\ job' = [job EXCEPT ![s] = [at |-> "waiting", event |-> e, left |-> Deliveries, count |-> 0]]
       /\ dedup' = [dedup EXCEPT ![e] = TRUE]
       /\ published' = [published EXCEPT ![e] = TRUE]
    \/ /\ dedup[e]
       /\ UNCHANGED queue

\* The caller is told ok: with `deduplicated` or without.
PublishOk(e) == TakesJob(e) /\ Works

\* The caller is told it failed: QStash has the job all the same, or it has not.
PublishFails(e) ==
    /\ Fails("queue")
    /\ TakesJob(e) \/ UNCHANGED queue

\* The deduplication window closes, whether or not the job is done.  Bound: a slot is kept
\* free for every event that can be published.
Forget(e) ==
    /\ dedup[e]
    /\ Cardinality({s \in Slots : job[s].at = "free"}) > Cardinality({d \in Events : ~dedup[d]})
    /\ dedup' = [dedup EXCEPT ![e] = FALSE]
    /\ UNCHANGED <<row, age, posts, acked, route, job, published, finished, alerts, sweep, faults>>

(***************************************************************************)
(* The webhook route: handleMetaEntry                                      *)
(***************************************************************************)

\* Fault: a refused publish counts as queued.
NeverClaimedOnly(now) == now = "received"
\* The question a redelivery is decided by.
NeverReachedQueue(now) == now \in UnqueuedStates

\* Rows are received in the order of their numbers.
InOrder(e) == \A d \in Events : d < e => state[d] # "none"

\* 200 is Meta's word to stop; anything else and it posts again.
Answer200(e) == acked' = [acked EXCEPT ![e] = TRUE]

\* An event of a Page we do not know: its row is kept for diagnosis and never queued.  The
\* result of the claim is not looked at.
PostUnrouted(e) ==
    /\ e \in Unrouted
    /\ posts[e] < MaxPosts
    /\ InOrder(e)
    /\ posts' = [posts EXCEPT ![e] = @ + 1]
    /\ Answer200(e)
    /\ \/ /\ Works
          /\ state' = [state EXCEPT ![e] = IF @ = "none" THEN "received" ELSE @]
          /\ UNCHANGED <<replied, attempts>>
       \/ Fails("db") /\ UNCHANGED row
    /\ UNCHANGED <<age, route, queue, finished, alerts, sweep>>

\* claimWebhookEvent: insert the row, or read back the state of the one that is there.
\* A ledger that cannot be written or read is a 500.
Post(r, e) ==
    /\ e \notin Unrouted
    /\ route[r] = NoEvent
    /\ posts[e] < MaxPosts
    /\ InOrder(e)
    /\ posts' = [posts EXCEPT ![e] = @ + 1]
    /\ \/ /\ Works
          /\ state[e] = "none"
          /\ state' = [state EXCEPT ![e] = "received"]
          /\ route' = [route EXCEPT ![r] = [at |-> "claimed", event |-> e]]
          /\ UNCHANGED <<replied, attempts, acked>>
       \/ /\ Works
          /\ state[e] # "none"
          /\ NeverReachedQueue(state[e])
          /\ route' = [route EXCEPT ![r] = [at |-> "claimed", event |-> e]]
          /\ UNCHANGED <<row, acked>>
       \/ /\ Works
          /\ state[e] # "none"
          /\ ~NeverReachedQueue(state[e])
          /\ Answer200(e)
          /\ UNCHANGED <<row, route>>
       \/ Fails("db") /\ UNCHANGED <<row, route, acked>>
    /\ UNCHANGED <<age, queue, finished, alerts, sweep>>

\* deps.enqueue, and what it said.
Enqueue(r) ==
    /\ route[r].at = "claimed"
    /\ \/ PublishOk(route[r].event) /\ route' = [route EXCEPT ![r].at = "queued"]
       \/ PublishFails(route[r].event) /\ route' = [route EXCEPT ![r].at = "refused"]
    /\ UNCHANGED <<row, age, posts, acked, finished, alerts, sweep>>

\* The publish is recorded, or is not, and Meta is answered by how the publish went.
Respond(r) ==
    /\ route[r].at \in {"queued", "refused"}
    /\ LET e == route[r].event
           ok == route[r].at = "queued" IN
       /\ \/ Works /\ MarkEventState(e, IF ok THEN "pending_enqueue" ELSE "failed", FALSE)
          \/ Fails("db") /\ UNCHANGED row
       /\ acked' = [acked EXCEPT ![e] = @ \/ ok]
    /\ route' = [route EXCEPT ![r] = NoEvent]
    /\ UNCHANGED <<age, posts, queue, finished, alerts, sweep>>

\* The function is killed, and Meta posts again.
RouteDies(r) ==
    /\ route[r] # NoEvent
    /\ Fails("crash")
    /\ route' = [route EXCEPT ![r] = NoEvent]
    /\ UNCHANGED <<row, age, posts, acked, queue, finished, alerts, sweep>>

(***************************************************************************)
(* The worker, as the event sees it: runReceptionJob                       *)
(***************************************************************************)

\* The job is delivered: the run reads the row and counts the delivery.  A count that
\* cannot be written is a count all the same.  Bound: deliveries past the one that pages are
\* not told apart.
Deliver(s) ==
    /\ job[s].at = "waiting"
    /\ LET e == job[s].event
           n == IF attempts[e] < MaxDeliveries THEN attempts[e] + 1 ELSE MaxDeliveries IN
       /\ job' = [job EXCEPT ![s].at = "running", ![s].left = @ - 1, ![s].count = n]
       /\ \/ Works /\ attempts' = [attempts EXCEPT ![e] = n]
          \/ Fails("db") /\ UNCHANGED attempts
    /\ UNCHANGED <<state, replied, age, posts, acked, route, dedup, published, finished, alerts, sweep>>

\* The run answered 200, and QStash is done with the job.
JobDone(s) == job' = [job EXCEPT ![s] = [at |-> "free"]]
\* It did not, and QStash delivers the job again while it has deliveries left.
JobRetried(s) ==
    IF job[s].left > 0 THEN job' = [job EXCEPT ![s].at = "waiting"] ELSE JobDone(s)

\* The event's work is over and `processed` is the last write, or that write fails: 200
\* either way.  A run killed before its answer leaves the mark, and the job comes again.
Settle(s) ==
    /\ job[s].at = "running"
    /\ LET e == job[s].event IN
       /\ \/ /\ \E answered \in BOOLEAN : MarkEventState(e, "processed", answered)
             /\ \/ Works /\ JobDone(s)
                \/ Fails("crash") /\ JobRetried(s)
          \/ Fails("db") /\ JobDone(s) /\ UNCHANGED row
       /\ finished' = [finished EXCEPT ![e] = TRUE]
    /\ UNCHANGED <<age, posts, acked, route, dedup, published, alerts, sweep>>

\* A refusal no retry can change (the ceiling, no token, another primary receiver) marks the
\* row first; the founder's alert and the customer's hand-off line come after the mark.
Shed(s) ==
    /\ job[s].at = "running"
    /\ \/ Works /\ MarkEventState(job[s].event, "shed", FALSE)
       \/ Fails("db") /\ UNCHANGED row
    /\ job' = [job EXCEPT ![s].at = "shedding"]
    /\ UNCHANGED <<age, posts, acked, route, dedup, published, finished, alerts, sweep>>

\* The alert and the line are seen out: 200.
EndShed(s) ==
    /\ job[s].at = "shedding"
    /\ JobDone(s)
    /\ finished' = [finished EXCEPT ![job[s].event] = TRUE]
    /\ UNCHANGED <<row, age, posts, acked, route, dedup, published, alerts, sweep, faults>>

\* 503, before any mark or for the hand-off line of a row already marked: the row stays as it
\* is and QStash delivers again.  From the third delivery on the run pages that the event is
\* exhausted, and an alert that fails is only logged.
Refuse(s) ==
    /\ job[s].at \in Working
    /\ LET e == job[s].event IN
       \/ /\ job[s].count >= MaxDeliveries
          /\ Fails("worker")
          /\ alerts' = [alerts EXCEPT ![e] = @ \cup {"exhausted"}]
       \/ /\ job[s].count < MaxDeliveries \/ "alert" \in Faults
          /\ Fails("worker")
          /\ UNCHANGED alerts
    /\ JobRetried(s)
    /\ UNCHANGED <<row, age, posts, acked, route, dedup, published, finished, sweep>>

\* 200 with no state written: the channel of the job is not there any more.
Drop(s) ==
    /\ job[s].at = "running"
    /\ Fails("channel")
    /\ JobDone(s)
    /\ UNCHANGED <<row, age, posts, acked, route, dedup, published, finished, alerts, sweep>>

WorkerDies(s) ==
    /\ job[s].at \in Working
    /\ Fails("crash")
    /\ JobRetried(s)
    /\ UNCHANGED <<row, age, posts, acked, route, dedup, published, finished, alerts, sweep>>

(***************************************************************************)
(* The stranded sweep: sweepStrandedEvents                                 *)
(***************************************************************************)

Listed(e) ==
    /\ state[e] \in UnqueuedStates \cup QueuedStates
    /\ ~replied[e]
    /\ e \notin Unrouted

\* A row the sweep would take: a queued one is left to QStash for a longer grace.
Candidate(e) ==
    /\ Listed(e)
    /\ age[e] >= IF state[e] \in QueuedStates THEN PastQueuedGrace ELSE PastRetryGrace

\* The rows of the query, oldest first up to the limit, and then without the queued ones
\* that are too young.  One read at the start of the run: nothing below looks again.
SweepStart ==
    /\ sweep.at = "idle"
    /\ LET listed == {e \in Events : Listed(e) /\ age[e] >= PastRetryGrace}
           page == {e \in listed : Cardinality({d \in listed : d < e}) < SweepLimit}
           due == {e \in page : Candidate(e)} IN
       /\ due # {}
       /\ \E order \in [1 .. Cardinality(due) -> due] :
            /\ \A i, j \in DOMAIN order : i < j => order[i] < order[j]
            /\ sweep' = [at |-> "next",
                         todo |-> [i \in DOMAIN order |-> [event |-> order[i], age |-> age[order[i]]]]]
    /\ UNCHANGED <<row, age, posts, acked, route, queue, finished, alerts, faults>>

Current == Head(sweep.todo).event
\* On to the next row, or the run is over.
SweepNext ==
    sweep' = IF Len(sweep.todo) > 1 THEN [at |-> "next", todo |-> Tail(sweep.todo)]
             ELSE [at |-> "idle", todo |-> <<>>]

\* Fault: a late event is never given up.
RescuedForEver(item) == TRUE
\* Inside the reply limit, or late and owed the hand-off line.
Rescued(item) ==
    \/ item.age < Late
    \/ item.age = Late /\ item.event \in Owed

\* The rescue arm publishes again.  A refused publish leaves the row as it is.
Requeue ==
    /\ sweep.at = "next"
    /\ Rescued(Head(sweep.todo))
    /\ \/ PublishOk(Current) /\ sweep' = [sweep EXCEPT !.at = "mark"]
       \/ PublishFails(Current) /\ sweep' = [sweep EXCEPT !.at = "warn"]
    /\ UNCHANGED <<row, age, posts, acked, route, finished, alerts>>

MarkRequeued ==
    /\ sweep.at = "mark"
    /\ \/ Works /\ MarkEventState(Current, "pending_enqueue", FALSE)
       \/ Fails("db") /\ UNCHANGED row
    /\ sweep' = [sweep EXCEPT !.at = "warn"]
    /\ UNCHANGED <<age, posts, acked, route, queue, finished, alerts>>

\* The founder hears of every rescue, once per event; nobody looks at how that went.
WarnRequeued ==
    /\ sweep.at = "warn"
    /\ \/ Works /\ alerts' = [alerts EXCEPT ![Current] = @ \cup {"requeued"}]
       \/ Fails("alert") /\ UNCHANGED alerts
    /\ SweepNext
    /\ UNCHANGED <<row, age, posts, acked, route, queue, finished>>

\* The expiry arm first records that nobody answered (the page, or the lost draft of a
\* channel whose Page answered); an alert that fails leaves the row to the next run.
Tell ==
    /\ sweep.at = "next"
    /\ ~Rescued(Head(sweep.todo))
    /\ \/ /\ Works
          /\ alerts' = [alerts EXCEPT ![Current] = @ \cup {"stranded"}]
          /\ sweep' = [sweep EXCEPT !.at = "expire"]
       \/ Fails("alert") /\ SweepNext /\ UNCHANGED alerts
    /\ UNCHANGED <<row, age, posts, acked, route, queue, finished>>

Expire ==
    /\ sweep.at = "expire"
    /\ \/ Works /\ MarkEventState(Current, "expired_unqueued", FALSE)
       \/ Fails("db") /\ UNCHANGED row
    /\ SweepNext
    /\ UNCHANGED <<age, posts, acked, route, queue, finished, alerts>>

SweepDies ==
    /\ sweep.at # "idle"
    /\ Fails("crash")
    /\ sweep' = [at |-> "idle", todo |-> <<>>]
    /\ UNCHANGED <<row, age, posts, acked, route, queue, finished, alerts>>

(***************************************************************************)
(* Time                                                                    *)
(***************************************************************************)

\* Rows grow old in the order they were received in, whatever is running meanwhile: a handler
\* lives 15 seconds and a worker run or a sweep 60, so any of them may meet the end of a class.
Tick(e) ==
    /\ state[e] # "none"
    /\ age[e] < PastWindow
    /\ \A d \in Events : d < e => age[d] > age[e]
    /\ age' = [age EXCEPT ![e] = @ + 1]
    /\ UNCHANGED <<row, posts, acked, route, queue, finished, alerts, sweep, faults>>

Next ==
    \/ \E e \in Events : PostUnrouted(e) \/ Forget(e) \/ Tick(e)
    \/ \E r \in Routes, e \in Events : Post(r, e)
    \/ \E r \in Routes : Enqueue(r) \/ Respond(r) \/ RouteDies(r)
    \/ \E s \in Slots : Deliver(s) \/ Settle(s) \/ Shed(s) \/ EndShed(s) \/ Refuse(s) \/ Drop(s) \/ WorkerDies(s)
    \/ SweepStart \/ Requeue \/ MarkRequeued \/ WarnRequeued \/ Tell \/ Expire \/ SweepDies

Spec == Init /\ [][Next]_vars

\* What keeps running: the clock, and the hourly sweep with every step of its run.  Nothing is
\* asked of Meta, of QStash or of the worker.
SweepStep == SweepStart \/ Requeue \/ MarkRequeued \/ WarnRequeued \/ Tell \/ Expire
FairSpec ==
    /\ Spec
    /\ WF_vars(SweepStep)
    /\ \A e \in Events : WF_vars(Tick(e))

(***************************************************************************)
(* Properties                                                              *)
(***************************************************************************)

\* Somebody told the founder that nobody answered.
Told(e) == alerts[e] \cap {"stranded", "exhausted"} # {}

\* Once Meta has been told to stop, QStash has taken the event, or the founder has been told.
\* This is the incident of 2026-09-06: the retries of a refused publish were answered 200.
AckedReachedQueue ==
    \A e \in Events \ Unrouted : acked[e] => published[e] \/ Told(e)

\* The row says the event was refused.  The mark comes before the hand-off line, so this is
\* all the record there may be: a run that marked and then failed on the last delivery told
\* nobody, and the sweep does not list the row (reception.ts:1824, 1838-1839).
Refused(e) == state[e] = "shed"

\* Once Meta has been told to stop, an event that no run completed, that nobody was told of
\* and whose row does not say it was refused is still in the list the sweep reads, whatever
\* the races of the unconditional marks did to its state.
SomebodyOwnsIt ==
    \A e \in Events \ Unrouted : acked[e] => finished[e] \/ Told(e) \/ Listed(e) \/ Refused(e)

\* The same of a refused event too: "A 503: the message is stored and unanswered, and the
\* redelivery tries again" (reception.ts:1716).  Fails: after the last delivery none comes.
RefusedIsOwned ==
    \A e \in Events \ Unrouted :
        acked[e] => \/ finished[e] \/ Told(e) \/ Listed(e)
                    \/ \E s \in Slots : job[s].at # "free" /\ job[s].event = e

\* An expired row, which no redelivery revives, was announced first.
ExpiredWasTold ==
    \A e \in Events : state[e] = "expired_unqueued" => "stranded" \in alerts[e]

\* A mark that carries no answer never erases one: an event known to be answered is never in
\* the sweep's list again.
AnswerIsKept == [][\A e \in Events : replied[e] => replied'[e]]_vars

\* Whatever Meta, QStash and the worker do, a routed event is completed, announced, or marked
\* refused by a run: a job lost, dropped or dead leaves nothing that only looks in progress.
Settles ==
    \A e \in Events \ Unrouted : state[e] # "none" ~> finished[e] \/ Told(e) \/ Refused(e)

\* stranded.ts: "a row still reading `pending_enqueue` past that horizon has not been
\* processed and never will be".
PendingMeansUnprocessed ==
    \A e \in Events : Candidate(e) /\ state[e] = "pending_enqueue" => ~finished[e]

\* stranded.ts, of SWEEP_LIMIT: "every event this one touches changes state and drops out of
\* the candidate set".
TouchedDropsOut ==
    [][\A e \in Events : sweep.at # "idle" /\ e = Current /\ Len(sweep'.todo) < Len(sweep.todo)
            => ~Candidate(e)']_vars
=============================================================================
