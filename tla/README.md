# dala-ai in TLA+

dala-ai answers customers of small businesses on Facebook Messenger, Instagram and their
websites: webhooks come in from Meta, a model writes the reply under a spend guard, and a
person can take a conversation over at any moment. The same platform books appointments
against a QPay deposit and bills its own clients. It runs as short-lived serverless calls over
one Postgres (Supabase) and a queue (QStash), so almost everything hard about it is the same
hard thing: **several calls, each of which may fail, be repeated, overlap or die between any two
awaited answers, share rows of a database and talk to services that cannot be rolled back.**

This directory models that. Each module takes one part of the code, with one action per awaited
call or per database function, and lets the calls interleave, fail, lose their answers and die.
TLC checks small instances, and TLAPS proves the safety theorems for every value of the constants.

Paths below are relative to the repository (`src/...` is its application code,
`supabase/migrations/...` its SQL, `docs/...` its documents). `PROJECT.json` maps every definition to the lines it stands for.

## Contents

1. What is modelled now
2. Inventory of the system
3. The modules, one by one
4. The runs: what each one asks, its bounds, and why they are enough
5. Fairness
6. What is proved, and how
7. Disagreements between the code and its own words
8. Abstractions and what they give up
9. Not modelled
10. Plan
11. Running it

## 1. What is modelled now

| Part of the code | Module | Checked by | Proved in |
|---|---|---|---|
| Spend guard (`lib/spend`, migration 0016) | `SpendLedger` | `MCSpendLedger` | `SpendLedgerProofs` |
| One customer message and its reply (`lib/worker/reception.ts`, `lib/outbound`) | `OutboundDelivery`, over the promise `OneReply` | `MCOutboundDelivery` | `OutboundDeliveryProofs` |
| What the reply says (`lib/reception/handle.ts`, `lib/guard`, `lib/sales`) | `ReplyPipeline` | `MCReplyPipeline` | `OutboundDeliveryProofs` |
| From Meta's POST to the end of an event (`lib/webhook`, `lib/health/stranded.ts`) | `InboundEvents` | `MCInboundEvents` | `InboundEventsProofs` |
| Who holds a conversation, and its way back (`lib/handover`, `lib/worker/reclaim.ts`) | `ThreadControl` | `MCThreadControl` | `ThreadControlProofs` |
| Whether a channel may send (`lib/channel`, 0065's pause) | `ChannelHealth` | `MCChannelHealth` | `ChannelHealthProofs` |
| The founder's alerts, the silence watch, the daily report (`lib/alerts`, `lib/health`) | `AlertEpisodes` | `MCAlertEpisodes` | `SpendLedgerProofs` |
| Comments and their two halves (`lib/worker/comments.ts`, `lib/comments`) | `CommentReplies` | `MCCommentReplies` | `OutboundDeliveryProofs` |
| The booking tables (migration 0082) | `BookingStore` | within `MCBookingSettle`; alone in `MCBookingStore` | `BookingSettleProofs` |
| The calls around a booking deposit (`lib/booking`) | `BookingSettle`, implementing `BookingStore` | `MCBookingSettle` | `BookingSettleProofs` |
| The money of an invoice (`lib/billing`, 0067, 0068) | `BillingPayments` | `MCBillingPayments` | `BillingPaymentsProofs` |
| The messages of an invoice and the pause (`lib/billing`, 0065) | `BillingOutbox` | `MCBillingOutbox` | `BillingOutboxProofs` |

`OneReply` and `BookingStore` are also the abstract specifications: `OutboundDelivery` is shown to
implement `OneReply` (checked and proved), `BookingSettle` to implement `BookingStore` (the same).

How the parts meet: an inbound event (`InboundEvents`) becomes a QStash job. A message's job is one of
the `Jobs` of `OutboundDelivery`, a comment's one of `CommentReplies`, an echo or handover event one of
`ThreadControl`. Between its draft and its claim a delivery runs one turn of `ReplyPipeline`, which takes
one job of `SpendLedger`; before it sends it asks `ThreadControl` who holds the thread and
`ChannelHealth` whether the channel delivers. A credential that fails the send goes to `ChannelHealth`,
a model that fails the call to `AlertEpisodes`. When the reply asks for a deposit, the turn is one call
of `BookingSettle`, whose messages go out through the claim `OutboundDelivery` models. `BillingPayments`
makes an invoice paid; `BillingOutbox` says so and ends the pause that `ChannelHealth` sees as a mode.
The hourly job runs `AlertEpisodes`' watch, `InboundEvents`' sweep, `ChannelHealth`'s catch-up,
`CommentReplies`' reconciler and `ThreadControl`'s reclaim one after the other. The modules meet at
these interfaces and are not composed (section 10).

## 2. Inventory of the system

For each component: its state, its operations, whom it talks to, what is hard, and what makes it
correct. The components marked * are modelled.

**Spend guard*** - rows of `spend_counters` (reserved, settled, ceiling per tenant/platform and
day), `spend_reservations`, `spend_ledger`. Operations: seed a counter, insert a reservation,
`reserve_spend_all`, `release_spend`, mark called, ledger row, `settle_spend_all`. Called by
the reception and website workers. Hard: four to eight database calls per attempt, each of
which may be lost; every hold must be refunded or settled exactly once; ceilings edited mid-way.
Correct: no provider call without a counted hold; a call's hold is never refunded; what is settled
is in the ledger; nobody passes against balance somebody else holds.

**Outbound messages*** - `outbound_messages` (dedup key, body, state, lease). Operations: draft once,
claim by compare-and-set, deliver, mark sent / failed / indeterminate / refused. Hard: a job is
delivered at least once and Meta's answer may be lost; a killed worker leaves a claimed row. Correct:
at most one message reaches the customer; what goes out is what was stored; a message ends
answered, refused for a reason, or visibly parked.

**Reply pipeline*** - no state of its own but what the conversation shows: the last replies, whether a
photo question was put, what the customer told. Operations: the rows that answer before the model
(greetings, notices, prices, contacts, booking, photos), one call under a reservation, the gates
over what it wrote, the chain every draft goes through. Hard: some forty early returns in an order that
matters, each with its own flags and alerts. Correct: no fact reaches a customer in the model's own
words; the line that hands over always calls a person; the sales line, once offered,
is in no later reply that says anything else.

**Inbound events*** - `webhook_events` (state, attempts, timestamps), the QStash queue, alerts.
Operations: claim on POST, publish, mark, worker verdict, hourly stranded sweep. Hard: three writers
of one state column without a compare-and-set; the 200 that stops Meta's retries. Correct: an
acknowledged event is in the queue, or finished, or refused on the record, or somebody is told; an answer is never
taken back.

**Thread control and reclaim*** - `conversations.thread_control` (bot / human / unknown), its time and
source. Operations: handover events, echoes, the checks before a reply, the reclaim sweep and its
send-then-flip. Hard: events reordered and redelivered, read-then-write updates, a person typing while
the bot sends. Correct: the bot does not take its own echo for a person; a reclaim line is said
once and the thread is the bot's only after it; a thread with staff in it stays theirs.

**Channel health*** - `tenant_channels` (status, token_status, delivery_mode). Operations: credential
breaker with its cap of one halt per hour, halts on Graph errors, recovery after a send, catch-up of
held messages, billing pause and resume. Hard: three owners of `delivery_mode`. Correct: one cause
cannot silence every channel at once; no halt and no streak ends in silence; no order of halts and
resumes turns a channel on whose token is dead.

**Alerts*** - `alerts` (dedup key, policy once / daily / on_change, resolved_at, notified_at).
Operations: raise, resolve, re-escalate, daily report; raised by the silence watch, the credentials'
expiry, replies, the sweeps and operators. Hard: suppression that outlives its cause, Telegram failing
after the row exists, a clock hour that refuses a second row. Correct: a standing condition is told and
told again; what ended is closed; no clock restarts on a message nobody received.

**Billing*** - `billing_invoices`, `billing_payments`, `billing_qpay_codes`, `billing_deliveries`,
`billing_pauses`. Operations: issue, sync payments, plan messages, claim and send, sweep, pause,
resume; run by the tick, the callback and the pay page. Hard: the same payment from several
reporters and from a person's hand; a message claimed and never finished; a pause racing a payment.
Correct: one payment counts once and none is unwatched; nobody is reminded of or paused for money
already paid; a message of unknown fate is never resent by itself.

**Comments*** - comment replies over `outbound_messages` (public reply, private reply),
reconciliation with Meta's notices, parked rows; the Instagram poll is not modelled. Hard: a 5xx that
posted, a private half that decides the public half, staff answering from the Page. Correct: no thread
gets two public replies; the line "we wrote to you" only when we did; what was drafted is finished.

**Booking*** - `booking_holds`, `booking_payments`, `booking_qpay_codes`, calendar events, the chat's
lines, the founder's pages. Operations: hold a time, make a code, collect payments, confirm, expire,
release, offer another time, move. Callers: chat turns, QPay's callback, the pay page, the minute
sweep. Hard: three systems that cannot commit together (database, QPay, Google Calendar), any of the
four callers at once. Correct: no two active holds on one time; "booked" is said only of a paid,
booked hold whose event is in the calendar; every paid deposit is told its outcome.

**Website chat** - `web_sessions` (turns, cap), rate buckets, the mint. Hard: concurrent claims of a
turn. Correct: never more turns than the cap; a refused turn costs nothing.

**Publishing** - `config_revisions`, `config_snapshots`, `tenants.live_revision_id`. Four statements in
order, no transaction. Correct: the pointer always names a revision with a snapshot.

**Erasure, retention, secrets, onboarding** - small state machines or operator tools; section 9.

**Text** - classification, price and fact checks, Mongolian matching, prompt rendering: pure functions,
the larger half of the source by lines. They decide *what* is said; `ReplyPipeline` takes what they
find in a message or a draft as its inputs, the other modules are about *whether and when*.

## 3. The modules, one by one

### SpendLedger

A job is one attempt at a reply; `at[j]` is the awaited call it is at. `counters` are the two rows a
job addresses (its tenant's and `Platform`), `resv` the reservation's state, `ledger` its ledger
row. `ReadCeiling`, `SeedTenant`, `InsertHold`, `ReserveAll`, `UndoReserve`, `ReleaseUnused`,
`MarkCalled`, `ReleaseUnmarked`, `CallModel`, `InsertLedger`, `SettleAll`, `MarkSettled` are the calls of `reserve.ts`,
`settle.ts` and their callers in `reception/handle.ts` and `website/messageJob.ts`. Every one of them
has a failing variant, and the writing ones a variant that is applied though its answer is lost.
`Crash` stops a job anywhere, and `ChangeBudget` is an operator.

`Minted` names what the code creates out of nothing: a release of a reservation that was never
counted (section 7). `HoldsCountedButForMinted` says that apart from exactly that, the counter is
the sum of the holds; so the run that passes still pins every other path.

### OneReply and OutboundDelivery

`OneReply` is the promise in 40 lines: the text of a key is fixed once, and over all the keys one send at
most reaches the customer, of a stored text. A send is known by the delivery that made it, so the
same text sent twice is two sends and breaks the promise. `OutboundDelivery` is one customer message with two dedup keys, its reply and the
hand-off line. `row[k]` is the row of `outbound_messages`; `at[j]` is where a delivery stands between
its awaited calls (persist, look up, resume or draft, check age, generate, claim, put, mark). `wire`
is what has actually reached Meta, which the code never sees: it sees the answer, or
loses it. `Elapse` ages the message over the code's freshness and late limits, `PersonReplies`
and `CustomerWrites` are the environment. `CatchUps` are jobs that the recovery of a halted
channel enqueued; they run the same handler with one gate more.

### InboundEvents

`state[e]` is the event's row, `job` QStash's slots, `route` the POST handlers in flight, `sweep` the
stranded sweep with its remaining list, `alerts` what people were told, `replied` and `finished` what the
worker truly did. `Post`, `Enqueue`, `Respond` are the route; `Deliver`, `Settle`, `Shed`, `EndShed`, `Refuse`,
`Drop`, `WorkerDies` the worker. `Settle` marks the row last; a refusal marks it first (`Shed`) and then pages and hands
off (`EndShed`), so a 503 or a death may fall between (`reception.ts:1824`, `1838`). `SweepStart` to `Expire` are the sweep, which decides from the row as it *read* it and writes
later. `Tick` moves an event over the five ages the code tells apart.

### ReplyPipeline

One conversation of one tenant, turn after turn. A message is the set of what the matchers find in it, a
body the set of what it says, each member one sentence or row with where its words come from (a
reviewed row, a published fact, the model). `Receive` to `Judge` follow `handle.ts` from top to bottom: the
rows that answer before a token is spent, the reservation and the one call, the gates over what came
back, and the chain (appended rows, restated facts, links, the last guard) through which every draft
leaves. `last`, `said`, `asked` and `heard` are what a turn reads of the turns before it.

### ThreadControl

`control`, `since`, `source` are the three columns. A worker is one reception job with what it read
(`held`) and what it will write (`target`): `applyThreadControl` is its read and its write, without a
condition, as in the code. `stored` has the echoes and handover events with the messages that were in
the database before them, `queue` the reclaim's jobs, `row` and `said` each reply and each line. The
checks before generating and before sending, the echo that is recognised as ours, the sweep's list, the
line's send and the conditional flip are actions of their own; time counts in hours.

### ChannelHealth

`token`, `mode` and `status` are the columns, `fault` and `secret` the truth behind them; `why` and `made`
are what the breaker counts strikes from. A message's job fails on the credential, halts (at once or
on strikes, under the cap), pages, or succeeds and recovers. `Repair`, `Pause`, `Resume` and the catch-up
may come between any two steps, and two messages of one channel may be at work at once. `fault = "kek"`
is one cause for all channels at once. A failure on that key is never judged, although it does not end
a streak either: a streak that is earned when such a failure comes last waits for the channel's next own
failure, which is why `EarnedIsTold` asks that the platform stood (`channel/breaker.ts:71-103`).

### AlertEpisodes

`rows` are the `on_change` rows of `alerts`: their key, whether open, whether of this clock hour, how long
ago somebody was told (`stamp`, `aged`), and, which the code cannot know, whether a message that
named them arrived (`told`). `Ask`, `Insert`, `Send`, `Mark` are `raiseAlert`; `List` and `Close`
`resolveOpenAlerts`, which closes by the ids it read; `Clear` the one-statement `resolveEpisodes`. The
health job goes over the channels and then the credentials (`Watch`, `Found`, `Expiry`); a reply meets a
platform fault or sees its end; an operator records how far a client's set-up is. The report is its
summary, its parts and its stamp, merged or not (`Merged`). `world` picks what exists in a behaviour.

### CommentReplies

Threads under one post. A comment's job reads the thread and the person once, decides, drafts two rows
(`pub`, `prv`), sends the private half first and words the public half by its outcome; each POST may
work, fail, time out after working or be answered 5xx. `wall` is what the Page truly wrote and
which notices of it are stored; the check before a re-send, `Notice`, `Reconcile` and the hourly `Sweep` read
only those. `StaffWrites` is a person who answers, in own words or by pasting ours. `OneRule(t)` is a thread of one
person under one rule: the two safety properties except the others, where the code does not keep them (section 7).

### BillingPayments and BillingOutbox

`BillingPayments` has the codes of one invoice and the money: a run asks QPay about every code it
watches, records what it hears under the invoice's lock, and closes a code that is final; the pay page
then withdraws and makes one; a person may enter a payment under whatever id. `money` in a row is the
payment it really stands for, so counting twice is visible.

`BillingOutbox` takes the payment as one step and has the rest: what a run plans from the status it
read, the claim that cancels what is no longer due, the send, its finish, the ten-minute sweep of
what was claimed and never finished, and the pause with its notice, resumed by itself once paid.

### BookingStore

The SQL functions of migration 0082, one step each because each takes the hold's row lock and the
calendar's advisory lock before it looks. State: hold states, slots, sessions, payments with their
dispositions. The actions are usable by any caller in any order; what the module promises
(`OneHoldPerTime`, `OneHeldPerCustomer`, `OnePaymentPays`, `MoneyDecides`) it promises to all of them.

### BookingSettle

EXTENDS `BookingStore` and adds the rest of the world: `event` (ours in each calendar), `foreign`
(anybody else's), `code` and `made` (QPay; `CodeAges` are the ages the sweep tells apart: it asks about a
code still open for 24 hours and not after), `line` (what the chat was told, by kind and round),
`pages` and `moneyPages` (what the founder was told), and for each worker its place, its mode and the
row *as it read it* (`row[w]`), which is where the stale decisions come from. The mode is what a call
was made for: the customer's turn, settling, a hold's end (`expired`, `released`), or a confirmation
under way (`booking`). The tables change only by `BookingStore`'s actions: `Spec => StoreSpec` is
proved (`CallsImplementStore`).

## 4. The runs

| Run | Instance | Question |
|---|---|---|
| `spend_guard` | three attempts, two tenants, tight ceilings, budgets edited | Do the books stay consistent, whatever fails? |
| `outbound_delivery` | a queue job and a catch-up, three deliveries each, all six faults | Does at most one message reach the customer, as stored? |
| `reply_pipeline` | two turns of one conversation, tenants that differ in what they published | Is every word checked, does the hand-over line call a person, is nothing offered twice? |
| `inbound_events` | two events of which one is unroutable, two handlers, two jobs, one fault, fair | Does the 200 tell the truth; does every event come to an end, or its row say a run refused it? |
| `thread_control` | two reception jobs, two staff echoes, a handover, the sweep, fair | Is the bot back only where a person left, and does it say so once? |
| `channel_health` | two channels, two messages on one or on each, one shared key, a pause, one failure | Is a halt earned and told; does no order of halts and resumes revive a dead token? |
| `alert_episodes` | one subject per kind, a health job, a report, a reply, an operator, fair | Is what stands told, what ended closed, what is stamped received? |
| `comment_replies` | two comments of one person under one rule in one thread, staff, one failure, fair | Is the thread answered once, truthfully and completely? |
| `booking_moved` | one call at a time, a rival, two times, two rounds, two failures | Is a time held once while a deposit moves, and free when a hold ends? Do the calls implement the store? |
| `booking_settles` | the sweep and one caller at once, another's event, one failure, fair | Does the calendar have what the row says is booked? Is every paid deposit told, every payment on a code still asked about recorded, "booked" said only when booked? |
| `billing_payments` | two payments, a mistyped id, two codes, one failure, fair | Is every payment counted once and watched until then? |
| `billing_outbox` | two overlapping runs, one pause, one failure, fair | Is nobody reminded of, or kept paused for, money already paid? |

**Bounds.** They are named in the modules (`MaxPosts`, `MaxFaults`, `MaxDeliveries`, `MaxRuns`, `MaxRounds`,
`MaxForeign`, `MaxTurns`, `MaxTime`, `MaxCodes`, `MaxPauses`, `MaxMessages`, `RowIds`, the sizes of the
sets) and chosen so that each mechanism is met by the two parties that can be wrong about each other:

- *Jobs and workers.* Conflicts here are between two writers of one row; a third adds only an
  attempt that meets a state two have already left. The spend guard needs three: one hold, one
  refused reservation, one that profits from it. Where there is a theorem it holds for any number
  (section 6).
- *Deliveries.* `RECEPTION_MAX_DELIVERIES` is 3 in the code and in `outbound_delivery`; where the run is not
  about it, 2 or 1 with a redelivery, which is the least number that has a first and a last delivery.
- *Faults.* One, where two calls already interleave: the fault may fall on either, at any step. Two, where
  what recovers may fail too (`booking_moved`; section 4.1 has the wider ones).
- *Ages and clocks* are classes a row may enter at any time, so no ratio of timeouts is assumed. Where the code
  subtracts times (`thread_control`, `channel_health`, `billing_payments`) time is a number up to `MaxTime`, in
  units of the code's own window, long enough for each window to be inside and over.
- *Row ids.* `alert_episodes` has two: an episode that closes and one that opens after it, which is
  where suppression goes wrong. A raise that would need a third waits.
- *Turns.* Two: what is said once is said in the first and wanted again in the second.
- *Money.* Estimate 2, costs 1 and 2, ceilings of one or two estimates: settling below and at the
  estimate, and room for one call, two or none.

`CHECK_DEADLOCK FALSE` stands where the system may really stop: every job done, every event settled,
every payment made. `BookingStore` alone never stops.

Symmetry is used for the channels of `channel_health`, which has no liveness property, and in some
instances of 4.1 that have none.

Every property has a mutant, listed in `PROJECT.json`: a mapped definition with the bug the property is
there for, kept beside the definition or written out there, which TLC catches under the same configuration.

### 4.1 Other instances

These use the module and configuration of the run with the constants changed as said, and end as said.
They are wider bounds for a part of a run, or the ground of section 7.

| Instance | Changed | Result |
|---|---|---|
| `MCInboundEvents` | `Events = {1}`, `Unrouted = {}`, `Owed = {1}`, `MaxPosts = 3`, `Deliveries = 2`, `MaxFaults = 2`, `Spec`, symmetry | the safety properties and `AnswerIsKept` hold |
| `MCInboundEvents` | `Routes = {r1}`, `MaxPosts = 1`, `Deliveries = 2`, `MaxFaults = 2` | `Settles` holds |
| `MCOutboundDelivery` | `CatchUps = {}`, `MaxDeliveries = 2`, faults read, meta and model, `FairSpec` | `NeverSilent` holds: a customer ends answered, refused or with a person |
| `MCBookingStore.cfg` | as it stands (two holds, two clashing times, three chats, two payments) | `OneHoldPerTime`, `OnePaymentPays`, `MoneyDecides` hold |
| `MCBookingSettles.cfg` | `Callers = {w1, w2}`, `Spec` | `ConfirmedIsBooked`, `BookingIsPaid`, `BookedIsInCalendar` hold |
| `MCBookingLateRemove.cfg` | as it stands (two settling calls, no failure) | `BookedIsInCalendar` holds; `BookedHasItsEvent` and `EndedTimeIsFree` do not (section 7) |
| `MCBookingMoved.cfg` | `CalendarOf <- MCTwoCalendars`, `MaxFaults = 0` | `BookedHasItsEvent` and `EndedTimeIsFree` hold; with a failure the first does not (section 7) |
| `MCBookingMoved.cfg` | as it stands | `BookedHasItsEvent`, `ToldMeansSaid` and `RefundPageIsFinal` hold, the last while nothing failed |
| `MCBillingPayments` | `Workers = {w1, w2}`, `Spec`, symmetry | the safety properties hold |
| `MCChannelHealth` | `MaxMessages = 3`, `MaxTime = 1`, with `Strikes` 1 and 2 | all three properties hold |
| `MCChannelHealth` | one channel, `N = 3`, `Strikes = 2`, `MaxRunning = 3`, `MaxBreaks = 2`, no pauses or faults | all three properties hold |
| `MCThreadControl` | `N = 2`, `Handovers = {}`, `Spec` | the safety properties hold |
| `MCBillingOutbox` | a second reminder and a receipt, `Spec` | the safety properties hold |
| `MCCommentReplies` | `MaxFaults = 2`, `CommentSpec` | the safety properties hold |
| `MCCommentReplies` | `Thread <- OwnThreads` | all three properties hold |
| `MCReplyPipeline` | one photo tenant, `MaxTurns = 4` | `QuestionOnce` holds |
| `MCCommentReplies` | `Thread <- TwoThreads` (three comments), `Own = {c1, c3}`, `CommentSpec` | the safety properties hold: one thread of the two has two rules and is excepted, the other is not harmed by it |
| `MCAlertEpisodes` | `Replies = {p1, p2}` | all four properties hold |
| `MCAlertEpisodes` | `MaxFaults = 2`, `AlertSpec`; `RowIds = {1, 2, 3}`, `AlertSpec` | `StampedWasTold`, `NeverInvisible` hold |

## 5. Fairness

Weak fairness everywhere but for two steps; failures, deaths, customers, staff and founders are never fair.

- `inbound_events`: the clock and every step of the hourly sweep. Nothing is asked of Meta, of QStash or of the
  worker, so `Settles` says what the sweep alone achieves: an event is completed, announced, or its row says that a run
  refused it (whose customer and founder may then not have been told: section 7, `RefusedIsOwned`).
- `booking_settles`: `Sweep` (a cron each minute), a worker's next step, the hold running out. No
  fairness for the callback, the page or the customer: the sweep alone must do it. `PaymentIsRecorded` is of money on
  a code the sweep still asks about; a code open for more than 24 hours it never asks about again
  (`booking/store.ts:422-423`, `booking/engine.ts:697`), and the fairness does not keep a code young.
- `thread_control`: a started job's next step, the queue, the hourly sweep. `SentIsHandedBack` needs no
  notice from Meta.
- `alert_episodes`: each run's next step, the hourly job, the daily report, the turn of the hour; strong
  fairness of `Elapse`, the three days since somebody was told, which the sweeps in between
  would otherwise disable again and again (closing and reopening a row is itself telling).
- `comment_replies`: a comment's deliveries until QStash gives up, the hourly reconciler and sweep. A notice
  from Meta may never come.
- `billing_payments`: a run's next step, QPay settling what it took, and strong fairness of the run that starts
  on what is watched: it comes every hour but is disabled while another runs.
- `billing_outbox`: the hourly run comes and a call that is not killed returns.

`OutboundDelivery`'s own fairness (a delivery's next step, redelivery until the retries are spent) serves
only the `NeverSilent` instance of 4.1; nothing is killed and no write fails in it.

## 6. What is proved

TLAPS checks 53 listed theorems in eight modules, for every value of the constants that satisfies
the modules' ASSUMEs. Those say what the sets are (finite or disjoint where the code makes them so) and that limits
are natural numbers, positive where the code's are: at least one strike (`Strikes`, `channel/breaker.ts`), a margin after a
code's end (`Settle`, `billing/engine.ts`), one delivery of a job, one row of a sweep, one stage of a set-up. Where a theorem needs more of its instance, its statement
says so (`ASSUME ... PROVE`), and section 7 has the trace that shows why.

A proof module may hold the theorems of more than one component; its sections say which.

- **SpendLedgerProofs, SpendLedger.** `IInv` adds to the types what each place knows (`PlaceInv`: past `ReserveAll` the
  hold is counted) and what each reservation state means (`StateInv`). Without the first, "calls only
  on a grant" is not inductive: `MarkCalled` looks only at where the job is. The ceilings need
  `CapInv`, that a read ceiling in a job's memory is already lowered to the cap.
  The counters are sums over jobs. `HoldsInv` says "the sum of the live holds" as the estimate times the number of jobs
  that have one, so that every step changes a finite set by one job (`CountUp`, `CountDown`, `CountMinted`), and needs
  `RowInv`: by the time a release may find a row `held`, its hold was counted or never was. The settled column adds
  costs that differ; `PaidInv` counts it as the size of a union of disjoint sets, one of `ledger[j]` units for each settled
  job, which turns the sum into a cardinality and needs no induction over a fold.
- **SpendLedgerProofs, AlertEpisodes.** `AlertInv` carries a stamp's evidence in the run that writes it: the rows a run has in
  hand exist, and where it stands before a mark or a stamp each of them was heard while still open (`Sound`). Other runs
  may close those rows or open new ones meanwhile; no step opens or silences a row somebody holds (`HandKept`).
  `SetUpStaysVisible` is for one operator at a time: `PlacesInv` says that only an operator's run closes a client's
  episodes, and that it does so behind an open episode of the stage it found.
- **OutboundDeliveryProofs, OutboundDelivery.** `Core` says: a key has at most one holder and its row is then `sending`
  (`HolderInv`), whatever is on the wire sits in a row that cannot be claimed, a stored body never
  changes (`BodyInv`), and the line is held only once the reply's row is refused. `AtMostOnce` follows
  since a put happens only by a holder with an empty wire. `KeepsPromise` is the refinement
  of `OneReply`, whose `heard` is the wire itself, send by send: a put maps to its one send, all others to fixing
  a text or a stutter. A second put, of the same text or another, has no step of `OneReply` to map to.
- **OutboundDeliveryProofs, ReplyPipeline.** What a turn leaves is one chain of operators, and the proof walks it: what each
  early row or gate gives (given), what `Check` leaves of it, what recording makes of that, what may be stored (`Storable`),
  how the turn ends (`Ended`). One lemma a link states what it removes and what it keeps; the invariant is then only that
  `out` is `Ended`. That the hand-over line calls a person (`HandOffsAreTold`) runs through all of it: up to the
  record of hand-offs the line stands alone in a canned reply, which is how the record recognises it (`OwnGeneric`), and after
  it no link takes the alarm back (`Told`).
- **OutboundDeliveryProofs, CommentReplies.** `CommentInv` ties four places where one line of text lives: the thread's row
  (`RowInv`: a row once tried is true for whoever wrote under it), the private row (`SentInv`), the job between two awaited
  calls (`WorkInv`: what it sends next is true by then) and the Page's wall (`WallInv`: our line there is the row's). The check before a
  re-send compares the row's text with the wall, so it finds our line exactly as long as nobody rewrites a tried row
  (`Frame`). In a thread of two people, or under two rules, somebody does: there both properties are false (section 7), and
  they except it (`OneRule`). Each part of the invariant that speaks of what a line says carries that condition on
  its own thread, so what happens in an excepted thread harms no other; the theorems assume nothing of the instance.
- **InboundEventsProofs.** The invariant ties the route's, the worker's and the sweep's private memory
  to the row they will overwrite: `RouteInv` (a handler that is about to answer has had its publish taken),
  `QueueInv` (a job in a slot is of a received event), `SweepInv` (an event on the list was listed for
  a reason that still protects it) and `AckInv` (acknowledged: queued, finished, told, listed, or marked refused).
  The three writers have no compare-and-set, so the argument is what each *overwrites*, action by action.
- **BookingSettleProofs, BookingStore.** `OneHoldPerTime` is inductive only with `RowInv` (a hold that exists has a slot
  and a chat, a payment a hold). Two lemmas carry it: a step that takes a time found it free
  (`TakesFreeTime`), and a step that leaves one only frees it (`GivesWay`).
- **BookingSettleProofs, BookingSettle.** `BookingSettle` implements `BookingStore`: every step of every call is a
  transaction of the store or leaves the tables alone, given only that what QPay names is payments (`NamedOK`).
  So the store's theorems hold of the running calls, for any number of workers, failures
  and moves (`CallsNeverHoldTwice`, `CallsFollowMoney`). `ConfirmedIsBooked` needs `SaysBooked`: a call about to
  say "booked" read or wrote the row so, and a booked row stays booked (`BookedForGood`), however long
  ago that was. `BookingIsPaid` needs `GoesPaid`: a call on its way to the calendar read a paid row, and
  evidence stays (`EvidenceStays`); that such a row *is* paid is the store's `MoneyDecides`.
  What the row says of the calendar (`BookedStandsInCalendar`) is proved for any number of calls at once, failures, deaths
  and calendars, of a deposit that was paid before its hold ended, not moved, and whose time nobody else's event took (`Undisturbed`);
  the rest the code does not keep (section 7, `BookedHasItsEvent`). `Straight` is such a hold while it is held, paid or booked,
  and once a hold is not straight it never is again (`StraightBack`). `StandsInv` says where the calls stand meanwhile: none is at a place
  that takes the event out, since each got there by reading or making an end of the hold, or another's event; one at the calendar
  writes at the hold's own time (`OnCourse`); and the event is at that time or nowhere, and there once the row says booked (`Placed`).
- **ThreadControlProofs.** `Stands` is what a worker's place says of its row: past the claim of the line the row
  is `sending` and, until the send, nobody has said it. `ApartInv` keeps two workers off one row, `WireInv` bounds what was
  said by the row's state, and with them a second job of the same message finds a row it cannot claim
  (`LineOnce`). `EchoInv` (an echo exists only of what was sent) and the rows that may be on the wire give
  `OwnEchoHarmless`: inside the window the lookup finds the row, whatever state `markSent` has reached.
  `StaffKeepTheirThread` needs `StaffInv`: a job ends in the hour it began, so what a worker is about to write carries
  the time that is now, or a handover event's own (`AimInv`). While nothing failed and no handover was applied, an echo that holds the
  thread is not older than a message it answered (`LaterInv`), and a reclaim on its way to the flip whose message
  was answered has met a newer `since` (`Spares`), which the flip's condition sees. The exception for handovers is not
  slack: section 7 has the trace.
- **ChannelHealthProofs.** `HaltIsEarned` is inductive only with the truth behind the column: a secret that reads
  revoked was revoked by a job that is paging or has paged (`EvidenceInv`), since a later send fails as `"revoked"`
  without having met 190 itself; a job past the page for its own failure left the alert (`Knows`), and none
  halts over the platform's key (`Cause`). The argument allows any number of jobs of one channel and any order of
  repairs and late answers between. `LiveToken` is the table's constraint against both halts, `Repair` and `Resume`.
  `EarnedTold` counts: the failures since the last success are a finite set of places in the channel's history (`Clean`), and
  `EarnedInv` says that a channel that struck out, or whose token says error or revoked, was told or has a job on its way to
  telling (`Due`). Only a failure of the channel's own adds to the set (`NobodyStrikesOut` for all other steps).
- **BillingPaymentsProofs.** `NeverCountedTwice` rests on `KeyInv`: one row a key, and a row of QPay's own id is that payment, since
  only a person mistypes. `NoMoneyForgotten` needs what each party knows: what QPay hides from a run is younger than the
  margin, and a code is closed only past it (`CodeInv`); of a code a run heard about it found every payment, or knows of one in
  flight, or the margin has not passed (`RunInv`). So a run that closes a code by what it heard some time ago closes it rightly,
  whoever else asked, recorded or typed meanwhile.
- **BillingOutboxProofs.** `SentInv` counts what left by the state of the row and the times a person asked; that a
  claimed row is one run's (`ClaimInv`) makes it inductive over overlapping runs, deaths and the sweep.
  `PaidIsNotReminded` follows since only a claim takes a row up (`OnlyAClaimTakes`) and the claim asks
  for the invoice itself, so what a run planned before the payment does not matter.

Only model-checked: `EndedTimeIsFree`, which is of calls one after another, and all liveness (`Settles`, `PaidIsTold`, `PaymentIsRecorded`,
`SentIsHandedBack`, `SettledIsRecorded`, `PaidIsResumed`, `ResumedIsTold`, `StartedIsFinished`, `StandingIsTold`, `EndedIsClosed`).
Out of this prover's reach: liveness under fairness and ENABLED; induction over data with the
library's theorems, which take an operator; and RECURSIVE operators, so no module here has one.

## 7. Disagreements between the code and its own words

Where the code does not do what a comment, a document or a migration says of it, the module states
the claim and TLC finds the trace. Sources are under `src/lib/` unless they begin `supabase/` or `docs/`.

With a configuration of its own:

| Config | Property | What the trace shows |
|---|---|---|
| `MCSpendOverspend` | `NoSharedBalance` | `spend/reserve.ts:225` releases on every error of `reserve_spend_all`. A refusal rolled the counters back, the row is still `held`, and `release_spend` subtracts the estimate anyway, from somebody else's hold; a third attempt then passes against the same balance (`supabase/migrations/0001_initial_schema.sql:1026`). |
| `MCSpendSweep` | `AbandonedHoldReconciled` | An attempt that dies leaves its hold on the counter for the day; `reception/handle.ts:1389` counts on an expiry sweep, and nothing reads `spend_reservations.expires_at`. |
| `MCOutboundDeadClaim` | `StopsOnlyWhenSettled` | A delivery dies between the claim and the send; the next finds the row `sending` and stops with 200, though nobody will settle it (`outbound/claim.ts:15-16`). |
| `MCOutboundLineRetry` | `LineIsTriedAgain` | The draft of the hand-off line fails and the job answers 200; `worker/reception.ts:1716` says the redelivery tries again. |
| `MCInboundPending` | `PendingMeansUnprocessed` | The route marks `pending` after the worker has finished (`webhook/entry.ts:136`); `health/stranded.ts:48-50` reads it as unprocessed. |
| `MCInboundTouched` | `TouchedDropsOut` | A requeued row is meant to drop out of the next run (`health/stranded.ts:107-109`); a mark that arrives late keeps it in. |
| `MCBookingLateRemove` | `BookedHasItsEvent` | With two settling calls: `expireHold` removes the event by the row it read before its cancels at QPay; a late payment may have been booked by the other under the same event id. `booking/engine.ts:528-530` promises any number of concurrent calls. Only a deposit paid late or moved meets it: for one paid in time `BookedIsInCalendar` is proved. |
| `MCBookingUnpaged` | `ExcessIsPaged` | A call that dies, or fails on a later record, after it recorded a second payment leaves it a duplicate to every later call; `booking/engine.ts:16-20` says it is paged at once. |
| `MCBookingDouble` | `NeverDoubleBooked` | A late payment is booked by looking at the calendar and then writing (`booking/engine.ts:616-634`); a person books in between. `docs/proposals/tara-inchat-booking.md:172`: "Never a double booking either way". |
| `MCBookingUntold` | `ToldMeansSaid` | Two settling calls: the one that finds the confirmation claimed by the other marks the hold told; the other's send fails (`booking/engine.ts:207`, `517-521`). |
| `MCThreadRefresh` | `StaffEchoWins` | A staff echo is read, the flip is written, the echo's refresh is written by what it read: the thread is the bot's though `worker/reclaim.ts:45` says the echo wins (`handover/record.ts:151`, `176`). |
| `MCThreadOwnEcho` | `OwnEchoIsOurs` | An echo of our own message that comes after the window in which it is recognised is taken for a person. |

In an instance of the run's module (the constants that differ from the run's configuration):

| Instance | Property | What the trace shows |
|---|---|---|
| `MCChannelHealth`, `N = 1`, no time, pauses, faults or symmetry | `OneHaltAnHour` | Two channels read no halt in the hour, both halt, and then write the row that is the cap's clock (`channel/breaker.ts:203`). |
| `MCChannelHealth`, one channel, `N = Strikes = 2`, no pauses or faults | `DeadTokenIsListed` | A send that left before the halt returns after it and clears the mark of a dead token (`channel/recover.ts:73-77` against `outbound/deliver.ts:263-265`). |
| `MCInboundEvents.cfg` | `RefusedIsOwned` | The row is marked `shed`, and the alert and the hand-off line come after it; the line's 503, or a death, on the queue's last delivery leaves the event acknowledged, unfinished and unannounced, and the sweep does not list it (`worker/reception.ts:1824` before `1838-1839`; the comment at `1826-1828` puts the record first and does not speak of the line). |
| `MCBookingLateRemove.cfg` | `EndedTimeIsFree` | A cancel ends the hold between the turn's insert of the event and its `setCalendarState`: it reads a row that knows no event and removes none, and the event stays in the calendar (`booking/engine.ts:449`, `703-704`). |
| `MCBookingMoved.cfg`, `CalendarOf <- MCTwoCalendars`, `MaxForeign = 1`, `MaxFaults = 1` | `BookedHasItsEvent` | `setCalendarState` fails after the hold's event is written, which is only logged (`booking/turn.ts:507-508`); so `removeOurEvent` passes the event over (`booking/engine.ts:449`), the tables let the paid deposit move to another stylist, and the old busy time stays, though `supabase/migrations/0082_booking.sql:527` says "never while its old busy event is still in a calendar". One call at a time is enough. |
| `MCBillingPayments`, two workers, one payment, `PerHour = 1`, no time | `CapIsKept` | Two pay pages count the codes of the hour before either records its own (`billing/engine.ts:535`). |
| `MCBillingOutbox`, one worker, `MaxPauses = 2`, no faults, `Spec` | `HandPauseStays` | A run read one pause and resumes another, made by hand since (`billing/engine.ts:998-999`). |
| the same | `PauseKeepsNotice` | A pause made after the withdrawal's second read loses its notice (`billing/engine.ts:916-917`). |
| `MCBillingOutbox`, one worker, no pauses, `MaxFaults = 2` | `UnknownIsTold` | The page about a message of unknown fate is lost with the run that swept it (`supabase/migrations/0065_billing.sql:697`). |
| `MCCommentReplies`, `Author <- TwoPeople`, `CommentSpec` | `NeverTwoReplies` | Another person's comment takes up the thread's failed line and rewrites it; the check before the re-send compares a text the first POST never had (`comments/eligibility.ts:328`, `comments/reconcile.ts:505`). |
| `MCCommentReplies`, `Own = {c1}`, no faults, `CommentSpec` | `EveryClaimIsTrue` | Of two comments whose rules differ the second gets the first one's line and posts "we wrote to you" before any chat (`worker/comments.ts:1228`, `1318`). |
| `MCCommentReplies`, one comment, `CommentSpec` | `FailedIsOnlyGuessed` | A notice matched while the row was `sending` is written over the failure that came since (`comments/reconcile.ts:308-311`, `252-281`). |
| the same, fair | `BothAreWritten` | The public half is drafted and the private one is not; the redelivery reads the person as answered (`worker/comments.ts:1178`, `comments/eligibility.ts:356`). |
| `MCThreadControl`, two handovers, `MaxMoves = MaxTime = 3`, no faults (searched without replies and own echoes) | `FlipSparesStaff` without its exception `HandedOver` | Two handover events older than a message (to the bot, to a person) are recorded after the staff's echo that answered it: `thread_control_at` moves back before the message, and the flip at the end of a reclaim takes a thread staff answered (`handover/record.ts:307` against `worker/reclaim.ts:45-48`). |
| `MCAlertEpisodes`, `Operators = {o1, p2}`, `RowIds = {1, 2, 3}`, no faults, no other runs | `NeverInvisible` | Two operators record two stages of one client: each raises its own, lists the other's as stale and closes it; nothing is open (`provision/record.ts`). |
| `MCReplyPipeline` | `BlockedIsUnpriced` | A reviewed answer with a word changed keeps its prices where the topic forbids one (`guard/outbound.ts:526` against `reception/handle.ts:1487`, `1545`). |
| `MCReplyPipeline` | `BranchIsNamed` | The same for a branch nobody named (`reception/handle.ts:962`). |
| `MCReplyPipeline` | `NeverRepeats` | The check for a repeated reply reads the body before the sales line and the link cut; the general line may answer a correction of itself (`reception/handle.ts:1096-1097`, `1111`). |
| `MCAlertEpisodes`, `Replies = {p1, p2}`, `AlertSpec` | `OneEpisode` | Two raisers on either side of the turn of the hour both insert: the index is per hour, not per episode (`alerts/alert.ts:85-87`). |

Two properties of `BookingSettle` hold only while nothing fails, and the first only for calls one after another; the first
condition they carry in the model (`NothingFailed`): after a failed removal an ended hold's event stays in the calendar for good (`EndedTimeIsFree`;
`booking/engine.ts:703-704` and the event's own text say it is released), and after a death between the
founder's refund page and the record of it a later round may offer a time again
(`RefundPageIsFinal`; `booking/engine.ts:472`).

One more was met in writing `AlertEpisodes` and is outside it: a crash between closing an episode and raising
its recovery event loses the notice that `health/watch.ts` says has to be given.

## 8. Abstractions and what they give up

- **Awaited calls are atomic.** A database function takes its locks before it reads, so one step is
  what Postgres does; an HTTP call is one step that may also fail, or be applied and lose its answer.
- **SpendLedger.** One day and one surface (a job keeps its own day, so days never share a row).
  Pricing is a set of costs; where it may exceed the estimate is left to `Costs`.
- **OutboundDelivery.** An HTTP error from Meta, 5xx included, means nothing reached the customer: the
  reception path treats it so. The lease in the claim's WHERE excludes nobody, since the states it admits
  carry none. An entry holds one message, the channel delivers (`ChannelHealth` has when it does not),
  the person check is part of the claim step (`ThreadControl` has it as a step of its own), messages past
  24 h are outside `NeverSilent`, which also excuses the path where a stale reply cannot be marked
  refused: its row stays `sending` and the next delivery takes that for an answer.
- **ReplyPipeline.** Bodies are sets: the order of sentences, their wording and their length are not said. Not here:
  likes and reactions, the stylist named alone (such a reply stands as "fixed"), on-topic appends, rows quoted
  in a Meta reply, the emoji cap and price-line style, counters and flags, which of two branches, how a quoted
  service is resolved, the word rows of `outbound_forbidden`, small talk, bursts of short photo messages. What
  is read before the call stays fixed for the turn. A draft that cannot be stored is a retried turn.
- **InboundEvents.** Routing is fixed per event. Entries without an id or with the wrong app, and signatures,
  are left out. `shed`, `blocked_no_token` and `standby_not_primary` are one outcome, and the page and the
  lost-draft digest one alert. The queue's memory of a dedup key may end at any time (`Forget`),
  and the repository itself measured a fourth delivery half an hour after the first, past the sweep's
  ten minutes, so the sweep's requeue may meet a live job here as there.
- **ThreadControl.** One conversation. A message that finds the bot muted writes no row in the code; the model marks it
  refused, so that it is not started again. Payload parsing, automations and template echoes are left out.
- **ChannelHealth.** Messages carry no text and a conversation no owner. The comment mode and permission errors,
  which halt nothing, are left out.
- **AlertEpisodes.** Only `on_change` rows. The `once` and `daily` event rows, recovery notices among them, the
  episodes the hourly job closes by the clock, `channel_health` and the report's counts are left out. `world` picks
  one subject of a kind; hours and the three days are steps of the environment; a closed row whose hour is over is
  the same whatever it once was; a health job whose stranded sweep throws is one that dies there.
- **CommentReplies.** One post on a live Facebook Page with both halves on. A decision reads in one step; so are the
  claim, the check before a re-send and the staff gate. Ten minutes pass only between runs. Nobody edits the line
  between its draft and its send. Flags, alerts and the page of unconfirmed replies are left out.
- **BillingPayments.** Every payment is of the invoice's amount. The twenty seconds between two checks of a code are any
  subset of the codes; a visit of the page is a run followed by its own part; marks made in one go are one step; time is
  counted in lifetimes of a code.
- **BillingOutbox.** The payment is one step. A run ends within two minutes and a claim is stale after ten, so no run
  meets its own claim swept. Requeues are bounded.
- **BookingStore.** Time is three facts the environment turns on; a slot is a calendar with a range.
- **BookingSettle.** The codes of one hold are one `code`. The founder's pages arrive; a draft and its claim are one
  step; configuration is readable and QPay's login is one call. Not here: the order of two unpaid holds
  of the website and the chat, the reason "level removed", and the customer's line about excess money.

## 9. Not modelled

`PROJECT.json` lists each component with its files. In three groups:

- *state machines of one or two statements, planned* (section 10): the Instagram comment poll, publishing,
  website turns, erasure, the retention purge, Ora packs, the event rows of `alerts`;
- *pure functions over text or dates*: classification, the matching under the gates, prices, facts, Mongolian
  stems, prompt rendering, templates, opening hours. A model would restate them word by word; the repository
  tests them on corpora. What they find enters `ReplyPipeline` as an input;
- *outside*: signature and envelope cryptography, row-level security policies, Graph and QPay
  transport, pages, verification scripts, and onboarding steps that one operator runs by hand.

The map therefore covers a minority of the repository's lines. The larger part is the second and third group,
together with the migrations that only seed a client's texts, prices and branches: no definition here stands
for them, and none is stretched over them. Within the modelled files the lines left out are the texts,
the logging and the parsing of what comes in.

The hazards that weigh most are in `PROJECT.json`, each with the line where it bites. The others, by the
module that has or would have them (paths as in section 7; in brackets the property that covers it):

**SpendLedger**

- `spend/reserve.ts:217`: reserve_spend_all commits and its answer is lost: the error path must neither call the provider nor count the hold twice [`HoldsCountedButForMinted`].
- `spend/reserve.ts:186`: the tenant ceiling is read one await before the counter is seeded with it, while an operator edits tenant_budgets. CapHolds proves for every value of the constants that no edit, however timed, seeds a counter above the compiled cap.
- `reception/handle.ts:1386`: an attempt that dies or parks its reservation leaves the hold on the day counter, and nothing sweeps it; the website job (messageJob.ts:434) even returns with the hold it just took. The code has no sweep of expired reservations, so AbandonedHoldReconciled does not hold (section 7).
- `website/messageJob.ts:434`: the website job returns when the turn claim is refused and never releases the reservation the guard just took. As above: nothing gives the hold back, and AbandonedHoldReconciled does not hold.

**OutboundDelivery**

- `worker/reception.ts:1436`: QStash redelivers a message whose inbound row exists but whose reply may be absent, drafted, sending, parked or refused [`PromiseKept`].
- `worker/reception.ts:1715`: the stale reply is refused and the draft of its hand-off line fails: the refusal is durable, the line is not. LineIsTriedAgain states that the line is tried again; the code does not, and MCOutboundLineRetry.cfg shows the trace (section 7).
- `worker/reception.ts:1487`: the catch-up of a recovered channel claims a failed reply while QStash redelivers the same message [`PromiseKept`].
- `worker/reception.ts:1208`: the age is decided from the job's start clock, seconds before the claim and the send [`PromiseKept`].

**ReplyPipeline**

- `reception/handle.ts:1487`: a published answer with a word changed keeps the prices it stated, also where the topic forbids a price and for a branch nobody named. BlockedIsUnpriced and BranchIsNamed state what outbound.ts:526 and handle.ts:962 say (section 7).
- `reception/handle.ts:1111`: the correction check reads the body before the sales line and the own-site cut: on the website the general line may answer the correction of itself. NeverRepeats states that no path repeats itself (section 7).

**InboundEvents**

- `queue/qstash.ts:75`: a publish that fails for the caller may have been taken by QStash: the row says failed, the job runs, and Meta posts again [`AckedReachedQueue`, `SomebodyOwnsIt`].
- `health/stranded.ts:236`: the sweep takes 100 rows oldest first; rows it cannot finish stay at the head of the list [`Settles`].
- `webhook/events.ts:260`: two deliveries of one event read the same attempt count and write the same next one. The count decides only when the exhaustion alert is raised; the model reads and writes it in one step.
- `webhook/entry.ts:103`: an event first received for an unknown Page and posted again after the channel is registered is published under a row whose routing stays unrouted, which the sweep never lists. Routing is fixed per event in InboundEvents; a registry that changes is left out.

**ThreadControl**

- `worker/reclaim.ts:210`: a staff echo lands between the reclaim line's send and the conditional flip: the line is out and the thread may or may not go back to the bot [`FlipSparesStaff`].
- `handover/record.ts:307`: handover events carry their own time but are applied in arrival order and never compared with the stored thread_control_at: an older event redelivered late overwrites a newer one. MetaHandsOver and Apply have it; FlipSparesStaff names it as the one way, beside a failed write, in which the flip takes a thread staff answered (section 7) [`FlipSparesStaff`].

**ChannelHealth**

- `channel/breaker.ts:203`: two channels read no halt in the hour, both halt, and only then write the alert row that is the cap's clock: the cap of one halt an hour is not kept. OneHaltAnHour states the cap; the code does not keep it (section 7).
- `channel/recover.ts:88`: a send that left before a halt returns after it and clears authorization_error on a channel whose token is still marked broken. DeadTokenIsListed states what the comments promise (section 7).
- `channel/catchup.ts:282`: the catch-up enqueues and then writes its flag; a failed write enqueues the same message again an hour later [`PromiseKept`].

**AlertEpisodes**

- `alerts/alert.ts:328`: an episode found open, and kept silent for, by a raise between the read and the close of resolveOpenAlerts is closed behind that raise. It needs two runs over one episode, and `alert_episodes` has one health job and one operator; with two operators NeverInvisible does not hold (section 7).
- `alerts/alert.ts:239`: Telegram refuses and the row stays undelivered: under once and daily the row itself suppresses every later attempt of the period, so nobody is told.

**BookingStore, BookingSettle**

- `supabase/migrations/0082_booking.sql:336`: one customer with two booking chats asks for two times at once. OneTimePerCustomer proves it for every number of chats and holds.
- `supabase/migrations/0082_booking.sql:426`: QPay reports the same payment to several callers, and two codes of one hold are both paid. PaidOnce proves it for every number of payments and holds.
- `booking/engine.ts:616`: the calendar is read and then written in two calls; the website or a person may write between them. NeverDoubleBooked does not hold: MCBookingDouble.cfg shows the trace (section 7).
- `booking/engine.ts:207`: two settling calls draft and claim the same confirmation; one of them counts the other's claim as a send. ToldMeansSaid states that a hold marked told was told; it holds with one caller and not with two (section 7).
- `booking/engine.ts:402`: a call fails after recording some of the payments QPay named: they are duplicates to every later call. ExcessIsPaged states that every excess payment is paged; the code does not, and MCBookingUnpaged.cfg shows the trace (section 7).
- `booking/engine.ts:500`: a death between the founder's page and what records that it was sent. ToldMeansSaid holds with one caller (section 4.1).
- `booking/engine.ts:706`: the hold's end, the customer's cancel and a payment on its code race; a cancelled code may have been paid [`PaymentIsRecorded`].
- `booking/turn.ts:891`: a deposit that lost its time is moved, loses it again and is told in a second round whose keys differ. ToldMeansSaid holds with one caller over a move (section 4.1).
- `booking/store.ts:411`: the sweep reads at most 50 untold holds oldest first; fifty that can never be told keep the rest from being looked at. One deposit is modelled; a bound on the sweep's page needs a module over many holds.

**BillingPayments, BillingOutbox**

- `billing/engine.ts:1004`: a run resumes the client and dies, or fails to queue the message, before the founder is told [`ResumedIsTold`].
- `billing/engine.ts:1000`: the run resumes by the account over a pause it read earlier; the pause may be another one by then. HandPauseStays states that a pause by hand stays; the code ends it (section 7).
- `billing/engine.ts:921`: a pause notice is withdrawn after a second read of the pause; a pause made after that read loses its notice for good. PauseKeepsNotice states that it keeps it (section 7).
- `supabase/migrations/0068_billing_pay_codes.sql:161`: the count of codes of the hour and the new code are two calls; two pages both find a slot. CapIsKept states the cap (section 7).
- `billing/engine.ts:843`: a code is made at QPay and not recorded: it must never be shown, since nobody would ask about it [`MoneyIsWatched`].

**CommentReplies**

- `worker/comments.ts:1228`: two comments of one thread whose rules differ are drafted at once: the second job gets the first one's claiming line and posts it before any chat. EveryClaimIsTrue is violated there (section 7).
- `worker/comments.ts:1356`: another person's comment resumes the thread's failed line and rewrites it: the check before the re-send then compares a text the first POST never had. NeverTwoReplies is violated with two people (section 7).
- `comments/reconcile.ts:308`: a notice read against a row still sending is written after its POST was answered with an error: a failed row becomes sent as if proven. FailedIsOnlyGuessed states what the comment says (section 7).
- `worker/comments.ts:1178`: the public line is drafted and the private message is not; the redelivery reads the person as answered and never drafts it. BothAreWritten states the policy (section 7).
- `worker/comments.ts:966`: the replies under a post are counted once for the whole job; two jobs on one post each pass the cap. The cap is in the model as the decision reads it; the code does not keep it between two jobs.

**CommentPoll (planned)**

- `comments/poll.ts:371`: the poll queues comments and dies before it writes its counts: the next run reads them again and the event keys must stop the repeats.
- `comments/poll.ts:244`: two polls overlap and write the channel's state from their own reads; the older one may bring back counts the newer one advanced.

**Publish (planned)**

- `prompt/publish.ts:113`: publishing fails after the old revision is superseded and before the pointer moves: the pointer names a superseded revision and no retry is possible, since the new one is no longer a draft.
- `prompt/publish.ts:122`: two publishes interleave: each supersedes the other and the pointer names whichever moved last.

**WebsiteTurns (planned)**

- `website/session.ts:154`: two messages of one session claim the same turn: the one that loses is told the session is exhausted though turns are left.

**Erasure (planned)**

- `privacy/erasure.ts:129`: the request is completed between the refused insert and the read: the caller gets an error and no code.

**Onboarding (outside)**

- `provision/write.ts:136`: the intake writes table after table with no transaction; a refusal half way leaves a tenant whose parts disagree. Onboarding is outside the plan: one operator, run again by hand.

## 10. Plan

1. **Proofs** of the properties of section 4.1 that no theorem states (`ToldMeansSaid` and `RefundPageIsFinal`, for one
   call at a time, over the place invariant of `BookingSettleProofs`).
2. **Events of AlertEpisodes** - the `once` and `daily` policies and the recovery notice, with the row that
   suppresses what Telegram refused.
3. **CommentPoll** - watermark, counts and backoff, two polls at once, over the event keys of `InboundEvents`.
4. **Publish**, **WebsiteTurns**, **Erasure** - small modules with one compare-and-set each.
5. **Compositions** - `InboundEvents` with `OutboundDelivery` (a worker's run is a delivery), the
   reply path with `SpendLedger`, and `ChannelHealth`'s catch-up with both.

Runs stay at one per question: where a later module answers what an earlier run asks of a part
of it, the run moves there.

## 11. Running it

    tlc -workers 2 -config MCOutboundDelivery.cfg MCOutboundDelivery
    tlapm OutboundDeliveryProofs.tla

The longest runs are `inbound_events`, `booking_settles` and `alert_episodes`, two to two and a half minutes each with
two workers; the others take one to two or less. The proofs of `InboundEvents`, `OutboundDelivery` and `SpendLedger`
take some minutes each from nothing. A configuration of section 7 ends in a counterexample; that is its result.
