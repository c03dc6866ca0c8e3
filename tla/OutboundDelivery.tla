-------------------------- MODULE OutboundDelivery --------------------------
(***************************************************************************)
(* One customer message, and every delivery of the job that answers it.    *)
(*                                                                         *)
(* QStash delivers the job at least once; the reply must reach Meta at     *)
(* most once.  What stands between the two is a row of outbound_messages   *)
(* per dedup key, its state and the compare-and-set that claims it         *)
(* (src/lib/outbound/claim.ts), driven by the reception worker             *)
(* (src/lib/worker/reception.ts) and the send (outbound/deliver.ts).  The  *)
(* message has two keys: its reply, and the hand-off line that goes out    *)
(* when a stored reply was refused as too late.                            *)
(*                                                                         *)
(* Each action is one awaited call of a delivery.  Deliveries overlap, are *)
(* duplicated, answer 503 and come again, and die anywhere.  Faults names  *)
(* which failures a run admits:                                            *)
(*   "read"  a read fails             "write"  a write fails               *)
(*   "lost"  a write is applied and its answer lost                        *)
(*   "meta"  the send fails           "model"  generation asks for a retry *)
(*   "crash" the invocation is killed                                      *)
(***************************************************************************)
EXTENDS Integers, FiniteSets

CONSTANTS
    Jobs,           \* QStash messages for the job: the webhook's, its duplicates, the sweeps'
    CatchUps,       \* those the recovery of a halted channel enqueued
    MaxDeliveries,  \* RECEPTION_MAX_DELIVERIES
    Faults,
    NoText

ASSUME DeliveryAssumption ==
    /\ CatchUps \subseteq Jobs
    /\ MaxDeliveries \in Nat \ {0}
    /\ NoText \notin Jobs

VARIABLES
    row,       \* outbound_messages.state of each key
    body,      \* outbound_messages.body of each key: the delivery whose text it is
    wire,      \* what reached the customer
    age,       \* how late the message is: fresh, late, or past Meta's 24 hours
    jobAge,    \* the age a delivery computes from its own `now`
    stored,    \* the inbound row exists
    person,    \* a person has replied to the customer
    newer,     \* the customer has written again
    attempts,  \* webhook_events.delivery_attempts
    nth,       \* its value in each message's last delivery, 0 before the first
    pc,        \* where that delivery is
    key,       \* the row it works on
    plan,      \* what it will do with the row
    closed     \* why nothing more is owed, as told or recorded

env == <<age, person, newer>>
vars == <<row, body, wire, env, jobAge, stored, attempts, nth, pc, key, plan, closed>>

Keys == {"reply", "handoff"}
RowStates == {"absent", "draft", "sending", "sent", "failed", "indeterminate", "refused"}
Claimable == {"draft", "failed"}
Ages == {"fresh", "late", "expired"}
Plans == {"fresh", "line", "resend", "refuse", "stale"}
\* A delivery at one of these has claimed the row of its key and not let go of it.
Holding == {"send", "refuse", "markSent", "markIndeterminate", "markRetry", "markTerminal"}
Stopped == {"idle", "done", "retry", "dead"}
Places == {"persist", "lookup", "lineLookup", "resume", "resumeCheck", "ageCheck",
           "lateCheck", "generate", "draft", "claim"} \cup Holding \cup Stopped
Excuses == {"person", "newer", "said", "expired", "dropped", "undeliverable", "parked",
            "alerted", "exhausted"}

Delivered == [nth : Nat, key : Keys, text : Jobs]

TypeOK ==
    /\ row \in [Keys -> RowStates]
    /\ body \in [Keys -> Jobs \cup {NoText}]
    /\ wire \subseteq Delivered
    /\ age \in Ages /\ person \in BOOLEAN /\ newer \in BOOLEAN /\ stored \in BOOLEAN
    /\ jobAge \in [Jobs -> Ages]
    /\ attempts \in Nat
    /\ nth \in [Jobs -> Nat]
    /\ pc \in [Jobs -> Places]
    /\ key \in [Jobs -> Keys]
    /\ plan \in [Jobs -> Plans]
    /\ closed \subseteq Excuses

Init ==
    /\ row = [k \in Keys |-> "absent"]
    /\ body = [k \in Keys |-> NoText]
    /\ wire = {}
    /\ age \in {"fresh", "late"} /\ person = FALSE /\ newer = FALSE /\ stored = FALSE
    /\ jobAge = [j \in Jobs |-> "fresh"]
    /\ attempts = 0
    /\ nth = [j \in Jobs |-> 0]
    /\ pc = [j \in Jobs |-> "idle"]
    /\ key = [j \in Jobs |-> "reply"]
    /\ plan = [j \in Jobs |-> "fresh"]
    /\ closed = {}

Goto(j, place) == pc' = [pc EXCEPT ![j] = place] /\ UNCHANGED closed
\* The job answers 200, for a reason that is recorded or told, or for none.
End(j, why) == pc' = [pc EXCEPT ![j] = "done"] /\ closed' = closed \cup why
\* The job answers 503.  On the last delivery a person is told instead.
Retry(j) ==
    /\ pc' = [pc EXCEPT ![j] = "retry"]
    /\ closed' = closed \cup (IF nth[j] >= MaxDeliveries THEN {"exhausted"} ELSE {})

(***************************************************************************)
(* QStash                                                                  *)
(***************************************************************************)

\* A delivery: it counts itself on the event, and reads its clock.
Begin(j) ==
    /\ pc' = [pc EXCEPT ![j] = "persist"]
    /\ attempts' = attempts + 1
    /\ nth' = [nth EXCEPT ![j] = attempts + 1]
    /\ jobAge' = [jobAge EXCEPT ![j] = age]
    /\ key' = [key EXCEPT ![j] = "reply"]
    /\ UNCHANGED <<row, body, wire, env, stored, plan, closed>>

Start(j) == pc[j] = "idle" /\ Begin(j)

\* QStash delivers again what was answered 503 or not at all.  A message whose last
\* delivery was past MaxDeliveries is left: the bound on redeliveries.
Redeliver(j) == pc[j] \in {"retry", "dead"} /\ nth[j] < MaxDeliveries /\ Begin(j)

FirstStart == (\A i \in Jobs : pc[i] = "idle") /\ \E j \in Jobs : Start(j)

(***************************************************************************)
(* The inbound row, the thread, and what an earlier delivery left          *)
(***************************************************************************)

\* recordInbound, then the thread: a person who holds it ends the job, whatever is stored.
\* The pair is one step because only the environment writes `person`.
Persist(j) ==
    /\ pc[j] = "persist"
    /\ \/ /\ stored' = TRUE
          /\ \/ Goto(j, IF stored THEN "lookup" ELSE "ageCheck")
             \/ person /\ End(j, {"person"})
       \/ "write" \in Faults /\ Retry(j) /\ UNCHANGED stored
       \/ "lost" \in Faults /\ Retry(j) /\ stored' = TRUE
    /\ UNCHANGED <<row, body, wire, env, jobAge, attempts, nth, key, plan>>

\* findReplyFor under the reply's key: resumed, its line looked for, answered, or absent.
Lookup(j) ==
    /\ pc[j] = "lookup"
    /\ \/ row["reply"] = "absent" /\ Goto(j, "ageCheck")
       \/ j \notin CatchUps /\ row["reply"] \in Claimable /\ Goto(j, "resume")
       \/ j \notin CatchUps /\ row["reply"] = "refused" /\ jobAge[j] # "expired"
          /\ Goto(j, "lineLookup")
       \/ j \in CatchUps /\ row["reply"] = "failed" /\ Goto(j, "ageCheck")
       \/ /\ \/ row["reply"] \in {"sending", "sent", "indeterminate"}
             \/ row["reply"] = "refused" /\ (j \in CatchUps \/ jobAge[j] = "expired")
             \/ row["reply"] = "draft" /\ j \in CatchUps
          /\ End(j, {})
       \/ "read" \in Faults /\ Retry(j)
    /\ UNCHANGED <<row, body, wire, env, jobAge, stored, attempts, nth, key, plan>>

\* The hand-off line of a reply refused as too late: re-sent if stored, however late.
LineLookup(j) ==
    /\ pc[j] = "lineLookup"
    /\ \/ /\ row["handoff"] \in Claimable
          /\ key' = [key EXCEPT ![j] = "handoff"]
          /\ Goto(j, "resumeCheck")
       \/ row["handoff"] \notin Claimable /\ End(j, {}) /\ UNCHANGED key
       \/ "read" \in Faults /\ Retry(j) /\ UNCHANGED key
    /\ UNCHANGED <<row, body, wire, env, jobAge, stored, attempts, nth, plan>>

\* resumeStoredReply: a stored reply past the age limit is claimed only to be refused.
Resume(j) ==
    /\ pc[j] = "resume"
    /\ IF jobAge[j] = "fresh"
       THEN Goto(j, "resumeCheck") /\ UNCHANGED plan
       ELSE Goto(j, "claim") /\ plan' = [plan EXCEPT ![j] = "stale"]
    /\ UNCHANGED <<row, body, wire, env, jobAge, stored, attempts, nth, key>>

LaterSent(k) == k = "reply" /\ row["handoff"] = "sent"

\* The reads before the claim.  An unreadable person check counts as nobody; any other
\* unreadable one asks for a retry, with no row touched.
ResumeCheck(j) ==
    /\ pc[j] = "resumeCheck"
    /\ \/ /\ Goto(j, "claim")
          /\ \/ /\ newer \/ LaterSent(key[j]) \/ person
                /\ plan' = [plan EXCEPT ![j] = "refuse"]
             \/ /\ ~newer /\ ~LaterSent(key[j]) /\ (person => "read" \in Faults)
                /\ plan' = [plan EXCEPT ![j] = "resend"]
       \/ "read" \in Faults /\ Retry(j) /\ UNCHANGED plan
    /\ UNCHANGED <<row, body, wire, env, jobAge, stored, attempts, nth, key>>

(***************************************************************************)
(* A message not yet answered                                              *)
(***************************************************************************)

\* The age check.  A catch-up is measured against the 24 hours alone.  A late message goes
\* on to the hand-off line, unless the published rows will not load: then a person is told.
AgeCheck(j) ==
    /\ pc[j] = "ageCheck"
    /\ \/ jobAge[j] = "expired" /\ End(j, {"expired"})
       \/ /\ jobAge[j] = "fresh" \/ (jobAge[j] = "late" /\ j \in CatchUps)
          /\ Goto(j, "generate")
       \/ /\ jobAge[j] = "late" /\ j \notin CatchUps
          /\ Goto(j, "lateCheck") \/ ("read" \in Faults /\ End(j, {"alerted"}))
    /\ UNCHANGED <<row, body, wire, env, jobAge, stored, attempts, nth, key, plan>>

\* stillWaiting: a reply row that may have reached the customer, this message's included.
MayHaveReached == \E k \in Keys : row[k] \in {"sending", "sent", "indeterminate"}

\* stillWaiting, then the choice of serveHandoff('too_late'): no reviewed line (a person is
\* told), said already today, or to be drafted.  An unreadable answer reads as waiting.
LateCheck(j) ==
    /\ pc[j] = "lateCheck"
    /\ \/ newer /\ End(j, {"newer"}) /\ UNCHANGED plan
       \/ MayHaveReached /\ End(j, {}) /\ UNCHANGED plan
       \/ person /\ End(j, {"person"}) /\ UNCHANGED plan
       \/ /\ (newer \/ MayHaveReached \/ person) => "read" \in Faults
          /\ \/ Goto(j, "draft") /\ plan' = [plan EXCEPT ![j] = "line"]
             \/ \E why \in {"alerted", "said"} : End(j, {why}) /\ UNCHANGED plan
    /\ UNCHANGED <<row, body, wire, env, jobAge, stored, attempts, nth, key>>

\* The guard and the model.  A text; the reviewed hand-off line under the reply's own key
\* (daily cap, or approved lines changed), unless it was said today or there is none; no
\* reply by design; or 503.
Generate(j) ==
    /\ pc[j] = "generate"
    /\ \/ \E p \in {"fresh", "line"} :
             Goto(j, "draft") /\ plan' = [plan EXCEPT ![j] = p]
       \/ \E why \in {"dropped", "alerted", "said"} : End(j, {why}) /\ UNCHANGED plan
       \/ {"read", "model"} \cap Faults # {} /\ Retry(j) /\ UNCHANGED plan
    /\ UNCHANGED <<row, body, wire, env, jobAge, stored, attempts, nth, key>>

\* draftOnce: the unique index lets one insert in; the loser reads the winner's row.
DraftOnce(k, j) ==
    IF row[k] = "absent"
    THEN row' = [row EXCEPT ![k] = "draft"] /\ body' = [body EXCEPT ![k] = j]
    ELSE UNCHANGED <<row, body>>

Draft(j) ==
    /\ pc[j] = "draft"
    /\ \/ DraftOnce(key[j], j) /\ Goto(j, "claim")
       \/ "lost" \in Faults /\ DraftOnce(key[j], j) /\ Retry(j)
       \/ "write" \in Faults /\ Retry(j) /\ UNCHANGED <<row, body>>
    /\ UNCHANGED <<wire, env, jobAge, stored, attempts, nth, key, plan>>

(***************************************************************************)
(* Claim, send, record                                                     *)
(***************************************************************************)

\* Where a claimed row goes.  On the fresh path the person check runs beside the claim, and
\* an unreadable one sends.
AfterClaim(j) ==
    CASE plan[j] \in {"refuse", "stale"} -> {"refuse"}
      [] plan[j] \in {"line", "resend"} -> {"send"}
      [] plan[j] = "fresh" /\ person -> {"refuse"} \cup (IF "read" \in Faults THEN {"send"} ELSE {})
      [] OTHER -> {"send"}

\* One statement.  The lease in its WHERE clause excludes nobody: every write that makes a
\* row claimable again clears it.
Claim(j) ==
    /\ pc[j] = "claim"
    /\ \/ /\ row[key[j]] \in Claimable
          /\ row' = [row EXCEPT ![key[j]] = "sending"]
          /\ \/ \E place \in AfterClaim(j) : Goto(j, place)
             \/ "lost" \in Faults /\ Retry(j)
       \/ row[key[j]] \notin Claimable /\ End(j, {}) /\ UNCHANGED row
       \/ {"read", "write"} \cap Faults # {} /\ Retry(j) /\ UNCHANGED row
    /\ UNCHANGED <<body, wire, env, jobAge, stored, attempts, nth, key, plan>>

\* The writes that let go of a claimed row are compare-and-set on `sending`, and nobody
\* waits on their outcome: one that fails leaves the row `sending`.
SettleRow(j, state) ==
    \/ row' = [row EXCEPT ![key[j]] = IF @ = "sending" THEN state ELSE @]
    \/ "write" \in Faults /\ UNCHANGED row

\* markRefused.  A stale reply is followed by the hand-off line, under its own key, even if
\* the refusal was not recorded.
Refuse(j) ==
    /\ pc[j] = "refuse"
    /\ SettleRow(j, "refused")
    /\ IF plan[j] = "stale"
       THEN Goto(j, "ageCheck") /\ key' = [key EXCEPT ![j] = "handoff"]
       ELSE /\ End(j, IF person THEN {"person"} ELSE {"newer"})
            /\ UNCHANGED key
    /\ UNCHANGED <<body, wire, env, jobAge, stored, attempts, nth, plan>>

\* The text the send carries is the one the claim returned.
HeldText(j) == body[key[j]]

Put(j) == wire' = wire \cup {[nth |-> nth[j], key |-> key[j], text |-> HeldText(j)]}

\* deliverOutbound: it arrived; it may have (an answer lost, some parts of several); or it
\* provably did not, and a retry may help or cannot.
Send(j) ==
    /\ pc[j] = "send"
    /\ \/ Put(j) /\ Goto(j, "markSent")
       \/ "meta" \in Faults /\ (Put(j) \/ UNCHANGED wire) /\ Goto(j, "markIndeterminate")
       \/ "meta" \in Faults /\ UNCHANGED wire /\ \E p \in {"markRetry", "markTerminal"} : Goto(j, p)
    /\ UNCHANGED <<row, body, env, jobAge, stored, attempts, nth, key, plan>>

\* Fault: an answer that never came is taken for a failed send, and tried again.
MarkLostAsFailed(j) ==
    /\ \/ pc[j] = "markSent" /\ SettleRow(j, "sent") /\ End(j, {})
       \/ pc[j] = "markIndeterminate" /\ SettleRow(j, "failed") /\ Retry(j)
       \/ pc[j] = "markRetry" /\ SettleRow(j, "failed") /\ Retry(j)
       \/ pc[j] = "markTerminal" /\ SettleRow(j, "failed") /\ End(j, {"undeliverable"})
    /\ UNCHANGED <<body, wire, env, jobAge, stored, attempts, nth, key, plan>>
Mark(j) ==
    /\ \/ pc[j] = "markSent" /\ SettleRow(j, "sent") /\ End(j, {})
       \/ pc[j] = "markIndeterminate" /\ SettleRow(j, "indeterminate") /\ End(j, {"parked"})
       \/ pc[j] = "markRetry" /\ SettleRow(j, "failed") /\ Retry(j)
       \/ pc[j] = "markTerminal" /\ SettleRow(j, "failed") /\ End(j, {"undeliverable"})
    /\ UNCHANGED <<body, wire, env, jobAge, stored, attempts, nth, key, plan>>

(***************************************************************************)
(* The world                                                               *)
(***************************************************************************)

Crash(j) ==
    /\ "crash" \in Faults
    /\ pc[j] \notin Stopped
    /\ Goto(j, "dead")
    /\ UNCHANGED <<row, body, wire, env, jobAge, stored, attempts, nth, key, plan>>

Elapse ==
    /\ \/ age = "fresh" /\ age' = "late"
       \/ age = "late" /\ age' = "expired"
    /\ UNCHANGED <<row, body, wire, person, newer, jobAge, stored, attempts, nth, pc, key, plan, closed>>

PersonReplies ==
    /\ ~person /\ person' = TRUE
    /\ UNCHANGED <<row, body, wire, age, newer, jobAge, stored, attempts, nth, pc, key, plan, closed>>

CustomerWrites ==
    /\ ~newer /\ newer' = TRUE
    /\ UNCHANGED <<row, body, wire, age, person, jobAge, stored, attempts, nth, pc, key, plan, closed>>

Step(j) ==
    \/ Persist(j) \/ Lookup(j) \/ LineLookup(j) \/ Resume(j) \/ ResumeCheck(j)
    \/ AgeCheck(j) \/ LateCheck(j) \/ Generate(j) \/ Draft(j)
    \/ Claim(j) \/ Refuse(j) \/ Send(j) \/ Mark(j)

Next ==
    \/ \E j \in Jobs : Start(j) \/ Redeliver(j) \/ Step(j) \/ Crash(j)
    \/ Elapse \/ PersonReplies \/ CustomerWrites

Spec == Init /\ [][Next]_vars

\* A delivery that is not killed runs to its end (every await is bounded), and QStash
\* delivers again until it gets a 200.
FairSpec ==
    /\ Spec
    /\ \A j \in Jobs : WF_vars(Step(j)) /\ WF_vars(Redeliver(j))
    /\ WF_vars(FirstStart)

(***************************************************************************)
(* Properties                                                              *)
(***************************************************************************)

\* Messenger's half of the contract (claim.ts:8-11): over every duplicate delivery, retry,
\* lost answer and death, and over both keys, the customer gets at most one message.
OneAnswer == \A a, b \in wire : a = b

\* Whatever reached the customer is in a state no claim accepts, or is being written by the
\* delivery that sent it: it can never be sent again (claim.ts:18-24, 305-313).
DeliveredNeverReclaimable == \A m \in wire : row[m.key] \in {"sending", "sent", "indeterminate"}

\* The hand-off line exists only in place of the reply: once it is drafted, the reply's row
\* is refused, or held for ever by the delivery that could not record the refusal.
LineReplacesReply == row["handoff"] # "absent" => row["reply"] \in {"refused", "sending"}

\* The outbound rows and the wire implement the promise of OneReply: each key's text is
\* stored once, and over every delivery of the job and both keys one message at most is put
\* on the wire, a stored one (claim.ts:5, 8-11; the send is of the body the claim returned).
\* A second put of the same text is a second send, and no step of OneReply.
Promise == INSTANCE OneReply WITH Texts <- Jobs, stored <- body, heard <- wire
PromiseKept == Promise!Spec

\* Inside Meta's 24 hours a customer is answered, or the reason they are not is recorded or
\* told to a person: sends that fail, reads that fail and generation that must be retried
\* never end in silence (reception.ts:1443-1449, 416-440).
NeverSilent == <>(wire # {} \/ closed # {} \/ age = "expired")

\* "Too late for an answer is never a reason for silence ... the tenant's reviewed hand-off
\* line goes instead" (reception.ts:1569) and, of a draft of that line that fails, "the
\* redelivery tries again" (reception.ts:1716).  Fails: the redelivery finds the refused
\* reply, no line beside it, and takes the message for answered.
LineIsTriedAgain ==
    \A j \in Jobs :
        pc[j] = "draft" /\ key[j] = "handoff" ~>
            \/ row["handoff"] # "absent"
            \/ wire # {} \/ closed # {} \/ newer \/ person \/ age = "expired"

\* "With it, a redelivery finds the stored body and sends exactly that, or discovers it was
\* already sent and stops" (claim.ts:15).  Fails: a row claimed by a delivery that died is
\* neither, its lease is never read, and the redelivery stops.
StopsOnlyWhenSettled ==
    [][\A j \in Jobs :
          pc[j] = "lookup" /\ pc'[j] = "done" =>
             \/ wire # {} \/ row["reply"] \in {"refused", "indeterminate"}
             \/ \E i \in Jobs : pc[i] \in Holding]_vars
=============================================================================
