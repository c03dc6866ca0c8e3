--------------------------- MODULE BillingOutbox ---------------------------
(***************************************************************************)
(* What is said about one invoice and what is done to its client: the      *)
(* messages planned from the invoice's state, sent once by whichever run   *)
(* claims them, and the pause the founder may make over it, which ends by  *)
(* itself when the invoice is paid (billing/engine.ts plan, sweep and      *)
(* sendDue, billing/jobs.ts runActionJob, 0065_billing.sql).               *)
(*                                                                         *)
(* The hourly run and QPay's callback plan and send; every step is one     *)
(* awaited call that may fail, and the platform may stop a run anywhere.   *)
(* BillingPayments has the payments: here one step makes the invoice paid. *)
(* A run lasts two minutes at most and a claim is stale after ten, so the  *)
(* sweep meets only claims whose run is over.                              *)
(***************************************************************************)
EXTENDS Integers, FiniteSets

CONSTANTS
    Workers,
    Reminders,    \* messages only an unpaid invoice has: itself, its reminders, the question to pause
    Receipts,     \* messages of a paid one: the receipt, the founder's copy
    Batch,        \* SEND_BATCH
    MaxPauses,    \* bound: pauses
    MaxRequeues,  \* bound: messages a person sends again
    MaxFaults     \* bound: failed calls and stopped runs

ASSUME OutboxAssumption ==
    /\ {Batch, MaxPauses, MaxRequeues, MaxFaults} \subseteq Nat
    /\ Reminders \cap Receipts = {} /\ {"notice", "resumed"} \cap (Reminders \cup Receipts) = {}

\* The client is told of the pause, the founder of its end.
Messages == Reminders \cup Receipts \cup {"notice", "resumed"}
OnlyWhileUnpaid == Reminders \cup {"notice"}

VARIABLES
    status,    \* billing_invoices.status
    pause,     \* the open pause: over this invoice, by hand, or none
    ended,     \* a pause over the invoice ended by itself
    box,       \* billing_deliveries.status; "dead" failed for good
    left,      \* how often each message went out
    again,     \* how often a person sent it again
    told,      \* messages whose fate the founder was told of
    pc, saw, owed, hold,   \* of each run: its place, what it read, problems to queue, claims
    pauses, faults

tables == <<status, pause, ended>>
outbox == <<box, left, again>>
vars == <<tables, outbox, told, pc, saw, owed, hold, pauses, faults>>

Places == {"idle", "pauses", "plan", "reread", "withdraw", "resume", "tell", "sweep", "report", "claim", "send"}
NotRead == [status |-> "open", pause |-> "none"]

\* A message claimed is one run's, and that run is sending it.
TypeOK ==
    /\ status \in {"open", "paid", "mismatch", "void"}
    /\ pause \in {"none", "invoice", "hand"} /\ ended \in BOOLEAN
    /\ box \in [Messages -> {"none", "pending", "sending", "sent", "failed", "dead", "unknown", "cancelled"}]
    /\ left \in [Messages -> Nat] /\ again \in [Messages -> 0 .. MaxRequeues]
    /\ told \subseteq Messages
    /\ pc \in [Workers -> Places]
    /\ saw \in [Workers -> [status : {"open", "paid", "mismatch", "void"}, pause : {"none", "invoice", "hand"}]]
    /\ owed \in [Workers -> SUBSET Messages] /\ hold \in [Workers -> SUBSET Messages]
    /\ pauses \in 0 .. MaxPauses /\ faults \in 0 .. MaxFaults
    /\ \A w \in Workers :
        /\ hold[w] # {} <=> pc[w] = "send"
        /\ owed[w] # {} <=> pc[w] = "report"
        /\ \A m \in hold[w] : box[m] = "sending" /\ \A v \in Workers \ {w} : m \notin hold[v]

Init ==
    /\ status = "open" /\ pause = "none" /\ ended = FALSE
    /\ box = [m \in Messages |-> "none"] /\ left = [m \in Messages |-> 0] /\ again = [m \in Messages |-> 0]
    /\ told = {}
    /\ pc = [w \in Workers |-> "idle"] /\ saw = [w \in Workers |-> NotRead]
    /\ owed = [w \in Workers |-> {}] /\ hold = [w \in Workers |-> {}]
    /\ pauses = 0 /\ faults = 0

(***************************************************************************)
(* Helpers                                                                 *)
(***************************************************************************)

Fault == faults < MaxFaults /\ faults' = faults + 1
NoFault == UNCHANGED faults
At(w, place) == pc[w] = place
Goto(w, place) == pc' = [pc EXCEPT ![w] = place]
Waiting(m) == box[m] \in {"pending", "failed"}
\* enqueue: once per key, ever.
Enqueue(ms) == box' = [m \in Messages |-> IF m \in ms /\ box[m] = "none" THEN "pending" ELSE box[m]]
Locals == <<saw, owed, hold>>
\* What a run read is of no use to it after its planning.
Forget(w) == saw' = [saw EXCEPT ![w] = NotRead]

(***************************************************************************)
(* plan                                                                    *)
(***************************************************************************)

\* The invoice, then the open pauses: two reads.
Begin(w) ==
    /\ At(w, "idle") /\ Goto(w, "pauses")
    /\ saw' = [saw EXCEPT ![w].status = status]
    /\ UNCHANGED <<tables, outbox, told, owed, hold, pauses>> /\ NoFault
Pauses(w) ==
    /\ At(w, "pauses") /\ Goto(w, "plan")
    /\ saw' = [saw EXCEPT ![w].pause = pause]
    /\ UNCHANGED <<tables, outbox, told, owed, hold, pauses>> /\ NoFault

\* The messages for what was read.  Which reminders are due is the calendar's; one may fail to queue.
Due(s, p) ==
    CASE s = "open" -> Reminders \cup (IF p = "invoice" THEN {"notice"} ELSE {})
      [] s = "paid" -> Receipts
      [] OTHER -> {}
\* Fault: the client is resumed by the run that first sees the payment.
ResumesOnce(w) == saw[w].status = "paid" /\ saw[w].pause = "invoice" /\ \E m \in Receipts : box[m] = "none"
Resumes(w) == saw[w].status = "paid" /\ saw[w].pause = "invoice"
Plan(w) ==
    LET s == saw[w].status
        p == saw[w].pause IN
    /\ At(w, "plan")
    /\ \E due \in SUBSET Due(s, p) :
        /\ ("notice" \in Due(s, p) \/ s = "paid") => due = Due(s, p) \/ faults < MaxFaults
        /\ Enqueue(due)
        /\ IF due # Due(s, p) /\ (s = "paid" \/ "notice" \in Due(s, p) \ due) THEN Fault ELSE NoFault
    /\ IF s = "paid" THEN Goto(w, IF Resumes(w) THEN "resume" ELSE "tell") /\ UNCHANGED saw
       ELSE Goto(w, IF s = "open" /\ p # "invoice" THEN "reread" ELSE "sweep") /\ Forget(w)
    /\ UNCHANGED <<tables, left, again, told, owed, hold, pauses>>

\* Not paused as the run began: the pause is read again, and only then its notice withdrawn.
Reread(w) ==
    /\ At(w, "reread")
    /\ Goto(w, IF pause = "invoice" THEN "sweep" ELSE "withdraw")
    /\ UNCHANGED <<tables, outbox, told, Locals, pauses>> /\ NoFault
Withdraw(w) ==
    /\ At(w, "withdraw") /\ Goto(w, "sweep")
    /\ \/ box' = [box EXCEPT !["notice"] = IF Waiting("notice") THEN "cancelled" ELSE @] /\ NoFault
       \/ UNCHANGED box /\ Fault
    /\ UNCHANGED <<tables, left, again, told, Locals, pauses>>

\* autoResume: billing_resume ends whatever pause the account has.
Resume(w) ==
    /\ At(w, "resume") /\ Goto(w, "tell")
    /\ \/ pause' = "none" /\ ended' = (ended \/ pause = "invoice") /\ NoFault
       \/ UNCHANGED <<pause, ended>> /\ Fault
    /\ UNCHANGED <<status, outbox, told, Locals, pauses>>

\* Fault: only the run that resumed the client says so.
ToldByItself(w) == ended /\ saw[w].pause = "invoice"
HasEnded(w) == ended
\* tellAutoResumed: planned from the table, whoever resumed.
Tell(w) ==
    /\ At(w, "tell") /\ Goto(w, "sweep") /\ Forget(w)
    /\ \/ Enqueue(IF HasEnded(w) THEN {"resumed"} ELSE {}) /\ NoFault
       \/ ended /\ UNCHANGED box /\ Fault
    /\ UNCHANGED <<tables, left, again, told, owed, hold, pauses>>

(***************************************************************************)
(* sweep and sendDue                                                       *)
(***************************************************************************)

Held == UNION {hold[w] : w \in Workers}
\* Fault: a claim nobody finished is sent again.
SweptAgain == "pending"
Swept == "unknown"
\* billing_sweep_unfinished; the callback has no sweep.
Sweep(w) ==
    /\ At(w, "sweep")
    /\ LET stale == {m \in Messages : box[m] = "sending" /\ m \notin Held} IN
       \/ /\ box' = [m \in Messages |-> IF m \in stale THEN Swept ELSE box[m]]
          /\ owed' = [owed EXCEPT ![w] = stale] /\ Goto(w, IF stale = {} THEN "claim" ELSE "report")
       \/ UNCHANGED <<box, owed>> /\ Goto(w, "claim")
    /\ UNCHANGED <<tables, left, again, told, saw, hold, pauses>> /\ NoFault

\* problem: what may or may not have gone out, and what failed for good, the founder hears of.
Report(w) ==
    /\ At(w, "report") /\ Goto(w, "claim")
    /\ owed' = [owed EXCEPT ![w] = {}]
    /\ \/ told' = told \cup owed[w] /\ NoFault
       \/ UNCHANGED told /\ Fault
    /\ UNCHANGED <<tables, outbox, saw, hold, pauses>>

\* Fault: a reminder is claimed without asking whether the invoice is still unpaid.
NothingStale == {}
Stale == {m \in OnlyWhileUnpaid : Waiting(m) /\ status # "open"}
\* billing_claim_deliveries: first what a paid invoice no longer needs is cancelled.
Claim(w) ==
    LET due == {m \in Messages : Waiting(m)} \ Stale IN
    /\ At(w, "claim")
    /\ \E claimed \in SUBSET due :
        /\ Cardinality(claimed) = IF Cardinality(due) < Batch THEN Cardinality(due) ELSE Batch
        /\ box' = [m \in Messages |-> IF m \in Stale THEN "cancelled"
                                      ELSE IF m \in claimed THEN "sending" ELSE box[m]]
        /\ hold' = [hold EXCEPT ![w] = claimed]
        /\ Goto(w, IF claimed = {} THEN "idle" ELSE "send")
    /\ UNCHANGED <<tables, left, again, told, saw, owed, pauses>> /\ NoFault

AfterSend(w, m) == IF hold[w] = {m} THEN "claim" ELSE "send"
\* One message and its billing_finish_delivery.  A send whose fate is open, and one whose result
\* cannot be written, stay claimed; a definite failure is retried, or given up and told.
Send(w) ==
    \E m \in hold[w] :
        /\ At(w, "send")
        /\ \/ /\ left' = [left EXCEPT ![m] = @ + 1] /\ box' = [box EXCEPT ![m] = "sent"]
              /\ UNCHANGED told /\ NoFault
           \/ left' \in {left, [left EXCEPT ![m] = @ + 1]} /\ UNCHANGED <<box, told>> /\ Fault
           \/ UNCHANGED <<left, told>> /\ box' = [box EXCEPT ![m] = "failed"] /\ Fault
           \/ UNCHANGED left /\ box' = [box EXCEPT ![m] = "dead"] /\ told' \in {told, told \cup {m}} /\ Fault
        /\ hold' = [hold EXCEPT ![w] = @ \ {m}]
        /\ Goto(w, AfterSend(w, m))
        /\ UNCHANGED <<tables, again, saw, owed, pauses>>

\* The platform stops a run.
Die(w) ==
    /\ ~At(w, "idle") /\ Goto(w, "idle") /\ Fault /\ Forget(w)
    /\ owed' = [owed EXCEPT ![w] = {}] /\ hold' = [hold EXCEPT ![w] = {}]
    /\ UNCHANGED <<tables, outbox, told, pauses>>

(***************************************************************************)
(* The client and the founder                                              *)
(***************************************************************************)

\* billing_record_payment, and billing_resolve by a person.
Pay(s) ==
    /\ <<status, s>> \in {<<"open", "paid">>, <<"open", "mismatch">>, <<"open", "void">>,
                          <<"mismatch", "paid">>, <<"mismatch", "void">>}
    /\ status' = s
    /\ UNCHANGED <<pause, ended, outbox, told, pc, Locals, pauses>> /\ NoFault

\* billing_pause, over the invoice while it is unpaid or by hand; billing_resume.
PauseOver(p) ==
    /\ pauses < MaxPauses /\ pauses' = pauses + 1
    /\ p = "invoice" => status = "open"
    /\ pause = "none" /\ pause' = p
    /\ UNCHANGED <<status, ended, outbox, told, pc, Locals>> /\ NoFault
ResumeByHand ==
    /\ pause # "none" /\ pause' = "none"
    /\ UNCHANGED <<status, ended, outbox, told, pc, Locals, pauses>> /\ NoFault

\* billing_requeue_delivery.
Requeue(m) ==
    /\ box[m] \in {"failed", "dead", "unknown"} /\ again[m] < MaxRequeues
    /\ box' = [box EXCEPT ![m] = "pending"] /\ again' = [again EXCEPT ![m] = @ + 1]
    /\ UNCHANGED <<tables, left, told, pc, Locals, pauses>> /\ NoFault

Step(w) ==
    \/ Pauses(w) \/ Plan(w) \/ Reread(w) \/ Withdraw(w) \/ Resume(w) \/ Tell(w)
    \/ Sweep(w) \/ Report(w) \/ Claim(w) \/ Send(w)
Next ==
    \/ \E w \in Workers : Begin(w) \/ Step(w) \/ Die(w)
    \/ \E s \in {"paid", "mismatch", "void"} : Pay(s)
    \/ \E p \in {"invoice", "hand"} : PauseOver(p)
    \/ ResumeByHand
    \/ \E m \in Messages : Requeue(m)

Spec == Init /\ [][Next]_vars
\* The hourly run comes, and a call returns.
FairSpec == Spec /\ \A w \in Workers : WF_vars(Begin(w) \/ Step(w))

(***************************************************************************)
(* What the code promises                                                  *)
(***************************************************************************)

\* Nothing automatic sends a message twice: it went out at most once and once more for each time a
\* person asked, and what is known not to have gone out did not (0065).
NeverAgainByItself ==
    \A m \in Messages :
        /\ left[m] <= 1 + again[m]
        /\ box[m] \in {"none", "pending", "failed", "dead"} => left[m] <= again[m]

\* Nobody is reminded of money already sent: once the invoice is not open, no message that is only
\* for an unpaid one is taken up, however it came back into the box.
NobodyRemindedAfterPaying ==
    [][\A m \in OnlyWhileUnpaid : box[m] # "sending" /\ box'[m] = "sending" => status = "open"]_vars

\* A client paused over an invoice is resumed once it is paid, and the founder hears of it,
\* whichever run resumed and wherever it stopped.
PaidIsResumed == (status = "paid" /\ pause = "invoice") ~> pause # "invoice"
ResumedIsTold == (status = "paid" /\ ended) ~> box["resumed"] # "none"

\* A pause made by hand stays the founder's: no run ends it.
HandPauseStays ==
    [][\A w \in Workers : At(w, "resume") /\ pc'[w] = "tell" /\ pause = "hand" => pause' = "hand"]_vars

\* A pause made since the run began keeps its notice.
PauseKeepsNotice ==
    [][box["notice"] # "cancelled" /\ box'["notice"] = "cancelled" /\ status = "open"
       => pause # "invoice"]_vars

\* What may or may not have gone out the founder is told of.
UnknownIsTold == \A m \in Messages : (box[m] = "unknown") ~> (m \in told \/ box[m] # "unknown")
=============================================================================
