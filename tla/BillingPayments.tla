-------------------------- MODULE BillingPayments --------------------------
(***************************************************************************)
(* The money of one invoice: the QPay codes made for it when the client    *)
(* opens the pay page, what QPay answers about each, the payments recorded *)
(* under the invoice's lock, and the founder who may record one by hand    *)
(* (billing/engine.ts syncPayments and payPageState, 0067, 0068,           *)
(* scripts/billing/settle.ts).                                             *)
(*                                                                         *)
(* The hourly run, QPay's callback and the pay page ask the same way: every *)
(* watched code, then record what QPay reports, then note which codes are  *)
(* final.  A page visit is that run followed by its own part.  Every step  *)
(* is one awaited call, what was read earlier is kept, and the platform    *)
(* may stop a run anywhere.  Time is counted in code lifetimes, which no   *)
(* run outlasts.                                                           *)
(***************************************************************************)
EXTENDS Integers, FiniteSets

CONSTANTS
    Workers,
    MaxCodes,     \* bound: codes made for the invoice
    Payments,     \* QPay's own payment ids
    Mistyped,     \* ids a person may type by mistake; none is a payment's
    Lifetime,     \* QPAY_CODE_LIFETIME_MS
    Settle,       \* CODE_SETTLE_MS
    Hour,
    PerHour,      \* CODES_PER_HOUR
    MaxTime,      \* bound
    MaxFaults     \* bound: failed calls and killed workers

ASSUME BillingAssumption ==
    /\ {MaxCodes, Lifetime, Settle, Hour, PerHour, MaxTime, MaxFaults} \subseteq Nat
    /\ Settle >= 1
    /\ Payments \cap Mistyped = {}

Codes == 1 .. MaxCodes
Times == 0 .. MaxTime
Never == -1

VARIABLES
    now,
    rows,       \* billing_payments; `money` is what the payment really was
    made,       \* billing_qpay_codes.created_at of each code
    closed,     \* .closed_at is set
    withdrawn,  \* withdrawn at QPay, for a newer code
    named,      \* .reported_keys
    paid,       \* at QPay: the code each payment was made on
    shown,      \* at QPay: what it says of the payment
    pc, job,    \* of each worker: its place, and what it read so far
    faults

codes == <<made, closed, withdrawn, named>>
qpay == <<paid, shown>>
vars == <<now, rows, codes, qpay, pc, job, faults>>

Row == [key : Payments \cup Mistyped, money : Payments, hand : BOOLEAN]
Places == {"idle", "ask", "prior", "record", "mark", "add"}
\* What a worker keeps: the codes left to ask and what they had, QPay's answers, and the ids ever
\* named; of the page, its button and the code it saw.
Job == [list : SUBSET Codes, had : [Codes -> SUBSET Payments], answered : SUBSET Codes,
        pending : SUBSET Codes, found : SUBSET Payments, todo : SUBSET Payments,
        ever : SUBSET Payments, renew : BOOLEAN, latest : 0 .. MaxCodes]
NoJob == [list |-> {}, had |-> [c \in Codes |-> {}], answered |-> {}, pending |-> {}, found |-> {},
          todo |-> {}, ever |-> {}, renew |-> FALSE, latest |-> 0]

TypeOK ==
    /\ now \in Times
    /\ rows \subseteq Row
    /\ made \in [Codes -> Times \cup {Never}]
    /\ closed \in [Codes -> BOOLEAN] /\ withdrawn \in [Codes -> BOOLEAN]
    /\ named \in [Codes -> SUBSET Payments]
    /\ paid \in [Payments -> 0 .. MaxCodes]
    /\ shown \in [Payments -> {"none", "unseen", "pending", "settled"}]
    /\ pc \in [Workers -> Places] /\ job \in [Workers -> Job]
    /\ faults \in 0 .. MaxFaults

Init ==
    /\ now = 0 /\ rows = {}
    /\ made = [c \in Codes |-> Never]
    /\ closed = [c \in Codes |-> FALSE] /\ withdrawn = [c \in Codes |-> FALSE]
    /\ named = [c \in Codes |-> {}]
    /\ paid = [p \in Payments |-> 0] /\ shown = [p \in Payments |-> "none"]
    /\ pc = [w \in Workers |-> "idle"] /\ job = [w \in Workers |-> NoJob]
    /\ faults = 0

(***************************************************************************)
(* Helpers                                                                 *)
(***************************************************************************)

Fault == faults < MaxFaults /\ faults' = faults + 1
NoFault == UNCHANGED faults
Made == {c \in Codes : made[c] # Never}
Newest == IF Made = {} THEN 0 ELSE CHOOSE c \in Made : \A d \in Made : d <= c
Expires(c) == made[c] + Lifetime
At(w, place) == pc[w] = place
Goto(w, place) == pc' = [pc EXCEPT ![w] = place]
Keep(w, j) == job' = [job EXCEPT ![w] = j]
\* The run ends and forgets.
End(w) == Goto(w, "idle") /\ Keep(w, NoJob)

(***************************************************************************)
(* The database, one transaction each                                      *)
(***************************************************************************)

\* Every payment is of the invoice's amount.
Status ==
    IF rows = {} THEN "open" ELSE IF Cardinality(rows) = 1 THEN "paid" ELSE "mismatch"

\* Fault: the function trusts its caller's earlier read, as before 0067.
NothingConflicts(key, hand, second, reported) == {}
\* 0067: a payment of the other kind of recorder under another key may be this same money.
Conflicts(key, hand, second, reported) ==
    {r \in rows :
        /\ ~second /\ \A s \in rows : s.key # key
        /\ r.hand # hand /\ (hand \/ r.key \notin reported)}

\* billing_record_payment: once per key, under the invoice's lock.
RecordPayment(key, money, hand, second, reported) ==
    /\ Conflicts(key, hand, second, reported) = {}
    /\ rows' = IF \E r \in rows : r.key = key THEN rows
               ELSE rows \cup {[key |-> key, money |-> money, hand |-> hand]}

(***************************************************************************)
(* syncPayments                                                            *)
(***************************************************************************)

Watched == {c \in Made : ~closed[c]}
\* Fault: the ids named on closed codes are forgotten.
NamedOnWatched(list) == UNION {named[c] : c \in list}
EverReported(list) == UNION {named[c] : c \in Codes}

\* The callback and the page leave out the codes answered moments ago; the hourly run none.
Begin(w, list) ==
    /\ list # {} /\ At(w, "idle") /\ Goto(w, "ask")
    /\ Keep(w, [NoJob EXCEPT !.list = list, !.ever = EverReported(list),
                             !.had = [c \in Codes |-> IF c \in list THEN named[c] ELSE {}]])
    /\ UNCHANGED <<now, rows, codes, qpay>> /\ NoFault

\* checkPayment: the settled payments, and whether one is in flight; or no answer to use.
Ask(w) ==
    LET j == job[w]
        c == CHOOSE d \in j.list : \A e \in j.list : d <= e
        settled == {p \in Payments : paid[p] = c /\ shown[p] = "settled"}
        inFlight == \E p \in Payments : paid[p] = c /\ shown[p] = "pending"
    IN /\ At(w, "ask")
       /\ \/ /\ Keep(w, [j EXCEPT !.list = @ \ {c}, !.answered = @ \cup {c},
                                  !.pending = IF inFlight THEN @ \cup {c} ELSE @,
                                  !.found = @ \cup settled, !.todo = @ \cup settled])
             /\ NoFault
          \/ Keep(w, [j EXCEPT !.list = @ \ {c}]) /\ Fault
       /\ Goto(w, IF j.list = {c} THEN "prior" ELSE "ask")
       /\ UNCHANGED <<now, rows, codes, qpay>>

\* Every id QPay named for the invoice, now or before.
Reported(w) == job[w].ever \cup job[w].found
\* The read before the records: money a hand entry may hold under another id stops the run.
Prior(w) ==
    LET known == {r.key : r \in rows}
        byHand == {r \in rows : r.hand /\ r.key \notin Reported(w)}
        fresh == job[w].todo \ known
    IN /\ At(w, "prior")
       /\ IF byHand # {} /\ fresh # {} THEN End(w)
          ELSE Goto(w, IF job[w].todo = {} THEN "mark" ELSE "record") /\ UNCHANGED job
       /\ UNCHANGED <<now, rows, codes, qpay>> /\ NoFault

\* One payment; a refusal leaves the codes watched, and the founder is told.
Record(w) ==
    \E p \in job[w].todo :
        /\ At(w, "record")
        /\ \/ /\ RecordPayment(p, p, FALSE, FALSE, Reported(w))
              /\ Keep(w, [job[w] EXCEPT !.todo = @ \ {p}])
              /\ Goto(w, IF job[w].todo = {p} THEN "mark" ELSE "record")
           \/ /\ Conflicts(p, FALSE, FALSE, Reported(w)) # {}
              /\ End(w) /\ UNCHANGED rows
        /\ UNCHANGED <<now, codes, qpay>> /\ NoFault

\* Fault: a code is final as soon as it no longer takes money.
FinalAtExpiry(w, c) == c \notin job[w].pending /\ now >= Expires(c)
Final(w, c) == c \notin job[w].pending /\ now >= Expires(c) + Settle

\* The notes of the answered codes; each is a write of its own, some may fail, and the table refuses
\* one that would forget an id QPay named.
Mark(w) ==
    LET j == job[w]
        keys(c) == j.had[c] \cup {p \in j.found : paid[p] = c}
        valid == {c \in j.answered : named[c] \subseteq keys(c)}
    IN /\ At(w, "mark") /\ End(w)
       /\ \E noted \in SUBSET valid :
            /\ named' = [c \in Codes |-> IF c \in noted THEN keys(c) ELSE named[c]]
            /\ closed' = [c \in Codes |-> closed[c] \/ (c \in noted /\ Final(w, c))]
            /\ IF noted = valid THEN NoFault ELSE Fault
       /\ UNCHANGED <<now, rows, made, withdrawn, qpay>>

(***************************************************************************)
(* payPageState                                                            *)
(***************************************************************************)

\* The code on screen again if it has long enough left, else billing_pay_code_slot: may one be made?
MadeThisHour == {c \in Made : made[c] + Hour > now}
OnScreen == Newest # 0 /\ ~withdrawn[Newest] /\ ~closed[Newest] /\ now < Expires(Newest)
Page(w, renew) ==
    /\ At(w, "idle") /\ Status = "open" /\ Cardinality(MadeThisHour) < PerHour
    /\ OnScreen => renew
    /\ Goto(w, "add") /\ Keep(w, [NoJob EXCEPT !.renew = renew, !.latest = Newest])
    /\ UNCHANGED <<now, rows, codes, qpay>> /\ NoFault

\* createInvoice and billing_add_pay_code: a code is recorded before anybody sees it, or never shown.
\* Then the button withdraws, best effort, the code it replaced.
Add(w) ==
    /\ At(w, "add") /\ End(w)
    /\ \/ /\ Newest < MaxCodes /\ made' = [made EXCEPT ![Newest + 1] = now]
          /\ \/ UNCHANGED withdrawn
             \/ /\ job[w].renew /\ job[w].latest # 0
                /\ withdrawn' = [withdrawn EXCEPT ![job[w].latest] = @ \/ now < Expires(job[w].latest)]
       \/ UNCHANGED <<made, withdrawn>>
    /\ UNCHANGED <<now, rows, closed, named, qpay>> /\ NoFault

\* The platform stops a run where it stands.
Die(w) ==
    /\ ~At(w, "idle") /\ End(w) /\ Fault
    /\ UNCHANGED <<now, rows, codes, qpay>>

(***************************************************************************)
(* The client, QPay and the founder                                        *)
(***************************************************************************)

\* A code is paid while it lives.  What QPay says of it may come later, within the margin.
Pay(p, c) ==
    /\ paid[p] = 0 /\ c \in Made /\ now <= Expires(c) /\ ~withdrawn[c]
    /\ paid' = [paid EXCEPT ![p] = c] /\ shown' = [shown EXCEPT ![p] = "unseen"]
    /\ UNCHANGED <<now, rows, codes, pc, job>> /\ NoFault
Show(p, s) ==
    /\ <<shown[p], s>> \in {<<"unseen", "pending">>, <<"unseen", "settled">>, <<"pending", "settled">>}
    /\ shown' = [shown EXCEPT ![p] = s]
    /\ UNCHANGED <<now, rows, codes, paid, pc, job>> /\ NoFault

\* settle.ts qpay: a person enters a payment they see at QPay once, perhaps under a wrong id, and
\* calls it a second payment only under its own id.
ByHand(p, key, second) ==
    /\ shown[p] \in {"pending", "settled"} /\ \A r \in rows : ~(r.hand /\ r.money = p)
    /\ key = p \/ (key \in Mistyped /\ ~second /\ \A r \in rows : r.key # key)
    /\ second => \A r \in rows : r.money # p
    /\ RecordPayment(key, p, TRUE, second, {})
    /\ UNCHANGED <<now, codes, qpay, pc, job>> /\ NoFault

\* What QPay took it shows within the margin.
Tick ==
    /\ now < MaxTime /\ \A w \in Workers : At(w, "idle")
    /\ \A p \in Payments : shown[p] = "unseen" => now + 1 < Expires(paid[p]) + Settle
    /\ now' = now + 1
    /\ UNCHANGED <<rows, codes, qpay, pc, job>> /\ NoFault

Step(w) == Ask(w) \/ Prior(w) \/ Record(w) \/ Mark(w) \/ Add(w)
Next ==
    \/ \E w \in Workers : Step(w) \/ Die(w) 
    \/ \E w \in Workers, list \in SUBSET Watched : Begin(w, list)
    \/ \E w \in Workers, renew \in BOOLEAN : Page(w, renew)
    \/ \E p \in Payments, c \in Codes : Pay(p, c)
    \/ \E p \in Payments, s \in {"pending", "settled"} : Show(p, s)
    \/ \E p \in Payments, key \in Payments \cup Mistyped, second \in BOOLEAN : ByHand(p, key, second)
    \/ Tick

Spec == Init /\ [][Next]_vars
\* The hourly run comes, a call returns, and QPay settles what it took.
FairSpec ==
    /\ Spec
    /\ \A w \in Workers : WF_vars(Step(w)) /\ SF_vars(Begin(w, Watched))
    /\ \A p \in Payments : WF_vars(Show(p, "settled"))

(***************************************************************************)
(* What the code promises                                                  *)
(***************************************************************************)

\* No money is counted twice, however a callback, the hourly run and a person's command meet, and
\* under whatever id the person typed it (0067).
CountedOnce == \A r, s \in rows : r.money = s.money => r = s

\* A payment made at QPay is recorded, or its code is still asked about.
MoneyIsWatched ==
    \A p \in Payments : paid[p] # 0 => (\E r \in rows : r.money = p) \/ ~closed[paid[p]]

\* A settled payment is recorded in the end, unless a hand entry QPay never named may hold it:
\* an entry under QPay's own id swallows no other payment.
Unnamed(r) == r.hand /\ r.key \notin UNION {named[c] : c \in Codes}
SettledIsRecorded ==
    \A p \in Payments :
        shown[p] = "settled" ~> (\E r \in rows : r.money = p) \/ (\E r \in rows : Unnamed(r))

\* However the link is opened, so many codes an hour and no more.
CapIsKept == Cardinality(MadeThisHour) <= PerHour
=============================================================================
