------------------------ MODULE BillingOutboxProofs ------------------------
(***************************************************************************)
(* Proofs about BillingOutbox for any number of runs, messages, pauses,    *)
(* requeues and failures.                                                  *)
(***************************************************************************)
EXTENDS BillingOutbox, TLAPS

Statuses == {"open", "paid", "mismatch", "void"}
PauseKinds == {"none", "invoice", "hand"}
BoxStates == {"none", "pending", "sending", "sent", "failed", "dead", "unknown", "cancelled"}

\* TypeOK in three parts: what everybody shares, what a run remembers, whose a claim is.
SharedInv ==
    /\ status \in Statuses /\ pause \in PauseKinds /\ ended \in BOOLEAN
    /\ box \in [Messages -> BoxStates]
    /\ left \in [Messages -> Nat] /\ again \in [Messages -> 0 .. MaxRequeues]
    /\ told \subseteq Messages
    /\ pauses \in 0 .. MaxPauses /\ faults \in 0 .. MaxFaults
RunInv ==
    /\ pc \in [Workers -> Places]
    /\ saw \in [Workers -> [status : Statuses, pause : PauseKinds]]
    /\ owed \in [Workers -> SUBSET Messages]
    /\ hold \in [Workers -> SUBSET Messages]
ClaimInv ==
    \A w \in Workers :
        /\ hold[w] # {} <=> pc[w] = "send"
        /\ owed[w] # {} <=> pc[w] = "report"
        /\ \A m \in hold[w] : box[m] = "sending" /\ \A v \in Workers \ {w} : m \notin hold[v]

\* What has not been handed to a send since it was last put in the box: no row that waits or is
\* known to have failed has gone out, and neither has one a run still holds.
Unsent(m) == box[m] \in {"none", "pending", "failed", "dead"} \/ \E w \in Workers : m \in hold[w]
SentInv == \A m \in Messages : left[m] <= 1 + again[m] /\ (Unsent(m) => left[m] <= again[m])

IInv == SharedInv /\ RunInv /\ ClaimInv /\ SentInv

LEMMA Bounds == MaxPauses \in Nat /\ MaxRequeues \in Nat /\ MaxFaults \in Nat
  BY OutboxAssumption

LEMMA Parts == TypeOK <=> SharedInv /\ RunInv /\ ClaimInv
  BY DEF TypeOK, SharedInv, RunInv, ClaimInv, Statuses, PauseKinds, BoxStates

LEMMA InitIInv == Init => IInv
<1> SUFFICES ASSUME Init PROVE IInv
  OBVIOUS
<1>1. SharedInv
  <2>1. ended \in BOOLEAN
    BY DEF Init
  <2>2. box \in [Messages -> BoxStates] /\ left \in [Messages -> Nat] /\ again \in [Messages -> 0 .. MaxRequeues]
    BY Bounds DEF Init, BoxStates
  <2> QED  BY <2>1, <2>2, Bounds DEF Init, SharedInv, Statuses, PauseKinds
<1>2. RunInv
  BY DEF Init, RunInv, Places, NotRead, Statuses, PauseKinds
<1>3. ClaimInv
  BY DEF Init, ClaimInv
<1>4. SentInv
  BY DEF Init, SentInv
<1> QED  BY <1>1, <1>2, <1>3, <1>4 DEF IInv

\* A step that leaves every row, send and claim alone, and enters neither the send nor the report.
LEMMA OutboxUntouched ==
    ASSUME IInv, NEW w \in Workers, NEW place \in Places \ {"send", "report"},
           pc' = [pc EXCEPT ![w] = place], pc[w] \notin {"send", "report"},
           SharedInv', saw' \in [Workers -> [status : Statuses, pause : PauseKinds]],
           UNCHANGED <<left, again, owed, hold>>,
           \A m \in Messages : Unsent(m)' => Unsent(m),
           \A m \in Messages : box[m] = "sending" => box'[m] = "sending"
    PROVE  IInv'
<1>1. RunInv'
  BY DEF IInv, RunInv
<1>2. ClaimInv'
  BY DEF IInv, RunInv, ClaimInv
<1>3. SentInv'
  BY DEF IInv, SentInv
<1> QED  BY <1>1, <1>2, <1>3 DEF IInv

LEMMA PlanningKeeps ==
    ASSUME IInv, NEW w \in Workers, Begin(w) \/ Pauses(w) \/ Plan(w) \/ Reread(w) \/ Withdraw(w) \/ Resume(w) \/ Tell(w)
    PROVE  IInv'
<1> USE Bounds
<1>1. CASE Begin(w)
  <2>1. SharedInv'
    BY <1>1 DEF IInv, SharedInv, Begin, NoFault, tables, outbox
  <2>2. saw' \in [Workers -> [status : Statuses, pause : PauseKinds]]
    BY <1>1 DEF IInv, SharedInv, RunInv, Begin
  <2> QED  BY <1>1, <2>1, <2>2, OutboxUntouched DEF Begin, At, Goto, Places, Unsent, outbox
<1>2. CASE Pauses(w)
  <2>1. SharedInv'
    BY <1>2 DEF IInv, SharedInv, Pauses, NoFault, tables, outbox
  <2>2. saw' \in [Workers -> [status : Statuses, pause : PauseKinds]]
    BY <1>2 DEF IInv, SharedInv, RunInv, Pauses
  <2> QED  BY <1>2, <2>1, <2>2, OutboxUntouched DEF Pauses, At, Goto, Places, Unsent, outbox
<1>3. CASE Plan(w)
  <2>1. \A m \in Messages : box'[m] = IF box[m] = "none" /\ box'[m] # "none" THEN "pending" ELSE box[m]
    BY <1>3 DEF Plan, Enqueue, IInv, SharedInv
  <2>2. box' \in [Messages -> BoxStates]
    BY <1>3 DEF Plan, Enqueue, IInv, SharedInv, BoxStates
  <2>3. faults' \in 0 .. MaxFaults
    BY <1>3 DEF Plan, Fault, NoFault, IInv, SharedInv
  <2>4. SharedInv'
    BY <1>3, <2>2, <2>3 DEF IInv, SharedInv, Plan, tables
  <2>5. saw' \in [Workers -> [status : Statuses, pause : PauseKinds]]
    BY <1>3 DEF IInv, RunInv, Plan, Forget, NotRead, Statuses, PauseKinds
  <2>6. PICK place \in Places \ {"send", "report"} : pc' = [pc EXCEPT ![w] = place]
    <3>1. CASE saw[w].status = "paid"
      BY <1>3, <3>1 DEF Plan, Goto, Places, Resumes
    <3>2. CASE saw[w].status # "paid"
      BY <1>3, <3>2 DEF Plan, Goto, Places
    <3> QED  BY <3>1, <3>2
  <2>7. pc[w] \notin {"send", "report"} /\ UNCHANGED <<left, again, owed, hold>>
    BY <1>3 DEF Plan, At
  <2> QED  BY <2>1, <2>4, <2>5, <2>6, <2>7, OutboxUntouched DEF Unsent
<1>4. CASE Reread(w)
  <2>1. SharedInv' /\ RunInv'
    BY <1>4 DEF IInv, SharedInv, RunInv, Reread, Goto, Places, NoFault, tables, outbox, Locals
  <2>2. PICK place \in Places \ {"send", "report"} : pc' = [pc EXCEPT ![w] = place]
    <3>1. pc' = [pc EXCEPT ![w] = "sweep"] \/ pc' = [pc EXCEPT ![w] = "withdraw"]
      BY <1>4 DEF Reread, Goto
    <3> QED  BY <3>1 DEF Places
  <2> QED  BY <1>4, <2>1, <2>2, OutboxUntouched DEF RunInv, Reread, At, Unsent, outbox, Locals
<1>5. CASE Withdraw(w)
  <2>1. "notice" \in Messages
    BY DEF Messages
  <2>2. SharedInv'
    <3>1. box' \in [Messages -> BoxStates]
      BY <1>5, <2>1 DEF IInv, SharedInv, Withdraw, BoxStates
    <3> QED  BY <1>5, <3>1 DEF IInv, SharedInv, Withdraw, NoFault, Fault, tables
  <2>3. \A m \in Messages : box'[m] = box[m] \/ (box[m] \in {"pending", "failed"} /\ box'[m] = "cancelled")
    BY <1>5, <2>1 DEF Withdraw, Waiting, IInv, SharedInv
  <2>4. saw' \in [Workers -> [status : Statuses, pause : PauseKinds]]
    BY <1>5 DEF IInv, RunInv, Withdraw, Locals
  <2> QED  BY <1>5, <2>2, <2>3, <2>4, OutboxUntouched DEF Withdraw, At, Goto, Places, Unsent, Locals
<1>6. CASE Resume(w)
  <2>1. SharedInv'
    <3>1. ended' \in BOOLEAN
      BY <1>6 DEF IInv, SharedInv, Resume
    <3>2. pause' \in PauseKinds
      BY <1>6 DEF IInv, SharedInv, Resume, PauseKinds
    <3>3. faults' \in 0 .. MaxFaults
      BY <1>6 DEF IInv, SharedInv, Resume, NoFault, Fault
    <3> QED  BY <1>6, <3>1, <3>2, <3>3 DEF IInv, SharedInv, Resume, outbox
  <2>2. saw' \in [Workers -> [status : Statuses, pause : PauseKinds]]
    BY <1>6 DEF IInv, RunInv, Resume, Locals
  <2> QED  BY <1>6, <2>1, <2>2, OutboxUntouched DEF Resume, At, Goto, Places, Unsent, Locals, outbox
<1>7. CASE Tell(w)
  <2>1. \A m \in Messages : box'[m] = IF box[m] = "none" /\ box'[m] # "none" THEN "pending" ELSE box[m]
    BY <1>7 DEF Tell, Enqueue, IInv, SharedInv
  <2>2. SharedInv'
    BY <1>7 DEF IInv, SharedInv, Tell, Enqueue, NoFault, Fault, tables, BoxStates
  <2>3. saw' \in [Workers -> [status : Statuses, pause : PauseKinds]]
    BY <1>7 DEF IInv, RunInv, Tell, Forget, NotRead, Statuses, PauseKinds
  <2> QED  BY <1>7, <2>1, <2>2, <2>3, OutboxUntouched DEF Tell, At, Goto, Places, Unsent
<1> QED  BY <1>1, <1>2, <1>3, <1>4, <1>5, <1>6, <1>7

LEMMA SweepKeeps ==
    ASSUME IInv, NEW w \in Workers, Sweep(w)
    PROVE  IInv'
<1> USE Bounds
<1> DEFINE stale == {m \in Messages : box[m] = "sending" /\ m \notin Held}
<1>1. \A m \in Messages : box'[m] = box[m] \/ (m \in stale /\ box'[m] = "unknown")
  BY DEF Sweep, Swept, IInv, SharedInv
<1>2. \A m \in stale : \A v \in Workers : m \notin hold[v]
  BY DEF Held
<1>3. SharedInv'
  BY DEF IInv, SharedInv, Sweep, Swept, NoFault, tables, BoxStates
<1>4. RunInv'
  BY DEF IInv, RunInv, Sweep, Goto, Places
<1>5. ClaimInv'
  <2>1. UNCHANGED hold /\ pc[w] = "sweep"
    BY DEF Sweep, At
  <2>2. \A v \in Workers : v # w => pc'[v] = pc[v] /\ owed'[v] = owed[v]
    BY DEF Sweep, Goto, IInv, RunInv
  <2>3. pc'[w] # "send" /\ (owed'[w] # {} <=> pc'[w] = "report")
    BY DEF Sweep, Goto, At, IInv, RunInv, ClaimInv
  <2> QED  BY <1>1, <1>2, <2>1, <2>2, <2>3 DEF IInv, RunInv, ClaimInv
<1>6. SentInv'
  BY <1>1 DEF IInv, SentInv, Unsent, Sweep
<1> QED  BY <1>3, <1>4, <1>5, <1>6 DEF IInv

LEMMA ReportKeeps ==
    ASSUME IInv, NEW w \in Workers, Report(w)
    PROVE  IInv'
<1> USE Bounds
<1>1. SharedInv'
  BY DEF IInv, SharedInv, RunInv, Report, NoFault, Fault, tables, outbox
<1>2. RunInv'
  BY DEF IInv, RunInv, Report, Goto, Places
<1>3. ClaimInv'
  BY DEF IInv, RunInv, ClaimInv, Report, Goto, At, outbox
<1>4. SentInv'
  BY DEF IInv, SentInv, Unsent, Report, outbox
<1> QED  BY <1>1, <1>2, <1>3, <1>4 DEF IInv

\* A claim takes rows that wait, and cancels others that wait.
LEMMA ClaimKeeps ==
    ASSUME IInv, NEW w \in Workers, Claim(w)
    PROVE  IInv'
<1> USE Bounds
<1>1. PICK claimed \in SUBSET ({m \in Messages : Waiting(m)} \ Stale) :
        /\ box' = [m \in Messages |-> IF m \in Stale THEN "cancelled"
                                      ELSE IF m \in claimed THEN "sending" ELSE box[m]]
        /\ hold' = [hold EXCEPT ![w] = claimed]
        /\ pc' = [pc EXCEPT ![w] = IF claimed = {} THEN "idle" ELSE "send"]
  BY DEF Claim, Goto
<1>2. \A m \in Stale \cup claimed : box[m] \in {"pending", "failed"} /\ \A v \in Workers : m \notin hold[v]
  BY DEF Stale, Waiting, IInv, ClaimInv
<1>3. pc[w] = "claim" /\ hold[w] = {} /\ owed[w] = {} /\ UNCHANGED <<tables, left, again, told, saw, owed, pauses, faults>>
  BY DEF Claim, At, NoFault, IInv, ClaimInv
<1>4. SharedInv'
  BY <1>1, <1>3 DEF IInv, SharedInv, tables, BoxStates
<1>5. RunInv'
  BY <1>1, <1>3 DEF IInv, RunInv, Places
<1>6. ClaimInv'
  <2>1. \A v \in Workers : v # w => hold'[v] = hold[v] /\ pc'[v] = pc[v]
    BY <1>1 DEF IInv, RunInv
  <2>2. hold'[w] = claimed /\ pc'[w] = IF claimed = {} THEN "idle" ELSE "send"
    BY <1>1 DEF IInv, RunInv
  <2>3. \A m \in claimed : m \in Messages /\ box'[m] = "sending"
    BY <1>1
  <2>4. \A v \in Workers : \A m \in hold[v] : m \in Messages /\ box[m] = "sending" /\ box'[m] = box[m]
    BY <1>1, <1>2 DEF IInv, RunInv, ClaimInv
  <2> QED  BY <1>2, <1>3, <2>1, <2>2, <2>3, <2>4 DEF IInv, ClaimInv
<1>7. SentInv'
  <2>1. \A m \in Messages : Unsent(m)' => Unsent(m)
    BY <1>1, <1>2, <1>3 DEF Unsent, IInv, RunInv
  <2> QED  BY <1>3, <2>1 DEF IInv, SentInv
<1> QED  BY <1>4, <1>5, <1>6, <1>7 DEF IInv

\* A send uses a claim up: whatever became of it, no run holds the row any more.
LEMMA SendKeeps ==
    ASSUME IInv, NEW w \in Workers, Send(w)
    PROVE  IInv'
<1> USE Bounds
<1>1. PICK m \in hold[w] :
        /\ pc[w] = "send"
        /\ \/ left' = [left EXCEPT ![m] = @ + 1] /\ box' = [box EXCEPT ![m] = "sent"] /\ UNCHANGED told /\ NoFault
           \/ left' \in {left, [left EXCEPT ![m] = @ + 1]} /\ UNCHANGED <<box, told>> /\ Fault
           \/ UNCHANGED <<left, told>> /\ box' = [box EXCEPT ![m] = "failed"] /\ Fault
           \/ UNCHANGED left /\ box' = [box EXCEPT ![m] = "dead"] /\ told' \in {told, told \cup {m}} /\ Fault
        /\ hold' = [hold EXCEPT ![w] = @ \ {m}]
        /\ pc' = [pc EXCEPT ![w] = IF hold[w] = {m} THEN "claim" ELSE "send"]
        /\ UNCHANGED <<tables, again, saw, owed, pauses>>
  BY DEF Send, At, Goto, AfterSend
<1>2. m \in Messages /\ box[m] = "sending" /\ (\A v \in Workers \ {w} : m \notin hold[v]) /\ owed[w] = {}
  BY <1>1 DEF IInv, RunInv, ClaimInv
<1>3. SharedInv'
  BY <1>1, <1>2 DEF IInv, SharedInv, NoFault, Fault, tables, BoxStates
<1>4. RunInv'
  BY <1>1 DEF IInv, RunInv, Places
<1>5. \A n \in Messages \ {m} : left'[n] = left[n] /\ box'[n] = box[n]
  BY <1>1 DEF IInv, SharedInv
<1>6. hold'[w] = hold[w] \ {m} /\ \A v \in Workers \ {w} : hold'[v] = hold[v] /\ pc'[v] = pc[v]
  BY <1>1 DEF IInv, RunInv
<1>7. ClaimInv'
  <2>1. pc'[w] = IF hold[w] = {m} THEN "claim" ELSE "send"
    BY <1>1 DEF IInv, RunInv
  <2>2. hold'[w] # {} <=> pc'[w] = "send"
    BY <1>1, <1>6, <2>1
  <2>3. \A v \in Workers : hold'[v] \subseteq Messages \ {m} /\ hold'[v] \subseteq hold[v]
    BY <1>2, <1>6 DEF IInv, RunInv
  <2> QED  BY <1>1, <1>2, <1>5, <1>6, <2>1, <2>2, <2>3 DEF IInv, ClaimInv
<1>8. SentInv'
  <2>1. \A v \in Workers : m \notin hold'[v]
    BY <1>2, <1>6
  <2>2. left[m] <= again[m] /\ left[m] \in Nat /\ again[m] \in Nat
    BY <1>1, <1>2 DEF IInv, SentInv, Unsent, SharedInv
  <2>3. left'[m] <= 1 + again'[m] /\ (Unsent(m)' => left'[m] <= again'[m])
    BY <1>1, <1>2, <2>1, <2>2 DEF Unsent, IInv, SharedInv
  <2>4. \A n \in Messages \ {m} : Unsent(n)' => Unsent(n)
    BY <1>5, <1>6 DEF Unsent
  <2>5. again' = again
    BY <1>1
  <2> QED  BY <1>5, <2>3, <2>4, <2>5 DEF IInv, SentInv
<1> QED  BY <1>3, <1>4, <1>7, <1>8 DEF IInv

LEMMA DieKeeps ==
    ASSUME IInv, NEW w \in Workers, Die(w)
    PROVE  IInv'
<1> USE Bounds
<1>1. SharedInv'
  BY DEF IInv, SharedInv, Die, Fault, tables, outbox
<1>2. RunInv'
  BY DEF IInv, RunInv, Die, Goto, Places, Forget, NotRead, Statuses, PauseKinds
<1>3. hold'[w] = {} /\ owed'[w] = {} /\ pc'[w] = "idle"
      /\ \A v \in Workers \ {w} : hold'[v] = hold[v] /\ owed'[v] = owed[v] /\ pc'[v] = pc[v]
  BY DEF Die, Goto, IInv, RunInv
<1>4. UNCHANGED <<box, left, again>>
  BY DEF Die, outbox
<1>5. ClaimInv'
  BY <1>3, <1>4 DEF IInv, ClaimInv
<1>6. SentInv'
  BY <1>3, <1>4 DEF IInv, SentInv, Unsent
<1> QED  BY <1>1, <1>2, <1>5, <1>6 DEF IInv

\* The client and the founder; only a requeue touches the box, and it counts.
LEMMA PeopleKeep ==
    ASSUME IInv,
           \/ \E s \in {"paid", "mismatch", "void"} : Pay(s)
           \/ \E p \in {"invoice", "hand"} : PauseOver(p)
           \/ ResumeByHand
           \/ \E m \in Messages : Requeue(m)
    PROVE  IInv'
<1> USE Bounds
<1>1. UNCHANGED <<pc, saw, owed, hold>>
  BY DEF Pay, PauseOver, ResumeByHand, Requeue, Locals
<1>2. RunInv'
  BY <1>1 DEF IInv, RunInv
<1>3. CASE UNCHANGED <<box, left, again>>
  <2>1. SharedInv'
    BY <1>3 DEF IInv, SharedInv, Pay, PauseOver, ResumeByHand, Requeue, NoFault, tables, outbox, Statuses, PauseKinds, BoxStates
  <2>2. ClaimInv' /\ SentInv'
    BY <1>1, <1>3 DEF IInv, ClaimInv, SentInv, Unsent
  <2> QED  BY <1>2, <2>1, <2>2 DEF IInv
<1>4. ASSUME NEW m \in Messages, Requeue(m)
      PROVE  IInv'
  <2>1. /\ box[m] \in {"failed", "dead", "unknown"} /\ again[m] < MaxRequeues
        /\ box' = [box EXCEPT ![m] = "pending"] /\ again' = [again EXCEPT ![m] = @ + 1]
        /\ UNCHANGED <<status, pause, ended, left, told, pauses, faults>>
    BY <1>4 DEF Requeue, NoFault, tables
  <2>2. again[m] \in Nat /\ again[m] + 1 \in 0 .. MaxRequeues
    BY <2>1 DEF IInv, SharedInv
  <2>3. SharedInv'
    BY <2>1, <2>2 DEF IInv, SharedInv, BoxStates
  <2>4. \A v \in Workers : m \notin hold[v]
    BY <2>1 DEF IInv, ClaimInv
  <2>5. \A n \in Messages \ {m} : box'[n] = box[n] /\ again'[n] = again[n]
    BY <2>1 DEF IInv, SharedInv
  <2>6. ClaimInv'
    <3>1. \A v \in Workers : \A n \in hold[v] : n \in Messages /\ box'[n] = box[n]
      BY <2>4, <2>5 DEF IInv, RunInv
    <3> QED  BY <1>1, <3>1 DEF IInv, ClaimInv
  <2>7. SentInv'
    <3>1. left'[m] <= again'[m] /\ left[m] \in Nat
      BY <2>1, <2>2 DEF IInv, SentInv, SharedInv
    <3>2. again'[m] <= 1 + again'[m] /\ left'[m] <= 1 + again'[m]
      BY <2>1, <2>2, <3>1 DEF IInv, SharedInv
    <3>3. \A n \in Messages \ {m} : Unsent(n)' => Unsent(n)
      BY <1>1, <2>5 DEF Unsent
    <3> QED  BY <2>1, <2>5, <3>1, <3>2, <3>3 DEF IInv, SentInv
  <2> QED  BY <1>2, <2>3, <2>6, <2>7 DEF IInv
<1>5. UNCHANGED <<box, left, again>> \/ \E m \in Messages : Requeue(m)
  BY DEF Pay, PauseOver, ResumeByHand, outbox
<1> QED  BY <1>3, <1>4, <1>5

LEMMA NextKeepsIInv == IInv /\ [Next]_vars => IInv'
<1> SUFFICES ASSUME IInv, [Next]_vars PROVE IInv'
  OBVIOUS
<1>1. CASE UNCHANGED vars
  BY <1>1 DEF vars, tables, outbox, IInv, SharedInv, RunInv, ClaimInv, SentInv, Unsent
<1>2. ASSUME NEW w \in Workers, Begin(w) \/ Step(w) \/ Die(w)
      PROVE  IInv'
  BY <1>2, PlanningKeeps, SweepKeeps, ReportKeeps, ClaimKeeps, SendKeeps, DieKeeps DEF Step
<1> QED  BY <1>1, <1>2, PeopleKeep DEF Next

LEMMA Invariance == Spec => []IInv
<1>1. Init => IInv
  BY InitIInv
<1>2. IInv /\ [Next]_vars => IInv'
  BY NextKeepsIInv
<1> QED  BY <1>1, <1>2, PTL DEF Spec

\* Every variable keeps its type, a claimed row is one run's, and that run is sending it.
THEOREM TypeCorrect == Spec => []TypeOK
<1>1. IInv => TypeOK
  BY Parts DEF IInv
<1> QED  BY <1>1, Invariance, PTL

\* However many runs overlap, fail, die and are swept, a message goes out once, and once more for
\* each time a person asked (billing_claim_deliveries, billing_finish_delivery, billing_sweep_unfinished).
THEOREM SentOnce == Spec => []NeverAgainByItself
<1>1. IInv => NeverAgainByItself
  BY DEF IInv, SentInv, Unsent, NeverAgainByItself
<1> QED  BY <1>1, Invariance, PTL

\* Only a claim puts a row into a run's hands.
LEMMA OnlyAClaimTakes ==
    ASSUME IInv, NEW m \in Messages, box[m] # "sending", box'[m] = "sending", [Next]_vars
    PROVE  \E w \in Workers : Claim(w)
<1>1. ~UNCHANGED box
  OBVIOUS
<1>2. \A w \in Workers : ~(Plan(w) \/ Tell(w))
  BY DEF Plan, Tell, Enqueue
<1>3. \A w \in Workers : ~Withdraw(w)
  BY DEF Withdraw, IInv, SharedInv
<1>4. \A w \in Workers : ~Sweep(w)
  BY DEF Sweep, Swept
<1>5. \A w \in Workers : ~Send(w)
  BY DEF Send, IInv, SharedInv
<1>6. \A n \in Messages : ~Requeue(n)
  BY DEF Requeue, IInv, SharedInv
<1>7. \A w \in Workers : ~(Begin(w) \/ Pauses(w) \/ Reread(w) \/ Resume(w) \/ Report(w) \/ Die(w))
  BY <1>1 DEF Begin, Pauses, Reread, Resume, Report, Die, outbox
<1>8. \A s : ~Pay(s) /\ ~PauseOver(s)
  BY <1>1 DEF Pay, PauseOver, outbox
<1>9. ~ResumeByHand /\ ~UNCHANGED vars
  BY <1>1 DEF ResumeByHand, vars, outbox
<1> QED  BY <1>2, <1>3, <1>4, <1>5, <1>6, <1>7, <1>8, <1>9 DEF Next, Step

\* The claim asks for the invoice itself, so no plan made before the payment sends a reminder after it.
THEOREM PaidIsNotReminded == Spec => NobodyRemindedAfterPaying
<1>1. ASSUME IInv, [Next]_vars
      PROVE  [\A m \in OnlyWhileUnpaid : box[m] # "sending" /\ box'[m] = "sending" => status = "open"]_vars
  <2> SUFFICES ASSUME NEW m \in OnlyWhileUnpaid, box[m] # "sending", box'[m] = "sending"
               PROVE  status = "open"
    OBVIOUS
  <2>1. m \in Messages
    BY DEF OnlyWhileUnpaid, Messages
  <2>2. PICK w \in Workers : Claim(w)
    BY <1>1, <2>1, OnlyAClaimTakes
  <2>3. m \notin Stale /\ Waiting(m)
    BY <2>1, <2>2 DEF Claim
  <2> QED  BY <2>3 DEF Stale
<1> QED  BY <1>1, Invariance, PTL DEF Spec, NobodyRemindedAfterPaying
=============================================================================
