------------------------ MODULE BookingSettleProofs ------------------------
(***************************************************************************)
(* Proofs about BookingStore and BookingSettle, for any holds, chats,      *)
(* customers, payments and overlap of times, and any workers, failures and *)
(* moves.  First what the store's transactions keep of themselves; then    *)
(* that the calls only ever do what the store allows, so that what it      *)
(* promises they keep; and what they add: that "booked" is said of booked  *)
(* holds only, that no booking stands unpaid, and that a deposit paid in   *)
(* time has its event in the calendar once its row says booked.            *)
(***************************************************************************)
EXTENDS BookingSettle, TLAPS

(***************************************************************************)
(* The store's transactions (BookingStore)                                 *)
(***************************************************************************)

\* A row that exists has its time and its chat; evidence names an existing row.
RowInv ==
    /\ \A h \in Holds : state[h] # "none" => slot[h] \in Slots /\ session[h] \in Sessions
    /\ \A p \in Payments : payDisp[p] # "none" => payHold[p] \in Holds /\ state[payHold[p]] # "none"

IInv == StoreTypeOK /\ RowInv /\ OneHoldPerTime /\ OneHeldPerCustomer /\ OnePaymentPays /\ MoneyDecides

LEMMA InitIInv == StoreInit => IInv
  BY StoreAssumption
  DEF StoreInit, IInv, StoreTypeOK, RowInv, OneHoldPerTime, OneHeldPerCustomer, OnePaymentPays,
      MoneyDecides, HasPayment, HoldStates, Dispositions, Active, Funded, Pays

\* A step that leaves the rows' states, times, chats and evidence alone keeps everything but types.
LEMMA RowsUntouched ==
    ASSUME IInv, UNCHANGED <<state, slot, session, payHold, payDisp>>, StoreTypeOK'
    PROVE  IInv'
  BY DEF IInv, RowInv, OneHoldPerTime, OneHeldPerCustomer, OnePaymentPays, MoneyDecides, HasPayment

\* A hold that leaves held or paid without a payment of its own: what it held comes free.
LEMMA GivesWay ==
    ASSUME IInv, NEW h \in Holds, NEW next \in HoldStates, state[h] # "none", next # "none",
           next \in Active => state[h] \in Active /\ (next = "held" => state[h] = "held"),
           next \in Funded <=> state[h] \in Funded,
           state' = [state EXCEPT ![h] = next],
           UNCHANGED <<slot, session, payHold, payDisp>>, StoreTypeOK'
    PROVE  IInv'
<1>1. RowInv'  BY DEF IInv, StoreTypeOK, RowInv
<1>2. OneHoldPerTime'  BY DEF IInv, StoreTypeOK, OneHoldPerTime
<1>3. OneHeldPerCustomer'  BY DEF IInv, StoreTypeOK, OneHeldPerCustomer, Active
<1>4. OnePaymentPays'  BY DEF IInv, OnePaymentPays
<1>5. MoneyDecides'  BY DEF IInv, StoreTypeOK, MoneyDecides, HasPayment
<1> QED  BY <1>1, <1>2, <1>3, <1>4, <1>5 DEF IInv

\* A hold that becomes active on a time nobody else has shares it with nobody.
LEMMA TakesFreeTime ==
    ASSUME IInv, NEW h \in Holds, NEW s \in Slots, NEW next, ~Clash(h, s),
           state' = [state EXCEPT ![h] = next], slot' = [slot EXCEPT ![h] = s]
    PROVE  OneHoldPerTime'
<1> SUFFICES ASSUME NEW f \in Holds, NEW g \in Holds, f # g, state'[f] \in Active, state'[g] \in Active,
                    <<slot'[f], slot'[g]>> \in Overlap
             PROVE  FALSE
  BY DEF OneHoldPerTime
<1>1. <<slot'[g], slot'[f]>> \in Overlap
  BY StoreAssumption
<1>2. \A e \in Holds \ {h} : state'[e] = state[e] /\ slot'[e] = slot[e]
  BY DEF IInv, StoreTypeOK
<1>3. slot'[h] = s
  BY DEF IInv, StoreTypeOK
<1>4. CASE f = h
  BY <1>1, <1>2, <1>3, <1>4 DEF Clash
<1>5. CASE g = h
  BY <1>2, <1>3, <1>5 DEF Clash
<1>6. CASE f # h /\ g # h
  BY <1>2, <1>6 DEF IInv, OneHoldPerTime
<1> QED  BY <1>4, <1>5, <1>6

LEMMA AcquireKeeps ==
    ASSUME IInv, NEW h \in Holds, NEW se \in Sessions, NEW s \in Slots, Acquire(h, se, s)
    PROVE  IInv'
<1> USE StoreAssumption DEF Acquire
<1>1. ~CustomerHolds(se) /\ ~Clash(h, s)  BY DEF AcquireOutcome
<1>2. StoreTypeOK'
  BY DEF IInv, StoreTypeOK, HoldStates, paymentVars, clockVars
<1>3. RowInv'
  BY DEF IInv, StoreTypeOK, RowInv, paymentVars
<1>4. OneHoldPerTime'
  BY <1>1, TakesFreeTime DEF paymentVars
<1>5. OneHeldPerCustomer'
  BY <1>1 DEF IInv, StoreTypeOK, OneHeldPerCustomer, CustomerHolds
<1>6. OnePaymentPays'
  BY DEF IInv, OnePaymentPays, paymentVars
<1>7. MoneyDecides'
  BY DEF IInv, StoreTypeOK, RowInv, MoneyDecides, HasPayment, Funded, paymentVars
<1> QED  BY <1>2, <1>3, <1>4, <1>5, <1>6, <1>7 DEF IInv

LEMMA EndHoldKeeps ==
    ASSUME IInv, NEW h \in Holds, NEW kind \in {"expired", "released"}, EndHold(h, kind)
    PROVE  IInv'
<1>1. state[h] = "held"  BY DEF EndHold, EndOutcome
<1>2. StoreTypeOK'
  BY DEF EndHold, IInv, StoreTypeOK, HoldStates, paymentVars, clockVars
<1> QED  BY <1>1, <1>2, GivesWay DEF EndHold, paymentVars, HoldStates, Active, Funded

LEMMA RecordPaymentKeeps ==
    ASSUME IInv, NEW h \in Holds, NEW p \in Payments, NEW short \in BOOLEAN, RecordPayment(h, p, short)
    PROVE  IInv'
<1> DEFINE disp == Disposition(h, short)
<1>1. /\ state[h] # "none" /\ payDisp[p] = "none"
      /\ payHold' = [payHold EXCEPT ![p] = h]
      /\ payDisp' = [payDisp EXCEPT ![p] = disp]
      /\ state' = [state EXCEPT ![h] = StateAfter(h, disp)]
      /\ offerOver' \subseteq Holds
      /\ UNCHANGED <<slot, session, calHeld, closed, due, begun>>
  BY DEF RecordPayment, IInv, StoreTypeOK
<1>2. disp \in Dispositions \ {"none"} /\ StateAfter(h, disp) \in HoldStates \ {"none"}
  BY <1>1 DEF Disposition, StateAfter, Dispositions, HoldStates, IInv, StoreTypeOK
<1>3. disp \in Pays => ~HasPayment(h) /\ state[h] \notin Funded /\ StateAfter(h, disp) \in Funded
  BY DEF Disposition, Pays, StateAfter, Funded
<1>4. disp \notin Pays => StateAfter(h, disp) = state[h]
  BY DEF StateAfter, Pays
<1>5. /\ StateAfter(h, disp) = "held" => state[h] = "held"
      /\ StateAfter(h, disp) \in Active => state[h] \in Active \/ ~Clash(h, slot[h])
  BY DEF StateAfter, Disposition, Active
<1> HIDE DEF disp
<1>6. StoreTypeOK'
  BY <1>1, <1>2 DEF IInv, StoreTypeOK
<1>7. RowInv'
  BY <1>1, <1>2 DEF IInv, StoreTypeOK, RowInv
<1>8. OneHoldPerTime'
  <2> SUFFICES ASSUME NEW f \in Holds, NEW g \in Holds, f # g, state'[f] \in Active, state'[g] \in Active,
                      <<slot[f], slot[g]>> \in Overlap
               PROVE  FALSE
    BY <1>1 DEF OneHoldPerTime
  <2>1. <<slot[g], slot[f]>> \in Overlap
    BY StoreAssumption
  <2>2. CASE f = h
    BY <1>1, <1>5, <2>1, <2>2 DEF Clash, IInv, OneHoldPerTime, StoreTypeOK
  <2>3. CASE g = h
    BY <1>1, <1>5, <2>3 DEF Clash, IInv, OneHoldPerTime, StoreTypeOK
  <2>4. CASE f # h /\ g # h
    BY <1>1, <2>4 DEF IInv, OneHoldPerTime, StoreTypeOK
  <2> QED  BY <2>2, <2>3, <2>4
<1>9. OneHeldPerCustomer'
  BY <1>1, <1>5 DEF IInv, StoreTypeOK, OneHeldPerCustomer
<1>10. OnePaymentPays'
  BY <1>1, <1>3 DEF IInv, StoreTypeOK, OnePaymentPays, HasPayment
<1>11. MoneyDecides'
  <2> SUFFICES ASSUME NEW g \in Holds PROVE state'[g] \in Funded <=> HasPayment(g)'
    BY DEF MoneyDecides
  <2>1. CASE g = h /\ disp \in Pays
    BY <1>1, <1>3, <2>1 DEF IInv, StoreTypeOK, HasPayment
  <2>2. CASE g = h /\ disp \notin Pays
    <3>1. HasPayment(g)' <=> HasPayment(g)
      BY <1>1, <2>2 DEF IInv, StoreTypeOK, HasPayment, Pays
    <3> QED  BY <1>1, <1>4, <2>2, <3>1 DEF IInv, StoreTypeOK, MoneyDecides
  <2>3. CASE g # h
    <3>1. HasPayment(g)' <=> HasPayment(g)
      BY <1>1, <2>3 DEF IInv, StoreTypeOK, HasPayment, Pays
    <3> QED  BY <1>1, <2>3, <3>1 DEF IInv, StoreTypeOK, MoneyDecides
  <2> QED  BY <2>1, <2>2, <2>3
<1> QED  BY <1>6, <1>7, <1>8, <1>9, <1>10, <1>11 DEF IInv

LEMMA MarkBookedKeeps ==
    ASSUME IInv, NEW h \in Holds, MarkBooked(h)
    PROVE  IInv'
<1>1. StoreTypeOK'
  BY DEF MarkBooked, IInv, StoreTypeOK, HoldStates, paymentVars, clockVars
<1> QED  BY <1>1, GivesWay DEF MarkBooked, paymentVars, HoldStates, Active, Funded

LEMMA MarkUnbookedKeeps ==
    ASSUME IInv, NEW h \in Holds, MarkUnbooked(h)
    PROVE  IInv'
<1>1. StoreTypeOK'
  BY DEF MarkUnbooked, IInv, StoreTypeOK, HoldStates, paymentVars
<1> QED  BY <1>1, GivesWay DEF MarkUnbooked, paymentVars, HoldStates, Active, Funded

LEMMA RebookKeeps ==
    ASSUME IInv, NEW h \in Holds, NEW s \in Slots, Rebook(h, s)
    PROVE  IInv'
<1> USE StoreAssumption DEF Rebook
<1>1. state[h] = "paid_unbooked" /\ ~Clash(h, s)  BY DEF RebookOutcome
<1>2. StoreTypeOK'
  BY DEF IInv, StoreTypeOK, HoldStates, paymentVars, clockVars
<1>3. RowInv'
  BY <1>1 DEF IInv, StoreTypeOK, RowInv, paymentVars
<1>4. OneHoldPerTime'
  BY <1>1, TakesFreeTime DEF paymentVars
<1>5. OneHeldPerCustomer'
  BY DEF IInv, StoreTypeOK, OneHeldPerCustomer
<1>6. OnePaymentPays'
  BY DEF IInv, OnePaymentPays, paymentVars
<1>7. MoneyDecides'
  BY <1>1 DEF IInv, StoreTypeOK, MoneyDecides, HasPayment, Funded, paymentVars
<1> QED  BY <1>2, <1>3, <1>4, <1>5, <1>6, <1>7 DEF IInv

LEMMA NextIInv == IInv /\ [StoreNext]_storeVars => IInv'
<1> SUFFICES ASSUME IInv, [StoreNext]_storeVars PROVE IInv'
  OBVIOUS
<1>1. ASSUME NEW h \in Holds, ExtendHold(h) PROVE IInv'
  BY <1>1, RowsUntouched DEF ExtendHold, IInv, StoreTypeOK, holdVars, paymentVars
<1>2. ASSUME NEW h \in Holds, NEW there \in BOOLEAN, SetCalendarState(h, there) PROVE IInv'
  BY <1>2, RowsUntouched DEF SetCalendarState, IInv, StoreTypeOK, paymentVars, clockVars
<1>3. ASSUME NEW se \in Sessions, CloseSession(se) PROVE IInv'
  BY <1>3, RowsUntouched DEF CloseSession, IInv, StoreTypeOK, holdVars, paymentVars, clockVars
<1>4. ASSUME NEW h \in Holds, HoldDue(h) PROVE IInv'
  BY <1>4, RowsUntouched DEF HoldDue, IInv, StoreTypeOK, holdVars, paymentVars
<1>5. ASSUME NEW s \in Slots, SlotBegins(s) PROVE IInv'
  BY <1>5, RowsUntouched DEF SlotBegins, IInv, StoreTypeOK, holdVars, paymentVars
<1>6. ASSUME NEW h \in Holds, OfferEnds(h) PROVE IInv'
  BY <1>6, RowsUntouched DEF OfferEnds, IInv, StoreTypeOK, holdVars, paymentVars
<1>7. CASE UNCHANGED storeVars
  BY <1>7, RowsUntouched DEF storeVars, holdVars, paymentVars, clockVars, IInv, StoreTypeOK
<1> QED
  BY <1>1, <1>2, <1>3, <1>4, <1>5, <1>6, <1>7, AcquireKeeps, EndHoldKeeps, RecordPaymentKeeps,
     MarkBookedKeeps, MarkUnbookedKeeps, RebookKeeps DEF StoreNext

\* The invariant below every theorem of this module.
THEOREM Invariant == StoreSpec => []IInv
  BY InitIInv, NextIInv, PTL DEF StoreSpec

\* The booking tables stay of their types under any calls.
THEOREM TypeCorrect == StoreSpec => []StoreTypeOK
<1>1. IInv => StoreTypeOK  BY DEF IInv
<1> QED  BY <1>1, Invariant, PTL

\* However acquires, late payments and moves interleave, no two active holds share time on one
\* calendar.
THEOREM NeverHeldTwice == StoreSpec => []OneHoldPerTime
<1>1. IInv => OneHoldPerTime  BY DEF IInv
<1> QED  BY <1>1, Invariant, PTL

\* A customer never has two times waiting for a deposit.
THEOREM OneTimePerCustomer == StoreSpec => []OneHeldPerCustomer
<1>1. IInv => OneHeldPerCustomer  BY DEF IInv
<1> QED  BY <1>1, Invariant, PTL

\* One payment is the deposit, whatever QPay reports and however often it is recorded.
THEOREM PaidOnce == StoreSpec => []OnePaymentPays
<1>1. IInv => OnePaymentPays  BY DEF IInv
<1> QED  BY <1>1, Invariant, PTL

\* A hold is booked, or kept from every timer, exactly when a payment paid it.
THEOREM NothingOnNoMoney == StoreSpec => []MoneyDecides
<1>1. IInv => MoneyDecides  BY DEF IInv
<1> QED  BY <1>1, Invariant, PTL

(***************************************************************************)
(* The calls (BookingSettle)                                               *)
(***************************************************************************)

\* What QPay named is payments: all the transactions need to know of the calls.
NamedOK == made \subseteq Payments /\ todo \in [Workers -> SUBSET Payments]

LEMMA InitNamed == Init => NamedOK
  BY DEF Init, NamedOK

LEMMA NextNamed == NamedOK /\ [Next]_vars => NamedOK'
<1> SUFFICES ASSUME NamedOK, [Next]_vars PROVE NamedOK'
  OBVIOUS
<1> USE DEF NamedOK, worldVars, workVars, memory, Goto, Done, Enter
<1>1. ASSUME NEW w \in Workers, NEW s \in Slots, TurnHolds(w, s) \/ Tap(w, s) PROVE NamedOK'
  BY <1>1 DEF TurnHolds, Tap
<1>2. ASSUME NEW w \in Workers, TurnAgain(w) \/ CallSettle(w) \/ Poll(w) \/ CallRelease(w) PROVE NamedOK'
  BY <1>2 DEF TurnAgain, CallSettle, Poll, CallRelease
<1>3. ASSUME NEW w \in Workers, TapClears(w) \/ TapLate(w) PROVE NamedOK'
  BY <1>3 DEF TapClears, TapLate
<1>4. CASE Sweep
  BY <1>4 DEF Sweep
<1>5. ASSUME NEW w \in Workers, Step(w) PROVE NamedOK'
  <2>1. CASE InsertEvent(w) \/ GiveUp(w) \/ RowShowsEvent(w) \/ SecondLook(w) \/ MakeCode(w)
    BY <2>1 DEF InsertEvent, GiveUp, RowShowsEvent, SecondLook, MakeCode
  <2>2. CASE Ask(w) \/ Record(w) \/ PageMoney(w) \/ Reread(w)
    BY <2>2 DEF Ask, Record, PageMoney, Reread
  <2>3. CASE Look(w) \/ Unbook(w) \/ Write(w) \/ MarkB(w)
    BY <2>3 DEF Look, Unbook, Write, MarkB
  <2>4. CASE End(w) \/ Cancel(w) \/ Remove(w)
    BY <2>4 DEF End, Cancel, AfterCancel, Remove, AfterRemove
  <2>5. CASE Tell(w) \/ Offer(w) \/ Page(w) \/ Say(w) \/ Send(w) \/ Told(w) \/ Untold(w)
    BY <2>5 DEF Tell, Offer, Page, Say, Send, Told, Untold, Finish
  <2> QED  BY <1>5, <2>1, <2>2, <2>3, <2>4, <2>5 DEF Step
<1>6. ASSUME NEW w \in Workers, Die(w) PROVE NamedOK'
  BY <1>6 DEF Die
<1>7. ASSUME NEW p \in Payments, Pay(p) PROVE NamedOK'
  BY <1>7 DEF Pay
<1>8. ASSUME NEW s \in Slots, PersonBooks(s) PROVE NamedOK'
  BY <1>8 DEF PersonBooks
<1>9. CASE Rivals \/ CodeAges \/ HoldRunsOut \/ Time \/ UNCHANGED vars
  BY <1>9 DEF Rivals, CodeAges, HoldRunsOut, Time, vars
<1> QED  BY <1>1, <1>2, <1>3, <1>4, <1>5, <1>6, <1>7, <1>8, <1>9 DEF Next

(***************************************************************************)
(* The calls implement the store                                           *)
(***************************************************************************)

\* The transactions the calls make of the hold and its chat are steps of the store.
LEMMA OwnTransactions ==
    /\ ExtendHold(Chat) => StoreNext
    /\ \A kind : EndHold(Chat, kind) => StoreNext
    /\ \A p \in Payments : RecordPayment(Chat, p, p \in Short) => StoreNext
    /\ MarkBooked(Chat) => StoreNext
    /\ MarkUnbooked(Chat) => StoreNext
    /\ \A s \in Slots : Acquire(Chat, OwnSession, s) => StoreNext
    /\ \A s \in Slots : Rebook(Chat, s) => StoreNext
    /\ SetCalendarState(Chat, TRUE) => StoreNext
    /\ SetCalendarState(Chat, FALSE) => StoreNext
    /\ CloseSession(OwnSession) => StoreNext
<1> USE SettleAssumption DEF StoreNext
<1>1. ASSUME NEW kind, EndHold(Chat, kind) PROVE StoreNext
  <2>1. kind \in {"expired", "released"}  BY <1>1 DEF EndHold
  <2> QED  BY <1>1, <2>1
<1>2. ASSUME NEW p \in Payments, RecordPayment(Chat, p, p \in Short) PROVE StoreNext
  <2>1. (p \in Short) \in BOOLEAN  OBVIOUS
  <2> QED  BY <1>2, <2>1
<1>3. SetCalendarState(Chat, TRUE) \/ SetCalendarState(Chat, FALSE) => StoreNext
  OBVIOUS
<1> QED  BY <1>1, <1>2, <1>3

LEMMA StoreStep == NamedOK /\ [Next]_vars => [StoreNext]_storeVars
<1> SUFFICES ASSUME NamedOK, [Next]_vars PROVE StoreNext \/ UNCHANGED storeVars
  OBVIOUS
<1> USE OwnTransactions
<1>1. ASSUME NEW w \in Workers, NEW s \in Slots, TurnHolds(w, s) \/ Tap(w, s) PROVE StoreNext
  BY <1>1 DEF TurnHolds, Tap
<1>2. ASSUME NEW w \in Workers, TurnAgain(w) \/ CallSettle(w) \/ Poll(w) \/ CallRelease(w)
      PROVE  UNCHANGED storeVars
  BY <1>2 DEF TurnAgain, CallSettle, Poll, CallRelease
<1>3. ASSUME NEW w \in Workers, TapClears(w) \/ TapLate(w) PROVE StoreNext \/ UNCHANGED storeVars
  BY <1>3 DEF TapClears, TapLate
<1>4. CASE Sweep
  BY <1>4 DEF Sweep
<1>5. ASSUME NEW w \in Workers, Step(w) PROVE StoreNext \/ UNCHANGED storeVars
  <2>1. CASE InsertEvent(w) \/ GiveUp(w) \/ RowShowsEvent(w) \/ SecondLook(w) \/ MakeCode(w)
    BY <2>1 DEF InsertEvent, GiveUp, RowShowsEvent, SecondLook, MakeCode
  <2>2. CASE Record(w)
    BY <2>2 DEF Record, NamedOK
  <2>3. CASE Ask(w) \/ PageMoney(w) \/ Reread(w) \/ Look(w) \/ Write(w)
    BY <2>3 DEF Ask, PageMoney, Reread, Look, Write
  <2>4. CASE Unbook(w) \/ MarkB(w) \/ End(w) \/ Remove(w)
    BY <2>4 DEF Unbook, MarkB, End, Remove
  <2>5. CASE Cancel(w) \/ Tell(w) \/ Offer(w) \/ Page(w) \/ Say(w) \/ Send(w)
    BY <2>5 DEF Cancel, Tell, Offer, Page, Say, Send
  <2>6. CASE Told(w) \/ Untold(w)
    BY <2>6 DEF Told, Untold, CloseAfter, CloseOwn
  <2> QED  BY <1>5, <2>1, <2>2, <2>3, <2>4, <2>5, <2>6 DEF Step
<1>6. ASSUME NEW w \in Workers, Die(w) PROVE UNCHANGED storeVars
  BY <1>6 DEF Die
<1>7. ASSUME NEW p \in Payments, Pay(p) PROVE UNCHANGED storeVars
  BY <1>7 DEF Pay
<1>8. ASSUME NEW s \in Slots, PersonBooks(s) PROVE UNCHANGED storeVars
  BY <1>8 DEF PersonBooks
<1>9. CASE Rivals
  BY <1>9 DEF Rivals, RivalTakes, RivalLeaves, StoreNext
<1>10. CASE HoldRunsOut \/ Time
  BY <1>10, SettleAssumption DEF HoldRunsOut, Time, StoreNext
<1>11. CASE CodeAges \/ UNCHANGED vars
  BY <1>11 DEF CodeAges, vars
<1> QED  BY <1>1, <1>2, <1>3, <1>4, <1>5, <1>6, <1>7, <1>8, <1>9, <1>10, <1>11 DEF Next

\* Whatever the calls do in whatever order, and whichever of them fail or die, each of their steps
\* is a transaction of the store or leaves the tables alone.
THEOREM CallsImplementStore == Spec => StoreSpec
<1>1. Init => StoreInit  BY DEF Init
<1> QED  BY <1>1, InitNamed, NextNamed, StoreStep, PTL DEF Spec, StoreSpec

(***************************************************************************)
(* Types                                                                   *)
(***************************************************************************)

BookTypeOK == notified \in BOOLEAN /\ round \in Rounds /\ code \in CodeStates
WorldTypeOK == made \subseteq Payments /\ event \in [Slots -> {"none", "hold", "booking"}] /\ foreign \subseteq Slots
TalkTypeOK ==
    /\ offer \in {"no", "own", "new"}
    /\ line \in [Lines -> LineStates]
    /\ pages \subseteq Outcomes \X Rounds
    /\ moneyPages \subseteq Payments
WorkTypeOK ==
    /\ pc \in [Workers -> Places]
    /\ mode \in [Workers -> Modes]
    /\ row \in [Workers -> Row]
    /\ todo \in [Workers -> SUBSET Payments]
    /\ fresh \in [Workers -> SUBSET Payments]
    /\ saying \in [Workers -> {"nothing", "booked", "expired", "offer", "plain"}]
FaultsOK == faults \in 0 .. MaxFaults

LEMMA TypeParts == TypeOK <=> StoreTypeOK /\ BookTypeOK /\ WorldTypeOK /\ TalkTypeOK /\ WorkTypeOK /\ FaultsOK
  BY DEF TypeOK, BookTypeOK, WorldTypeOK, TalkTypeOK, WorkTypeOK, FaultsOK

LEMMA GotoTypes ==
    ASSUME WorkTypeOK, NEW w \in Workers, NEW place \in Places, Goto(w, place)
    PROVE  WorkTypeOK'
  BY DEF WorkTypeOK, Goto, memory

LEMMA NoRowType == NoRow \in Row
  BY SettleAssumption DEF NoRow, Row, HoldStates, Rounds

LEMMA DoneTypes ==
    ASSUME WorkTypeOK, NEW w \in Workers, Done(w)
    PROVE  WorkTypeOK'
<1>1. "idle" \in Places /\ "none" \in Modes  BY DEF Places, Modes
<1> QED  BY <1>1, NoRowType DEF WorkTypeOK, Done

LEMMA EnterTypes ==
    ASSUME WorkTypeOK, NEW w \in Workers, NEW m \in Modes, NEW place \in Places, Enter(w, m, place)
    PROVE  WorkTypeOK'
  BY DEF WorkTypeOK, Enter

LEMMA RowNowType == StoreTypeOK /\ BookTypeOK => RowNow \in Row
  BY SettleAssumption DEF StoreTypeOK, BookTypeOK, RowNow, Row

LEMMA EventTypes ==
    ASSUME WorldTypeOK, NEW s
    PROVE  /\ \A kind \in {"hold", "booking"} : Put(s, kind) \in [Slots -> {"none", "hold", "booking"}]
           /\ TakeOut(s) \in [Slots -> {"none", "hold", "booking"}]
  BY DEF WorldTypeOK, Put, TakeOut

LEMMA Bounds == MaxRounds \in Nat /\ MaxFaults \in Nat
  BY SettleAssumption

LEMMA FaultTypes == FaultsOK /\ (Fault \/ NoFault) => FaultsOK'
  BY Bounds DEF FaultsOK, Fault, NoFault

LEMMA InitTypes == Init => TypeOK
<1> SUFFICES ASSUME Init PROVE TypeOK
  OBVIOUS
<1>1. StoreTypeOK  BY InitIInv DEF Init, IInv
<1>2. BookTypeOK /\ FaultsOK
  <2>1. 0 \in Rounds /\ 0 \in 0 .. MaxFaults  BY Bounds DEF Rounds
  <2> QED  BY <2>1 DEF Init, BookTypeOK, CodeStates, FaultsOK
<1>5. WorldTypeOK  BY DEF Init, WorldTypeOK
<1>3. TalkTypeOK  BY DEF Init, TalkTypeOK, LineStates
<1>4. WorkTypeOK  BY NoRowType DEF Init, WorkTypeOK, Places, Modes
<1> QED  BY <1>1, <1>2, <1>3, <1>4, <1>5, TypeParts

LEMMA NextTypes ==
    ASSUME TypeOK, [Next]_vars
    PROVE  BookTypeOK' /\ WorldTypeOK' /\ TalkTypeOK' /\ WorkTypeOK' /\ FaultsOK'
<1> DEFINE Rest == BookTypeOK /\ WorldTypeOK /\ TalkTypeOK /\ WorkTypeOK /\ FaultsOK
<1>0. StoreTypeOK /\ Rest  BY TypeParts
<1> SUFFICES Rest'
  OBVIOUS
<1> USE <1>0, FaultTypes, SettleAssumption
<1>a. ASSUME UNCHANGED bookVars PROVE BookTypeOK'
  BY <1>a DEF bookVars, BookTypeOK
<1>b. ASSUME UNCHANGED worldVars PROVE WorldTypeOK'
  BY <1>b DEF worldVars, WorldTypeOK
<1>c. ASSUME UNCHANGED talkVars PROVE TalkTypeOK'
  BY <1>c DEF talkVars, TalkTypeOK
<1>d. ASSUME UNCHANGED workVars PROVE WorkTypeOK'
  BY <1>d DEF workVars, memory, WorkTypeOK
<1> HIDE <1>0
<1>1. ASSUME NEW w \in Workers, NEW s \in Slots, TurnHolds(w, s) PROVE Rest'
  BY <1>0, <1>1, <1>a, <1>b, <1>c, EnterTypes DEF TurnHolds, Modes, Places
<1>2. ASSUME NEW w \in Workers, NEW s \in Slots, Tap(w, s) PROVE Rest'
  <2>1. WorkTypeOK'  BY <1>0, <1>2, EnterTypes DEF Tap, Modes, Places
  <2>2. round \in Rounds /\ round < MaxRounds /\ round' = round + 1 /\ notified' = FALSE /\ UNCHANGED code
    BY <1>0, <1>2 DEF Tap, BookTypeOK
  <2>3. round' \in Rounds  BY <2>2, Bounds DEF Rounds
  <2>4. BookTypeOK'  BY <1>0, <2>2, <2>3 DEF BookTypeOK
  <2> QED  BY <1>0, <1>2, <2>1, <2>4, <1>b, <1>c DEF Tap
<1>3. ASSUME NEW w \in Workers, TurnAgain(w) \/ CallSettle(w) \/ Poll(w) \/ CallRelease(w) PROVE Rest'
  BY <1>0, <1>3, <1>a, <1>b, <1>c, EnterTypes DEF TurnAgain, CallSettle, Poll, CallRelease, Modes, Places
<1>4. ASSUME NEW w \in Workers, TapClears(w) PROVE Rest'
  <2>1. WorldTypeOK'  BY <1>0, <1>4, EventTypes DEF TapClears, WorldTypeOK
  <2>2. TalkTypeOK'  BY <1>0, <1>4 DEF TapClears, TalkTypeOK
  <2> QED  BY <1>0, <1>4, <1>a, <1>d, <2>1, <2>2 DEF TapClears
<1>5. ASSUME NEW w \in Workers, TapLate(w) PROVE Rest'
  <2>1. TalkTypeOK'  BY <1>0, <1>5 DEF TapLate, TalkTypeOK
  <2> QED  BY <1>0, <1>5, <1>a, <1>b, <1>d, <2>1 DEF TapLate
<1>6. CASE Sweep
  BY <1>0, <1>6, <1>a, <1>b, <1>c, EnterTypes DEF Sweep, Modes, Places
<1>7. ASSUME NEW w \in Workers, Step(w) PROVE Rest'
  <2>1. CASE InsertEvent(w)
    <3>1. WorkTypeOK'  BY <1>0, <2>1, GotoTypes DEF InsertEvent, Places
    <3>2. WorldTypeOK'  BY <1>0, <2>1, EventTypes DEF InsertEvent, Inserted, WorldTypeOK
    <3> QED  BY <1>0, <2>1, <3>1, <3>2, <1>a, <1>c DEF InsertEvent
  <2>2. CASE GiveUp(w)
    BY <1>0, <2>2, <1>a, <1>b, <1>c, DoneTypes DEF GiveUp
  <2>3. CASE RowShowsEvent(w)
    BY <1>0, <2>3, <1>a, <1>b, <1>c, GotoTypes DEF RowShowsEvent, Places
  <2>4. CASE SecondLook(w)
    BY <1>0, <2>4, <1>a, <1>b, <1>c, GotoTypes, EnterTypes DEF SecondLook, Places, Modes
  <2>5. CASE MakeCode(w)
    <3>1. WorkTypeOK'  BY <1>0, <2>5, DoneTypes, EnterTypes DEF MakeCode, Places, Modes
    <3>2. BookTypeOK'  BY <1>0, <2>5 DEF MakeCode, BookTypeOK, CodeStates
    <3> QED  BY <1>0, <2>5, <3>1, <3>2, <1>b, <1>c DEF MakeCode
  <2>6. CASE Ask(w)
    <3>1. "record" \in Places /\ made \in SUBSET Payments  BY <1>0 DEF Places, WorldTypeOK
    <3>2. WorkTypeOK'  BY <1>0, <2>6, <3>1, DoneTypes DEF Ask, WorkTypeOK
    <3> QED  BY <1>0, <2>6, <3>2, <1>a, <1>b, <1>c DEF Ask
  <2>7. CASE Record(w)
    <3>1. CASE Done(w)
      <4>1. WorkTypeOK'  BY <1>0, <3>1, DoneTypes
      <4>2. BookTypeOK'  BY <1>0, <2>7 DEF Record, BookTypeOK, CodeStates
      <4> QED  BY <1>0, <2>7, <4>1, <4>2, <1>b, <1>c DEF Record
    <3>2. CASE ~Done(w)
      <4>1. PICK p \in todo[w] :
               /\ fresh' = [fresh EXCEPT ![w] = @ \cup {p}] \/ UNCHANGED fresh
               /\ code' = IF p \notin Short /\ code \in OpenCodes THEN "paid" ELSE code
               /\ todo' = [todo EXCEPT ![w] = @ \ {p}]
               /\ UNCHANGED <<pc, mode, row, saying>>
        BY <2>7, <3>2 DEF Record
      <4>2. p \in Payments  BY <1>0 DEF WorkTypeOK
      <4>3. fresh' \in [Workers -> SUBSET Payments] /\ todo' \in [Workers -> SUBSET Payments]
        BY <1>0, <4>1, <4>2 DEF WorkTypeOK
      <4>4. WorkTypeOK'  BY <1>0, <4>1, <4>3 DEF WorkTypeOK
      <4>5. BookTypeOK'  BY <1>0, <2>7, <4>1 DEF Record, BookTypeOK, CodeStates
      <4> QED  BY <1>0, <2>7, <4>4, <4>5, <1>b, <1>c DEF Record
    <3> QED  BY <3>1, <3>2
  <2>8. CASE PageMoney(w)
    <3>1. "reread" \in Places  BY DEF Places
    <3>2. WorkTypeOK'  BY <1>0, <2>8, <3>1 DEF PageMoney, WorkTypeOK
    <3>3. TalkTypeOK'  BY <1>0, <2>8 DEF PageMoney, TalkTypeOK, WorkTypeOK, Paged
    <3> QED  BY <1>0, <2>8, <3>2, <3>3, <1>a, <1>b DEF PageMoney
  <2>9. CASE Reread(w)
    <3>1. AfterReread(state[Chat], mode[w]) \in Places  BY DEF AfterReread, Places
    <3>2. WorkTypeOK'
      <4>1. CASE Done(w)  BY <1>0, <4>1, DoneTypes
      <4>2. CASE ~Done(w)
        <5>1. pc' \in [Workers -> Places]  BY <1>0, <2>9, <4>2, <3>1 DEF Reread, WorkTypeOK
        <5>2. row' \in [Workers -> Row]  BY <1>0, <2>9, <4>2, RowNowType DEF Reread, WorkTypeOK
        <5>3. mode' \in [Workers -> Modes]  BY <1>0, <2>9, <4>2 DEF Reread, WorkTypeOK, Modes
        <5>4. /\ saying' \in [Workers -> {"nothing", "booked", "expired", "offer", "plain"}]
              /\ UNCHANGED <<todo, fresh>>
          BY <1>0, <2>9, <4>2 DEF Reread, WorkTypeOK
        <5> QED  BY <1>0, <5>1, <5>2, <5>3, <5>4 DEF WorkTypeOK
      <4> QED  BY <4>1, <4>2
    <3> QED  BY <1>0, <2>9, <3>2, <1>a, <1>b, <1>c DEF Reread
  <2>10. CASE Look(w)
    BY <1>0, <2>10, <1>a, <1>b, <1>c, GotoTypes, DoneTypes DEF Look, Places
  <2>11. CASE Unbook(w)
    BY <1>0, <2>11, <1>a, <1>b, <1>c, GotoTypes, DoneTypes DEF Unbook, Places
  <2>12. CASE Write(w)
    <3>1. WorkTypeOK'  BY <1>0, <2>12, GotoTypes, DoneTypes DEF Write, Places
    <3>2. WorldTypeOK'  BY <1>0, <2>12, EventTypes DEF Write, WorldTypeOK
    <3> QED  BY <1>0, <2>12, <3>1, <3>2, <1>a, <1>c DEF Write
  <2>13. CASE MarkB(w)
    <3>1. "say" \in Places /\ "booking" \in Modes  BY DEF Places, Modes
    <3>2. WorkTypeOK'
      <4>1. CASE Done(w)  BY <1>0, <4>1, DoneTypes
      <4>2. CASE ~Done(w)  BY <1>0, <2>13, <3>1, <4>2 DEF MarkB, WorkTypeOK
      <4> QED  BY <4>1, <4>2
    <3> QED  BY <1>0, <2>13, <3>2, <1>a, <1>b, <1>c DEF MarkB
  <2>14. CASE End(w)
    <3>1. WorkTypeOK'
      <4>1. CASE Done(w)  BY <1>0, <4>1, DoneTypes
      <4>2. CASE ~Done(w)
        <5>1. "cancel" \in Places /\ mode[w] \in {"expired", "released"} /\ row' = [row EXCEPT ![w] = [RowNow EXCEPT !.state = mode[w]]]
          BY <2>14, <4>2 DEF End, EndHold, Places
        <5>2. [RowNow EXCEPT !.state = mode[w]] \in Row
          BY <1>0, <5>1, RowNowType DEF Row, HoldStates
        <5>3. pc' = [pc EXCEPT ![w] = "cancel"] /\ UNCHANGED <<mode, todo, fresh, saying>>
          BY <2>14, <4>2 DEF End
        <5> QED  BY <1>0, <5>1, <5>2, <5>3 DEF WorkTypeOK
      <4> QED  BY <4>1, <4>2
    <3> QED  BY <1>0, <2>14, <3>1, <1>a, <1>b, <1>c DEF End
  <2>15. CASE Cancel(w)
    <3>1. WorkTypeOK'  BY <1>0, <2>15, GotoTypes, DoneTypes DEF Cancel, AfterCancel, Places
    <3>2. BookTypeOK'  BY <1>0, <2>15 DEF Cancel, BookTypeOK, CodeStates
    <3> QED  BY <1>0, <2>15, <3>1, <3>2, <1>b, <1>c DEF Cancel
  <2>16. CASE Remove(w)
    <3>1. "say" \in Places /\ "tell" \in Places  BY DEF Places
    <3>2. WorkTypeOK'
      <4>1. CASE mode[w] = "released"  BY <1>0, <2>16, <4>1, DoneTypes DEF Remove, AfterRemove
      <4>2. CASE mode[w] = "expired"  BY <1>0, <2>16, <4>2, <3>1 DEF Remove, AfterRemove, WorkTypeOK
      <4>3. CASE mode[w] \notin {"released", "expired"}  BY <1>0, <2>16, <4>3, <3>1, GotoTypes DEF Remove, AfterRemove
      <4> QED  BY <4>1, <4>2, <4>3
    <3>3. WorldTypeOK'  BY <1>0, <2>16, EventTypes DEF Remove, WorldTypeOK
    <3> QED  BY <1>0, <2>16, <3>2, <3>3, <1>a, <1>c DEF Remove
  <2>17. CASE Tell(w)
    BY <1>0, <2>17, <1>a, <1>b, <1>c, GotoTypes, DoneTypes DEF Tell, Places, Outcomes
  <2>18. CASE Offer(w)
    <3>1. {"offered", "nothing", "undelivered", "send"} \subseteq Places  BY DEF Places, Outcomes
    <3>2. WorkTypeOK'
      <4>1. CASE \E place \in {"offered", "nothing", "undelivered"} : Goto(w, place)
        BY <1>0, <4>1, <3>1, GotoTypes
      <4>2. CASE ~(\E place \in {"offered", "nothing", "undelivered"} : Goto(w, place))
        BY <1>0, <2>18, <4>2, <3>1 DEF Offer, WorkTypeOK
      <4> QED  BY <4>1, <4>2
    <3>3. TalkTypeOK'  BY <1>0, <2>18 DEF Offer, TalkTypeOK, LineStates
    <3> QED  BY <1>0, <2>18, <3>2, <3>3, <1>a, <1>b DEF Offer
  <2>19. CASE Page(w)
    <3>1. "told" \in Places /\ "say" \in Places  BY DEF Places
    <3>2. WorkTypeOK'
      <4>1. CASE pc[w] = "offered"  BY <1>0, <2>19, <4>1, <3>1 DEF Page, WorkTypeOK
      <4>2. CASE pc[w] = "nothing"  BY <1>0, <2>19, <4>2, <3>1 DEF Page, WorkTypeOK
      <4>3. CASE pc[w] \notin {"offered", "nothing"}  BY <1>0, <2>19, <4>3, DoneTypes DEF Page
      <4> QED  BY <4>1, <4>2, <4>3
    <3>3. row[w].round \in Rounds  BY <1>0 DEF WorkTypeOK, Row
    <3>4. TalkTypeOK'  BY <1>0, <2>19, <3>3 DEF Page, TalkTypeOK, OfThisRound
    <3> QED  BY <1>0, <2>19, <3>2, <3>4, <1>a, <1>b DEF Page
  <2>20. CASE Say(w)
    <3>1. WorkTypeOK'  BY <1>0, <2>20, GotoTypes DEF Say, Places
    <3>2. TalkTypeOK'  BY <1>0, <2>20 DEF Say, TalkTypeOK, LineStates
    <3> QED  BY <1>0, <2>20, <3>1, <3>2, <1>a, <1>b DEF Say
  <2>21. CASE Send(w)
    <3>1. WorkTypeOK'  BY <1>0, <2>21, GotoTypes DEF Send, Places, Outcomes
    <3>2. TalkTypeOK'  BY <1>0, <2>21 DEF Send, TalkTypeOK, LineStates
    <3> QED  BY <1>0, <2>21, <3>1, <3>2, <1>a, <1>b DEF Send
  <2>22. CASE Told(w) \/ Untold(w)
    <3>1. WorkTypeOK'  BY <1>0, <2>22, GotoTypes, DoneTypes DEF Told, Untold, Finish, Places
    <3>2. BookTypeOK'  BY <1>0, <2>22 DEF Told, Untold, BookTypeOK, bookVars, Marked
    <3>3. TalkTypeOK'  BY <1>0, <2>22 DEF Told, Untold, TalkTypeOK, CloseAfter, CloseOwn
    <3> QED  BY <1>0, <2>22, <3>1, <3>2, <3>3, <1>b DEF Told, Untold
  <2> QED  BY <1>7, <2>1, <2>2, <2>3, <2>4, <2>5, <2>6, <2>7, <2>8, <2>9, <2>10, <2>11, <2>12, <2>13,
              <2>14, <2>15, <2>16, <2>17, <2>18, <2>19, <2>20, <2>21, <2>22 DEF Step
<1>8. ASSUME NEW w \in Workers, Die(w) PROVE Rest'
  BY <1>0, <1>8, <1>a, <1>b, <1>c, DoneTypes DEF Die
<1>9. ASSUME NEW p \in Payments, Pay(p) PROVE Rest'
  <2>1. WorldTypeOK'  BY <1>0, <1>9 DEF Pay, WorldTypeOK
  <2> QED  BY <1>0, <1>9, <2>1, <1>a, <1>c, <1>d DEF Pay
<1>10. ASSUME NEW s \in Slots, PersonBooks(s) PROVE Rest'
  <2>1. WorldTypeOK'  BY <1>0, <1>10 DEF PersonBooks, WorldTypeOK
  <2> QED  BY <1>0, <1>10, <2>1, <1>a, <1>c, <1>d DEF PersonBooks
<1>11. CASE Rivals \/ HoldRunsOut \/ Time
  BY <1>0, <1>11, <1>a, <1>b, <1>c, <1>d DEF Rivals, HoldRunsOut, Time
<1>13. CASE CodeAges
  <2>1. BookTypeOK'  BY <1>0, <1>13 DEF CodeAges, BookTypeOK, CodeStates
  <2> QED  BY <1>0, <1>13, <2>1, <1>b, <1>c, <1>d DEF CodeAges
<1>12. CASE UNCHANGED vars
  BY <1>0, <1>12, <1>a, <1>b, <1>c, <1>d DEF vars, NoFault
<1> QED  BY <1>1, <1>2, <1>3, <1>4, <1>5, <1>6, <1>7, <1>8, <1>9, <1>10, <1>11, <1>12, <1>13 DEF Next

(***************************************************************************)
(* What the calls add                                                      *)
(***************************************************************************)

\* A call that is saying "booked" has read the row as booked, or written it so.
SaysBooked == \A w \in Workers : saying[w] = "booked" => state[Chat] = "booked"

\* A call that goes for the calendar has read the row as paid.
GoesPaid == \A w \in Workers : pc[w] \in {"look", "write"} => HasPayment(Chat)

CallInv == TypeOK /\ IInv /\ NamedOK /\ SaysBooked /\ ConfirmedIsBooked /\ GoesPaid /\ BookingIsPaid

LEMMA InitCallInv == Init => CallInv
<1> SUFFICES ASSUME Init PROVE CallInv
  OBVIOUS
<1>1. TypeOK /\ IInv /\ NamedOK  BY InitTypes, InitIInv, InitNamed DEF Init
<1>2. SaysBooked /\ GoesPaid  BY DEF Init, SaysBooked, GoesPaid
<1>3. <<"booked", 0>> \in Lines  BY DEF Lines
<1>4. ConfirmedIsBooked /\ BookingIsPaid  BY <1>3 DEF Init, ConfirmedIsBooked, BookingIsPaid
<1> QED  BY <1>1, <1>2, <1>4 DEF CallInv

\* A booked hold stays booked, and the evidence of a payment stays.
LEMMA BookedForGood ==
    ASSUME IInv, [StoreNext]_storeVars, NEW h \in Holds, state[h] = "booked"
    PROVE  state'[h] = "booked"
<1> USE DEF IInv, StoreTypeOK
<1>1. ASSUME NEW g \in Holds, NEW se \in Sessions, NEW s \in Slots, Acquire(g, se, s) PROVE state'[h] = "booked"
  BY <1>1 DEF Acquire
<1>2. ASSUME NEW g \in Holds, NEW kind, EndHold(g, kind) PROVE state'[h] = "booked"
  <2>1. state[g] = "held"  BY <1>2 DEF EndHold, EndOutcome
  <2> QED  BY <1>2, <2>1 DEF EndHold
<1>3. ASSUME NEW g \in Holds, NEW p \in Payments, NEW short \in BOOLEAN, RecordPayment(g, p, short)
      PROVE  state'[h] = "booked"
  <2>1. CASE g # h  BY <1>3, <2>1 DEF RecordPayment
  <2>2. CASE g = h
    <3>1. Disposition(g, short) \in {"short", "excess"}  BY <2>2 DEF Disposition, Funded
    <3>2. StateAfter(g, Disposition(g, short)) = "booked"  BY <2>2, <3>1 DEF StateAfter
    <3> QED  BY <1>3, <2>2, <3>2 DEF RecordPayment
  <2> QED  BY <2>1, <2>2
<1>4. ASSUME NEW g \in Holds, MarkBooked(g) \/ MarkUnbooked(g) PROVE state'[h] = "booked"
  BY <1>4 DEF MarkBooked, MarkUnbooked
<1>5. ASSUME NEW g \in Holds, NEW s \in Slots, Rebook(g, s) PROVE state'[h] = "booked"
  BY <1>5 DEF Rebook, RebookOutcome
<1>6. CASE UNCHANGED state
  BY <1>6
<1>7. \/ \E g \in Holds, se \in Sessions, s \in Slots : Acquire(g, se, s)
      \/ \E g \in Holds, kind \in {"expired", "released"} : EndHold(g, kind)
      \/ \E g \in Holds, p \in Payments, short \in BOOLEAN : RecordPayment(g, p, short)
      \/ \E g \in Holds : MarkBooked(g) \/ MarkUnbooked(g)
      \/ \E g \in Holds, s \in Slots : Rebook(g, s)
      \/ UNCHANGED state
  BY DEF StoreNext, storeVars, holdVars, ExtendHold, SetCalendarState, CloseSession, HoldDue, SlotBegins, OfferEnds
<1> QED  BY <1>1, <1>2, <1>3, <1>4, <1>5, <1>6, <1>7

LEMMA EvidenceStays ==
    ASSUME IInv, [StoreNext]_storeVars, NEW h \in Holds, HasPayment(h)
    PROVE  HasPayment(h)'
<1> PICK p \in Payments : payHold[p] = h /\ payDisp[p] \in Pays
  BY DEF HasPayment
<1>1. ASSUME NEW g \in Holds, NEW q \in Payments, NEW short \in BOOLEAN, RecordPayment(g, q, short)
      PROVE  payHold'[p] = h /\ payDisp'[p] = payDisp[p]
  <2>1. p # q  BY <1>1 DEF RecordPayment, Pays
  <2> QED  BY <1>1, <2>1 DEF RecordPayment, IInv, StoreTypeOK
<1>2. (\E g \in Holds, q \in Payments, short \in BOOLEAN : RecordPayment(g, q, short)) \/ UNCHANGED paymentVars
  BY DEF StoreNext, storeVars, Acquire, ExtendHold, EndHold, MarkBooked, MarkUnbooked, Rebook, SetCalendarState,
         CloseSession, HoldDue, SlotBegins, OfferEnds
<1> QED  BY <1>1, <1>2 DEF HasPayment, paymentVars

\* The steps that touch what the two properties speak of: lines, events, and where calls are.
LEMMA NextCallInv == CallInv /\ [Next]_vars => CallInv'
<1> SUFFICES ASSUME CallInv, [Next]_vars PROVE CallInv'
  OBVIOUS
<1>1. TypeOK /\ IInv /\ NamedOK  BY DEF CallInv
<1>2. [StoreNext]_storeVars  BY <1>1, StoreStep
<1>3. IInv' /\ NamedOK'  BY <1>1, <1>2, NextIInv, NextNamed
<1>4. TypeOK'
  <2>1. BookTypeOK' /\ WorldTypeOK' /\ TalkTypeOK' /\ WorkTypeOK' /\ FaultsOK'  BY <1>1, NextTypes
  <2>2. StoreTypeOK'  BY <1>3 DEF IInv
  <2> QED  BY <2>1, <2>2 DEF TypeOK, BookTypeOK, WorldTypeOK, TalkTypeOK, WorkTypeOK, FaultsOK
<1>5. state[Chat] = "booked" => state'[Chat] = "booked"
  BY <1>1, <1>2, BookedForGood, SettleAssumption
<1>6. HasPayment(Chat) => HasPayment(Chat)'
  BY <1>1, <1>2, EvidenceStays, SettleAssumption
<1>7. SaysBooked /\ ConfirmedIsBooked /\ GoesPaid /\ BookingIsPaid  BY DEF CallInv
<1>8. WorkTypeOK /\ TalkTypeOK /\ WorldTypeOK  BY <1>1, TypeParts
<1>9. state[Chat] \in Funded <=> HasPayment(Chat)  BY <1>1, SettleAssumption DEF IInv, MoneyDecides
<1> DEFINE Goal == SaysBooked' /\ ConfirmedIsBooked' /\ GoesPaid' /\ BookingIsPaid'
<1> HIDE DEF Goal
\* Nobody starts to say "booked", and nobody goes for the calendar.
<1>a. ASSUME \A v \in Workers : saying'[v] = "booked" => saying[v] = "booked" PROVE SaysBooked'
  BY <1>5, <1>7, <1>a DEF SaysBooked
<1>b. ASSUME \A v \in Workers : pc'[v] \in {"look", "write"} => pc[v] \in {"look", "write"} PROVE GoesPaid'
  BY <1>6, <1>7, <1>b DEF GoesPaid
<1>c. ASSUME line'[<<"booked", 0>>] = line[<<"booked", 0>>] PROVE ConfirmedIsBooked'
  BY <1>5, <1>7, <1>c DEF ConfirmedIsBooked
<1>d. ASSUME \A s \in Slots : event'[s] = "booking" => event[s] = "booking" PROVE BookingIsPaid'
  BY <1>6, <1>7, <1>d DEF BookingIsPaid
\* What the ways a call goes on do to it.
<1>e. ASSUME NEW w \in Workers, Done(w) PROVE SaysBooked' /\ GoesPaid'
  BY <1>8, <1>a, <1>b, <1>e DEF Done, WorkTypeOK
<1>f. ASSUME NEW w \in Workers, NEW place \in Places \ {"look", "write"}, Goto(w, place) PROVE SaysBooked' /\ GoesPaid'
  BY <1>8, <1>a, <1>b, <1>f DEF Goto, memory, WorkTypeOK
<1>g. ASSUME NEW w \in Workers, NEW m, NEW place \in Places \ {"look", "write"}, Enter(w, m, place)
      PROVE  SaysBooked' /\ GoesPaid'
  BY <1>8, <1>a, <1>b, <1>g DEF Enter, WorkTypeOK
<1>h. ASSUME UNCHANGED workVars PROVE SaysBooked' /\ GoesPaid'
  BY <1>a, <1>b, <1>h DEF workVars, memory
<1>i. UNCHANGED line => ConfirmedIsBooked'  BY <1>c
<1>j. UNCHANGED event => BookingIsPaid'  BY <1>d
<1>k. \A s : \A t \in Slots : /\ TakeOut(s)[t] = "booking" => event[t] = "booking"
                              /\ Put(s, "hold")[t] = "booking" => event[t] = "booking"
  BY DEF TakeOut, Put
<1>l. <<"booked", 0>> \in Lines  BY DEF Lines
<1> USE <1>i, <1>j DEF Goal, talkVars, worldVars
<1>10. ASSUME NEW w \in Workers, NEW s \in Slots, TurnHolds(w, s) \/ Tap(w, s) PROVE Goal
  BY <1>10, <1>g DEF TurnHolds, Tap, Places
<1>11. ASSUME NEW w \in Workers, TurnAgain(w) \/ CallSettle(w) \/ Poll(w) \/ CallRelease(w) PROVE Goal
  BY <1>11, <1>g DEF TurnAgain, CallSettle, Poll, CallRelease, Places
<1>12. ASSUME NEW w \in Workers, TapClears(w) PROVE Goal
  <2>1. BookingIsPaid'  BY <1>12, <1>d, <1>k DEF TapClears
  <2> QED  BY <1>12, <2>1, <1>h DEF TapClears
<1>13. ASSUME NEW w \in Workers, TapLate(w) PROVE Goal
  BY <1>13, <1>h DEF TapLate
<1>14. ASSUME Sweep PROVE Goal
  <2>1. Sweeper \in Workers /\ "ask" \in Places \ {"look", "write"}  BY SettleAssumption DEF Places
  <2>2. \E m : Enter(Sweeper, m, "ask")  BY <1>14 DEF Sweep
  <2>3. SaysBooked' /\ GoesPaid'  BY <2>1, <2>2, <1>g
  <2> QED  BY <1>14, <2>3 DEF Sweep
<1>15. ASSUME NEW w \in Workers, Step(w) PROVE Goal
  <2>1. CASE InsertEvent(w)
    <3>1. BookingIsPaid'  BY <2>1, <1>d, <1>k DEF InsertEvent, Inserted
    <3> QED  BY <2>1, <3>1, <1>f DEF InsertEvent, Places
  <2>2. CASE GiveUp(w) \/ RowShowsEvent(w) \/ SecondLook(w) \/ MakeCode(w)
    BY <2>2, <1>e, <1>f, <1>g DEF GiveUp, RowShowsEvent, SecondLook, MakeCode, Places
  <2>3. CASE Ask(w) \/ Record(w) \/ PageMoney(w)
    <3>1. CASE Done(w)  BY <2>3, <3>1, <1>e DEF Ask, Record, PageMoney
    <3>2. CASE ~Done(w)
      <4>1. UNCHANGED saying /\ (pc' = pc \/ \E place \in {"record", "reread"} : pc' = [pc EXCEPT ![w] = place])
        BY <2>3, <3>2 DEF Ask, Record, PageMoney
      <4>2. SaysBooked' /\ GoesPaid'  BY <4>1, <1>a, <1>b, <1>8 DEF WorkTypeOK
      <4> QED  BY <2>3, <4>2 DEF Ask, Record, PageMoney
    <3> QED  BY <3>1, <3>2
  <2>4. CASE Reread(w)
    <3>1. CASE Done(w)  BY <2>4, <3>1, <1>e DEF Reread
    <3>2. CASE ~Done(w)
      <4> DEFINE place == AfterReread(state[Chat], mode[w])
      <4>1. /\ pc' = [pc EXCEPT ![w] = place]
            /\ saying' = [saying EXCEPT ![w] = IF place = "say" THEN "booked" ELSE saying[w]]
            /\ UNCHANGED storeVars /\ UNCHANGED <<line, event>>
        BY <2>4, <3>2 DEF Reread
      <4>2. (place = "say" => state[Chat] = "booked") /\ (place \in {"look", "write"} => state[Chat] = "paid")
        BY DEF AfterReread
      <4>3. SaysBooked'  BY <4>1, <4>2, <1>5, <1>7, <1>8 DEF SaysBooked, WorkTypeOK
      <4>4. GoesPaid'  BY <4>1, <4>2, <1>6, <1>7, <1>8, <1>9 DEF GoesPaid, WorkTypeOK, Funded
      <4> QED  BY <4>1, <4>3, <4>4
    <3> QED  BY <3>1, <3>2
  <2>5. CASE Look(w)
    <3>1. CASE Done(w)  BY <2>5, <3>1, <1>e DEF Look
    <3>2. CASE ~Done(w)
      <4>1. UNCHANGED saying /\ pc[w] = "look" /\ \E place \in {"unbook", "write"} : pc' = [pc EXCEPT ![w] = place]
        BY <2>5, <3>2 DEF Look, Goto, memory
      <4>2. SaysBooked' /\ GoesPaid'  BY <4>1, <1>a, <1>b, <1>8 DEF WorkTypeOK
      <4> QED  BY <2>5, <4>2 DEF Look
    <3> QED  BY <3>1, <3>2
  <2>6. CASE Unbook(w)
    BY <2>6, <1>e, <1>f DEF Unbook, Places
  <2>7. CASE Write(w)
    <3>1. HasPayment(Chat)'  BY <2>7, <1>6, <1>7 DEF Write, GoesPaid
    <3>2. BookingIsPaid'  BY <3>1 DEF BookingIsPaid
    <3> QED  BY <2>7, <3>2, <1>e, <1>f DEF Write, Places
  <2>8. CASE MarkB(w)
    <3>1. CASE Done(w)  BY <2>8, <3>1, <1>e DEF MarkB
    <3>2. CASE ~Done(w)
      <4>1. /\ MarkBooked(Chat) \/ (state[Chat] = "booked" /\ UNCHANGED storeVars)
            /\ pc' = [pc EXCEPT ![w] = "say"]
            /\ saying' = [saying EXCEPT ![w] = "booked"]
        BY <2>8, <3>2 DEF MarkB
      <4>2. state'[Chat] = "booked"
        BY <4>1, <1>1, <1>5, SettleAssumption DEF MarkBooked, IInv, StoreTypeOK
      <4>3. SaysBooked'  BY <4>2 DEF SaysBooked
      <4>4. GoesPaid'  BY <4>1, <1>b, <1>8 DEF WorkTypeOK
      <4> QED  BY <2>8, <4>3, <4>4 DEF MarkB
    <3> QED  BY <3>1, <3>2
  <2>9. CASE End(w)
    <3>1. CASE Done(w)  BY <2>9, <3>1, <1>e DEF End
    <3>2. CASE ~Done(w)
      <4>1. pc' = [pc EXCEPT ![w] = "cancel"] /\ UNCHANGED saying  BY <2>9, <3>2 DEF End
      <4>2. SaysBooked' /\ GoesPaid'  BY <4>1, <1>a, <1>b, <1>8 DEF WorkTypeOK
      <4> QED  BY <2>9, <4>2 DEF End
    <3> QED  BY <3>1, <3>2
  <2>10. CASE Cancel(w)
    BY <2>10, <1>e, <1>f DEF Cancel, AfterCancel, Places
  <2>11. CASE Remove(w)
    <3>1. BookingIsPaid'  BY <2>11, <1>d, <1>k DEF Remove
    <3>2. SaysBooked' /\ GoesPaid'
      <4>1. CASE mode[w] = "released"  BY <2>11, <4>1, <1>e DEF Remove, AfterRemove
      <4>2. CASE mode[w] = "expired"
        <5>1. pc' = [pc EXCEPT ![w] = "say"] /\ saying' = [saying EXCEPT ![w] = "expired"]
          BY <2>11, <4>2 DEF Remove, AfterRemove
        <5> QED  BY <5>1, <1>a, <1>b, <1>8 DEF WorkTypeOK
      <4>3. CASE mode[w] \notin {"released", "expired"}
        BY <2>11, <4>3, <1>f DEF Remove, AfterRemove, Places
      <4> QED  BY <4>1, <4>2, <4>3
    <3> QED  BY <2>11, <3>1, <3>2 DEF Remove
  <2>12. CASE Tell(w)
    BY <2>12, <1>e, <1>f DEF Tell, Places, Outcomes
  <2>13. CASE Offer(w)
    <3>1. line'[<<"booked", 0>>] = line[<<"booked", 0>>]
      <4>1. UNCHANGED line \/ line' = [line EXCEPT ![<<"offer", row[w].round>>] = "sending"]
        BY <2>13 DEF Offer, OfThisRound
      <4> QED  BY <4>1, <1>8, <1>l DEF TalkTypeOK
    <3>2. \/ \E place \in {"offered", "nothing", "undelivered"} : Goto(w, place)
          \/ pc' = [pc EXCEPT ![w] = "send"] /\ saying' = [saying EXCEPT ![w] = "offer"]
      BY <2>13 DEF Offer
    <3>3. SaysBooked' /\ GoesPaid'
      <4>1. CASE \E place \in {"offered", "nothing", "undelivered"} : Goto(w, place)
        BY <4>1, <1>f DEF Places, Outcomes
      <4>2. CASE pc' = [pc EXCEPT ![w] = "send"] /\ saying' = [saying EXCEPT ![w] = "offer"]
        BY <4>2, <1>a, <1>b, <1>8 DEF WorkTypeOK
      <4> QED  BY <3>2, <4>1, <4>2
    <3> QED  BY <2>13, <3>1, <3>3, <1>c DEF Offer
  <2>14. CASE Page(w)
    <3>1. \/ Done(w)
          \/ pc' = [pc EXCEPT ![w] = "told"] /\ saying' = [saying EXCEPT ![w] = "offer"]
          \/ pc' = [pc EXCEPT ![w] = "say"] /\ saying' = [saying EXCEPT ![w] = "plain"]
      BY <2>14 DEF Page, Outcomes
    <3>2. SaysBooked' /\ GoesPaid'
      <4>1. CASE Done(w)  BY <4>1, <1>e
      <4>2. CASE ~Done(w)  BY <3>1, <4>2, <1>a, <1>b, <1>8 DEF WorkTypeOK
      <4> QED  BY <4>1, <4>2
    <3> QED  BY <2>14, <3>2 DEF Page
  <2>15. CASE Say(w) \/ Send(w)
    <3>1. SaysBooked' /\ GoesPaid'  BY <2>15, <1>f DEF Say, Send, Places, Outcomes
    <3>2. ConfirmedIsBooked'
      <4>1. CASE saying[w] = "booked"
        <5>1. state'[Chat] = "booked"  BY <4>1, <1>5, <1>7 DEF SaysBooked
        <5> QED  BY <5>1 DEF ConfirmedIsBooked
      <4>2. CASE saying[w] # "booked"
        <5>1. Key(w) # <<"booked", 0>>  BY <4>2 DEF Key
        <5>2. UNCHANGED line \/ \E st : line' = [line EXCEPT ![Key(w)] = st]
          BY <2>15 DEF Say, Send
        <5>3. line'[<<"booked", 0>>] = line[<<"booked", 0>>]  BY <5>1, <5>2, <1>8, <1>l DEF TalkTypeOK
        <5> QED  BY <5>3, <1>c
      <4> QED  BY <4>1, <4>2
    <3> QED  BY <2>15, <3>1, <3>2 DEF Say, Send
  <2>16. CASE Told(w) \/ Untold(w)
    BY <2>16, <1>e, <1>f DEF Told, Untold, Finish, Places
  <2> QED  BY <1>15, <2>1, <2>2, <2>3, <2>4, <2>5, <2>6, <2>7, <2>8, <2>9, <2>10, <2>11, <2>12, <2>13,
              <2>14, <2>15, <2>16 DEF Step
<1>16. ASSUME NEW w \in Workers, Die(w) PROVE Goal
  BY <1>16, <1>e DEF Die
<1>17. ASSUME NEW p \in Payments, Pay(p) PROVE Goal
  BY <1>17, <1>h DEF Pay
<1>18. ASSUME NEW s \in Slots, PersonBooks(s) PROVE Goal
  BY <1>18, <1>h DEF PersonBooks
<1>19. ASSUME Rivals \/ CodeAges \/ HoldRunsOut \/ Time PROVE Goal
  BY <1>19, <1>h DEF Rivals, CodeAges, HoldRunsOut, Time
<1>21. ASSUME UNCHANGED vars PROVE Goal
  BY <1>21, <1>h DEF vars
<1>20. Goal
  BY <1>10, <1>11, <1>12, <1>13, <1>14, <1>15, <1>16, <1>17, <1>18, <1>19, <1>21 DEF Next
<1> QED  BY <1>3, <1>4, <1>20 DEF CallInv

\* The invariant below the theorems about the calls.
THEOREM CallsInvariant == Spec => []CallInv
  BY InitCallInv, NextCallInv, PTL DEF Spec

\* Every variable of the calls keeps its type, rows read and lines sent included.
THEOREM CallsTypeCorrect == Spec => []TypeOK
<1>1. CallInv => TypeOK  BY DEF CallInv
<1> QED  BY <1>1, CallsInvariant, PTL

\* No time is held twice by what the calls, the rivals and the sweep do together.
THEOREM CallsNeverHoldTwice == Spec => []OneHoldPerTime
  BY CallsImplementStore, NeverHeldTwice, PTL

\* The calls neither book nor tell away a hold against its money.
THEOREM CallsFollowMoney == Spec => []MoneyDecides
  BY CallsImplementStore, NothingOnNoMoney, PTL

\* The confirmation is drafted only for a hold the tables have as booked, whichever call drafts
\* it and whatever the others do meanwhile.
THEOREM NeverConfirmedUnbooked == Spec => []ConfirmedIsBooked
<1>1. CallInv => ConfirmedIsBooked  BY DEF CallInv
<1> QED  BY <1>1, CallsInvariant, PTL

\* No event of ours becomes a booking before a payment is recorded, however stale the row that
\* the writing call read.
THEOREM NeverBookedUnpaid == Spec => []BookingIsPaid
<1>1. CallInv => BookingIsPaid  BY DEF CallInv
<1> QED  BY <1>1, CallsInvariant, PTL


(***************************************************************************)
(* The calendar                                                            *)
(*                                                                         *)
(* Two calls about one deposit may take each other's event out once it was *)
(* paid late, moved or met by somebody else's event (a run shows it).  A   *)
(* deposit to which none of that happened has no call that removes its     *)
(* event, and every call that writes one read the row with its only time:  *)
(* so whatever overlaps, fails or dies, its event stands once it is booked *)
(***************************************************************************)

\* Neither ended nor moved, paid late or met by somebody else's event.
Straight == Undisturbed /\ state[Chat] \in {"held", "paid", "booked"}

\* The places where a call removes our event, is about to, or writes it.
AtCalendar == {"unbook", "remove", "cancel", "look", "write", "markb"}

\* While the hold goes straight a call at the calendar only writes, and at the hold's time; once
\* it has, the event is there.
OnCourse(w) ==
    /\ pc[w] \notin {"unbook", "remove"}
    /\ pc[w] = "cancel" => mode[w] = "booking"
    /\ pc[w] \in {"look", "write", "markb"} => row[w].slot = slot[Chat]
    /\ pc[w] = "markb" => event[slot[Chat]] # "none"

\* Our event is nowhere else, and there once the row says booked.
Placed ==
    /\ \A s \in Slots : event[s] # "none" => s = slot[Chat]
    /\ state[Chat] = "booked" => event[slot[Chat]] # "none"

StandsInv ==
    /\ state[Chat] = "none" =>
           (\A w \in Workers : pc[w] = "idle") /\ (\A s \in Slots : event[s] = "none")
    /\ Straight => Placed /\ \A w \in Workers : OnCourse(w)

LEMMA InitStands == Init => StandsInv
  BY SettleAssumption DEF Init, StoreInit, StandsInv, Straight

\* What a step leaves of the hold when it is not about it.
Kept == state'[Chat] = state[Chat] /\ slot'[Chat] = slot[Chat] /\ UNCHANGED paymentVars
Around == round' = round /\ foreign \subseteq foreign'

\* What one step may do to the hold.
LEMMA HoldSteps ==
    ASSUME CallInv, [Next]_vars
    PROVE  \/ Around /\ Kept
           \/ Around /\ state'[Chat] \in {"expired", "released", "paid_unbooked"}
           \/ Around /\ \E p \in Payments, short \in BOOLEAN : RecordPayment(Chat, p, short)
           \/ Around /\ MarkBooked(Chat) /\ \E w \in Workers : pc[w] = "markb"
           \/ Around /\ \E w \in Workers, s \in Slots : TurnHolds(w, s)
           \/ round' = round + 1 /\ state'[Chat] = "paid"
<1> DEFINE Quiet == Around /\ Kept
           Ends == Around /\ state'[Chat] \in {"expired", "released", "paid_unbooked"}
           Records == Around /\ \E p \in Payments, short \in BOOLEAN : RecordPayment(Chat, p, short)
           Marks == Around /\ MarkBooked(Chat) /\ \E w \in Workers : pc[w] = "markb"
           Takes == Around /\ \E w \in Workers, s \in Slots : TurnHolds(w, s)
           Moves == round' = round + 1 /\ state'[Chat] = "paid"
           Goal == Quiet \/ Ends \/ Records \/ Marks \/ Takes \/ Moves
<1> SUFFICES Goal  OBVIOUS
<1>1. StoreTypeOK /\ NamedOK /\ Chat \in Holds  BY SettleAssumption DEF CallInv, TypeOK
<1>a. UNCHANGED <<storeVars, bookVars, worldVars>> => Quiet
  BY DEF storeVars, holdVars, bookVars, worldVars, Kept, Around
<1>b. UNCHANGED <<round, foreign>> => Around  BY DEF Around
<1>c. /\ UNCHANGED storeVars \/ ExtendHold(Chat) \/ CloseSession(OwnSession) => Kept
      /\ SetCalendarState(Chat, TRUE) \/ SetCalendarState(Chat, FALSE) => Kept
  BY DEF storeVars, holdVars, ExtendHold, CloseSession, SetCalendarState, Kept
<1>d. ASSUME NEW kind, EndHold(Chat, kind), UNCHANGED <<round, foreign>> PROVE Ends
  <2>1. kind \in {"expired", "released"} /\ state' = [state EXCEPT ![Chat] = kind]
    BY <1>d DEF EndHold
  <2> QED  BY <2>1, <1>1, <1>b, <1>d DEF StoreTypeOK
<1> HIDE DEF Quiet, Ends, Records, Marks, Takes, Moves
<1> USE DEF bookVars, worldVars
<1>2. ASSUME NEW w \in Workers, NEW s \in Slots, TurnHolds(w, s) PROVE Goal
  BY <1>2, <1>b DEF TurnHolds, Takes
<1>3. ASSUME NEW w \in Workers, NEW s \in Slots, Tap(w, s) PROVE Goal
  <2>1. state' = [state EXCEPT ![Chat] = "paid"]  BY <1>3 DEF Tap, Rebook
  <2> QED  BY <2>1, <1>1, <1>3 DEF Tap, StoreTypeOK, Moves
<1>4. ASSUME NEW w \in Workers, TurnAgain(w) \/ CallSettle(w) \/ Poll(w) \/ CallRelease(w) PROVE Goal
  BY <1>4, <1>a DEF TurnAgain, CallSettle, Poll, CallRelease
<1>5. ASSUME NEW w \in Workers, TapClears(w) \/ TapLate(w) PROVE Goal
  BY <1>5, <1>b, <1>c DEF TapClears, TapLate, Quiet
<1>6. CASE Sweep
  BY <1>6, <1>a DEF Sweep
<1>7. ASSUME NEW w \in Workers, Step(w) PROVE Goal
  <2>1. CASE InsertEvent(w) \/ RowShowsEvent(w) \/ SecondLook(w) \/ MakeCode(w)
    BY <2>1, <1>b, <1>c DEF InsertEvent, RowShowsEvent, SecondLook, MakeCode, Quiet
  <2>2. CASE GiveUp(w) \/ End(w)
    BY <2>2, <1>b, <1>c, <1>d DEF GiveUp, End, Quiet
  <2>3. CASE Record(w)
    <3>1. CASE UNCHANGED storeVars
      BY <2>3, <3>1, <1>b, <1>c DEF Record, Quiet
    <3>2. CASE ~ UNCHANGED storeVars
      <4>1. PICK p \in todo[w] : RecordPayment(Chat, p, p \in Short)  BY <2>3, <3>2 DEF Record
      <4>2. p \in Payments /\ (p \in Short) \in BOOLEAN  BY <1>1 DEF NamedOK
      <4> QED  BY <2>3, <4>1, <4>2, <1>b DEF Record, Records
    <3> QED  BY <3>1, <3>2
  <2>4. CASE Ask(w) \/ PageMoney(w) \/ Reread(w) \/ Look(w) \/ Write(w) \/ Cancel(w)
    BY <2>4, <1>b, <1>c DEF Ask, PageMoney, Reread, Look, Write, Cancel, Quiet
  <2>5. CASE Unbook(w)
    <3>1. CASE MarkUnbooked(Chat)
      BY <2>5, <3>1, <1>1, <1>b DEF Unbook, MarkUnbooked, StoreTypeOK, Ends
    <3> QED  BY <2>5, <3>1, <1>b, <1>c DEF Unbook, Quiet
  <2>6. CASE MarkB(w)
    BY <2>6, <1>b, <1>c DEF MarkB, Quiet, Marks
  <2>7. CASE Remove(w)
    BY <2>7, <1>b, <1>c DEF Remove, Quiet
  <2>8. CASE Tell(w) \/ Offer(w) \/ Page(w) \/ Say(w) \/ Send(w)
    BY <2>8, <1>a DEF Tell, Offer, Page, Say, Send
  <2>9. CASE Told(w) \/ Untold(w)
    BY <2>9, <1>b, <1>c DEF Told, Untold, CloseAfter, CloseOwn, Quiet
  <2> QED  BY <1>7, <2>1, <2>2, <2>3, <2>4, <2>5, <2>6, <2>7, <2>8, <2>9 DEF Step
<1>8. ASSUME NEW w \in Workers, Die(w) PROVE Goal
  BY <1>8, <1>a DEF Die
<1>9. ASSUME NEW p \in Payments, Pay(p) PROVE Goal
  BY <1>9, <1>b, <1>c DEF Pay, Quiet
<1>10. ASSUME NEW s \in Slots, PersonBooks(s) PROVE Goal
  BY <1>10, <1>c DEF PersonBooks, Quiet, Around
<1>11. CASE Rivals
  <2>1. Kept
    BY <1>11, <1>1 DEF Rivals, RivalTakes, RivalLeaves, Acquire, EndHold, Kept, StoreTypeOK
  <2> QED  BY <1>11, <2>1, <1>b DEF Rivals, Quiet
<1>12. CASE CodeAges \/ UNCHANGED vars
  BY <1>12, <1>b, <1>c DEF CodeAges, vars, Quiet
<1>13. CASE HoldRunsOut \/ Time
  <2>1. Kept  BY <1>13 DEF HoldRunsOut, Time, HoldDue, OfferEnds, SlotBegins, holdVars, Kept
  <2> QED  BY <1>13, <2>1, <1>b DEF HoldRunsOut, Time, Quiet
<1> QED  BY <1>2, <1>3, <1>4, <1>5, <1>6, <1>7, <1>8, <1>9, <1>10, <1>11, <1>12, <1>13 DEF Next

\* A hold that goes straight has gone straight since it was there, and has its first time.
LEMMA StraightBack ==
    ASSUME CallInv, [Next]_vars, state[Chat] # "none"
    PROVE  /\ state'[Chat] # "none"
           /\ Straight' =>
                  /\ Straight /\ slot'[Chat] = slot[Chat]
                  /\ state'[Chat] = "booked" => state[Chat] = "booked" \/ \E w \in Workers : pc[w] = "markb"
<1>1. StoreTypeOK /\ round \in Nat /\ Chat \in Holds
  BY SettleAssumption DEF CallInv, TypeOK, Rounds
<1>2. ASSUME Around, slot'[Chat] = slot[Chat], Straight',
             state'[Chat] = state[Chat] \/ state[Chat] \in {"held", "paid"},
             \A p \in Payments : payDisp[p] # "none" => payHold'[p] = payHold[p] /\ payDisp'[p] = payDisp[p]
      PROVE  Straight
  BY <1>2 DEF Straight, Undisturbed, Around, Taken
<1>3. CASE Around /\ Kept
  BY <1>2, <1>3 DEF Kept, paymentVars, Straight
<1>4. CASE state'[Chat] \in {"expired", "released", "paid_unbooked"}
  BY <1>4 DEF Straight
<1>5. ASSUME Around, NEW p \in Payments, NEW short \in BOOLEAN, RecordPayment(Chat, p, short)
      PROVE  /\ state'[Chat] # "none"
             /\ Straight' =>
                  /\ Straight /\ slot'[Chat] = slot[Chat]
                  /\ state'[Chat] = "booked" => state[Chat] = "booked"
  <2> DEFINE disp == Disposition(Chat, short)
  <2>1. /\ payDisp[p] = "none" /\ payHold'[p] = Chat /\ payDisp'[p] = disp
        /\ state'[Chat] = StateAfter(Chat, disp) /\ slot' = slot
        /\ \A q \in Payments \ {p} : payHold'[q] = payHold[q] /\ payDisp'[q] = payDisp[q]
    BY <1>1, <1>5 DEF RecordPayment, StoreTypeOK
  <2>2. disp = "applied" => state[Chat] = "held"
    BY <1>1 DEF Disposition, StoreTypeOK, HoldStates
  <2>3. disp \in {"applied", "excess", "short", "late_booked", "late_unbooked"}
    BY DEF Disposition
  <2>4. Straight' => disp \notin {"late_booked", "late_unbooked"}
    BY <2>1 DEF Straight, Undisturbed
  <2> HIDE DEF disp
  <2>5. /\ state'[Chat] # "none"
        /\ disp \in {"excess", "short"} => state'[Chat] = state[Chat]
        /\ disp = "applied" => state'[Chat] = "paid"
    BY <2>1, <2>3 DEF StateAfter
  <2>6. Straight' => Straight
    BY <1>2, <1>5, <2>1, <2>2, <2>3, <2>4, <2>5
  <2> QED  BY <2>1, <2>3, <2>4, <2>5, <2>6
<1>6. ASSUME Around, MarkBooked(Chat), NEW w \in Workers, pc[w] = "markb"
      PROVE  /\ state'[Chat] # "none"
             /\ Straight' => Straight /\ slot'[Chat] = slot[Chat]
  <2>1. state[Chat] = "paid" /\ state'[Chat] = "booked" /\ UNCHANGED slot /\ UNCHANGED paymentVars
    BY <1>1, <1>6 DEF MarkBooked, StoreTypeOK
  <2> QED  BY <1>2, <1>6, <2>1 DEF paymentVars
<1>7. ASSUME NEW w \in Workers, NEW s \in Slots, TurnHolds(w, s) PROVE FALSE
  BY <1>7 DEF TurnHolds, Acquire
<1>8. CASE round' = round + 1 /\ state'[Chat] = "paid"
  BY <1>1, <1>8 DEF Straight, Undisturbed
<1> QED  BY <1>3, <1>4, <1>5, <1>6, <1>7, <1>8, HoldSteps

LEMMA PutAt ==
    ASSUME WorldTypeOK, NEW s \in Slots, NEW kind
    PROVE  /\ Put(s, kind)[s] = kind
           /\ \A t \in Slots \ {s} : Put(s, kind)[t] = event[t] \/ Put(s, kind)[t] = "none"
  BY DEF Put

\* A call that arrives at no place of the calendar keeps the others' course.
LEMMA AwayOnCourse ==
    ASSUME Straight, StandsInv, slot'[Chat] = slot[Chat],
           event[slot[Chat]] # "none" => event'[slot[Chat]] # "none",
           \A v \in Workers : pc'[v] \in AtCalendar =>
               pc'[v] = pc[v] /\ mode'[v] = mode[v] /\ row'[v] = row[v]
    PROVE  \A v \in Workers : OnCourse(v)'
  BY DEF StandsInv, OnCourse, AtCalendar

\* While the hold goes straight, every step keeps the calls' course and takes no event away.
LEMMA StraightSteps ==
    ASSUME CallInv, StandsInv, [Next]_vars, state[Chat] # "none", Straight, Straight', slot'[Chat] = slot[Chat]
    PROVE  /\ \A s \in Slots : event'[s] # "none" => s = slot[Chat]
           /\ event[slot[Chat]] # "none" => event'[slot[Chat]] # "none"
           /\ \A v \in Workers : OnCourse(v)'
<1> DEFINE EventStays ==
               /\ \A s \in Slots : event'[s] # "none" => s = slot[Chat]
               /\ event[slot[Chat]] # "none" => event'[slot[Chat]] # "none"
           Away == \A v \in Workers : pc'[v] \in AtCalendar =>
                       pc'[v] = pc[v] /\ mode'[v] = mode[v] /\ row'[v] = row[v]
           Goal == EventStays /\ \A v \in Workers : OnCourse(v)'
<1> SUFFICES Goal  OBVIOUS
<1>1. StoreTypeOK /\ WorldTypeOK /\ WorkTypeOK /\ IInv /\ Chat \in Holds
  BY TypeParts, SettleAssumption DEF CallInv
<1>2. slot[Chat] \in Slots /\ Placed /\ \A v \in Workers : OnCourse(v)
  BY <1>1 DEF IInv, RowInv, StandsInv
<1>3. state[Chat] \in {"held", "paid", "booked"} /\ state'[Chat] \in {"held", "paid", "booked"} /\ ~Taken(slot[Chat])
  BY DEF Straight, Undisturbed
<1>a. UNCHANGED event => EventStays  BY <1>2 DEF Placed
<1>b. EventStays /\ Away => Goal  BY AwayOnCourse
<1>c. ASSUME NEW w \in Workers, Done(w) PROVE Away
  BY <1>1, <1>c DEF Done, WorkTypeOK, AtCalendar
<1>d. ASSUME NEW w \in Workers, NEW place \in Places \ AtCalendar, Goto(w, place) PROVE Away
  BY <1>1, <1>d DEF Goto, memory, WorkTypeOK
<1>e. ASSUME NEW w \in Workers, NEW m, NEW place \in Places \ AtCalendar, Enter(w, m, place) PROVE Away
  BY <1>1, <1>e DEF Enter, WorkTypeOK
<1>f. UNCHANGED workVars => Away  BY DEF workVars, memory
<1>g. \A kind \in {"hold", "booking"} : event' \in {event, Put(slot[Chat], kind)} => EventStays
  BY <1>1, <1>2, PutAt DEF Placed
<1> HIDE DEF EventStays, Away, Goal
<1> USE DEF worldVars
<1>4. ASSUME NEW w \in Workers, NEW s \in Slots, TurnHolds(w, s) PROVE Goal
  BY <1>4 DEF TurnHolds, Acquire
<1>5. ASSUME NEW w \in Workers, NEW s \in Slots, Tap(w, s) PROVE Goal
  BY <1>5, <1>3 DEF Tap, Rebook, RebookOutcome
<1>6. ASSUME NEW w \in Workers, TurnAgain(w) \/ CallSettle(w) \/ Poll(w) \/ CallRelease(w) PROVE Goal
  BY <1>6, <1>a, <1>b, <1>e DEF TurnAgain, CallSettle, Poll, CallRelease, Places, AtCalendar
<1>7. ASSUME NEW w \in Workers, TapClears(w) \/ TapLate(w) PROVE Goal
  BY <1>7, <1>a, <1>b, <1>f, <1>3 DEF TapClears, TapLate
<1>8. CASE Sweep
  <2>1. Sweeper \in Workers /\ \E m : Enter(Sweeper, m, "ask")  BY <1>8, SettleAssumption DEF Sweep
  <2> QED  BY <1>8, <2>1, <1>a, <1>b, <1>e DEF Sweep, Places, AtCalendar
<1>9. ASSUME NEW w \in Workers, Step(w) PROVE Goal
  <2>1. CASE InsertEvent(w)
    <3>1. EventStays  BY <2>1, <1>a, <1>g DEF InsertEvent, Inserted
    <3> QED  BY <2>1, <3>1, <1>b, <1>d DEF InsertEvent, Places, AtCalendar
  <2>2. CASE GiveUp(w) \/ RowShowsEvent(w) \/ SecondLook(w) \/ MakeCode(w)
    BY <2>2, <1>a, <1>b, <1>c, <1>d, <1>e DEF GiveUp, RowShowsEvent, SecondLook, MakeCode, Places, AtCalendar
  <2>3. CASE Ask(w) \/ Record(w) \/ PageMoney(w)
    <3>1. CASE Done(w)  BY <2>3, <3>1, <1>a, <1>b, <1>c DEF Ask, Record, PageMoney
    <3>2. CASE ~Done(w)
      <4>1. UNCHANGED <<mode, row>> /\ (pc' = pc \/ \E place \in {"record", "reread"} : pc' = [pc EXCEPT ![w] = place])
        BY <2>3, <3>2 DEF Ask, Record, PageMoney
      <4>2. Away  BY <4>1, <1>1 DEF Away, WorkTypeOK, AtCalendar
      <4> QED  BY <2>3, <4>2, <1>a, <1>b DEF Ask, Record, PageMoney
    <3> QED  BY <3>1, <3>2
  <2>4. CASE Reread(w)
    <3>1. CASE Done(w)  BY <2>4, <3>1, <1>a, <1>b, <1>c DEF Reread
    <3>2. CASE ~Done(w)
      <4> DEFINE place == AfterReread(state[Chat], mode[w])
      <4>1. /\ pc' = [pc EXCEPT ![w] = place]
            /\ row' = [row EXCEPT ![w] = RowNow]
            /\ \A v \in Workers \ {w} : mode'[v] = mode[v]
            /\ UNCHANGED event
        BY <2>4, <3>2, <1>1 DEF Reread, WorkTypeOK
      <4>2. place \in {"say", "look", "end", "idle"}
        BY <1>3 DEF AfterReread
      <4> HIDE DEF place
      <4>3. pc'[w] = place /\ row'[w].slot = slot[Chat]
        BY <4>1, <1>1 DEF WorkTypeOK, RowNow
      <4>4. OnCourse(w)'  BY <4>2, <4>3 DEF OnCourse
      <4>5. ASSUME NEW v \in Workers \ {w} PROVE OnCourse(v)'
        <5>1. pc'[v] = pc[v] /\ row'[v] = row[v] /\ mode'[v] = mode[v]  BY <4>1, <1>1 DEF WorkTypeOK
        <5> QED  BY <5>1, <4>1, <1>2 DEF OnCourse
      <4> QED  BY <4>1, <4>4, <4>5, <1>a DEF Goal
    <3> QED  BY <3>1, <3>2
  <2>5. CASE Look(w)
    <3>1. CASE Done(w)  BY <2>5, <3>1, <1>a, <1>b, <1>c DEF Look
    <3>2. CASE ~Done(w)
      <4>1. pc[w] = "look" /\ row[w].slot = slot[Chat]  BY <2>5, <1>2 DEF Look, OnCourse
      <4>2. pc' = [pc EXCEPT ![w] = "write"] /\ UNCHANGED <<mode, row, event>>
        BY <2>5, <3>2, <4>1, <1>3 DEF Look, Goto, memory
      <4>3. ASSUME NEW v \in Workers PROVE OnCourse(v)'
        BY <4>1, <4>2, <1>1, <1>2 DEF OnCourse, WorkTypeOK
      <4> QED  BY <4>2, <4>3, <1>a DEF Goal
    <3> QED  BY <3>1, <3>2
  <2>6. CASE Unbook(w) \/ Remove(w)
    BY <2>6, <1>2 DEF Unbook, Remove, OnCourse
  <2>7. CASE Write(w)
    <3>1. pc[w] = "write" /\ row[w].slot = slot[Chat]  BY <2>7, <1>2 DEF Write, OnCourse
    <3>2. EventStays  BY <2>7, <3>1, <1>g DEF Write
    <3>3. CASE Done(w)  BY <3>2, <3>3, <1>b, <1>c
    <3>4. CASE ~Done(w)
      <4>1. event' = Put(slot[Chat], "booking") /\ pc' = [pc EXCEPT ![w] = "markb"] /\ UNCHANGED <<mode, row>>
        BY <2>7, <3>1, <3>4 DEF Write, Goto, memory
      <4>2. event'[slot[Chat]] # "none"  BY <4>1, <1>1, <1>2, PutAt
      <4>3. ASSUME NEW v \in Workers PROVE OnCourse(v)'
        BY <3>1, <4>1, <4>2, <1>1, <1>2 DEF OnCourse, WorkTypeOK
      <4> QED  BY <3>2, <4>3 DEF Goal
    <3> QED  BY <3>3, <3>4
  <2>8. CASE MarkB(w)
    <3>1. CASE Done(w)  BY <2>8, <3>1, <1>a, <1>b, <1>c DEF MarkB
    <3>2. CASE ~Done(w)
      <4>1. pc' = [pc EXCEPT ![w] = "say"] /\ mode' = [mode EXCEPT ![w] = "booking"] /\ UNCHANGED row
        BY <2>8, <3>2 DEF MarkB
      <4>2. Away  BY <4>1, <1>1 DEF Away, WorkTypeOK, AtCalendar
      <4> QED  BY <2>8, <4>2, <1>a, <1>b DEF MarkB
    <3> QED  BY <3>1, <3>2
  <2>9. CASE End(w)
    <3>1. CASE Done(w)  BY <2>9, <3>1, <1>a, <1>b, <1>c DEF End
    <3>2. CASE ~Done(w)
      <4>1. EndHold(Chat, mode[w])  BY <2>9, <3>2 DEF End
      <4>2. state'[Chat] \in {"expired", "released"}  BY <4>1, <1>1 DEF EndHold, StoreTypeOK
      <4> QED  BY <4>2, <1>3
    <3> QED  BY <3>1, <3>2
  <2>10. CASE Cancel(w)
    <3>1. mode[w] = "booking"  BY <2>10, <1>2 DEF Cancel, OnCourse
    <3>2. Done(w)  BY <2>10, <3>1 DEF Cancel, AfterCancel
    <3> QED  BY <2>10, <3>2, <1>a, <1>b, <1>c DEF Cancel
  <2>11. CASE Tell(w) \/ Say(w) \/ Send(w)
    BY <2>11, <1>a, <1>b, <1>c, <1>d DEF Tell, Say, Send, Places, Outcomes, AtCalendar
  <2>12. CASE Offer(w) \/ Page(w)
    <3>1. CASE Done(w) \/ \E place \in {"offered", "nothing", "undelivered"} : Goto(w, place)
      BY <2>12, <3>1, <1>a, <1>b, <1>c, <1>d DEF Offer, Page, Places, Outcomes, AtCalendar
    <3>2. CASE ~(Done(w) \/ \E place \in {"offered", "nothing", "undelivered"} : Goto(w, place))
      <4>1. UNCHANGED <<mode, row>> /\ \E place \in {"send", "told", "say"} : pc' = [pc EXCEPT ![w] = place]
        BY <2>12, <3>2 DEF Offer, Page
      <4>2. Away  BY <4>1, <1>1 DEF Away, WorkTypeOK, AtCalendar
      <4> QED  BY <2>12, <4>2, <1>a, <1>b DEF Offer, Page
    <3> QED  BY <3>1, <3>2
  <2>13. CASE Told(w) \/ Untold(w)
    <3>1. UNCHANGED event  BY <2>13 DEF Told, Untold
    <3>2. CASE mode[w] # "booking"
      <4>1. Done(w)  BY <2>13, <3>2 DEF Told, Untold, Finish
      <4> QED  BY <3>1, <4>1, <1>a, <1>b, <1>c
    <3>3. CASE mode[w] = "booking"
      <4>1. pc' = [pc EXCEPT ![w] = "cancel"] /\ UNCHANGED <<mode, row>>
        BY <2>13, <3>3 DEF Told, Untold, Finish, Goto, memory
      <4>2. ASSUME NEW v \in Workers PROVE OnCourse(v)'
        BY <3>1, <3>3, <4>1, <1>1, <1>2 DEF OnCourse, WorkTypeOK
      <4> QED  BY <3>1, <4>2, <1>a DEF Goal
    <3> QED  BY <3>2, <3>3
  <2> QED  BY <1>9, <2>1, <2>2, <2>3, <2>4, <2>5, <2>6, <2>7, <2>8, <2>9, <2>10, <2>11, <2>12, <2>13 DEF Step
<1>10. ASSUME NEW w \in Workers, Die(w) PROVE Goal
  BY <1>10, <1>a, <1>b, <1>c DEF Die
<1>11. CASE (\E p \in Payments : Pay(p)) \/ (\E s \in Slots : PersonBooks(s))
  BY <1>11, <1>a, <1>b, <1>f DEF Pay, PersonBooks
<1>12. CASE Rivals \/ CodeAges \/ HoldRunsOut \/ Time
  BY <1>12, <1>a, <1>b, <1>f DEF Rivals, CodeAges, HoldRunsOut, Time
<1>13. CASE UNCHANGED vars
  BY <1>13, <1>a, <1>b, <1>f DEF vars
<1> QED  BY <1>4, <1>5, <1>6, <1>7, <1>8, <1>9, <1>10, <1>11, <1>12, <1>13 DEF Next

\* Before there is a hold no call is in flight and no event of ours stands: the first is TurnHolds.
LEMMA FirstStep ==
    ASSUME CallInv, StandsInv, [Next]_vars, state[Chat] = "none"
    PROVE  StandsInv'
<1>1. StoreTypeOK /\ WorkTypeOK /\ Chat \in Holds
  BY TypeParts, SettleAssumption DEF CallInv
<1>2. (\A w \in Workers : pc[w] = "idle") /\ (\A s \in Slots : event[s] = "none")
  BY DEF StandsInv
<1>a. state'[Chat] = "none" /\ UNCHANGED <<pc, event>> => StandsInv'
  BY <1>2 DEF StandsInv, Straight
<1>b. UNCHANGED storeVars => state'[Chat] = "none"  BY DEF storeVars, holdVars
<1> USE DEF worldVars, workVars
<1>3. ASSUME NEW w \in Workers, NEW s \in Slots, TurnHolds(w, s) PROVE StandsInv'
  <2>1. state'[Chat] = "held" /\ UNCHANGED event /\ \A v \in Workers : pc'[v] \in {"idle", "insert"}
    BY <1>1, <1>2, <1>3 DEF TurnHolds, Acquire, Enter, StoreTypeOK, WorkTypeOK
  <2> QED  BY <2>1, <1>2 DEF StandsInv, Placed, OnCourse
<1>4. ASSUME NEW w \in Workers, NEW s \in Slots, Tap(w, s) PROVE FALSE
  BY <1>4 DEF Tap, Rebook, RebookOutcome
<1>5. ASSUME NEW w \in Workers, TurnAgain(w) \/ CallSettle(w) \/ Poll(w) \/ CallRelease(w) \/ TapClears(w) PROVE FALSE
  BY <1>5 DEF TurnAgain, CallSettle, Poll, CallRelease, TapClears
<1>6. ASSUME NEW w \in Workers, TapLate(w) PROVE StandsInv'
  BY <1>6, <1>a, <1>b DEF TapLate, CloseSession, holdVars
<1>7. ~Sweep
  BY DEF Sweep, ToExpire, ToSweep
<1>8. ASSUME NEW w \in Workers, Step(w) \/ Die(w) PROVE FALSE
  BY <1>2, <1>8
  DEF Step, Die, InsertEvent, GiveUp, RowShowsEvent, SecondLook, MakeCode, Ask, Record, PageMoney, Reread,
      Look, Unbook, Write, MarkB, End, Cancel, Remove, Tell, Offer, Page, Say, Send, Told, Untold, Outcomes
<1>9. CASE (\E p \in Payments : Pay(p)) \/ (\E s \in Slots : PersonBooks(s)) \/ CodeAges \/ UNCHANGED vars
  BY <1>9, <1>a, <1>b DEF Pay, PersonBooks, CodeAges, vars
<1>10. CASE Rivals
  BY <1>10, <1>1, <1>a DEF Rivals, RivalTakes, RivalLeaves, Acquire, EndHold, StoreTypeOK
<1>11. CASE HoldRunsOut \/ Time
  BY <1>11, <1>a DEF HoldRunsOut, Time, HoldDue, OfferEnds, SlotBegins, holdVars
<1> QED  BY <1>3, <1>4, <1>5, <1>6, <1>7, <1>8, <1>9, <1>10, <1>11 DEF Next

LEMMA NextStands == CallInv /\ StandsInv /\ [Next]_vars => StandsInv'
<1> SUFFICES ASSUME CallInv, StandsInv, [Next]_vars PROVE StandsInv'
  OBVIOUS
<1>1. CASE state[Chat] = "none"
  BY <1>1, FirstStep
<1>2. CASE state[Chat] # "none"
  <2>1. state'[Chat] # "none"  BY <1>2, StraightBack
  <2>2. ASSUME Straight' PROVE Placed' /\ \A w \in Workers : OnCourse(w)'
    <3>1. /\ Straight /\ slot'[Chat] = slot[Chat]
          /\ state'[Chat] = "booked" => state[Chat] = "booked" \/ \E w \in Workers : pc[w] = "markb"
      BY <1>2, <2>2, StraightBack
    <3>2. /\ \A s \in Slots : event'[s] # "none" => s = slot[Chat]
          /\ event[slot[Chat]] # "none" => event'[slot[Chat]] # "none"
          /\ \A w \in Workers : OnCourse(w)'
      BY <1>2, <2>2, <3>1, StraightSteps
    <3>3. Placed /\ \A w \in Workers : OnCourse(w)  BY <3>1 DEF StandsInv
    <3>4. state'[Chat] = "booked" => event[slot[Chat]] # "none"
      BY <3>1, <3>3 DEF Placed, OnCourse
    <3> QED  BY <3>1, <3>2, <3>4 DEF Placed
  <2> QED  BY <2>1, <2>2 DEF StandsInv
<1> QED  BY <1>1, <1>2

\* Whatever calls about a deposit overlap, fail or die, and over however many calendars: unless it
\* was paid late, moved, or met by somebody else's event, its event stands in the calendar at its
\* time and nowhere else once its row says booked (engine.ts:528-530).
THEOREM BookedStandsInCalendar == Spec => []BookedIsInCalendar
<1>1. CallInv /\ StandsInv => BookedIsInCalendar
  <2> SUFFICES ASSUME CallInv, StandsInv, state[Chat] = "booked", Undisturbed, NEW s \in Slots
               PROVE  event[s] # "none" <=> s = slot[Chat]
    BY DEF BookedIsInCalendar
  <2>1. Placed  BY DEF StandsInv, Straight
  <2> QED  BY <2>1 DEF Placed
<1>2. CallInv /\ StandsInv /\ [Next]_vars => StandsInv'  BY NextStands
<1> QED  BY <1>1, <1>2, InitStands, CallsInvariant, PTL DEF Spec
=============================================================================
