---------------------------- MODULE BookingStore ----------------------------
(***************************************************************************)
(* The booking tables of supabase/migrations/0082_booking.sql and the      *)
(* transactions on them: what they promise whoever calls them, in any      *)
(* order, any number of times.                                             *)
(*                                                                         *)
(* A hold is one row of booking_holds, a slot one stylist's calendar at    *)
(* one time; two slots overlap when they share the calendar and their      *)
(* half-open ranges meet.  A session is one booking chat of a customer.    *)
(* Every database function takes the row lock of its hold and, when it     *)
(* takes a time, the advisory lock of that calendar before it looks for a  *)
(* clash, so each is one step here.  Clocks are three facts that the       *)
(* environment turns on: a hold's end has come, a slot has begun, the half *)
(* hour after a deposit lost its time is over.                             *)
(*                                                                         *)
(* BookingSettle runs the platform's calls on top of these transactions.   *)
(***************************************************************************)
EXTENDS Naturals, FiniteSets

CONSTANTS
    Holds,       \* rows booking_holds may get
    Slots,       \* (calendar, start, end)
    Overlap,     \* the pairs of slots that share time on one calendar
    Sessions,    \* booking chats
    CustomerOf,  \* the customer of each chat
    Payments,    \* QPay payment ids
    NoSlot, NoSession, NoHold

ASSUME StoreAssumption ==
    /\ Overlap \subseteq Slots \X Slots
    /\ \A s \in Slots : <<s, s>> \in Overlap
    /\ \A s, t \in Slots : <<s, t>> \in Overlap => <<t, s>> \in Overlap
    /\ DOMAIN CustomerOf = Sessions
    /\ NoSlot \notin Slots
    /\ NoSession \notin Sessions
    /\ NoHold \notin Holds

VARIABLES
    state,      \* booking_holds.state; "none" before the row exists
    slot,       \* calendar_id, starts_at, ends_at
    session,    \* session_id
    calHeld,    \* the holds with calendar_state = 'held': the row says our busy event is there
    closed,     \* the chats whose session row is closed
    payHold,    \* booking_payments.hold_id
    payDisp,    \* booking_payments.disposition
    due,        \* the holds with now() >= expires_at
    begun,      \* the slots with starts_at <= now()
    offerOver   \* the holds with now() > ended_at + 30 minutes

holdVars == <<state, slot, session, calHeld>>
paymentVars == <<payHold, payDisp>>
clockVars == <<due, begun, offerOver>>
storeVars == <<holdVars, closed, paymentVars, clockVars>>

HoldStates == {"none", "held", "paid", "booked", "expired", "released", "paid_unbooked"}
Dispositions == {"none", "applied", "excess", "short", "late_booked", "late_unbooked"}

\* The states whose time nobody else may have.
Active == {"held", "paid", "booked"}
\* The states of a hold whose deposit has been paid.
Funded == {"paid", "booked", "paid_unbooked"}
\* The dispositions of the payment that paid the hold.
Pays == {"applied", "late_booked", "late_unbooked"}

StoreTypeOK ==
    /\ state \in [Holds -> HoldStates]
    /\ slot \in [Holds -> Slots \cup {NoSlot}]
    /\ session \in [Holds -> Sessions \cup {NoSession}]
    /\ calHeld \subseteq Holds
    /\ closed \subseteq Sessions
    /\ payHold \in [Payments -> Holds \cup {NoHold}]
    /\ payDisp \in [Payments -> Dispositions]
    /\ due \subseteq Holds
    /\ begun \subseteq Slots
    /\ offerOver \subseteq Holds

StoreInit ==
    /\ state = [h \in Holds |-> "none"]
    /\ slot = [h \in Holds |-> NoSlot]
    /\ session = [h \in Holds |-> NoSession]
    /\ calHeld = {}
    /\ closed = {}
    /\ payHold = [p \in Payments |-> NoHold]
    /\ payDisp = [p \in Payments |-> "none"]
    /\ due = {}
    /\ begun = {}
    /\ offerOver = {}

(***************************************************************************)
(* What the transactions look up                                           *)
(***************************************************************************)

\* Fault: only holds still waiting for their deposit are looked at.
ClashWithHeldOnly(h, s) ==
    \E g \in Holds \ {h} : state[g] = "held" /\ <<slot[g], s>> \in Overlap

\* An active hold other than h whose time meets slot s.
Clash(h, s) ==
    \E g \in Holds \ {h} : state[g] \in Active /\ <<slot[g], s>> \in Overlap

\* A payment has paid this hold.
HasPayment(h) == \E p \in Payments : payHold[p] = h /\ payDisp[p] \in Pays

SessionHolds(se) == \E g \in Holds : state[g] = "held" /\ session[g] = se

CustomerHolds(se) ==
    \E g \in Holds : state[g] = "held" /\ CustomerOf[session[g]] = CustomerOf[se]

\* What booking_acquire_hold answers, in the order it asks.
AcquireOutcome(h, se, s) ==
    IF se \in closed THEN "no_session"
    ELSE IF SessionHolds(se) THEN "session_has_hold"
    ELSE IF CustomerHolds(se) THEN "customer_has_hold"
    ELSE IF Clash(h, s) THEN "taken"
    ELSE "held"

(***************************************************************************)
(* The transactions                                                        *)
(***************************************************************************)

\* booking_acquire_hold: a new row takes the time.
Acquire(h, se, s) ==
    /\ state[h] = "none"
    /\ AcquireOutcome(h, se, s) = "held"
    /\ state' = [state EXCEPT ![h] = "held"]
    /\ slot' = [slot EXCEPT ![h] = s]
    /\ session' = [session EXCEPT ![h] = se]
    /\ UNCHANGED <<calHeld, closed, paymentVars, clockVars>>

\* setHoldExpiry: the held time's end moves to its QR's, if it is still held.
ExtendHold(h) ==
    /\ state[h] = "held"
    /\ due' = due \ {h}
    /\ UNCHANGED <<holdVars, closed, paymentVars, begun, offerOver>>

\* booking_end_hold answers one of these; only the last changes the row.
EndOutcome(h, kind) ==
    IF state[h] # "held" THEN "not_held"
    ELSE IF HasPayment(h) THEN "has_payment"
    ELSE IF kind = "expired" /\ h \notin due THEN "not_due"
    ELSE kind

\* Fault: the row's state is not asked first, as a sweep over expired times would do it.
EndHoldAnyState(h, kind) ==
    /\ state[h] # "none" /\ h \in due
    /\ state' = [state EXCEPT ![h] = kind]
    /\ UNCHANGED <<slot, session, calHeld, closed, paymentVars, clockVars>>

\* booking_end_hold: an unpaid hold gives its time back.
EndHold(h, kind) ==
    /\ kind \in {"expired", "released"}
    /\ EndOutcome(h, kind) = kind
    /\ state' = [state EXCEPT ![h] = kind]
    /\ UNCHANGED <<slot, session, calHeld, closed, paymentVars, clockVars>>

\* What the money does: short, a second payment, the payment, or one that came late.
Disposition(h, short) ==
    IF short THEN "short"
    ELSE IF HasPayment(h) \/ state[h] \in Funded THEN "excess"
    ELSE IF state[h] = "held" THEN "applied"
    ELSE IF ~Clash(h, slot[h]) /\ slot[h] \notin begun THEN "late_booked"
    ELSE "late_unbooked"

\* The state the hold has after a payment of that disposition.
StateAfter(h, disp) ==
    IF disp \in {"applied", "late_booked"} THEN "paid"
    ELSE IF disp = "late_unbooked" THEN "paid_unbooked"
    ELSE state[h]

\* booking_record_payment: evidence first, keyed by QPay's payment id, then the hold.  A key
\* already recorded changes nothing.
RecordPayment(h, p, short) ==
    /\ state[h] # "none"
    /\ payDisp[p] = "none"
    /\ LET disp == Disposition(h, short) IN
       /\ payHold' = [payHold EXCEPT ![p] = h]
       /\ payDisp' = [payDisp EXCEPT ![p] = disp]
       /\ state' = [state EXCEPT ![h] = StateAfter(h, disp)]
       /\ offerOver' = IF disp = "late_unbooked" THEN offerOver \ {h} ELSE offerOver
    /\ UNCHANGED <<slot, session, calHeld, closed, due, begun>>

\* booking_mark_booked: the calendar holds the booking.
MarkBooked(h) ==
    /\ state[h] = "paid"
    /\ state' = [state EXCEPT ![h] = "booked"]
    /\ calHeld' = calHeld \ {h}
    /\ UNCHANGED <<slot, session, closed, paymentVars, clockVars>>

\* booking_mark_unbooked: paid, and the time cannot be had.
MarkUnbooked(h) ==
    /\ state[h] = "paid"
    /\ state' = [state EXCEPT ![h] = "paid_unbooked"]
    /\ offerOver' = offerOver \ {h}
    /\ UNCHANGED <<slot, session, calHeld, closed, paymentVars, due, begun>>

\* booking_rebook_hold answers one of these; only the last changes the row.
RebookOutcome(h, s) ==
    IF state[h] # "paid_unbooked" THEN "not_paid_unbooked"
    ELSE IF h \in offerOver THEN "offer_over"
    ELSE IF s \in begun THEN "invalid"
    ELSE IF h \in calHeld THEN "calendar_busy"
    ELSE IF Clash(h, s) THEN "taken"
    ELSE "rebooked"

\* booking_rebook_hold: the paid deposit takes another time and is paid again.
Rebook(h, s) ==
    /\ RebookOutcome(h, s) = "rebooked"
    /\ state' = [state EXCEPT ![h] = "paid"]
    /\ slot' = [slot EXCEPT ![h] = s]
    /\ UNCHANGED <<session, calHeld, closed, paymentVars, clockVars>>

(***************************************************************************)
(* The plain updates                                                       *)
(***************************************************************************)

\* setCalendarState, after a write to the calendar: to held, or to deleted.
SetCalendarState(h, there) ==
    /\ state[h] # "none"
    /\ calHeld' = IF there THEN calHeld \cup {h} ELSE calHeld \ {h}
    /\ UNCHANGED <<state, slot, session, closed, paymentVars, clockVars>>

\* closeSessionRow.
CloseSession(se) ==
    /\ closed' = closed \cup {se}
    /\ UNCHANGED <<holdVars, paymentVars, clockVars>>

(***************************************************************************)
(* Time                                                                    *)
(***************************************************************************)

HoldDue(h) ==
    /\ state[h] = "held"
    /\ due' = due \cup {h}
    /\ UNCHANGED <<holdVars, closed, paymentVars, begun, offerOver>>

SlotBegins(s) ==
    /\ begun' = begun \cup {s}
    /\ UNCHANGED <<holdVars, closed, paymentVars, due, offerOver>>

OfferEnds(h) ==
    /\ state[h] = "paid_unbooked"
    /\ offerOver' = offerOver \cup {h}
    /\ UNCHANGED <<holdVars, closed, paymentVars, due, begun>>

StoreNext ==
    \/ \E h \in Holds, se \in Sessions, s \in Slots : Acquire(h, se, s)
    \/ \E h \in Holds : ExtendHold(h)
    \/ \E h \in Holds, kind \in {"expired", "released"} : EndHold(h, kind)
    \/ \E h \in Holds, p \in Payments, short \in BOOLEAN : RecordPayment(h, p, short)
    \/ \E h \in Holds : MarkBooked(h)
    \/ \E h \in Holds : MarkUnbooked(h)
    \/ \E h \in Holds, s \in Slots : Rebook(h, s)
    \/ \E h \in Holds, there \in BOOLEAN : SetCalendarState(h, there)
    \/ \E se \in Sessions : CloseSession(se)
    \/ \E h \in Holds : HoldDue(h)
    \/ \E s \in Slots : SlotBegins(s)
    \/ \E h \in Holds : OfferEnds(h)

StoreSpec == StoreInit /\ [][StoreNext]_storeVars

(***************************************************************************)
(* What the tables promise                                                 *)
(***************************************************************************)

\* A time is never held twice: no two holds that are held, paid or booked share time on one
\* calendar, although a late payment and a moved deposit take times without a new hold.
OneHoldPerTime ==
    \A g, h \in Holds :
        g # h /\ state[g] \in Active /\ state[h] \in Active => <<slot[g], slot[h]>> \notin Overlap

\* One customer has at most one time waiting for a deposit, whichever of their chats asked.
OneHeldPerCustomer ==
    \A g, h \in Holds :
        g # h /\ state[g] = "held" /\ state[h] = "held" => CustomerOf[session[g]] # CustomerOf[session[h]]

\* However often QPay's answer is recorded, and however many codes were paid, exactly one
\* payment is the deposit; every other one is excess or short.
OnePaymentPays ==
    \A p, q \in Payments :
        p # q /\ payDisp[p] \in Pays /\ payDisp[q] \in Pays => payHold[p] # payHold[q]

\* A hold is past its deposit exactly when a payment paid it: none is booked on no money, and
\* none that was paid is expired or released by a timer, a cancel or a lost race.
MoneyDecides ==
    \A h \in Holds : state[h] \in Funded <=> HasPayment(h)
=============================================================================
