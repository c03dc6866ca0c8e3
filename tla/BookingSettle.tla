--------------------------- MODULE BookingSettle ---------------------------
(***************************************************************************)
(* The platform's calls around one deposit, interleaved: the turn that     *)
(* places the held time in the calendar, settleHold whoever calls it       *)
(* (QPay's callback, the pay page's poll, a message, the minute sweep),    *)
(* expireHold, and the customer's tap on a rebook offer.                   *)
(* Source: src/lib/booking/engine.ts, turn.ts and jobs.ts, over the        *)
(* transactions of BookingStore.                                           *)
(*                                                                         *)
(* A worker is one call in flight; each of its steps ends at an awaited    *)
(* answer of the database, QPay, the calendar or the customer's chat.      *)
(* Workers interleave anywhere, any awaited call may fail (one whose       *)
(* answer is lost may have been applied), and a worker may die anywhere.   *)
(*                                                                         *)
(* The calls are for the hold Chat; other holds take and leave times by    *)
(* the same transactions.  Foreign events are what the website or a person *)
(* writes into a calendar.  Chat's QR codes are one thing here: code, the  *)
(* state of their rows.  The founder's pages always arrive.                *)
(***************************************************************************)
EXTENDS BookingStore

CONSTANTS
    Chat,        \* the hold the calls are for
    OwnSession,  \* its booking chat
    Workers,     \* calls that may be in flight at once
    Callers,     \* those a customer, QPay or the pay page may start
    Sweeper,     \* the one the minute sweep runs on
    CalendarOf,  \* the calendar of each slot: one event of ours per calendar
    Short,       \* the payments below the deposit
    MaxRounds,   \* bound: how often the deposit is moved to another time
    MaxForeign,  \* bound: events the website or a person writes
    MaxFaults    \* bound: failures and deaths

ASSUME SettleAssumption ==
    /\ Chat \in Holds
    /\ OwnSession \in Sessions
    /\ Sweeper \in Workers /\ Callers \subseteq Workers
    /\ DOMAIN CalendarOf = Slots
    /\ Short \subseteq Payments
    /\ {MaxRounds, MaxForeign, MaxFaults} \subseteq Nat

VARIABLES
    notified,  \* notified_at of Chat is set
    round,     \* how often rebooked_at of Chat was set
    code,      \* booking_invoices.state of Chat's codes; "old" is open for more than a day
    made,      \* QPay: the payments made on Chat's codes
    event,     \* the calendars: our event on each slot
    foreign,   \* the calendars: slots with somebody else's event
    offer,     \* the open chat that carries a rebook offer
    line,      \* outbound_messages.state of each line of Chat
    pages,     \* the founder's pages about a lost time: <<outcome, round>>
    moneyPages,\* the payments paged as excess or short
    pc,        \* where each worker is
    mode,      \* what it was called for
    row,       \* the hold as it last read it
    todo,      \* payments QPay named and it has still to record
    fresh,     \* payments it recorded first
    saying,    \* the line it is sending
    faults     \* failures so far

bookVars == <<notified, round, code>>
worldVars == <<made, event, foreign>>
talkVars == <<offer, line, pages, moneyPages>>
memory == <<mode, row, todo, fresh, saying>>
workVars == <<pc, memory>>
vars == <<storeVars, bookVars, worldVars, talkVars, workVars, faults>>

Rounds == 0 .. MaxRounds
\* The keys notify and applyTurn draft under: the confirmation and the end once, the others once a round.
Lines == {"booked", "expired"} \X {0} \cup {"offer", "plain"} \X Rounds
LineStates == {"none", "sending", "sent", "failed", "indeterminate"}
Outcomes == {"offered", "undelivered", "nothing"}
Row == [state : HoldStates, slot : Slots \cup {NoSlot}, cal : BOOLEAN, told : BOOLEAN, round : Rounds]
Modes == {"none", "turn", "settle", "expired", "released", "booking"}
Places == {"idle", "insert", "giveup", "setcal", "second", "code", "ask", "record", "money", "reread",
           "look", "unbook", "write", "markb", "end", "cancel", "remove", "tell", "offer",
           "say", "send", "told", "untold"} \cup Outcomes

CodeStates == {"none", "open", "old", "paid", "cancelled"}
\* The codes QPay still takes a payment on, and those whose row says open.
Payable == {"open", "old", "paid"}
OpenCodes == {"open", "old"}

NoRow == [state |-> "none", slot |-> NoSlot, cal |-> FALSE, told |-> FALSE, round |-> 0]
RowNow == [state |-> state[Chat], slot |-> slot[Chat], cal |-> Chat \in calHeld,
           told |-> notified, round |-> round]

TypeOK ==
    /\ StoreTypeOK
    /\ notified \in BOOLEAN
    /\ round \in Rounds
    /\ code \in CodeStates
    /\ made \subseteq Payments
    /\ event \in [Slots -> {"none", "hold", "booking"}]
    /\ foreign \subseteq Slots
    /\ offer \in {"no", "own", "new"}
    /\ line \in [Lines -> LineStates]
    /\ pages \subseteq Outcomes \X Rounds
    /\ moneyPages \subseteq Payments
    /\ pc \in [Workers -> Places]
    /\ mode \in [Workers -> Modes]
    /\ row \in [Workers -> Row]
    /\ todo \in [Workers -> SUBSET Payments]
    /\ fresh \in [Workers -> SUBSET Payments]
    /\ saying \in [Workers -> {"nothing", "booked", "expired", "offer", "plain"}]
    /\ faults \in 0 .. MaxFaults

Init ==
    /\ StoreInit
    /\ notified = FALSE
    /\ round = 0
    /\ code = "none"
    /\ made = {}
    /\ event = [s \in Slots |-> "none"]
    /\ foreign = {}
    /\ offer = "no"
    /\ line = [l \in Lines |-> "none"]
    /\ pages = {}
    /\ moneyPages = {}
    /\ pc = [w \in Workers |-> "idle"]
    /\ mode = [w \in Workers |-> "none"]
    /\ row = [w \in Workers |-> NoRow]
    /\ todo = [w \in Workers |-> {}]
    /\ fresh = [w \in Workers |-> {}]
    /\ saying = [w \in Workers |-> "nothing"]
    /\ faults = 0

(***************************************************************************)
(* Helpers                                                                 *)
(***************************************************************************)

Goto(w, place) == pc' = [pc EXCEPT ![w] = place] /\ UNCHANGED memory

\* The call ends: whatever it held in memory is gone.
Done(w) ==
    /\ pc' = [pc EXCEPT ![w] = "idle"]
    /\ mode' = [mode EXCEPT ![w] = "none"]
    /\ row' = [row EXCEPT ![w] = NoRow]
    /\ todo' = [todo EXCEPT ![w] = {}]
    /\ fresh' = [fresh EXCEPT ![w] = {}]
    /\ saying' = [saying EXCEPT ![w] = "nothing"]

\* A call starts, or turns to another function, at that place.
Enter(w, m, place) ==
    /\ pc' = [pc EXCEPT ![w] = place]
    /\ mode' = [mode EXCEPT ![w] = m]
    /\ UNCHANGED <<row, todo, fresh, saying>>

Fault == faults < MaxFaults /\ faults' = faults + 1
NoFault == UNCHANGED faults
Idle(w) == w \in Callers /\ pc[w] = "idle"

\* Somebody else's event takes that time.
Taken(s) == \E t \in foreign : <<t, s>> \in Overlap

SameCalendar(s) == {t \in Slots : CalendarOf[t] = CalendarOf[s]}
\* Our id in that calendar, written at s and so nowhere else in it; or taken out of it.
Put(s, kind) == [t \in Slots |-> IF t = s THEN kind ELSE IF t \in SameCalendar(s) THEN "none" ELSE event[t]]
TakeOut(s) == [t \in Slots |-> IF t \in SameCalendar(s) THEN "none" ELSE event[t]]

\* Fault: closing the chat lets its time go as well.
CloseOwnReleases ==
    /\ closed' = closed \cup {OwnSession}
    /\ state' = [state EXCEPT ![Chat] = "released"]
    /\ offer' = IF offer = "own" THEN "no" ELSE offer
    /\ UNCHANGED <<slot, session, calHeld, paymentVars, clockVars>>
\* closeSession of the hold's own chat; an offer in it goes with it.
CloseOwn == CloseSession(OwnSession) /\ offer' = IF offer = "own" THEN "no" ELSE offer

\* A time that a busy read of the calendars and of the holds shows as free.
Free(s) == s \notin begun /\ ~Taken(s) /\ ~Clash(Chat, s)

(***************************************************************************)
(* holdAndInvoice: the customer agreed                                     *)
(***************************************************************************)

\* The time is taken in the database first.
TurnHolds(w, s) ==
    /\ Idle(w) /\ Free(s)
    /\ Acquire(Chat, OwnSession, s)
    /\ Enter(w, "turn", "insert")
    /\ UNCHANGED <<bookVars, worldVars, talkVars>> /\ NoFault

\* A redelivery of that message picks its hold up again.
TurnAgain(w) ==
    /\ Idle(w) /\ state[Chat] = "held" /\ OwnSession \notin closed
    /\ Enter(w, "turn", IF Chat \in calHeld THEN "second" ELSE "insert")
    /\ UNCHANGED <<storeVars, bookVars, worldVars, talkVars>> /\ NoFault

\* calendar.insert under our own id; an id already there counts as written.
Inserted == IF event[slot[Chat]] = "none" THEN Put(slot[Chat], "hold") ELSE event
InsertEvent(w) ==
    /\ pc[w] = "insert"
    /\ \/ /\ event' = Inserted
          /\ Goto(w, "setcal") /\ NoFault
       \/ /\ event' \in {event, Inserted}   \* refused, or no answer
          /\ Goto(w, "giveup") /\ Fault
    /\ UNCHANGED <<storeVars, bookVars, made, foreign, talkVars>>

\* The calendar refused the hold: the row gives the time back, and nothing else is done.
GiveUp(w) ==
    /\ pc[w] = "giveup"
    /\ \/ EndHold(Chat, "released")
       \/ EndOutcome(Chat, "released") # "released" /\ UNCHANGED storeVars
    /\ Done(w)
    /\ UNCHANGED <<bookVars, worldVars, talkVars>> /\ NoFault

\* setCalendarState(held); a failure is only logged.
RowShowsEvent(w) ==
    /\ pc[w] = "setcal"
    /\ \/ SetCalendarState(Chat, TRUE) /\ NoFault
       \/ UNCHANGED storeVars /\ Fault
    /\ Goto(w, "second")
    /\ UNCHANGED <<bookVars, worldVars, talkVars>>

\* The second look: somebody else's event wins, and so does a calendar that cannot be read.
SecondLook(w) ==
    /\ pc[w] = "second"
    /\ \/ ~Taken(slot[Chat]) /\ Goto(w, "code") /\ NoFault
       \/ Taken(slot[Chat]) /\ Enter(w, "released", "ask") /\ NoFault
       \/ Enter(w, "released", "ask") /\ Fault
    /\ UNCHANGED <<storeVars, bookVars, worldVars, talkVars>>

\* currentInvoice: the code that is out, or a new one, shown only once the hold lasts as long
\* as it does.  No code: the time is let go.
MakeCode(w) ==
    /\ pc[w] = "code"
    /\ \/ /\ Chat \notin due /\ code # "open"
          /\ ExtendHold(Chat) /\ code' = "open"
          /\ Done(w) /\ NoFault
       \/ /\ Chat \notin due /\ code = "open"
          /\ Done(w)
          /\ UNCHANGED <<storeVars, code>> /\ NoFault
       \/ /\ Chat \in due \/ state[Chat] # "held"
          /\ Enter(w, "released", "ask")
          /\ UNCHANGED <<storeVars, code>> /\ NoFault
       \/ /\ Enter(w, "released", "ask")
          /\ UNCHANGED <<storeVars, code>> /\ Fault
    /\ UNCHANGED <<notified, round, worldVars, talkVars>>

(***************************************************************************)
(* Who calls settleHold and expireHold                                     *)
(***************************************************************************)

\* QPay's callback, a message, or the pay page.
CallSettle(w) ==
    /\ Idle(w) /\ state[Chat] # "none"
    /\ Enter(w, "settle", "ask")
    /\ UNCHANGED <<storeVars, bookVars, worldVars, talkVars>> /\ NoFault

\* The pay page's poll within its interval: QPay is not asked again.
Poll(w) ==
    /\ Idle(w) /\ state[Chat] # "none"
    /\ Enter(w, "settle", "reread")
    /\ UNCHANGED <<storeVars, bookVars, worldVars, talkVars>> /\ NoFault

\* The customer cancels, or their new QR replaces this hold.
CallRelease(w) ==
    /\ Idle(w) /\ state[Chat] = "held"
    /\ Enter(w, "released", "ask")
    /\ UNCHANGED <<storeVars, bookVars, worldVars, talkVars>> /\ NoFault

\* holdsToSweep: unpaid past their time.
ToExpire == state[Chat] = "held" /\ Chat \in due

\* Fault: a hold that was settled is never looked at again.
ToSweepUnsettled ==
    \/ state[Chat] = "paid"
    \/ state[Chat] \in {"expired", "released", "booked", "paid_unbooked"} /\ code = "open"
\* Fault: a hold that ended is over.
ToSweepPaid ==
    \/ state[Chat] = "paid"
    \/ state[Chat] \in {"booked", "paid_unbooked"} /\ ~notified
\* Paid and not yet in the calendar, settled and untold, or over with a code still open and
\* less than a day old.
ToSweep ==
    \/ state[Chat] = "paid"
    \/ state[Chat] \in {"booked", "paid_unbooked"} /\ ~notified
    \/ state[Chat] \in {"expired", "released", "booked", "paid_unbooked"} /\ code = "open"
Sweep ==
    /\ pc[Sweeper] = "idle"
    /\ \/ ToExpire /\ Enter(Sweeper, "expired", "ask")
       \/ ToSweep /\ Enter(Sweeper, "settle", "ask")
    /\ UNCHANGED <<storeVars, bookVars, worldVars, talkVars>> /\ NoFault

(***************************************************************************)
(* collectPayments                                                         *)
(***************************************************************************)

\* QPay names the payments made on every code, or cannot be read: undetermined.
Ask(w) ==
    /\ pc[w] = "ask"
    /\ \/ /\ pc' = [pc EXCEPT ![w] = "record"]
          /\ todo' = [todo EXCEPT ![w] = made]
          /\ UNCHANGED <<mode, row, fresh, saying>> /\ NoFault
       \/ Done(w) /\ Fault
    /\ UNCHANGED <<storeVars, bookVars, worldVars, talkVars>>

\* One payment: recorded, or a duplicate; a code that paid is no longer open.
Record(w) ==
    /\ pc[w] = "record" /\ todo[w] # {}
    /\ \/ \E p \in todo[w] :
             /\ IF payDisp[p] = "none"
                THEN RecordPayment(Chat, p, p \in Short) /\ fresh' = [fresh EXCEPT ![w] = @ \cup {p}]
                ELSE UNCHANGED <<storeVars, fresh>>
             /\ code' = IF p \notin Short /\ code \in OpenCodes THEN "paid" ELSE code
             /\ todo' = [todo EXCEPT ![w] = @ \ {p}]
             /\ UNCHANGED <<pc, mode, row, saying>> /\ NoFault
       \/ Done(w) /\ UNCHANGED <<storeVars, code>> /\ Fault
    /\ UNCHANGED <<notified, round, worldVars, talkVars>>

\* What the founder is paged about at once.
Paged(ps) == {p \in ps : payDisp[p] \in {"excess", "short"}}

\* Every payment is recorded: those first recorded by this call that book nothing are paged.
PageMoney(w) ==
    /\ pc[w] = "record" /\ todo[w] = {}
    /\ moneyPages' = moneyPages \cup Paged(fresh[w])
    /\ pc' = [pc EXCEPT ![w] = "reread"]
    /\ fresh' = [fresh EXCEPT ![w] = {}]
    /\ UNCHANGED <<mode, row, todo, saying, storeVars, bookVars, worldVars, offer, line, pages>> /\ NoFault

(***************************************************************************)
(* settleHold after the money                                              *)
(***************************************************************************)

\* Fault: paid counts as booked.
AfterRereadEager(st, m) ==
    CASE st \in {"paid", "booked"} -> "say"
      [] st = "paid_unbooked" -> "remove"
      [] st = "held" /\ m \in {"expired", "released"} -> "end"
      [] OTHER -> "idle"
\* What a hold in that state needs from a call of that mode; "idle": nothing.
AfterReread(st, m) ==
    CASE st = "booked" -> "say"
      [] st = "paid_unbooked" -> "remove"
      [] st = "paid" -> "look"
      [] st = "held" /\ m \in {"expired", "released"} -> "end"
      [] OTHER -> "idle"

Reread(w) ==
    /\ pc[w] = "reread"
    /\ \/ LET place == AfterReread(state[Chat], mode[w]) IN
          IF place = "idle" THEN Done(w) /\ NoFault
          ELSE /\ pc' = [pc EXCEPT ![w] = place]
               /\ row' = [row EXCEPT ![w] = RowNow]
               /\ mode' = [mode EXCEPT ![w] = IF place = "end" THEN @ ELSE "settle"]
               /\ saying' = [saying EXCEPT ![w] = IF place = "say" THEN "booked" ELSE @]
               /\ UNCHANGED <<todo, fresh>> /\ NoFault
       \/ Done(w) /\ Fault
    /\ UNCHANGED <<storeVars, bookVars, worldVars, talkVars>>

\* othersInWindow: the calendar is read around the time the row said.
Look(w) ==
    /\ pc[w] = "look"
    /\ \/ Goto(w, IF Taken(row[w].slot) THEN "unbook" ELSE "write") /\ NoFault
       \/ Done(w) /\ Fault
    /\ UNCHANGED <<storeVars, bookVars, worldVars, talkVars>>

\* markUnbooked; what it answers is not looked at.
Unbook(w) ==
    /\ pc[w] = "unbook"
    /\ \/ MarkUnbooked(Chat) /\ Goto(w, "remove") /\ NoFault
       \/ state[Chat] # "paid" /\ UNCHANGED storeVars /\ Goto(w, "remove") /\ NoFault
       \/ UNCHANGED storeVars /\ Done(w) /\ Fault
    /\ UNCHANGED <<bookVars, worldVars, talkVars>>

\* writeBooking: patch, or insert when our id is gone from that calendar.
Write(w) ==
    /\ pc[w] = "write"
    /\ \/ event' = Put(row[w].slot, "booking") /\ Goto(w, "markb") /\ NoFault
       \/ event' \in {event, Put(row[w].slot, "booking")} /\ Done(w) /\ Fault
    /\ UNCHANGED <<storeVars, bookVars, made, foreign, talkVars>>

\* markBooked, then confirmBooked.
MarkB(w) ==
    /\ pc[w] = "markb"
    /\ \/ /\ MarkBooked(Chat) \/ (state[Chat] = "booked" /\ UNCHANGED storeVars)
          /\ pc' = [pc EXCEPT ![w] = "say"]
          /\ mode' = [mode EXCEPT ![w] = "booking"]
          /\ saying' = [saying EXCEPT ![w] = "booked"]
          /\ UNCHANGED <<row, todo, fresh>> /\ NoFault
       \/ state[Chat] \notin {"paid", "booked"} /\ UNCHANGED storeVars /\ Done(w) /\ NoFault
       \/ UNCHANGED storeVars /\ Done(w) /\ Fault
    /\ UNCHANGED <<bookVars, worldVars, talkVars>>

(***************************************************************************)
(* expireHold after settleHold                                             *)
(***************************************************************************)

\* Fault: what end_hold answered is not looked at.
EndUnasked(w) ==
    /\ pc[w] = "end"
    /\ \/ /\ EndHold(Chat, mode[w]) \/ (EndOutcome(Chat, mode[w]) # mode[w] /\ UNCHANGED storeVars)
          /\ pc' = [pc EXCEPT ![w] = "cancel"]
          /\ row' = [row EXCEPT ![w] = RowNow]
          /\ UNCHANGED <<mode, todo, fresh, saying>> /\ NoFault
       \/ (EndHold(Chat, mode[w]) \/ UNCHANGED storeVars) /\ Done(w) /\ Fault
    /\ UNCHANGED <<bookVars, worldVars, talkVars>>
\* booking_end_hold, then the row read again; an answer lost after it ended the hold ends the call.
End(w) ==
    /\ pc[w] = "end"
    /\ \/ /\ EndHold(Chat, mode[w])
          /\ pc' = [pc EXCEPT ![w] = "cancel"]
          /\ row' = [row EXCEPT ![w] = [RowNow EXCEPT !.state = mode[w]]]
          /\ UNCHANGED <<mode, todo, fresh, saying>> /\ NoFault
       \/ EndOutcome(Chat, mode[w]) # mode[w] /\ UNCHANGED storeVars /\ Done(w) /\ NoFault
       \/ (EndHold(Chat, mode[w]) \/ UNCHANGED storeVars) /\ Done(w) /\ Fault
    /\ UNCHANGED <<bookVars, worldVars, talkVars>>

\* Fault: only an expired hold's event is taken out.
AfterCancelExpired(w) == IF mode[w] # "expired" THEN Done(w) ELSE Goto(w, "remove")
AfterCancel(w) == IF mode[w] = "booking" THEN Done(w) ELSE Goto(w, "remove")
\* cancelInvoices: an open code with no payment recorded; QPay cancels none that was paid.
Cancel(w) ==
    /\ pc[w] = "cancel"
    /\ \/ code' = (IF code \in OpenCodes /\ made = {} THEN "cancelled" ELSE code) /\ NoFault
       \/ UNCHANGED code /\ Fault
    /\ AfterCancel(w)
    /\ UNCHANGED <<storeVars, notified, round, worldVars, talkVars>>

\* removeOurEvent, where the row read earlier said it is; best effort.
AfterRemove(w) ==
    CASE mode[w] = "released" -> Done(w)
      [] mode[w] = "expired" -> /\ pc' = [pc EXCEPT ![w] = "say"]
                                /\ saying' = [saying EXCEPT ![w] = "expired"]
                                /\ UNCHANGED <<mode, row, todo, fresh>>
      [] OTHER -> Goto(w, "tell")
Remove(w) ==
    /\ pc[w] = "remove"
    /\ \/ row[w].cal /\ event' = TakeOut(row[w].slot) /\ SetCalendarState(Chat, FALSE) /\ NoFault
       \/ row[w].cal /\ event' \in {event, TakeOut(row[w].slot)} /\ UNCHANGED storeVars /\ Fault
       \/ ~row[w].cal /\ UNCHANGED <<event, storeVars>> /\ NoFault
    /\ AfterRemove(w)
    /\ UNCHANGED <<bookVars, made, foreign, talkVars>>

(***************************************************************************)
(* Telling the customer and the founder                                    *)
(***************************************************************************)

Key(w) == <<saying[w], IF saying[w] \in {"booked", "expired"} THEN 0 ELSE row[w].round>>
OfThisRound(w, kind) == <<kind, row[w].round>>

\* This round was told already, as the row was read.
ToldAlready(w) == row[w].told
\* tellPaidUnbooked: told already, already plain, or an offer to make.
Tell(w) ==
    /\ pc[w] = "tell"
    /\ \/ ToldAlready(w) /\ Done(w) /\ NoFault
       \/ /\ ~ToldAlready(w) /\ NoFault
          /\ Goto(w, IF line[OfThisRound(w, "plain")] = "none" THEN "offer" ELSE "nothing")
       \/ ~ToldAlready(w) /\ Done(w) /\ Fault       \* unreadable: paged, retried by the sweep
    /\ UNCHANGED <<storeVars, bookVars, worldVars, talkVars>>

\* The half hour is not over; a row read before the time was lost knows no end.
InTime(w) == row[w].state = "paid" \/ Chat \notin offerOver
\* The customer may have opened another booking chat since theirs was closed.
Elsewhere == OwnSession \in closed /\ offer # "new"

\* offerRebook up to its claim: free times, an open chat, the turn and its line in one transaction.
Offer(w) ==
    /\ pc[w] = "offer"
    /\ LET key == OfThisRound(w, "offer") IN
       \/ /\ InTime(w) /\ \E s \in Slots : Free(s)
          /\ IF line[key] \in {"none", "failed"}
             THEN /\ line' = [line EXCEPT ![key] = "sending"]
                  /\ offer' = IF line[key] = "failed" \/ offer # "no" THEN offer
                              ELSE IF OwnSession \in closed THEN "new" ELSE "own"
                  /\ pc' = [pc EXCEPT ![w] = "send"]
                  /\ saying' = [saying EXCEPT ![w] = "offer"]
                  /\ UNCHANGED <<mode, row, todo, fresh>>
             ELSE UNCHANGED <<line, offer>> /\ Goto(w, "offered")      \* exists: already
          /\ NoFault
       \/ /\ ~InTime(w) \/ ~(\E s \in Slots : Free(s)) \/ Elsewhere
          /\ Goto(w, "nothing") /\ UNCHANGED <<line, offer>> /\ NoFault
       \/ /\ Goto(w, "undelivered") /\ UNCHANGED <<line, offer>>
          /\ Fault                     \* unreadable, or the chat moved on meanwhile
    /\ UNCHANGED <<storeVars, bookVars, worldVars, pages, moneyPages>>

\* The founder's page of the round, one per outcome.
Page(w) ==
    /\ pc[w] \in Outcomes
    /\ pages' = pages \cup {OfThisRound(w, pc[w])}
    /\ CASE pc[w] = "offered" -> /\ pc' = [pc EXCEPT ![w] = "told"]
                                 /\ saying' = [saying EXCEPT ![w] = "offer"]
                                 /\ UNCHANGED <<mode, row, todo, fresh>>
         [] pc[w] = "nothing" -> /\ pc' = [pc EXCEPT ![w] = "say"]
                                 /\ saying' = [saying EXCEPT ![w] = "plain"]
                                 /\ UNCHANGED <<mode, row, todo, fresh>>
         [] OTHER -> Done(w)
    /\ UNCHANGED <<storeVars, bookVars, worldVars, offer, line, moneyPages>> /\ NoFault

\* notify up to its claim; a row somebody else holds counts as already sent.
Say(w) ==
    /\ pc[w] = "say"
    /\ \/ /\ line[Key(w)] \in {"none", "failed"}
          /\ line' = [line EXCEPT ![Key(w)] = "sending"]
          /\ Goto(w, "send") /\ NoFault
       \/ /\ line[Key(w)] \notin {"none", "failed"}
          /\ UNCHANGED line
          /\ Goto(w, "told") /\ NoFault
       \/ UNCHANGED line /\ Goto(w, "untold") /\ Fault
    /\ UNCHANGED <<storeVars, bookVars, worldVars, offer, pages, moneyPages>>

\* The send, and the row's new state.
Send(w) ==
    /\ pc[w] = "send"
    /\ \/ /\ line' = [line EXCEPT ![Key(w)] = "sent"]
          /\ Goto(w, IF saying[w] = "offer" THEN "offered" ELSE "told") /\ NoFault
       \/ /\ \E st \in {"failed", "indeterminate"} : line' = [line EXCEPT ![Key(w)] = st]
          /\ Goto(w, IF saying[w] = "offer" THEN "undelivered" ELSE "untold") /\ Fault
    /\ UNCHANGED <<storeVars, bookVars, worldVars, offer, pages, moneyPages>>

\* The chat is closed, except behind an offer, and toldIf marks the hold told.
Finish(w) == IF mode[w] = "booking" THEN Goto(w, "cancel") ELSE Done(w)
CloseAfter(w) == IF saying[w] = "offer" THEN UNCHANGED <<storeVars, offer>> ELSE CloseOwn
\* markNotified, for a row that was read as untold.
Marked(w) == notified \/ (saying[w] # "expired" /\ ~row[w].told)
Told(w) ==
    /\ pc[w] = "told"
    /\ CloseAfter(w)
    /\ \/ notified' = Marked(w) /\ NoFault
       \/ UNCHANGED notified /\ Fault
    /\ Finish(w)
    /\ UNCHANGED <<round, code, worldVars, line, pages, moneyPages>>
Untold(w) ==
    /\ pc[w] = "untold"
    /\ CloseAfter(w)
    /\ Finish(w)
    /\ UNCHANGED <<bookVars, worldVars, line, pages, moneyPages>> /\ NoFault

(***************************************************************************)
(* rebookTo: the customer taps an offered time                             *)
(***************************************************************************)

\* The deposit moves and is settled at once.
Tap(w, s) ==
    /\ Idle(w) /\ offer # "no" /\ Free(s)
    /\ round < MaxRounds
    /\ Rebook(Chat, s)
    /\ notified' = FALSE
    /\ round' = round + 1
    /\ Enter(w, "settle", "ask")
    /\ UNCHANGED <<code, worldVars, talkVars>> /\ NoFault

\* calendar_busy: the old event goes first, then the same tap is tried again.
TapClears(w) ==
    /\ Idle(w) /\ offer # "no"
    /\ state[Chat] = "paid_unbooked" /\ Chat \notin offerOver /\ Chat \in calHeld
    /\ \/ event' = TakeOut(slot[Chat]) /\ SetCalendarState(Chat, FALSE) /\ UNCHANGED offer /\ NoFault
       \/ event' \in {event, TakeOut(slot[Chat])} /\ UNCHANGED storeVars /\ offer' = "no" /\ Fault
    /\ UNCHANGED <<bookVars, made, foreign, line, pages, moneyPages, workVars>>

\* The deposit is booked or past its half hour: the chat closes.
TapLate(w) ==
    /\ Idle(w) /\ offer # "no"
    /\ state[Chat] # "paid_unbooked" \/ Chat \in offerOver
    /\ IF offer = "own" THEN CloseSession(OwnSession) ELSE UNCHANGED storeVars
    /\ offer' = "no"
    /\ UNCHANGED <<bookVars, worldVars, line, pages, moneyPages, workVars>> /\ NoFault

(***************************************************************************)
(* Everybody else                                                          *)
(***************************************************************************)

\* The customer pays a code that is out, or a second one.
Pay(p) ==
    /\ code \in Payable /\ p \notin made
    /\ made' = made \cup {p}
    /\ UNCHANGED <<storeVars, bookVars, event, foreign, talkVars, workVars>> /\ NoFault

\* The website or a person books a time their calendar shows as free.
PersonBooks(s) ==
    /\ s \notin begun /\ s \notin foreign
    /\ Cardinality(foreign) < MaxForeign
    /\ \A t \in Slots : <<t, s>> \in Overlap => event[t] = "none"
    /\ foreign' = foreign \cup {s}
    /\ UNCHANGED <<storeVars, bookVars, made, event, talkVars, workVars>> /\ NoFault

\* Another customer's chat takes a time, and lets it go.
RivalTakes(h, se, s) == h # Chat /\ se # OwnSession /\ Acquire(h, se, s)
RivalLeaves(h) == h # Chat /\ EndHold(h, "released")
Rivals ==
    /\ \/ \E h \in Holds, se \in Sessions, s \in Slots : RivalTakes(h, se, s)
       \/ \E h \in Holds : RivalLeaves(h)
    /\ UNCHANGED <<bookVars, worldVars, talkVars, workVars>> /\ NoFault

\* A code still open turns a day old.  Its QR ends with the hold, minutes after it was made.
CodeAges ==
    /\ code = "open" /\ (state[Chat] = "held" => Chat \in due)
    /\ code' = "old"
    /\ UNCHANGED <<storeVars, notified, round, worldVars, talkVars, workVars>> /\ NoFault

HoldRunsOut ==
    HoldDue(Chat) /\ UNCHANGED <<bookVars, worldVars, talkVars, workVars>> /\ NoFault
Time ==
    /\ OfferEnds(Chat) \/ \E s \in Slots : SlotBegins(s)
    /\ UNCHANGED <<bookVars, worldVars, talkVars, workVars>> /\ NoFault

\* A job is killed, a route runs out of its time.
Die(w) ==
    /\ pc[w] # "idle" /\ Fault
    /\ Done(w)
    /\ UNCHANGED <<storeVars, bookVars, worldVars, talkVars>>

\* The next step of the call in flight.
Step(w) ==
    \/ InsertEvent(w) \/ GiveUp(w) \/ RowShowsEvent(w) \/ SecondLook(w) \/ MakeCode(w)
    \/ Ask(w) \/ Record(w) \/ PageMoney(w) \/ Reread(w)
    \/ Look(w) \/ Unbook(w) \/ Write(w) \/ MarkB(w)
    \/ End(w) \/ Cancel(w) \/ Remove(w)
    \/ Tell(w) \/ Offer(w) \/ Page(w) \/ Say(w) \/ Send(w) \/ Told(w) \/ Untold(w)

Next ==
    \/ \E w \in Workers, s \in Slots : TurnHolds(w, s) \/ Tap(w, s)
    \/ \E w \in Workers : TurnAgain(w) \/ CallSettle(w) \/ Poll(w) \/ CallRelease(w)
    \/ \E w \in Workers : TapClears(w) \/ TapLate(w)
    \/ Sweep
    \/ \E w \in Workers : Step(w) \/ Die(w)
    \/ \E p \in Payments : Pay(p)
    \/ \E s \in Slots : PersonBooks(s)
    \/ Rivals
    \/ CodeAges
    \/ HoldRunsOut
    \/ Time

Spec == Init /\ [][Next]_vars

\* The minute sweep comes back every minute, a call that is not killed runs to its end, and the
\* minutes of a held time pass.
FairSpec == Spec /\ WF_vars(Sweep) /\ WF_vars(HoldRunsOut) /\ \A w \in Workers : WF_vars(Step(w))

(***************************************************************************)
(* What the calls promise                                                  *)
(***************************************************************************)

\* "Booked" is never said before the deposit is recorded and the calendar write came back: the
\* confirmation is drafted only for a hold the database has as booked, whoever drafts it.
ConfirmedIsBooked == line[<<"booked", 0>>] # "none" => state[Chat] = "booked"

\* No event of ours becomes a booking on an unpaid hold.
BookingIsPaid == (\E s \in Slots : event[s] = "booking") => HasPayment(Chat)

\* The deposit was paid before its hold ended, has the time it was paid for, and nobody else's
\* event takes that time.
Undisturbed ==
    /\ round = 0
    /\ \A p \in Payments : payHold[p] = Chat => payDisp[p] \notin {"late_booked", "late_unbooked"}
    /\ ~Taken(slot[Chat])

\* settleHold may be called "from anywhere, any number of times, concurrently"
\* (engine.ts:528-530): whatever the turn, the sweep, the callback, a cancel and the hold's end
\* do at once to a deposit paid in time, and whichever of them fail or die, once its row says
\* booked our event stands in the calendar at its time and nowhere else.
BookedIsInCalendar ==
    state[Chat] = "booked" /\ Undisturbed => \A s \in Slots : (event[s] # "none" <=> s = slot[Chat])

\* The same of every booked deposit, one paid late, moved, or met by another's event included.
\* Fails: a call that ended the hold takes out the event it read of, after a late payment was
\* booked (engine.ts:725).
BookedHasItsEvent ==
    state[Chat] = "booked" => \A s \in Slots : (event[s] # "none" <=> s = slot[Chat])

\* A time is never booked twice: our booking never stands where somebody else's event does.
NeverDoubleBooked == \A s \in Slots : event[s] = "booking" => ~Taken(s)

\* A hold is marked told only when it was: the confirmation went out (or may have), or the
\* founder has this round's page and the customer its offer or its line.
Reached(l) == line[l] \in {"sending", "sent", "indeterminate"}
ToldMeansSaid ==
    notified =>
        IF state[Chat] = "booked" THEN Reached(<<"booked", 0>>)
        ELSE \/ Reached(<<"offer", round>>) /\ <<"offered", round>> \in pages
             \/ Reached(<<"plain", round>>) /\ <<"nothing", round>> \in pages

\* Money is never silent: a payment that booked nothing is paged by the call that recorded it.
NoOneAsks == \A w \in Workers : fresh[w] = {}
ExcessIsPaged ==
    NoOneAsks => \A p \in Payments : payDisp[p] \in {"excess", "short"} => p \in moneyPages

\* Once the founder is told that the deposit is theirs to refund, the platform neither offers it
\* again in that round nor books it.  A call that dies after the page and before the plain line
\* is drafted leaves no trace of the page, so this is promised only while nothing has failed.
NothingFailed == faults = 0
RefundPageIsFinal ==
    [][(NothingFailed /\ <<"nothing", round>> \in pages) =>
          /\ round' = round
          /\ <<"offered", round>> \in pages' => <<"offered", round>> \in pages]_vars

\* An ended hold leaves no busy event behind, once its calls are over: for calls one after another
\* none of which failed.  A cancel that ends the hold between the turn's insert and its
\* setCalendarState reads a row that knows no event, and nothing looks at an ended hold again.
EndedTimeIsFree ==
    (/\ NothingFailed
     /\ \A w \in Workers : pc[w] = "idle"
     /\ state[Chat] \in {"expired", "released"})
    => \A s \in Slots : event[s] = "none"

\* Every paid hold is settled and its customer told, however often calls fail or die: the sweep
\* comes back to it until notified_at is set.
PaidIsTold == HasPayment(Chat) ~> (state[Chat] \in {"booked", "paid_unbooked"} /\ notified)

\* A hold whose end has come does not keep its time: it is paid or ended.
DueIsSettled == (state[Chat] = "held" /\ Chat \in due) ~> (state[Chat] # "held" \/ Chat \notin due)

\* Money paid on a code is recorded, also when QPay's callback never comes and the hold is over,
\* until the code is a day old: from then on only a call about this hold asks (store.ts:422).
PaymentIsRecorded == made # {} ~> (\E p \in Payments : payHold[p] = Chat) \/ code = "old"
=============================================================================
