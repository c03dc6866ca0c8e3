--------------------------- MODULE ThreadControl ---------------------------
(***************************************************************************)
(* Who holds one conversation of a live channel: the bot, or a person.     *)
(*                                                                         *)
(* Meta's handover events and the echoes of what the Page sent move        *)
(* thread_control by a read and a write (src/lib/handover/record.ts); the  *)
(* reply path asks before it generates and before it sends (control.ts,    *)
(* presend.ts); the hourly sweep and its job take back a chat that staff   *)
(* left unanswered: one reviewed line, then a conditional flip             *)
(* (handover/reclaim.ts, worker/reclaim.ts).                               *)
(*                                                                         *)
(* A worker is one reception job; each of its steps is one awaited call.   *)
(* Any call may fail and a job may die anywhere.  Events are delivered in  *)
(* any order, and again after a death.  Time is counted in hours.          *)
(***************************************************************************)
EXTENDS Integers, FiniteSets

CONSTANTS
    N,             \* the customer's messages, numbered as written
    Staff,         \* the messages people type in the Page's inbox
    First,         \* the one an hour before the start
    Handovers,     \* Meta's handover events
    Workers,
    MaxJobs,       \* bound: reclaim jobs of one message waiting at once
    Stamped,       \* Meta stamps our sends with our app id: Messenger yes, Instagram no
    Cooldown,      \* settings.takeoverCooldownMinutes
    Wait,          \* RECLAIM_AFTER_OPEN_MINUTES
    MaxAge,        \* RECLAIM_MAX_AGE_MINUTES
    OwnWindow,     \* OWN_SEND_WINDOW_MS
    MaxMoves,      \* bound: staff messages and handover events after the start
    MaxTime,       \* bound: hours
    MaxFaults,     \* bound: failures and deaths
    NoWork

ASSUME ThreadAssumption ==
    /\ {N, Cooldown, Wait, MaxAge, OwnWindow, MaxJobs, MaxMoves, MaxTime, MaxFaults} \subseteq Nat
    /\ First \in Staff /\ Stamped \in BOOLEAN /\ MaxTime >= 1

VARIABLES
    now,
    control,  \* conversations.thread_control
    since,    \* .thread_control_at
    source,   \* .thread_control_source
    wrote,    \* messages.at of each customer message
    row,      \* outbound_messages.state of each reply and each reclaim line
    made,     \* its created_at
    said,     \* how often it reached the customer
    late,     \* an echo of ours was judged when its row was older than OwnWindow
    stored,   \* webhook_events: each echo and handover event, with the messages stored before it
    told,     \* a handover event: who it names, and when
    undone,   \* events whose job has not ended
    queue,    \* how many reclaim jobs of each message wait
    pc, about, start, held, target,  \* of each worker: place, what it works on, its `now`, the control it read, what it writes
    faults

conv == <<control, since, source>>
rows == <<row, made, said>>
inbox == <<wrote, stored, told>>
jobs == <<undone, queue>>
memory == <<about, start, held, target>>
vars == <<now, conv, rows, late, inbox, jobs, pc, memory, faults>>

Msgs == 1 .. N
Times == 0 .. MaxTime
Null == -1
Controls == {"bot", "human", "unknown"}
Sources == {"none", "handover", "echo", "reclaim"}
Keys == {"reply", "line"} \X Msgs
OwnEchoes == {"echo"} \X Keys
Events == Staff \cup Handovers \cup OwnEchoes
ASSUME WorkAssumption ==
    /\ Staff \cap Handovers = {} /\ (Staff \cup Handovers) \cap (Keys \cup OwnEchoes) = {}
    /\ NoWork \notin Keys \cup Events

NotStored == {0}
RowStates == {"none", "draft", "sending", "sent", "failed", "indeterminate", "refused"}
Target == [control : Controls, at : Times, source : Sources, refresh : BOOLEAN]
NoTarget == [control |-> "unknown", at |-> 0, source |-> "none", refresh |-> FALSE]
Places == {"idle", "judge", "read", "write", "check4", "speak", "replySend", "replyMark",
           "thread", "row", "person", "decline", "declined", "draft", "claim", "send", "mark", "drop", "flip"}

TypeOK ==
    /\ now \in Times /\ control \in Controls /\ since \in Times \cup {Null} /\ source \in Sources
    /\ wrote \in [Msgs -> Times \cup {Null}]
    /\ row \in [Keys -> RowStates] /\ made \in [Keys -> Times] /\ said \in [Keys -> Nat]
    /\ late \in BOOLEAN
    /\ stored \in [Events -> (SUBSET Msgs) \cup {NotStored}]
    /\ told \in [Handovers -> [to : {"bot", "human"}, at : Times]]
    /\ undone \subseteq Events /\ queue \in [Msgs -> 0 .. MaxJobs]
    /\ pc \in [Workers -> Places]
    /\ about \in [Workers -> Events \cup Keys \cup {NoWork}]
    /\ start \in [Workers -> Times] /\ held \in [Workers -> Controls] /\ target \in [Workers -> Target]
    /\ faults \in 0 .. MaxFaults

\* A chat that staff answered an hour ago.
Init ==
    /\ now = 1
    /\ control = "human" /\ since = 0 /\ source = "echo"
    /\ wrote = [m \in Msgs |-> Null]
    /\ row = [k \in Keys |-> "none"] /\ made = [k \in Keys |-> 0]
    /\ said = [k \in Keys |-> 0] /\ late = FALSE
    /\ stored = [e \in Events |-> IF e = First THEN {} ELSE NotStored]
    /\ told = [h \in Handovers |-> [to |-> "bot", at |-> 0]]
    /\ undone = {} /\ queue = [m \in Msgs |-> 0]
    /\ pc = [w \in Workers |-> "idle"] /\ about = [w \in Workers |-> NoWork]
    /\ start = [w \in Workers |-> 0] /\ held = [w \in Workers |-> "unknown"]
    /\ target = [w \in Workers |-> NoTarget]
    /\ faults = 0

(***************************************************************************)
(* Helpers                                                                 *)
(***************************************************************************)

Written == {m \in Msgs : wrote[m] # Null}
Of(w) == about[w][2]
Latest == Cardinality(Written)
Fault == faults < MaxFaults /\ faults' = faults + 1
NoFault == UNCHANGED faults
At(w, place) == pc[w] = place
Goto(w, place) == pc' = [pc EXCEPT ![w] = place] /\ UNCHANGED memory
Forget(w) ==
    /\ pc' = [pc EXCEPT ![w] = "idle"] /\ about' = [about EXCEPT ![w] = NoWork]
    /\ start' = [start EXCEPT ![w] = 0] /\ held' = [held EXCEPT ![w] = "unknown"]
    /\ target' = [target EXCEPT ![w] = NoTarget]
\* The job answers 200: QStash drops it.
Done(w) ==
    /\ Forget(w)
    /\ undone' = undone \ {about[w]} /\ UNCHANGED queue
Take(w, place, what) ==
    /\ pc' = [pc EXCEPT ![w] = place] /\ about' = [about EXCEPT ![w] = what]
    /\ start' = [start EXCEPT ![w] = now]
    /\ UNCHANGED <<held, target>>
\* applyThreadControl is called.
Apply(w, c, at, src, again) ==
    /\ pc' = [pc EXCEPT ![w] = "read"]
    /\ target' = [target EXCEPT ![w] = [control |-> c, at |-> at, source |-> src, refresh |-> again]]
    /\ UNCHANGED <<about, start, held>>

\* Fault: an echo without an app id is looked up by its mid alone.
RecognisedByMid(e, asOf) == Stamped \/ row[e[2]] = "sent"
\* echoIsOurs by its mid, or echoIsOursWithoutAppId by its text: rows of the last hour that may be on the wire.
Recognised(e, asOf) ==
    LET k == e[2] IN
    \/ Stamped
    \/ row[k] = "sent"
    \/ /\ row[k] \in {"sending", "indeterminate"}
       /\ made[k] + OwnWindow > asOf
\* controlFromEcho: everybody who is not us is a person.
FromPerson(e, asOf) == e \in Staff \/ (e \in OwnEchoes /\ ~Recognised(e, asOf))

\* humanHoldsThread.
PersonHolds(t) == control = "human" /\ Cooldown > 0 /\ (since = Null \/ since + Cooldown > t)

\* personRepliedSince: the thread, or a stored echo that came after the message.
PersonReplied(m) ==
    \/ control = "human" /\ (since = Null \/ since >= wrote[m])
    \/ \E e \in Staff \cup OwnEchoes :
          stored[e] # NotStored /\ m \in stored[e] /\ FromPerson(e, wrote[m])

(***************************************************************************)
(* Handover events and echoes (recordHandover)                             *)
(***************************************************************************)

StartEvent(w, e) ==
    /\ At(w, "idle") /\ e \in undone /\ \A v \in Workers : about[v] # e
    /\ Take(w, "judge", e)
    /\ UNCHANGED <<now, late, conv, rows, inbox, jobs>> /\ NoFault

\* controlAfter, or the echo's lookup and controlFromEcho; what draws no conclusion writes nothing.
Judge(w) ==
    LET e == about[w] IN
    /\ At(w, "judge")
    /\ late' = (late \/ (e \in OwnEchoes /\ made[e[2]] + OwnWindow <= start[w]))
    /\ \/ /\ e \in Handovers /\ Apply(w, told[e].to, told[e].at, "handover", FALSE)
          /\ UNCHANGED jobs /\ NoFault
       \/ /\ e \notin Handovers /\ FromPerson(e, start[w])
          /\ Apply(w, "human", start[w], "echo", FALSE)
          /\ UNCHANGED jobs /\ NoFault
       \/ e \notin Handovers /\ ~FromPerson(e, start[w]) /\ Done(w) /\ NoFault
       \/ Fault /\ Done(w)
    /\ UNCHANGED <<now, conv, rows, inbox>>

\* readThreadState.  The same owner again is written only for a person typing, or a refresh.
Read(w) ==
    /\ At(w, "read")
    /\ \/ /\ control # target[w].control \/ (control = "human" /\ (target[w].source = "echo" \/ target[w].refresh))
          /\ pc' = [pc EXCEPT ![w] = "write"] /\ held' = [held EXCEPT ![w] = control]
          /\ UNCHANGED <<about, start, target, jobs>> /\ NoFault
       \/ /\ control = target[w].control /\ ~(control = "human" /\ (target[w].source = "echo" \/ target[w].refresh))
          /\ Done(w) /\ NoFault
       \/ Fault /\ Done(w)
    /\ UNCHANGED <<now, late, conv, rows, inbox>>

\* The update, by the conversation's id alone: a refresh moves the time and nothing else.
Update(w) ==
    IF held[w] = target[w].control
    THEN since' = target[w].at /\ UNCHANGED <<control, source>>
    ELSE control' = target[w].control /\ since' = target[w].at /\ source' = target[w].source
Write(w) ==
    /\ At(w, "write")
    /\ \/ Update(w) /\ NoFault
       \/ UNCHANGED conv /\ Fault
    /\ Done(w)
    /\ UNCHANGED <<now, late, rows, inbox>>

(***************************************************************************)
(* An ordinary message: its reply, or the hand-off notice                  *)
(***************************************************************************)

StartReply(w, m) ==
    /\ At(w, "idle") /\ m \in Written /\ row[<<"reply", m>>] = "none" /\ \A v \in Workers : about[v] # <<"reply", m>>
    /\ Take(w, "check4", <<"reply", m>>)
    /\ UNCHANGED <<now, late, conv, rows, inbox, jobs>> /\ NoFault

\* Check 4, then the model writes.  A thread that cannot be read mutes nobody.
Check4(w) ==
    /\ At(w, "check4")
    /\ \/ PersonHolds(start[w]) /\ NoFault /\ Done(w) /\ row' = [row EXCEPT ![about[w]] = "refused"]
       \/ ~PersonHolds(start[w]) /\ NoFault /\ Goto(w, "speak") /\ UNCHANGED <<jobs, row>>
       \/ PersonHolds(start[w]) /\ Fault /\ Goto(w, "speak") /\ UNCHANGED <<jobs, row>>
    /\ UNCHANGED <<now, conv, made, said, late, inbox>>

\* The draft is claimed with the person check beside it; a check that cannot be read sends anyway.
Speak(w) ==
    LET k == about[w]
        send == /\ row' = [row EXCEPT ![k] = "sending"] /\ Goto(w, "replySend") /\ UNCHANGED jobs IN
    /\ At(w, "speak")
    /\ made' = [made EXCEPT ![k] = now]
    /\ \/ PersonReplied(Of(w)) /\ NoFault /\ row' = [row EXCEPT ![k] = "refused"] /\ Done(w)
       \/ ~PersonReplied(Of(w)) /\ NoFault /\ send
       \/ PersonReplied(Of(w)) /\ Fault /\ send
    /\ UNCHANGED <<now, conv, said, late, inbox>>

\* What a send puts on the wire: Meta echoes it back.
Put(k) == said' = [said EXCEPT ![k] = @ + 1]

ReplySend(w) ==
    /\ At(w, "replySend")
    /\ Put(about[w]) /\ Goto(w, "replyMark")
    /\ UNCHANGED <<now, late, conv, row, made, inbox, jobs>> /\ NoFault

\* markSent.  After a notice the thread is handed over, whoever had it.
ReplyMark(w) ==
    LET k == about[w] IN
    /\ At(w, "replyMark")
    /\ \/ row' = [row EXCEPT ![k] = "sent"] /\ NoFault
       \/ UNCHANGED row /\ Fault
    /\ \/ Done(w)
       \/ Apply(w, "human", start[w], "handover", TRUE) /\ UNCHANGED jobs
    /\ UNCHANGED <<now, conv, made, said, late, inbox>>

(***************************************************************************)
(* The hourly sweep (reclaimHeldConversations)                             *)
(***************************************************************************)

BotReplied(m) ==
    \E n \in Msgs : /\ row[<<"reply", n>>] \in {"sent", "sending", "indeterminate"}
                    /\ made[<<"reply", n>>] >= wrote[m]
Queued(m) == [queue EXCEPT ![m] = IF @ < MaxJobs THEN @ + 1 ELSE @]

\* decideReclaim: `finish` for a line that is sent, `send` for one that is owed.
Finish(m) == row[<<"line", m>>] = "sent"
Owed(m) ==
    /\ row[<<"line", m>>] \in {"none", "draft", "failed"}
    /\ ~BotReplied(m)
    /\ source = "echo"
    /\ now - wrote[m] >= Wait /\ now - wrote[m] < MaxAge
Held(m) == m = Latest /\ control = "human" /\ since # Null /\ wrote[m] > since

\* One step: whatever the sweep read is read again by the job.  A run that reads nothing queues nothing.
Sweep ==
    /\ \E m \in Written :
          /\ Held(m) /\ (Finish(m) \/ Owed(m))
          /\ queue' = Queued(m)
    /\ UNCHANGED <<now, late, conv, rows, inbox, undone, pc, memory>> /\ NoFault

(***************************************************************************)
(* The reclaim job (serveReclaim)                                          *)
(***************************************************************************)

Line(w) == about[w]
Quit(w) == Done(w) /\ UNCHANGED rows

StartReclaim(w, m) ==
    /\ At(w, "idle") /\ queue[m] > 0
    /\ queue' = [queue EXCEPT ![m] = @ - 1]
    /\ Take(w, "thread", <<"line", m>>)
    /\ UNCHANGED <<now, late, conv, rows, inbox, undone>> /\ NoFault

\* The thread and the message, read together: still a person's, by an echo older than the message.
StillHeld(w) == control = "human" /\ since # Null /\ since < wrote[Of(w)] /\ source = "echo"
Thread(w) ==
    /\ At(w, "thread")
    /\ \/ StillHeld(w) /\ Goto(w, "row") /\ UNCHANGED <<jobs, rows>> /\ NoFault
       \/ ~StillHeld(w) /\ Quit(w) /\ NoFault
       \/ Fault /\ Quit(w)
    /\ UNCHANGED <<now, late, conv, inbox>>

\* Fault: a line that went out is taken for an answered message.
LineRowAnswered(w) ==
    LET k == Line(w) IN
    /\ At(w, "row")
    /\ \/ row[k] \in {"none", "draft", "failed"} /\ Goto(w, "person") /\ UNCHANGED <<jobs, rows>>
       \/ row[k] \notin {"none", "draft", "failed"} /\ Quit(w)
    /\ UNCHANGED <<now, late, conv, inbox>> /\ NoFault
\* findReplyFor.  A line that went out is only flipped; an owed one must be in the window, the
\* salon open and the line reviewed, which this step may find otherwise.
LineRow(w) ==
    LET k == Line(w)
        inWindow == start[w] - wrote[Of(w)] < MaxAge IN
    /\ At(w, "row")
    /\ \/ row[k] = "sent" /\ Goto(w, "flip") /\ UNCHANGED <<jobs, rows>> /\ NoFault
       \/ row[k] \in {"none", "draft", "failed"} /\ inWindow /\ Goto(w, "person") /\ UNCHANGED <<jobs, rows>> /\ NoFault
       \/ row[k] \in {"none", "draft", "failed"} /\ ~inWindow /\ Quit(w) /\ NoFault
       \/ row[k] \in {"sending", "refused", "indeterminate"} /\ Quit(w) /\ NoFault
       \/ row[k] # "sent" /\ Fault /\ Quit(w)
    /\ UNCHANGED <<now, late, conv, inbox>>

\* Unlike a reply, a check that cannot be read sends nothing.
Person(w) ==
    /\ At(w, "person")
    /\ \/ PersonReplied(Of(w)) /\ Goto(w, "decline") /\ UNCHANGED <<jobs, rows>> /\ NoFault
       \/ ~PersonReplied(Of(w)) /\ Goto(w, "draft") /\ UNCHANGED <<jobs, rows>> /\ NoFault
       \/ ~PersonReplied(Of(w)) /\ Fault /\ Quit(w)
    /\ UNCHANGED <<now, late, conv, inbox>>

\* draftOnce: the row of an earlier attempt stays as it is.
DraftOnce(k) ==
    IF row[k] = "none"
    THEN row' = [row EXCEPT ![k] = "draft"] /\ made' = [made EXCEPT ![k] = now] /\ UNCHANGED said
    ELSE UNCHANGED rows

\* A person replied: the row is written only to be refused.
Decline(w) ==
    /\ At(w, "decline")
    /\ \/ DraftOnce(Line(w)) /\ Goto(w, "declined") /\ UNCHANGED jobs /\ NoFault
       \/ Fault /\ Quit(w)
    /\ UNCHANGED <<now, late, conv, inbox>>
RefuseFrom(k, states) ==
    IF row[k] \in states THEN row' = [row EXCEPT ![k] = "refused"] ELSE UNCHANGED row
Declined(w) ==
    /\ At(w, "declined")
    /\ \/ RefuseFrom(Line(w), {"draft", "failed"}) /\ NoFault
       \/ UNCHANGED row /\ Fault
    /\ Done(w)
    /\ UNCHANGED <<now, conv, made, said, late, inbox>>

Draft(w) ==
    /\ At(w, "draft")
    /\ \/ DraftOnce(Line(w)) /\ Goto(w, "claim") /\ UNCHANGED jobs /\ NoFault
       \/ Fault /\ Quit(w)
    /\ UNCHANGED <<now, late, conv, inbox>>

\* Fault: a claim that another worker holds is taken over.
ClaimableHeld == {"draft", "failed", "sending"}
Claimable == {"draft", "failed"}
Claim(w) ==
    LET k == Line(w) IN
    /\ At(w, "claim")
    /\ \/ row[k] \in Claimable /\ row' = [row EXCEPT ![k] = "sending"] /\ Goto(w, "send") /\ UNCHANGED jobs /\ NoFault
       \/ row[k] = "sent" /\ Goto(w, "flip") /\ UNCHANGED <<row, jobs>> /\ NoFault
       \/ row[k] \notin Claimable \cup {"sent"} /\ Done(w) /\ UNCHANGED row /\ NoFault
       \/ row[k] # "sent" /\ Fault /\ Done(w) /\ UNCHANGED row
    /\ UNCHANGED <<now, conv, made, said, late, inbox>>

\* Fault: a send that failed hands the thread back all the same.
SendAnyway(w) ==
    LET k == Line(w) IN
    /\ At(w, "send")
    /\ \/ Put(k) /\ Goto(w, "mark") /\ UNCHANGED row /\ NoFault
       \/ row' = [row EXCEPT ![k] = "failed"] /\ Goto(w, "flip") /\ UNCHANGED said /\ Fault
    /\ UNCHANGED <<now, late, conv, made, inbox, jobs>>
\* The wire: sent, refused by Meta for now or for good, or no answer.
Send(w) ==
    LET k == Line(w)
        settled(s) == row' = [row EXCEPT ![k] = s] IN
    /\ At(w, "send")
    /\ \/ Put(k) /\ Goto(w, "mark") /\ UNCHANGED <<row, jobs>> /\ NoFault
       \/ settled("failed") /\ Goto(w, "drop") /\ UNCHANGED <<said, jobs>> /\ Fault
       \/ settled("failed") /\ Done(w) /\ UNCHANGED said /\ Fault
       \/ settled("indeterminate") /\ Done(w) /\ (Put(k) \/ UNCHANGED said) /\ Fault
    /\ UNCHANGED <<now, late, conv, made, inbox>>

\* markSent: its failure does not undo the send.
Mark(w) ==
    /\ At(w, "mark")
    /\ \/ row' = [row EXCEPT ![Line(w)] = "sent"] /\ NoFault
       \/ UNCHANGED row /\ Fault
    /\ Goto(w, "flip")
    /\ UNCHANGED <<now, conv, made, said, late, inbox, jobs>>

\* A failure no retry fixes is made terminal.
Drop(w) ==
    /\ At(w, "drop")
    /\ \/ RefuseFrom(Line(w), {"failed"}) /\ NoFault
       \/ UNCHANGED row /\ Fault
    /\ Done(w)
    /\ UNCHANGED <<now, conv, made, said, late, inbox>>

\* Fault: the flip forgets that staff may have acted since the message.
FlipAnyHuman(w) ==
    /\ At(w, "flip")
    /\ \/ control = "human" /\ control' = "bot" /\ source' = "reclaim" /\ since' = start[w]
       \/ control # "human" /\ UNCHANGED conv
    /\ Done(w)
    /\ UNCHANGED <<now, late, rows, inbox>> /\ NoFault
\* Only a thread that is still a person's, and not touched since the message, goes back.
Flip(w) ==
    /\ At(w, "flip")
    /\ \/ /\ control = "human" /\ since # Null /\ since < wrote[Of(w)]
          /\ control' = "bot" /\ source' = "reclaim" /\ since' = start[w]
          /\ NoFault \/ Fault
       \/ ~(control = "human" /\ since # Null /\ since < wrote[Of(w)]) /\ UNCHANGED conv /\ NoFault
       \/ UNCHANGED conv /\ Fault
    /\ Done(w)
    /\ UNCHANGED <<now, late, rows, inbox>>

(***************************************************************************)
(* Everybody else                                                          *)
(***************************************************************************)

Store(e) ==
    /\ stored[e] = NotStored
    /\ stored' = [stored EXCEPT ![e] = Written] /\ undone' = undone \cup {e}
    /\ UNCHANGED <<now, late, conv, rows, wrote, queue, pc, memory>> /\ NoFault

CustomerWrites(m) ==
    /\ wrote[m] = Null /\ \A n \in Msgs : n < m => wrote[n] # Null
    /\ wrote' = [wrote EXCEPT ![m] = now]
    /\ UNCHANGED <<now, late, conv, rows, stored, told, jobs, pc, memory>> /\ NoFault
\* Bound: how much staff and Meta do after the start.
MayMove == Cardinality({e \in Staff \cup Handovers : stored[e] # NotStored}) <= MaxMoves
StaffWrites(s) == MayMove /\ Store(s) /\ UNCHANGED told
MetaEchoes(k) == said[k] > 0 /\ Store(<<"echo", k>>) /\ UNCHANGED told
MetaHandsOver(h, to) ==
    /\ MayMove /\ Store(h) /\ told' = [told EXCEPT ![h] = [to |-> to, at |-> now]]
Tick ==
    /\ \A w \in Workers : At(w, "idle")
    /\ now < MaxTime /\ now' = now + 1
    /\ UNCHANGED <<late, conv, rows, inbox, jobs, pc, memory>> /\ NoFault

\* A job is killed: QStash delivers it again.
Die(w) ==
    /\ ~At(w, "idle") /\ Fault /\ Forget(w)
    /\ queue' = IF about[w] \in {"line"} \X Msgs THEN Queued(Of(w)) ELSE queue
    /\ UNCHANGED <<now, late, conv, rows, inbox, undone>>

Step(w) ==
    \/ Judge(w) \/ Read(w) \/ Write(w)
    \/ Check4(w) \/ Speak(w) \/ ReplySend(w) \/ ReplyMark(w)
    \/ Thread(w) \/ LineRow(w) \/ Person(w) \/ Decline(w) \/ Declined(w)
    \/ Draft(w) \/ Claim(w) \/ Send(w) \/ Mark(w) \/ Drop(w) \/ Flip(w)
Serve == \E w \in Workers, m \in Msgs : StartReclaim(w, m)

Next ==
    \/ \E w \in Workers : Step(w) \/ Die(w)
    \/ \E w \in Workers, e \in Events : StartEvent(w, e)
    \/ \E w \in Workers, m \in Msgs : StartReply(w, m)
    \/ Serve \/ Sweep
    \/ \E m \in Msgs : CustomerWrites(m)
    \/ \E s \in Staff : StaffWrites(s)
    \/ \E k \in Keys : MetaEchoes(k)
    \/ \E h \in Handovers, to \in {"bot", "human"} : MetaHandsOver(h, to)
    \/ Tick

Spec == Init /\ [][Next]_vars

\* A job that has started runs to its end or its death, the queue delivers, the sweep comes every hour.
FairSpec ==
    /\ Spec
    /\ \A w \in Workers : WF_vars(Step(w))
    /\ WF_vars(Serve) /\ WF_vars(Sweep)

(***************************************************************************)
(* What the code promises                                                  *)
(***************************************************************************)

\* One held message gets one line, whatever the sweep queues twice, whatever QStash delivers
\* again, wherever a job dies.
OneLine == \A m \in Msgs : said[<<"line", m>>] <= 1

\* The bot is back only with the line said: the thread is never flipped for a line that did not go out.
BackIsSaid == source = "reclaim" => \E m \in Msgs : said[<<"line", m>>] > 0

\* The bot does not take its own message for a person's: an echo of ours moves the thread, or its
\* time, only when it is judged more than an hour after its row was drafted.
Applied(w) == At(w, "write") /\ pc'[w] = "idle" /\ faults' = faults
NotMutedByOwnEcho ==
    [][\A w \in Workers : Applied(w) /\ about[w] \in OwnEchoes => late]_vars

\* The flip takes no thread from staff: a person's echo that came after the message and was
\* recorded before the flip keeps the chat, unless recording it failed, or a handover event was
\* recorded after it and moved the thread with its own, older time.
HandedOver == source = "handover" /\ \E h \in Handovers : stored[h] # NotStored /\ since = told[h].at
FlipSparesStaff ==
    [][\A w \in Workers :
          (At(w, "flip") /\ pc'[w] = "idle" /\ conv' # conv /\ faults' = 0)
          => \A s \in Staff : (stored[s] # NotStored /\ Of(w) \in stored[s]) => s \in undone \/ HandedOver]_vars

\* A line that is recorded as sent is followed by the flip, also when the job died between the
\* two, unless staff or the customer moved on.
SentIsHandedBack ==
    \A m \in Msgs :
        row[<<"line", m>>] = "sent" ~>
            \/ control # "human" \/ since = Null \/ since >= wrote[m]
            \/ m # Latest \/ source # "echo"

\* A staff echo that lands between the send and the flip wins, and the thread stays theirs.
StaffEchoWins ==
    [][\A w \in Workers : Applied(w) /\ about[w] \in Staff => control' = "human"]_vars

\* No echo of ours is taken for a person's, however old its row.
OwnEchoIsOurs ==
    [][\A w \in Workers : ~(Applied(w) /\ about[w] \in OwnEchoes)]_vars
=============================================================================
