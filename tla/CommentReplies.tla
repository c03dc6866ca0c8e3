--------------------------- MODULE CommentReplies ---------------------------
(***************************************************************************)
(* Comments under one post of a live Facebook Page: each that a rule       *)
(* claims gets one public line in its thread and one private message.      *)
(*                                                                         *)
(* A comment is one reception job, delivered again after a 503 or a death  *)
(* (src/lib/worker/comments.ts).  Its rows are written once, claimed and   *)
(* sent (outbound/claim.ts).  A POST may be answered wrongly, late or not  *)
(* at all; what the Page wrote comes back as a notice, and notices settle  *)
(* the rows nobody could settle (comments/reconcile.ts).  People answer by *)
(* hand, in words of their own or by pasting ours.                         *)
(***************************************************************************)
EXTENDS Integers, Sequences, FiniteSets

CONSTANTS
    Comments,
    Thread,          \* of each comment, the comment its thread starts with
    Author,
    Own,             \* the comments whose rule has its own pair of lines
    Cap,             \* repliesPerPostPerDay
    GeneralReviewed, \* somebody reviewed the general public line
    MaxRuns,         \* bound: deliveries of one job
    MaxStaff,        \* bound: comments people write as the Page
    MaxFaults,       \* bound: failures and deaths
    Nobody

ASSUME CommentAssumption ==
    /\ Thread \in [Comments -> Comments] /\ DOMAIN Author = Comments
    /\ \A c \in Comments : Thread[Thread[c]] = Thread[c]
    /\ Own \subseteq Comments /\ GeneralReviewed \in BOOLEAN
    /\ {Cap, MaxRuns, MaxStaff, MaxFaults} \subseteq Nat /\ MaxRuns > 0

VARIABLES
    pub,     \* outbound_messages of kind comment_reply, one a thread
    prv,     \* .state of kind private_reply, one a person
    wall,    \* what the Page wrote in each thread, and whether its notice is stored
    got,     \* the people a private message reached
    job,
    settling,  \* of each thread, the notice a reconciler read the parked row with
    staff,
    faults

commentVars == <<pub, prv, wall, got, job, settling, staff, faults>>

Threads == {Thread[c] : c \in Comments}
People == {Author[c] : c \in Comments}
ReplyStates == {"none", "draft", "sending", "sent", "failed", "indeterminate", "refused"}
Bodies == {"claiming", "general", "their words"}
Halves == {"public", "private", "pair"}
Answers == {"none", "sent", "retryable", "terminal", "indeterminate"}

\* `guess` is RESEND_MATCH_REASON_PREFIX; `late`, ten minutes since the draft.
PublicRow == [st : ReplyStates, body : Bodies, attempts : Nat, from : People \cup {Nobody},
              id : Nat, guess : BOOLEAN, late : BOOLEAN]
NoRow == [st |-> "none", body |-> "general", attempts |-> 0, from |-> Nobody,
          id |-> 0, guess |-> FALSE, late |-> FALSE]
\* `knew`: our replies in the thread whose notices were stored when its row was claimed.
PageComment == [ours : BOOLEAN, body : Bodies, under : Comments, tags : People \cup {Nobody},
                inWindow : BOOLEAN, told : BOOLEAN, knew : SUBSET Bodies]
Job == [pc : {"queued", "fresh", "go", "post", "mark", "done", "spent"}, tries : 1 .. MaxRuns,
        todo : Seq(Halves), gate : {"unread", "clear", "handled"}, capped : BOOLEAN,
        knew : SUBSET Bodies, answer : Answers, id : Nat, gaveUp : SUBSET {"public", "private"}]
NewJob == [pc |-> "queued", tries |-> 1, todo |-> <<>>, gate |-> "unread", capped |-> FALSE,
           knew |-> {}, answer |-> "none", id |-> 0, gaveUp |-> {}]

CommentTypeOK ==
    /\ pub \in [Threads -> PublicRow] /\ prv \in [People -> ReplyStates]
    /\ wall \in [Threads -> Seq(PageComment)] /\ got \subseteq People
    /\ job \in [Comments -> Job]
    /\ settling \in [Threads -> Nat]
    /\ staff \in 0 .. MaxStaff /\ faults \in 0 .. MaxFaults

CommentInit ==
    /\ pub = [t \in Threads |-> NoRow] /\ prv = [p \in People |-> "none"]
    /\ wall = [t \in Threads |-> <<>>] /\ got = {}
    /\ job = [c \in Comments |-> NewJob]
    /\ settling = [t \in Threads |-> 0]
    /\ staff = 0 /\ faults = 0

(***************************************************************************)
(* Helpers                                                                 *)
(***************************************************************************)

Fault == faults < MaxFaults /\ faults' = faults + 1
NoFault == UNCHANGED faults
At(c, place) == job[c].pc = place
Pending == {"draft", "failed"}
Counted == {"draft", "sending", "sent", "indeterminate"}
Least(S) == CHOOSE i \in S : \A j \in S : i <= j

Noticed(t) == {i \in DOMAIN wall[t] : wall[t][i].told}
Same(t) == {i \in Noticed(t) : wall[t][i].body = pub[t].body}
Known(t) == {wall[t][i].body : i \in {i \in Noticed(t) : wall[t][i].ours}}
InWindow(t) == {i \in Same(t) : wall[t][i].inWindow}

Proven(t) == IF pub[t].id # 0 /\ ~ pub[t].guess THEN {pub[t].id} ELSE {}
Probable(t) ==
    CASE pub[t].id # 0 /\ pub[t].guess -> {pub[t].id}
      [] pub[t].st \in {"failed", "sending", "indeterminate"} /\ InWindow(t) # {} -> {Least(InWindow(t))}
      [] OTHER -> {}

\* The Page answered this comment, or tagged its author anywhere under the post.
\* The notices in excused[t] are our own and do not count.
Handled(c, excused) ==
    \E t \in Threads : \E i \in Noticed(t) \ excused[t] : t = c \/ wall[t][i].tags = Author[c]
HandledAtDecision(c) == Handled(c, [t \in Threads |-> Proven(t) \cup Probable(t)])
HandledAtSend(c) == Handled(c, [t \in Threads |-> Proven(t)])

PersonAnswered(p) == prv[p] \in Counted \/ \E t \in Threads : pub[t].from = p /\ pub[t].st \in Counted
RepliesUnderPost == Cardinality({t \in Threads : pub[t].st \in Counted})

Half(c) == Head(job[c].todo)
RowOf(c) == IF Half(c) = "public" THEN pub[Thread[c]].st ELSE prv[Author[c]]

Settled(j) == [NewJob EXCEPT !.pc = "done", !.tries = j.tries, !.gaveUp = j.gaveUp]
Doing(j, halves) == IF halves = <<>> THEN Settled(j) ELSE [j EXCEPT !.pc = "go", !.todo = halves]
Onward(j) == Doing([j EXCEPT !.knew = {}, !.answer = "none", !.id = 0], Tail(j.todo))
Redelivered(j) ==
    IF j.tries < MaxRuns THEN [NewJob EXCEPT !.tries = j.tries + 1, !.gaveUp = j.gaveUp]
    ELSE [Settled(j) EXCEPT !.pc = "spent"]
\* For good: a person answered, the lookup refused, or Meta did.
Leaves(c, halves) == [job[c] EXCEPT !.gaveUp = @ \cup halves]
Set(c, j) == job' = [job EXCEPT ![c] = j]
Public(c, st) == pub' = [pub EXCEPT ![Thread[c]].st = st] /\ UNCHANGED prv
Private(c, st) == prv' = [prv EXCEPT ![Author[c]] = st] /\ UNCHANGED pub
Row(c, st) == IF Half(c) = "public" THEN Public(c, st) ELSE Private(c, st)
Failed(c) ==
    IF Half(c) = "public"
    THEN /\ pub' = [pub EXCEPT ![Thread[c]].st = "failed", ![Thread[c]].attempts = @ + 1]
         /\ UNCHANGED prv
    ELSE Private(c, "failed")
Page == <<wall, got, settling, staff>>

(***************************************************************************)
(* The job                                                                 *)
(***************************************************************************)

DecideStaff(c) ==
    /\ At(c, "queued") /\ HandledAtDecision(c)
    /\ Set(c, Settled(Leaves(c, {"public", "private"})))
    /\ NoFault /\ UNCHANGED <<pub, prv, Page>>

\* Fault: the line first, as if each half stood alone.
ResumePublicFirst(c) ==
    (IF pub[Thread[c]].st \in Pending THEN <<"public">> ELSE <<>>)
    \o (IF prv[Author[c]] \in Pending THEN <<"private">> ELSE <<>>)
\* Fault: a row that exists was read as the work being done.
ResumeNothing(c) == <<>>

\* FINISH WHAT WAS STARTED: the rows still waiting, the chat first when the line claims it.
ResumeHalves(c) ==
    LET p == Author[c]  t == Thread[c]
        public == IF pub[t].st \in Pending THEN <<"public">> ELSE <<>>
        private == IF prv[p] \in Pending THEN <<"private">> ELSE <<>>
    IN IF public # <<>> /\ pub[t].body = "claiming" THEN private \o <<"pair", "public">>
       ELSE public \o private

DecideResume(c) ==
    /\ At(c, "queued") /\ ~ HandledAtDecision(c)
    /\ PersonAnswered(Author[c]) \/ pub[Thread[c]].st # "none"
    /\ \/ Set(c, Doing(job[c], ResumeHalves(c))) /\ NoFault
       \/ ResumeHalves(c) # <<>> /\ Set(c, Settled(Leaves(c, {"public", "private"}))) /\ Fault  \* the lookup does not know
    /\ UNCHANGED <<pub, prv, Page>>

DecideReply(c) ==
    /\ At(c, "queued") /\ ~ HandledAtDecision(c)
    /\ ~ PersonAnswered(Author[c]) /\ pub[Thread[c]].st = "none"
    /\ Set(c, IF RepliesUnderPost >= Cap /\ c \notin Own THEN Settled(job[c])
              ELSE [job[c] EXCEPT !.pc = "fresh", !.capped = RepliesUnderPost >= Cap])
    /\ NoFault /\ UNCHANGED <<pub, prv, Page>>

\* Both rows before either send; whoever wrote a row first, its body is the one sent.
DraftPublic(c) ==
    pub' = IF job[c].capped \/ pub[Thread[c]].st # "none" THEN pub
           ELSE [pub EXCEPT ![Thread[c]] = [NoRow EXCEPT !.st = "draft", !.from = Author[c],
                                            !.body = IF c \in Own THEN "claiming" ELSE "general"]]
Plan(c) ==
    IF job[c].capped THEN <<"private">>
    ELSE IF c \in Own THEN <<"private", "pair", "public">> ELSE <<"public", "private">>

DraftBoth(c) ==
    /\ At(c, "fresh")
    /\ DraftPublic(c)
    /\ prv' = [prv EXCEPT ![Author[c]] = IF @ = "none" THEN "draft" ELSE @]
    /\ Set(c, Doing(job[c], Plan(c)))
    /\ NoFault /\ UNCHANGED Page

DraftHalf(c) ==
    /\ At(c, "fresh") /\ Fault
    /\ DraftPublic(c)
    /\ Set(c, Redelivered(job[c]))
    /\ UNCHANGED <<prv, Page>>

\* The line stays as written only if the chat it speaks of arrived.
Pair(c) ==
    /\ At(c, "go") /\ Half(c) = "pair"
    /\ IF prv[Author[c]] = "sent" \/ pub[Thread[c]].st \notin Pending THEN UNCHANGED <<pub, prv>>
       ELSE IF GeneralReviewed THEN pub' = [pub EXCEPT ![Thread[c]].body = "general"] /\ UNCHANGED prv
       ELSE Public(c, "refused")
    /\ Set(c, Onward(job[c]))
    /\ NoFault /\ UNCHANGED Page

Sending(c) == At(c, "go") /\ Half(c) \in {"public", "private"}

NotOurs(c) ==
    /\ Sending(c) /\ RowOf(c) \notin Pending
    /\ Set(c, Onward(job[c]))
    /\ NoFault /\ UNCHANGED <<pub, prv, Page>>

\* Fault: a failed row is posted again without a look at the notices.
TwinsUnread(c) == {}

\* Before a re-send: an identical comment of the Page stops the post, however late it is.
Twins(c) ==
    IF Half(c) = "public" /\ pub[Thread[c]].attempts > 0 THEN Same(Thread[c]) ELSE {}
Matched(t) ==
    LET i == Least(Same(t))
    IN IF wall[t][i].inWindow THEN [pub[t] EXCEPT !.st = "sent", !.id = i, !.guess = TRUE]
       ELSE [pub[t] EXCEPT !.st = "refused"]

Twin(c) ==
    /\ Sending(c) /\ RowOf(c) \in Pending /\ Twins(c) # {}
    /\ pub' = [pub EXCEPT ![Thread[c]] = Matched(Thread[c])]
    /\ Set(c, Onward(job[c]))
    /\ NoFault /\ UNCHANGED <<prv, Page>>

\* One reading holds for both halves of a comment.
Gate(c) ==
    IF job[c].gate # "unread" THEN job[c].gate
    ELSE IF HandledAtSend(c) THEN "handled" ELSE "clear"

Withhold(c) ==
    /\ Sending(c) /\ RowOf(c) \in Pending /\ Twins(c) = {} /\ Gate(c) = "handled"
    /\ Row(c, "refused")
    /\ Set(c, Onward([job[c] EXCEPT !.gate = "handled"]))
    /\ NoFault /\ UNCHANGED Page

ClaimHalf(c) ==
    /\ Sending(c) /\ RowOf(c) \in Pending /\ Twins(c) = {} /\ Gate(c) = "clear"
    /\ Row(c, "sending")
    /\ Set(c, [job[c] EXCEPT !.pc = "post", !.gate = "clear",
                             !.knew = IF Half(c) = "public" THEN Known(Thread[c]) ELSE {}])
    /\ NoFault /\ UNCHANGED Page

\* The notices or the staff check cannot be read: the row is handed back.
Unread(c) ==
    /\ Sending(c) /\ RowOf(c) \in Pending /\ Fault
    /\ Failed(c)
    /\ Set(c, Redelivered(job[c]))
    /\ UNCHANGED Page

\* The Graph call: what it did, and what it answered.
Post(c) ==
    /\ At(c, "post")
    /\ \E made \in BOOLEAN, answer \in Answers \ {"none"} :
        /\ answer = "sent" => made
        /\ answer = "terminal" => ~ made
        /\ IF answer = "sent" THEN NoFault ELSE Fault
        /\ IF made /\ Half(c) = "public"
           THEN wall' = [wall EXCEPT ![Thread[c]] = Append(@,
                    [ours |-> TRUE, body |-> pub[Thread[c]].body, under |-> c, tags |-> Nobody,
                     inWindow |-> ~ pub[Thread[c]].late, told |-> FALSE, knew |-> job[c].knew])]
           ELSE UNCHANGED wall
        /\ got' = IF made /\ Half(c) = "private" THEN got \cup {Author[c]} ELSE got
        /\ Set(c, [job[c] EXCEPT !.pc = "mark", !.answer = answer, !.knew = {},
                                 !.id = IF made /\ answer = "sent" /\ Half(c) = "public"
                                        THEN Len(wall[Thread[c]]) + 1 ELSE 0])
    /\ UNCHANGED <<pub, prv, settling, staff>>

\* Only a row still `sending` is marked; a notice may have settled it first.
MarkHalf(c) ==
    /\ At(c, "mark")
    /\ IF RowOf(c) # "sending" THEN UNCHANGED <<pub, prv>>
       ELSE CASE job[c].answer = "sent" /\ Half(c) = "public" ->
                    /\ pub' = [pub EXCEPT ![Thread[c]].st = "sent", ![Thread[c]].id = job[c].id]
                    /\ UNCHANGED prv
              [] job[c].answer = "sent" /\ Half(c) = "private" -> Private(c, "sent")
              [] job[c].answer = "indeterminate" -> Row(c, "indeterminate")
              [] OTHER -> Failed(c)
    /\ Set(c, CASE job[c].answer = "retryable" -> Redelivered(job[c])
                [] job[c].answer = "terminal" -> Onward(Leaves(c, {Half(c)}))
                [] OTHER -> Onward(job[c]))
    /\ NoFault /\ UNCHANGED Page

\* No caller reads what the mark returned.
MarkLost(c) ==
    /\ At(c, "mark") /\ job[c].answer # "retryable" /\ Fault
    /\ Set(c, Onward(job[c]))
    /\ UNCHANGED <<pub, prv, Page>>

\* The run dies, or stops for its time budget.
Stop(c) ==
    /\ job[c].pc \in {"fresh", "go", "post", "mark"} /\ Fault
    /\ Set(c, Redelivered(job[c]))
    /\ UNCHANGED <<pub, prv, Page>>

(***************************************************************************)
(* What the Page wrote, and what its notices prove                         *)
(***************************************************************************)

\* reconcileFromEntry reads the parked row with the notice in hand, or could not.
Parked == {"sending", "indeterminate"}
Found(t, i, page) ==
    IF pub[t].st \in Parked /\ page.body = pub[t].body /\ page.inWindow
    THEN settling' \in {settling, [settling EXCEPT ![t] = i]}
    ELSE UNCHANGED settling

Notice(t) ==
    /\ settling[t] = 0
    /\ \E i \in DOMAIN wall[t] \ Noticed(t) :
        /\ wall' = [wall EXCEPT ![t][i].told = TRUE]
        /\ Found(t, i, wall[t][i])
    /\ NoFault /\ UNCHANGED <<pub, prv, got, job, staff>>

\* A person writes as the Page: words of their own, or our line, pasted.
StaffWrites(t) ==
    /\ staff < MaxStaff /\ staff' = staff + 1 /\ settling[t] = 0
    /\ \E body \in {"their words", pub[t].body}, tags \in People \cup {Nobody} :
        LET page == [ours |-> FALSE, body |-> body, under |-> t, tags |-> tags,
                     inWindow |-> pub[t].st # "none" /\ ~ pub[t].late, told |-> TRUE, knew |-> {}]
        IN /\ body = "their words" \/ (pub[t].st # "none" /\ tags = Nobody)
           /\ wall' = [wall EXCEPT ![t] = Append(@, page)]
           /\ Found(t, Len(wall[t]) + 1, page)
    /\ NoFault /\ UNCHANGED <<pub, prv, got, job>>

Reconciled(t, i) == [pub[t] EXCEPT !.st = "sent", !.id = i]

Reconcile(t) ==
    /\ settling[t] # 0
    /\ pub' = IF pub[t].st \in Parked \cup {"failed"}
              THEN [pub EXCEPT ![t] = Reconciled(t, settling[t])] ELSE pub
    /\ settling' = [settling EXCEPT ![t] = 0]
    /\ NoFault /\ UNCHANGED <<prv, wall, got, job, staff>>

\* The hourly sweep: a parked row, or one whose worker is gone, against the stored notices.
Held(t) == \E c \in Comments : Thread[c] = t /\ job[c].pc \in {"post", "mark"} /\ Half(c) = "public"
Sweep(t) ==
    /\ pub[t].st = "indeterminate" \/ (pub[t].st = "sending" /\ ~ Held(t))
    /\ InWindow(t) # {}
    /\ pub' = [pub EXCEPT ![t] = Reconciled(t, Least(InWindow(t)))]
    /\ NoFault /\ UNCHANGED <<prv, Page, job>>

\* Ten minutes pass since the draft; a run lasts one at most.
TenMinutes(t) ==
    /\ pub[t].st \in Pending \cup Parked /\ ~ pub[t].late
    /\ \A c \in Comments : Thread[c] = t => job[c].pc \in {"queued", "done", "spent"}
    /\ pub' = [pub EXCEPT ![t].late = TRUE]
    /\ NoFault /\ UNCHANGED <<prv, Page, job>>

Works(c) ==
    \/ DecideStaff(c) \/ DecideResume(c) \/ DecideReply(c) \/ DraftBoth(c) \/ Pair(c)
    \/ NotOurs(c) \/ Twin(c) \/ Withhold(c) \/ ClaimHalf(c) \/ Post(c) \/ MarkHalf(c)

CommentNext ==
    \/ \E c \in Comments : Works(c) \/ DraftHalf(c) \/ Unread(c) \/ MarkLost(c) \/ Stop(c)
    \/ \E t \in Threads : Notice(t) \/ StaffWrites(t) \/ Reconcile(t) \/ Sweep(t) \/ TenMinutes(t)

CommentSpec == CommentInit /\ [][CommentNext]_commentVars

\* QStash delivers until it gives up, the sweep runs every hour.  A notice may never come.
CommentFairSpec ==
    /\ CommentSpec
    /\ \A c \in Comments : WF_commentVars(Works(c))
    /\ \A t \in Threads : WF_commentVars(Reconcile(t)) /\ WF_commentVars(Sweep(t))

(***************************************************************************)
(* Properties                                                              *)
(***************************************************************************)

\* The comments of a thread are one person's, and one rule claims them all.
OneRule(t) ==
    \A c, d \in Comments :
        Thread[c] = t /\ Thread[d] = t => Author[c] = Author[d] /\ (c \in Own <=> d \in Own)

\* While a reply of ours is on the wall with its notice stored, no second one is posted.
RepliedOnce(t) == \A i \in DOMAIN wall[t] : wall[t][i].knew = {}
TrueClaims(t) ==
    \A i \in DOMAIN wall[t] :
        (wall[t][i].ours /\ wall[t][i].body = "claiming") => Author[wall[t][i].under] \in got

\* Three comments in one thread get one reply (eligibility.ts:328), whatever
\* the first POST was answered (comments.ts:1396, reconcile.ts:480) and
\* whatever happens in other threads - save in a thread where two people
\* wrote or two rules claim: NeverTwoReplies, without the exception, is false.
OneReplyPerThread == \A t \in Threads : OneRule(t) => RepliedOnce(t)
NeverTwoReplies == \A t \in Threads : RepliedOnce(t)

\* The public line that says the details went by chat stands only under a
\* comment whose author received them (sendClaimingPair, comments.ts:1318),
\* save in the same threads: EveryClaimIsTrue, without the exception, is false.
ClaimIsTrue == \A t \in Threads : OneRule(t) => TrueClaims(t)
EveryClaimIsTrue == \A t \in Threads : TrueClaims(t)

\* A row drafted is sent, settled or refused, unless every delivery was used,
\* Meta or the lookup refused, or a person answered (comments.ts:1058): the
\* public line of a thread, and the private message of a person.
GivenUp(c, half) == job[c].pc = "spent" \/ half \in job[c].gaveUp
StartedIsFinished ==
    /\ \A t \in Threads : pub[t].st \in Pending ~>
           (pub[t].st \notin Pending \/ \E c \in Comments : Thread[c] = t /\ GivenUp(c, "public"))
    /\ \A p \in People : prv[p] \in Pending ~>
           (prv[p] \notin Pending \/ \E c \in Comments : Author[c] = p /\ GivenUp(c, "private"))

\* A row whose POST was answered with an error becomes `sent` only as a
\* guess, by the check before its re-send (reconcile.ts:315).
FailedIsOnlyGuessed ==
    [][\A t \in Threads : pub[t].st = "failed" /\ pub'[t].st = "sent" => pub'[t].guess]_commentVars

\* Half of "both" is a different policy (eligibility.ts:356): a thread that got
\* its public line has the row of its author's private message too.
BothAreWritten ==
    \A t \in Threads, p \in People : (pub[t].st = "sent" /\ pub[t].from = p) ~> prv[p] # "none"
=============================================================================
