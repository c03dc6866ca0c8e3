--------------------------- MODULE ReplyPipeline ---------------------------
(***************************************************************************)
(* What one conversation is told, turn after turn: the rows that answer    *)
(* before a token is spent, the one model call under a reservation, the    *)
(* judging of what the model wrote, and the chain every draft goes through *)
(* on its way to the outbound row (src/lib/reception/handle.ts).  A body   *)
(* is the set of what it says, each member one sentence or row and where   *)
(* its words come from; the order of sentences, their wording and their    *)
(* length are left out.  A message is the set of what the matchers find in *)
(* it.  What is read before the call is fixed during a turn.               *)
(***************************************************************************)
EXTENDS Naturals, FiniteSets

CONSTANTS Tenants,    \* what a tenant may have set up: sets of settings
          Messages,   \* what a message may be: sets of traits
          Replies,    \* what the model may write: sets of phrases
          MaxTurns    \* bound on messages

\* Facts in the model's own words: a listed price with no service beside it,
\* one beside its service's name, one that may be anybody's, a branch's hours.
Restated == {"price", "named", "guess", "hoursSaid"}

\* The bot's own instructions, a gate's label, a number nobody compiled, a
\* refusal line with a word changed, a piece of one inside something else, and a
\* published answer with a word changed.
Unsendable == {"leak", "label", "number", "near", "piece", "reworded"}

\* Plain words, advice no row holds, an apology, and the visitor's own site.
Talk == {"plain", "advice", "sorry", "site"}

\* Price rows, a set of them with its question, that question alone, deposits,
\* a branch's hours, a published answer, and the reviewed lines.
Facts == {"rows", "set", "deposits", "hours"}
Lines == {"ask", "faq", "handoff", "callback", "refusal", "unlisted", "booking", "fixed", "short", "thanks",
          "question", "notice", "image", "correction", "appended", "follow", "which"}

\* The reviewed lines the model was shown and may have been reaching for.
Pinnable == {"handoff", "refusal", "unlisted", "booking", "short"}

Phrases == Restated \union Unsendable \union Talk \union Facts \union Lines
Traits == {"old", "asksPrice", "names", "asksDeposit", "blocked", "refuses", "suits", "fixed", "set", "short",
           "appends", "phone", "photo", "crossed", "later", "corrects", "complains", "branch"}
Settings == {"inbox", "callback", "site", "sells", "question", "notice", "image", "deposits", "branches",
             "facts", "stale"}

ASSUME InputAssumption == /\ Tenants \subseteq SUBSET Settings
                          /\ Messages \subseteq SUBSET Traits
                          /\ Replies \subseteq SUBSET Phrases \ {{}}
                          /\ MaxTurns \in Nat

VARIABLES
    tenant,   \* what this tenant has set up
    turns,    \* messages so far
    stage,    \* where the turn stands
    msg,      \* the message being answered
    hold,     \* the turn's reservation
    text,     \* what the model wrote; {} when it gave no text
    out,      \* how the turn ended
    last,     \* the bot's previous reply
    said,     \* everything the bot said before this turn
    asked,    \* a photo question was put within the hour
    heard     \* what earlier messages told: a branch, a phone number, a complaint

turnVars == <<tenant, turns, stage, msg, hold, text, out, last, said, asked, heard>>

Reply(b, w) == [body |-> b, by |-> w, alarm |-> FALSE]
Outcome(k, x) == [kind |-> k, body |-> x.body, by |-> x.by, alarm |-> x.alarm]
Nothing == Reply({}, "nobody")

PipelineTypeOK ==
    /\ tenant \in Tenants /\ turns \in 0..MaxTurns
    /\ stage \in {"idle", "free", "call", "settle", "judge"}
    /\ msg \in Messages \union {{}} /\ text \in Replies \union {{}}
    /\ hold \in {"none", "held", "released", "called", "settled", "dead"}
    /\ out \in [kind : {"none", "drafted", "dropped", "retry"}, body : SUBSET Phrases,
                by : {"nobody", "model", "canned", "deterministic"}, alarm : BOOLEAN]
    /\ last \subseteq Phrases /\ said \subseteq Phrases
    /\ asked \in BOOLEAN /\ heard \subseteq {"branch", "phone", "complains"}

PipelineInit ==
    /\ tenant \in Tenants
    /\ turns = 0 /\ stage = "idle" /\ msg = {} /\ hold = "none" /\ text = {}
    /\ out = Outcome("none", Nothing)
    /\ last = {} /\ said = {} /\ asked = FALSE /\ heard = {}

-----------------------------------------------------------------------------
(* The chain every draft goes through.                                     *)

\* The line that is true of any question.
General == {IF "callback" \in tenant THEN "callback" ELSE "handoff"}

\* The line of the rule that fired, before the general one.
HandOff == IF msg \intersect {"refuses", "suits"} # {} THEN {"refusal"} ELSE General

ModelAsked == hold \in {"called", "settled", "dead"}

\* The rows that own the facts a text restates.
RowsOf(t) == (IF t \intersect {"price", "named"} # {} THEN {"rows"} ELSE {})
             \union (IF "hoursSaid" \in t THEN {"hours"} ELSE {})

Priced(t) == t \intersect {"price", "named", "guess", "rows", "set"} # {}

\* Never the bot's own instructions.
LeakIn(b) == "leak" \in b
Unleaked(x) ==
    IF x.by = "model" /\ LeakIn(x.body) THEN Reply(General, "canned") ELSE x

\* A fact in the model's words, and the reply with its sentence replaced by the row.
Restates(b) == b \intersect Restated # {}
Split(b) == (b \ Restated) \union RowsOf(b)

\* Fault: a price that may be anybody's is left as written.
FactualOwned(x) ==
    IF x.by # "model" \/ x.body \intersect (Restated \ {"guess"}) = {} THEN x
    ELSE [x EXCEPT !.body = (@ \ {"price", "named", "hoursSaid"}) \union RowsOf(@)]

\* Facts come from their rows: the sentence is replaced, or the whole reply.
Factual(x) ==
    IF x.by # "model" \/ ~Restates(x.body) THEN x
    ELSE IF "guess" \in x.body THEN Reply(General, "canned")
    ELSE IF x.body \subseteq Restated THEN Reply(RowsOf(x.body), "deterministic")
    ELSE [x EXCEPT !.body = Split(@)]

\* Which branch: asked once, of a customer who named none.
GuessesBranch(b) == "hours" \in b /\ "branch" \notin msg \union heard
Branched(x, by) ==
    IF by = "model" /\ "branches" \in tenant /\ GuessesBranch(x.body)
    THEN Reply({IF "which" \in last THEN "handoff" ELSE "which"}, "canned")
    ELSE x

\* Fault: only the hand-off row's bytes are a hand-off.
AlarmedByRow(x) ==
    IF x.body = {"handoff"}
    THEN [x EXCEPT !.alarm = TRUE,
                   !.body = IF "inbox" \notin tenant /\ "callback" \in tenant THEN {"callback"} ELSE @]
    ELSE x

\* A hand-off is recorded, and without an inbox it asks for a number instead.
Alarmed(x) ==
    IF x.body = {"handoff"}
    THEN [x EXCEPT !.alarm = TRUE,
                   !.body = IF "inbox" \notin tenant /\ "callback" \in tenant THEN {"callback"} ELSE @]
    ELSE IF x.by = "canned" /\ x.body = {"callback"} THEN [x EXCEPT !.alarm = TRUE]
    ELSE x

\* The rows of the service they named and the deposits they asked about, when
\* neither the reply nor an earlier one carries them.
RowsMissing(x) == {"asksPrice", "names"} \subseteq msg /\ ~Priced(x.body) /\ ~Priced(said)
DepositsMissing(x) ==
    {"asksPrice", "asksDeposit"} \subseteq msg /\ "deposits" \in tenant \ (x.body \union said)

\* They lead the reply to which the model was asked, never where prices are blocked.
Missing(x) ==
    IF ~ModelAsked \/ "blocked" \in msg THEN {}
    ELSE (IF ~Priced(text) /\ RowsMissing(x) THEN {"rows"} ELSE {})
         \union (IF DepositsMissing(x) THEN {"deposits"} ELSE {})

Led(x) ==
    IF Missing(x) = {} THEN x
    ELSE IF x.body \intersect (General \union {"handoff", "unlisted"}) = {}
    THEN [x EXCEPT !.body = @ \union Missing(x)]
    ELSE [x EXCEPT !.body = Missing(x), !.by = "deterministic"]

\* Fault: only a reply that is the sales line and nothing else is looked at.
UnsoldWhole(x) == IF x.by = "model" /\ x.body = {"follow"} THEN [x EXCEPT !.by = "deterministic"] ELSE x

\* The model never types the sales line; the platform adds it.
Unsold(x) ==
    IF x.by = "model" /\ "sells" \in tenant /\ x.body # {"follow"} THEN [x EXCEPT !.body = @ \ {"follow"}]
    ELSE x

\* Deposits stand above the booking line, appended rows at the end.
WithDeposits(b) == b \union (IF "booking" \in b /\ "deposits" \in tenant THEN {"deposits"} ELSE {})
WithAppended(b) == b \union (IF "appends" \in msg THEN {"appended"} ELSE {})
Completed(x) == [x EXCEPT !.body = WithAppended(WithDeposits(@))]

\* The same text, or the same prices.
Amounts(b) == b \intersect {"rows", "set", "deposits"}
Repeats(b, p) == b = p \/ (Amounts(b) # {} /\ Amounts(b) = Amounts(p))

\* A correction is answered with the tenant's clarifying line, not the same reply.
Corrects(b) == "corrects" \in msg /\ last # {} /\ Repeats(b, last)

\* An earlier reply offered a step; this turn, or its reply, is no moment to sell.
OfferedBefore == {"follow", "callback"} \intersect said # {}
WrongMoment(b) ==
    \/ msg \intersect {"complains", "phone", "photo"} # {} \/ heard \intersect {"complains", "phone"} # {}
    \/ b \intersect {"handoff", "refusal", "unlisted", "notice", "ask", "set", "which"} # {}

\* One follow-up in a conversation, never in a wrong moment.
Sold(x) ==
    IF /\ "sells" \in tenant /\ {"follow", "callback"} \intersect x.body = {}
       /\ ~OfferedBefore /\ ~WrongMoment(x.body)
    THEN [x EXCEPT !.body = @ \union {"follow"}]
    ELSE x

\* The sentences that name the site the visitor is on are left out.
WithoutOwnSite(b) == IF "site" \in tenant THEN b \ {"site"} ELSE b

\* Of a reply that says nothing else, the general line is left, as a hand-off.
OffSite(x) ==
    IF WithoutOwnSite(x.body) # {} THEN [x EXCEPT !.body = WithoutOwnSite(@)]
    ELSE [body |-> General, by |-> "canned", alarm |-> TRUE]

Finished(x) ==
    LET told == Alarmed(Branched(Factual(Unleaked(x)), x.by))
        whole == Completed(Unsold(Led(told)))
    IN  OffSite(IF Corrects(whole.body)
                THEN [whole EXCEPT !.body = {"correction"}, !.by = "deterministic"]
                ELSE Sold(whole))

-----------------------------------------------------------------------------
(* What is drafted.                                                        *)

QuestionRow == {"inbox", "question"} \subseteq tenant

\* A picture and "how much": what the photo question's turn calls for.
PhotoStep ==
    LET put == QuestionRow /\ last = {"question"} /\ "later" \notin msg
        crossed == put /\ "crossed" \in msg
        wordless == msg \ {"photo", "crossed", "later"} = {}
    IN  IF "photo" \in msg /\ ~QuestionRow THEN "off"
        ELSE IF ~put /\ "photo" \notin msg THEN "off"
        ELSE IF msg \intersect {"fixed", "set"} # {} THEN "answer"
        ELSE IF ~crossed /\ "photo" \notin msg
        THEN IF msg \intersect {"names", "short", "blocked", "refuses", "suits"} # {} THEN "answer" ELSE "handoff"
        ELSE IF ~wordless /\ "asksPrice" \notin msg
        THEN IF "photo" \notin msg /\ "names" \in msg THEN "answer" ELSE "handoff"
        ELSE IF {"asksPrice", "names"} \subseteq msg THEN "answer"
        ELSE IF put THEN (IF crossed THEN "wait" ELSE "handoff")
        ELSE IF asked THEN "handoff" ELSE "ask"

\* A new number is thanked for, not sold to.
Thanked == "phone" \in msg \ heard /\ "sells" \in tenant

\* What a picture gets: the question, the notice that a person will look, the
\* tenant's image line, or nothing here.
Pictured ==
    IF PhotoStep = "ask" THEN Reply({"question"}, "canned")
    ELSE IF (PhotoStep = "handoff" \/ (PhotoStep = "off" /\ "photo" \in msg)) /\ "notice" \in tenant
    THEN Reply({"notice"}, "canned")
    ELSE IF PhotoStep # "answer" /\ "photo" \in msg /\ "image" \in tenant THEN Reply({"image"}, "canned")
    ELSE Nothing

\* The answer that costs nothing, in the order it is looked for.
FreeAnswer ==
    IF Thanked THEN Reply({"thanks"}, "deterministic")
    ELSE IF Pictured # Nothing THEN Pictured
    ELSE IF msg \intersect {"fixed", "set"} # {}
    THEN Reply({CHOOSE r \in {"fixed", "set"} : r \in msg}, "deterministic")
    ELSE IF "short" \in msg THEN Reply({"short"}, "canned")
    ELSE IF "facts" \notin tenant THEN Reply(HandOff, "canned")
    ELSE Nothing

\* The reviewed row a text is, or holds with a word changed; of a row changed
\* inside a longer reply the check is unsure.
PinnedKind ==
    IF "near" \in text THEN "refusal"
    ELSE IF \E r \in Pinnable : text = {r} THEN CHOOSE r \in Pinnable : text = {r}
    ELSE IF "piece" \in text THEN "unlisted" ELSE "none"
PinnedLine == IF "piece" \in text /\ "near" \notin text THEN General ELSE {PinnedKind}

SaysUnlisted == PinnedKind = "unlisted" \/ (PinnedKind = "none" /\ "unlisted" \in text)

\* The prices a reply quoted, served from the list when it can be told whose they are.
DataAnswer == IF "guess" \notin text /\ Priced(text) THEN {"rows"} ELSE {}

\* A published answer with a word changed is served as published, under the rows it stated.
Reworded == "reworded" \in text
FaqServed ==
    LET rows == IF "guess" \in text THEN {} ELSE RowsOf(text)
    IN  Reply({"faq"} \union rows, IF rows = {} THEN "canned" ELSE "deterministic")

\* A question whether something can be done gets the tenant's words, or prices.
Refused == PinnedKind \in {"refusal", "handoff", "unlisted"} \/ "refusal" \in text
Ungrounded == "suits" \in msg /\ (Refused \/ "advice" \in text)
GroundedPrices == IF "suits" \in msg /\ "names" \in msg /\ ~Priced(text) THEN {"rows"} ELSE {}

\* The guard stops a label, a number nobody compiled, and any number where the
\* topic forbids one.
Guarded ==
    \/ text \intersect {"label", "number"} # {}
    \/ "blocked" \in msg /\ text \intersect (Restated \union Facts) # {}

QuotedRows == text \intersect Pinnable

\* Behind a label the prices or a reviewed row quoted whole may stand.
GuardFallback ==
    IF "label" \in text /\ DataAnswer # {} THEN Reply(DataAnswer, "deterministic")
    ELSE IF "label" \in text /\ QuotedRows # {} THEN Reply({CHOOSE r \in QuotedRows : TRUE}, "canned")
    ELSE Reply(HandOff, "canned")

\* A set's question under prices that are not the set's, and with no price at all.
SetQuestion ==
    IF "ask" \notin text THEN {}
    ELSE IF Priced(text) THEN {"rows"}
    ELSE IF "asksPrice" \in msg /\ msg \intersect {"blocked", "suits"} = {} /\ "set" \notin said
    THEN {"set"} ELSE {}

\* An apology opens only a reply that refuses something.
Unapologetic(b) ==
    IF msg \intersect {"refuses", "suits", "complains"} = {} /\ b # {"sorry"} THEN b \ {"sorry"} ELSE b

\* The booking line is never an apology.
ApologisesForBooking == {"sorry", "booking"} \subseteq text

\* Prices stand beside their services' names, or the rows are served.
Presented ==
    IF "guess" \in text THEN Reply(text, "model")
    ELSE IF "price" \in text THEN Reply({"rows"}, "deterministic")
    ELSE IF SetQuestion # {} THEN Reply(SetQuestion, "deterministic")
    ELSE Reply(Unapologetic(text) \union GroundedPrices, "model")

\* What becomes of the model's text.
Judged ==
    IF text = {} THEN Reply(HandOff, "canned")
    ELSE IF Reworded THEN FaqServed
    ELSE IF SaysUnlisted /\ "blocked" \notin msg /\ "names" \in msg THEN Reply({"rows"}, "deterministic")
    ELSE IF Ungrounded /\ (DataAnswer # {} \/ "names" \in msg) THEN Reply({"rows"}, "deterministic")
    ELSE IF Ungrounded /\ ~Refused THEN Reply({"refusal"}, "canned")
    ELSE IF PinnedKind # "none" THEN Reply(PinnedLine, "canned")
    ELSE IF Guarded THEN GuardFallback
    ELSE IF ApologisesForBooking THEN Reply({"booking"}, "deterministic")
    ELSE Presented

-----------------------------------------------------------------------------
(* The turn.                                                               *)

\* A customer message reaches handleReception with its reservation held.
Receive(m) ==
    /\ stage = "idle" /\ turns < MaxTurns
    /\ turns' = turns + 1 /\ msg' = m /\ hold' = "held" /\ text' = {} /\ stage' = "free"
    /\ out' = Outcome("none", Nothing)
    /\ last' = IF out.kind = "drafted" THEN out.body ELSE last
    /\ said' = said \union out.body
    /\ asked' = ("later" \notin m /\ (asked \/ out.body = {"question"}))
    /\ heard' = heard \union (msg \intersect {"branch", "phone", "complains"})
    /\ UNCHANGED tenant

\* The turn ends with outcome o.
EndTurn(o) == out' = o /\ stage' = "idle" /\ text' = {} /\ UNCHANGED <<tenant, turns, msg, last, said, asked, heard>>

\* The row is stored, or the store refuses it and the message is delivered again.
StoreDraft(x) == EndTurn(Outcome("drafted", x)) \/ EndTurn(Outcome("retry", Nothing))

\* Too old, or rows that do not match what was published.
TurnAway ==
    /\ stage = "free" /\ hold' = "released"
    /\ \/ "old" \in msg /\ EndTurn(Outcome("dropped", Nothing))
       \/ "old" \notin msg /\ "stale" \in tenant /\ EndTurn(Outcome("retry", Nothing))

Free == stage = "free" /\ "old" \notin msg /\ "stale" \notin tenant

\* The photo question already answers this message.
Waits == PhotoStep = "wait" /\ ~Thanked
Wait == Free /\ Waits /\ hold' = "released" /\ EndTurn(Outcome("dropped", Nothing))

\* The hold goes straight back; only the photo question is drafted as it stands.
AnswerFree ==
    /\ Free /\ ~Waits /\ FreeAnswer # Nothing /\ hold' = "released"
    /\ StoreDraft(IF FreeAnswer.body = {"question"} THEN FreeAnswer ELSE Finished(FreeAnswer))

\* The reservation is marked called, or the mark fails and the hold goes back.
MarkCalled ==
    /\ Free /\ ~Waits /\ FreeAnswer = Nothing
    /\ \/ hold' = "called" /\ stage' = "call"
          /\ UNCHANGED <<tenant, turns, msg, text, out, last, said, asked, heard>>
       \/ hold' = "released" /\ EndTurn(Outcome("retry", Nothing))

\* The provider answers, refuses for good with or without a count of tokens, or
\* cannot be told to have answered.
Call ==
    /\ stage = "call" /\ UNCHANGED hold
    /\ \/ /\ \/ \E r \in Replies : text' = r /\ stage' = "settle"
             \/ text' = {} /\ stage' \in {"settle", "judge"}
          /\ UNCHANGED <<tenant, turns, msg, out, last, said, asked, heard>>
       \/ EndTurn(Outcome("retry", Nothing))

\* What was spent is settled, or flagged for the ledger's dead letters.
Settle ==
    /\ stage = "settle" /\ hold' \in {"settled", "dead"} /\ stage' = "judge"
    /\ UNCHANGED <<tenant, turns, msg, text, out, last, said, asked, heard>>

Judge == stage = "judge" /\ StoreDraft(Finished(Judged)) /\ UNCHANGED hold

PipelineNext ==
    \/ \E m \in Messages : Receive(m)
    \/ TurnAway \/ Wait \/ AnswerFree \/ MarkCalled \/ Call \/ Settle \/ Judge

PipelineSpec == PipelineInit /\ [][PipelineNext]_turnVars

-----------------------------------------------------------------------------
(* What must not go wrong.                                                 *)

\* Whatever path it took, a reply carries no fact in the model's own words,
\* nothing no person approved, and no way out of the page the visitor is on.
WordsAreChecked ==
    out.body \intersect (Restated \union Unsendable \union (IF "site" \in tenant THEN {"site"} ELSE {})) = {}

\* Whenever the bot's own choice was the line that hands over, a person is told,
\* and a visitor whose chat nobody reads is asked for a number.
GenericIsTold ==
    LET generic == out.body \intersect {"handoff", "callback"}
    IN  out.by \in {"canned", "deterministic"} /\ generic # {}
        => out.alarm /\ ("inbox" \notin tenant /\ "callback" \in tenant => generic = {"callback"})

\* The platform's follow-up, offered once, is in no later reply of the conversation
\* that says anything else, however the model repeats it.
OfferedOnce == "follow" \in out.body \intersect said /\ "sells" \in tenant => out.body \subseteq {"follow", "appended"}

\* Within the hour the platform puts the photo question once; after that a person answers.
QuestionOnce == out.by = "canned" /\ "question" \in out.body => ~asked

-----------------------------------------------------------------------------
(* What the code says of itself and does not keep.                         *)

\* On a topic whose rule forbids quoting a price no reply of the model's turn
\* carries a number, whatever its provenance.
BlockedIsUnpriced == ModelAsked /\ "blocked" \in msg => out.body \intersect Facts = {}

\* A correction is never answered with the reply it corrects.
NeverRepeats == "corrects" \in msg /\ last # {} /\ out.kind = "drafted" => ~Repeats(out.body, last)

\* A branch's facts are never stated to a customer who named no branch.
BranchIsNamed ==
    "branches" \in tenant /\ ModelAsked /\ "hours" \in out.body => "branch" \in msg \union heard
=============================================================================
