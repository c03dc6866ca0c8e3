--------------------------- MODULE AlertEpisodes ----------------------------
(***************************************************************************)
(* The founder's alerts as episodes: a condition that holds opens one row  *)
(* of `alerts`, is silent while the row is open, and speaks again when it  *)
(* returns (src/lib/alerts/alert.ts).  Four kinds of caller raise and close *)
(* them: the hourly health job for every channel and credential, a reply   *)
(* that met or saw the end of a fault, and an operator's set-up run.  The  *)
(* daily report lists what is open and says again what has been open for   *)
(* three days (src/lib/alerts/digest.ts).  Each database call and each     *)
(* message to Telegram is one step, which may fail.                        *)
(***************************************************************************)
EXTENDS Naturals, FiniteSets

CONSTANTS Channels, Secrets, Outages, Clients,   \* what conditions are about
          Worlds,      \* which of them there may be at once
          Streams,     \* what the watch may find of a channel: <<webhooks, messages>>
          Stages,      \* where a client's set-up may stand before it is ready
          Health, Reports, Replies, Operators,   \* the runs of each caller
          Merged,      \* DAILY_REPORT_V2
          RowIds,      \* bound on rows kept
          MaxFaults    \* bound on failures

All == Channels \union Secrets \union Outages \union Clients
Runs == Health \union Reports \union Replies \union Operators
Verdicts == {"ok", "silent", "not_configured", "unknown"}

\* A subject is of one kind, and a run is one program's.
ASSUME AlertAssumption ==
    /\ Channels \intersect Secrets = {} /\ (Channels \union Secrets) \intersect Outages = {}
    /\ (Channels \union Secrets \union Outages) \intersect Clients = {}
    /\ Health \intersect Reports = {} /\ (Health \union Reports) \intersect Replies = {}
    /\ (Health \union Reports \union Replies) \intersect Operators = {}
    /\ Stages # {} /\ Worlds \subseteq SUBSET All
    /\ Streams \subseteq Verdicts \X Verdicts /\ <<"ok", "ok">> \in Streams
    /\ Merged \in BOOLEAN /\ MaxFaults \in Nat /\ IsFiniteSet(RowIds)

VARIABLES
    world,   \* the subjects there are
    now,     \* what is true of each subject
    rows,    \* the episodes of `alerts`
    run,     \* where each run stands
    faults   \* failures so far

alertVars == <<world, now, rows, run, faults>>

\* What one stream's silence means: webhooks first, then messages.
Diagnosis(st) ==
    LET w == st[1]  m == st[2]
    IN  CASE w = "not_configured" -> "not_provisioned"
          [] w = "unknown" -> "unknown"
          [] w = "silent" -> "no_webhooks"
          [] m = "not_configured" -> "not_provisioned"
          [] m = "unknown" -> "unknown"
          [] m = "silent" -> "no_messages"
          [] OTHER -> "healthy"

\* The state a subject is in, as its detector would name it.
State(s) == IF s \in Channels THEN Diagnosis(now[s]) ELSE now[s]
Fault(s, x) == x \notin {"healthy", "not_provisioned", "fine", "up", "ready"}
Facts(s) ==
    CASE s \in Channels -> Streams
      [] s \in Secrets -> {"fine", "warn", "critical"}
      [] s \in Outages -> {"up", "down"}
      [] OTHER -> Stages \union {"ready"}

\* What an episode is about, how grave it is, and where its first word goes.
Keys == Channels \X {"no_webhooks", "no_messages", "unknown"} \union Secrets \X {"warn", "critical"}
        \union Outages \X {"down"} \union Clients \X Stages
Critical(k) == k[2] \in {"no_webhooks", "no_messages", "critical", "down"}
Paged(k) == k[2] \in {"critical", "down"}

NoRow == [key |-> <<>>]
Row(k) == [key |-> k, open |-> TRUE, hour |-> TRUE, aged |-> FALSE, stamp |-> "none", told |-> FALSE]
Used == {i \in RowIds : rows[i] # NoRow}
Open(k) == {i \in Used : rows[i].key = k /\ rows[i].open}
\* Of a closed row nothing but its hour matters.
Shut(x) == [Row(x.key) EXCEPT !.open = FALSE, !.hour = x.hour]
OpenOf(S) == {i \in Used : rows[i].key[1] \in S /\ rows[i].open}

NoRun == [pc |-> "idle", scope |-> {}, keep |-> {}, todo |-> {}, ids |-> {}, left |-> {}, got |-> {}, whole |-> TRUE]
Held == UNION {run[r].ids \union run[r].got : r \in Runs}

AlertTypeOK ==
    /\ world \in Worlds /\ \A s \in All : now[s] \in Facts(s)
    /\ \A i \in Used : rows[i] \in [key : Keys, open : BOOLEAN, hour : BOOLEAN, aged : BOOLEAN,
                                    stamp : {"none", "fresh", "old"}, told : BOOLEAN]
    /\ \A r \in Runs : run[r] \in
        [pc : {"idle", "watch", "expiry", "list", "close", "ask", "insert", "send", "mark", "clear",
               "summary", "parts", "stamp"},
         scope : SUBSET All, keep : SUBSET Keys, todo : SUBSET Keys, ids : SUBSET RowIds,
         left : SUBSET Channels, got : SUBSET RowIds, whole : BOOLEAN]
    /\ faults \in 0..MaxFaults

AlertInit ==
    /\ world \in Worlds
    /\ now = [s \in All |-> IF s \in Channels THEN <<"ok", "ok">> ELSE IF s \in Secrets THEN "fine"
                                 ELSE IF s \in Outages THEN "up" ELSE CHOOSE x \in Stages : TRUE]
    /\ rows = [i \in RowIds |-> NoRow]
    /\ run = [r \in Runs |-> NoRun]
    /\ faults = 0

Works == UNCHANGED faults
Fails == faults < MaxFaults /\ faults' = faults + 1
At(r, place) == run[r].pc = place
Become(r, x) == run' = [run EXCEPT ![r] = x]
Proceed(r, place) == Become(r, [run[r] EXCEPT !.pc = place])

-----------------------------------------------------------------------------
(* Closing what is no longer so.                                           *)

\* The health job goes on to the next channel, then to the credentials, then ends.
Visit(left) == [NoRun EXCEPT !.pc = IF left = {} THEN "expiry" ELSE "watch", !.left = left]
Onward(r) == IF r \in Health /\ run[r].scope # Secrets THEN Visit(run[r].left) ELSE NoRun

\* The watch closes what the fault replaces and then raises it; a credential's and a
\* client's run have raised already.
Closed(r) == IF run[r].todo # {} THEN [run[r] EXCEPT !.pc = "ask", !.ids = {}] ELSE Onward(r)

\* What resolveOpenAlerts finds: open episodes of the family that are not still true.
Stale(r) == {i \in OpenOf(run[r].scope) : rows[i].key \notin run[r].keep}

List(r) ==
    /\ At(r, "list") /\ UNCHANGED <<world, now, rows>>
    /\ \/ Works /\ Become(r, IF Stale(r) = {} THEN Closed(r) ELSE [run[r] EXCEPT !.pc = "close", !.ids = Stale(r)])
       \/ Fails /\ Become(r, Closed(r))

\* Closed by id, whatever has become of them since.
Close(r) ==
    /\ At(r, "close") /\ Become(r, Closed(r)) /\ UNCHANGED <<world, now>>
    /\ \/ Works /\ rows' = [i \in RowIds |-> IF i \in run[r].ids THEN Shut(rows[i]) ELSE rows[i]]
       \/ Fails /\ UNCHANGED rows

\* A success path closes the episodes under its exact keys in one statement.
Clear(r) ==
    /\ At(r, "clear") /\ Become(r, NoRun) /\ UNCHANGED <<world, now>>
    /\ \/ Works /\ rows' = [i \in RowIds |-> IF i \in OpenOf(run[r].scope) THEN Shut(rows[i])
                                             ELSE rows[i]]
       \/ Fails /\ UNCHANGED rows

-----------------------------------------------------------------------------
(* raiseAlert.                                                             *)

\* Fault: an operator's run closes the other stages whatever became of its raise.
RaisedAlways(r, k, opened) ==
    LET rest == run[r].todo \ {k}
        next == [run[r] EXCEPT !.todo = rest, !.ids = {}]
    IN  IF rest # {} THEN [next EXCEPT !.pc = "ask"]
        ELSE IF r \in Operators \/ run[r].scope = Secrets THEN [next EXCEPT !.pc = "list"]
        ELSE Onward(r)

\* An operator's run closes the other stages only when this raise left an episode open.
Raised(r, k, opened) ==
    LET rest == run[r].todo \ {k}
        next == [run[r] EXCEPT !.todo = rest, !.ids = {}]
    IN  IF rest # {} THEN [next EXCEPT !.pc = "ask"]
        ELSE IF r \in Operators THEN IF opened THEN [next EXCEPT !.pc = "list"] ELSE NoRun
        ELSE IF r \in Health /\ run[r].scope = Secrets THEN [next EXCEPT !.pc = "list"]
        ELSE Onward(r)

\* The key being raised: one after another.
Raising(r) == CHOOSE k \in run[r].todo : TRUE

\* alreadyRaised, under on_change: an open episode is silent.
Ask(r) ==
    /\ At(r, "ask") /\ UNCHANGED <<world, now, rows>>
    /\ LET k == Raising(r) IN
       \/ Works /\ IF Open(k) # {} THEN Become(r, Raised(r, k, FALSE)) ELSE Proceed(r, "insert")
       \/ Fails /\ Become(r, Raised(r, k, FALSE))

\* The hourly index refuses a second row of one key within a clock hour, closed or not.
Flapping(k) == \E i \in Used : rows[i].key = k /\ rows[i].hour

\* A row to write to: unused, or closed, of an earlier hour and in nobody's hands.
Spare == {i \in RowIds : rows[i] = NoRow \/ (~rows[i].open /\ ~rows[i].hour /\ i \notin Held)}
Free == CHOOSE i \in Spare : TRUE

Insert(r) ==
    /\ At(r, "insert") /\ UNCHANGED <<world, now>>
    /\ LET k == Raising(r)
           fresh(i) == rows' = [rows EXCEPT ![i] = Row(k)]
       IN
       \/ Flapping(k) /\ Works /\ UNCHANGED rows /\ Become(r, Raised(r, k, FALSE))
       \/ /\ ~Flapping(k) /\ Works
          /\ Spare # {} /\ fresh(Free)
          /\ Become(r, IF Paged(k) THEN [run[r] EXCEPT !.pc = "send", !.ids = {Free}] ELSE Raised(r, k, TRUE))
       \/ /\ ~Flapping(k) /\ Fails /\ Become(r, Raised(r, k, FALSE))
          /\ UNCHANGED rows \/ (Spare # {} /\ fresh(Free))

\* The rows of the ids a message carried.
Heard(ids) == [i \in RowIds |-> IF i \in ids /\ rows[i].open THEN [rows[i] EXCEPT !.told = TRUE] ELSE rows[i]]

\* The message leaves after the row: what fails stays undelivered, though it may have arrived.
Send(r) ==
    /\ At(r, "send") /\ UNCHANGED <<world, now>>
    /\ \/ Works /\ rows' = Heard(run[r].ids) /\ Proceed(r, "mark")
       \/ Fails /\ rows' \in {rows, Heard(run[r].ids)} /\ Become(r, Raised(r, Raising(r), TRUE))

\* notified_at moves: a person has been told of these rows.
Stamped(ids) == [i \in RowIds |-> IF i \in ids /\ rows[i].open THEN [rows[i] EXCEPT !.stamp = "fresh"] ELSE rows[i]]

Mark(r) ==
    /\ At(r, "mark") /\ Become(r, Raised(r, Raising(r), TRUE)) /\ UNCHANGED <<world, now>>
    /\ \/ Works /\ rows' = Stamped(run[r].ids)
       \/ Fails /\ UNCHANGED rows

-----------------------------------------------------------------------------
(* The detectors.                                                          *)

StartHealth(r) ==
    /\ At(r, "idle") /\ Works /\ UNCHANGED <<world, now, rows>>
    /\ Become(r, Visit(Channels \cap world))

\* Fault: a channel that is well is left as an unmeasured one is.
FoundWellIsNothing(r, c, x) ==
    LET seen == [run[r] EXCEPT !.left = @ \ {c}, !.scope = {c}]
        keys == {<<c, x>>}
    IN  IF Fault(c, x) THEN [seen EXCEPT !.pc = "list", !.keep = keys, !.todo = keys] ELSE Visit(seen.left)

\* What a channel's verdict does: nothing, close, or close the others and raise.
Found(r, c, x) ==
    LET seen == [run[r] EXCEPT !.left = @ \ {c}, !.scope = {c}]
        keys == {<<c, x>>}
    IN  CASE x = "not_provisioned" -> Visit(seen.left)
          [] x = "healthy" -> [seen EXCEPT !.pc = "list"]
          [] OTHER -> [seen EXCEPT !.pc = "list", !.keep = keys, !.todo = keys]

\* One channel is watched; a read that fails is a verdict too.
Watch(r) ==
    /\ At(r, "watch") /\ UNCHANGED <<world, now, rows>>
    /\ \E c \in run[r].left :
        \/ Works /\ Become(r, Found(r, c, State(c)))
        \/ Fails /\ Become(r, Found(r, c, "unknown"))

\* Every credential that runs out is raised, and what is no longer among them is closed.
Expiry(r) ==
    /\ At(r, "expiry") /\ UNCHANGED <<world, now, rows>>
    /\ LET found == {<<s, State(s)>> : s \in {s \in Secrets \cap world : Fault(s, State(s))}} IN
       \/ Works /\ Become(r, [NoRun EXCEPT !.pc = IF found = {} THEN "list" ELSE "ask", !.scope = Secrets,
                                           !.keep = found, !.todo = found])
       \/ Fails /\ Become(r, NoRun)

\* A reply meets the fault, or sees that it is over.
Meet(r, s) ==
    /\ At(r, "idle") /\ now[s] = "down" /\ Works /\ UNCHANGED <<world, now, rows>>
    /\ Become(r, [NoRun EXCEPT !.pc = "ask", !.todo = {<<s, "down">>}])
Succeed(r, s) ==
    /\ At(r, "idle") /\ now[s] = "up" /\ OpenOf({s}) # {} /\ Works /\ UNCHANGED <<world, now, rows>>
    /\ Become(r, [NoRun EXCEPT !.pc = "clear", !.scope = {s}])

\* recordReadiness: raise first, and close the rest only behind an episode of its own.
Record(r, s) ==
    /\ At(r, "idle") /\ Works /\ UNCHANGED <<world, now, rows>>
    /\ LET keys == {<<s, now[s]>>} IN
       Become(r, IF now[s] = "ready" THEN [NoRun EXCEPT !.pc = "list", !.scope = {s}]
                 ELSE [NoRun EXCEPT !.pc = "ask", !.scope = {s}, !.keep = keys, !.todo = keys])

-----------------------------------------------------------------------------
(* The daily report.                                                       *)

\* Fault: only what a person was once told of is told again.
OverdueOnceTold(i) == rows[i].stamp = "old"

\* Three days since a person was last told of it, or since it opened.
Overdue(i) == rows[i].stamp = "old" \/ (rows[i].stamp = "none" /\ rows[i].aged)
Escalated(ids) == {i \in ids : Critical(rows[i].key) /\ Overdue(i)}

StartReport(r) ==
    /\ At(r, "idle") /\ Works /\ UNCHANGED <<world, now, rows>>
    /\ Become(r, [NoRun EXCEPT !.pc = "summary", !.ids = OpenOf(All)])

\* A message to Telegram that carries these rows: it arrives, or it is not known to.
Deliver(ids, arrived) ==
    IF arrived THEN Works /\ rows' = Heard(ids) ELSE Fails /\ rows' \in {rows, Heard(ids)}

\* Fault: the rows are stamped whichever part failed.
AfterAnyPart(x, arrived, ids) ==
    LET y == [x EXCEPT !.got = @ \union ids, !.ids = @ \ ids]
    IN  IF y.ids # {} THEN [y EXCEPT !.pc = "parts"]
        ELSE IF y.got # {} THEN [y EXCEPT !.pc = "stamp"] ELSE NoRun

\* The report with the carried rows behind it: the merged one counts as told only whole.
After(x, arrived, ids) ==
    LET y == [x EXCEPT !.whole = @ /\ (arrived \/ ~Merged), !.got = IF Merged \/ arrived THEN @ \union ids ELSE @,
                       !.ids = @ \ ids]
    IN  IF y.ids # {} THEN [y EXCEPT !.pc = "parts"]
        ELSE IF y.whole /\ y.got # {} THEN [y EXCEPT !.pc = "stamp"] ELSE NoRun

\* The summary lists what fits; merged, it leads the first part and its STILL OPEN lines.
Summary(r) ==
    /\ At(r, "summary") /\ UNCHANGED <<world, now>>
    /\ LET due == Escalated(run[r].ids) IN
       \E fits \in SUBSET run[r].ids, arrived \in BOOLEAN : \E lines \in IF Merged THEN SUBSET due ELSE {{}} :
        /\ Deliver(fits \union lines, arrived)
        /\ Become(r, After([run[r] EXCEPT !.ids = due], arrived, lines))

\* A later part, or one STILL OPEN message.
Part(r) ==
    /\ At(r, "parts") /\ UNCHANGED <<world, now>>
    /\ \E lines \in SUBSET run[r].ids \ {{}}, arrived \in BOOLEAN :
        /\ Merged \/ Cardinality(lines) = 1
        /\ Deliver(lines, arrived)
        /\ Become(r, After(run[r], arrived, lines))

\* What arrived is stamped, and its three days begin again.
Stamp(r) ==
    /\ At(r, "stamp") /\ Become(r, NoRun) /\ UNCHANGED <<world, now>>
    /\ \/ Works /\ rows' = Stamped(run[r].got)
       \/ Fails /\ UNCHANGED rows

-----------------------------------------------------------------------------
(* The world.                                                              *)

Change(s) == \E x \in Facts(s) \ {now[s]} : now' = [now EXCEPT ![s] = x] /\ UNCHANGED <<world, rows, run, faults>>

\* A clock hour ends; after it a closed row matters to nobody but a run that holds its id.
HourPasses ==
    /\ \E i \in Used : rows[i].hour \/ (~rows[i].open /\ i \notin Held)
    /\ rows' = [i \in RowIds |-> IF i \notin Used THEN NoRow
                                 ELSE IF rows[i].open \/ i \in Held THEN [rows[i] EXCEPT !.hour = FALSE] ELSE NoRow]
    /\ UNCHANGED <<world, now, run, faults>>

\* Three days go by for an episode no run has in hand.
Elapse(i) ==
    /\ rows[i] # NoRow /\ i \notin Held
    /\ rows[i].open /\ ~rows[i].hour /\ ~Overdue(i)
    /\ rows' = [rows EXCEPT ![i].aged = TRUE, ![i].told = FALSE, ![i].stamp = IF @ = "none" THEN @ ELSE "old"]
    /\ UNCHANGED <<world, now, run, faults>>

\* A run is killed where it stands.
Die(r) == ~At(r, "idle") /\ Fails /\ Become(r, NoRun) /\ UNCHANGED <<world, now, rows>>

RunStep(r) ==
    \/ List(r) \/ Close(r) \/ Clear(r) \/ Ask(r) \/ Insert(r) \/ Send(r) \/ Mark(r)
    \/ Watch(r) \/ Expiry(r) \/ Summary(r) \/ Part(r) \/ Stamp(r)

AlertNext ==
    \/ \E r \in Runs : RunStep(r) \/ Die(r)
    \/ \E r \in Health : StartHealth(r)
    \/ \E r \in Reports : StartReport(r)
    \/ \E r \in Replies, s \in Outages \cap world : Meet(r, s) \/ Succeed(r, s)
    \/ \E r \in Operators, s \in Clients \cap world : Record(r, s)
    \/ \E s \in world : Change(s)
    \/ HourPasses \/ \E i \in RowIds : Elapse(i)

AlertSpec == AlertInit /\ [][AlertNext]_alertVars

\* The hourly job and the daily report are scheduled, a run that is not killed ends,
\* and time passes.
AlertFairSpec ==
    /\ AlertSpec
    /\ \A r \in Runs : WF_alertVars(RunStep(r))
    /\ \A r \in Health : WF_alertVars(StartHealth(r))
    /\ \A r \in Reports : WF_alertVars(StartReport(r))
    /\ WF_alertVars(HourPasses) /\ \A i \in RowIds : SF_alertVars(Elapse(i))

-----------------------------------------------------------------------------
(* What must not go wrong.                                                 *)

\* The three days of an episode begin again only when a message that named it reached
\* Telegram, however the report was cut and whichever part of it failed.
StampedWasTold == \A i \in Used : rows[i].stamp = "fresh" => rows[i].told

\* A client whose set-up was recorded stays in the report until a run found it ready:
\* no order of raising and closing, no refused insert and no death leaves it out.
NeverInvisible ==
    [][\A s \in Clients : OpenOf({s}) # {} /\ OpenOf({s})' = {} =>
        \E r \in Operators : At(r, "close") /\ run[r].scope = {s} /\ run[r].keep = {}]_alertVars

\* One condition is one episode, whoever raises it: "the uniqueness is enforced by the insert
\* losing a race" (alert.ts:85-87).  Fails: see the README.
OneEpisode == \A k \in Keys : Cardinality(Open(k)) <= 1

\* The facts go on changing.
Unsettled == []<><<TRUE>>_now

\* A channel's standing fault is told to a person, and again after each three days:
\* an episode that was never paged, or whose page failed, is not thereby silent.
StandingIsTold ==
    Unsettled \/ []<>(\A c \in Channels, x \in {"no_webhooks", "no_messages"} :
                        State(c) = x => \E i \in Open(<<c, x>>) : rows[i].told)

\* What a channel or credential no longer suffers is closed and stays so: its recovery, or
\* the fault that took its place, ends it.
EndedIsClosed ==
    Unsettled \/ <>[](\A i \in OpenOf(Channels \union Secrets) :
                        State(rows[i].key[1]) \in {rows[i].key[2], "not_provisioned"})
=============================================================================
