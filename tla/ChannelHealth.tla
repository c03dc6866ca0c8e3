--------------------------- MODULE ChannelHealth ---------------------------
(***************************************************************************)
(* Whether a channel may send: its stored state, the credential behind it, *)
(* and everybody who writes either.                                        *)
(*                                                                         *)
(* A send that fails on the credential halts the channel: at once when     *)
(* Meta names the token dead (outbound/deliver.ts), after some strikes in  *)
(* a row and at most one channel an hour when the row will not open        *)
(* (channel/breaker.ts, halt.ts).  A send that works closes the alert      *)
(* episodes and clears the flag a halt left (channel/recover.ts).  What    *)
(* arrived meanwhile is caught up when the channel is back                 *)
(* (channel/catchup.ts).  Billing pauses and resumes the same column       *)
(* (0065_billing.sql).                                                     *)
(*                                                                         *)
(* A message is one worker job; each of its steps is one awaited call, and *)
(* a fault may fail it or kill the job.  The messages of one channel are   *)
(* one conversation, numbered as written.  Time is counted in hours.       *)
(***************************************************************************)
EXTENDS Integers, FiniteSets, Sequences

CONSTANTS
    Channels,
    N,            \* messages of each channel
    Strikes,      \* CREDENTIAL_FAILURES_BEFORE_HALT
    Interval,     \* HALT_INTERVAL_MINUTES
    Window,       \* CATCH_UP_WINDOW_MINUTES
    MaxMessages,  \* bound: messages written
    MaxRunning,   \* bound: jobs at once
    MaxTime,      \* bound: hours
    MaxBreaks,    \* bound: breaks
    MaxPauses,    \* bound: pauses
    MaxFaults     \* bound: failed calls and killed jobs

ASSUME ChannelAssumption ==
    /\ {N, Strikes, Interval, Window, MaxMessages, MaxRunning, MaxTime, MaxBreaks, MaxPauses, MaxFaults} \subseteq Nat
    /\ Strikes >= 1

VARIABLES
    now,
    fault,    \* what is wrong with each credential, if anything; "kek" is every one at once
    secret,   \* tenant_secrets.status
    token,    \* tenant_channels.token_status
    mode,     \* .delivery_mode
    status,   \* .status
    paused,   \* the mode an open pause took from the channel
    row,      \* outbound_messages.state of each message's reply
    why,      \* its refused_reason
    made,     \* each channel's replies in the order of created_at, oldest first
    written,  \* when each message was stored
    flags,    \* quality_flags: held while halted, and caught up
    alerts,   \* rows of `alerts` about a channel
    open,     \* the episodes among them that nobody resolved
    suppressed,    \* the hours with a row for a halt the cap held back
    pc, sawHalt,  \* of each job: its place, and that it read authorization_error
    breaks, pauses, faults

creds == <<fault, secret>>
columns == <<token, mode, status, paused>>
replies == <<row, why, made>>
told == <<alerts, open, suppressed>>
bounds == <<breaks, pauses>>
vars == <<now, creds, columns, replies, written, flags, told, pc, sawHalt, bounds, faults>>

Msgs == Channels \X (1 .. N)
Of(m) == m[1]
Times == 0 .. MaxTime
Never == -1
\* credentialCode, and 190: Meta's own answer, which is not one.
Codes == {"row", "kek", "revoked"}
\* Fault: a missing platform key counts against the channel that met it.
NobodyElses == {}
NotThisChannel == {"kek"}
Kinds == {"row", "kek", "190", "halt"}
Alert == [chan : Channels, kind : Kinds, at : Times]
Places == {"idle", "queued", "send", "revoke", "page", "breaker", "halt", "tellHalt", "tellSuppressed",
           "resolve", "clear"}

TypeOK ==
    /\ now \in Times
    /\ fault \in [Channels -> {"none", "meta", "row", "kek"}] /\ secret \in [Channels -> {"active", "revoked"}]
    /\ token \in [Channels -> {"active", "revoked", "error"}]
    /\ mode \in [Channels -> {"live", "off"}] /\ status \in [Channels -> {"active", "authorization_error"}]
    /\ paused \in [Channels -> {"no", "live", "off"}]
    /\ row \in [Msgs -> {"none", "sending", "sent", "failed"}] /\ why \in [Msgs -> Codes \cup {"none", "190"}]
    /\ \A c \in Channels : \A i \in DOMAIN made[c] : made[c][i] \in 1 .. N
    /\ written \in [Msgs -> Times \cup {Never}]
    /\ flags \in [Msgs -> [held : BOOLEAN, caughtUp : BOOLEAN]]
    /\ alerts \subseteq Alert /\ open \subseteq alerts /\ suppressed \subseteq Times
    /\ pc \in [Msgs -> Places] /\ sawHalt \in [Msgs -> BOOLEAN]
    /\ breaks \in 0 .. MaxBreaks /\ pauses \in 0 .. MaxPauses /\ faults \in 0 .. MaxFaults

Init ==
    /\ now = 0
    /\ fault = [c \in Channels |-> "none"] /\ secret = [c \in Channels |-> "active"]
    /\ token = [c \in Channels |-> "active"] /\ mode = [c \in Channels |-> "live"]
    /\ status = [c \in Channels |-> "active"] /\ paused = [c \in Channels |-> "no"]
    /\ row = [m \in Msgs |-> "none"] /\ why = [m \in Msgs |-> "none"] /\ made = [c \in Channels |-> <<>>]
    /\ written = [m \in Msgs |-> Never]
    /\ flags = [m \in Msgs |-> [held |-> FALSE, caughtUp |-> FALSE]]
    /\ alerts = {} /\ open = {} /\ suppressed = {}
    /\ pc = [m \in Msgs |-> "idle"] /\ sawHalt = [m \in Msgs |-> FALSE]
    /\ breaks = 0 /\ pauses = 0 /\ faults = 0

(***************************************************************************)
(* Helpers                                                                 *)
(***************************************************************************)

At(m, place) == pc[m] = place
Goto(m, place) == pc' = [pc EXCEPT ![m] = place] /\ UNCHANGED sawHalt
Done(m) ==
    /\ pc' = [pc EXCEPT ![m] = "idle"]
    /\ sawHalt' = [sawHalt EXCEPT ![m] = FALSE]
Running == {m \in Msgs : pc[m] \notin {"idle", "queued"}}
Fault == faults < MaxFaults /\ faults' = faults + 1
NoFault == UNCHANGED faults

\* Fault: the table lets a channel be live without a token.
AllowedAlways(m, t) == m = "live" => TRUE
\* tenant_channels: live_requires_active_token.
Allowed(m, t) == m = "live" => t = "active"

\* raiseAlert: an open episode of that key, or a row of this hour, says nothing again.
Raised(c, kind, onChange) ==
    \/ onChange /\ \E a \in open : a.chan = c /\ a.kind = kind
    \/ \E a \in alerts : a.chan = c /\ a.kind = kind /\ a.at = now
Raise(c, kind, onChange) ==
    LET new == [chan |-> c, kind |-> kind, at |-> now] IN
    IF Raised(c, kind, onChange) THEN UNCHANGED told
    ELSE /\ alerts' = alerts \cup {new}
         /\ open' = IF onChange THEN open \cup {new} ELSE open
         /\ UNCHANGED suppressed
RaiseOrFail(c, kind, onChange) ==
    \/ Raise(c, kind, onChange) /\ NoFault
    \/ UNCHANGED told /\ Fault

\* credentialStreak: local failures since the newest reply that is not a failure of the credential.
Attempt(c, i) == <<c, made[c][i]>>
Credential(m) == row[m] = "failed" /\ why[m] \in Codes
Streak(c) ==
    Cardinality({i \in DOMAIN made[c] :
        /\ why[Attempt(c, i)] \notin NotThisChannel
        /\ \A j \in i .. Len(made[c]) : Credential(Attempt(c, j))})

\* haltsInInterval: the halt's alert row is the cap's clock.
HaltsInInterval == {a \in alerts : a.kind = "halt" /\ a.at + Interval >= now}

(***************************************************************************)
(* One message's job                                                       *)
(***************************************************************************)

\* A new message, or one the catch-up has put in the queue.
Arrives(m) ==
    /\ Cardinality({k \in Msgs : written[k] # Never}) < MaxMessages
    /\ written[m] = Never /\ \A n \in 1 .. m[2] - 1 : written[<<m[1], n>>] # Never
Fresh(m) == written'[m] > now - Window

\* canDeliver.  A message kept on a halted channel is flagged, for the catch-up to find.
Begin(m) ==
    LET c == Of(m) IN
    /\ At(m, "queued") \/ Arrives(m)
    /\ Cardinality(Running) < MaxRunning
    /\ written' = [written EXCEPT ![m] = IF Arrives(m) THEN now ELSE @]
    /\ \/ /\ mode[c] # "live" /\ status[c] = "authorization_error"
          /\ \/ flags' = [flags EXCEPT ![m].held = TRUE] /\ NoFault
             \/ UNCHANGED flags /\ Fault
          /\ Done(m) /\ UNCHANGED replies
       \/ /\ mode[c] # "live" /\ status[c] # "authorization_error"
          /\ Done(m) /\ UNCHANGED <<flags, replies>> /\ NoFault
       \/ /\ mode[c] = "live" /\ Fresh(m) /\ row[m] \in {"none", "failed"}
          /\ row' = [row EXCEPT ![m] = "sending"]
          /\ made' = IF row[m] = "none" THEN [made EXCEPT ![c] = Append(@, m[2])] ELSE made
          /\ pc' = [pc EXCEPT ![m] = "send"]
          /\ sawHalt' = [sawHalt EXCEPT ![m] = status[c] = "authorization_error"]
          /\ UNCHANGED <<why, flags>> /\ NoFault
       \/ /\ mode[c] = "live" /\ ~(Fresh(m) /\ row[m] \in {"none", "failed"})
          /\ Done(m) /\ UNCHANGED <<flags, replies>> /\ NoFault
    /\ UNCHANGED <<now, creds, columns, told, bounds>>

\* What the credential answers this send.
Answer(c) ==
    IF fault[c] \in {"kek", "row"} THEN fault[c]
    ELSE IF secret[c] = "revoked" THEN "revoked"
    ELSE IF fault[c] = "meta" THEN "190" ELSE "sent"

\* loadSecret, the send and its mark.
Send(m) ==
    LET a == Answer(Of(m)) IN
    /\ At(m, "send")
    /\ IF a = "sent"
       THEN /\ row' = [row EXCEPT ![m] = "sent"] /\ why' = [why EXCEPT ![m] = "none"]
            /\ Goto(m, "resolve")
       ELSE /\ row' = [row EXCEPT ![m] = "failed"] /\ why' = [why EXCEPT ![m] = a]
            /\ Goto(m, IF a = "190" THEN "revoke" ELSE IF a = "revoked" THEN "breaker" ELSE "page")
    /\ UNCHANGED <<now, creds, columns, made, written, flags, told, bounds>> /\ NoFault

\* revokeCredential: the secret and the channel, each tried whatever became of the other.
HaltOutbound(c) ==
    /\ token' = [token EXCEPT ![c] = "revoked"] /\ mode' = [mode EXCEPT ![c] = "off"]
    /\ status' = [status EXCEPT ![c] = "authorization_error"] /\ UNCHANGED paused
Revoke(m) ==
    LET c == Of(m)
        marked == secret' = [secret EXCEPT ![c] = "revoked"] IN
    /\ At(m, "revoke")
    /\ \/ marked /\ HaltOutbound(c) /\ NoFault
       \/ UNCHANGED secret /\ HaltOutbound(c) /\ Fault
       \/ marked /\ UNCHANGED columns /\ Fault
    /\ Goto(m, "page")
    /\ UNCHANGED <<now, fault, replies, written, flags, told, bounds>>

\* The page of an episode: a dead token, a row that will not open, a missing key.
Page(m) ==
    /\ At(m, "page")
    /\ RaiseOrFail(Of(m), why[m], TRUE)
    /\ IF why[m] = "190" THEN Done(m) ELSE Goto(m, "breaker")
    /\ UNCHANGED <<now, creds, columns, replies, written, flags, bounds>>

\* Fault: a halt the cap holds back says nothing.
BreakerQuiet(m) ==
    LET earned == why[m] \notin NotThisChannel /\ Streak(Of(m)) >= Strikes IN
    /\ At(m, "breaker")
    /\ IF earned /\ HaltsInInterval = {} THEN Goto(m, "halt") ELSE Done(m)
    /\ UNCHANGED <<now, creds, columns, replies, written, flags, told, bounds>> /\ NoFault

\* decideBreaker over what one read finds; an unreadable table halts nobody.
Breaker(m) ==
    LET c == Of(m)
        earned == why[m] \notin NotThisChannel /\ Streak(c) >= Strikes IN
    /\ At(m, "breaker")
    /\ \/ earned /\ HaltsInInterval = {} /\ Goto(m, "halt") /\ NoFault
       \/ earned /\ HaltsInInterval # {} /\ Goto(m, "tellSuppressed") /\ NoFault
       \/ ~earned /\ Done(m) /\ NoFault
       \/ earned /\ Done(m) /\ Fault
    /\ UNCHANGED <<now, creds, columns, replies, written, flags, told, bounds>>

\* haltChannelCredential, whatever the channel is now.
Halt(m) ==
    LET c == Of(m) IN
    /\ At(m, "halt")
    /\ \/ /\ token' = [token EXCEPT ![c] = "error"] /\ mode' = [mode EXCEPT ![c] = "off"]
          /\ status' = [status EXCEPT ![c] = "authorization_error"]
          /\ Goto(m, "tellHalt") /\ NoFault
       \/ UNCHANGED <<token, mode, status>> /\ Done(m) /\ Fault
    /\ UNCHANGED <<now, creds, paused, replies, written, flags, told, bounds>>

\* The rows that say so; the first is what the next channel's cap counts.
TellHalt(m) ==
    /\ At(m, "tellHalt")
    /\ RaiseOrFail(Of(m), "halt", FALSE) /\ Done(m)
    /\ UNCHANGED <<now, creds, columns, replies, written, flags, bounds>>
TellSuppressed(m) ==
    /\ At(m, "tellSuppressed")
    /\ \/ suppressed' = suppressed \cup {now} /\ NoFault
       \/ UNCHANGED suppressed /\ Fault
    /\ Done(m)
    /\ UNCHANGED <<alerts, open, now, creds, columns, replies, written, flags, bounds>>

\* resolveEpisodes: a send that went out ends every credential episode of its channel.
Resolve(m) ==
    /\ At(m, "resolve")
    /\ \/ open' = {a \in open : a.chan # Of(m)} /\ UNCHANGED <<alerts, suppressed>> /\ NoFault
       \/ UNCHANGED told /\ Fault
    /\ IF sawHalt[m] THEN Goto(m, "clear") ELSE Done(m)
    /\ UNCHANGED <<now, creds, columns, replies, written, flags, bounds>>

\* clearCredentialFailure moves authorization_error and no other status.
Clear(m) ==
    LET c == Of(m) IN
    /\ At(m, "clear")
    /\ \/ status' = [status EXCEPT ![c] = IF @ = "authorization_error" THEN "active" ELSE @] /\ NoFault
       \/ UNCHANGED status /\ Fault
    /\ Done(m)
    /\ UNCHANGED <<now, creds, token, mode, paused, replies, written, flags, told, bounds>>

\* The job is killed.  Its redelivery finds a row it does not claim.
Die(m) ==
    /\ m \in Running /\ Fault /\ Done(m)
    /\ UNCHANGED <<now, creds, columns, replies, written, flags, told, bounds>>

(***************************************************************************)
(* The hourly catch-up                                                     *)
(***************************************************************************)

Back(c) == mode[c] = "live" /\ token[c] = "active"
\* The evidence: a reply that failed on the credential, or the flag.
Held(m) == flags[m].held \/ (row[m] = "failed" /\ why[m] \in Codes \cup {"190"})
Newest(m) == written[m] # Never /\ \A n \in m[2] + 1 .. N : written[<<m[1], n>>] = Never
AnsweredSince(m) ==
    \E k \in Msgs : Of(k) = Of(m) /\ row[k] = "sent" /\ k[2] >= m[2]
Waiting(m) ==
    /\ Held(m) /\ Newest(m) /\ written[m] > now - Window /\ ~flags[m].caughtUp /\ ~AnsweredSince(m)

\* catchUpConversation: enqueue, then the flag that makes it once; the flag may fail.
CatchUp(m) ==
    /\ Back(Of(m)) /\ Waiting(m) /\ At(m, "idle")
    /\ Goto(m, "queued")
    /\ \/ flags' = [flags EXCEPT ![m].caughtUp = TRUE] /\ NoFault
       \/ UNCHANGED flags /\ Fault
    /\ UNCHANGED <<now, creds, columns, replies, written, told, bounds>>

(***************************************************************************)
(* Everybody else                                                          *)
(***************************************************************************)

\* The credentials of some channels break at once; the platform's key is everybody's.
Break(broken, f) ==
    /\ breaks < MaxBreaks /\ breaks' = breaks + 1
    /\ broken # {} /\ (f = "kek" => broken = Channels)
    /\ \A c \in broken : fault[c] = "none"
    /\ fault' = [c \in Channels |-> IF c \in broken THEN f ELSE fault[c]]
    /\ UNCHANGED <<now, secret, columns, replies, written, flags, told, pc, sawHalt, pauses>> /\ NoFault

\* A person seals the credential again and sets the channel live; the status may be left as it was.
Repair(c) ==
    /\ fault[c] # "none" \/ token[c] # "active"
    /\ fault' = IF fault[c] = "kek" THEN [d \in Channels |-> IF fault[d] = "kek" THEN "none" ELSE fault[d]]
                ELSE [fault EXCEPT ![c] = "none"]
    /\ secret' = [secret EXCEPT ![c] = "active"]
    /\ token' = [token EXCEPT ![c] = "active"]
    /\ mode' = [mode EXCEPT ![c] = IF paused[c] = "no" THEN "live" ELSE @]
    /\ status' \in {status, [status EXCEPT ![c] = "active"]}
    /\ UNCHANGED <<now, paused, replies, written, flags, told, pc, sawHalt, bounds>> /\ NoFault

\* billing_pause and billing_resume, each one transaction.
Pause(c) ==
    /\ paused[c] = "no" /\ pauses < MaxPauses /\ pauses' = pauses + 1
    /\ paused' = [paused EXCEPT ![c] = mode[c]] /\ mode' = [mode EXCEPT ![c] = "off"]
    /\ UNCHANGED <<now, creds, token, status, replies, written, flags, told, pc, sawHalt, breaks>> /\ NoFault
\* The schema refuses a mode the token no longer allows: that channel is left off.
Resume(c) ==
    /\ paused[c] # "no"
    /\ paused' = [paused EXCEPT ![c] = "no"]
    /\ mode' = [mode EXCEPT ![c] = IF @ = "off" /\ Allowed(paused[c], token[c]) THEN paused[c] ELSE @]
    /\ UNCHANGED <<now, creds, token, status, replies, written, flags, told, pc, sawHalt, bounds>> /\ NoFault

Tick ==
    /\ now < MaxTime /\ Running = {}
    /\ now' = now + 1
    /\ UNCHANGED <<creds, columns, replies, written, flags, told, pc, sawHalt, bounds>> /\ NoFault

Step(m) ==
    \/ Begin(m) \/ Send(m) \/ Revoke(m) \/ Page(m) \/ Breaker(m) \/ Halt(m)
    \/ TellHalt(m) \/ TellSuppressed(m) \/ Resolve(m) \/ Clear(m)
Next ==
    \/ \E m \in Msgs : Step(m) \/ Die(m) \/ CatchUp(m)
    \/ \E c \in Channels : Repair(c) \/ Pause(c) \/ Resume(c)
    \/ \E broken \in SUBSET Channels, f \in {"meta", "row", "kek"} : Break(broken, f)
    \/ Tick

Spec == Init /\ [][Next]_vars

(***************************************************************************)
(* What the code promises                                                  *)
(***************************************************************************)

Quiet(c) == \A m \in Msgs : Of(m) = c => m \notin Running

\* A halted channel's own credential failed, and that is paged or being paged: a key the whole
\* platform lost halts nobody, whatever repairs and late successes come between (breaker.ts).
HaltIsEarned ==
    faults = 0 => \A c \in Channels : token[c] = "error" =>
        \/ \E a \in alerts : a.chan = c /\ a.kind \in {"row", "190"}
        \/ \E m \in Msgs : Of(m) = c /\ At(m, "page") /\ why[m] \in {"row", "190"}

\* The platform's key failed under none of this channel's attempts: such a failure is never judged,
\* so a streak it completes by its place in the row waits for the channel's next own failure.
PlatformStood(c) == \A i \in DOMAIN made[c] : why[Attempt(c, i)] \notin NotThisChannel

\* A channel that struck out by its own failures is halted or, when the cap held the halt back, the
\* platform is told: with every call answered, no such streak and no halt ends in silence.
EarnedIsTold ==
    faults = 0 => \A c \in Channels : Quiet(c) =>
        /\ Streak(c) >= Strikes /\ PlatformStood(c) => suppressed # {} \/ \E a \in alerts : a.chan = c /\ a.kind = "halt"
        /\ token[c] = "error" => \E a \in alerts : a.chan = c /\ a.kind = "halt"
        /\ token[c] = "revoked" => \E a \in alerts : a.chan = c /\ a.kind = "190"

\* No order of halts, repairs, pauses and resumes brings a channel without a token back on.
LiveHasToken == \A c \in Channels : mode[c] = "live" => token[c] = "active"

\* A dead token is an open episode for the daily report until a send proves it repaired, and the
\* channel carries the flag that makes it visible as broken.
DeadTokenIsListed ==
    faults = 0 => \A c \in Channels : (Quiet(c) /\ token[c] = "revoked") =>
        /\ status[c] = "authorization_error"
        /\ \E a \in open : a.chan = c

\* One halt an hour, platform-wide.
OneHaltAnHour == Cardinality({a \in alerts : a.kind = "halt" /\ a.at = now}) <= 1
=============================================================================
