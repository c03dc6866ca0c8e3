------------------------- MODULE ChannelHealthProofs -------------------------
(***************************************************************************)
(* Proofs about ChannelHealth for any number of channels, messages, jobs,  *)
(* breaks, pauses, failures and hours, and any threshold and interval.     *)
(***************************************************************************)
EXTENDS ChannelHealth, SequenceTheorems, FiniteSetTheorems, TLAPS

CredTypes == fault \in [Channels -> {"none", "meta", "row", "kek"}] /\ secret \in [Channels -> {"active", "revoked"}]
ColumnTypes ==
    /\ token \in [Channels -> {"active", "revoked", "error"}]
    /\ mode \in [Channels -> {"live", "off"}] /\ status \in [Channels -> {"active", "authorization_error"}]
    /\ paused \in [Channels -> {"no", "live", "off"}]
ReplyTypes ==
    /\ row \in [Msgs -> {"none", "sending", "sent", "failed"}] /\ why \in [Msgs -> Codes \cup {"none", "190"}]
    /\ made \in [Channels -> Seq(1 .. N)]
InboxTypes ==
    /\ written \in [Msgs -> Times \cup {Never}]
    /\ flags \in [Msgs -> [held : BOOLEAN, caughtUp : BOOLEAN]]
ToldTypes == alerts \subseteq Alert /\ open \subseteq alerts /\ suppressed \subseteq Times
JobTypes == pc \in [Msgs -> Places] /\ sawHalt \in [Msgs -> BOOLEAN]
BoundTypes ==
    /\ now \in Times /\ breaks \in 0 .. MaxBreaks /\ pauses \in 0 .. MaxPauses /\ faults \in 0 .. MaxFaults

Types == CredTypes /\ ColumnTypes /\ ReplyTypes /\ InboxTypes /\ ToldTypes /\ JobTypes /\ BoundTypes

LEMMA TypesAreOK == Types => TypeOK
<1> SUFFICES ASSUME Types PROVE TypeOK
  OBVIOUS
<1>1. \A c \in Channels : \A i \in DOMAIN made[c] : made[c][i] \in 1 .. N
  <2> TAKE c \in Channels
  <2>1. made[c] \in Seq(1 .. N)
    BY DEF Types, ReplyTypes
  <2>2. DOMAIN made[c] = 1 .. Len(made[c])
    BY <2>1, LenProperties
  <2> QED  BY <2>1, <2>2, ElementOfSeq
<1>2. CredTypes /\ ColumnTypes /\ ReplyTypes /\ InboxTypes
  BY DEF Types
<1>3. ToldTypes /\ JobTypes /\ BoundTypes
  BY DEF Types
<1>4. /\ fault \in [Channels -> {"none", "meta", "row", "kek"}] /\ secret \in [Channels -> {"active", "revoked"}]
      /\ token \in [Channels -> {"active", "revoked", "error"}]
      /\ mode \in [Channels -> {"live", "off"}] /\ status \in [Channels -> {"active", "authorization_error"}]
      /\ paused \in [Channels -> {"no", "live", "off"}]
  BY <1>2 DEF CredTypes, ColumnTypes
<1>5. /\ row \in [Msgs -> {"none", "sending", "sent", "failed"}] /\ why \in [Msgs -> Codes \cup {"none", "190"}]
      /\ written \in [Msgs -> Times \cup {Never}]
      /\ flags \in [Msgs -> [held : BOOLEAN, caughtUp : BOOLEAN]]
  BY <1>2 DEF ReplyTypes, InboxTypes
<1>6. /\ alerts \subseteq Alert /\ open \subseteq alerts /\ suppressed \subseteq Times
      /\ pc \in [Msgs -> Places] /\ sawHalt \in [Msgs -> BOOLEAN]
  BY <1>3 DEF ToldTypes, JobTypes
<1>7. now \in Times /\ breaks \in 0 .. MaxBreaks /\ pauses \in 0 .. MaxPauses /\ faults \in 0 .. MaxFaults
  BY <1>3 DEF BoundTypes
<1> QED  BY <1>1, <1>4, <1>5, <1>6, <1>7, Zenon DEF TypeOK

LEMMA Naturals ==
    /\ N \in Nat /\ MaxTime \in Nat /\ MaxBreaks \in Nat /\ MaxPauses \in Nat /\ MaxFaults \in Nat
    /\ Times \subseteq Nat /\ 0 \in Times
  BY ChannelAssumption DEF Times

LEMMA Ofs == \A m \in Msgs : Of(m) \in Channels /\ m[2] \in 1 .. N
  BY DEF Msgs, Of

LEMMA FaultTypes == ASSUME faults \in 0 .. MaxFaults, Fault \/ NoFault
                    PROVE  faults' \in 0 .. MaxFaults /\ (faults' = 0 => faults = 0 /\ NoFault)
  BY Naturals DEF Fault, NoFault
LEMMA GotoTypes == ASSUME JobTypes, NEW m \in Msgs, NEW place \in Places, Goto(m, place) \/ Done(m)
                   PROVE  JobTypes'
<1>1. "idle" \in Places
  BY DEF Places
<1> QED  BY <1>1 DEF JobTypes, Goto, Done
LEMMA RaiseTypes == ASSUME ToldTypes, now \in Times, NEW c \in Channels, NEW kind \in Kinds, NEW again \in BOOLEAN,
                           Raise(c, kind, again) \/ UNCHANGED told
                    PROVE  ToldTypes'
<1> DEFINE new == [chan |-> c, kind |-> kind, at |-> now]
<1>1. new \in Alert
  BY DEF Alert
<1>2. CASE UNCHANGED told
  BY <1>2 DEF ToldTypes, told
<1>3. CASE alerts' = alerts \cup {new} /\ (open' = open \cup {new} \/ open' = open) /\ suppressed' = suppressed
  BY <1>1, <1>3 DEF ToldTypes
<1> QED  BY <1>2, <1>3 DEF Raise

(***************************************************************************)
(* A halt is earned                                                        *)
(***************************************************************************)

OwnKinds == {"row", "190"}
\* Paged, or being paged.
Paged(c) ==
    \/ \E a \in alerts : a.chan = c /\ a.kind \in OwnKinds
    \/ \E m \in Msgs : Of(m) = c /\ At(m, "page") /\ why[m] \in OwnKinds

\* The failure that brought a job to its place.
Cause(m) ==
    /\ pc[m] = "revoke" => why[m] = "190"
    /\ pc[m] = "page" => why[m] \in {"row", "kek", "190"}
    /\ pc[m] = "halt" => why[m] # "kek"
CauseInv == \A m \in Msgs : Cause(m)

\* A failure of the channel's own credential comes before the breaker after its page.
Knows(m) == pc[m] \in {"breaker", "halt"} /\ why[m] # "kek" => Paged(Of(m))
EvidenceInv ==
    faults = 0 => /\ \A m \in Msgs : Knows(m)
                  /\ \A c \in Channels : secret[c] = "revoked" \/ token[c] = "error" => Paged(c)

\* A message nobody wrote has no job.
WorkIsWritten == \A m \in Msgs : pc[m] # "idle" => written[m] # Never

IInv == Types /\ LiveHasToken /\ WorkIsWritten /\ CauseInv /\ EvidenceInv

LEMMA InitIInv == Init => IInv
<1> SUFFICES ASSUME Init PROVE IInv
  OBVIOUS
<1>1. CredTypes /\ ColumnTypes
  BY DEF Init, CredTypes, ColumnTypes
<1>2. ReplyTypes
  <2>1. <<>> \in Seq(1 .. N)
    OBVIOUS
  <2> QED  BY <2>1 DEF Init, ReplyTypes, Codes
<1>3. InboxTypes /\ ToldTypes
  BY DEF Init, InboxTypes, ToldTypes
<1>4. JobTypes /\ BoundTypes
  BY Naturals DEF Init, JobTypes, BoundTypes, Places
<1>5. LiveHasToken
  BY DEF Init, LiveHasToken
<1>6. EvidenceInv
  BY DEF Init, EvidenceInv, Knows
<1>7. WorkIsWritten /\ CauseInv
  BY DEF Init, WorkIsWritten, CauseInv, Cause
<1> QED  BY <1>1, <1>2, <1>3, <1>4, <1>5, <1>6, <1>7 DEF IInv, Types

\* A page in hand is not dropped: where nothing failed it is told before the job goes on.
LEMMA PagedStays ==
    ASSUME Types, NEW c \in Channels, Paged(c), alerts \subseteq alerts',
           \A m \in Msgs : At(m, "page") /\ why[m] \in OwnKinds =>
               \/ pc'[m] = "page" /\ why'[m] = why[m]
               \/ \E a \in alerts' : a.chan = Of(m) /\ a.kind \in OwnKinds
    PROVE  Paged(c)'
<1>1. CASE \E a \in alerts : a.chan = c /\ a.kind \in OwnKinds
  BY <1>1 DEF Paged
<1>2. CASE \E m \in Msgs : Of(m) = c /\ At(m, "page") /\ why[m] \in OwnKinds
  BY <1>2 DEF Paged, At
<1> QED  BY <1>1, <1>2 DEF Paged

\* Of a step of one job, or of nobody's: what is left to show is about that job.
LEMMA Assemble ==
    ASSUME IInv, Types', NEW m \in Msgs, LiveHasToken', alerts \subseteq alerts',
           faults' = 0 => faults = 0,
           \A k \in Msgs \ {m} : pc'[k] = pc[k] /\ why'[k] = why[k] /\ written'[k] = written[k],
           pc'[m] # "idle" => written'[m] # Never, Cause(m)',
           faults' = 0 /\ At(m, "page") /\ why[m] \in OwnKinds =>
               \/ pc'[m] = "page" /\ why'[m] = why[m]
               \/ \E a \in alerts' : a.chan = Of(m) /\ a.kind \in OwnKinds,
           faults' = 0 => Knows(m)',
           faults' = 0 => \A c \in Channels :
               secret'[c] = "revoked" \/ token'[c] = "error" => secret[c] = "revoked" \/ token[c] = "error" \/ Paged(c)'
    PROVE  IInv'
<1>1. ASSUME faults' = 0
      PROVE  /\ \A k \in Msgs : Knows(k)'
             /\ \A c \in Channels : secret'[c] = "revoked" \/ token'[c] = "error" => Paged(c)'
  <2>1. faults = 0 /\ (\A k \in Msgs : Knows(k))
        /\ \A c \in Channels : secret[c] = "revoked" \/ token[c] = "error" => Paged(c)
    BY <1>1 DEF IInv, EvidenceInv
  <2>2. \A k \in Msgs : At(k, "page") /\ why[k] \in OwnKinds =>
               \/ pc'[k] = "page" /\ why'[k] = why[k]
               \/ \E a \in alerts' : a.chan = Of(k) /\ a.kind \in OwnKinds
    BY <1>1 DEF At
  <2>3. \A c \in Channels : Paged(c) => Paged(c)'
    BY <2>2, PagedStays DEF IInv
  <2>4. ASSUME NEW k \in Msgs \ {m} PROVE Knows(k)'
    <3>1. Knows(k) /\ pc'[k] = pc[k] /\ why'[k] = why[k] /\ Of(k) \in Channels
      BY <2>1, Ofs
    <3> QED  BY <2>3, <3>1 DEF Knows, Of
  <2> QED  BY <1>1, <2>1, <2>3, <2>4
<1>2. WorkIsWritten' /\ CauseInv'
  BY DEF IInv, WorkIsWritten, CauseInv, Cause
<1> QED  BY <1>1, <1>2 DEF IInv, EvidenceInv

\* The jobs' steps.  Each is one step of one job; the others' places stay.
LEMMA OneWorks ==
    ASSUME JobTypes, NEW m \in Msgs, NEW place \in Places, Goto(m, place) \/ Done(m)
    PROVE  /\ \A k \in Msgs \ {m} : pc'[k] = pc[k]
           /\ pc'[m] \in {place, "idle"} /\ (Goto(m, place) => pc'[m] = place) /\ (Done(m) => pc'[m] = "idle")
  BY DEF JobTypes, Goto, Done

\* A step of nobody's job.
LEMMA NobodyWorks ==
    ASSUME IInv, Types', LiveHasToken', UNCHANGED <<pc, why, written, alerts>>, NoFault,
           \A c \in Channels : secret'[c] = "revoked" \/ token'[c] = "error" => secret[c] = "revoked" \/ token[c] = "error"
    PROVE  IInv'
<1>1. \A m \in Msgs : At(m, "page") /\ why[m] \in OwnKinds => pc'[m] = "page" /\ why'[m] = why[m]
  BY DEF At
<1>2. ASSUME faults' = 0
      PROVE  /\ \A k \in Msgs : Knows(k)'
             /\ \A c \in Channels : secret'[c] = "revoked" \/ token'[c] = "error" => Paged(c)'
  <2>1. faults = 0 /\ (\A k \in Msgs : Knows(k))
        /\ \A c \in Channels : secret[c] = "revoked" \/ token[c] = "error" => Paged(c)
    BY <1>2 DEF IInv, EvidenceInv, NoFault
  <2>2. \A c \in Channels : Paged(c) => Paged(c)'
    BY <1>1, PagedStays DEF IInv
  <2>3. ASSUME NEW k \in Msgs PROVE Knows(k)'
    <3>1. Knows(k) /\ pc'[k] = pc[k] /\ why'[k] = why[k] /\ Of(k) \in Channels
      BY <2>1, Ofs
    <3> QED  BY <2>2, <3>1 DEF Knows, Of
  <2> QED  BY <2>1, <2>2, <2>3
<1>3. WorkIsWritten' /\ CauseInv'
  BY DEF IInv, WorkIsWritten, CauseInv, Cause
<1> QED  BY <1>2, <1>3 DEF IInv, EvidenceInv

LEMMA BeginKeeps == ASSUME IInv, NEW m \in Msgs, Begin(m) PROVE IInv'
<1> DEFINE c == Of(m)
<1>0. Types /\ c \in Channels /\ m[2] \in 1 .. N
  BY Ofs DEF IInv
<1>1. Fault \/ NoFault
  BY DEF Begin
<1>2. BoundTypes' /\ (faults' = 0 => faults = 0 /\ NoFault)
  <2>1. UNCHANGED <<now, bounds>>
    BY DEF Begin
  <2> QED  BY <1>0, <1>1, <2>1, FaultTypes DEF Types, BoundTypes, bounds
<1>3. CredTypes' /\ ColumnTypes' /\ ToldTypes' /\ LiveHasToken' /\ UNCHANGED <<secret, token, alerts, why>>
  BY <1>0 DEF Begin, creds, columns, told, replies, Types, CredTypes, ColumnTypes, ToldTypes, IInv, LiveHasToken
<1>4. InboxTypes'
  <2>1. now \in Times \cup {Never} /\ (written' = [written EXCEPT ![m] = now] \/ written' = written)
    BY <1>0 DEF Begin, Types, BoundTypes, InboxTypes
  <2>2. flags' = flags \/ flags' = [flags EXCEPT ![m].held = TRUE]
    BY DEF Begin
  <2>3. written' \in [Msgs -> Times \cup {Never}]
    BY <1>0, <2>1 DEF Types, InboxTypes
  <2>4. flags' \in [Msgs -> [held : BOOLEAN, caughtUp : BOOLEAN]]
    BY <1>0, <2>2 DEF Types, InboxTypes
  <2> QED  BY <2>3, <2>4 DEF InboxTypes
<1>5. ReplyTypes'
  <2>1. UNCHANGED replies \/ (/\ row' = [row EXCEPT ![m] = "sending"]
                              /\ made' = [made EXCEPT ![c] = Append(@, m[2])] \/ made' = made
                              /\ why' = why)
    BY DEF Begin
  <2>2. row' \in [Msgs -> {"none", "sending", "sent", "failed"}] /\ why' \in [Msgs -> Codes \cup {"none", "190"}]
    BY <1>0, <2>1 DEF Types, ReplyTypes, replies
  <2>3. made \in [Channels -> Seq(1 .. N)]
    BY <1>0 DEF Types, ReplyTypes
  <2>4. Append(made[c], m[2]) \in Seq(1 .. N)
    <3> DEFINE S == 1 .. N
    <3>1. made[c] \in Seq(S) /\ m[2] \in S
      BY <1>0, <2>3
    <3> HIDE DEF S
    <3>2. Append(made[c], m[2]) \in Seq(S)
      BY <3>1, AppendProperties
    <3> QED  BY <3>2 DEF S
  <2>5. made' \in [Channels -> Seq(1 .. N)]
    BY <1>0, <2>1, <2>3, <2>4 DEF replies
  <2> QED  BY <2>2, <2>5 DEF ReplyTypes
<1>6. Done(m) \/ (/\ mode[c] = "live" /\ pc' = [pc EXCEPT ![m] = "send"]
                  /\ sawHalt' = [sawHalt EXCEPT ![m] = status[c] = "authorization_error"])
  BY DEF Begin
<1>7. JobTypes' /\ (\A k \in Msgs \ {m} : pc'[k] = pc[k]) /\ pc'[m] \in {"idle", "send"}
  <2>1. CASE Done(m)
    BY <1>0, <2>1 DEF Done, Types, JobTypes, Places
  <2>2. CASE /\ pc' = [pc EXCEPT ![m] = "send"]
             /\ sawHalt' = [sawHalt EXCEPT ![m] = status[c] = "authorization_error"]
    <3>1. (status[c] = "authorization_error") \in BOOLEAN
      OBVIOUS
    <3>2. pc' \in [Msgs -> Places] /\ (\A k \in Msgs \ {m} : pc'[k] = pc[k]) /\ pc'[m] = "send"
      BY <1>0, <2>2 DEF Types, JobTypes, Places
    <3>3. sawHalt' \in [Msgs -> BOOLEAN]
      BY <1>0, <2>2, <3>1, Zenon DEF Types, JobTypes
    <3> QED  BY <3>2, <3>3 DEF JobTypes
  <2> QED  BY <1>6, <2>1, <2>2
<1>8. Types'
  BY <1>2, <1>3, <1>4, <1>5, <1>7 DEF Types
<1>9. Knows(m)' /\ Cause(m)'
  BY <1>7 DEF Knows, Cause
<1>10. ~At(m, "page")
  BY DEF Begin, At, Arrives, IInv, WorkIsWritten
<1>11. written'[m] # Never /\ \A k \in Msgs \ {m} : written'[k] = written[k]
  <2>1. now # Never
    BY <1>0, Naturals DEF Types, BoundTypes, Never
  <2>2. written \in [Msgs -> Times \cup {Never}]
    BY <1>0 DEF Types, InboxTypes
  <2>3. (At(m, "queued") => written[m] # Never)
    BY DEF At, IInv, WorkIsWritten
  <2> QED  BY <2>1, <2>2, <2>3 DEF Begin
<1>12. alerts \subseteq alerts' /\ \A k \in Msgs \ {m} : why'[k] = why[k]
  BY <1>3
<1> QED  BY <1>2, <1>3, <1>7, <1>8, <1>9, <1>10, <1>11, <1>12, Assemble

\* What a step of a job that leaves the inbox alone shares with the others.
LEMMA JobKeeps ==
    ASSUME IInv, NEW m \in Msgs, pc[m] # "idle", NEW place \in Places, Goto(m, place) \/ Done(m),
           CredTypes', ColumnTypes', ToldTypes', row' \in [Msgs -> {"none", "sending", "sent", "failed"}],
           why' \in [Msgs -> Codes \cup {"none", "190"}], \A k \in Msgs \ {m} : why'[k] = why[k],
           UNCHANGED <<made, written, flags, now, bounds>>, Fault \/ NoFault, LiveHasToken', alerts \subseteq alerts',
           faults' = 0 /\ At(m, "page") /\ why[m] \in OwnKinds =>
               \E a \in alerts' : a.chan = Of(m) /\ a.kind \in OwnKinds,
           Cause(m)', faults' = 0 => Knows(m)',
           faults' = 0 => \A c \in Channels :
               secret'[c] = "revoked" \/ token'[c] = "error" => secret[c] = "revoked" \/ token[c] = "error" \/ Paged(c)'
    PROVE  IInv'
<1>0. Types
  BY DEF IInv
<1>1. BoundTypes' /\ (faults' = 0 => faults = 0 /\ NoFault)
  BY <1>0, FaultTypes DEF Types, BoundTypes, bounds
<1>2. JobTypes' /\ (\A k \in Msgs \ {m} : pc'[k] = pc[k])
  BY <1>0, GotoTypes, OneWorks DEF Types
<1>3. ReplyTypes' /\ InboxTypes'
  BY <1>0 DEF Types, ReplyTypes, InboxTypes
<1>4. Types'
  BY <1>1, <1>2, <1>3 DEF Types
<1>5. written'[m] # Never /\ \A k \in Msgs \ {m} : written'[k] = written[k]
  BY DEF IInv, WorkIsWritten
<1> QED  BY <1>1, <1>2, <1>4, <1>5, Assemble

\* A step that writes no column but its job's place.
LEMMA ColumnsStay ==
    ASSUME IInv, UNCHANGED <<creds, columns>>
    PROVE  /\ CredTypes' /\ ColumnTypes' /\ LiveHasToken'
           /\ secret' = secret /\ token' = token
  BY DEF IInv, Types, CredTypes, ColumnTypes, LiveHasToken, creds, columns
LEMMA RepliesStay ==
    ASSUME IInv, UNCHANGED replies
    PROVE  /\ row' \in [Msgs -> {"none", "sending", "sent", "failed"}] /\ why' \in [Msgs -> Codes \cup {"none", "190"}]
           /\ why' = why /\ made' = made
  BY DEF IInv, Types, ReplyTypes, replies
LEMMA ToldStays == ASSUME IInv, UNCHANGED told PROVE ToldTypes' /\ alerts \subseteq alerts'
  BY DEF IInv, Types, ToldTypes, told

LEMMA SendKeeps == ASSUME IInv, NEW m \in Msgs, Send(m) PROVE IInv'
<1> DEFINE c == Of(m)
           a == Answer(c)
           place == IF a = "sent" THEN "resolve"
                    ELSE IF a = "190" THEN "revoke" ELSE IF a = "revoked" THEN "breaker" ELSE "page"
<1>0. Types /\ c \in Channels /\ pc[m] = "send" /\ NoFault
  BY Ofs DEF IInv, Send, At
<1>1. /\ a \in {"row", "kek", "revoked", "190", "sent"}
      /\ a = "revoked" => secret[c] = "revoked"
  BY <1>0 DEF Answer
<1>2. /\ UNCHANGED <<now, creds, columns, made, written, flags, told, bounds>>
      /\ Goto(m, place)
      /\ row' = [row EXCEPT ![m] = "sent"] \/ row' = [row EXCEPT ![m] = "failed"]
      /\ why' = [why EXCEPT ![m] = IF a = "sent" THEN "none" ELSE a]
  BY DEF Send
<1>3. /\ CredTypes' /\ ColumnTypes' /\ LiveHasToken' /\ ToldTypes' /\ alerts \subseteq alerts'
      /\ secret' = secret /\ token' = token
  BY <1>2, ColumnsStay, ToldStays
<1>4. /\ row' \in [Msgs -> {"none", "sending", "sent", "failed"}]
      /\ why' \in [Msgs -> Codes \cup {"none", "190"}] /\ (\A k \in Msgs \ {m} : why'[k] = why[k])
      /\ why'[m] = IF a = "sent" THEN "none" ELSE a
  BY <1>0, <1>1, <1>2 DEF Types, ReplyTypes, Codes
<1>5. place \in Places /\ pc'[m] = place
  <2>1. place \in Places
    BY <1>1 DEF Places
  <2> QED  BY <1>0, <1>2, <2>1, OneWorks DEF Types
<1>6. ASSUME faults' = 0 PROVE Knows(m)'
  <2>1. EvidenceInv /\ faults = 0
    BY <1>0, <1>6 DEF IInv, NoFault
  <2>2. a = "revoked" => Paged(c)
    BY <1>0, <1>1, <2>1 DEF EvidenceInv
  <2>3. \A k \in Msgs : At(k, "page") /\ why[k] \in OwnKinds => pc'[k] = "page" /\ why'[k] = why[k]
    BY <1>0, <1>2, <1>4 DEF At, Types, JobTypes, Goto
  <2>4. a = "revoked" => Paged(c)'
    BY <1>0, <1>3, <2>2, <2>3, PagedStays
  <2> QED  BY <1>1, <1>4, <1>5, <2>4 DEF Knows, Of
<1>7. Cause(m)'
  BY <1>1, <1>4, <1>5 DEF Cause
<1> HIDE DEF place, a
<1> QED  BY <1>0, <1>2, <1>3, <1>4, <1>5, <1>6, <1>7, JobKeeps DEF At

LEMMA RevokeKeeps == ASSUME IInv, NEW m \in Msgs, Revoke(m) PROVE IInv'
<1> DEFINE c == Of(m)
<1>0. Types /\ c \in Channels /\ pc[m] = "revoke" /\ (Fault \/ NoFault)
  BY Ofs DEF IInv, Revoke, At
<1>1. /\ UNCHANGED <<now, fault, replies, written, flags, told, bounds>>
      /\ Goto(m, "page")
      /\ secret' = secret \/ secret' = [secret EXCEPT ![c] = "revoked"]
      /\ UNCHANGED columns \/ HaltOutbound(c)
  BY DEF Revoke
<1>2. CredTypes'
  BY <1>0, <1>1 DEF Types, CredTypes
<1>3. ColumnTypes' /\ LiveHasToken' /\ (\A d \in Channels : token'[d] = "error" => token[d] = "error")
  BY <1>0, <1>1 DEF Types, ColumnTypes, HaltOutbound, LiveHasToken, IInv, columns
<1>4. ToldTypes' /\ alerts \subseteq alerts'
  BY <1>1, ToldStays
<1>5. /\ row' \in [Msgs -> {"none", "sending", "sent", "failed"}] /\ why' \in [Msgs -> Codes \cup {"none", "190"}]
      /\ why' = why /\ made' = made
  BY <1>1, RepliesStay
<1>6. "page" \in Places /\ pc'[m] = "page"
  <2>1. "page" \in Places
    BY DEF Places
  <2> QED  BY <1>0, <1>1, <2>1, OneWorks DEF Types
<1>7. why[m] = "190"
  BY <1>0 DEF IInv, CauseInv, Cause
<1>8. Knows(m)' /\ Cause(m)'
  BY <1>5, <1>6, <1>7 DEF Knows, Cause
<1>9. Paged(c)'
  BY <1>5, <1>6, <1>7 DEF Paged, At, OwnKinds, Of
<1>10. ASSUME NEW d \in Channels, secret'[d] = "revoked" \/ token'[d] = "error"
       PROVE  secret[d] = "revoked" \/ token[d] = "error" \/ Paged(d)'
  <2>1. CASE d = c
    BY <1>9, <1>10, <2>1
  <2>2. CASE d # c
    BY <1>0, <1>1, <1>3, <1>10, <2>2 DEF Types, CredTypes
  <2> QED  BY <2>1, <2>2
<1>11. ~At(m, "page")
  BY <1>0 DEF At
<1> HIDE DEF c
<1> QED  BY <1>0, <1>1, <1>2, <1>3, <1>4, <1>5, <1>6, <1>8, <1>10, <1>11, JobKeeps

LEMMA PageKeeps == ASSUME IInv, NEW m \in Msgs, Page(m) PROVE IInv'
<1> DEFINE c == Of(m)
<1>0. Types /\ c \in Channels /\ pc[m] = "page" /\ (Fault \/ NoFault) /\ now \in Times
  BY Ofs DEF IInv, Page, At, RaiseOrFail, Types, BoundTypes
<1>1. /\ UNCHANGED <<now, creds, columns, replies, written, flags, bounds>>
      /\ Goto(m, "breaker") \/ Done(m)
      /\ (Raise(c, why[m], TRUE) /\ NoFault) \/ (UNCHANGED told /\ Fault)
      /\ why[m] = "190" => Done(m)
  BY DEF Page, RaiseOrFail
<1>2. /\ CredTypes' /\ ColumnTypes' /\ LiveHasToken'
      /\ secret' = secret /\ token' = token
  BY <1>1, ColumnsStay
<1>3. /\ row' \in [Msgs -> {"none", "sending", "sent", "failed"}] /\ why' \in [Msgs -> Codes \cup {"none", "190"}]
      /\ why' = why /\ made' = made
  BY <1>1, RepliesStay
<1>4. c \in Channels /\ why[m] \in {"row", "kek", "190"}
  BY <1>0 DEF IInv, CauseInv, Cause
<1>5. ToldTypes'
  BY <1>0, <1>1, <1>4, RaiseTypes DEF Types, Kinds
<1>6. alerts \subseteq alerts'
  BY <1>1 DEF Raise, told
<1>7. ASSUME NoFault, why[m] \in OwnKinds
      PROVE  \E a \in alerts' : a.chan = c /\ a.kind \in OwnKinds
  <2>1. Raise(c, why[m], TRUE)
    <3>1. faults \in Nat
      BY <1>0, Naturals DEF Types, BoundTypes
    <3>2. ~Fault
      BY <1>7, <3>1 DEF Fault, NoFault
    <3> QED  BY <1>1, <3>2
  <2>2. CASE Raised(c, why[m], TRUE)
    BY <1>0, <1>6, <1>7, <2>2 DEF Raised, Types, ToldTypes
  <2>3. CASE ~Raised(c, why[m], TRUE)
    <3>1. [chan |-> c, kind |-> why[m], at |-> now] \in alerts'
      BY <2>1, <2>3 DEF Raise
    <3> QED  BY <1>7, <3>1
  <2> QED  BY <2>2, <2>3
<1>8. ASSUME faults' = 0 PROVE NoFault
  BY <1>0, <1>8, FaultTypes DEF Types, BoundTypes
<1>9. "breaker" \in Places /\ pc'[m] \in {"breaker", "idle"}
  <2>1. "breaker" \in Places
    BY DEF Places
  <2> QED  BY <1>0, <1>1, <2>1, OneWorks DEF Types
<1>10. Cause(m)'
  BY <1>9 DEF Cause
<1>11. ASSUME faults' = 0 PROVE Knows(m)'
  <2>1. CASE why[m] = "190"
    <3>1. pc'[m] = "idle"
      BY <1>0, <1>1, <1>9, <2>1, OneWorks DEF Types
    <3> QED  BY <3>1 DEF Knows
  <2>2. CASE why[m] = "kek"
    BY <1>3, <2>2 DEF Knows
  <2>3. CASE why[m] = "row"
    <3>1. \E a \in alerts' : a.chan = c /\ a.kind \in OwnKinds
      BY <1>7, <1>8, <1>11, <2>3 DEF OwnKinds
    <3> QED  BY <3>1 DEF Knows, Paged, Of
  <2> QED  BY <1>4, <2>1, <2>2, <2>3
<1>12. faults' = 0 /\ At(m, "page") /\ why[m] \in OwnKinds =>
          \E a \in alerts' : a.chan = Of(m) /\ a.kind \in OwnKinds
  BY <1>7, <1>8
<1>13. \A d \in Channels : secret'[d] = "revoked" \/ token'[d] = "error" => secret[d] = "revoked" \/ token[d] = "error"
  BY <1>2
<1>14. (Goto(m, "breaker") \/ Done(m)) /\ "breaker" \in Places
  BY <1>1, <1>9
<1>15. UNCHANGED <<made, written, flags, now, bounds>> /\ pc[m] # "idle"
  BY <1>0, <1>1, <1>3
<1> HIDE DEF c
<1> QED  BY <1>0, <1>2, <1>3, <1>5, <1>6, <1>10, <1>11, <1>12, <1>13, <1>14, <1>15, JobKeeps

LEMMA BreakerKeeps == ASSUME IInv, NEW m \in Msgs, Breaker(m) PROVE IInv'
<1>0. Types /\ pc[m] = "breaker" /\ Of(m) \in Channels
  BY Ofs DEF IInv, Breaker, At
<1>1. /\ UNCHANGED <<now, creds, columns, replies, written, flags, told, bounds>>
      /\ \/ why[m] # "kek" /\ Goto(m, "halt") /\ NoFault
         \/ Goto(m, "tellSuppressed") /\ NoFault
         \/ Done(m) /\ (Fault \/ NoFault)
  BY DEF Breaker, NotThisChannel
<1>2. /\ CredTypes' /\ ColumnTypes' /\ LiveHasToken'
      /\ secret' = secret /\ token' = token
  BY <1>1, ColumnsStay
<1>3. /\ row' \in [Msgs -> {"none", "sending", "sent", "failed"}] /\ why' \in [Msgs -> Codes \cup {"none", "190"}]
      /\ why' = why /\ made' = made
  BY <1>1, RepliesStay
<1>4. ToldTypes' /\ alerts \subseteq alerts' /\ alerts' = alerts
  BY <1>1, ToldStays DEF told
<1>5. {"halt", "tellSuppressed"} \subseteq Places
  BY DEF Places
<1>6. CASE why[m] # "kek" /\ Goto(m, "halt") /\ NoFault
  <2>1. pc'[m] = "halt" /\ (\A k \in Msgs \ {m} : pc'[k] = pc[k])
    BY <1>0, <1>5, <1>6, OneWorks DEF Types
  <2>2. ASSUME faults' = 0 PROVE Knows(m)'
    <3>1. Paged(Of(m))
      BY <1>0, <1>6, <2>2 DEF IInv, EvidenceInv, Knows, NoFault
    <3>2. \A k \in Msgs : At(k, "page") => pc'[k] = "page" /\ why'[k] = why[k]
      BY <1>0, <1>3, <2>1 DEF At
    <3>3. Paged(Of(m))'
      BY <1>0, <1>4, <3>1, <3>2, PagedStays DEF Of
    <3> QED  BY <3>3 DEF Knows
  <2>3. Cause(m)'
    BY <1>3, <1>6, <2>1 DEF Cause
  <2> QED  BY <1>0, <1>1, <1>2, <1>3, <1>4, <1>5, <1>6, <2>2, <2>3, JobKeeps DEF At
<1>7. CASE (Goto(m, "tellSuppressed") \/ Done(m)) /\ (Fault \/ NoFault)
  <2>1. pc'[m] \in {"tellSuppressed", "idle"}
    BY <1>0, <1>5, <1>7, OneWorks DEF Types
  <2>2. Knows(m)' /\ Cause(m)'
    BY <2>1 DEF Knows, Cause
  <2> QED  BY <1>0, <1>1, <1>2, <1>3, <1>4, <1>5, <1>7, <2>2, JobKeeps DEF At
<1> QED  BY <1>1, <1>6, <1>7

LEMMA HaltKeeps == ASSUME IInv, NEW m \in Msgs, Halt(m) PROVE IInv'
<1> DEFINE c == Of(m)
<1>0. Types /\ pc[m] = "halt" /\ c \in Channels /\ (Fault \/ NoFault)
  BY Ofs DEF IInv, Halt, At
<1>1. /\ UNCHANGED <<now, creds, paused, replies, written, flags, told, bounds>>
      /\ Goto(m, "tellHalt") \/ Done(m)
      /\ \/ UNCHANGED <<token, mode, status>>
         \/ /\ token' = [token EXCEPT ![c] = "error"] /\ mode' = [mode EXCEPT ![c] = "off"]
            /\ status' = [status EXCEPT ![c] = "authorization_error"]
  BY DEF Halt
<1>2. CredTypes' /\ ColumnTypes' /\ LiveHasToken' /\ secret' = secret /\ (\A d \in Channels \ {c} : token'[d] = token[d])
  BY <1>0, <1>1 DEF Types, CredTypes, ColumnTypes, LiveHasToken, IInv, creds
<1>3. /\ row' \in [Msgs -> {"none", "sending", "sent", "failed"}] /\ why' \in [Msgs -> Codes \cup {"none", "190"}]
      /\ why' = why /\ made' = made
  BY <1>1, RepliesStay
<1>4. ToldTypes' /\ alerts \subseteq alerts' /\ alerts' = alerts
  BY <1>1, ToldStays DEF told
<1>5. "tellHalt" \in Places
  BY DEF Places
<1>6. pc'[m] \in {"tellHalt", "idle"} /\ (\A k \in Msgs \ {m} : pc'[k] = pc[k])
  BY <1>0, <1>1, <1>5, OneWorks DEF Types
<1>7. Knows(m)' /\ Cause(m)'
  BY <1>6 DEF Knows, Cause
<1>8. ASSUME faults' = 0 PROVE Paged(c)'
  <2>1. faults = 0
    BY <1>0, <1>8, FaultTypes DEF Types, BoundTypes
  <2>2. Paged(c)
    BY <1>0, <2>1 DEF IInv, EvidenceInv, Knows, CauseInv, Cause
  <2>3. \A k \in Msgs : At(k, "page") => pc'[k] = "page" /\ why'[k] = why[k]
    BY <1>0, <1>3, <1>6 DEF At
  <2> QED  BY <1>0, <1>4, <2>2, <2>3, PagedStays
<1>9. ASSUME faults' = 0, NEW d \in Channels, secret'[d] = "revoked" \/ token'[d] = "error"
      PROVE  secret[d] = "revoked" \/ token[d] = "error" \/ Paged(d)'
  <2>1. CASE d = c
    BY <1>8, <1>9, <2>1
  <2>2. CASE d # c
    BY <1>2, <1>9, <2>2
  <2> QED  BY <2>1, <2>2
<1>10. ~At(m, "page") /\ pc[m] # "idle"
  BY <1>0 DEF At
<1> HIDE DEF c
<1> QED  BY <1>0, <1>1, <1>2, <1>3, <1>4, <1>5, <1>7, <1>9, <1>10, JobKeeps

LEMMA TellHaltKeeps == ASSUME IInv, NEW m \in Msgs, TellHalt(m) PROVE IInv'
<1>0. Types /\ pc[m] = "tellHalt" /\ Of(m) \in Channels /\ (Fault \/ NoFault) /\ now \in Times /\ "idle" \in Places
  BY Ofs DEF IInv, TellHalt, At, RaiseOrFail, Types, BoundTypes, Places
<1>1. /\ UNCHANGED <<now, creds, columns, replies, written, flags, bounds>> /\ Done(m)
      /\ Raise(Of(m), "halt", FALSE) \/ UNCHANGED told
  BY DEF TellHalt, RaiseOrFail
<1>2. /\ CredTypes' /\ ColumnTypes' /\ LiveHasToken'
      /\ secret' = secret /\ token' = token
  BY <1>1, ColumnsStay
<1>3. /\ row' \in [Msgs -> {"none", "sending", "sent", "failed"}] /\ why' \in [Msgs -> Codes \cup {"none", "190"}]
      /\ why' = why /\ made' = made
  BY <1>1, RepliesStay
<1>4. ToldTypes'
  BY <1>0, <1>1, RaiseTypes DEF Types, Kinds
<1>5. alerts \subseteq alerts'
  BY <1>1 DEF Raise, told
<1>6. Knows(m)' /\ Cause(m)'
  BY <1>0, <1>1, OneWorks DEF Knows, Cause, Types
<1> QED  BY <1>0, <1>1, <1>2, <1>3, <1>4, <1>5, <1>6, JobKeeps DEF At

LEMMA TellSuppressedKeeps == ASSUME IInv, NEW m \in Msgs, TellSuppressed(m) PROVE IInv'
<1>0. /\ Types /\ pc[m] = "tellSuppressed" /\ Of(m) \in Channels /\ (Fault \/ NoFault) /\ now \in Times
      /\ "idle" \in Places
  BY Ofs DEF IInv, TellSuppressed, At, Types, BoundTypes, Places
<1>1. /\ UNCHANGED <<now, creds, columns, replies, written, flags, bounds>> /\ Done(m)
      /\ UNCHANGED <<alerts, open>> /\ (suppressed' = suppressed \cup {now} \/ suppressed' = suppressed)
  BY DEF TellSuppressed
<1>2. /\ CredTypes' /\ ColumnTypes' /\ LiveHasToken'
      /\ secret' = secret /\ token' = token
  BY <1>1, ColumnsStay
<1>3. /\ row' \in [Msgs -> {"none", "sending", "sent", "failed"}] /\ why' \in [Msgs -> Codes \cup {"none", "190"}]
      /\ why' = why /\ made' = made
  BY <1>1, RepliesStay
<1>4. ToldTypes' /\ alerts \subseteq alerts'
  BY <1>0, <1>1 DEF Types, ToldTypes
<1>5. Knows(m)' /\ Cause(m)'
  BY <1>0, <1>1, OneWorks DEF Knows, Cause, Types
<1> QED  BY <1>0, <1>1, <1>2, <1>3, <1>4, <1>5, JobKeeps DEF At

LEMMA ResolveKeeps == ASSUME IInv, NEW m \in Msgs, Resolve(m) PROVE IInv'
<1>0. Types /\ pc[m] = "resolve" /\ Of(m) \in Channels /\ (Fault \/ NoFault) /\ {"idle", "clear"} \subseteq Places
  BY Ofs DEF IInv, Resolve, At, Places
<1>1. /\ UNCHANGED <<now, creds, columns, replies, written, flags, bounds>>
      /\ Goto(m, "clear") \/ Done(m)
      /\ UNCHANGED <<alerts, suppressed>> /\ open' \subseteq open
  BY DEF Resolve, told
<1>2. /\ CredTypes' /\ ColumnTypes' /\ LiveHasToken'
      /\ secret' = secret /\ token' = token
  BY <1>1, ColumnsStay
<1>3. /\ row' \in [Msgs -> {"none", "sending", "sent", "failed"}] /\ why' \in [Msgs -> Codes \cup {"none", "190"}]
      /\ why' = why /\ made' = made
  BY <1>1, RepliesStay
<1>4. ToldTypes' /\ alerts \subseteq alerts'
  BY <1>0, <1>1 DEF Types, ToldTypes
<1>5. pc'[m] \in {"clear", "idle"}
  BY <1>0, <1>1, OneWorks DEF Types
<1>6. Knows(m)' /\ Cause(m)'
  BY <1>5 DEF Knows, Cause
<1> QED  BY <1>0, <1>1, <1>2, <1>3, <1>4, <1>6, JobKeeps DEF At

LEMMA ClearKeeps == ASSUME IInv, NEW m \in Msgs, Clear(m) PROVE IInv'
<1>0. Types /\ pc[m] = "clear" /\ Of(m) \in Channels /\ (Fault \/ NoFault) /\ "idle" \in Places
  BY Ofs DEF IInv, Clear, At, Places
<1>1. /\ UNCHANGED <<now, creds, token, mode, paused, replies, written, flags, told, bounds>> /\ Done(m)
      /\ \/ status' = [status EXCEPT ![Of(m)] = IF @ = "authorization_error" THEN "active" ELSE @]
         \/ status' = status
  BY DEF Clear
<1>2. /\ CredTypes' /\ ColumnTypes' /\ LiveHasToken'
      /\ secret' = secret /\ token' = token
  BY <1>0, <1>1 DEF IInv, Types, CredTypes, ColumnTypes, LiveHasToken, creds
<1>3. /\ row' \in [Msgs -> {"none", "sending", "sent", "failed"}] /\ why' \in [Msgs -> Codes \cup {"none", "190"}]
      /\ why' = why /\ made' = made
  BY <1>1, RepliesStay
<1>4. ToldTypes' /\ alerts \subseteq alerts'
  BY <1>1, ToldStays
<1>5. Knows(m)' /\ Cause(m)'
  BY <1>0, <1>1, OneWorks DEF Knows, Cause, Types
<1> QED  BY <1>0, <1>1, <1>2, <1>3, <1>4, <1>5, JobKeeps DEF At

\* A job that is killed may take a page with it; that is a fault.
LEMMA DieKeeps == ASSUME IInv, NEW m \in Msgs, Die(m) PROVE IInv'
<1>0. Types /\ pc[m] # "idle" /\ Fault /\ Done(m) /\ "idle" \in Places
  BY DEF IInv, Die, Running, Places
<1>1. UNCHANGED <<now, creds, columns, replies, written, flags, told, bounds>>
  BY DEF Die
<1>2. /\ CredTypes' /\ ColumnTypes' /\ LiveHasToken'
      /\ secret' = secret /\ token' = token
  BY <1>1, ColumnsStay
<1>3. /\ row' \in [Msgs -> {"none", "sending", "sent", "failed"}] /\ why' \in [Msgs -> Codes \cup {"none", "190"}]
      /\ why' = why /\ made' = made
  BY <1>1, RepliesStay
<1>4. ToldTypes' /\ alerts \subseteq alerts'
  BY <1>1, ToldStays
<1>5. Knows(m)' /\ Cause(m)'
  BY <1>0, OneWorks DEF Knows, Cause, Types
<1>6. faults' # 0
  <2>1. faults \in Nat
    BY <1>0, Naturals DEF Types, BoundTypes
  <2> QED  BY <1>0, <2>1 DEF Fault
<1> QED  BY <1>0, <1>1, <1>2, <1>3, <1>4, <1>5, <1>6, JobKeeps

LEMMA CatchUpKeeps == ASSUME IInv, NEW m \in Msgs, CatchUp(m) PROVE IInv'
<1>0. Types /\ pc[m] = "idle" /\ (Fault \/ NoFault) /\ "queued" \in Places /\ Goto(m, "queued")
  BY DEF IInv, CatchUp, At, Places
<1>1. /\ UNCHANGED <<now, creds, columns, replies, written, told, bounds>>
      /\ flags' = flags \/ flags' = [flags EXCEPT ![m].caughtUp = TRUE]
      /\ written[m] # Never
  BY DEF CatchUp, Waiting, Newest
<1>2. /\ CredTypes' /\ ColumnTypes' /\ LiveHasToken'
      /\ secret' = secret /\ token' = token
  BY <1>1, ColumnsStay
<1>3. ReplyTypes' /\ why' = why
  BY <1>0, <1>1 DEF Types, ReplyTypes, replies
<1>4. ToldTypes' /\ alerts \subseteq alerts'
  BY <1>1, ToldStays
<1>5. InboxTypes'
  <2>1. flags' \in [Msgs -> [held : BOOLEAN, caughtUp : BOOLEAN]]
    BY <1>0, <1>1 DEF Types, InboxTypes
  <2> QED  BY <1>0, <1>1, <2>1 DEF Types, InboxTypes
<1>6. JobTypes' /\ pc'[m] = "queued" /\ (\A k \in Msgs \ {m} : pc'[k] = pc[k])
  BY <1>0, GotoTypes, OneWorks DEF Types
<1>7. BoundTypes' /\ (faults' = 0 => faults = 0)
  BY <1>0, <1>1, FaultTypes DEF Types, BoundTypes, bounds
<1>8. Types'
  BY <1>2, <1>3, <1>4, <1>5, <1>6, <1>7 DEF Types
<1>9. Knows(m)' /\ Cause(m)'
  BY <1>6 DEF Knows, Cause
<1>10. ~At(m, "page")
  BY <1>0 DEF At
<1> QED  BY <1>1, <1>2, <1>3, <1>4, <1>6, <1>7, <1>8, <1>9, <1>10, Assemble

(***************************************************************************)
(* The steps of nobody's job                                               *)
(***************************************************************************)

LEMMA OutsideTypes ==
    ASSUME IInv, UNCHANGED <<replies, written, flags, told, pc, sawHalt>>, NoFault, CredTypes', ColumnTypes',
           now' \in Times, breaks' \in 0 .. MaxBreaks, pauses' \in 0 .. MaxPauses
    PROVE  Types' /\ UNCHANGED <<pc, why, written, alerts>>
<1>1. Types
  BY DEF IInv
<1>2. ReplyTypes' /\ InboxTypes' /\ ToldTypes' /\ JobTypes'
  BY <1>1 DEF Types, ReplyTypes, InboxTypes, ToldTypes, JobTypes, replies, told
<1>3. BoundTypes'
  BY <1>1 DEF Types, BoundTypes, NoFault
<1> QED  BY <1>2, <1>3 DEF Types, replies, told

LEMMA BreakKeeps == ASSUME IInv, NEW broken \in SUBSET Channels, NEW f \in {"meta", "row", "kek"}, Break(broken, f)
                    PROVE  IInv'
<1>1. UNCHANGED <<now, secret, columns, replies, written, flags, told, pc, sawHalt, pauses>> /\ NoFault
  BY DEF Break
<1>2. Types
  BY DEF IInv
<1>3. CredTypes' /\ ColumnTypes' /\ LiveHasToken' /\ token' = token /\ secret' = secret
  BY <1>1, <1>2 DEF Types, CredTypes, ColumnTypes, LiveHasToken, IInv, columns, Break
<1>4. now' \in Times /\ breaks' \in 0 .. MaxBreaks /\ pauses' \in 0 .. MaxPauses
  BY <1>1, <1>2, Naturals DEF Types, BoundTypes, Break
<1>5. Types' /\ UNCHANGED <<pc, why, written, alerts>>
  BY <1>1, <1>3, <1>4, OutsideTypes
<1> QED  BY <1>1, <1>3, <1>5, NobodyWorks

LEMMA RepairKeeps == ASSUME IInv, NEW c \in Channels, Repair(c) PROVE IInv'
<1>1. UNCHANGED <<now, paused, replies, written, flags, told, pc, sawHalt, bounds>> /\ NoFault
  BY DEF Repair
<1>2. Types
  BY DEF IInv
<1>3. CredTypes'
  <2>1. fault' \in [Channels -> {"none", "meta", "row", "kek"}]
    <3>1. \/ fault' = [d \in Channels |-> IF fault[d] = "kek" THEN "none" ELSE fault[d]]
          \/ fault' = [fault EXCEPT ![c] = "none"]
      BY DEF Repair
    <3> QED  BY <1>2, <3>1 DEF Types, CredTypes
  <2>2. secret' \in [Channels -> {"active", "revoked"}]
    BY <1>2 DEF Types, CredTypes, Repair
  <2> QED  BY <2>1, <2>2 DEF CredTypes
<1>4. ColumnTypes'
  BY <1>1, <1>2 DEF Types, ColumnTypes, Repair
<1>5. LiveHasToken'
  BY <1>2 DEF Types, ColumnTypes, LiveHasToken, IInv, Repair
<1>6. \A d \in Channels : secret'[d] = "revoked" \/ token'[d] = "error" => secret[d] = "revoked" \/ token[d] = "error"
  BY <1>2 DEF Types, CredTypes, ColumnTypes, Repair
<1>7. now' \in Times /\ breaks' \in 0 .. MaxBreaks /\ pauses' \in 0 .. MaxPauses
  BY <1>1, <1>2 DEF Types, BoundTypes, bounds
<1>8. Types' /\ UNCHANGED <<pc, why, written, alerts>>
  BY <1>1, <1>3, <1>4, <1>7, OutsideTypes
<1> QED  BY <1>1, <1>5, <1>6, <1>8, NobodyWorks

LEMMA PauseKeeps == ASSUME IInv, NEW c \in Channels, Pause(c) PROVE IInv'
<1>1. UNCHANGED <<now, creds, token, status, replies, written, flags, told, pc, sawHalt, breaks>> /\ NoFault
  BY DEF Pause
<1>2. Types
  BY DEF IInv
<1>3. CredTypes' /\ ColumnTypes' /\ LiveHasToken' /\ token' = token /\ secret' = secret
  BY <1>1, <1>2 DEF Types, CredTypes, ColumnTypes, LiveHasToken, IInv, creds, Pause
<1>4. now' \in Times /\ breaks' \in 0 .. MaxBreaks /\ pauses' \in 0 .. MaxPauses
  BY <1>1, <1>2, Naturals DEF Types, BoundTypes, Pause
<1>5. Types' /\ UNCHANGED <<pc, why, written, alerts>>
  BY <1>1, <1>3, <1>4, OutsideTypes
<1> QED  BY <1>1, <1>3, <1>5, NobodyWorks

LEMMA ResumeKeeps == ASSUME IInv, NEW c \in Channels, Resume(c) PROVE IInv'
<1>1. UNCHANGED <<now, creds, token, status, replies, written, flags, told, pc, sawHalt, bounds>> /\ NoFault
  BY DEF Resume
<1>2. Types
  BY DEF IInv
<1>3. CredTypes' /\ ColumnTypes' /\ token' = token /\ secret' = secret
  BY <1>1, <1>2 DEF Types, CredTypes, ColumnTypes, creds, Resume
<1>4. LiveHasToken'
  <2>1. \A d \in Channels : mode'[d] = mode[d] \/ (mode'[d] = "live" => token[d] = "active")
    BY <1>2 DEF Types, ColumnTypes, Resume, Allowed
  <2> QED  BY <1>3, <2>1 DEF LiveHasToken, IInv
<1>5. now' \in Times /\ breaks' \in 0 .. MaxBreaks /\ pauses' \in 0 .. MaxPauses
  BY <1>1, <1>2 DEF Types, BoundTypes, bounds
<1>6. Types' /\ UNCHANGED <<pc, why, written, alerts>>
  BY <1>1, <1>3, <1>5, OutsideTypes
<1> QED  BY <1>1, <1>3, <1>4, <1>6, NobodyWorks

LEMMA TickKeeps == ASSUME IInv, Tick PROVE IInv'
<1>1. UNCHANGED <<creds, columns, replies, written, flags, told, pc, sawHalt, bounds>> /\ NoFault
  BY DEF Tick
<1>2. Types
  BY DEF IInv
<1>3. CredTypes' /\ ColumnTypes' /\ LiveHasToken' /\ token' = token /\ secret' = secret
  BY <1>1, ColumnsStay
<1>4. now' \in Times /\ breaks' \in 0 .. MaxBreaks /\ pauses' \in 0 .. MaxPauses
  <2>1. now \in Nat /\ now < MaxTime /\ now' = now + 1
    BY <1>2, Naturals DEF Types, BoundTypes, Tick
  <2>2. now' \in Times
    BY <2>1, Naturals DEF Times
  <2> QED  BY <1>1, <1>2, <2>2 DEF Types, BoundTypes, bounds
<1>5. Types' /\ UNCHANGED <<pc, why, written, alerts>>
  BY <1>1, <1>3, <1>4, OutsideTypes
<1> QED  BY <1>1, <1>3, <1>5, NobodyWorks

LEMMA NextKeepsIInv == IInv /\ [Next]_vars => IInv'
<1> SUFFICES ASSUME IInv, [Next]_vars PROVE IInv'
  OBVIOUS
<1>1. ASSUME NEW m \in Msgs, Step(m) PROVE IInv'
  BY <1>1, BeginKeeps, SendKeeps, RevokeKeeps, PageKeeps, BreakerKeeps, HaltKeeps, TellHaltKeeps,
     TellSuppressedKeeps, ResolveKeeps, ClearKeeps DEF Step
<1>2. ASSUME NEW m \in Msgs, Die(m) \/ CatchUp(m) PROVE IInv'
  BY <1>2, DieKeeps, CatchUpKeeps
<1>3. ASSUME NEW c \in Channels, Repair(c) \/ Pause(c) \/ Resume(c) PROVE IInv'
  BY <1>3, RepairKeeps, PauseKeeps, ResumeKeeps
<1>4. ASSUME NEW broken \in SUBSET Channels, NEW f \in {"meta", "row", "kek"}, Break(broken, f) PROVE IInv'
  BY <1>4, BreakKeeps
<1>5. CASE Tick
  BY <1>5, TickKeeps
<1>6. CASE UNCHANGED vars
  <2>1. UNCHANGED <<creds, columns, replies, written, flags, told, pc, sawHalt, bounds, now>> /\ NoFault
    BY <1>6 DEF vars, NoFault
  <2>2. CredTypes' /\ ColumnTypes' /\ LiveHasToken' /\ token' = token /\ secret' = secret
    BY <2>1, ColumnsStay
  <2>3. now' \in Times /\ breaks' \in 0 .. MaxBreaks /\ pauses' \in 0 .. MaxPauses
    BY <2>1 DEF IInv, Types, BoundTypes, bounds
  <2>4. Types' /\ UNCHANGED <<pc, why, written, alerts>>
    BY <2>1, <2>2, <2>3, OutsideTypes
  <2> QED  BY <2>1, <2>2, <2>4, NobodyWorks
<1> QED  BY <1>1, <1>2, <1>3, <1>4, <1>5, <1>6 DEF Next

(***************************************************************************)
(* The theorems                                                            *)
(***************************************************************************)

\* No step of any job, nor of anybody else, breaks the invariant.
THEOREM Invariance == Spec => []IInv
  BY InitIInv, NextKeepsIInv, PTL DEF Spec

\* Every variable keeps its type, whatever fails.
THEOREM TypeCorrect == Spec => []TypeOK
<1>1. IInv => TypeOK
  BY TypesAreOK DEF IInv
<1> QED  BY <1>1, Invariance, PTL

\* However halts, repairs, pauses, resumes and failed writes interleave, a live channel has an active
\* token (0065_billing.sql, live_requires_active_token).
THEOREM LiveToken == Spec => []LiveHasToken
<1>1. IInv => LiveHasToken
  BY DEF IInv
<1> QED  BY <1>1, Invariance, PTL

\* A channel whose token reads "error" failed on its own credential, and the page that says so was
\* raised or is being raised, whatever the other channels and the platform's key did (breaker.ts).
THEOREM HaltEarned == Spec => []HaltIsEarned
<1>1. IInv => HaltIsEarned
  BY DEF IInv, EvidenceInv, Paged, OwnKinds, HaltIsEarned
<1> QED  BY <1>1, Invariance, PTL

(***************************************************************************)
(* What was earned is told                                                 *)
(***************************************************************************)

\* The newest replies of a channel that all failed on its own credential: the streak, where the
\* platform's key failed under none of them.
OwnFailed(m) == row[m] = "failed" /\ why[m] \in {"row", "revoked"}
Clean(c) == {i \in DOMAIN made[c] : \A j \in i .. Len(made[c]) : OwnFailed(Attempt(c, j))}

Said(c, kind) == \E a \in alerts : a.chan = c /\ a.kind = kind
HaltTold(c) == Said(c, "halt")
DeadTold(c) == Said(c, "190")

\* A job on its way to the breaker after an own failure, or from it to the row that says so.
Due(m) ==
    \/ pc[m] \in {"halt", "tellHalt", "tellSuppressed"}
    \/ pc[m] = "breaker" /\ why[m] \in {"row", "revoked"}
    \/ pc[m] = "page" /\ why[m] = "row"
HaltDue(c) == \E m \in Msgs : Of(m) = c /\ pc[m] = "tellHalt"
DeadDue(c) == \E m \in Msgs : Of(m) = c /\ pc[m] = "page" /\ why[m] = "190"

StreakTold(c) == suppressed # {} \/ HaltTold(c) \/ \E m \in Msgs : Of(m) = c /\ Due(m)
StruckOut(c) == Cardinality(Clean(c)) >= Strikes

EarnedInv ==
    faults = 0 => \A c \in Channels :
        /\ StruckOut(c) => StreakTold(c)
        /\ token[c] = "error" => HaltTold(c) \/ HaltDue(c)
        /\ token[c] = "revoked" => DeadTold(c) \/ DeadDue(c)

LEMMA CleanIsFinite == ASSUME Types, NEW c \in Channels
                       PROVE  IsFiniteSet(Clean(c)) /\ Cardinality(Clean(c)) \in Nat
<1>1. made[c] \in Seq(1 .. N)
  BY DEF Types, ReplyTypes
<1>2. DOMAIN made[c] = 1 .. Len(made[c]) /\ Len(made[c]) \in Nat
  BY <1>1, LenProperties
<1>3. IsFiniteSet(1 .. Len(made[c]))
  BY <1>2, FS_Interval
<1>4. Clean(c) \in SUBSET (1 .. Len(made[c]))
  BY <1>2 DEF Clean
<1> QED  BY <1>3, <1>4, FS_Subset, FS_CardinalityType

\* No reply is added and none becomes a failure of the channel's own: nobody strikes out.
LEMMA NobodyStrikesOut ==
    ASSUME Types, NEW c \in Channels, made' = made, \A k \in Msgs : Of(k) = c /\ OwnFailed(k)' => OwnFailed(k),
           StruckOut(c)'
    PROVE  StruckOut(c)
<1>1. \A i \in DOMAIN made[c] : \A j \in i .. Len(made[c]) : Attempt(c, j) \in Msgs /\ Of(Attempt(c, j)) = c
  <2>1. made[c] \in Seq(1 .. N)
    BY DEF Types, ReplyTypes
  <2>2. DOMAIN made[c] = 1 .. Len(made[c]) /\ Len(made[c]) \in Nat
    BY <2>1, LenProperties
  <2>3. \A j \in 1 .. Len(made[c]) : made[c][j] \in 1 .. N
    BY <2>1, ElementOfSeq
  <2> QED  BY <2>2, <2>3 DEF Attempt, Msgs, Of
<1>2. \A j : Attempt(c, j)' = Attempt(c, j)
  BY DEF Attempt
<1>3. Clean(c)' \subseteq Clean(c)
  BY <1>1, <1>2 DEF Clean, OwnFailed
<1> DEFINE S == Clean(c)
           T == Clean(c)'
<1>4. IsFiniteSet(S) /\ Cardinality(S) \in Nat /\ T \in SUBSET S
  BY <1>3, CleanIsFinite
<1>5. Cardinality(T) >= Strikes
  BY DEF StruckOut
<1> HIDE DEF S, T
<1>6. IsFiniteSet(T) /\ Cardinality(T) <= Cardinality(S)
  BY <1>4, FS_Subset
<1>7. Cardinality(T) \in Nat
  BY <1>6, FS_CardinalityType
<1>8. Strikes \in Nat
  BY ChannelAssumption
<1>9. Cardinality(S) >= Strikes
  BY <1>4, <1>5, <1>6, <1>7, <1>8
<1> QED  BY <1>9 DEF S, StruckOut

\* Of a step of one job, or of nobody's: what is told stays told, and what is due of the others
\* stays due.
LEMMA EarnedKeeps ==
    ASSUME IInv, EarnedInv, NEW m \in Msgs, alerts \subseteq alerts', suppressed \subseteq suppressed',
           faults' = 0 => faults = 0,
           \A k \in Msgs \ {m} : pc'[k] = pc[k] /\ why'[k] = why[k],
           faults' = 0 /\ Due(m) /\ StruckOut(Of(m)) => StreakTold(Of(m))',
           faults' = 0 /\ pc[m] = "tellHalt" => pc'[m] = "tellHalt" \/ HaltTold(Of(m))',
           faults' = 0 /\ pc[m] = "page" /\ why[m] = "190" =>
               (pc'[m] = "page" /\ why'[m] = "190") \/ DeadTold(Of(m))',
           \A c \in Channels : faults' = 0 /\ StruckOut(c)' => StruckOut(c) \/ StreakTold(c)',
           \A c \in Channels : token'[c] = "error" => token[c] = "error" \/ HaltDue(c)',
           \A c \in Channels : token'[c] = "revoked" => token[c] = "revoked" \/ DeadDue(c)'
    PROVE  EarnedInv'
<1> SUFFICES ASSUME faults' = 0, NEW c \in Channels
             PROVE  /\ StruckOut(c)' => StreakTold(c)'
                    /\ token'[c] = "error" => HaltTold(c)' \/ HaltDue(c)'
                    /\ token'[c] = "revoked" => DeadTold(c)' \/ DeadDue(c)'
  BY DEF EarnedInv
<1>0. /\ StruckOut(c) => StreakTold(c)
      /\ token[c] = "error" => HaltTold(c) \/ HaltDue(c)
      /\ token[c] = "revoked" => DeadTold(c) \/ DeadDue(c)
  BY DEF EarnedInv
<1>1. (HaltTold(c) => HaltTold(c)') /\ (DeadTold(c) => DeadTold(c)')
  BY DEF HaltTold, DeadTold, Said
<1>2. ASSUME StruckOut(c), StreakTold(c) PROVE StreakTold(c)'
  <2>1. CASE suppressed # {}
    BY <2>1 DEF StreakTold
  <2>2. CASE HaltTold(c)
    BY <1>1, <2>2 DEF StreakTold
  <2>3. CASE \E k \in Msgs \ {m} : Of(k) = c /\ Due(k)
    <3>1. PICK k \in Msgs \ {m} : Of(k) = c /\ Due(k)
      BY <2>3
    <3>2. Due(k)'
      BY <3>1 DEF Due
    <3> QED  BY <3>1, <3>2 DEF StreakTold, Of
  <2>4. CASE Of(m) = c /\ Due(m)
    BY <1>2, <2>4
  <2> QED  BY <1>2, <2>1, <2>2, <2>3, <2>4 DEF StreakTold
<1>3. HaltDue(c) => HaltTold(c)' \/ HaltDue(c)'
  BY DEF HaltDue, Of
<1>4. DeadDue(c) => DeadTold(c)' \/ DeadDue(c)'
  BY DEF DeadDue, Of
<1> QED  BY <1>0, <1>1, <1>2, <1>3, <1>4

\* The steps that write no reply and no token, of a job that owes nothing before.
LEMMA IdleKeeps ==
    ASSUME IInv, EarnedInv, NEW m \in Msgs, UNCHANGED replies, token' = token,
           alerts \subseteq alerts', suppressed \subseteq suppressed', Fault \/ NoFault,
           \A k \in Msgs \ {m} : pc'[k] = pc[k],
           faults' = 0 => pc[m] \notin {"page", "breaker", "halt", "tellHalt", "tellSuppressed"}
    PROVE  EarnedInv'
<1>1. faults' = 0 => faults = 0
  BY FaultTypes DEF IInv, Types, BoundTypes
<1>2. why' = why /\ made' = made /\ row' = row
  BY DEF replies
<1>3. \A c \in Channels : StruckOut(c)' => StruckOut(c)
  BY <1>2, NobodyStrikesOut DEF IInv, OwnFailed
<1> QED  BY <1>1, <1>2, <1>3, EarnedKeeps DEF Due

LEMMA BeginEarned == ASSUME IInv, EarnedInv, NEW m \in Msgs, Begin(m) PROVE EarnedInv'
<1> DEFINE c == Of(m)
<1>0. Types /\ c \in Channels /\ m[2] \in 1 .. N /\ m = <<c, m[2]>>
  BY Ofs DEF IInv, Msgs, Of
<1>1. pc[m] \in {"queued", "idle"}
  BY DEF Begin, At, Arrives, IInv, WorkIsWritten
<1>2. Fault \/ NoFault
  BY DEF Begin
<1>3. faults' = 0 => faults = 0
  BY <1>0, <1>2, FaultTypes DEF Types, BoundTypes
<1>4. UNCHANGED <<token, alerts, suppressed, why>>
  BY DEF Begin, columns, told, replies
<1>5. \A k \in Msgs \ {m} : pc'[k] = pc[k]
  <2>1. CASE Done(m)
    BY <1>0, <2>1 DEF Done, Types, JobTypes
  <2>2. CASE pc' = [pc EXCEPT ![m] = "send"]
    BY <1>0, <2>2 DEF Types, JobTypes
  <2> QED  BY <2>1, <2>2 DEF Begin
<1>6. ASSUME NEW d \in Channels, StruckOut(d)' PROVE StruckOut(d)
  <2>1. CASE UNCHANGED replies
    BY <1>0, <1>6, <2>1, NobodyStrikesOut DEF replies, OwnFailed
  <2>2. CASE row' = [row EXCEPT ![m] = "sending"] /\ (made' = made \/ d # c)
    <3>1. \A k \in Msgs : OwnFailed(k)' => OwnFailed(k)
      BY <1>0, <1>4, <2>2 DEF OwnFailed, Types, ReplyTypes
    <3>2. CASE made' = made
      BY <1>0, <1>6, <3>1, <3>2, NobodyStrikesOut
    <3>3. CASE d # c
      <4>1. made'[d] = made[d]
        BY <1>0, <3>3 DEF Begin, replies, Types, ReplyTypes
      <4>2. \A i : Attempt(d, i)' = Attempt(d, i)
        BY <4>1 DEF Attempt
      <4>3. \A i : OwnFailed(Attempt(d, i))' = OwnFailed(Attempt(d, i))
        <5>1. \A i : Attempt(d, i) # m
          BY <1>0, <3>3 DEF Attempt
        <5>2. \A k : k # m => row'[k] = row[k] /\ why'[k] = why[k]
          BY <1>0, <1>4, <2>2 DEF Types, ReplyTypes
        <5> QED  BY <4>2, <5>1, <5>2 DEF OwnFailed
      <4>4. Clean(d)' = Clean(d)
        BY <4>1, <4>3 DEF Clean
      <4> QED  BY <1>6, <4>4 DEF StruckOut
    <3> QED  BY <2>2, <3>2, <3>3
  <2>3. CASE row' = [row EXCEPT ![m] = "sending"] /\ made' = [made EXCEPT ![c] = Append(@, m[2])] /\ d = c
    <3>1. made[c] \in Seq(1 .. N)
      BY <1>0 DEF Types, ReplyTypes
    <3>2. /\ made'[c] = Append(made[c], m[2])
          /\ Len(made'[c]) = Len(made[c]) + 1 /\ made'[c][Len(made[c]) + 1] = m[2] /\ Len(made[c]) \in Nat
          /\ DOMAIN made'[c] = 1 .. Len(made'[c])
      <4> DEFINE S == 1 .. N
                 s == made[c]
      <4>1. s \in Seq(S) /\ m[2] \in S /\ made'[c] = Append(s, m[2])
        BY <1>0, <2>3, <3>1 DEF Types, ReplyTypes
      <4> HIDE DEF S, s
      <4>2. /\ Append(s, m[2]) \in Seq(S) /\ Len(Append(s, m[2])) = Len(s) + 1
            /\ Append(s, m[2])[Len(s) + 1] = m[2]
        BY <4>1, AppendProperties
      <4>3. Len(s) \in Nat /\ DOMAIN Append(s, m[2]) = 1 .. Len(Append(s, m[2]))
        BY <4>1, <4>2, LenProperties
      <4> QED  BY <4>1, <4>2, <4>3 DEF s
    <3>3. (\A j : Attempt(c, j)' = <<c, made'[c][j]>>) /\ row'[m] = "sending"
      BY <1>0, <2>3 DEF Attempt, Types, ReplyTypes
    <3>4. Clean(c)' = {}
      <4>1. ASSUME NEW i \in Clean(c)' PROVE FALSE
        <5> DEFINE L == Len(made'[c])
        <5>1. i \in 1 .. L /\ \A j \in i .. L : OwnFailed(Attempt(c, j))'
          BY <3>2, <4>1 DEF Clean
        <5>2. L \in i .. L /\ <<c, made'[c][L]>> = m
          BY <1>0, <3>2, <5>1
        <5>3. \A j \in i .. L : row'[<<c, made'[c][j]>>] = "failed"
          BY <3>3, <5>1 DEF OwnFailed
        <5> HIDE DEF L
        <5>4. row'[<<c, made'[c][L]>>] = "failed"
          BY <5>2, <5>3
        <5> QED  BY <3>3, <5>2, <5>4
      <4> QED  BY <4>1
    <3>5. Cardinality(Clean(c)') = 0
      BY <3>4, FS_EmptySet
    <3> QED  BY <1>6, <2>3, <3>5, ChannelAssumption DEF StruckOut
  <2> QED  BY <2>1, <2>2, <2>3 DEF Begin
<1> QED  BY <1>1, <1>3, <1>4, <1>5, <1>6, EarnedKeeps DEF Due

LEMMA SendEarned == ASSUME IInv, EarnedInv, NEW m \in Msgs, Send(m) PROVE EarnedInv'
<1> DEFINE a == Answer(Of(m))
           place == IF a = "sent" THEN "resolve"
                    ELSE IF a = "190" THEN "revoke" ELSE IF a = "revoked" THEN "breaker" ELSE "page"
<1>0. Types /\ Of(m) \in Channels /\ pc[m] = "send" /\ NoFault
  BY Ofs DEF IInv, Send, At
<1>1. a \in {"row", "kek", "revoked", "190", "sent"}
  BY <1>0 DEF Answer, Types, CredTypes
<1>2. /\ UNCHANGED <<token, made, alerts, suppressed>> /\ Goto(m, place) /\ faults' = faults
      /\ (a = "sent" => row' = [row EXCEPT ![m] = "sent"])
      /\ (a # "sent" => row' = [row EXCEPT ![m] = "failed"])
      /\ why' = [why EXCEPT ![m] = IF a = "sent" THEN "none" ELSE a]
  BY DEF Send, columns, told, NoFault
<1>3. /\ \A k \in Msgs \ {m} : pc'[k] = pc[k] /\ why'[k] = why[k] /\ row'[k] = row[k]
      /\ pc'[m] = place /\ why'[m] = (IF a = "sent" THEN "none" ELSE a)
  <2>1. place \in Places
    BY <1>1 DEF Places
  <2>2. pc'[m] = place /\ \A k \in Msgs \ {m} : pc'[k] = pc[k]
    BY <1>0, <1>2, <2>1, OneWorks DEF Types
  <2> QED  BY <1>0, <1>2, <2>2 DEF Types, ReplyTypes
<1>4. ASSUME NEW d \in Channels, StruckOut(d)' PROVE StruckOut(d) \/ StreakTold(d)'
  <2>1. CASE d = Of(m) /\ a \in {"row", "revoked"}
    <3>1. Due(m)'
      BY <1>3, <2>1 DEF Due
    <3> QED  BY <2>1, <3>1 DEF StreakTold, Of
  <2>2. CASE d # Of(m) \/ a \notin {"row", "revoked"}
    <3>1. \A k \in Msgs : Of(k) = d /\ OwnFailed(k)' => OwnFailed(k)
      BY <1>1, <1>3, <2>2 DEF OwnFailed, Of
    <3> QED  BY <1>0, <1>2, <1>4, <3>1, NobodyStrikesOut
  <2> QED  BY <2>1, <2>2
<1> HIDE DEF place, a
<1> QED  BY <1>0, <1>2, <1>3, <1>4, EarnedKeeps DEF Due

LEMMA RevokeEarned == ASSUME IInv, EarnedInv, NEW m \in Msgs, Revoke(m) PROVE EarnedInv'
<1> DEFINE c == Of(m)
<1>0. Types /\ c \in Channels /\ pc[m] = "revoke" /\ (Fault \/ NoFault) /\ why[m] = "190"
  BY Ofs DEF IInv, Revoke, At, CauseInv, Cause
<1>1. faults' = 0 => faults = 0
  BY <1>0, FaultTypes DEF Types, BoundTypes
<1>2. /\ UNCHANGED <<alerts, suppressed, row, why, made>> /\ Goto(m, "page")
      /\ token' = token \/ token' = [token EXCEPT ![c] = "revoked"]
  BY DEF Revoke, told, replies, columns, HaltOutbound
<1>3. pc'[m] = "page" /\ \A k \in Msgs \ {m} : pc'[k] = pc[k]
  <2>1. "page" \in Places
    BY DEF Places
  <2> QED  BY <1>0, <1>2, <2>1, OneWorks DEF Types
<1>4. DeadDue(c)'
  BY <1>0, <1>2, <1>3 DEF DeadDue, Of
<1>5. \A d \in Channels : StruckOut(d)' => StruckOut(d)
  BY <1>0, <1>2, NobodyStrikesOut DEF OwnFailed
<1>6. /\ \A d \in Channels : token'[d] = "error" => token[d] = "error"
      /\ \A d \in Channels : token'[d] = "revoked" => token[d] = "revoked" \/ DeadDue(d)'
  BY <1>0, <1>2, <1>4 DEF Types, ColumnTypes
<1> HIDE DEF c
<1> QED  BY <1>0, <1>1, <1>2, <1>3, <1>5, <1>6, EarnedKeeps DEF Due

\* A row raised without a failed call is among the alerts, now or from before.
LEMMA RaiseTells ==
    ASSUME Types, NEW c, NEW kind, Raise(c, kind, TRUE) \/ Raise(c, kind, FALSE)
    PROVE  alerts \subseteq alerts' /\ suppressed' = suppressed /\ Said(c, kind)'
<1> DEFINE new == [chan |-> c, kind |-> kind, at |-> now]
<1>1. CASE (\E a \in alerts : a.chan = c /\ a.kind = kind) /\ UNCHANGED told
  BY <1>1 DEF told, Said
<1>2. CASE alerts' = alerts \cup {new} /\ suppressed' = suppressed
  <2>1. new.chan = c /\ new.kind = kind
    OBVIOUS
  <2> HIDE DEF new
  <2> QED  BY <1>2, <2>1 DEF Said
<1>3. open \subseteq alerts
  BY DEF Types, ToldTypes
<1> QED  BY <1>1, <1>2, <1>3 DEF Raise, Raised

\* Where nothing failed so far, the last call did not.
LEMMA NothingFailed == ASSUME Types, faults' = 0 PROVE ~Fault
<1>1. faults \in Nat
  BY Naturals DEF Types, BoundTypes
<1> QED  BY <1>1 DEF Fault

LEMMA PageEarned == ASSUME IInv, EarnedInv, NEW m \in Msgs, Page(m) PROVE EarnedInv'
<1>0. Types /\ Of(m) \in Channels /\ pc[m] = "page" /\ (Fault \/ NoFault)
  BY Ofs DEF IInv, Page, At, RaiseOrFail
<1>1. faults' = 0 => faults = 0
  BY <1>0, FaultTypes DEF Types, BoundTypes
<1>2. UNCHANGED <<token, row, why, made>>
  BY DEF Page, columns, replies
<1>3. alerts \subseteq alerts' /\ suppressed \subseteq suppressed'
  BY <1>0, RaiseTells DEF Page, RaiseOrFail, told
<1>4. (why[m] = "190" => pc'[m] = "idle") /\ (why[m] # "190" => pc'[m] = "breaker")
      /\ \A k \in Msgs \ {m} : pc'[k] = pc[k]
  <2>1. "breaker" \in Places /\ (Goto(m, "breaker") \/ Done(m))
    BY DEF Places, Page
  <2>2. (Goto(m, "breaker") => pc'[m] = "breaker") /\ (Done(m) => pc'[m] = "idle")
        /\ \A k \in Msgs \ {m} : pc'[k] = pc[k]
    BY <1>0, <2>1, OneWorks DEF Types
  <2> QED  BY <2>2 DEF Page
<1>5. \A d \in Channels : StruckOut(d)' => StruckOut(d)
  BY <1>0, <1>2, NobodyStrikesOut DEF OwnFailed
<1>6. Due(m) => StreakTold(Of(m))'
  <2>1. Due(m) => Due(m)'
    BY <1>0, <1>2, <1>4 DEF Due
  <2> QED  BY <2>1 DEF StreakTold, Of
<1>7. ASSUME faults' = 0, why[m] = "190" PROVE DeadTold(Of(m))'
  <2>1. Raise(Of(m), "190", TRUE)
    BY <1>0, <1>7, NothingFailed DEF Page, RaiseOrFail
  <2>2. Said(Of(m), "190")'
    BY <1>0, <2>1, RaiseTells
  <2> QED  BY <2>2 DEF DeadTold
<1> QED  BY <1>0, <1>1, <1>2, <1>3, <1>4, <1>5, <1>6, <1>7, EarnedKeeps

LEMMA BreakerEarned == ASSUME IInv, EarnedInv, NEW m \in Msgs, Breaker(m) PROVE EarnedInv'
<1> DEFINE c == Of(m)
<1>0. Types /\ c \in Channels /\ pc[m] = "breaker" /\ (Fault \/ NoFault)
  BY Ofs DEF IInv, Breaker, At
<1>1. faults' = 0 => faults = 0
  BY <1>0, FaultTypes DEF Types, BoundTypes
<1>2. UNCHANGED <<token, alerts, suppressed, row, why, made>>
  BY DEF Breaker, columns, replies, told
<1>3. \A d \in Channels : StruckOut(d)' => StruckOut(d)
  BY <1>0, <1>2, NobodyStrikesOut DEF OwnFailed
<1>4. /\ \A k \in Msgs \ {m} : pc'[k] = pc[k]
      /\ Goto(m, "halt") => pc'[m] = "halt"
      /\ Goto(m, "tellSuppressed") => pc'[m] = "tellSuppressed"
  <2>1. {"halt", "tellSuppressed"} \subseteq Places
    BY DEF Places
  <2> QED  BY <1>0, <2>1, OneWorks DEF Breaker, Types
\* The streak the breaker counts passes over the platform's failures, so it is no shorter.
<1>5. StruckOut(c) => Streak(c) >= Strikes
  <2> DEFINE R == {i \in DOMAIN made[c] : /\ why[Attempt(c, i)] \notin NotThisChannel
                                          /\ \A j \in i .. Len(made[c]) : Credential(Attempt(c, j))}
             S == Clean(c)
  <2>1. made[c] \in Seq(1 .. N)
    BY <1>0 DEF Types, ReplyTypes
  <2>2. DOMAIN made[c] = 1 .. Len(made[c]) /\ Len(made[c]) \in Nat
    BY <2>1, LenProperties
  <2>3. IsFiniteSet(1 .. Len(made[c]))
    BY <2>2, FS_Interval
  <2>4. R \in SUBSET (1 .. Len(made[c]))
    BY <2>2
  <2>5. S \in SUBSET R
    <3> SUFFICES ASSUME NEW i \in Clean(c) PROVE i \in R
      OBVIOUS
    <3>1. i \in 1 .. Len(made[c]) /\ \A j \in i .. Len(made[c]) : OwnFailed(Attempt(c, j))
      BY <2>2 DEF Clean
    <3>2. i \in i .. Len(made[c])
      BY <2>2, <3>1
    <3> QED  BY <2>2, <3>1, <3>2 DEF OwnFailed, Credential, Codes, NotThisChannel
  <2>6. Streak(c) = Cardinality(R)
    BY DEF Streak
  <2>7. StruckOut(c) <=> Cardinality(S) >= Strikes
    BY DEF StruckOut
  <2> HIDE DEF R, S
  <2>8. IsFiniteSet(R)
    BY <2>3, <2>4, FS_Subset
  <2>9. Cardinality(S) <= Cardinality(R) /\ IsFiniteSet(S)
    BY <2>5, <2>8, FS_Subset
  <2>10. Cardinality(R) \in Nat /\ Cardinality(S) \in Nat /\ Strikes \in Nat
    BY <2>8, <2>9, FS_CardinalityType, ChannelAssumption
  <2> QED  BY <2>6, <2>7, <2>9, <2>10
<1>6. ASSUME faults' = 0, Due(m), StruckOut(c) PROVE StreakTold(c)'
  <2>1. ~Fault /\ why[m] \notin NotThisChannel
    BY <1>0, <1>6, NothingFailed DEF Due, NotThisChannel
  <2>2. pc'[m] \in {"halt", "tellSuppressed"}
    BY <1>4, <1>5, <1>6, <2>1 DEF Breaker
  <2>3. Due(m)'
    BY <2>2 DEF Due
  <2> QED  BY <2>3 DEF StreakTold, Of
<1> HIDE DEF c
<1> QED  BY <1>0, <1>1, <1>2, <1>3, <1>4, <1>6, EarnedKeeps DEF c

LEMMA HaltDueEarned == ASSUME IInv, EarnedInv, NEW m \in Msgs, Halt(m) PROVE EarnedInv'
<1> DEFINE c == Of(m)
<1>0. Types /\ c \in Channels /\ pc[m] = "halt" /\ (Fault \/ NoFault)
  BY Ofs DEF IInv, Halt, At
<1>1. faults' = 0 => faults = 0
  BY <1>0, FaultTypes DEF Types, BoundTypes
<1>2. UNCHANGED <<alerts, suppressed, row, why, made>>
  BY DEF Halt, replies, told
<1>3. \A d \in Channels : StruckOut(d)' => StruckOut(d)
  BY <1>0, <1>2, NobodyStrikesOut DEF OwnFailed
<1>4. /\ \A k \in Msgs \ {m} : pc'[k] = pc[k]
      /\ Goto(m, "tellHalt") => pc'[m] = "tellHalt"
  <2>1. "tellHalt" \in Places
    BY DEF Places
  <2> QED  BY <1>0, <2>1, OneWorks DEF Halt, Types
<1>5. CASE token' = [token EXCEPT ![c] = "error"] /\ Goto(m, "tellHalt")
  <2>1. pc'[m] = "tellHalt"
    BY <1>4, <1>5
  <2>2. HaltDue(c)' /\ StreakTold(c)'
    BY <2>1 DEF HaltDue, StreakTold, Due, Of
  <2>3. /\ \A d \in Channels : token'[d] = "error" => token[d] = "error" \/ HaltDue(d)'
        /\ \A d \in Channels : token'[d] = "revoked" => token[d] = "revoked"
    BY <1>0, <1>5, <2>2 DEF Types, ColumnTypes
  <2> HIDE DEF c
  <2> QED  BY <1>0, <1>1, <1>2, <1>3, <1>4, <2>2, <2>3, EarnedKeeps DEF c
<1>6. CASE UNCHANGED token /\ Fault
  <2>1. faults' # 0
    BY <1>0, <1>6, NothingFailed
  <2> QED  BY <2>1 DEF EarnedInv
<1> QED  BY <1>5, <1>6 DEF Halt

LEMMA TellHaltEarned == ASSUME IInv, EarnedInv, NEW m \in Msgs, TellHalt(m) PROVE EarnedInv'
<1>0. Types /\ Of(m) \in Channels /\ pc[m] = "tellHalt" /\ (Fault \/ NoFault) /\ "idle" \in Places
  BY Ofs DEF IInv, TellHalt, At, RaiseOrFail, Places
<1>1. faults' = 0 => faults = 0
  BY <1>0, FaultTypes DEF Types, BoundTypes
<1>2. UNCHANGED <<token, row, why, made>>
  BY DEF TellHalt, columns, replies
<1>3. alerts \subseteq alerts' /\ suppressed \subseteq suppressed'
  BY <1>0, RaiseTells DEF TellHalt, RaiseOrFail, told
<1>4. \A k \in Msgs \ {m} : pc'[k] = pc[k]
  BY <1>0, OneWorks DEF TellHalt, Types
<1>5. \A d \in Channels : StruckOut(d)' => StruckOut(d)
  BY <1>0, <1>2, NobodyStrikesOut DEF OwnFailed
<1>6. ASSUME faults' = 0 PROVE HaltTold(Of(m))'
  <2>1. Raise(Of(m), "halt", FALSE)
    BY <1>0, <1>6, NothingFailed DEF TellHalt, RaiseOrFail
  <2>2. Said(Of(m), "halt")'
    BY <1>0, <2>1, RaiseTells
  <2> QED  BY <2>2 DEF HaltTold
<1>7. faults' = 0 => StreakTold(Of(m))'
  BY <1>6 DEF StreakTold, Of
<1> QED  BY <1>0, <1>1, <1>2, <1>3, <1>4, <1>5, <1>6, <1>7, EarnedKeeps

LEMMA TellSuppressedEarned == ASSUME IInv, EarnedInv, NEW m \in Msgs, TellSuppressed(m) PROVE EarnedInv'
<1>0. Types /\ Of(m) \in Channels /\ pc[m] = "tellSuppressed" /\ (Fault \/ NoFault) /\ "idle" \in Places
  BY Ofs DEF IInv, TellSuppressed, At, Places
<1>1. faults' = 0 => faults = 0
  BY <1>0, FaultTypes DEF Types, BoundTypes
<1>2. UNCHANGED <<token, alerts, row, why, made>> /\ suppressed \subseteq suppressed'
  BY DEF TellSuppressed, columns, replies
<1>3. \A k \in Msgs \ {m} : pc'[k] = pc[k]
  BY <1>0, OneWorks DEF TellSuppressed, Types
<1>4. \A d \in Channels : StruckOut(d)' => StruckOut(d)
  BY <1>0, <1>2, NobodyStrikesOut DEF OwnFailed
<1>5. faults' = 0 => StreakTold(Of(m))'
  BY <1>0, NothingFailed DEF TellSuppressed, StreakTold
<1> QED  BY <1>0, <1>1, <1>2, <1>3, <1>4, <1>5, EarnedKeeps

LEMMA RestEarned ==
    ASSUME IInv, EarnedInv, NEW m \in Msgs, Resolve(m) \/ Clear(m) \/ Die(m) \/ CatchUp(m)
    PROVE  EarnedInv'
<1>1. UNCHANGED <<token, replies, alerts, suppressed>> /\ (Fault \/ NoFault)
  BY DEF Resolve, Clear, Die, CatchUp, told, columns
<1>2. \A k \in Msgs \ {m} : pc'[k] = pc[k]
  <2>1. \E place \in Places : Goto(m, place) \/ Done(m)
    BY DEF Resolve, Clear, Die, CatchUp, Places
  <2> QED  BY <2>1, OneWorks DEF IInv, Types
<1>3. faults' = 0 => pc[m] \notin {"page", "breaker", "halt", "tellHalt", "tellSuppressed"}
  BY NothingFailed DEF Resolve, Clear, Die, CatchUp, At, IInv
<1> QED  BY <1>1, <1>2, <1>3, IdleKeeps

LEMMA NobodyEarned ==
    ASSUME IInv, EarnedInv, UNCHANGED <<replies, told, pc>>, NoFault,
           \A c \in Channels : token'[c] = token[c] \/ token'[c] = "active"
    PROVE  EarnedInv'
<1> SUFFICES ASSUME faults' = 0, NEW c \in Channels
             PROVE  /\ StruckOut(c)' => StreakTold(c)'
                    /\ token'[c] = "error" => HaltTold(c)' \/ HaltDue(c)'
                    /\ token'[c] = "revoked" => DeadTold(c)' \/ DeadDue(c)'
  BY DEF EarnedInv
<1>1. UNCHANGED <<row, why, made, alerts, suppressed, pc>> /\ faults = 0
  BY DEF replies, told, NoFault
<1>2. StruckOut(c)' => StruckOut(c)
  BY <1>1, NobodyStrikesOut DEF OwnFailed, IInv
<1>3. /\ StreakTold(c)' = StreakTold(c) /\ HaltTold(c)' = HaltTold(c) /\ HaltDue(c)' = HaltDue(c)
      /\ DeadTold(c)' = DeadTold(c) /\ DeadDue(c)' = DeadDue(c)
  BY <1>1 DEF StreakTold, HaltTold, Said, HaltDue, DeadTold, DeadDue, Due, Of
<1> QED  BY <1>1, <1>2, <1>3 DEF EarnedInv

LEMMA NextKeepsEarned == IInv /\ EarnedInv /\ [Next]_vars => EarnedInv'
<1> SUFFICES ASSUME IInv, EarnedInv, [Next]_vars PROVE EarnedInv'
  OBVIOUS
<1>1. ASSUME NEW m \in Msgs, Step(m) PROVE EarnedInv'
  BY <1>1, BeginEarned, SendEarned, RevokeEarned, PageEarned, BreakerEarned, HaltDueEarned, TellHaltEarned,
     TellSuppressedEarned, RestEarned DEF Step
<1>2. ASSUME NEW m \in Msgs, Die(m) \/ CatchUp(m) PROVE EarnedInv'
  BY <1>2, RestEarned
<1>3. ASSUME NEW c \in Channels, Repair(c) \/ Pause(c) \/ Resume(c) PROVE EarnedInv'
  <2>1. \A d \in Channels : token'[d] = token[d] \/ token'[d] = "active"
    BY <1>3 DEF Repair, Pause, Resume, IInv, Types, ColumnTypes
  <2> QED  BY <1>3, <2>1, NobodyEarned DEF Repair, Pause, Resume
<1>4. ASSUME NEW broken \in SUBSET Channels, NEW f \in {"meta", "row", "kek"}, Break(broken, f) PROVE EarnedInv'
  BY <1>4, NobodyEarned DEF Break, columns
<1>5. CASE Tick
  BY <1>5, NobodyEarned DEF Tick, columns
<1>6. CASE UNCHANGED vars
  BY <1>6, NobodyEarned DEF vars, columns, NoFault
<1> QED  BY <1>1, <1>2, <1>3, <1>4, <1>5, <1>6 DEF Next

\* With every call answered, no streak of a channel's own failures and no halt, its own or Meta's,
\* ends in silence once its jobs are done: whatever the cap, the repairs and the other channels do.
THEOREM EarnedTold == Spec => []EarnedIsTold
<1>1. Init => EarnedInv
  <2> SUFFICES ASSUME Init, NEW c \in Channels PROVE ~StruckOut(c)
    BY DEF Init, EarnedInv
  <2>1. Clean(c) = {}
    BY DEF Init, Clean
  <2>2. Cardinality(Clean(c)) = 0
    BY <2>1, FS_EmptySet
  <2> QED  BY <2>2, ChannelAssumption DEF StruckOut
<1>2. IInv /\ EarnedInv => EarnedIsTold
  <2> SUFFICES ASSUME IInv, EarnedInv, faults = 0, NEW c \in Channels, Quiet(c)
               PROVE  /\ Streak(c) >= Strikes /\ PlatformStood(c) => suppressed # {} \/ HaltTold(c)
                      /\ token[c] = "error" => HaltTold(c)
                      /\ token[c] = "revoked" => DeadTold(c)
    BY DEF EarnedIsTold, HaltTold, DeadTold, Said
  <2>1. \A m \in Msgs : Of(m) = c => pc[m] \in {"idle", "queued"}
    BY DEF Quiet, Running
  <2>2. ~HaltDue(c) /\ ~DeadDue(c) /\ \A m \in Msgs : Of(m) = c => ~Due(m)
    BY <2>1 DEF HaltDue, DeadDue, Due
  <2>3. ASSUME Streak(c) >= Strikes, PlatformStood(c) PROVE StruckOut(c)
    <3>1. Clean(c) = {i \in DOMAIN made[c] : /\ why[Attempt(c, i)] \notin NotThisChannel
                                             /\ \A j \in i .. Len(made[c]) : Credential(Attempt(c, j))}
      <4>1. made[c] \in Seq(1 .. N)
        BY DEF IInv, Types, ReplyTypes
      <4>2. DOMAIN made[c] = 1 .. Len(made[c]) /\ Len(made[c]) \in Nat
        BY <4>1, LenProperties
      <4>3. \A i \in DOMAIN made[c] : \A j \in i .. Len(made[c]) : j \in DOMAIN made[c]
        BY <4>2
      <4>4. \A j \in DOMAIN made[c] : OwnFailed(Attempt(c, j)) <=> Credential(Attempt(c, j))
        BY <2>3 DEF OwnFailed, Credential, Codes, PlatformStood, NotThisChannel
      <4> QED  BY <2>3, <4>3, <4>4 DEF Clean, PlatformStood
    <3> QED  BY <2>3, <3>1 DEF StruckOut, Streak
  <2> QED  BY <2>2, <2>3 DEF EarnedInv, StreakTold
<1>3. Spec => []EarnedInv
  BY <1>1, InitIInv, NextKeepsIInv, NextKeepsEarned, PTL DEF Spec
<1> QED  BY <1>2, <1>3, Invariance, PTL
=============================================================================
