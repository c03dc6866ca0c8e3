----------------------- MODULE OutboundDeliveryProofs -----------------------
(***************************************************************************)
(* A reply, from its words to the customer.  Of OutboundDelivery: at most  *)
(* one answer, for any number of deliveries, and the refinement of         *)
(* OneReply.  Of ReplyPipeline, which makes the text that is delivered:    *)
(* what every draft went through, whatever the model wrote.  Of            *)
(* CommentReplies: one line a thread, and no untrue one.                   *)
(*                                                                         *)
(* OneAnswer is not inductive.  What makes it hold is who holds a row: a   *)
(* claimed row has one holder, a text on the wire belongs to a row no      *)
(* claim accepts, and a hand-off line, or a delivery about to draft one,   *)
(* means that the reply was claimed to be refused and reached nobody.      *)
(***************************************************************************)
EXTENDS OutboundDelivery, ReplyPipeline, CommentReplies, SequenceTheorems, WellFoundedInduction, TLAPS

(***************************************************************************)
(* Delivery: one answer                                                    *)
(***************************************************************************)

Holder(j) == pc[j] \in Holding
Marking == {"markSent", "markIndeterminate"}

\* A claimed row is `sending`, and one delivery holds it.
HolderInv ==
    /\ \A j \in Jobs : Holder(j) => row[key[j]] = "sending"
    /\ \A i, j \in Jobs : Holder(i) /\ Holder(j) /\ key[i] = key[j] => i = j

\* A row and its text are written together.
BodyInv == \A k \in Keys : row[k] = "absent" <=> body[k] = NoText

\* What is on the wire is the row's text, and the row is past claiming.
WireInv ==
    \A m \in wire :
        /\ row[m.key] \in {"sending", "sent", "indeterminate"}
        /\ m.text = body[m.key]
        /\ \A j \in Jobs : Holder(j) /\ key[j] = m.key => pc[j] \in Marking

\* The hand-off line is stored, or a delivery works towards it.
LineActive == row["handoff"] # "absent" \/ \E j \in Jobs : key[j] = "handoff"

LineInv ==
    LineActive =>
        /\ row["reply"] \in {"refused", "sending"}
        /\ \A m \in wire : m.key = "handoff"
        /\ \A j \in Jobs : Holder(j) => key[j] = "handoff"

Core == HolderInv /\ BodyInv /\ WireInv /\ LineInv /\ OneAnswer
IInv == TypeOK /\ Core

(***************************************************************************)
(* Type correctness                                                        *)
(***************************************************************************)

LEMMA TypeStep ==
    ASSUME IInv, [Next]_vars
    PROVE  TypeOK'
<1> TypeOK /\ HolderInv /\ BodyInv
  BY DEF IInv, Core
<1> USE DeliveryAssumption DEF TypeOK, Keys, RowStates, Ages, Plans, Places, Holding,
      Stopped, Excuses, Delivered, Goto, End, Retry
<1>1. ASSUME NEW j \in Jobs, Start(j) \/ Redeliver(j) PROVE TypeOK'
  <2> Begin(j)
    BY <1>1 DEF Start, Redeliver
  <2>1. nth' \in [Jobs -> Nat] /\ attempts' \in Nat
    BY DEF Begin
  <2>2. pc' \in [Jobs -> Places] /\ key' \in [Jobs -> Keys] /\ jobAge' \in [Jobs -> Ages]
    BY DEF Begin
  <2> QED
    BY <2>1, <2>2 DEF Begin, env
<1>2. ASSUME NEW j \in Jobs, Persist(j) PROVE TypeOK'
  BY <1>2 DEF Persist, env
<1>3. ASSUME NEW j \in Jobs, Lookup(j) PROVE TypeOK'
  BY <1>3 DEF Lookup, env
<1>4. ASSUME NEW j \in Jobs, LineLookup(j) PROVE TypeOK'
  BY <1>4 DEF LineLookup, env
<1>5. ASSUME NEW j \in Jobs, Resume(j) PROVE TypeOK'
  BY <1>5 DEF Resume, env
<1>6. ASSUME NEW j \in Jobs, ResumeCheck(j) PROVE TypeOK'
  BY <1>6 DEF ResumeCheck, env
<1>7. ASSUME NEW j \in Jobs, AgeCheck(j) PROVE TypeOK'
  BY <1>7 DEF AgeCheck, env
<1>8. ASSUME NEW j \in Jobs, LateCheck(j) PROVE TypeOK'
  BY <1>8 DEF LateCheck, env
<1>9. ASSUME NEW j \in Jobs, Generate(j) PROVE TypeOK'
  <2>1. pc' \in [Jobs -> Places] /\ closed' \subseteq Excuses
    BY <1>9 DEF Generate
  <2>2. plan' \in [Jobs -> Plans]
    BY <1>9 DEF Generate
  <2> QED
    BY <1>9, <2>1, <2>2 DEF Generate, env
<1>10. ASSUME NEW j \in Jobs, Draft(j) PROVE TypeOK'
  <2>1. pc' \in [Jobs -> Places] /\ closed' \subseteq Excuses
    BY <1>10 DEF Draft
  <2>2. row' \in [Keys -> RowStates] /\ body' \in [Keys -> Jobs \cup {NoText}]
    BY <1>10 DEF Draft, DraftOnce
  <2> QED
    BY <1>10, <2>1, <2>2 DEF Draft, env
<1>11. ASSUME NEW j \in Jobs, Claim(j) PROVE TypeOK'
  BY <1>11 DEF Claim, AfterClaim, env
<1>12. ASSUME NEW j \in Jobs, Refuse(j) PROVE TypeOK'
  <2>1. pc' \in [Jobs -> Places] /\ closed' \subseteq Excuses
    BY <1>12 DEF Refuse
  <2>2. row' \in [Keys -> RowStates] /\ key' \in [Jobs -> Keys]
    BY <1>12 DEF Refuse, SettleRow
  <2> QED
    BY <1>12, <2>1, <2>2 DEF Refuse, env
<1>13. ASSUME NEW j \in Jobs, Send(j) PROVE TypeOK'
  <2>1. pc' \in [Jobs -> Places] /\ UNCHANGED closed
    BY <1>13 DEF Send
  <2>2. body[key[j]] \in Jobs
    BY <1>13 DEF Send, Holder, HolderInv, BodyInv
  <2>3. wire' \subseteq Delivered
    BY <1>13, <2>2 DEF Send, Put, HeldText
  <2> QED
    BY <1>13, <2>1, <2>3 DEF Send, env
<1>14. ASSUME NEW j \in Jobs, Mark(j) PROVE TypeOK'
  <2>1. pc' \in [Jobs -> Places] /\ closed' \subseteq Excuses
    BY <1>14 DEF Mark
  <2>2. row' \in [Keys -> RowStates]
    BY <1>14 DEF Mark, SettleRow
  <2> QED
    BY <1>14, <2>1, <2>2 DEF Mark, env
<1>15. ASSUME NEW j \in Jobs, Crash(j) PROVE TypeOK'
  BY <1>15 DEF Crash, env
<1>16. CASE Elapse \/ PersonReplies \/ CustomerWrites
  BY <1>16 DEF Elapse, PersonReplies, CustomerWrites
<1>17. CASE UNCHANGED vars
  BY <1>17 DEF vars, env
<1> QED
  BY <1>1, <1>2, <1>3, <1>4, <1>5, <1>6, <1>7, <1>8, <1>9, <1>10, <1>11, <1>12, <1>13,
     <1>14, <1>15, <1>16, <1>17 DEF Next, Step

(***************************************************************************)
(* Core is inductive                                                       *)
(***************************************************************************)

\* A step of a delivery that touches no row and holds none afterwards keeps Core.
LEMMA QuietStep ==
    ASSUME IInv, TypeOK', NEW j \in Jobs,
           UNCHANGED <<row, body, wire>>,
           \A i \in Jobs \ {j} : pc'[i] = pc[i] /\ key'[i] = key[i],
           pc'[j] \notin Holding,
           key'[j] \in {key[j], "reply"} \/ row["handoff"] # "absent"
    PROVE  Core'
<1> USE DEF IInv, Core, Holder
<1>1. HolderInv'
  BY DEF HolderInv
<1>2. BodyInv'
  BY DEF BodyInv
<1>3. WireInv'
  BY DEF WireInv
<1>4. LineActive' => LineActive
  BY DEF LineActive
<1>5. LineInv'
  BY <1>4 DEF LineInv
<1>6. OneAnswer'
  BY DEF OneAnswer
<1> QED
  BY <1>1, <1>2, <1>3, <1>5, <1>6

\* A holder lets go of its row, to a state the wire agrees with; and if it turns to the
\* hand-off line, the reply was the row it refused.
LEMMA ReleaseStep ==
    ASSUME IInv, TypeOK', NEW j \in Jobs, Holder(j), NEW s \in RowStates \ {"absent"},
           UNCHANGED <<body, wire>>,
           \/ row' = [row EXCEPT ![key[j]] = IF @ = "sending" THEN s ELSE @]
           \/ row' = row,
           pc[j] \in Marking => s \in {"sent", "indeterminate"},
           \A i \in Jobs \ {j} : pc'[i] = pc[i] /\ key'[i] = key[i],
           pc'[j] \notin Holding,
           key'[j] = key[j] \/ (key'[j] = "handoff" /\ pc[j] \notin Marking /\ s = "refused")
    PROVE  Core'
<1> USE DEF IInv, Core, Holder
<1> key[j] \in Keys /\ row \in [Keys -> RowStates]
  BY DEF TypeOK
<1>0. row[key[j]] = "sending"
  BY DEF HolderInv
<1>1. \A i \in Jobs \ {j} : Holder(i) => key[i] # key[j] /\ key[i] \in Keys
  BY DEF HolderInv, TypeOK
<1>2. \A k \in Keys \ {key[j]} : row'[k] = row[k]
  OBVIOUS
<1>3. row'[key[j]] \in {s, "sending"}
  BY <1>0
<1>4. HolderInv'
  BY <1>1, <1>2 DEF HolderInv
<1>5. BodyInv'
  BY <1>0, <1>2, <1>3 DEF BodyInv
<1>6. WireInv'
  <2> SUFFICES ASSUME NEW m \in wire
               PROVE  /\ row'[m.key] \in {"sending", "sent", "indeterminate"}
                      /\ m.text = body[m.key]
                      /\ \A i \in Jobs : Holder(i)' /\ key'[i] = m.key => pc'[i] \in Marking
    BY DEF WireInv
  <2>1. m.key \in Keys
    BY DEF TypeOK, Delivered
  <2>2. row'[m.key] \in {"sending", "sent", "indeterminate"}
    BY <2>1, <1>2, <1>3 DEF WireInv
  <2> QED
    BY <2>2 DEF WireInv
<1>7. LineInv'
  <2> SUFFICES ASSUME LineActive'
               PROVE  /\ row'["reply"] \in {"refused", "sending"}
                      /\ \A m \in wire : m.key = "handoff"
                      /\ \A i \in Jobs : Holder(i)' => key'[i] = "handoff"
    BY DEF LineInv
  <2>1. CASE LineActive
    <3> key[j] = "handoff"
      BY <2>1 DEF LineInv
    <3> QED
      BY <2>1, <1>2 DEF LineInv, Keys
  <2>2. CASE ~LineActive
    <3>1. key[j] = "reply" /\ row["handoff"] = "absent"
      BY <2>2 DEF LineActive, Keys
    <3>2. row'["handoff"] = "absent"
      BY <3>1, <1>2 DEF Keys
    <3>3. key'[j] = "handoff" /\ pc[j] \notin Marking /\ s = "refused"
      BY <2>2, <3>1, <3>2 DEF LineActive
    <3>4. \A m \in wire : m.key = "handoff"
      BY <3>1, <3>3 DEF WireInv, TypeOK, Delivered, Keys
    <3>5. \A i \in Jobs : ~Holder(i)'
      BY <1>1, <3>1, <2>2 DEF LineActive, Keys
    <3> QED
      BY <3>1, <3>3, <3>4, <3>5, <1>3
  <2> QED
    BY <2>1, <2>2
<1>8. OneAnswer'
  BY DEF OneAnswer
<1> QED
  BY <1>4, <1>5, <1>6, <1>7, <1>8

\* draftOnce keeps Core: a first draft stores a text under a key nobody holds.
LEMMA DraftStep ==
    ASSUME IInv, TypeOK', NEW j \in Jobs, Draft(j)
    PROVE  Core'
<1> USE DEF IInv, Core, Holder
<1>0. /\ pc' = [pc EXCEPT ![j] = pc'[j]] /\ pc'[j] \notin Holding
      /\ UNCHANGED <<key, wire>> /\ key[j] \in Keys
  BY DEF Draft, Goto, Retry, TypeOK, Holding
<1>1. CASE UNCHANGED <<row, body>>
  BY <1>0, <1>1, QuietStep DEF TypeOK
<1>2. CASE /\ row[key[j]] = "absent"
           /\ row' = [row EXCEPT ![key[j]] = "draft"]
           /\ body' = [body EXCEPT ![key[j]] = j]
  <2> row \in [Keys -> RowStates] /\ body \in [Keys -> Jobs \cup {NoText}] /\ j # NoText
    BY DeliveryAssumption DEF TypeOK
  <2>1. \A i \in Jobs : Holder(i)' => Holder(i) /\ key[i] # key[j] /\ key[i] \in Keys
    BY <1>0, <1>2 DEF HolderInv, TypeOK
  <2>2. \A m \in wire : m.key \in Keys \ {key[j]}
    BY <1>2 DEF WireInv, TypeOK, Delivered
  <2>3. HolderInv'
    BY <1>0, <1>2, <2>1 DEF HolderInv
  <2>4. BodyInv'
    <3>1. row'[key[j]] = "draft" /\ body'[key[j]] = j
      BY <1>0, <1>2
    <3>2. \A k \in Keys \ {key[j]} : row'[k] = row[k] /\ body'[k] = body[k]
      BY <1>0, <1>2
    <3> QED
      BY <3>1, <3>2 DEF BodyInv
  <2>5. WireInv'
    <3>1. \A m \in wire : row'[m.key] = row[m.key] /\ body'[m.key] = body[m.key]
      BY <1>2, <2>2
    <3>2. \A i \in Jobs : Holder(i)' => Holder(i) /\ pc'[i] = pc[i] /\ key'[i] = key[i]
      BY <1>0, <2>1 DEF TypeOK
    <3> QED
      BY <1>0, <3>1, <3>2 DEF WireInv
  <2>6. LineInv'
    <3>1. LineActive' => LineActive
      BY <1>0, <1>2 DEF LineActive, Keys
    <3>2. LineActive => key[j] = "handoff"
      BY <1>0, <1>2 DEF LineInv, Keys
    <3> QED
      BY <1>0, <1>2, <2>1, <3>1, <3>2 DEF LineInv, Keys
  <2>7. OneAnswer'
    BY <1>0 DEF OneAnswer
  <2> QED
    BY <2>3, <2>4, <2>5, <2>6, <2>7
<1> QED
  BY <1>1, <1>2 DEF Draft, DraftOnce

\* The claim keeps Core: nobody holds a claimable row, and nothing of it is on the wire.
LEMMA ClaimStep ==
    ASSUME IInv, TypeOK', NEW j \in Jobs, Claim(j)
    PROVE  Core'
<1> USE DEF IInv, Core, Holder
<1>0. UNCHANGED <<key, wire, body>> /\ key[j] \in Keys /\ row \in [Keys -> RowStates]
  BY DEF Claim, TypeOK
<1>1. \A i \in Jobs \ {j} : pc'[i] = pc[i]
  BY DEF Claim, Goto, End, Retry, TypeOK
<1>2. CASE UNCHANGED row
  <2> pc'[j] \notin Holding
    BY <1>2, <1>0 DEF Claim, End, Retry, Holding, TypeOK, Claimable
  <2> QED
    BY <1>0, <1>1, <1>2, QuietStep
<1>3. CASE row[key[j]] \in Claimable /\ row' = [row EXCEPT ![key[j]] = "sending"]
  <2>1. \A i \in Jobs : Holder(i) => key[i] # key[j] /\ key[i] \in Keys
    BY <1>3 DEF HolderInv, TypeOK, Claimable
  <2>2. \A m \in wire : m.key \in Keys \ {key[j]}
    BY <1>3 DEF WireInv, TypeOK, Delivered, Claimable
  <2>3. HolderInv'
    BY <1>0, <1>1, <1>3, <2>1 DEF HolderInv
  <2>4. BodyInv'
    BY <1>0, <1>3 DEF BodyInv, Claimable
  <2>5. WireInv'
    BY <1>0, <1>1, <1>3, <2>2 DEF WireInv
  <2>6. LineInv'
    <3>1. LineActive' => LineActive
      BY <1>0, <1>3 DEF LineActive, Keys, Claimable
    <3>2. LineActive => key[j] = "handoff"
      BY <1>0, <1>3 DEF LineInv, Keys, Claimable
    <3> QED
      BY <1>0, <1>1, <1>3, <3>1, <3>2 DEF LineInv, Keys
  <2>7. OneAnswer'
    BY <1>0 DEF OneAnswer
  <2> QED
    BY <2>3, <2>4, <2>5, <2>6, <2>7
<1> QED
  BY <1>2, <1>3 DEF Claim

\* The send keeps Core: its holder is the only one, and the wire is empty when it puts.
LEMMA SendStep ==
    ASSUME IInv, TypeOK', NEW j \in Jobs, Send(j)
    PROVE  Core' /\ (wire' # wire => wire = {} /\ wire' = {[nth |-> nth[j], key |-> key[j], text |-> body[key[j]]]})
<1> USE DEF IInv, Core, Holder
<1> DEFINE letter == [nth |-> nth[j], key |-> key[j], text |-> body[key[j]]]
<1>0. UNCHANGED <<key, row, body>> /\ key[j] \in Keys /\ pc[j] = "send" /\ pc'[j] \in Holding
  BY DEF Send, Goto, TypeOK, Holding
<1>1. \A i \in Jobs \ {j} : pc'[i] = pc[i]
  BY DEF Send, Goto, TypeOK
<1>2. wire' = wire \/ (wire' = wire \cup {letter} /\ pc'[j] \in Marking)
  BY <1>0 DEF Send, Goto, Put, HeldText, TypeOK, Marking
<1>3. wire = {}
  <2> SUFFICES ASSUME NEW m \in wire PROVE FALSE
    OBVIOUS
  <2>1. m.key \in Keys /\ m.key # key[j] /\ row[m.key] # "absent"
    BY <1>0 DEF WireInv, TypeOK, Delivered, Holding, Marking
  <2>2. CASE key[j] = "handoff"
    BY <2>1, <2>2 DEF LineInv, LineActive
  <2>3. CASE key[j] = "reply"
    BY <2>1, <2>3, <1>0 DEF LineInv, LineActive, Keys, Holding
  <2> QED
    BY <1>0, <2>2, <2>3 DEF Keys
<1>4. \A i \in Jobs : Holder(i)' <=> Holder(i)
  BY <1>0, <1>1 DEF Holding
<1>5. HolderInv'
  BY <1>0, <1>4 DEF HolderInv
<1>6. BodyInv'
  BY <1>0 DEF BodyInv
<1>7. WireInv'
  <2>1. CASE wire' = wire
    BY <2>1, <1>3 DEF WireInv
  <2>2. CASE wire' = wire \cup {letter} /\ pc'[j] \in Marking
    <3>1. wire' = {letter}
      BY <2>2, <1>3
    <3>2. \A i \in Jobs : Holder(i)' /\ key'[i] = letter.key => i = j
      BY <1>0, <1>4 DEF HolderInv, Holding
    <3>3. row'[letter.key] = "sending" /\ letter.text = body'[letter.key]
      BY <1>0 DEF HolderInv, Holding
    <3> QED
      BY <2>2, <3>1, <3>2, <3>3 DEF WireInv
  <2> QED
    BY <1>2, <2>1, <2>2
<1>8. LineInv'
  <2>1. LineActive' <=> LineActive
    BY <1>0 DEF LineActive
  <2>2. LineActive => key[j] = "handoff"
    BY <1>0 DEF LineInv, Holding
  <2> QED
    BY <1>0, <1>2, <1>3, <1>4, <2>1, <2>2 DEF LineInv
<1>9. OneAnswer'
  BY <1>2, <1>3 DEF OneAnswer
<1> QED
  BY <1>2, <1>3, <1>5, <1>6, <1>7, <1>8, <1>9

LEMMA CoreStep ==
    ASSUME IInv, [Next]_vars
    PROVE  Core'
<1> TypeOK /\ TypeOK'
  BY TypeStep DEF IInv
<1> USE DEF TypeOK, Holding, Stopped
<1>1. ASSUME NEW j \in Jobs, Start(j) \/ Redeliver(j) PROVE Core'
  BY <1>1, QuietStep DEF Start, Redeliver, Begin
<1>2. ASSUME NEW j \in Jobs, Persist(j) PROVE Core'
  BY <1>2, QuietStep DEF Persist, Goto, End, Retry
<1>3. ASSUME NEW j \in Jobs, Lookup(j) PROVE Core'
  BY <1>3, QuietStep DEF Lookup, Goto, End, Retry
<1>4. ASSUME NEW j \in Jobs, LineLookup(j) PROVE Core'
  <2> row["handoff"] # "absent" \/ UNCHANGED key
    BY <1>4 DEF LineLookup, Claimable
  <2> pc'[j] \notin Holding /\ \A i \in Jobs \ {j} : pc'[i] = pc[i] /\ key'[i] = key[i]
    BY <1>4 DEF LineLookup, Goto, End, Retry
  <2> QED
    BY <1>4, QuietStep DEF LineLookup
<1>5. ASSUME NEW j \in Jobs, Resume(j) PROVE Core'
  BY <1>5, QuietStep DEF Resume, Goto
<1>6. ASSUME NEW j \in Jobs, ResumeCheck(j) PROVE Core'
  BY <1>6, QuietStep DEF ResumeCheck, Goto, Retry
<1>7. ASSUME NEW j \in Jobs, AgeCheck(j) PROVE Core'
  BY <1>7, QuietStep DEF AgeCheck, Goto, End
<1>8. ASSUME NEW j \in Jobs, LateCheck(j) PROVE Core'
  BY <1>8, QuietStep DEF LateCheck, Goto, End
<1>9. ASSUME NEW j \in Jobs, Generate(j) PROVE Core'
  <2> pc'[j] \notin Holding /\ \A i \in Jobs \ {j} : pc'[i] = pc[i]
    BY <1>9 DEF Generate, Goto, End, Retry
  <2> QED
    BY <1>9, QuietStep DEF Generate
<1>10. ASSUME NEW j \in Jobs, Refuse(j) PROVE Core'
  <2>1. Holder(j) /\ pc[j] \notin Marking
    BY <1>10 DEF Refuse, Holder, Marking
  <2>2. pc'[j] \notin Holding /\ \A i \in Jobs \ {j} : pc'[i] = pc[i] /\ key'[i] = key[i]
    BY <1>10 DEF Refuse, Goto, End
  <2>3. key'[j] \in {key[j], "handoff"}
    BY <1>10 DEF Refuse
  <2> QED
    BY <1>10, <2>1, <2>2, <2>3, ReleaseStep DEF Refuse, SettleRow, RowStates
<1>11. ASSUME NEW j \in Jobs, Mark(j) PROVE Core'
  <2>1. Holder(j) /\ UNCHANGED <<key, body, wire>>
    BY <1>11 DEF Mark, Holder
  <2>2. pc'[j] \notin Holding /\ \A i \in Jobs \ {j} : pc'[i] = pc[i]
    BY <1>11 DEF Mark, End, Retry
  <2>3. PICK s \in {"sent", "indeterminate", "failed"} :
            SettleRow(j, s) /\ (pc[j] \in Marking => s \in {"sent", "indeterminate"})
    BY <1>11 DEF Mark, Marking
  <2> QED
    BY <2>1, <2>2, <2>3, ReleaseStep DEF SettleRow, RowStates
<1>12. ASSUME NEW j \in Jobs, Crash(j) PROVE Core'
  BY <1>12, QuietStep DEF Crash, Goto
<1>13. CASE Elapse \/ PersonReplies \/ CustomerWrites \/ UNCHANGED vars
  <2> UNCHANGED <<row, body, wire, pc, key>>
    BY <1>13 DEF Elapse, PersonReplies, CustomerWrites, vars
  <2> QED
    BY DEF IInv, Core, HolderInv, BodyInv, WireInv, LineInv, LineActive, OneAnswer, Holder
<1> QED
  BY <1>1, <1>2, <1>3, <1>4, <1>5, <1>6, <1>7, <1>8, <1>9, <1>10, <1>11, <1>12, <1>13,
     DraftStep, ClaimStep, SendStep DEF Next, Step

LEMMA InitIInv == Init => IInv
<1> SUFFICES ASSUME Init PROVE IInv
  OBVIOUS
<1> USE DEF Init
<1>1. TypeOK
  BY DEF TypeOK, Keys, RowStates, Ages, Plans, Places, Stopped
<1>2. Core
  BY DEF Core, HolderInv, BodyInv, WireInv, LineInv, LineActive, OneAnswer, Holder,
     Holding, Keys
<1> QED
  BY <1>1, <1>2 DEF IInv

LEMMA Inductive == Spec => []IInv
<1>1. IInv /\ [Next]_vars => IInv'
  BY TypeStep, CoreStep DEF IInv
<1> QED
  BY <1>1, InitIInv, PTL DEF Spec

(***************************************************************************)
(* The results                                                             *)
(***************************************************************************)

\* Every variable keeps its type, whatever the failures and however many the deliveries.
THEOREM TypeCorrect == Spec => []TypeOK
<1> IInv => TypeOK
  BY DEF IInv
<1> QED
  BY Inductive, PTL

\* At most one message reaches the customer, over both keys, for any number of deliveries of
\* the job in any order, any failures among them, and deaths anywhere (claim.ts:8-11).
THEOREM AtMostOnce == Spec => []OneAnswer
<1> IInv => OneAnswer
  BY DEF IInv, Core
<1> QED
  BY Inductive, PTL

\* A row whose text reached the customer is past claiming (claim.ts:18-24).
THEOREM DeliveredStays == Spec => []DeliveredNeverReclaimable
<1> IInv => DeliveredNeverReclaimable
  BY DEF IInv, Core, WireInv, DeliveredNeverReclaimable
<1> QED
  BY Inductive, PTL

\* The hand-off line never stands beside a reply that may still go out
\* (reception.ts:1204-1216, 1752).
THEOREM LineInPlaceOfReply == Spec => []LineReplacesReply
<1> IInv => LineReplacesReply
  BY DEF IInv, Core, LineInv, LineActive, LineReplacesReply
<1> QED
  BY Inductive, PTL

\* A message that is stored goes out as it was stored and once: the outbound rows and the
\* wire implement OneReply (claim.ts:5, 8-11).
THEOREM KeepsPromise == Spec => PromiseKept
<1>1. Init => Promise!Init
  BY DEF Init, Promise!Init
<1>2. ASSUME IInv, IInv', [Next]_vars
      PROVE  [Promise!Next]_<<body, wire>>
  <2> USE DEF IInv, Core
  <2>1. ASSUME NEW j \in Jobs, Draft(j) PROVE [Promise!Next]_<<body, wire>>
    <3>1. UNCHANGED wire /\ key[j] \in Keys
      BY <1>2, <2>1 DEF Draft, TypeOK
    <3>2. UNCHANGED body \/ (body[key[j]] = NoText /\ body' = [body EXCEPT ![key[j]] = j])
      BY <1>2, <2>1, <3>1 DEF Draft, DraftOnce, BodyInv
    <3>3. UNCHANGED body \/ Promise!Store(key[j], j)
      BY <3>1, <3>2 DEF Promise!Store
    <3> QED
      BY <3>1, <3>3 DEF Promise!Next
  <2>2. ASSUME NEW j \in Jobs, Send(j) PROVE [Promise!Next]_<<body, wire>>
    <3> DEFINE letter == [nth |-> nth[j], key |-> key[j], text |-> body[key[j]]]
    <3>1. UNCHANGED body /\ key[j] \in Keys /\ body[key[j]] # NoText
      BY <1>2, <2>2 DEF Send, TypeOK, HolderInv, BodyInv, Holder, Holding
    <3>2. CASE wire' = wire
      BY <3>1, <3>2
    <3>3. CASE wire' # wire
      <4>1. wire = {} /\ wire' = {letter}
        BY <1>2, <2>2, <3>3, SendStep
      <4>2. letter.key = key[j] /\ letter.text = body[key[j]]
        OBVIOUS
      <4>3. Promise!Hear(key[j])
        BY <3>1, <4>1, <4>2 DEF Promise!Hear
      <4> QED
        BY <3>1, <4>3 DEF Promise!Next
    <3> QED
      BY <3>2, <3>3
  <2>3. CASE UNCHANGED <<body, wire>>
    BY <2>3
  <2> QED
    BY <1>2, <2>1, <2>2, <2>3 DEF Next, Step, vars, env, Start, Redeliver, Begin, Persist,
       Lookup, LineLookup, Resume, ResumeCheck, AgeCheck, LateCheck, Generate, Claim, Refuse,
       Mark, Crash, Elapse, PersonReplies, CustomerWrites
<1> QED
  BY <1>1, <1>2, Inductive, PTL DEF Spec, PromiseKept, Promise!Spec

(***************************************************************************)
(* The words: what the chain is given and what it makes of it              *)
(***************************************************************************)

Drafts == [body : SUBSET Phrases, by : {"model", "canned", "deterministic"}, alarm : BOOLEAN]

\* The line that hands over stands alone in a reply the model did not write, as a canned row.
OwnGeneric(x) ==
    x.body \cap {"handoff", "callback"} # {} =>
        x.by = "canned" /\ (x.body = {"handoff"} \/ x.body = {"callback"})

\* What becomes of the model's text, or answers before it: its own words may leak an instruction
\* or restate a fact, and nothing else in it is unsendable.
Given(x) ==
    /\ x \in Drafts
    /\ x.by = "model" => x.body \cap Unsendable \subseteq {"leak"}
    /\ x.by # "model" => x.body \cap (Restated \cup Unsendable) = {} /\ "follow" \notin x.body /\ OwnGeneric(x)

\* After the two checks of the model's words, and the question which branch.
Checked(x) ==
    /\ x \in Drafts
    /\ x.body \cap (Restated \cup Unsendable) = {}
    /\ x.by # "model" => "follow" \notin x.body /\ OwnGeneric(x)

\* A reply the bot chose that hands over is recorded as one, in the line this tenant answers to.
Told(x) ==
    x.by # "model" /\ x.body \cap {"handoff", "callback"} # {} =>
        /\ x.alarm
        /\ "inbox" \notin tenant /\ "callback" \in tenant => x.body \cap {"handoff", "callback"} = {"callback"}

\* After the record of hand-offs.
Recorded(x) ==
    /\ x \in Drafts
    /\ x.body \cap (Restated \cup Unsendable) = {}
    /\ x.by # "model" => "follow" \notin x.body
    /\ Told(x)

\* The sales line the model typed stands alone, but for what a row appends.
Alone(x) == "sells" \in tenant /\ "follow" \in x.body => x.body \subseteq {"follow", "appended"}
OfferedOnly(x) == "follow" \in x.body \cap said /\ "sells" \in tenant => x.body \subseteq {"follow", "appended"}

LEMMA PhraseSets ==
    /\ Restated \subseteq Phrases /\ Unsendable \subseteq Phrases /\ Talk \subseteq Phrases
    /\ Facts \subseteq Phrases /\ Lines \subseteq Phrases /\ Pinnable \subseteq Lines
    /\ (Facts \cup Lines) \cap (Restated \cup Unsendable) = {}
    /\ "site" \notin Facts \cup Lines
    /\ Pinnable = {"handoff", "refusal", "unlisted", "booking", "short"}
  BY DEF Phrases, Restated, Unsendable, Talk, Facts, Lines, Pinnable

LEMMA LinesAre ==
    {"ask", "faq", "handoff", "callback", "refusal", "unlisted", "booking", "fixed", "short", "thanks",
     "question", "notice", "image", "correction", "appended", "follow", "which"} = Lines
  BY DEF Lines

LEMMA FactsAre == {"rows", "set", "deposits", "hours"} = Facts
  BY DEF Facts

\* A reply of one of the bot's own rows, or of several.
LEMMA RowsAreGiven ==
    ASSUME NEW b \in SUBSET (Facts \cup Lines), "follow" \notin b, b \cap {"handoff", "callback"} = {},
           NEW w \in {"canned", "deterministic"}
    PROVE  Given(Reply(b, w)) /\ Checked(Reply(b, w))
<1>1. b \subseteq Phrases /\ b \cap (Restated \cup Unsendable) = {}
  BY PhraseSets
<1>2. Reply(b, w) \in Drafts /\ Reply(b, w).body = b /\ Reply(b, w).by = w /\ w # "model"
  BY <1>1 DEF Reply, Drafts
<1> HIDE DEF Reply
<1> QED  BY <1>1, <1>2 DEF Given, Checked, OwnGeneric

LEMMA LineIsGiven ==
    ASSUME NEW l \in Lines, l # "follow"
    PROVE  Given(Reply({l}, "canned")) /\ Checked(Reply({l}, "canned"))
<1>1. {l} \subseteq Phrases /\ {l} \cap (Restated \cup Unsendable) = {}
  BY PhraseSets
<1>2. Reply({l}, "canned") \in Drafts /\ Reply({l}, "canned").body = {l} /\ Reply({l}, "canned").by = "canned"
  BY <1>1 DEF Reply, Drafts
<1>3. {l} \cap {"handoff", "callback"} # {} => {l} = {"handoff"} \/ {l} = {"callback"}
  OBVIOUS
<1>4. "canned" # "model" /\ "follow" \notin {l}
  OBVIOUS
<1> HIDE DEF Reply
<1> QED  BY <1>1, <1>2, <1>3, <1>4 DEF Given, Checked, OwnGeneric

LEMMA GeneralIsOne == \E l \in {"handoff", "callback"} : General = {l} /\ (l = "callback" <=> "callback" \in tenant)
  BY DEF General

LEMMA HandsOver ==
    /\ Given(Reply(General, "canned")) /\ Checked(Reply(General, "canned"))
    /\ Given(Reply(HandOff, "canned"))
<1>1. PICK l \in {"handoff", "callback"} : General = {l}
  BY GeneralIsOne
<1>2. l \in Lines /\ l # "follow" /\ "refusal" \in Lines /\ "refusal" # "follow"
  BY LinesAre
<1>3. HandOff = {"refusal"} \/ HandOff = {l}
  BY <1>1 DEF HandOff
<1> QED  BY <1>1, <1>2, <1>3, LineIsGiven

(***************************************************************************)
(* The chain                                                               *)
(***************************************************************************)

LEMMA UnleakedKeeps ==
    ASSUME NEW x, Given(x)
    PROVE  Given(Unleaked(x)) /\ (Unleaked(x).by = "model" => Unleaked(x).body \cap Unsendable = {})
<1>1. CASE x.by = "model" /\ LeakIn(x.body)
  <2>1. Unleaked(x) = Reply(General, "canned")
    BY <1>1 DEF Unleaked
  <2>2. Reply(General, "canned").by = "canned"
    BY DEF Reply
  <2> QED  BY <2>1, <2>2, HandsOver
<1>2. CASE ~ (x.by = "model" /\ LeakIn(x.body))
  <2>1. Unleaked(x) = x
    BY <1>2 DEF Unleaked
  <2> QED  BY <1>2, <2>1 DEF Given, LeakIn
<1> QED  BY <1>1, <1>2

LEMMA RowsOfAre == \A t : RowsOf(t) \in SUBSET Facts /\ RowsOf(t) \in SUBSET {"rows", "hours"}
  BY FactsAre DEF RowsOf

LEMMA FactualKeeps ==
    ASSUME NEW x, Given(x), x.by = "model" => x.body \cap Unsendable = {}
    PROVE  Checked(Factual(x))
<1>1. CASE x.by # "model" \/ ~ Restates(x.body)
  <2>1. Factual(x) = x
    BY <1>1 DEF Factual
  <2> QED  BY <1>1, <2>1 DEF Given, Checked, Restates
<1>2. CASE ~ (x.by # "model" \/ ~ Restates(x.body)) /\ "guess" \in x.body
  BY <1>2, HandsOver DEF Factual
<1>3. CASE ~ (x.by # "model" \/ ~ Restates(x.body)) /\ "guess" \notin x.body /\ x.body \subseteq Restated
  <2>1. Factual(x) = Reply(RowsOf(x.body), "deterministic")
    BY <1>3 DEF Factual
  <2>2. RowsOf(x.body) \in SUBSET (Facts \cup Lines) /\ "follow" \notin RowsOf(x.body)
        /\ RowsOf(x.body) \cap {"handoff", "callback"} = {}
    BY RowsOfAre
  <2> QED  BY <2>1, <2>2, RowsAreGiven
<1>4. CASE ~ (x.by # "model" \/ ~ Restates(x.body)) /\ "guess" \notin x.body /\ ~ (x.body \subseteq Restated)
  <2>1. Factual(x) = [x EXCEPT !.body = Split(x.body)]
    BY <1>4 DEF Factual
  <2>2. Split(x.body) = (x.body \ Restated) \cup RowsOf(x.body)
    BY DEF Split
  <2>3. x \in Drafts /\ x.by = "model" /\ x.body \cap Unsendable = {}
    BY <1>4 DEF Given
  <2>4. Split(x.body) \subseteq Phrases /\ Split(x.body) \cap (Restated \cup Unsendable) = {}
    BY <2>2, <2>3, RowsOfAre, PhraseSets DEF Drafts
  <2> HIDE DEF Split
  <2>5. Factual(x) \in Drafts /\ Factual(x).by = "model" /\ Factual(x).body = Split(x.body)
    BY <2>1, <2>3, <2>4 DEF Drafts
  <2> QED  BY <2>4, <2>5 DEF Checked
<1> QED  BY <1>1, <1>2, <1>3, <1>4

LEMMA BranchedKeeps ==
    ASSUME NEW x, NEW w, Checked(x) PROVE Checked(Branched(x, w))
<1>1. CASE Branched(x, w) = x
  BY <1>1
<1>2. CASE Branched(x, w) # x
  <2>1. PICK l \in {"handoff", "which"} : Branched(x, w) = Reply({l}, "canned")
    BY <1>2 DEF Branched
  <2>2. l \in Lines /\ l # "follow"
    BY LinesAre
  <2> QED  BY <2>1, <2>2, LineIsGiven
<1> QED  BY <1>1, <1>2

LEMMA AlarmedKeeps ==
    ASSUME NEW x, Checked(x) PROVE Recorded(Alarmed(x))
<1>1. CASE x.body = {"handoff"}
  <2> DEFINE b == IF "inbox" \notin tenant /\ "callback" \in tenant THEN {"callback"} ELSE x.body
  <2>1. Alarmed(x) = [x EXCEPT !.alarm = TRUE, !.body = b]
    BY <1>1 DEF Alarmed
  <2>2. b \subseteq Phrases /\ b \cap (Restated \cup Unsendable) = {} /\ "follow" \notin b
    BY <1>1, LinesAre, PhraseSets
  <2>3. "inbox" \notin tenant /\ "callback" \in tenant => b \cap {"handoff", "callback"} = {"callback"}
    OBVIOUS
  <2> HIDE DEF b
  <2>4. Alarmed(x) \in Drafts /\ Alarmed(x).body = b /\ Alarmed(x).alarm
    BY <2>1, <2>2 DEF Checked, Drafts
  <2> QED  BY <2>2, <2>3, <2>4 DEF Recorded, Told
<1>2. CASE x.body # {"handoff"} /\ x.by = "canned" /\ x.body = {"callback"}
  <2>1. Alarmed(x) = [x EXCEPT !.alarm = TRUE]
    BY <1>2 DEF Alarmed
  <2>2. Alarmed(x) \in Drafts /\ Alarmed(x).body = x.body /\ Alarmed(x).alarm
    BY <2>1 DEF Checked, Drafts
  <2>3. x.body \cap (Restated \cup Unsendable) = {} /\ "follow" \notin x.body /\ x.body \cap {"handoff", "callback"} = {"callback"}
    BY <1>2 DEF Checked
  <2> QED  BY <2>2, <2>3 DEF Recorded, Told
<1>3. CASE x.body # {"handoff"} /\ ~ (x.by = "canned" /\ x.body = {"callback"})
  <2>1. Alarmed(x) = x
    BY <1>3 DEF Alarmed
  <2> QED  BY <1>3, <2>1 DEF Checked, Recorded, OwnGeneric, Told
<1> QED  BY <1>1, <1>2, <1>3

LEMMA MissingAreFacts == \A x : Missing(x) \in SUBSET {"rows", "deposits"}
  BY DEF Missing

LEMMA LedKeeps ==
    ASSUME NEW x, Recorded(x) PROVE Recorded(Led(x))
<1> DEFINE m == Missing(x)
<1>1. m \in SUBSET Facts /\ m \subseteq Phrases /\ m \cap (Restated \cup Unsendable) = {} /\ "follow" \notin m
      /\ m \cap {"handoff", "callback"} = {}
  BY MissingAreFacts, FactsAre, PhraseSets
<1>2. CASE Led(x) = x
  BY <1>2
<1>3. CASE Led(x) = [x EXCEPT !.body = @ \cup m]
  <2> HIDE DEF m
  <2>1. Led(x) \in Drafts /\ Led(x).body = x.body \cup m /\ Led(x).by = x.by /\ Led(x).alarm = x.alarm
    BY <1>1, <1>3 DEF Recorded, Drafts
  <2>2. (x.body \cup m) \cap {"handoff", "callback"} = x.body \cap {"handoff", "callback"}
    BY <1>1
  <2> QED  BY <1>1, <2>1, <2>2 DEF Recorded, Told
<1>4. CASE Led(x) = [x EXCEPT !.body = m, !.by = "deterministic"]
  <2> HIDE DEF m
  <2>1. Led(x) \in Drafts /\ Led(x).body = m
    BY <1>1, <1>4 DEF Recorded, Drafts
  <2> QED  BY <1>1, <2>1 DEF Recorded, Told
<1> QED  BY <1>2, <1>3, <1>4 DEF Led

LEMMA UnsoldKeeps ==
    ASSUME NEW x, Recorded(x)
    PROVE  Recorded(Unsold(x)) /\ ("sells" \in tenant /\ "follow" \in Unsold(x).body => Unsold(x).body = {"follow"})
<1>1. CASE x.by = "model" /\ "sells" \in tenant /\ x.body # {"follow"}
  <2>1. Unsold(x) = [x EXCEPT !.body = @ \ {"follow"}]
    BY <1>1 DEF Unsold
  <2>2. Unsold(x) \in Drafts /\ Unsold(x).body = x.body \ {"follow"} /\ Unsold(x).by = x.by
    BY <2>1 DEF Recorded, Drafts
  <2> QED  BY <1>1, <2>2 DEF Recorded, Told
<1>2. CASE ~ (x.by = "model" /\ "sells" \in tenant /\ x.body # {"follow"})
  <2>1. Unsold(x) = x
    BY <1>2 DEF Unsold
  <2> QED  BY <1>2, <2>1 DEF Recorded
<1> QED  BY <1>1, <1>2

LEMMA CompletedKeeps ==
    ASSUME NEW x, Recorded(x), "sells" \in tenant /\ "follow" \in x.body => x.body = {"follow"}
    PROVE  Recorded(Completed(x)) /\ Alone(Completed(x))
<1> DEFINE b == WithAppended(WithDeposits(x.body))
<1>1. /\ x.body \subseteq b /\ b \subseteq x.body \cup {"deposits", "appended"}
      /\ "booking" \notin x.body => b \subseteq x.body \cup {"appended"}
  BY DEF WithAppended, WithDeposits
<1>2. Completed(x) = [x EXCEPT !.body = b]
  BY DEF Completed
<1>3. {"deposits", "appended"} \subseteq Facts \cup Lines
  BY LinesAre, FactsAre
<1> HIDE DEF b
<1>4. Completed(x) \in Drafts /\ Completed(x).body = b /\ Completed(x).by = x.by /\ Completed(x).alarm = x.alarm
  BY <1>1, <1>2, <1>3, PhraseSets DEF Recorded, Drafts
<1>5. b \cap {"handoff", "callback"} = x.body \cap {"handoff", "callback"} /\ ("follow" \in b <=> "follow" \in x.body)
  BY <1>1
<1>6. b \cap (Restated \cup Unsendable) = {}
  BY <1>1, <1>3, PhraseSets DEF Recorded
<1>7. Recorded(Completed(x))
  BY <1>4, <1>5, <1>6 DEF Recorded, Told
<1>8. Alone(Completed(x))
  BY <1>1, <1>4, <1>5 DEF Alone
<1> QED  BY <1>7, <1>8

LEMMA SoldKeeps ==
    ASSUME NEW x, Recorded(x), Alone(x)
    PROVE  Sold(x) \in Drafts /\ Sold(x).body \cap (Restated \cup Unsendable) = {} /\ Told(Sold(x)) /\ OfferedOnly(Sold(x))
<1>1. CASE Sold(x) = x
  BY <1>1 DEF Recorded, Alone, OfferedOnly
<1>2. CASE Sold(x) # x
  <2>1. Sold(x) = [x EXCEPT !.body = @ \cup {"follow"}] /\ ~ OfferedBefore
    BY <1>2 DEF Sold
  <2>2. "follow" \in Phrases /\ "follow" \notin Restated \cup Unsendable
    BY LinesAre, PhraseSets
  <2>3. Sold(x) \in Drafts /\ Sold(x).body = x.body \cup {"follow"} /\ Sold(x).by = x.by /\ Sold(x).alarm = x.alarm
    BY <2>1, <2>2 DEF Recorded, Drafts
  <2>4. "follow" \notin said
    BY <2>1 DEF OfferedBefore
  <2> QED  BY <2>2, <2>3, <2>4 DEF Recorded, Told, OfferedOnly
<1> QED  BY <1>1, <1>2

\* What may be stored: words that were checked, a hand-off that was told, one offer.
Storable(x) ==
    /\ x \in Drafts
    /\ x.body \cap (Restated \cup Unsendable \cup (IF "site" \in tenant THEN {"site"} ELSE {})) = {}
    /\ Told(x) /\ OfferedOnly(x)

LEMMA OffSiteKeeps ==
    ASSUME NEW x, x \in Drafts, x.body \cap (Restated \cup Unsendable) = {}, Told(x), OfferedOnly(x)
    PROVE  Storable(OffSite(x))
<1> DEFINE b == WithoutOwnSite(x.body)
<1>1. b \subseteq x.body /\ ("site" \in tenant => "site" \notin b) /\ x.body \ {"site"} \subseteq b
  BY DEF WithoutOwnSite
<1>2. CASE b # {}
  <2>1. OffSite(x) = [x EXCEPT !.body = b]
    BY <1>2 DEF OffSite
  <2> HIDE DEF b
  <2>2. OffSite(x) \in Drafts /\ OffSite(x).body = b /\ OffSite(x).by = x.by /\ OffSite(x).alarm = x.alarm
    BY <1>1, <2>1 DEF Drafts
  <2>3. b \cap {"handoff", "callback"} = x.body \cap {"handoff", "callback"}
    BY <1>1
  <2>4. "follow" \in b <=> "follow" \in x.body
    BY <1>1
  <2>5. Told(OffSite(x)) /\ OfferedOnly(OffSite(x))
    BY <1>1, <2>2, <2>3, <2>4 DEF Told, OfferedOnly
  <2>6. b \cap (Restated \cup Unsendable \cup (IF "site" \in tenant THEN {"site"} ELSE {})) = {}
    BY <1>1
  <2> QED  BY <2>2, <2>5, <2>6 DEF Storable
<1>3. CASE b = {}
  <2>1. OffSite(x) = [body |-> General, by |-> "canned", alarm |-> TRUE]
    BY <1>3 DEF OffSite
  <2>2. PICK l \in {"handoff", "callback"} : General = {l} /\ (l = "callback" <=> "callback" \in tenant)
    BY GeneralIsOne
  <2>3. l \in Lines
    BY LinesAre
  <2>4. {l} \subseteq Phrases /\ {l} \cap (Restated \cup Unsendable \cup {"site"}) = {}
    BY <2>3, PhraseSets
  <2>5. OffSite(x) \in Drafts /\ OffSite(x).body = {l} /\ OffSite(x).alarm
    BY <2>1, <2>2, <2>4 DEF Drafts
  <2>6. Told(OffSite(x)) /\ OfferedOnly(OffSite(x))
    BY <2>2, <2>5 DEF Told, OfferedOnly
  <2> QED  BY <2>4, <2>5, <2>6 DEF Storable
<1> QED  BY <1>2, <1>3

\* The whole chain, whatever it is given.
LEMMA ChainKeeps ==
    ASSUME NEW x, Given(x) PROVE Storable(Finished(x))
<1> DEFINE told == Alarmed(Branched(Factual(Unleaked(x)), x.by))
           whole == Completed(Unsold(Led(told)))
           last_ == IF Corrects(whole.body)
                    THEN [whole EXCEPT !.body = {"correction"}, !.by = "deterministic"]
                    ELSE Sold(whole)
<1>1. Checked(Factual(Unleaked(x)))
  BY UnleakedKeeps, FactualKeeps
<1>2. Recorded(told)
  BY <1>1, BranchedKeeps, AlarmedKeeps
<1>3. Recorded(whole) /\ Alone(whole)
  BY <1>2, LedKeeps, UnsoldKeeps, CompletedKeeps
<1>4. Finished(x) = OffSite(last_)
  BY DEF Finished
<1> HIDE DEF told, whole
<1>5. CASE Corrects(whole.body)
  <2>1. last_ = [whole EXCEPT !.body = {"correction"}, !.by = "deterministic"]
    BY <1>5
  <2>2. {"correction"} \subseteq Phrases /\ {"correction"} \cap (Restated \cup Unsendable) = {}
    BY LinesAre, PhraseSets
  <2>3. last_ \in Drafts /\ last_.body = {"correction"}
    BY <1>3, <2>1, <2>2 DEF Recorded, Drafts
  <2> HIDE DEF last_
  <2>4. Told(last_) /\ OfferedOnly(last_)
    BY <2>3 DEF Told, OfferedOnly
  <2> QED  BY <1>4, <2>2, <2>3, <2>4, OffSiteKeeps
<1>6. CASE ~ Corrects(whole.body)
  <2>1. last_ = Sold(whole)
    BY <1>6
  <2> HIDE DEF last_
  <2> QED  BY <1>3, <1>4, <2>1, SoldKeeps, OffSiteKeeps
<1> QED  BY <1>5, <1>6

(***************************************************************************)
(* What the chain is given                                                 *)
(***************************************************************************)

LEMMA PinnedKinds ==
    /\ PinnedKind \in Pinnable \cup {"none"}
    /\ PinnedKind = "none" => "near" \notin text /\ "piece" \notin text
<1>1. {"refusal", "unlisted"} \subseteq Pinnable /\ "none" \notin Pinnable
  BY PhraseSets
<1>2. CASE "near" \in text
  BY <1>1, <1>2 DEF PinnedKind
<1>3. CASE "near" \notin text /\ \E r \in Pinnable : text = {r}
  <2>1. PinnedKind = CHOOSE r \in Pinnable : text = {r}
    BY <1>3 DEF PinnedKind
  <2>2. PinnedKind \in Pinnable
    BY <1>3, <2>1
  <2> QED  BY <1>1, <2>2
<1>4. CASE "near" \notin text /\ ~ \E r \in Pinnable : text = {r}
  BY <1>1, <1>4 DEF PinnedKind
<1> QED  BY <1>2, <1>3, <1>4

LEMMA FaqIsGiven == Given(FaqServed)
<1> DEFINE rows == IF "guess" \in text THEN {} ELSE RowsOf(text)
           w == IF rows = {} THEN "canned" ELSE "deterministic"
<1>1. FaqServed = Reply({"faq"} \cup rows, w)
  BY DEF FaqServed
<1>2. rows \in SUBSET {"rows", "hours"}
  BY RowsOfAre
<1>3. w \in {"canned", "deterministic"}
  OBVIOUS
<1> HIDE DEF rows, w
<1>4. ({"faq"} \cup rows) \in SUBSET (Facts \cup Lines)
  BY <1>2, FactsAre, LinesAre
<1>5. "follow" \notin {"faq"} \cup rows /\ ({"faq"} \cup rows) \cap {"handoff", "callback"} = {}
  BY <1>2
<1> QED  BY <1>1, <1>3, <1>4, <1>5, RowsAreGiven

\* A reply of fact rows alone.
LEMMA FactsAreGiven ==
    ASSUME NEW b \in SUBSET Facts PROVE Given(Reply(b, "deterministic"))
<1>1. b \in SUBSET (Facts \cup Lines)
  OBVIOUS
<1>2. "follow" \notin b /\ b \cap {"handoff", "callback"} = {}
  BY FactsAre
<1>3. "deterministic" \in {"canned", "deterministic"}
  OBVIOUS
<1> QED  BY <1>1, <1>2, <1>3, RowsAreGiven

LEMMA FallbackIsGiven == Given(GuardFallback)
<1>1. CASE "label" \in text /\ DataAnswer # {}
  <2>1. GuardFallback = Reply(DataAnswer, "deterministic")
    BY <1>1 DEF GuardFallback
  <2>2. DataAnswer \in SUBSET Facts
    BY FactsAre DEF DataAnswer
  <2> QED  BY <2>1, <2>2, FactsAreGiven
<1>2. CASE ~ ("label" \in text /\ DataAnswer # {}) /\ "label" \in text /\ QuotedRows # {}
  <2>1. GuardFallback = Reply({CHOOSE r \in QuotedRows : TRUE}, "canned")
    BY <1>2 DEF GuardFallback
  <2>2. PICK l \in QuotedRows : l = CHOOSE r \in QuotedRows : TRUE
    BY <1>2
  <2>3. l \in Pinnable
    BY DEF QuotedRows
  <2>4. l \in Lines /\ l # "follow"
    BY <2>3, PhraseSets
  <2> QED  BY <2>1, <2>2, <2>4, LineIsGiven
<1>3. CASE ~ ("label" \in text /\ DataAnswer # {}) /\ ~ ("label" \in text /\ QuotedRows # {})
  BY <1>3, HandsOver DEF GuardFallback
<1> QED  BY <1>1, <1>2, <1>3

LEMMA PresentedIsGiven ==
    ASSUME text \subseteq Phrases, PinnedKind = "none", ~ Reworded, ~ Guarded PROVE Given(Presented)
<1>1. text \cap Unsendable \subseteq {"leak"}
  <2>1. "near" \notin text /\ "piece" \notin text
    BY PinnedKinds
  <2>2. "reworded" \notin text
    BY DEF Reworded
  <2>3. "label" \notin text /\ "number" \notin text
    BY DEF Guarded
  <2> QED  BY <2>1, <2>2, <2>3 DEF Unsendable
<1>2. ASSUME NEW b \in SUBSET Phrases, b \cap Unsendable \subseteq {"leak"} PROVE Given(Reply(b, "model"))
  <2>1. Reply(b, "model") \in Drafts /\ Reply(b, "model").body = b /\ Reply(b, "model").by = "model"
    BY DEF Reply, Drafts
  <2> QED  BY <1>2, <2>1 DEF Given
<1>3. CASE "guess" \in text
  <2>1. Presented = Reply(text, "model")
    BY <1>3 DEF Presented
  <2> QED  BY <1>1, <1>2, <2>1
<1>4. CASE "guess" \notin text /\ "price" \in text
  <2>1. Presented = Reply({"rows"}, "deterministic")
    BY <1>4 DEF Presented
  <2>2. {"rows"} \in SUBSET Facts
    BY FactsAre
  <2> QED  BY <2>1, <2>2, FactsAreGiven
<1>5. CASE "guess" \notin text /\ "price" \notin text /\ SetQuestion # {}
  <2>1. Presented = Reply(SetQuestion, "deterministic")
    BY <1>5 DEF Presented
  <2>2. SetQuestion \in SUBSET Facts
    BY FactsAre DEF SetQuestion
  <2> QED  BY <2>1, <2>2, FactsAreGiven
<1>6. CASE "guess" \notin text /\ "price" \notin text /\ SetQuestion = {}
  <2> DEFINE b == Unapologetic(text) \cup GroundedPrices
  <2>1. Presented = Reply(b, "model")
    BY <1>6 DEF Presented
  <2>2. Unapologetic(text) \subseteq text /\ GroundedPrices \subseteq {"rows"}
    BY DEF Unapologetic, GroundedPrices
  <2>3. b \in SUBSET Phrases
    BY <2>2, FactsAre, PhraseSets
  <2>4. "rows" \notin Unsendable
    BY DEF Unsendable
  <2>5. b \cap Unsendable \subseteq {"leak"}
    BY <1>1, <2>2, <2>4
  <2> HIDE DEF b
  <2> QED  BY <1>2, <2>1, <2>3, <2>5
<1> QED  BY <1>3, <1>4, <1>5, <1>6

LEMMA JudgedIsGiven ==
    ASSUME text \subseteq Phrases PROVE Given(Judged)
<1>2. Given(Reply({"rows"}, "deterministic"))
  <2>1. {"rows"} \in SUBSET Facts
    BY FactsAre
  <2> QED  BY <2>1, FactsAreGiven
<1>3. Given(Reply({"refusal"}, "canned"))
  <2>1. "refusal" \in Lines /\ "refusal" # "follow"
    BY LinesAre
  <2> QED  BY <2>1, LineIsGiven
<1>4. Given(Reply({"booking"}, "deterministic"))
  <2>1. {"booking"} \in SUBSET (Facts \cup Lines)
    BY LinesAre
  <2>2. "follow" \notin {"booking"} /\ {"booking"} \cap {"handoff", "callback"} = {} /\ "deterministic" \in {"canned", "deterministic"}
    OBVIOUS
  <2> QED  BY <2>1, <2>2, RowsAreGiven
<1>5. ASSUME PinnedKind # "none" PROVE Given(Reply(PinnedLine, "canned"))
  <2>1. CASE PinnedLine = General
    BY <2>1, HandsOver
  <2>2. CASE PinnedLine = {PinnedKind}
    <3>1. PinnedKind \in Lines /\ PinnedKind # "follow"
      BY <1>5, PinnedKinds, PhraseSets
    <3> QED  BY <2>2, <3>1, LineIsGiven
  <2> QED  BY <2>1, <2>2 DEF PinnedLine
<1>6. CASE text = {}
  BY <1>6, HandsOver DEF Judged
<1>7. CASE text # {} /\ Reworded
  BY <1>7, FaqIsGiven DEF Judged
<1>8. CASE text # {} /\ ~ Reworded /\ PinnedKind # "none"
  BY <1>2, <1>3, <1>5, <1>8 DEF Judged
<1>9. CASE text # {} /\ ~ Reworded /\ PinnedKind = "none" /\ Guarded
  BY <1>2, <1>3, <1>9, FallbackIsGiven DEF Judged
<1>10. CASE text # {} /\ ~ Reworded /\ PinnedKind = "none" /\ ~ Guarded
  BY <1>2, <1>3, <1>4, <1>10, PresentedIsGiven DEF Judged
<1> QED  BY <1>6, <1>7, <1>8, <1>9, <1>10

LEMMA PicturedIsGiven ==
    ASSUME Pictured # Nothing PROVE Given(Pictured)
<1>1. PICK l \in {"question", "notice", "image"} : Pictured = Reply({l}, "canned")
  BY DEF Pictured
<1>2. l \in Lines /\ l # "follow"
  BY LinesAre
<1> QED  BY <1>1, <1>2, LineIsGiven

LEMMA FreeIsGiven ==
    ASSUME FreeAnswer # Nothing PROVE Given(FreeAnswer)
<1>1. ASSUME NEW l \in {"thanks", "fixed", "set"} PROVE Given(Reply({l}, "deterministic"))
  <2>1. {l} \in SUBSET (Facts \cup Lines)
    BY LinesAre, FactsAre
  <2>2. "follow" \notin {l} /\ {l} \cap {"handoff", "callback"} = {} /\ "deterministic" \in {"canned", "deterministic"}
    OBVIOUS
  <2> QED  BY <2>1, <2>2, RowsAreGiven
<1>2. Given(Reply({"short"}, "canned"))
  <2>1. "short" \in Lines /\ "short" # "follow"
    BY LinesAre
  <2> QED  BY <2>1, LineIsGiven
<1>3. CASE Thanked
  BY <1>1, <1>3 DEF FreeAnswer
<1>4. CASE ~ Thanked /\ Pictured # Nothing
  BY <1>4, PicturedIsGiven DEF FreeAnswer
<1>5. CASE ~ Thanked /\ Pictured = Nothing /\ msg \cap {"fixed", "set"} # {}
  <2>1. FreeAnswer = Reply({CHOOSE r \in {"fixed", "set"} : r \in msg}, "deterministic")
    BY <1>5 DEF FreeAnswer
  <2>2. (CHOOSE r \in {"fixed", "set"} : r \in msg) \in {"fixed", "set"}
    BY <1>5
  <2>3. (CHOOSE r \in {"fixed", "set"} : r \in msg) \in {"thanks", "fixed", "set"}
    BY <2>2
  <2> QED  BY <1>1, <2>1, <2>3
<1>6. CASE ~ Thanked /\ Pictured = Nothing /\ msg \cap {"fixed", "set"} = {}
  BY <1>2, <1>6, HandsOver DEF FreeAnswer
<1> QED  BY <1>3, <1>4, <1>5, <1>6

\* The photo question is drafted as it stands.
LEMMA QuestionIsStorable ==
    ASSUME NEW x, Given(x), x.body = {"question"} PROVE Storable(x)
<1>1. x \in Drafts
  BY DEF Given
<1>2. {"question"} \cap (Restated \cup Unsendable \cup {"site"}) = {}
  BY DEF Restated, Unsendable
<1>3. Told(x) /\ OfferedOnly(x)
  BY DEF Told, OfferedOnly
<1> QED  BY <1>1, <1>2, <1>3 DEF Storable

(***************************************************************************)
(* The turns                                                               *)
(***************************************************************************)

LEMMA NothingIs == Nothing = [body |-> {}, by |-> "nobody", alarm |-> FALSE]
  BY DEF Nothing, Reply

Outs == [kind : {"none", "drafted", "dropped", "retry"}, body : SUBSET Phrases,
         by : {"nobody", "model", "canned", "deterministic"}, alarm : BOOLEAN]

\* What a turn left: nothing, or what may be stored.
Ended(o) ==
    /\ o \in Outs
    /\ o.body \cap (Restated \cup Unsendable \cup (IF "site" \in tenant THEN {"site"} ELSE {})) = {}
    /\ Told(o) /\ OfferedOnly(o)

LEMMA NothingEnds ==
    ASSUME NEW k \in {"none", "dropped", "retry"} PROVE Ended(Outcome(k, Nothing))
<1>1. Outcome(k, Nothing) = [kind |-> k, body |-> {}, by |-> "nobody", alarm |-> FALSE]
  BY NothingIs DEF Outcome
<1>2. Outcome(k, Nothing) \in Outs /\ Outcome(k, Nothing).body = {}
  BY <1>1 DEF Outs
<1> QED  BY <1>2 DEF Ended, Told, OfferedOnly

LEMMA DraftEnds ==
    ASSUME NEW x, Storable(x) PROVE Ended(Outcome("drafted", x))
<1>1. Outcome("drafted", x) = [kind |-> "drafted", body |-> x.body, by |-> x.by, alarm |-> x.alarm]
  BY DEF Outcome
<1>2. x \in Drafts
  BY DEF Storable
<1>3. Outcome("drafted", x) \in Outs /\ Outcome("drafted", x).body = x.body
      /\ Outcome("drafted", x).by = x.by /\ Outcome("drafted", x).alarm = x.alarm
  BY <1>1, <1>2 DEF Outs, Drafts
<1> HIDE DEF Outcome
<1> QED  BY <1>3 DEF Ended, Storable, Told, OfferedOnly

PipelineInv == PipelineTypeOK /\ Ended(out)

LEMMA EndedWhere ==
    ASSUME NEW o, Ended(o), UNCHANGED <<tenant, said>> PROVE Ended(o)'
  BY DEF Ended, Told, OfferedOnly

LEMMA InitPipeline == PipelineInit => PipelineInv
<1> SUFFICES ASSUME PipelineInit PROVE PipelineInv
  OBVIOUS
<1>1. out = Outcome("none", Nothing)
  BY DEF PipelineInit
<1>2. Ended(out)
  BY <1>1, NothingEnds
<1>3. out \in Outs
  BY <1>2 DEF Ended
<1>4. tenant \in Tenants /\ turns \in 0 .. MaxTurns
  BY InputAssumption DEF PipelineInit
<1> QED  BY <1>2, <1>3, <1>4 DEF PipelineInv, PipelineInit, PipelineTypeOK, Outs

LEMMA EndTurnKeeps ==
    ASSUME PipelineInv, NEW o, Ended(o), EndTurn(o), hold' \in {"none", "held", "released", "called", "settled", "dead"}
    PROVE  PipelineInv'
<1>1. Ended(out)'
  <2>1. Ended(o)'
    BY EndedWhere DEF EndTurn
  <2>2. out' = o
    BY DEF EndTurn
  <2> QED  BY <2>1, <2>2 DEF Ended, Told, OfferedOnly
<1>2. out' \in Outs
  BY DEF EndTurn, Ended
<1> QED  BY <1>1, <1>2 DEF PipelineInv, PipelineTypeOK, EndTurn, Outs

\* A turn that goes on: what it said before stands.
LEMMA GoesOn ==
    ASSUME PipelineInv, UNCHANGED <<tenant, turns, msg, out, last, said, asked, heard>>,
           stage' \in {"call", "settle", "judge"}, text' \in Replies \cup {{}},
           hold' \in {"none", "held", "released", "called", "settled", "dead"}
    PROVE  PipelineInv'
<1>1. Ended(out)'
  BY DEF PipelineInv, Ended, Told, OfferedOnly
<1> QED  BY <1>1 DEF PipelineInv, PipelineTypeOK

LEMMA ReceiveKeeps ==
    ASSUME PipelineInv, NEW m \in Messages, Receive(m) PROVE PipelineInv'
<1>1. out' = Outcome("none", Nothing) /\ Ended(Outcome("none", Nothing))
  BY NothingEnds DEF Receive
<1>2. out' \in Outs /\ out'.body = {}
  <2>1. Outcome("none", Nothing).body = {}
    BY NothingIs DEF Outcome
  <2> QED  BY <1>1, <2>1 DEF Ended
<1>3. Ended(out)'
  BY <1>2 DEF Ended, Told, OfferedOnly
<1>4. out \in Outs /\ out.body \subseteq Phrases
  BY DEF PipelineInv, Ended, Outs
<1>5. turns' \in 0 .. MaxTurns
  BY InputAssumption DEF Receive, PipelineInv, PipelineTypeOK
<1>6. last' \subseteq Phrases /\ said' \subseteq Phrases
  BY <1>4 DEF Receive, PipelineInv, PipelineTypeOK
<1>7. asked' \in BOOLEAN
  <2>1. asked' = ("later" \notin m /\ (asked \/ out.body = {"question"}))
    BY DEF Receive
  <2> QED  BY <2>1, Zenon
<1>8. heard' \subseteq {"branch", "phone", "complains"}
  BY DEF Receive, PipelineInv, PipelineTypeOK
<1> QED  BY <1>2, <1>3, <1>5, <1>6, <1>7, <1>8 DEF Receive, PipelineInv, PipelineTypeOK, Outs

\* A draft is stored as it is, or the store refuses it.
LEMMA StoreDraftKeeps ==
    ASSUME PipelineInv, NEW x, Storable(x), StoreDraft(x),
           hold' \in {"none", "held", "released", "called", "settled", "dead"}
    PROVE  PipelineInv'
  BY DraftEnds, NothingEnds, EndTurnKeeps DEF StoreDraft

LEMMA NextPipeline == PipelineInv /\ [PipelineNext]_turnVars => PipelineInv'
<1> SUFFICES ASSUME PipelineInv, [PipelineNext]_turnVars PROVE PipelineInv'
  OBVIOUS
<1>1. CASE TurnAway
  BY <1>1, NothingEnds, EndTurnKeeps DEF TurnAway
<1>2. CASE Wait
  BY <1>2, NothingEnds, EndTurnKeeps DEF Wait
<1>3. CASE AnswerFree
  <2> DEFINE x == IF FreeAnswer.body = {"question"} THEN FreeAnswer ELSE Finished(FreeAnswer)
  <2>1. Given(FreeAnswer)
    BY <1>3, FreeIsGiven DEF AnswerFree
  <2>2. Storable(x)
    BY <2>1, QuestionIsStorable, ChainKeeps
  <2>3. StoreDraft(x) /\ hold' = "released"
    BY <1>3 DEF AnswerFree
  <2> HIDE DEF x
  <2> QED  BY <2>2, <2>3, StoreDraftKeeps
<1>4. CASE MarkCalled
  <2>1. CASE hold' = "called" /\ stage' = "call" /\ UNCHANGED <<tenant, turns, msg, text, out, last, said, asked, heard>>
    BY <2>1, GoesOn DEF PipelineInv, PipelineTypeOK
  <2>2. CASE hold' = "released" /\ EndTurn(Outcome("retry", Nothing))
    BY <2>2, NothingEnds, EndTurnKeeps
  <2> QED  BY <1>4, <2>1, <2>2 DEF MarkCalled
<1>5. CASE Call
  <2>1. CASE EndTurn(Outcome("retry", Nothing))
    BY <1>5, <2>1, NothingEnds, EndTurnKeeps DEF Call, PipelineInv, PipelineTypeOK
  <2>2. CASE UNCHANGED <<tenant, turns, msg, out, last, said, asked, heard>>
             /\ stage' \in {"settle", "judge"} /\ text' \in Replies \cup {{}}
    BY <1>5, <2>2, GoesOn DEF Call, PipelineInv, PipelineTypeOK
  <2> QED  BY <1>5, <2>1, <2>2 DEF Call
<1>6. CASE Settle
  BY <1>6, GoesOn DEF Settle, PipelineInv, PipelineTypeOK
<1>7. CASE Judge
  <2>1. text \subseteq Phrases
    BY InputAssumption DEF PipelineInv, PipelineTypeOK
  <2>2. Storable(Finished(Judged))
    BY <2>1, JudgedIsGiven, ChainKeeps
  <2>3. StoreDraft(Finished(Judged)) /\ hold' = hold
    BY <1>7 DEF Judge
  <2>4. hold' \in {"none", "held", "released", "called", "settled", "dead"}
    BY <2>3 DEF PipelineInv, PipelineTypeOK
  <2> QED  BY <2>2, <2>3, <2>4, StoreDraftKeeps
<1>8. CASE UNCHANGED turnVars
  <2>1. Ended(out)'
    BY <1>8 DEF turnVars, PipelineInv, Ended, Told, OfferedOnly
  <2> QED  BY <1>8, <2>1 DEF turnVars, PipelineInv, PipelineTypeOK
<1> QED  BY <1>1, <1>2, <1>3, <1>4, <1>5, <1>6, <1>7, <1>8, ReceiveKeeps DEF PipelineNext

LEMMA PipelineInvariant == PipelineSpec => []PipelineInv
  BY InitPipeline, NextPipeline, PTL DEF PipelineSpec

\* No message, setting, reply of the model, refused row or failed call takes a turn out of its type.
THEOREM PipelineTypeCorrect == PipelineSpec => []PipelineTypeOK
<1>1. PipelineInv => PipelineTypeOK
  BY DEF PipelineInv
<1> QED  BY <1>1, PipelineInvariant, PTL

\* Whatever the model writes and whatever the tenant has set up, no reply restates a fact in the
\* model's words, says what nobody approved or leads a visitor off the site they are on
\* (handle.ts finish).  Of the outbound guard's blocked topics it says nothing.
THEOREM WordsAlwaysChecked == PipelineSpec => []WordsAreChecked
<1>1. PipelineInv => WordsAreChecked
  BY DEF PipelineInv, Ended, WordsAreChecked
<1> QED  BY <1>1, PipelineInvariant, PTL

\* A reply by which the bot hands over is recorded as a hand-off, and where nobody reads an inbox
\* it asks for a number, whichever gate, guard or rule chose it.
THEOREM HandOffsAreTold == PipelineSpec => []GenericIsTold
<1>1. PipelineInv => GenericIsTold
  <2>1. ASSUME PipelineInv, out.by \in {"canned", "deterministic"}, out.body \cap {"handoff", "callback"} # {}
        PROVE out.alarm /\ ("inbox" \notin tenant /\ "callback" \in tenant => out.body \cap {"handoff", "callback"} = {"callback"})
    BY <2>1 DEF PipelineInv, Ended, Told
  <2> QED  BY <2>1 DEF GenericIsTold
<1> QED  BY <1>1, PipelineInvariant, PTL

\* In a conversation of any length a follow-up already offered is in no later reply that says
\* anything else, whatever the model repeats of it.
THEOREM FollowUpOnce == PipelineSpec => []OfferedOnce
<1>1. PipelineInv => OfferedOnce
  BY DEF PipelineInv, Ended, OfferedOnly, OfferedOnce
<1> QED  BY <1>1, PipelineInvariant, PTL

(***************************************************************************)
(* Comments: one reply a thread, and a true one                            *)
(*                                                                         *)
(* Neither property is inductive.  What makes them hold is the row: once   *)
(* tried it is true, what is on the wall is the row's text, and a failed   *)
(* row is not sent again past a notice of it.                              *)
(***************************************************************************)

\* What a job may still have to do, and where it is when something is left.
Orders == {<<>>, <<"public">>, <<"private">>, <<"pair", "public">>, <<"private", "pair", "public">>,
           <<"public", "private">>}
LineNext == {<<"public">>, <<"public", "private">>}
ChatNext == {<<"private">>, <<"private", "pair", "public">>}
AtWork == {"go", "post", "mark"}
Shaped(j) ==
    /\ j.todo \in Orders
    /\ j.pc \in AtWork => j.todo # <<>>
    /\ j.pc \in {"post", "mark"} => Head(j.todo) # "pair"
CommentTyped == CommentTypeOK /\ \A c \in Comments : Shaped(job[c])

\* The line of a comment's thread speaks of no chat, or the chat arrived - where the thread is
\* one person's under one rule.
Truthful(c) == OneRule(Thread[c]) => pub[Thread[c]].body = "general" \/ prv[Author[c]] = "sent"
Tried == {"sending", "sent", "indeterminate", "failed"}
Unsent == {"none", "draft"}

RowOK(c) ==
    /\ OneRule(Thread[c]) =>
         pub[Thread[c]].body = "general" \/ (pub[Thread[c]].body = "claiming" /\ c \in Own)
    /\ pub[Thread[c]].st \in Tried => Truthful(c)
    /\ pub[Thread[c]].st = "failed" => pub[Thread[c]].attempts > 0

\* What a job sends next is true when it comes to it.
WorkOK(c) ==
    /\ job[c].pc # "post" \/ OneRule(Thread[c]) => job[c].knew = {}
    /\ job[c].pc \in AtWork /\ job[c].todo \notin {<<>>, <<"private">>} => pub[Thread[c]].st # "none"
    /\ job[c].pc = "go" /\ job[c].todo \in LineNext => Truthful(c) \/ pub[Thread[c]].st = "refused"
    /\ job[c].pc \in {"post", "mark"} /\ job[c].todo \in LineNext =>
           Truthful(c) /\ pub[Thread[c]].st \notin Unsent
    /\ job[c].pc = "mark" /\ job[c].todo \in ChatNext /\ job[c].answer = "sent" => Author[c] \in got

\* Our line on the wall is the row's, and true.
OnWallOK(t, page) == OneRule(t) =>
    /\ page.knew = {}
    /\ page.ours =>
         /\ page.body = pub[t].body /\ pub[t].st \notin Unsent
         /\ page.body = "claiming" => Author[page.under] \in got

RowInv == \A c \in Comments : RowOK(c)
SentInv == \A p \in People : prv[p] = "sent" => p \in got
WorkInv == \A c \in Comments : WorkOK(c)
WallInv == \A t \in Threads : \A i \in DOMAIN wall[t] : OnWallOK(t, wall[t][i])
CommentInv == CommentTyped /\ RowInv /\ SentInv /\ WorkInv /\ WallInv

(***************************************************************************)
(* What is left to do                                                      *)
(***************************************************************************)

LEMMA OrdersOne ==
    /\ Head(<<"public">>) = "public" /\ Head(<<"private">>) = "private"
    /\ Tail(<<"public">>) = <<>> /\ Tail(<<"private">>) = <<>>
OBVIOUS

LEMMA OrdersTwo ==
    /\ Head(<<"pair", "public">>) = "pair" /\ Head(<<"public", "private">>) = "public"
    /\ Tail(<<"pair", "public">>) = <<"public">> /\ Tail(<<"public", "private">>) = <<"private">>
OBVIOUS

LEMMA OrdersThree ==
    /\ Head(<<"private", "pair", "public">>) = "private"
    /\ Tail(<<"private", "pair", "public">>) = <<"pair", "public">>
OBVIOUS

LEMMA OrdersDiffer ==
    /\ <<>> # <<"public">> /\ <<>> # <<"private">> /\ <<"public">> # <<"private">>
    /\ <<"pair", "public">> \notin {<<>>, <<"public">>, <<"private">>, <<"public", "private">>}
    /\ <<"public", "private">> \notin {<<>>, <<"public">>, <<"private">>}
    /\ <<"private", "pair", "public">> \notin {<<>>, <<"public">>, <<"private">>, <<"public", "private">>,
                                               <<"pair", "public">>}
OBVIOUS

LEMMA JoinOne ==
    ASSUME NEW S, NEW e \in S, NEW s \in Seq(S), NEW u \in Seq(S), Len(u) = Len(s) + 1, u[1] = e,
           \A i \in 1 .. Len(s) : u[i + 1] = s[i]
    PROVE  <<e>> \o s = u
<1>1. <<e>> \in Seq(S) /\ Len(<<e>>) = 1 /\ <<e>>[1] = e /\ Len(s) \in Nat
  OBVIOUS
<1>2. Len(<<e>> \o s) = 1 + Len(s) /\ <<e>> \o s \in Seq(S)
  BY <1>1, ConcatProperties
<1>3. \A i \in 1 .. 1 + Len(s) : (<<e>> \o s)[i] = IF i <= 1 THEN <<e>>[i] ELSE s[i - 1]
  BY <1>1, ConcatProperties
<1>4. ASSUME NEW i \in 1 .. 1 + Len(s) PROVE (<<e>> \o s)[i] = u[i]
  <2>1. CASE i = 1
    BY <2>1, <1>3, <1>1
  <2>2. CASE i # 1
    <3>1. i - 1 \in 1 .. Len(s) /\ i = (i - 1) + 1
      BY <2>2, <1>1
    <3>2. u[i] = s[i - 1]
      BY <3>1
    <3> QED  BY <1>3, <3>2, <2>2, <1>1
  <2> QED  BY <2>1, <2>2
<1> QED  BY <1>2, <1>4, SeqEqual

LEMMA OrdersJoin ==
    /\ <<"private">> \o <<"pair", "public">> = <<"private", "pair", "public">>
    /\ <<"public">> \o <<"private">> = <<"public", "private">>
<1> DEFINE S == {"public", "private", "pair"}
<1>1. <<"public">> \o <<"private">> = <<"public", "private">>
  <2>1. "public" \in S /\ <<"private">> \in Seq(S) /\ <<"public", "private">> \in Seq(S)
    OBVIOUS
  <2>2. Len(<<"private">>) = 1 /\ Len(<<"public", "private">>) = Len(<<"private">>) + 1
    OBVIOUS
  <2>3. <<"public", "private">>[1 + 1] = <<"private">>[1]
    OBVIOUS
  <2>4. \A i \in 1 .. Len(<<"private">>) : <<"public", "private">>[i + 1] = <<"private">>[i]
    BY <2>2, <2>3
  <2> QED  BY <2>1, <2>2, <2>4, JoinOne
<1>2. <<"private">> \o <<"pair", "public">> = <<"private", "pair", "public">>
  <2>1. "private" \in S /\ <<"pair", "public">> \in Seq(S) /\ <<"private", "pair", "public">> \in Seq(S)
    OBVIOUS
  <2>2. Len(<<"pair", "public">>) = 2 /\ Len(<<"private", "pair", "public">>) = Len(<<"pair", "public">>) + 1
    OBVIOUS
  <2>3. <<"private", "pair", "public">>[1 + 1] = <<"pair", "public">>[1]
    OBVIOUS
  <2>4. <<"private", "pair", "public">>[2 + 1] = <<"pair", "public">>[2]
    OBVIOUS
  <2>5. \A i \in 1 .. Len(<<"pair", "public">>) : <<"private", "pair", "public">>[i + 1] = <<"pair", "public">>[i]
    BY <2>2, <2>3, <2>4
  <2> QED  BY <2>1, <2>2, <2>5, JoinOne
<1> QED  BY <1>1, <1>2

LEMMA OrdersAreHalves == Orders \subseteq Seq(Halves)
<1>1. {"public", "private", "pair"} \subseteq Halves
  BY DEF Halves
<1>2. <<>> \in Seq(Halves) /\ <<"public">> \in Seq(Halves) /\ <<"private">> \in Seq(Halves)
  BY <1>1
<1>3. <<"pair", "public">> \in Seq(Halves) /\ <<"public", "private">> \in Seq(Halves)
  BY <1>1
<1>4. <<"private", "pair", "public">> \in Seq(Halves)
  BY <1>1
<1> QED  BY <1>2, <1>3, <1>4 DEF Orders

LEMMA Heads ==
    ASSUME NEW h \in Orders, h # <<>>
    PROVE  /\ Head(h) = "public" <=> h \in LineNext
           /\ Head(h) = "private" <=> h \in ChatNext
           /\ Head(h) = "pair" <=> h = <<"pair", "public">>
           /\ Head(h) \in {"public", "private", "pair"}
           /\ h = <<"pair", "public">> \/ h \in LineNext \/ h \in ChatNext
<1>1. CASE h \in {<<"public">>, <<"private">>}
  BY <1>1, OrdersOne, OrdersDiffer DEF LineNext, ChatNext
<1>2. CASE h \in {<<"pair", "public">>, <<"public", "private">>}
  BY <1>2, OrdersTwo, OrdersDiffer DEF LineNext, ChatNext
<1>3. CASE h = <<"private", "pair", "public">>
  BY <1>3, OrdersThree, OrdersDiffer DEF LineNext, ChatNext
<1> QED  BY <1>1, <1>2, <1>3 DEF Orders

LEMMA Tails ==
    ASSUME NEW h \in Orders, h # <<>>
    PROVE  /\ Tail(h) \in Orders
           /\ h \in LineNext => Tail(h) \in {<<>>, <<"private">>}
           /\ h \in ChatNext => Tail(h) \in {<<>>, <<"pair", "public">>}
           /\ h = <<"private">> => Tail(h) = <<>>
           /\ h = <<"pair", "public">> => Tail(h) = <<"public">>
           /\ Tail(h) \in LineNext => h = <<"pair", "public">>
           /\ Tail(h) \notin {<<>>, <<"private">>} => h \notin {<<>>, <<"private">>}
<1>1. CASE h \in {<<"public">>, <<"private">>}
  BY <1>1, OrdersOne, OrdersDiffer DEF LineNext, ChatNext, Orders
<1>2. CASE h \in {<<"pair", "public">>, <<"public", "private">>}
  BY <1>2, OrdersTwo, OrdersDiffer DEF LineNext, ChatNext, Orders
<1>3. CASE h = <<"private", "pair", "public">>
  BY <1>3, OrdersThree, OrdersDiffer DEF LineNext, ChatNext, Orders
<1> QED  BY <1>1, <1>2, <1>3 DEF Orders

\* What was started is finished in an order that says nothing untrue: the line goes first only if it claims no chat.
LEMMA ResumedIsOrder ==
    ASSUME NEW c \in Comments
    PROVE  /\ ResumeHalves(c) \in Orders
           /\ ResumeHalves(c) \in LineNext => pub[Thread[c]].body # "claiming"
           /\ ResumeHalves(c) \notin {<<>>, <<"private">>} => pub[Thread[c]].st \in Pending
<1> DEFINE open == pub[Thread[c]].st \in Pending
           chat == prv[Author[c]] \in Pending
           claims == pub[Thread[c]].body = "claiming"
<1>1. /\ <<"private">> \o <<"pair", "public">> = <<"private", "pair", "public">>
      /\ <<"public">> \o <<"private">> = <<"public", "private">>
  BY OrdersJoin
<1>2. \A s \in Seq({"public", "private", "pair"}) : s \o <<>> = s /\ <<>> \o s = s
  BY ConcatEmptySeq
<1>3. /\ <<"pair", "public">> \in Seq({"public", "private", "pair"}) /\ <<"public">> \in Seq({"public", "private", "pair"})
      /\ <<"private">> \in Seq({"public", "private", "pair"}) /\ <<>> \in Seq({"public", "private", "pair"})
  OBVIOUS
<1>4. /\ <<>> \o <<"pair", "public">> = <<"pair", "public">> /\ <<"public">> \o <<>> = <<"public">>
      /\ <<>> \o <<"private">> = <<"private">> /\ <<>> \o <<>> = <<>>
  BY <1>2, <1>3
<1>5. ResumeHalves(c) =
        IF open /\ claims THEN (IF chat THEN <<"private", "pair", "public">> ELSE <<"pair", "public">>)
        ELSE IF open THEN (IF chat THEN <<"public", "private">> ELSE <<"public">>)
        ELSE (IF chat THEN <<"private">> ELSE <<>>)
  BY <1>1, <1>4, OrdersDiffer DEF ResumeHalves
<1> HIDE DEF open, chat, claims
<1>6. /\ ResumeHalves(c) \in Orders
      /\ ResumeHalves(c) \in LineNext => open /\ ~ claims
      /\ ResumeHalves(c) \notin {<<>>, <<"private">>} => open
  BY <1>5, OrdersDiffer DEF Orders, LineNext
<1> QED  BY <1>6 DEF open, claims

(***************************************************************************)
(* The job's operators                                                     *)
(***************************************************************************)

Resting(j) == j \in Job /\ j.pc \notin AtWork /\ j.todo = <<>> /\ j.knew = {}
Going(j, h) == j \in Job /\ j.pc = "go" /\ j.todo = h /\ h # <<>>
RestOrGo(j, h) == Resting(j) \/ Going(j, h)

LEMMA NewJobTyped == NewJob \in Job /\ Resting(NewJob)
<1>1. 1 \in 1 .. MaxRuns
  BY CommentAssumption
<1>2. NewJob \in Job
  BY <1>1 DEF NewJob, Job, Answers
<1> QED  BY <1>2 DEF NewJob, Resting, AtWork

LEMMA SettledRests ==
    ASSUME NEW j \in Job
    PROVE  /\ Resting(Settled(j)) /\ Resting([Settled(j) EXCEPT !.pc = "spent"])
           /\ \A k \in Nat : k < MaxRuns /\ k = j.tries =>
                 Resting([NewJob EXCEPT !.tries = j.tries + 1, !.gaveUp = j.gaveUp])
<1>1. j.tries \in 1 .. MaxRuns /\ j.gaveUp \in SUBSET {"public", "private"} /\ MaxRuns \in Nat
  BY CommentAssumption DEF Job
<1>2. Settled(j) \in Job /\ [Settled(j) EXCEPT !.pc = "spent"] \in Job
  BY <1>1, NewJobTyped DEF Settled, Job
<1>3. j.tries < MaxRuns => [NewJob EXCEPT !.tries = j.tries + 1, !.gaveUp = j.gaveUp] \in Job
  <2>1. j.tries < MaxRuns => j.tries + 1 \in 1 .. MaxRuns
    BY <1>1
  <2> QED  BY <2>1, <1>1, NewJobTyped DEF Job
<1> QED  BY <1>2, <1>3, NewJobTyped DEF Resting, Settled, NewJob, AtWork

LEMMA RedeliveredRests ==
    ASSUME NEW j \in Job
    PROVE  Resting(Redelivered(j))
<1>1. j.tries \in Nat
  BY DEF Job
<1> QED  BY <1>1, SettledRests DEF Redelivered

LEMMA DoingGoes ==
    ASSUME NEW j \in Job, NEW h \in Orders
    PROVE  RestOrGo(Doing(j, h), h) /\ Doing(j, h).knew \in {{}, j.knew}
<1>1. CASE h = <<>>
  BY <1>1, SettledRests DEF Doing, RestOrGo, Resting
<1>2. CASE h # <<>>
  <2>1. h \in Seq(Halves)
    BY OrdersAreHalves
  <2>2. Doing(j, h) = [j EXCEPT !.pc = "go", !.todo = h]
    BY <1>2 DEF Doing
  <2>3. [j EXCEPT !.pc = "go", !.todo = h] \in Job
    BY <2>1 DEF Job
  <2>4. Doing(j, h).pc = "go" /\ Doing(j, h).todo = h /\ Doing(j, h).knew = j.knew
    BY <2>2 DEF Job
  <2> QED  BY <2>2, <2>3, <2>4, <1>2 DEF RestOrGo, Going
<1> QED  BY <1>1, <1>2

LEMMA OnwardGoes ==
    ASSUME NEW j \in Job, j.todo \in Orders, j.todo # <<>>
    PROVE  RestOrGo(Onward(j), Tail(j.todo)) /\ Onward(j).knew = {}
<1> DEFINE k == [j EXCEPT !.knew = {}, !.answer = "none", !.id = 0]
<1>1. k \in Job /\ k.knew = {}
  BY DEF Job, Answers
<1>2. Tail(j.todo) \in Orders
  BY Tails
<1>3. Onward(j) = Doing(k, Tail(j.todo))
  BY DEF Onward
<1> HIDE DEF k
<1> QED  BY <1>1, <1>2, <1>3, DoingGoes

LEMMA LeavesTyped ==
    ASSUME NEW c \in Comments, job[c] \in Job, NEW S \in SUBSET {"public", "private"}
    PROVE  /\ Leaves(c, S) \in Job /\ Leaves(c, S).todo = job[c].todo
           /\ Leaves(c, S).knew = job[c].knew
BY DEF Leaves, Job

LEMMA RestOrGoShaped ==
    ASSUME NEW j, NEW h \in Orders, RestOrGo(j, h)
    PROVE  j \in Job /\ Shaped(j)
BY DEF RestOrGo, Resting, Going, Shaped, AtWork, Orders

LEMMA RestingShaped ==
    ASSUME NEW j, Resting(j)
    PROVE  j \in Job /\ Shaped(j)
BY DEF Resting, Shaped, AtWork, Orders

LEMMA JobSet ==
    ASSUME CommentTyped, NEW c \in Comments, NEW j \in Job, Set(c, j)
    PROVE  /\ job' \in [Comments -> Job] /\ job'[c] = j
           /\ \A d \in Comments \ {c} : job'[d] = job[d]
           /\ Shaped(j) => \A d \in Comments : Shaped(job'[d])
BY DEF CommentTyped, CommentTypeOK, Set

(***************************************************************************)
(* The rows                                                                *)
(***************************************************************************)

LEMMA RowsExist ==
    ASSUME NEW c \in Comments
    PROVE  Thread[c] \in Threads /\ Author[c] \in People
BY DEF Threads, People

\* A step of comment c leaves the other threads' rows alone.
OthersSame(c) == \A t \in Threads \ {Thread[c]} : pub'[t] = pub[t]
RowsTyped == pub \in [Threads -> PublicRow] /\ prv \in [People -> ReplyStates]

LEMMA PublicSets ==
    ASSUME CommentTyped, NEW c \in Comments, NEW st \in ReplyStates, Public(c, st)
    PROVE  /\ RowsTyped' /\ OthersSame(c) /\ prv' = prv
           /\ pub'[Thread[c]].st = st /\ pub'[Thread[c]].body = pub[Thread[c]].body
           /\ pub'[Thread[c]].attempts = pub[Thread[c]].attempts
<1>1. pub \in [Threads -> PublicRow] /\ prv \in [People -> ReplyStates] /\ Thread[c] \in Threads
  BY RowsExist DEF CommentTyped, CommentTypeOK
<1>2. pub' = [pub EXCEPT ![Thread[c]] = [pub[Thread[c]] EXCEPT !.st = st]] /\ prv' = prv
  BY DEF Public
<1>3. [pub[Thread[c]] EXCEPT !.st = st] \in PublicRow
  BY <1>1 DEF PublicRow
<1>4. /\ [pub[Thread[c]] EXCEPT !.st = st].st = st
      /\ [pub[Thread[c]] EXCEPT !.st = st].body = pub[Thread[c]].body
      /\ [pub[Thread[c]] EXCEPT !.st = st].attempts = pub[Thread[c]].attempts
  BY <1>1 DEF PublicRow
<1> QED  BY <1>1, <1>2, <1>3, <1>4 DEF RowsTyped, OthersSame

LEMMA PrivateSets ==
    ASSUME CommentTyped, NEW c \in Comments, NEW st \in ReplyStates, Private(c, st)
    PROVE  /\ RowsTyped' /\ pub' = pub /\ OthersSame(c)
           /\ prv'[Author[c]] = st /\ \A p \in People \ {Author[c]} : prv'[p] = prv[p]
BY RowsExist DEF CommentTyped, CommentTypeOK, Private, RowsTyped, OthersSame

LEMMA FailedSets ==
    ASSUME CommentTyped, NEW c \in Comments, Failed(c)
    PROVE  /\ RowsTyped' /\ OthersSame(c)
           /\ Half(c) = "public" =>
                /\ prv' = prv /\ pub'[Thread[c]].st = "failed"
                /\ pub'[Thread[c]].body = pub[Thread[c]].body /\ pub'[Thread[c]].attempts > 0
           /\ Half(c) # "public" => Private(c, "failed")
<1>1. pub \in [Threads -> PublicRow] /\ prv \in [People -> ReplyStates] /\ Thread[c] \in Threads
  BY RowsExist DEF CommentTyped, CommentTypeOK
<1>2. CASE Half(c) = "public"
  <2> DEFINE r == pub[Thread[c]]
             q == [r EXCEPT !.st = "failed", !.attempts = @ + 1]
  <2>1. pub' = [pub EXCEPT ![Thread[c]] = q] /\ prv' = prv
    BY <1>2, <1>1 DEF Failed, PublicRow
  <2>2. r \in PublicRow
    BY <1>1
  <2>3. q \in PublicRow /\ q.st = "failed" /\ q.body = r.body /\ q.attempts > 0
    <3>1. r.attempts \in Nat /\ r.attempts + 1 \in Nat /\ r.attempts + 1 > 0
      BY <2>2 DEF PublicRow
    <3>2. q = [r EXCEPT !.st = "failed", !.attempts = r.attempts + 1]
      BY <2>2 DEF PublicRow
    <3>3. q \in PublicRow
      BY <2>2, <3>1, <3>2 DEF PublicRow, ReplyStates
    <3>4. q.st = "failed" /\ q.body = r.body /\ q.attempts = r.attempts + 1
      BY <2>2 DEF PublicRow
    <3> QED  BY <3>1, <3>3, <3>4
  <2> HIDE DEF r, q
  <2>4. RowsTyped' /\ OthersSame(c) /\ pub'[Thread[c]] = q
    BY <1>1, <2>1, <2>3 DEF RowsTyped, OthersSame
  <2> QED  BY <2>1, <2>3, <2>4, <1>2 DEF r
<1>3. CASE Half(c) # "public"
  <2>1. "failed" \in ReplyStates
    BY DEF ReplyStates
  <2>2. Private(c, "failed")
    BY <1>3 DEF Failed
  <2> QED  BY <2>1, <2>2, <1>3, PrivateSets
<1> QED  BY <1>2, <1>3

LEMMA RowSets ==
    ASSUME CommentTyped, NEW c \in Comments, NEW st \in ReplyStates, Row(c, st)
    PROVE  /\ RowsTyped' /\ OthersSame(c)
           /\ Half(c) = "public" => Public(c, st)
           /\ Half(c) # "public" => Private(c, st)
BY PublicSets, PrivateSets DEF Row

LEMMA DraftSets ==
    ASSUME CommentTyped, NEW c \in Comments, DraftPublic(c)
    PROVE  /\ pub' \in [Threads -> PublicRow] /\ OthersSame(c)
           /\ pub[Thread[c]].st # "none" => pub'[Thread[c]] = pub[Thread[c]]
           /\ pub[Thread[c]].st = "none" =>
                \/ pub'[Thread[c]] = pub[Thread[c]] /\ job[c].capped
                \/ /\ pub'[Thread[c]].st = "draft"
                   /\ pub'[Thread[c]].body = IF c \in Own THEN "claiming" ELSE "general"
<1> DEFINE q == [NoRow EXCEPT !.st = "draft", !.from = Author[c],
                              !.body = IF c \in Own THEN "claiming" ELSE "general"]
<1>1. pub \in [Threads -> PublicRow] /\ Thread[c] \in Threads /\ Author[c] \in People
  BY RowsExist DEF CommentTyped, CommentTypeOK
<1>2. q \in PublicRow /\ q.st = "draft" /\ q.body = IF c \in Own THEN "claiming" ELSE "general"
  BY <1>1 DEF NoRow, PublicRow, ReplyStates, Bodies
<1>3. pub' = IF job[c].capped \/ pub[Thread[c]].st # "none" THEN pub ELSE [pub EXCEPT ![Thread[c]] = q]
  BY DEF DraftPublic
<1> HIDE DEF q
<1>4. pub' \in [Threads -> PublicRow] /\ OthersSame(c)
  BY <1>1, <1>2, <1>3 DEF OthersSame
<1>5. CASE job[c].capped \/ pub[Thread[c]].st # "none"
  BY <1>3, <1>4, <1>5
<1>6. CASE ~ (job[c].capped \/ pub[Thread[c]].st # "none")
  <2>1. pub'[Thread[c]] = q
    BY <1>1, <1>3, <1>6
  <2> QED  BY <2>1, <1>2, <1>4, <1>6
<1> QED  BY <1>5, <1>6

LEMMA LeastNotice ==
    ASSUME NEW S \in SUBSET Nat, S # {}
    PROVE  Least(S) \in S
<1> DEFINE R == OpToRel(<, Nat)
<1>1. IsWellFoundedOn(R, Nat)
  BY NatLessThanWellFounded
<1>2. \A i, k \in Nat : i < k => <<i, k>> \in R
  BY DEF OpToRel
<1> HIDE DEF R
<1>3. \E i \in S : \A k \in S : ~ (<<k, i>> \in R)
  BY <1>1, WFMin
<1>4. \A i, k \in Nat : ~ (i < k) => k <= i
  OBVIOUS
<1>5. \E i \in S : \A k \in S : i <= k
  BY <1>2, <1>3, <1>4
<1> QED  BY <1>5 DEF Least

LEMMA NoticesTyped ==
    ASSUME CommentTyped, NEW t \in Threads
    PROVE  /\ Noticed(t) \in SUBSET (DOMAIN wall[t]) /\ DOMAIN wall[t] \in SUBSET Nat
           /\ wall[t] \in Seq(PageComment) /\ DOMAIN wall[t] = 1 .. Len(wall[t]) /\ Len(wall[t]) \in Nat
           /\ \A i \in DOMAIN wall[t] : wall[t][i] \in PageComment
           /\ Same(t) \in SUBSET Nat /\ InWindow(t) \in SUBSET Nat
           /\ Same(t) # {} => Least(Same(t)) \in Nat
           /\ InWindow(t) # {} => Least(InWindow(t)) \in Nat
<1>1. wall[t] \in Seq(PageComment)
  BY DEF CommentTyped, CommentTypeOK
<1>2. /\ DOMAIN wall[t] = 1 .. Len(wall[t]) /\ Len(wall[t]) \in Nat
      /\ \A i \in DOMAIN wall[t] : wall[t][i] \in PageComment
  BY <1>1
<1>3. DOMAIN wall[t] \in SUBSET Nat /\ Noticed(t) \in SUBSET (DOMAIN wall[t])
  BY <1>2 DEF Noticed
<1>4. Same(t) \in SUBSET Nat /\ InWindow(t) \in SUBSET Nat
  BY <1>3 DEF Same, InWindow
<1> QED  BY <1>1, <1>2, <1>3, <1>4, LeastNotice

LEMMA SettledRow ==
    ASSUME CommentTyped, NEW t \in Threads, NEW i \in Nat
    PROVE  /\ Reconciled(t, i) \in PublicRow /\ Reconciled(t, i).st = "sent"
           /\ Reconciled(t, i).body = pub[t].body
BY DEF CommentTyped, CommentTypeOK, Reconciled, PublicRow, ReplyStates

LEMMA MatchedRow ==
    ASSUME CommentTyped, NEW t \in Threads, Same(t) # {}
    PROVE  /\ Matched(t) \in PublicRow /\ Matched(t).st \in {"sent", "refused"}
           /\ Matched(t).body = pub[t].body
<1>1. pub[t] \in PublicRow /\ Least(Same(t)) \in Nat
  BY NoticesTyped DEF CommentTyped, CommentTypeOK
<1>2. \A i \in Nat :
        /\ [pub[t] EXCEPT !.st = "sent", !.id = i, !.guess = TRUE] \in PublicRow
        /\ [pub[t] EXCEPT !.st = "sent", !.id = i, !.guess = TRUE].st = "sent"
        /\ [pub[t] EXCEPT !.st = "sent", !.id = i, !.guess = TRUE].body = pub[t].body
  BY <1>1 DEF PublicRow, ReplyStates
<1>3. /\ [pub[t] EXCEPT !.st = "refused"] \in PublicRow
      /\ [pub[t] EXCEPT !.st = "refused"].st = "refused"
      /\ [pub[t] EXCEPT !.st = "refused"].body = pub[t].body
  BY <1>1 DEF PublicRow, ReplyStates
<1> QED  BY <1>1, <1>2, <1>3 DEF Matched

(***************************************************************************)
(* Type correctness                                                        *)
(***************************************************************************)

JobsTyped == job \in [Comments -> Job] /\ \A c \in Comments : Shaped(job[c])
PageTyped == wall \in [Threads -> Seq(PageComment)] /\ got \subseteq People /\ settling \in [Threads -> Nat]
CountsTyped == staff \in 0 .. MaxStaff /\ faults \in 0 .. MaxFaults

LEMMA TypedParts == CommentTyped <=> RowsTyped /\ JobsTyped /\ PageTyped /\ CountsTyped
BY DEF CommentTyped, CommentTypeOK, RowsTyped, JobsTyped, PageTyped, CountsTyped

LEMMA TypedPartsNext == CommentTyped' <=> RowsTyped' /\ JobsTyped' /\ PageTyped' /\ CountsTyped'
BY DEF CommentTyped, CommentTypeOK, RowsTyped, JobsTyped, PageTyped, CountsTyped

LEMMA CountsKept ==
    ASSUME CommentTyped, Fault \/ NoFault, staff' = staff
    PROVE  CountsTyped'
BY CommentAssumption DEF CommentTyped, CommentTypeOK, CountsTyped, Fault, NoFault

LEMMA PageKept ==
    ASSUME CommentTyped, UNCHANGED Page
    PROVE  PageTyped' /\ wall' = wall /\ got' = got /\ settling' = settling /\ staff' = staff
BY DEF CommentTyped, CommentTypeOK, PageTyped, Page

LEMMA JobsSet ==
    ASSUME CommentTyped, NEW c \in Comments, NEW j \in Job, Set(c, j), Shaped(j)
    PROVE  JobsTyped'
BY JobSet DEF JobsTyped

LEMMA ThisJob ==
    ASSUME CommentTyped, NEW c \in Comments
    PROVE  job[c] \in Job /\ Shaped(job[c])
BY DEF CommentTyped, CommentTypeOK

LEMMA OnwardTyped ==
    ASSUME CommentTyped, NEW c \in Comments, NEW j \in Job, j.todo = job[c].todo, job[c].pc \in AtWork
    PROVE  Onward(j) \in Job /\ Shaped(Onward(j))
<1>1. job[c].todo \in Orders /\ job[c].todo # <<>>
  BY ThisJob DEF Shaped
<1>2. Tail(job[c].todo) \in Orders
  BY <1>1, Tails
<1>3. RestOrGo(Onward(j), Tail(job[c].todo))
  BY <1>1, OnwardGoes
<1> QED  BY <1>2, <1>3, RestOrGoShaped

\* What a step of a comment's job does to the rows and to the counts keeps their types.
LEMMA JobTyped ==
    ASSUME CommentTyped, NEW c \in Comments, NEW j \in Job, Shaped(j), Set(c, j),
           RowsTyped', UNCHANGED Page, Fault \/ NoFault
    PROVE  CommentTyped'
BY JobsSet, PageKept, CountsKept, TypedPartsNext

LEMMA RowsKept == CommentTyped /\ pub' = pub /\ prv' = prv => RowsTyped'
BY DEF CommentTyped, CommentTypeOK, RowsTyped

LEMMA PlanIsOrder == \A c \in Comments : Plan(c) \in Orders
BY DEF Plan, Orders

LEMMA CommentTypedStep ==
    ASSUME CommentTyped, [CommentNext]_commentVars
    PROVE  CommentTyped'
<1>1. ASSUME NEW c \in Comments, DecideStaff(c) PROVE CommentTyped'
  <2>1. Leaves(c, {"public", "private"}) \in Job
    BY ThisJob, LeavesTyped
  <2>2. Settled(Leaves(c, {"public", "private"})) \in Job /\ Shaped(Settled(Leaves(c, {"public", "private"})))
    BY <2>1, SettledRests, RestingShaped
  <2> QED  BY <1>1, <2>2, JobTyped, RowsKept DEF DecideStaff
<1>2. ASSUME NEW c \in Comments, DecideResume(c) PROVE CommentTyped'
  <2>1. CASE Set(c, Doing(job[c], ResumeHalves(c))) /\ NoFault
    <3>1. Doing(job[c], ResumeHalves(c)) \in Job /\ Shaped(Doing(job[c], ResumeHalves(c)))
      BY ThisJob, ResumedIsOrder, DoingGoes, RestOrGoShaped
    <3> QED  BY <1>2, <2>1, <3>1, JobTyped, RowsKept DEF DecideResume
  <2>2. CASE Set(c, Settled(Leaves(c, {"public", "private"}))) /\ Fault
    <3>1. Leaves(c, {"public", "private"}) \in Job
      BY ThisJob, LeavesTyped
    <3>2. Settled(Leaves(c, {"public", "private"})) \in Job /\ Shaped(Settled(Leaves(c, {"public", "private"})))
      BY <3>1, SettledRests, RestingShaped
    <3> QED  BY <1>2, <2>2, <3>2, JobTyped, RowsKept DEF DecideResume
  <2> QED  BY <1>2, <2>1, <2>2 DEF DecideResume
<1>3. ASSUME NEW c \in Comments, DecideReply(c) PROVE CommentTyped'
  <2> DEFINE full == RepliesUnderPost >= Cap
             j == [job[c] EXCEPT !.pc = "fresh", !.capped = full]
  <2>1. full \in BOOLEAN /\ job[c] \in Job /\ Shaped(job[c]) /\ job[c].pc = "queued"
    BY <1>3, ThisJob DEF DecideReply, At
  <2> HIDE DEF full
  <2>2. j \in Job /\ Shaped(j)
    BY <2>1 DEF Job, Shaped, AtWork
  <2>3. Settled(job[c]) \in Job /\ Shaped(Settled(job[c]))
    BY <2>1, SettledRests, RestingShaped
  <2>4. Set(c, j) \/ Set(c, Settled(job[c]))
    BY <1>3 DEF DecideReply, full
  <2> HIDE DEF j
  <2> QED  BY <1>3, <2>2, <2>3, <2>4, JobTyped, RowsKept DEF DecideReply
<1>4. ASSUME NEW c \in Comments, DraftBoth(c) PROVE CommentTyped'
  <2>1. Doing(job[c], Plan(c)) \in Job /\ Shaped(Doing(job[c], Plan(c)))
    BY ThisJob, PlanIsOrder, DoingGoes, RestOrGoShaped
  <2>2. prv' \in [People -> ReplyStates]
    BY <1>4, RowsExist DEF DraftBoth, CommentTyped, CommentTypeOK, ReplyStates
  <2>3. RowsTyped'
    BY <1>4, <2>2, DraftSets DEF DraftBoth, RowsTyped
  <2> QED  BY <1>4, <2>1, <2>3, JobTyped DEF DraftBoth
<1>5. ASSUME NEW c \in Comments, DraftHalf(c) PROVE CommentTyped'
  <2>1. Redelivered(job[c]) \in Job /\ Shaped(Redelivered(job[c]))
    BY ThisJob, RedeliveredRests, RestingShaped
  <2>2. RowsTyped'
    BY <1>5, DraftSets DEF DraftHalf, RowsTyped, CommentTyped, CommentTypeOK
  <2> QED  BY <1>5, <2>1, <2>2, JobTyped DEF DraftHalf
<1>6. ASSUME NEW c \in Comments, Pair(c) PROVE CommentTyped'
  <2>1. job[c].pc \in AtWork
    BY <1>6 DEF Pair, At, AtWork
  <2>2. Onward(job[c]) \in Job /\ Shaped(Onward(job[c]))
    BY <2>1, ThisJob, OnwardTyped
  <2>3. RowsTyped'
    <3>1. CASE UNCHANGED <<pub, prv>>
      BY <3>1, RowsKept
    <3>2. CASE pub' = [pub EXCEPT ![Thread[c]].body = "general"] /\ UNCHANGED prv
      BY <3>2, RowsExist DEF RowsTyped, CommentTyped, CommentTypeOK, PublicRow, Bodies
    <3>3. CASE Public(c, "refused")
      BY <3>3, PublicSets DEF ReplyStates
    <3> QED  BY <1>6, <3>1, <3>2, <3>3 DEF Pair
  <2> QED  BY <1>6, <2>2, <2>3, JobTyped DEF Pair
<1>7. ASSUME NEW c \in Comments, NotOurs(c) PROVE CommentTyped'
  <2>1. job[c].pc \in AtWork
    BY <1>7 DEF NotOurs, Sending, At, AtWork
  <2>2. Onward(job[c]) \in Job /\ Shaped(Onward(job[c]))
    BY <2>1, ThisJob, OnwardTyped
  <2> QED  BY <1>7, <2>2, JobTyped, RowsKept DEF NotOurs
<1>8. ASSUME NEW c \in Comments, Twin(c) PROVE CommentTyped'
  <2>1. job[c].pc \in AtWork /\ Same(Thread[c]) # {}
    BY <1>8 DEF Twin, Twins, Sending, At, AtWork
  <2>2. Onward(job[c]) \in Job /\ Shaped(Onward(job[c]))
    BY <2>1, ThisJob, OnwardTyped
  <2>3. Matched(Thread[c]) \in PublicRow
    BY <2>1, RowsExist, MatchedRow
  <2>4. RowsTyped'
    BY <1>8, <2>3, RowsExist DEF Twin, RowsTyped, CommentTyped, CommentTypeOK
  <2> QED  BY <1>8, <2>2, <2>4, JobTyped DEF Twin
<1>9. ASSUME NEW c \in Comments, Withhold(c) PROVE CommentTyped'
  <2> DEFINE j == [job[c] EXCEPT !.gate = "handled"]
  <2>1. job[c].pc \in AtWork
    BY <1>9 DEF Withhold, Sending, At, AtWork
  <2>2. j \in Job /\ j.todo = job[c].todo
    BY ThisJob DEF Job
  <2>3. Set(c, Onward(j))
    BY <1>9 DEF Withhold
  <2> HIDE DEF j
  <2>4. Onward(j) \in Job /\ Shaped(Onward(j))
    BY <2>1, <2>2, OnwardTyped
  <2>5. RowsTyped'
    BY <1>9, RowSets DEF Withhold, ReplyStates
  <2> QED  BY <1>9, <2>3, <2>4, <2>5, JobTyped DEF Withhold
<1>10. ASSUME NEW c \in Comments, ClaimHalf(c) PROVE CommentTyped'
  <2> DEFINE knows == IF Half(c) = "public" THEN Known(Thread[c]) ELSE {}
             j == [job[c] EXCEPT !.pc = "post", !.gate = "clear", !.knew = knows]
  <2>1. job[c] \in Job /\ Shaped(job[c]) /\ job[c].pc = "go" /\ Half(c) \in {"public", "private"}
    BY <1>10, ThisJob DEF ClaimHalf, Sending, At
  <2>2. Known(Thread[c]) \subseteq Bodies
    BY NoticesTyped, RowsExist DEF Known, PageComment
  <2>3. knows \in SUBSET Bodies
    BY <2>2
  <2>4. Set(c, j)
    BY <1>10 DEF ClaimHalf
  <2> HIDE DEF knows
  <2>5. j \in Job /\ j.pc = "post" /\ j.todo = job[c].todo
    BY <2>1, <2>3 DEF Job
  <2> HIDE DEF j
  <2>6. Shaped(j)
    BY <2>1, <2>5 DEF Shaped, AtWork, Half
  <2>7. RowsTyped'
    BY <1>10, RowSets DEF ClaimHalf, ReplyStates
  <2> QED  BY <1>10, <2>4, <2>5, <2>6, <2>7, JobTyped DEF ClaimHalf
<1>11. ASSUME NEW c \in Comments, Unread(c) PROVE CommentTyped'
  <2>1. Redelivered(job[c]) \in Job /\ Shaped(Redelivered(job[c]))
    BY ThisJob, RedeliveredRests, RestingShaped
  <2>2. RowsTyped'
    BY <1>11, FailedSets DEF Unread
  <2> QED  BY <1>11, <2>1, <2>2, JobTyped DEF Unread
<1>12. ASSUME NEW c \in Comments, Post(c) PROVE CommentTyped'
  <2> DEFINE page == [ours |-> TRUE, body |-> pub[Thread[c]].body, under |-> c, tags |-> Nobody,
                      inWindow |-> ~ pub[Thread[c]].late, told |-> FALSE, knew |-> job[c].knew]
  <2>1. PICK made \in BOOLEAN, answer \in Answers \ {"none"} :
          /\ IF answer = "sent" THEN NoFault ELSE Fault
          /\ IF made /\ Half(c) = "public" THEN wall' = [wall EXCEPT ![Thread[c]] = Append(@, page)]
             ELSE UNCHANGED wall
          /\ got' = IF made /\ Half(c) = "private" THEN got \cup {Author[c]} ELSE got
          /\ Set(c, [job[c] EXCEPT !.pc = "mark", !.answer = answer, !.knew = {},
                                   !.id = IF made /\ answer = "sent" /\ Half(c) = "public"
                                          THEN Len(wall[Thread[c]]) + 1 ELSE 0])
    BY <1>12 DEF Post
  <2> DEFINE id == IF made /\ answer = "sent" /\ Half(c) = "public" THEN Len(wall[Thread[c]]) + 1 ELSE 0
             j == [job[c] EXCEPT !.pc = "mark", !.answer = answer, !.knew = {}, !.id = id]
  <2>2. job[c] \in Job /\ Shaped(job[c]) /\ job[c].pc = "post"
    BY <1>12, ThisJob DEF Post, At
  <2>3. Len(wall[Thread[c]]) \in Nat /\ wall[Thread[c]] \in Seq(PageComment) /\ Thread[c] \in Threads
    BY RowsExist, NoticesTyped
  <2>4. id \in Nat /\ Set(c, j)
    BY <2>1, <2>3
  <2> HIDE DEF id
  <2>5. j \in Job /\ j.pc = "mark" /\ j.todo = job[c].todo
    BY <2>2, <2>4 DEF Job
  <2> HIDE DEF j
  <2>6. Shaped(j)
    BY <2>2, <2>5 DEF Shaped, AtWork
  <2>7. page \in PageComment
    BY <2>2, <2>3 DEF PageComment, Job, CommentTyped, CommentTypeOK, PublicRow
  <2> HIDE DEF page
  <2>8. wall' \in [Threads -> Seq(PageComment)]
    <3>1. Append(wall[Thread[c]], page) \in Seq(PageComment) /\ wall \in [Threads -> Seq(PageComment)]
      BY <2>3, <2>7 DEF CommentTyped, CommentTypeOK
    <3>2. \/ wall' = [wall EXCEPT ![Thread[c]] = Append(wall[Thread[c]], page)]
          \/ wall' = wall
      BY <2>1, <2>3, <3>1
    <3> QED  BY <2>3, <3>1, <3>2
  <2>9. PageTyped'
    BY <1>12, <2>1, <2>8, RowsExist DEF Post, PageTyped, CommentTyped, CommentTypeOK
  <2>10. CountsTyped' /\ RowsTyped'
    BY <1>12, <2>1, CountsKept, RowsKept DEF Post
  <2> QED  BY <2>4, <2>5, <2>6, <2>9, <2>10, JobsSet, TypedPartsNext
<1>13. ASSUME NEW c \in Comments, MarkHalf(c) PROVE CommentTyped'
  <2> DEFINE r == pub[Thread[c]]
             q == [r EXCEPT !.st = "sent", !.id = job[c].id]
  <2>1. job[c] \in Job /\ job[c].pc \in AtWork /\ r \in PublicRow /\ Half(c) \in {"public", "private"}
    <3>1. job[c].pc = "mark" /\ Shaped(job[c]) /\ job[c] \in Job
      BY <1>13, ThisJob DEF MarkHalf, At
    <3>2. job[c].todo \in Orders /\ job[c].todo # <<>> /\ Head(job[c].todo) # "pair"
      BY <3>1 DEF Shaped, AtWork
    <3>3. Half(c) \in {"public", "private"}
      BY <3>2, Heads DEF Half
    <3> QED  BY <3>1, <3>3, RowsExist DEF AtWork, CommentTyped, CommentTypeOK
  <2>2. Redelivered(job[c]) \in Job /\ Shaped(Redelivered(job[c]))
    BY <2>1, RedeliveredRests, RestingShaped
  <2>3. Leaves(c, {Half(c)}) \in Job /\ Leaves(c, {Half(c)}).todo = job[c].todo
    BY <2>1, LeavesTyped
  <2>4. \A j \in {job[c], Leaves(c, {Half(c)})} : Onward(j) \in Job /\ Shaped(Onward(j))
    BY <2>1, <2>3, OnwardTyped
  <2>5. \E j \in Job : Shaped(j) /\ Set(c, j)
    BY <1>13, <2>2, <2>4 DEF MarkHalf
  <2>6. q \in PublicRow
    BY <2>1 DEF PublicRow, ReplyStates, Job
  <2>7. RowsTyped'
    <3>1. CASE UNCHANGED <<pub, prv>>
      BY <3>1, RowsKept
    <3>2. CASE pub' = [pub EXCEPT ![Thread[c]] = q] /\ UNCHANGED prv
      BY <3>2, <2>6, RowsExist DEF RowsTyped, CommentTyped, CommentTypeOK
    <3>3. CASE Private(c, "sent")
      BY <3>3, PrivateSets DEF ReplyStates
    <3>4. CASE Row(c, "indeterminate")
      BY <3>4, RowSets DEF ReplyStates
    <3>5. CASE Failed(c)
      BY <3>5, FailedSets
    <3>6. pub' = [pub EXCEPT ![Thread[c]].st = "sent", ![Thread[c]].id = job[c].id]
            => pub' = [pub EXCEPT ![Thread[c]] = q]
      BY <2>1, RowsExist DEF CommentTyped, CommentTypeOK, PublicRow
    <3> HIDE DEF q
    <3> QED  BY <1>13, <2>1, <3>1, <3>2, <3>3, <3>4, <3>5, <3>6 DEF MarkHalf
  <2> QED  BY <1>13, <2>5, <2>7, JobTyped DEF MarkHalf
<1>14. ASSUME NEW c \in Comments, MarkLost(c) PROVE CommentTyped'
  <2>1. job[c].pc \in AtWork
    BY <1>14 DEF MarkLost, At, AtWork
  <2>2. Onward(job[c]) \in Job /\ Shaped(Onward(job[c]))
    BY <2>1, ThisJob, OnwardTyped
  <2> QED  BY <1>14, <2>2, JobTyped, RowsKept DEF MarkLost
<1>15. ASSUME NEW c \in Comments, Stop(c) PROVE CommentTyped'
  <2>1. Redelivered(job[c]) \in Job /\ Shaped(Redelivered(job[c]))
    BY ThisJob, RedeliveredRests, RestingShaped
  <2> QED  BY <1>15, <2>1, JobTyped, RowsKept DEF Stop
<1>16. ASSUME NEW t \in Threads, Notice(t) \/ StaffWrites(t) PROVE CommentTyped'
  <2>1. RowsTyped' /\ JobsTyped' /\ got' = got
    BY <1>16, RowsKept, TypedParts DEF Notice, StaffWrites, JobsTyped
  <2>2. CASE Notice(t)
    <3>1. PICK i \in DOMAIN wall[t] \ Noticed(t) :
            wall' = [wall EXCEPT ![t][i].told = TRUE] /\ Found(t, i, wall[t][i])
      BY <2>2 DEF Notice
    <3>2. i \in 1 .. Len(wall[t]) /\ i \in Nat /\ wall[t] \in Seq(PageComment) /\ wall[t][i] \in PageComment
      BY <3>1, NoticesTyped
    <3>3. [wall[t][i] EXCEPT !.told = TRUE] \in PageComment
      BY <3>2 DEF PageComment
    <3>4. [wall[t] EXCEPT ![i] = [wall[t][i] EXCEPT !.told = TRUE]] \in Seq(PageComment)
      BY <3>2, <3>3, ExceptSeq
    <3>5. wall' \in [Threads -> Seq(PageComment)]
      BY <3>1, <3>4 DEF CommentTyped, CommentTypeOK
    <3>6. settling' \in [Threads -> Nat]
      BY <3>1, <3>2 DEF Found, CommentTyped, CommentTypeOK
    <3>7. CountsTyped'
      BY <2>2, CountsKept DEF Notice
    <3>8. PageTyped'
      BY <2>1, <3>5, <3>6 DEF PageTyped, CommentTyped, CommentTypeOK
    <3> QED  BY <2>1, <3>7, <3>8, TypedPartsNext
  <2>3. CASE StaffWrites(t)
    <3>1. wall[t] \in Seq(PageComment) /\ Len(wall[t]) \in Nat
      BY NoticesTyped
    <3>2. \A page \in PageComment : Append(wall[t], page) \in Seq(PageComment)
      BY <3>1
    <3>3. Len(wall[t]) + 1 \in Nat
      BY <3>1
    <3>4. CountsTyped'
      <4>1. staff < MaxStaff /\ staff' = staff + 1 /\ faults' = faults
        BY <2>3 DEF StaffWrites, NoFault
      <4>2. MaxStaff \in Nat /\ staff \in 0 .. MaxStaff /\ faults \in 0 .. MaxFaults
        BY CommentAssumption DEF CommentTyped, CommentTypeOK
      <4>3. staff' \in 0 .. MaxStaff
        BY <4>1, <4>2
      <4> QED  BY <4>1, <4>2, <4>3 DEF CountsTyped
    <3>5. t \in Comments /\ pub[t] \in PublicRow
      BY CommentAssumption DEF Threads, CommentTyped, CommentTypeOK
    <3>6. \E page \in PageComment :
            wall' = [wall EXCEPT ![t] = Append(@, page)] /\ Found(t, Len(wall[t]) + 1, page)
      <4>1. PICK words \in {"their words", pub[t].body}, tags \in People \cup {Nobody} :
              LET page == [ours |-> FALSE, body |-> words, under |-> t, tags |-> tags,
                           inWindow |-> pub[t].st # "none" /\ ~ pub[t].late, told |-> TRUE, knew |-> {}]
              IN  /\ wall' = [wall EXCEPT ![t] = Append(@, page)]
                  /\ Found(t, Len(wall[t]) + 1, page)
        BY <2>3 DEF StaffWrites
      <4> DEFINE page == [ours |-> FALSE, body |-> words, under |-> t, tags |-> tags,
                          inWindow |-> pub[t].st # "none" /\ ~ pub[t].late, told |-> TRUE, knew |-> {}]
      <4>2. page \in PageComment
        BY <3>5 DEF PageComment, PublicRow, Bodies
      <4>3. wall' = [wall EXCEPT ![t] = Append(@, page)] /\ Found(t, Len(wall[t]) + 1, page)
        BY <4>1
      <4> HIDE DEF page
      <4> QED  BY <4>2, <4>3
    <3>7. PICK page \in PageComment :
            wall' = [wall EXCEPT ![t] = Append(@, page)] /\ Found(t, Len(wall[t]) + 1, page)
      BY <3>6
    <3>8. wall' \in [Threads -> Seq(PageComment)]
      BY <3>2, <3>7 DEF CommentTyped, CommentTypeOK
    <3>9. settling' \in [Threads -> Nat]
      BY <3>3, <3>7 DEF Found, CommentTyped, CommentTypeOK
    <3>10. PageTyped'
      BY <2>1, <3>8, <3>9 DEF PageTyped, CommentTyped, CommentTypeOK
    <3> QED  BY <2>1, <3>4, <3>10, TypedPartsNext
  <2> QED  BY <1>16, <2>2, <2>3
<1>17. ASSUME NEW t \in Threads, Reconcile(t) PROVE CommentTyped'
  <2>1. settling[t] \in Nat
    BY DEF CommentTyped, CommentTypeOK
  <2>2. RowsTyped'
    BY <1>17, <2>1, SettledRow DEF Reconcile, RowsTyped, CommentTyped, CommentTypeOK
  <2>3. PageTyped'
    BY <1>17 DEF Reconcile, PageTyped, CommentTyped, CommentTypeOK
  <2> QED  BY <1>17, <2>2, <2>3, CountsKept, TypedParts, TypedPartsNext DEF Reconcile, JobsTyped
<1>18. ASSUME NEW t \in Threads, Sweep(t) PROVE CommentTyped'
  <2>1. Least(InWindow(t)) \in Nat
    BY <1>18, NoticesTyped DEF Sweep
  <2>2. RowsTyped'
    BY <1>18, <2>1, SettledRow DEF Sweep, RowsTyped, CommentTyped, CommentTypeOK
  <2> QED  BY <1>18, <2>2, PageKept, CountsKept, TypedParts, TypedPartsNext DEF Sweep, JobsTyped
<1>19. ASSUME NEW t \in Threads, TenMinutes(t) PROVE CommentTyped'
  <2>1. RowsTyped'
    BY <1>19 DEF TenMinutes, RowsTyped, CommentTyped, CommentTypeOK, PublicRow
  <2> QED  BY <1>19, <2>1, PageKept, CountsKept, TypedParts, TypedPartsNext DEF TenMinutes, JobsTyped
<1>20. CASE UNCHANGED commentVars
  BY <1>20, TypedParts, TypedPartsNext DEF commentVars, RowsTyped, JobsTyped, PageTyped, CountsTyped
<1> QED
  BY <1>1, <1>2, <1>3, <1>4, <1>5, <1>6, <1>7, <1>8, <1>9, <1>10, <1>11, <1>12, <1>13, <1>14, <1>15,
     <1>16, <1>17, <1>18, <1>19, <1>20 DEF CommentNext, Works

(***************************************************************************)
(* What a step leaves true                                                 *)
(***************************************************************************)

Keeps(t) ==
    /\ pub[t].st # "none" => pub'[t].st # "none" /\ (pub[t].body = "general" => pub'[t].body = "general")
    /\ pub[t].st \notin Unsent => pub'[t].st \notin Unsent /\ (OneRule(t) => pub'[t].body = pub[t].body)
    /\ pub[t].st = "refused" => pub'[t].st = "refused"
StaySent == (\A p \in People : prv[p] = "sent" => prv'[p] = "sent") /\ got \subseteq got'
Frame == (\A t \in Threads : Keeps(t)) /\ StaySent
Rest == RowInv /\ SentInv /\ WorkInv /\ WallInv

LEMMA RowsStep ==
    ASSUME CommentInv, NEW c \in Comments, OthersSame(c), Keeps(Thread[c]), RowOK(c)', StaySent
    PROVE  Frame /\ RowInv'
<1>1. \A t \in Threads : Keeps(t)
  BY DEF OthersSame, Keeps
<1>2. ASSUME NEW d \in Comments PROVE RowOK(d)'
  <2>1. Thread[d] \in Threads /\ Author[d] \in People
    BY RowsExist
  <2>2. CASE Thread[d] = Thread[c]
    BY <2>2 DEF RowOK, Truthful, OneRule
  <2>3. CASE Thread[d] # Thread[c]
    <3>1. pub'[Thread[d]] = pub[Thread[d]] /\ RowOK(d)
      BY <2>1, <2>3 DEF OthersSame, CommentInv, RowInv
    <3> QED  BY <2>1, <3>1 DEF RowOK, Truthful, StaySent
  <2> QED  BY <2>2, <2>3
<1> QED  BY <1>1, <1>2 DEF Frame, RowInv

LEMMA WorkKept ==
    ASSUME CommentInv, Frame, NEW d \in Comments, job'[d] = job[d]
    PROVE  WorkOK(d)'
<1>1. Thread[d] \in Threads /\ Author[d] \in People
  BY RowsExist
<1>2. Keeps(Thread[d]) /\ (prv[Author[d]] = "sent" => prv'[Author[d]] = "sent") /\ got \subseteq got' /\ WorkOK(d)
  BY <1>1 DEF Frame, StaySent, CommentInv, WorkInv
<1>3. /\ job[d].pc \in AtWork /\ job[d].todo \in LineNext => pub[Thread[d]].st # "none"
      /\ job[d].pc \in {"go", "post", "mark"} => job[d].pc \in AtWork
  BY <1>2, OrdersDiffer DEF WorkOK, LineNext, AtWork
<1>4. Truthful(d) /\ pub[Thread[d]].st # "none" => Truthful(d)'
  BY <1>2 DEF Truthful, Keeps
<1>5. /\ job[d].pc = "go" /\ job[d].todo \in LineNext => Truthful(d)' \/ pub'[Thread[d]].st = "refused"
      /\ job[d].pc \in {"post", "mark"} /\ job[d].todo \in LineNext =>
             Truthful(d)' /\ pub'[Thread[d]].st \notin Unsent
  BY <1>2, <1>3, <1>4 DEF WorkOK, Keeps
<1> QED  BY <1>2, <1>5 DEF WorkOK, Keeps

LEMMA WallKept ==
    ASSUME CommentInv, Frame, wall' = wall
    PROVE  WallInv'
<1> SUFFICES ASSUME NEW t \in Threads, NEW i \in DOMAIN wall[t] PROVE OnWallOK(t, wall[t][i])'
  BY DEF WallInv
<1>1. OnWallOK(t, wall[t][i]) /\ Keeps(t) /\ got \subseteq got'
  BY DEF CommentInv, WallInv, Frame, StaySent
<1> QED  BY <1>1 DEF OnWallOK, Keeps

LEMMA RestWork ==
    ASSUME NEW c \in Comments, Resting(job'[c])
    PROVE  WorkOK(c)'
BY OrdersDiffer DEF Resting, WorkOK, AtWork, LineNext, ChatNext

LEMMA GoingWork ==
    ASSUME NEW c \in Comments, NEW h \in Orders, RestOrGo(job'[c], h), job'[c].knew = {},
           h \notin {<<>>, <<"private">>} => pub'[Thread[c]].st # "none",
           h \in LineNext => Truthful(c)' \/ pub'[Thread[c]].st = "refused"
    PROVE  WorkOK(c)'
<1>1. CASE Resting(job'[c])
  BY <1>1, RestWork
<1>2. CASE Going(job'[c], h)
  BY <1>2 DEF Going, WorkOK, AtWork
<1> QED  BY <1>1, <1>2 DEF RestOrGo

LEMMA HalfOf ==
    ASSUME CommentTyped, NEW c \in Comments, job[c].pc \in AtWork
    PROVE  /\ job[c].todo \in Orders /\ job[c].todo # <<>>
           /\ Half(c) = "public" <=> job[c].todo \in LineNext
           /\ Half(c) = "private" <=> job[c].todo \in ChatNext
           /\ Half(c) = "pair" <=> job[c].todo = <<"pair", "public">>
           /\ Half(c) \in {"public", "private", "pair"}
           /\ job[c].pc \in {"post", "mark"} => Half(c) # "pair"
<1>1. job[c].todo \in Orders /\ job[c].todo # <<>>
  BY ThisJob DEF Shaped
<1>2. job[c].pc \in {"post", "mark"} => Half(c) # "pair"
  BY ThisJob DEF Shaped, Half
<1> QED  BY <1>1, <1>2, Heads DEF Half

LEMMA OnwardWork ==
    ASSUME CommentInv, NEW c \in Comments, NEW j \in Job, job[c].pc \in AtWork, j.todo = job[c].todo,
           Half(c) # "pair", job'[c] = Onward(j), Keeps(Thread[c])
    PROVE  WorkOK(c)'
<1>1. job[c].todo \in Orders /\ job[c].todo # <<>> /\ job[c].todo # <<"pair", "public">>
  BY HalfOf DEF CommentInv
<1> DEFINE h == Tail(job[c].todo)
<1>2. /\ h \in Orders /\ h \notin LineNext
      /\ h \notin {<<>>, <<"private">>} => job[c].todo \notin {<<>>, <<"private">>}
  BY <1>1, Tails
<1>3. RestOrGo(job'[c], h) /\ job'[c].knew = {}
  BY <1>1, OnwardGoes
<1> HIDE DEF h
<1>4. h \notin {<<>>, <<"private">>} => pub'[Thread[c]].st # "none"
  BY <1>2 DEF CommentInv, WorkInv, WorkOK, Keeps
<1> QED  BY <1>2, <1>3, <1>4, GoingWork

\* A step of a job that writes nothing on the Page.
LEMMA JobStep ==
    ASSUME CommentInv, NEW c \in Comments, NEW j \in Job, Set(c, j), OthersSame(c),
           Keeps(Thread[c]), RowOK(c)', StaySent, WorkOK(c)', SentInv', wall' = wall
    PROVE  Rest'
<1>1. Frame /\ RowInv'
  BY RowsStep
<1>2. \A d \in Comments \ {c} : job'[d] = job[d]
  BY JobSet DEF CommentInv
<1>3. \A d \in Comments : WorkOK(d)'
  BY <1>1, <1>2, WorkKept
<1>4. WallInv'
  BY <1>1, WallKept
<1> QED  BY <1>1, <1>3, <1>4 DEF Rest, WorkInv

LEMMA Still ==
    ASSUME CommentInv, NEW c \in Comments, pub' = pub
    PROVE  OthersSame(c) /\ Keeps(Thread[c])
BY DEF OthersSame, Keeps

LEMMA NothingMoved ==
    ASSUME CommentInv, NEW c \in Comments, NEW j \in Job, Set(c, j), pub' = pub, prv' = prv,
           UNCHANGED Page, WorkOK(c)'
    PROVE  Rest'
<1>1. wall' = wall /\ got' = got
  BY DEF Page
<1>2. RowOK(c)' /\ SentInv' /\ StaySent
  BY <1>1 DEF CommentInv, RowInv, RowOK, Truthful, SentInv, StaySent
<1> QED  BY <1>1, <1>2, Still, JobStep

LEMMA PrivateMoved ==
    ASSUME CommentInv, NEW c \in Comments, NEW j \in Job, Set(c, j), NEW st \in ReplyStates,
           Private(c, st), prv[Author[c]] # "sent", st = "sent" => Author[c] \in got, UNCHANGED Page, WorkOK(c)'
    PROVE  Rest'
<1>1. wall' = wall /\ got' = got /\ pub' = pub
  BY DEF Page, Private
<1>2. prv'[Author[c]] = st /\ \A p \in People \ {Author[c]} : prv'[p] = prv[p]
  BY PrivateSets DEF CommentInv
<1>3. StaySent /\ SentInv'
  BY <1>1, <1>2, RowsExist DEF CommentInv, SentInv, StaySent
<1>4. RowOK(c)'
  BY <1>1, <1>3, RowsExist DEF CommentInv, RowInv, RowOK, Truthful, StaySent
<1> QED  BY <1>1, <1>3, <1>4, Still, JobStep

LEMMA PublicMoved ==
    ASSUME CommentInv, NEW c \in Comments, NEW j \in Job, Set(c, j), OthersSame(c), prv' = prv,
           Keeps(Thread[c]), pub'[Thread[c]].body = pub[Thread[c]].body,
           pub'[Thread[c]].st \in Tried => Truthful(c),
           pub'[Thread[c]].st = "failed" => pub'[Thread[c]].attempts > 0, UNCHANGED Page, WorkOK(c)'
    PROVE  Rest'
<1>1. wall' = wall /\ got' = got
  BY DEF Page
<1>2. StaySent /\ SentInv'
  BY <1>1 DEF CommentInv, SentInv, StaySent
<1>3. RowOK(c)'
  BY DEF CommentInv, RowInv, RowOK, Truthful
<1> QED  BY <1>1, <1>2, <1>3, JobStep

\* A step of no job, on one thread's row or its wall.
LEMMA ThreadStep ==
    ASSUME CommentInv, NEW t \in Threads, \A u \in Threads \ {t} : pub'[u] = pub[u], prv' = prv,
           pub[t].st # "none", pub'[t].st \in {pub[t].st, "sent"}, pub'[t].st # pub[t].st => pub[t].st \in Tried,
           pub'[t].body = pub[t].body, pub'[t].attempts = pub[t].attempts,
           wall' = wall, got' = got, job' = job
    PROVE  Rest'
<1>1. PICK c \in Comments : t = Thread[c]
  BY DEF Threads
<1>3. StaySent /\ SentInv'
  BY DEF CommentInv, SentInv, StaySent
<1>4. OthersSame(c) /\ Keeps(Thread[c])
  BY <1>1 DEF OthersSame, Keeps, Tried, Unsent
<1>5. RowOK(c)'
  BY <1>1 DEF CommentInv, RowInv, RowOK, Truthful, Tried
<1>6. Frame /\ RowInv'
  BY <1>3, <1>4, <1>5, RowsStep
<1>7. \A d \in Comments : WorkOK(d)'
  BY <1>6, WorkKept
<1> QED  BY <1>3, <1>6, <1>7, WallKept DEF Rest, WorkInv

(***************************************************************************)
(* The job's steps, and what they post                                     *)
(***************************************************************************)

\* Before a re-send nothing of ours is known in the thread: the check before it would have found it.
LEMMA NothingKnown ==
    ASSUME CommentInv, NEW c \in Comments, OneRule(Thread[c]), pub[Thread[c]].st \in Pending,
           Half(c) = "public", Twins(c) = {}
    PROVE  Known(Thread[c]) = {}
<1> DEFINE t == Thread[c]
<1>1. t \in Threads /\ Noticed(t) \in SUBSET (DOMAIN wall[t])
  BY RowsExist, NoticesTyped DEF CommentInv
<1>2. ASSUME NEW i \in Noticed(t), wall[t][i].ours PROVE FALSE
  <2>1. wall[t][i].body = pub[t].body /\ pub[t].st \notin Unsent
    BY <1>1, <1>2 DEF CommentInv, WallInv, OnWallOK
  <2>2. pub[t].attempts > 0
    BY <2>1 DEF Unsent, Pending, CommentInv, RowInv, RowOK
  <2>3. i \in Same(t)
    BY <2>1 DEF Same
  <2> QED  BY <2>2, <2>3 DEF Twins
<1> QED  BY <1>2 DEF Known

LEMMA PlanIsTrue ==
    ASSUME CommentInv, NEW c \in Comments, Plan(c) \in LineNext
    PROVE  ~ job[c].capped /\ c \notin Own
BY OrdersDiffer DEF Plan, LineNext

LEMMA PlanNeedsLine ==
    ASSUME NEW c \in Comments, Plan(c) # <<"private">>
    PROVE  ~ job[c].capped
BY DEF Plan

LEMMA DecideStep ==
    ASSUME CommentInv, NEW c \in Comments, DecideStaff(c) \/ DecideResume(c) \/ DecideReply(c)
    PROVE  Rest'
<1>1. job[c] \in Job /\ job[c].knew = {} /\ CommentTyped /\ job[c].pc = "queued"
  BY ThisJob DEF CommentInv, WorkInv, WorkOK, DecideStaff, DecideResume, DecideReply, At
<1>2. pub' = pub /\ prv' = prv /\ UNCHANGED Page
  BY DEF DecideStaff, DecideResume, DecideReply
<1>3. CASE \/ Set(c, Settled(Leaves(c, {"public", "private"}))) \/ Set(c, Settled(job[c]))
  <2>1. Leaves(c, {"public", "private"}) \in Job
    BY <1>1, LeavesTyped
  <2>2. \A k \in Job : Settled(k) \in Job /\ Resting(Settled(k))
    BY SettledRests DEF Resting
  <2>3. PICK j \in Job : Set(c, j) /\ Resting(j)
    BY <1>1, <1>3, <2>1, <2>2
  <2>4. WorkOK(c)'
    BY <1>1, <2>3, JobSet, RestWork
  <2> QED  BY <1>2, <2>3, <2>4, NothingMoved
<1>4. CASE DecideResume(c) /\ Set(c, Doing(job[c], ResumeHalves(c)))
  <2> DEFINE j == Doing(job[c], ResumeHalves(c))
  <2>1. ResumeHalves(c) \in Orders
    BY ResumedIsOrder
  <2>2. RestOrGo(j, ResumeHalves(c)) /\ j.knew = {}
    BY <1>1, <2>1, DoingGoes
  <2> HIDE DEF j
  <2>3. j \in Job
    BY <2>1, <2>2, RestOrGoShaped
  <2>4. job'[c] = j
    BY <1>1, <1>4, <2>3, JobSet DEF j
  <2>5. ResumeHalves(c) \in LineNext => Truthful(c)
    BY ResumedIsOrder DEF CommentInv, RowInv, RowOK, Truthful
  <2>6. ResumeHalves(c) \notin {<<>>, <<"private">>} => pub[Thread[c]].st # "none"
    BY ResumedIsOrder DEF Pending
  <2>7. WorkOK(c)'
    BY <1>2, <2>1, <2>2, <2>4, <2>5, <2>6, GoingWork DEF Truthful
  <2> QED  BY <1>2, <1>4, <2>3, <2>7, NothingMoved DEF j
<1>5. CASE DecideReply(c) /\ ~ Set(c, Settled(job[c]))
  <2> DEFINE full == RepliesUnderPost >= Cap
             j == [job[c] EXCEPT !.pc = "fresh", !.capped = full]
  <2>1. full \in BOOLEAN /\ Set(c, j)
    BY <1>5 DEF DecideReply
  <2> HIDE DEF full
  <2>2. j \in Job /\ j.pc = "fresh" /\ j.knew = {}
    BY <1>1, <2>1 DEF Job
  <2> HIDE DEF j
  <2>3. job'[c] = j
    BY <1>1, <2>1, <2>2, JobSet
  <2>4. WorkOK(c)'
    BY <2>2, <2>3 DEF WorkOK, AtWork
  <2> QED  BY <1>2, <2>1, <2>2, <2>4, NothingMoved
<1> QED  BY <1>3, <1>4, <1>5 DEF DecideStaff, DecideResume

LEMMA HalvesDrafted ==
    ASSUME CommentInv, NEW c \in Comments, DraftBoth(c) \/ DraftHalf(c)
    PROVE  Rest'
<1>1. job[c] \in Job /\ job[c].knew = {} /\ CommentTyped /\ DraftPublic(c) /\ UNCHANGED Page
  BY ThisJob DEF CommentInv, WorkInv, WorkOK, DraftBoth, DraftHalf, At
<1>2. wall' = wall /\ got' = got
  BY <1>1 DEF Page
<1>3. /\ pub' \in [Threads -> PublicRow] /\ OthersSame(c)
      /\ pub[Thread[c]].st # "none" => pub'[Thread[c]] = pub[Thread[c]]
      /\ pub[Thread[c]].st = "none" =>
           \/ pub'[Thread[c]] = pub[Thread[c]] /\ job[c].capped
           \/ /\ pub'[Thread[c]].st = "draft"
              /\ pub'[Thread[c]].body = IF c \in Own THEN "claiming" ELSE "general"
  BY <1>1, DraftSets
<1>4. Keeps(Thread[c])
  BY <1>3 DEF Keeps, Unsent
<1>5. \A p \in People : (prv[p] = "sent" => prv'[p] = "sent") /\ (prv'[p] = "sent" => prv[p] = "sent")
  BY RowsExist DEF DraftBoth, DraftHalf, CommentInv, CommentTyped, CommentTypeOK
<1>6. StaySent /\ SentInv'
  BY <1>2, <1>5 DEF CommentInv, SentInv, StaySent
<1>7. RowOK(c)'
  <2>1. CASE pub'[Thread[c]] = pub[Thread[c]]
    BY <2>1, <1>5, RowsExist DEF CommentInv, RowInv, RowOK, Truthful
  <2>2. CASE /\ pub'[Thread[c]].st = "draft"
             /\ pub'[Thread[c]].body = IF c \in Own THEN "claiming" ELSE "general"
    BY <2>2 DEF RowOK, Tried
  <2> QED  BY <1>3, <2>1, <2>2
<1>8. CASE DraftHalf(c)
  <2>1. Redelivered(job[c]) \in Job /\ Resting(Redelivered(job[c])) /\ Set(c, Redelivered(job[c]))
    BY <1>1, <1>8, RedeliveredRests DEF DraftHalf, Resting
  <2>2. WorkOK(c)'
    BY <1>1, <2>1, JobSet, RestWork
  <2> QED  BY <1>2, <1>3, <1>4, <1>6, <1>7, <2>1, <2>2, JobStep
<1>9. CASE DraftBoth(c)
  <2> DEFINE j == Doing(job[c], Plan(c))
  <2>1. Plan(c) \in Orders /\ Set(c, j)
    BY <1>9, PlanIsOrder DEF DraftBoth
  <2>2. RestOrGo(j, Plan(c)) /\ j.knew = {}
    BY <1>1, <2>1, DoingGoes
  <2> HIDE DEF j
  <2>3. j \in Job /\ job'[c] = j
    BY <1>1, <2>1, <2>2, RestOrGoShaped, JobSet
  <2>4. Plan(c) \notin {<<>>, <<"private">>} => pub'[Thread[c]].st # "none"
    BY <1>3, PlanNeedsLine
  <2>5. Plan(c) \in LineNext => Truthful(c)'
    <3>1. Plan(c) \in LineNext => c \notin Own
      BY PlanIsTrue
    <3>2. c \notin Own => Truthful(c)'
      BY <1>7 DEF RowOK, Truthful
    <3> QED  BY <3>1, <3>2
  <2>6. WorkOK(c)'
    BY <2>1, <2>2, <2>3, <2>4, <2>5, GoingWork
  <2> QED  BY <1>2, <1>3, <1>4, <1>6, <1>7, <2>1, <2>3, <2>6, JobStep
<1> QED  BY <1>8, <1>9

LEMMA PairStep ==
    ASSUME CommentInv, NEW c \in Comments, Pair(c)
    PROVE  Rest'
<1> DEFINE t == Thread[c]
           j == Onward(job[c])
<1>1. /\ CommentTyped /\ job[c].pc = "go" /\ job[c].pc \in AtWork /\ Half(c) = "pair"
      /\ job[c] \in Job /\ UNCHANGED Page /\ Set(c, j) /\ t \in Threads
  BY ThisJob, RowsExist DEF CommentInv, Pair, At, AtWork
<1>2. job[c].todo = <<"pair", "public">>
  BY <1>1, HalfOf
<1>3. RestOrGo(j, <<"public">>) /\ j.knew = {} /\ j \in Job /\ <<"public">> \in Orders
  <2>1. job[c].todo \in Orders /\ job[c].todo # <<>> /\ Tail(job[c].todo) = <<"public">>
    BY <1>2, OrdersTwo, OrdersDiffer DEF Orders
  <2> QED  BY <1>1, <2>1, OnwardGoes, RestOrGoShaped DEF Orders
<1> HIDE DEF j
<1>4. job'[c] = j
  BY <1>1, <1>3, JobSet
<1>5. pub[t].st # "none" /\ RowOK(c)
  BY <1>1, <1>2, OrdersDiffer DEF CommentInv, WorkInv, WorkOK, RowInv
<1>6. CASE UNCHANGED <<pub, prv>> /\ (prv[Author[c]] = "sent" \/ pub[t].st \notin Pending)
  <2>1. Truthful(c) \/ pub[t].st = "refused"
    <3>1. pub[t].st \in ReplyStates
      BY <1>1 DEF CommentTyped, CommentTypeOK, PublicRow
    <3> QED  BY <1>5, <1>6, <3>1 DEF Truthful, RowOK, Tried, Pending, ReplyStates
  <2>2. WorkOK(c)'
    BY <1>3, <1>4, <1>5, <1>6, <2>1, GoingWork DEF Truthful
  <2> QED  BY <1>1, <1>3, <1>6, <2>2, NothingMoved
<1>7. CASE pub[t].st \in Pending /\ prv[Author[c]] # "sent" /\ pub' = [pub EXCEPT ![t].body = "general"] /\ prv' = prv
  <2>1. pub \in [Threads -> PublicRow] /\ pub[t] \in PublicRow
    BY <1>1 DEF CommentTyped, CommentTypeOK
  <2>2. /\ OthersSame(c) /\ pub'[t].body = "general" /\ pub'[t].st = pub[t].st
        /\ pub'[t].attempts = pub[t].attempts
    BY <1>1, <1>7, <2>1 DEF OthersSame, PublicRow
  <2>3. OneRule(t) /\ pub[t].st \notin Unsent => pub[t].body = "general"
    BY <1>5, <1>7 DEF Unsent, Pending, RowOK, Tried, Truthful
  <2>4. Keeps(t)
    BY <2>2, <2>3 DEF Keeps
  <2>5. RowOK(c)' /\ Truthful(c)'
    BY <1>5, <2>2 DEF RowOK, Truthful
  <2>6. WorkOK(c)'
    BY <1>3, <1>4, <1>5, <2>2, <2>5, GoingWork
  <2>7. StaySent /\ SentInv' /\ wall' = wall
    BY <1>1, <1>7 DEF CommentInv, SentInv, StaySent, Page
  <2> QED  BY <1>1, <1>3, <2>2, <2>4, <2>5, <2>6, <2>7, JobStep
<1>8. CASE pub[t].st \in Pending /\ Public(c, "refused")
  <2>1. OthersSame(c) /\ prv' = prv /\ pub'[t].st = "refused" /\ pub'[t].body = pub[t].body
    BY <1>1, <1>8, PublicSets DEF ReplyStates
  <2>2. Keeps(t)
    BY <1>5, <2>1 DEF Keeps, Unsent
  <2>3. WorkOK(c)'
    BY <1>3, <1>4, <2>1, GoingWork
  <2> QED  BY <1>1, <1>3, <2>1, <2>2, <2>3, PublicMoved DEF Tried
<1> QED  BY <1>6, <1>7, <1>8 DEF Pair

\* A half that is passed over, or whose answer goes unmarked.
LEMMA PassStep ==
    ASSUME CommentInv, NEW c \in Comments, NotOurs(c) \/ MarkLost(c) \/ Stop(c)
    PROVE  Rest'
<1>1. CommentTyped /\ job[c] \in Job /\ pub' = pub /\ prv' = prv /\ UNCHANGED Page
  BY ThisJob DEF CommentInv, NotOurs, MarkLost, Stop
<1>2. CASE NotOurs(c) \/ MarkLost(c)
  <2>1. job[c].pc \in AtWork /\ Set(c, Onward(job[c])) /\ Half(c) # "pair"
    BY <1>1, <1>2, HalfOf DEF NotOurs, MarkLost, Sending, At, AtWork
  <2>2. Onward(job[c]) \in Job
    BY <1>1, <2>1, OnwardTyped
  <2>3. WorkOK(c)'
    BY <1>1, <2>1, <2>2, JobSet, Still, OnwardWork
  <2> QED  BY <1>1, <2>1, <2>2, <2>3, NothingMoved
<1>3. CASE Stop(c)
  <2>1. Redelivered(job[c]) \in Job /\ Resting(Redelivered(job[c])) /\ Set(c, Redelivered(job[c]))
    BY <1>1, <1>3, RedeliveredRests DEF Stop, Resting
  <2>2. WorkOK(c)'
    BY <1>1, <2>1, JobSet, RestWork
  <2> QED  BY <1>1, <2>1, <2>2, NothingMoved
<1> QED  BY <1>2, <1>3

\* A line about to be sent is true.
LEMMA LineIsTrue ==
    ASSUME CommentInv, NEW c \in Comments, Sending(c), RowOf(c) \in Pending, Half(c) = "public"
    PROVE  Truthful(c) /\ pub[Thread[c]].st \in Pending /\ pub[Thread[c]].st # "none"
<1>1. job[c].pc = "go" /\ job[c].pc \in AtWork
  BY DEF Sending, At, AtWork
<1>2. job[c].todo \in LineNext
  BY <1>1, HalfOf DEF CommentInv
<1> QED  BY <1>1, <1>2 DEF CommentInv, WorkInv, WorkOK, RowOf, Pending

LEMMA TwinStep ==
    ASSUME CommentInv, NEW c \in Comments, Twin(c)
    PROVE  Rest'
<1> DEFINE t == Thread[c]
<1>1. /\ CommentTyped /\ Sending(c) /\ job[c] \in Job /\ job[c].pc \in AtWork /\ t \in Threads
      /\ Half(c) = "public" /\ Same(t) # {} /\ UNCHANGED Page /\ Set(c, Onward(job[c])) /\ prv' = prv
  BY ThisJob, RowsExist DEF CommentInv, Twin, Twins, Sending, At, AtWork
<1>2. Truthful(c) /\ pub[t].st \in Pending /\ pub[t].st # "none"
  BY <1>1, LineIsTrue DEF Twin
<1>3. Matched(t) \in PublicRow /\ Matched(t).st \in {"sent", "refused"} /\ Matched(t).body = pub[t].body
  BY <1>1, MatchedRow
<1>4. OthersSame(c) /\ pub'[t] = Matched(t)
  BY <1>1 DEF Twin, OthersSame, CommentTyped, CommentTypeOK
<1>5. Keeps(t)
  BY <1>2, <1>3, <1>4 DEF Keeps, Pending, Unsent
<1>6. Onward(job[c]) \in Job
  BY <1>1, OnwardTyped
<1>7. WorkOK(c)'
  BY <1>1, <1>5, <1>6, JobSet, OnwardWork
<1> QED  BY <1>1, <1>2, <1>3, <1>4, <1>5, <1>6, <1>7, PublicMoved

LEMMA WithholdStep ==
    ASSUME CommentInv, NEW c \in Comments, Withhold(c)
    PROVE  Rest'
<1> DEFINE j == [job[c] EXCEPT !.gate = "handled"]
<1>1. /\ CommentTyped /\ Sending(c) /\ job[c] \in Job /\ job[c].pc \in AtWork /\ Half(c) \in {"public", "private"}
      /\ UNCHANGED Page /\ Set(c, Onward(j)) /\ Row(c, "refused") /\ RowOf(c) \in Pending
  BY ThisJob DEF CommentInv, Withhold, Sending, At, AtWork
<1>2. j \in Job /\ j.todo = job[c].todo
  BY <1>1 DEF Job
<1> HIDE DEF j
<1>3. Onward(j) \in Job
  BY <1>1, <1>2, OnwardTyped
<1>4. job'[c] = Onward(j)
  BY <1>1, <1>3, JobSet
<1>5. CASE Half(c) = "public"
  <2>1. pub[Thread[c]].st \in Pending
    BY <1>1, <1>5, LineIsTrue
  <2>2. /\ OthersSame(c) /\ prv' = prv /\ pub'[Thread[c]].st = "refused"
        /\ pub'[Thread[c]].body = pub[Thread[c]].body
    BY <1>1, <1>5, RowSets, PublicSets DEF ReplyStates
  <2>3. Keeps(Thread[c])
    BY <2>1, <2>2 DEF Keeps, Unsent
  <2>4. WorkOK(c)'
    BY <1>1, <1>2, <1>4, <1>5, <2>3, OnwardWork
  <2> QED  BY <1>1, <1>3, <2>2, <2>3, <2>4, PublicMoved DEF Tried
<1>6. CASE Half(c) = "private"
  <2>1. Private(c, "refused") /\ "refused" \in ReplyStates /\ pub' = pub
    BY <1>1, <1>6 DEF Row, ReplyStates, Private
  <2>2. prv[Author[c]] # "sent"
    BY <1>1, <1>6 DEF RowOf, Pending
  <2>3. WorkOK(c)'
    BY <1>1, <1>2, <1>4, <1>6, <2>1, Still, OnwardWork
  <2> QED  BY <1>1, <1>3, <2>1, <2>2, <2>3, PrivateMoved
<1> QED  BY <1>1, <1>5, <1>6

LEMMA HalfClaimed ==
    ASSUME CommentInv, NEW c \in Comments, ClaimHalf(c)
    PROVE  Rest'
<1> DEFINE knows == IF Half(c) = "public" THEN Known(Thread[c]) ELSE {}
           j == [job[c] EXCEPT !.pc = "post", !.gate = "clear", !.knew = knows]
<1>1. /\ CommentTyped /\ Sending(c) /\ job[c] \in Job /\ job[c].pc = "go" /\ job[c].pc \in AtWork
      /\ Half(c) \in {"public", "private"} /\ Twins(c) = {}
      /\ UNCHANGED Page /\ Set(c, j) /\ Row(c, "sending") /\ RowOf(c) \in Pending
  BY ThisJob DEF CommentInv, ClaimHalf, Sending, At, AtWork
<1>2. knows \in SUBSET Bodies /\ (OneRule(Thread[c]) => knows = {})
  <2>1. Known(Thread[c]) \in SUBSET Bodies
    BY <1>1, RowsExist, NoticesTyped DEF Known, PageComment
  <2> QED  BY <1>1, <2>1, NothingKnown, LineIsTrue
<1> HIDE DEF knows
<1>3. j \in Job /\ j.pc = "post" /\ j.todo = job[c].todo /\ (OneRule(Thread[c]) => j.knew = {})
  BY <1>1, <1>2 DEF Job
<1> HIDE DEF j
<1>4. job'[c] = j
  BY <1>1, <1>3, JobSet
<1>5. job[c].todo \notin {<<>>, <<"private">>} => pub[Thread[c]].st # "none"
  BY <1>1 DEF CommentInv, WorkInv, WorkOK
<1>6. CASE Half(c) = "public"
  <2>1. Truthful(c) /\ pub[Thread[c]].st \in Pending /\ pub[Thread[c]].st # "none"
    BY <1>1, <1>6, LineIsTrue
  <2>2. /\ OthersSame(c) /\ prv' = prv /\ pub'[Thread[c]].st = "sending"
        /\ pub'[Thread[c]].body = pub[Thread[c]].body
    BY <1>1, <1>6, RowSets, PublicSets DEF ReplyStates
  <2>3. Keeps(Thread[c])
    BY <2>1, <2>2 DEF Keeps, Unsent, Pending
  <2>4. Truthful(c)'
    BY <2>1, <2>2 DEF Truthful
  <2>5. WorkOK(c)'
    BY <1>3, <1>4, <2>2, <2>4 DEF WorkOK, Unsent
  <2> QED  BY <1>1, <1>3, <2>1, <2>2, <2>3, <2>5, PublicMoved
<1>7. CASE Half(c) = "private"
  <2>1. Private(c, "sending") /\ "sending" \in ReplyStates /\ pub' = pub
    BY <1>1, <1>7 DEF Row, ReplyStates, Private
  <2>2. prv[Author[c]] # "sent"
    BY <1>1, <1>7 DEF RowOf, Pending
  <2>3. job[c].todo \notin LineNext
    BY <1>1, <1>7, HalfOf
  <2>4. WorkOK(c)'
    BY <1>3, <1>4, <1>5, <2>1, <2>3 DEF WorkOK
  <2> QED  BY <1>1, <1>3, <2>1, <2>2, <2>4, PrivateMoved
<1> QED  BY <1>1, <1>6, <1>7

LEMMA UnreadStep ==
    ASSUME CommentInv, NEW c \in Comments, Unread(c)
    PROVE  Rest'
<1>1. /\ CommentTyped /\ Sending(c) /\ job[c] \in Job /\ Half(c) \in {"public", "private"}
      /\ UNCHANGED Page /\ Failed(c) /\ RowOf(c) \in Pending
  BY ThisJob DEF CommentInv, Unread, Sending
<1>2. Redelivered(job[c]) \in Job /\ Resting(Redelivered(job[c])) /\ Set(c, Redelivered(job[c]))
  BY <1>1, RedeliveredRests DEF Unread, Resting
<1>3. WorkOK(c)'
  BY <1>1, <1>2, JobSet, RestWork
<1>4. CASE Half(c) = "public"
  <2>1. Truthful(c) /\ pub[Thread[c]].st \in Pending /\ pub[Thread[c]].st # "none"
    BY <1>1, <1>4, LineIsTrue
  <2>2. /\ OthersSame(c) /\ prv' = prv /\ pub'[Thread[c]].st = "failed"
        /\ pub'[Thread[c]].body = pub[Thread[c]].body /\ pub'[Thread[c]].attempts > 0
    BY <1>1, <1>4, FailedSets
  <2>3. Keeps(Thread[c])
    BY <2>1, <2>2 DEF Keeps, Unsent, Pending
  <2> QED  BY <1>1, <1>2, <1>3, <2>1, <2>2, <2>3, PublicMoved
<1>5. CASE Half(c) = "private"
  <2>1. Private(c, "failed") /\ "failed" \in ReplyStates
    BY <1>1, <1>5, FailedSets DEF ReplyStates
  <2>2. prv[Author[c]] # "sent"
    BY <1>1, <1>5 DEF RowOf, Pending
  <2> QED  BY <1>1, <1>2, <1>3, <2>1, <2>2, PrivateMoved
<1> QED  BY <1>1, <1>4, <1>5

\* What a POST was answered, marked on a row nobody settled meanwhile.
LEMMA MarkStep ==
    ASSUME CommentInv, NEW c \in Comments, MarkHalf(c)
    PROVE  Rest'
<1> DEFINE t == Thread[c]
<1>1. /\ CommentTyped /\ job[c] \in Job /\ job[c].pc = "mark" /\ job[c].pc \in AtWork
      /\ Half(c) \in {"public", "private"} /\ UNCHANGED Page /\ t \in Threads
  BY ThisJob, HalfOf, RowsExist DEF CommentInv, MarkHalf, At, AtWork
<1>2. Leaves(c, {Half(c)}) \in Job /\ Leaves(c, {Half(c)}).todo = job[c].todo
  BY <1>1, LeavesTyped
<1>3. \E j \in Job : Set(c, j) /\ (Resting(j) \/ \E k \in Job : k.todo = job[c].todo /\ j = Onward(k))
  <2>1. \A k \in Job : k.todo = job[c].todo => Onward(k) \in Job
    BY <1>1, OnwardTyped
  <2>2. Redelivered(job[c]) \in Job /\ Resting(Redelivered(job[c]))
    BY <1>1, RedeliveredRests DEF Resting
  <2> QED  BY <1>1, <1>2, <2>1, <2>2 DEF MarkHalf
<1>4. PICK j \in Job : Set(c, j) /\ (Resting(j) \/ \E k \in Job : k.todo = job[c].todo /\ j = Onward(k))
  BY <1>3
<1>5. job'[c] = j
  BY <1>1, <1>4, JobSet
<1>6. Keeps(t) => WorkOK(c)'
  BY <1>1, <1>4, <1>5, RestWork, OnwardWork
<1>7. CASE UNCHANGED <<pub, prv>>
  BY <1>1, <1>4, <1>6, <1>7, Still, NothingMoved
<1>8. CASE RowOf(c) = "sending" /\ Half(c) = "public" /\ ~ UNCHANGED <<pub, prv>>
  <2>1. Truthful(c) /\ pub[t].st = "sending"
    <3>1. job[c].todo \in LineNext
      BY <1>1, <1>8, HalfOf
    <3> QED  BY <1>1, <1>8, <3>1 DEF CommentInv, WorkInv, WorkOK, RowOf
  <2>2. /\ OthersSame(c) /\ prv' = prv /\ pub'[t].body = pub[t].body
        /\ pub'[t].st \in {"sent", "indeterminate", "failed"}
        /\ pub'[t].st = "failed" => pub'[t].attempts > 0
    <3>1. CASE pub' = [pub EXCEPT ![t].st = "sent", ![t].id = job[c].id] /\ UNCHANGED prv
      BY <1>1, <3>1 DEF OthersSame, CommentTyped, CommentTypeOK, PublicRow
    <3>2. CASE Row(c, "indeterminate")
      BY <1>1, <1>8, <3>2, RowSets, PublicSets DEF ReplyStates
    <3>3. CASE Failed(c)
      BY <1>1, <1>8, <3>3, FailedSets
    <3> QED  BY <1>8, <3>1, <3>2, <3>3 DEF MarkHalf
  <2>3. Keeps(t)
    BY <2>1, <2>2 DEF Keeps, Unsent
  <2> QED  BY <1>1, <1>4, <1>6, <2>1, <2>2, <2>3, PublicMoved
<1>9. CASE RowOf(c) = "sending" /\ Half(c) = "private" /\ ~ UNCHANGED <<pub, prv>>
  <2>1. job[c].todo \in ChatNext
    BY <1>1, <1>9, HalfOf
  <2>2. prv[Author[c]] # "sent" /\ (job[c].answer = "sent" => Author[c] \in got)
    BY <1>1, <1>9, <2>1 DEF CommentInv, WorkInv, WorkOK, RowOf
  <2>3. PICK st \in ReplyStates : Private(c, st) /\ (st = "sent" => Author[c] \in got)
    <3>1. {"sent", "indeterminate", "failed"} \subseteq ReplyStates
      BY DEF ReplyStates
    <3>2. Failed(c) => Private(c, "failed")
      BY <1>1, <1>9, FailedSets
    <3>3. Row(c, "indeterminate") => Private(c, "indeterminate")
      BY <1>1, <1>9, <3>1, RowSets
    <3>4. (job[c].answer = "sent" /\ Private(c, "sent")) \/ Private(c, "indeterminate") \/ Private(c, "failed")
      BY <1>9, <3>2, <3>3 DEF MarkHalf
    <3> QED  BY <2>2, <3>1, <3>4
  <2>4. WorkOK(c)'
    BY <1>1, <1>6, <2>3, Still DEF Private
  <2> QED  BY <1>1, <1>4, <2>2, <2>3, <2>4, PrivateMoved
<1> QED  BY <1>1, <1>7, <1>8, <1>9 DEF MarkHalf

\* What goes up on the wall is the row's line, and true.
LEMMA PostStep ==
    ASSUME CommentInv, NEW c \in Comments, Post(c)
    PROVE  Rest'
<1> DEFINE t == Thread[c]
           page == [ours |-> TRUE, body |-> pub[t].body, under |-> c, tags |-> Nobody,
                    inWindow |-> ~ pub[t].late, told |-> FALSE, knew |-> job[c].knew]
<1>1. PICK made \in BOOLEAN, answer \in Answers \ {"none"} :
        /\ answer = "sent" => made
        /\ IF made /\ Half(c) = "public" THEN wall' = [wall EXCEPT ![t] = Append(@, page)] ELSE UNCHANGED wall
        /\ got' = IF made /\ Half(c) = "private" THEN got \cup {Author[c]} ELSE got
        /\ Set(c, [job[c] EXCEPT !.pc = "mark", !.answer = answer, !.knew = {},
                                 !.id = IF made /\ answer = "sent" /\ Half(c) = "public"
                                        THEN Len(wall[t]) + 1 ELSE 0])
  BY DEF Post
<1> DEFINE id == IF made /\ answer = "sent" /\ Half(c) = "public" THEN Len(wall[t]) + 1 ELSE 0
           j == [job[c] EXCEPT !.pc = "mark", !.answer = answer, !.knew = {}, !.id = id]
<1>2. /\ CommentTyped /\ job[c] \in Job /\ job[c].pc = "post" /\ job[c].pc \in AtWork
      /\ OneRule(t) => job[c].knew = {}
      /\ t \in Threads /\ pub' = pub /\ prv' = prv
  BY ThisJob, RowsExist DEF CommentInv, WorkInv, WorkOK, Post, At, AtWork
<1>3. /\ Half(c) = "public" <=> job[c].todo \in LineNext
      /\ Half(c) = "private" <=> job[c].todo \in ChatNext
  BY <1>2, HalfOf
<1>4. Len(wall[t]) \in Nat /\ wall[t] \in Seq(PageComment)
  BY <1>2, NoticesTyped
<1>5. id \in Nat /\ Set(c, j)
  BY <1>1, <1>4
<1> HIDE DEF id
<1>6. j \in Job /\ j.pc = "mark" /\ j.todo = job[c].todo /\ j.knew = {} /\ j.answer = answer
  BY <1>2, <1>5 DEF Job
<1> HIDE DEF j
<1>7. job'[c] = j /\ \A d \in Comments \ {c} : job'[d] = job[d]
  BY <1>2, <1>5, <1>6, JobSet
<1>8. StaySent /\ SentInv'
  BY <1>1, <1>2, RowsExist DEF CommentInv, SentInv, StaySent
<1>9. Frame /\ RowInv'
  <2>1. RowOK(c)'
    BY <1>2 DEF CommentInv, RowInv, RowOK, Truthful
  <2> QED  BY <1>2, <1>8, <2>1, Still, RowsStep
<1>10. /\ job[c].todo \in LineNext => Truthful(c) /\ pub[t].st \notin Unsent
       /\ job[c].todo \notin {<<>>, <<"private">>} => pub[t].st # "none"
  BY <1>2 DEF CommentInv, WorkInv, WorkOK
<1>11. WorkOK(c)'
  <2>1. job[c].todo \in ChatNext /\ answer = "sent" => Author[c] \in got'
    BY <1>1, <1>3
  <2>2. Truthful(c) => Truthful(c)'
    BY <1>2 DEF Truthful
  <2> QED  BY <1>2, <1>6, <1>7, <1>10, <2>1, <2>2 DEF WorkOK
<1>12. WorkInv'
  BY <1>7, <1>9, <1>11, WorkKept DEF WorkInv
<1>13. WallInv'
  <2>1. CASE made /\ Half(c) = "public"
    <3>1. \E e \in PageComment :
            /\ OneRule(t) => e.knew = {}
            /\ e.body = pub[t].body /\ e.under = c
            /\ wall' = [wall EXCEPT ![t] = Append(wall[t], e)]
      <4>1. /\ page \in PageComment /\ page.body = pub[t].body /\ page.under = c
            /\ OneRule(t) => page.knew = {}
        BY <1>2 DEF PageComment, Job, CommentTyped, CommentTypeOK, PublicRow
      <4>2. wall' = [wall EXCEPT ![t] = Append(wall[t], page)]
        BY <1>1, <1>2, <2>1 DEF CommentTyped, CommentTypeOK
      <4> HIDE DEF page
      <4> QED  BY <4>1, <4>2
    <3>2. PICK e \in PageComment :
            /\ OneRule(t) => e.knew = {}
            /\ e.body = pub[t].body /\ e.under = c
            /\ wall' = [wall EXCEPT ![t] = Append(wall[t], e)] /\ wall \in [Threads -> Seq(PageComment)]
      BY <1>2, <3>1 DEF CommentTyped, CommentTypeOK
    <3>3. OnWallOK(t, e)'
      <4>1. Truthful(c) /\ pub[t].st \notin Unsent
        BY <1>3, <1>10, <2>1
      <4>2. OneRule(t) /\ pub[t].body = "claiming" => Author[c] \in got'
        BY <1>2, <1>8, <4>1, RowsExist DEF Truthful, CommentInv, SentInv, StaySent
      <4> QED  BY <1>2, <3>2, <4>1, <4>2 DEF OnWallOK
    <3>4. /\ wall'[t] = Append(wall[t], e)
          /\ DOMAIN wall'[t] = 1 .. Len(wall[t]) + 1 /\ DOMAIN wall[t] = 1 .. Len(wall[t])
          /\ wall'[t][Len(wall[t]) + 1] = e
          /\ \A i \in 1 .. Len(wall[t]) : wall'[t][i] = wall[t][i]
      BY <1>2, <1>4, <3>2
    <3>7. \A k \in DOMAIN wall'[t] : k # Len(wall[t]) + 1 => k \in 1 .. Len(wall[t])
      <4>1. \A n \in Nat : \A k \in 1 .. n + 1 : k # n + 1 => k \in 1 .. n
        OBVIOUS
      <4> QED  BY <1>4, <3>4, <4>1
    <3> SUFFICES ASSUME NEW u \in Threads, NEW i \in DOMAIN wall'[u] PROVE OnWallOK(u, wall[u][i])'
      BY DEF WallInv
    <3>5. CASE u = t /\ i = Len(wall[t]) + 1
      BY <3>3, <3>4, <3>5
    <3>6. CASE ~ (u = t /\ i = Len(wall[t]) + 1)
      <4>1. i \in DOMAIN wall[u] /\ wall'[u][i] = wall[u][i]
        <5>1. CASE u = t
          BY <3>4, <3>6, <3>7, <5>1
        <5>2. CASE u # t
          BY <1>2, <3>2, <5>2
        <5> QED  BY <5>1, <5>2
      <4>2. OnWallOK(u, wall[u][i]) /\ Keeps(u) /\ got \subseteq got'
        BY <1>9, <4>1 DEF CommentInv, WallInv, Frame, StaySent
      <4> QED  BY <1>2, <4>1, <4>2 DEF OnWallOK
    <3> QED  BY <3>5, <3>6
  <2>2. CASE ~ (made /\ Half(c) = "public")
    BY <1>1, <1>9, <2>2, WallKept
  <2> QED  BY <2>1, <2>2
<1> QED  BY <1>8, <1>9, <1>12, <1>13 DEF Rest

\* A notice, and what a person writes as the Page: none of it is ours.
LEMMA WallStep ==
    ASSUME CommentInv, NEW t \in Threads, Notice(t) \/ StaffWrites(t)
    PROVE  Rest'
<1>1. CommentTyped /\ pub' = pub /\ prv' = prv /\ job' = job /\ got' = got
  BY DEF CommentInv, Notice, StaffWrites
<1>2. /\ wall \in [Threads -> Seq(PageComment)] /\ wall[t] \in Seq(PageComment) /\ Len(wall[t]) \in Nat
      /\ DOMAIN wall[t] = 1 .. Len(wall[t]) /\ \A i \in DOMAIN wall[t] : wall[t][i] \in PageComment
  BY <1>1, NoticesTyped DEF CommentTyped, CommentTypeOK
<1>3. RowInv' /\ SentInv' /\ WorkInv'
  BY <1>1 DEF CommentInv, RowInv, RowOK, SentInv, WorkInv, WorkOK, Truthful
<1>4. \A u \in Threads : \A i \in DOMAIN wall[u] : OnWallOK(u, wall[u][i])
  BY DEF CommentInv, WallInv
<1>5. \A u \in Threads : \A page : OnWallOK(u, page)' <=> OnWallOK(u, page)
  BY <1>1 DEF OnWallOK
<1>6. CASE Notice(t)
  <2>1. PICK i \in DOMAIN wall[t] : wall' = [wall EXCEPT ![t][i].told = TRUE]
    BY <1>6 DEF Notice
  <2> DEFINE page == [wall[t][i] EXCEPT !.told = TRUE]
  <2>2. page \in PageComment /\ OnWallOK(t, page)
    BY <1>2, <1>4, <2>1 DEF PageComment, OnWallOK
  <2>3. wall' = [wall EXCEPT ![t] = [wall[t] EXCEPT ![i] = page]]
    BY <1>2, <2>1
  <2> HIDE DEF page
  <2>4. /\ DOMAIN wall'[t] = DOMAIN wall[t] /\ wall'[t][i] = page
        /\ \A k \in DOMAIN wall[t] \ {i} : wall'[t][k] = wall[t][k]
        /\ \A u \in Threads \ {t} : wall'[u] = wall[u]
    BY <1>2, <2>1, <2>3
  <2> SUFFICES ASSUME NEW u \in Threads, NEW k \in DOMAIN wall'[u] PROVE OnWallOK(u, wall[u][k])'
    BY <1>3 DEF Rest, WallInv
  <2>5. OnWallOK(u, wall'[u][k])
    BY <1>4, <2>2, <2>4
  <2> QED  BY <1>1, <2>5 DEF OnWallOK
<1>7. CASE StaffWrites(t)
  <2>1. \E page \in PageComment : ~ page.ours /\ page.knew = {} /\ wall' = [wall EXCEPT ![t] = Append(@, page)]
    <3>1. PICK words \in {"their words", pub[t].body}, tags \in People \cup {Nobody} :
            wall' = [wall EXCEPT ![t] = Append(@,
                        [ours |-> FALSE, body |-> words, under |-> t, tags |-> tags,
                         inWindow |-> pub[t].st # "none" /\ ~ pub[t].late, told |-> TRUE, knew |-> {}])]
      BY <1>7 DEF StaffWrites
    <3> DEFINE page == [ours |-> FALSE, body |-> words, under |-> t, tags |-> tags,
                        inWindow |-> pub[t].st # "none" /\ ~ pub[t].late, told |-> TRUE, knew |-> {}]
    <3>2. t \in Comments /\ pub[t] \in PublicRow
      BY <1>1, CommentAssumption DEF Threads, CommentTyped, CommentTypeOK
    <3>3. page \in PageComment /\ ~ page.ours /\ page.knew = {}
      BY <3>2 DEF PageComment, PublicRow, Bodies
    <3> HIDE DEF page
    <3> QED  BY <3>1, <3>3 DEF page
  <2>2. PICK page \in PageComment :
          ~ page.ours /\ page.knew = {} /\ wall' = [wall EXCEPT ![t] = Append(@, page)]
    BY <2>1
  <2>3. /\ wall'[t] = Append(wall[t], page) /\ DOMAIN wall'[t] = 1 .. Len(wall[t]) + 1
        /\ wall'[t][Len(wall[t]) + 1] = page
        /\ \A k \in 1 .. Len(wall[t]) : wall'[t][k] = wall[t][k]
        /\ \A u \in Threads \ {t} : wall'[u] = wall[u]
    BY <1>2, <2>2
  <2>4. OnWallOK(t, page)
    BY <2>2 DEF OnWallOK
  <2> SUFFICES ASSUME NEW u \in Threads, NEW k \in DOMAIN wall'[u] PROVE OnWallOK(u, wall[u][k])'
    BY <1>3 DEF Rest, WallInv
  <2>5. OnWallOK(u, wall'[u][k])
    <3>1. CASE u = t
      BY <1>2, <1>4, <2>3, <2>4, <3>1
    <3>2. CASE u # t
      BY <1>4, <2>3, <3>2
    <3> QED  BY <3>1, <3>2
  <2> QED  BY <1>1, <2>5 DEF OnWallOK
<1> QED  BY <1>6, <1>7

LEMMA SettleStep ==
    ASSUME CommentInv, NEW t \in Threads, Reconcile(t) \/ Sweep(t) \/ TenMinutes(t)
    PROVE  Rest'
<1>1. CommentTyped /\ prv' = prv /\ job' = job /\ wall' = wall /\ got' = got /\ pub \in [Threads -> PublicRow]
  BY DEF CommentInv, CommentTyped, CommentTypeOK, Reconcile, Sweep, TenMinutes, Page
<1>2. CASE pub' = pub
  BY <1>1, <1>2 DEF Rest, CommentInv, RowInv, RowOK, SentInv, WorkInv, WorkOK, WallInv, OnWallOK, Truthful
<1>3. CASE pub' # pub
  <2>1. /\ pub[t].st # "none" /\ \A u \in Threads \ {t} : pub'[u] = pub[u]
        /\ pub'[t].st \in {pub[t].st, "sent"} /\ (pub'[t].st # pub[t].st => pub[t].st \in Tried)
        /\ pub'[t].body = pub[t].body /\ pub'[t].attempts = pub[t].attempts
    <3>1. CASE \E i \in Nat : pub[t].st \in Tried /\ pub' = [pub EXCEPT ![t] = Reconciled(t, i)]
      BY <1>1, <3>1 DEF Reconciled, PublicRow, Tried
    <3>2. CASE TenMinutes(t)
      BY <1>1, <3>2 DEF TenMinutes, PublicRow, Pending, Parked
    <3>3. Reconcile(t) => settling[t] \in Nat
      BY <1>1 DEF CommentTyped, CommentTypeOK
    <3>4. Sweep(t) => Least(InWindow(t)) \in Nat
      BY <1>1, NoticesTyped DEF Sweep
    <3>5. Reconcile(t) => \E i \in Nat : pub[t].st \in Tried /\ pub' = [pub EXCEPT ![t] = Reconciled(t, i)]
      BY <1>3, <3>3 DEF Reconcile, Tried, Parked
    <3>6. Sweep(t) => \E i \in Nat : pub[t].st \in Tried /\ pub' = [pub EXCEPT ![t] = Reconciled(t, i)]
      BY <3>4 DEF Sweep, Tried
    <3> QED  BY <3>1, <3>2, <3>5, <3>6
  <2> QED  BY <1>1, <2>1, ThreadStep
<1> QED  BY <1>2, <1>3

LEMMA CommentStart == CommentInit => CommentInv
<1> SUFFICES ASSUME CommentInit PROVE CommentInv
  OBVIOUS
<1>1. NoRow \in PublicRow
  BY DEF NoRow, PublicRow, ReplyStates, Bodies
<1>2. /\ pub \in [Threads -> PublicRow] /\ prv \in [People -> ReplyStates]
      /\ wall \in [Threads -> Seq(PageComment)] /\ \A t \in Threads : DOMAIN wall[t] = {}
  BY <1>1 DEF CommentInit, ReplyStates
<1>3. staff \in 0 .. MaxStaff /\ faults \in 0 .. MaxFaults
  BY CommentAssumption DEF CommentInit
<1>4. CommentTypeOK
  <2>1. job \in [Comments -> Job]
    BY NewJobTyped DEF CommentInit
  <2>2. got \subseteq People /\ settling \in [Threads -> Nat]
    BY DEF CommentInit
  <2> QED  BY <1>2, <1>3, <2>1, <2>2 DEF CommentTypeOK
<1>5. \A c \in Comments : job[c] = NewJob /\ pub[Thread[c]] = NoRow
  BY RowsExist DEF CommentInit
<1>6. CommentTyped
  BY <1>4, <1>5, NewJobTyped, RestingShaped DEF CommentTyped
<1>7. RowInv
  BY <1>5 DEF RowInv, RowOK, NoRow, Tried
<1>8. WorkInv
  <2>1. NewJob.knew = {} /\ NewJob.pc \notin AtWork /\ NewJob.pc \notin {"go", "post", "mark"}
    BY DEF NewJob, AtWork
  <2> QED  BY <1>5, <2>1 DEF WorkInv, WorkOK
<1>9. SentInv /\ WallInv
  BY <1>2 DEF CommentInit, SentInv, WallInv
<1> QED  BY <1>6, <1>7, <1>8, <1>9 DEF CommentInv

LEMMA CommentStep ==
    ASSUME CommentInv, [CommentNext]_commentVars
    PROVE  CommentInv'
<1>1. CommentTyped'
  BY CommentTypedStep DEF CommentInv
<1>2. ASSUME UNCHANGED commentVars PROVE Rest'
  <2>1. pub' = pub /\ prv' = prv /\ job' = job /\ wall' = wall /\ got' = got
    BY <1>2 DEF commentVars
  <2>2. RowInv' /\ SentInv'
    BY <2>1 DEF CommentInv, RowInv, RowOK, Truthful, SentInv
  <2>3. WorkInv' /\ WallInv'
    BY <2>1 DEF CommentInv, WorkInv, WorkOK, WallInv, OnWallOK, Truthful
  <2> QED  BY <2>2, <2>3 DEF Rest
<1>3. ASSUME NEW c \in Comments, Works(c) \/ DraftHalf(c) \/ Unread(c) \/ MarkLost(c) \/ Stop(c) PROVE Rest'
  BY <1>3, DecideStep, HalvesDrafted, PairStep, PassStep, TwinStep, WithholdStep, HalfClaimed, UnreadStep, MarkStep,
     PostStep DEF Works
<1>4. ASSUME NEW t \in Threads, Notice(t) \/ StaffWrites(t) \/ Reconcile(t) \/ Sweep(t) \/ TenMinutes(t) PROVE Rest'
  BY <1>4, WallStep, SettleStep
<1>5. ASSUME CommentNext PROVE Rest'
  BY <1>3, <1>4, <1>5 DEF CommentNext
<1> QED  BY <1>1, <1>2, <1>5 DEF Rest, CommentInv

\* Every row, job and entry of a thread is what its type says, whatever the comments, the threads
\* they form, their authors and their rules (worker/comments.ts, comments/reconcile.ts).
THEOREM CommentTypeCorrect == CommentSpec => []CommentTypeOK
<1>1. CommentInit => CommentTyped
  BY CommentStart DEF CommentInv
<1>2. CommentTyped /\ [CommentNext]_commentVars => CommentTyped'
  BY CommentTypedStep
<1>3. CommentTyped => CommentTypeOK
  BY DEF CommentTyped
<1> QED  BY <1>1, <1>2, <1>3, PTL DEF CommentSpec

\* A thread gets one reply: no line is posted while one of ours is on the wall with its notice
\* stored, for any comments, threads, deliveries, failures and words of staff, and whatever goes on in
\* other threads - save in a thread where two people wrote or two rules claim, which the property
\* excepts (comments.ts:1396, reconcile.ts:480).
THEOREM OneReplyAThread == CommentSpec => []OneReplyPerThread
<1>1. CommentInv /\ [CommentNext]_commentVars => CommentInv'
  BY CommentStep
<1>2. CommentInv => OneReplyPerThread
  BY DEF CommentInv, WallInv, OnWallOK, OneReplyPerThread, RepliedOnce
<1> QED  BY <1>1, <1>2, CommentStart, PTL DEF CommentSpec

\* The line that says the details went by chat stands only where the chat arrived, whatever fails
\* between the two halves - with the same exception, in the property (sendClaimingPair, comments.ts:1318).
THEOREM ClaimsAreTrue == CommentSpec => []ClaimIsTrue
<1>1. CommentInv /\ [CommentNext]_commentVars => CommentInv'
  BY CommentStep
<1>2. CommentInv => ClaimIsTrue
  BY DEF CommentInv, WallInv, OnWallOK, ClaimIsTrue, TrueClaims
<1> QED  BY <1>1, <1>2, CommentStart, PTL DEF CommentSpec
=============================================================================
