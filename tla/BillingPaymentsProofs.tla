----------------------- MODULE BillingPaymentsProofs -----------------------
(***************************************************************************)
(* Proofs about BillingPayments for any number of runs, codes, payments,   *)
(* mistyped ids, failures and hours, and any lifetime and margin: no money *)
(* is counted twice, and none is forgotten while it is unrecorded.         *)
(***************************************************************************)
EXTENDS BillingPayments, WellFoundedInduction, TLAPS

\* One row a key, and a row of QPay's own id is that payment: only a person mistypes.
KeyInv ==
    /\ \A r, s \in rows : r.key = s.key => r = s
    /\ \A r \in rows : r.key = r.money \/ (r.hand /\ r.key \in Mistyped)

\* What was paid was paid on a code that was made; what QPay hides is younger than the margin;
\* a code is closed only past it.
CodeInv ==
    /\ \A p \in Payments : paid[p] # 0 => paid[p] \in Made
    /\ \A p \in Payments : paid[p] # 0 <=> shown[p] # "none"
    /\ \A p \in Payments : shown[p] = "unseen" => now < Expires(paid[p]) + Settle
    /\ \A c \in Codes : closed[c] => c \in Made /\ now >= Expires(c) + Settle

\* What a run has in mind is true when it uses it: of a code it heard about it found every payment,
\* or knows of one in flight, or the margin has not passed; what it found is recorded or still to do.
RunInv ==
    \A w \in Workers :
        /\ At(w, "idle") => job[w] = NoJob
        /\ At(w, "ask") => job[w].list # {}
        /\ job[w].list \cup job[w].answered \subseteq Made
        /\ \A c \in job[w].answered, p \in Payments :
               paid[p] = c => p \in job[w].found \/ c \in job[w].pending \/ now < Expires(c) + Settle
        /\ \A p \in job[w].found : p \in job[w].todo \/ \E r \in rows : r.key = p
        /\ At(w, "mark") => job[w].todo = {}

IInv == TypeOK /\ KeyInv /\ CountedOnce /\ CodeInv /\ RunInv /\ MoneyIsWatched

(***************************************************************************)
(* The operators                                                           *)
(***************************************************************************)

LEMMA LeastOf ==
    ASSUME NEW S \in SUBSET Nat, S # {}
    PROVE  \E d \in S : \A e \in S : d <= e
<1> DEFINE R == OpToRel(<, Nat)
<1>1. IsWellFoundedOn(R, Nat)
  BY NatLessThanWellFounded
<1>2. \A x, y \in Nat : x < y => <<x, y>> \in R
  BY DEF OpToRel
<1> HIDE DEF R
<1>3. \E x \in S : \A y \in S : ~ (<<y, x>> \in R)
  BY <1>1, WFMin
<1>4. \A x, y \in Nat : ~ (x < y) => y <= x
  OBVIOUS
<1> QED  BY <1>2, <1>3, <1>4

LEMMA GreatestOf ==
    ASSUME NEW n \in Nat, NEW S \in SUBSET (1 .. n), S # {}
    PROVE  \E d \in S : \A e \in S : e <= d
<1> DEFINE T == {n - d : d \in S}
<1>1. T \in SUBSET Nat
  OBVIOUS
<1>2. T # {}
  OBVIOUS
<1>3. \A d \in S : n - d \in T
  OBVIOUS
<1>4. \A t \in T : \E d \in S : t = n - d
  OBVIOUS
<1> HIDE DEF T
<1>5. PICK t \in T : \A u \in T : t <= u
  BY <1>1, <1>2, LeastOf
<1>6. PICK d \in S : t = n - d
  BY <1>4
<1>7. ASSUME NEW e \in S PROVE e <= d
  <2>1. t <= n - e
    BY <1>3, <1>5
  <2> QED  BY <2>1, <1>6
<1> QED  BY <1>7

LEMMA Naturals ==
    /\ MaxCodes \in Nat /\ Lifetime \in Nat /\ Settle \in Nat /\ Settle >= 1
    /\ MaxTime \in Nat /\ MaxFaults \in Nat
    /\ Times \subseteq Nat /\ Codes \subseteq Nat
  BY BillingAssumption DEF Times, Codes

\* The newest code is one that was made, or there is none; the one after it was not.
LEMMA NewestIsLast ==
    /\ Newest \in 0 .. MaxCodes
    /\ Newest < MaxCodes => Newest + 1 \in Codes \ Made
<1>1. CASE Made = {}
  BY <1>1, Naturals DEF Newest, Codes
<1>2. CASE Made # {}
  <2>1. Made \in SUBSET (1 .. MaxCodes)
    BY DEF Made, Codes
  <2>2. \E d \in Made : \A e \in Made : e <= d
    BY <1>2, <2>1, Naturals, GreatestOf
  <2>3. Newest \in Made /\ \A e \in Made : e <= Newest
    BY <1>2, <2>2 DEF Newest
  <2>4. Newest \in 1 .. MaxCodes
    BY <2>1, <2>3
  <2>5. Newest + 1 \notin Made
    BY <2>3, <2>4
  <2> QED  BY <2>4, <2>5, Naturals DEF Codes
<1> QED  BY <1>1, <1>2

\* The code a run asks about next is one of its list.
LEMMA AskedIsListed ==
    ASSUME NEW S \in SUBSET Codes, S # {}
    PROVE  (CHOOSE d \in S : \A e \in S : d <= e) \in S
<1>1. S \in SUBSET Nat
  BY Naturals
<1> QED  BY <1>1, LeastOf

\* What a run counts as named by QPay is payments.
LEMMA ReportedArePayments ==
    ASSUME TypeOK, NEW w \in Workers PROVE Reported(w) \subseteq Payments
  BY DEF TypeOK, Reported, Job

(***************************************************************************)
(* The types                                                               *)
(***************************************************************************)

NoJobType == NoJob \in Job

LEMMA NoJobIsOne == NoJobType
  BY Naturals DEF NoJobType, NoJob, Job

LEMMA InitTypes == Init => TypeOK
  BY NoJobIsOne, Naturals DEF Init, TypeOK, NoJobType, Times, Places

\* A run that ends, for whatever reason, leaves a place and a job of the right kind.
LEMMA EndTypes ==
    ASSUME TypeOK, NEW w \in Workers, End(w)
    PROVE  pc' \in [Workers -> Places] /\ job' \in [Workers -> Job]
  BY NoJobIsOne DEF TypeOK, End, Goto, Keep, NoJobType, Places

\* What a record leaves are rows.
LEMMA RecordTypes ==
    ASSUME TypeOK, NEW key \in Payments \cup Mistyped, NEW money \in Payments, NEW hand \in BOOLEAN,
           NEW second, NEW reported, RecordPayment(key, money, hand, second, reported)
    PROVE  rows' \subseteq Row
<1>1. [key |-> key, money |-> money, hand |-> hand] \in Row
  BY DEF Row
<1> QED  BY <1>1 DEF TypeOK, RecordPayment

LEMMA BeginTypes ==
    ASSUME TypeOK, NEW w \in Workers, NEW list \in SUBSET Watched, Begin(w, list)
    PROVE  TypeOK'
<1>1. list \subseteq Codes /\ EverReported(list) \subseteq Payments
  BY DEF Watched, Made, EverReported, TypeOK
<1>2. [c \in Codes |-> IF c \in list THEN named[c] ELSE {}] \in [Codes -> SUBSET Payments]
  BY DEF TypeOK
<1>3. [NoJob EXCEPT !.list = list, !.ever = EverReported(list),
                    !.had = [c \in Codes |-> IF c \in list THEN named[c] ELSE {}]] \in Job
  BY <1>1, <1>2, NoJobIsOne DEF NoJobType, Job
<1>4. pc' \in [Workers -> Places] /\ job' \in [Workers -> Job]
  BY <1>3 DEF Begin, Goto, Keep, TypeOK, Places
<1> QED  BY <1>4 DEF TypeOK, Begin, NoFault, codes, qpay

LEMMA AskTypes ==
    ASSUME TypeOK, RunInv, NEW w \in Workers, Ask(w)
    PROVE  TypeOK'
<1> DEFINE j == job[w]
           c == CHOOSE d \in j.list : \A e \in j.list : d <= e
           settled == {p \in Payments : paid[p] = c /\ shown[p] = "settled"}
           inFlight == \E p \in Payments : paid[p] = c /\ shown[p] = "pending"
           heard == [j EXCEPT !.list = @ \ {c}, !.answered = @ \cup {c},
                              !.pending = IF inFlight THEN @ \cup {c} ELSE @,
                              !.found = @ \cup settled, !.todo = @ \cup settled]
<1>1. j \in Job /\ j.list \in SUBSET Codes /\ j.list # {}
  BY DEF TypeOK, Job, Ask, At, RunInv
<1>2. c \in j.list
  BY <1>1, AskedIsListed
<1>3. settled \subseteq Payments
  OBVIOUS
<1>4. /\ \/ Keep(w, heard) /\ NoFault
         \/ Keep(w, [j EXCEPT !.list = @ \ {c}]) /\ Fault
      /\ Goto(w, IF j.list = {c} THEN "prior" ELSE "ask")
      /\ UNCHANGED <<now, rows, codes, qpay>>
  BY DEF Ask
<1> HIDE DEF c, settled, inFlight
<1>5. heard \in Job
  BY <1>1, <1>2, <1>3 DEF Job
<1>6. [j EXCEPT !.list = @ \ {c}] \in Job
  BY <1>1 DEF Job
<1> HIDE DEF heard, j
<1>7. job' \in [Workers -> Job]
  BY <1>4, <1>5, <1>6 DEF Keep, TypeOK
<1>8. pc' \in [Workers -> Places]
  BY <1>4 DEF Goto, TypeOK, Places
<1>9. faults' \in 0 .. MaxFaults
  BY <1>4, Naturals DEF TypeOK, NoFault, Fault
<1> QED  BY <1>4, <1>7, <1>8, <1>9 DEF TypeOK, codes, qpay

LEMMA PriorTypes ==
    ASSUME TypeOK, NEW w \in Workers, Prior(w)
    PROVE  TypeOK'
<1>1. pc' \in [Workers -> Places] /\ job' \in [Workers -> Job]
  <2>1. CASE End(w)
    BY <2>1, EndTypes
  <2>2. CASE Goto(w, IF job[w].todo = {} THEN "mark" ELSE "record") /\ UNCHANGED job
    BY <2>2 DEF Goto, TypeOK, Places
  <2> QED  BY <2>1, <2>2 DEF Prior
<1> QED  BY <1>1 DEF TypeOK, Prior, NoFault, codes, qpay

LEMMA RecordRunTypes ==
    ASSUME TypeOK, NEW w \in Workers, Record(w)
    PROVE  TypeOK'
<1>1. PICK p \in job[w].todo :
        /\ \/ /\ RecordPayment(p, p, FALSE, FALSE, Reported(w))
              /\ Keep(w, [job[w] EXCEPT !.todo = @ \ {p}])
              /\ Goto(w, IF job[w].todo = {p} THEN "mark" ELSE "record")
           \/ End(w) /\ UNCHANGED rows
        /\ UNCHANGED <<now, codes, qpay>> /\ NoFault
  BY DEF Record
<1>2. p \in Payments /\ [job[w] EXCEPT !.todo = @ \ {p}] \in Job
  BY DEF TypeOK, Job
<1>3. /\ pc' \in [Workers -> Places] /\ job' \in [Workers -> Job]
      /\ rows' \subseteq Row
  <2>1. CASE /\ RecordPayment(p, p, FALSE, FALSE, Reported(w))
             /\ Keep(w, [job[w] EXCEPT !.todo = @ \ {p}])
             /\ Goto(w, IF job[w].todo = {p} THEN "mark" ELSE "record")
    <3>1. rows' \subseteq Row
      BY <1>2, <2>1, RecordTypes
    <3> QED  BY <1>2, <2>1, <3>1 DEF Keep, Goto, TypeOK, Places
  <2>2. CASE End(w) /\ UNCHANGED rows
    BY <2>2, EndTypes DEF TypeOK
  <2> QED  BY <1>1, <2>1, <2>2
<1> QED  BY <1>1, <1>3 DEF TypeOK, NoFault, codes, qpay

LEMMA MarkTypes ==
    ASSUME TypeOK, NEW w \in Workers, Mark(w)
    PROVE  TypeOK'
<1>1. pc' \in [Workers -> Places] /\ job' \in [Workers -> Job]
  BY EndTypes DEF Mark
<1>2. \A c \in Codes : job[w].had[c] \cup {p \in job[w].found : paid[p] = c} \subseteq Payments
  BY DEF TypeOK, Job
<1>3. named' \in [Codes -> SUBSET Payments]
  BY <1>2 DEF Mark, TypeOK
<1>4. closed' \in [Codes -> BOOLEAN]
  <2>1. PICK noted : closed' = [c \in Codes |-> closed[c] \/ (c \in noted /\ Final(w, c))]
    BY DEF Mark
  <2>2. \A c \in Codes : (closed[c] \/ (c \in noted /\ Final(w, c))) \in BOOLEAN
    BY DEF Final
  <2> QED  BY <2>1, <2>2, Zenon
<1>5. faults' \in 0 .. MaxFaults
  BY Naturals DEF TypeOK, Mark, NoFault, Fault
<1> QED  BY <1>1, <1>3, <1>4, <1>5 DEF TypeOK, Mark, qpay

LEMMA PageTypes ==
    ASSUME TypeOK, NEW w \in Workers, NEW renew \in BOOLEAN, Page(w, renew)
    PROVE  TypeOK'
<1>1. [NoJob EXCEPT !.renew = renew, !.latest = Newest] \in Job
  BY NoJobIsOne, NewestIsLast DEF NoJobType, Job
<1>2. pc' \in [Workers -> Places] /\ job' \in [Workers -> Job]
  BY <1>1 DEF Page, Goto, Keep, TypeOK, Places
<1> QED  BY <1>2 DEF TypeOK, Page, NoFault, codes, qpay

LEMMA AddTypes ==
    ASSUME TypeOK, NEW w \in Workers, Add(w)
    PROVE  TypeOK'
<1>1. pc' \in [Workers -> Places] /\ job' \in [Workers -> Job]
  BY EndTypes DEF Add
<1>2. made' \in [Codes -> Times \cup {Never}]
  BY DEF Add, TypeOK
<1>3. withdrawn' \in [Codes -> BOOLEAN]
  <2>1. CASE UNCHANGED withdrawn
    BY <2>1 DEF TypeOK
  <2>2. CASE withdrawn' = [withdrawn EXCEPT ![job[w].latest] = @ \/ now < Expires(job[w].latest)]
    <3>1. (withdrawn[job[w].latest] \/ now < Expires(job[w].latest)) \in BOOLEAN
      OBVIOUS
    <3> QED  BY <2>2, <3>1 DEF TypeOK
  <2> QED  BY <2>1, <2>2 DEF Add
<1> QED  BY <1>1, <1>2, <1>3 DEF TypeOK, Add, NoFault, qpay

LEMMA WorldTypes ==
    ASSUME TypeOK,
           \/ \E p \in Payments, c \in Codes : Pay(p, c)
           \/ \E p \in Payments, s \in {"pending", "settled"} : Show(p, s)
           \/ \E p \in Payments, key \in Payments \cup Mistyped, second \in BOOLEAN : ByHand(p, key, second)
           \/ Tick
    PROVE  TypeOK'
<1>1. ASSUME NEW p \in Payments, NEW c \in Codes, Pay(p, c) PROVE TypeOK'
  <2>1. paid' \in [Payments -> 0 .. MaxCodes] /\ shown' \in [Payments -> {"none", "unseen", "pending", "settled"}]
    BY <1>1, Naturals DEF Pay, TypeOK, Codes
  <2> QED  BY <1>1, <2>1 DEF Pay, TypeOK, NoFault, codes
<1>2. ASSUME NEW p \in Payments, NEW s \in {"pending", "settled"}, Show(p, s) PROVE TypeOK'
  BY <1>2 DEF Show, TypeOK, NoFault, codes
<1>3. ASSUME NEW p \in Payments, NEW key \in Payments \cup Mistyped, NEW second \in BOOLEAN,
             ByHand(p, key, second)
      PROVE TypeOK'
  <2>1. RecordPayment(key, p, TRUE, second, {})
    BY <1>3 DEF ByHand
  <2>2. TRUE \in BOOLEAN
    OBVIOUS
  <2>3. rows' \subseteq Row
    BY <2>1, <2>2, RecordTypes
  <2> QED  BY <1>3, <2>3 DEF ByHand, TypeOK, NoFault, codes, qpay
<1>4. CASE Tick
  BY <1>4, Naturals DEF Tick, TypeOK, Times, NoFault, codes, qpay
<1> QED  BY <1>1, <1>2, <1>3, <1>4

LEMMA NextTypes == TypeOK /\ RunInv /\ [Next]_vars => TypeOK'
<1> SUFFICES ASSUME TypeOK, RunInv, [Next]_vars PROVE TypeOK'
  OBVIOUS
<1>1. ASSUME NEW w \in Workers, Step(w) PROVE TypeOK'
  BY <1>1, AskTypes, PriorTypes, RecordRunTypes, MarkTypes, AddTypes DEF Step
<1>2. ASSUME NEW w \in Workers, Die(w) PROVE TypeOK'
  <2>1. pc' \in [Workers -> Places] /\ job' \in [Workers -> Job]
    BY <1>2, EndTypes DEF Die
  <2> QED  BY <1>2, <2>1, Naturals DEF Die, Fault, TypeOK, codes, qpay
<1>3. CASE UNCHANGED vars
  BY <1>3 DEF vars, codes, qpay, TypeOK
<1> QED  BY <1>1, <1>2, <1>3, BeginTypes, PageTypes, WorldTypes DEF Next

(***************************************************************************)
(* The rows: one a payment                                                 *)
(***************************************************************************)

RowsInv == KeyInv /\ CountedOnce

LEMMA InitRows == Init => RowsInv
  BY DEF Init, RowsInv, KeyInv, CountedOnce

\* A payment a run records under QPay's own id: whoever entered it by hand under another id is
\* in conflict, since QPay named no mistyped one.
LEMMA RecordKeepsRows ==
    ASSUME TypeOK, RowsInv, NEW w \in Workers, NEW p \in Payments,
           RecordPayment(p, p, FALSE, FALSE, Reported(w))
    PROVE  RowsInv'
<1>1. CASE \E r \in rows : r.key = p
  BY <1>1 DEF RecordPayment, RowsInv, KeyInv, CountedOnce
<1>2. CASE \A r \in rows : r.key # p
  <2> DEFINE new == [key |-> p, money |-> p, hand |-> FALSE]
  <2>1. rows' = rows \cup {new}
    BY <1>2 DEF RecordPayment
  <2>2. \A r \in rows : r.money # p
    <3> SUFFICES ASSUME NEW r \in rows, r.money = p PROVE FALSE
      OBVIOUS
    <3>1. r.key # p
      BY <1>2
    <3>2. r.hand /\ r.key \in Mistyped
      BY <3>1 DEF RowsInv, KeyInv
    <3>3. r.key \notin Reported(w)
      BY <3>2, ReportedArePayments, BillingAssumption
    <3>4. r \in Conflicts(p, FALSE, FALSE, Reported(w))
      BY <1>2, <3>2, <3>3 DEF Conflicts
    <3> QED  BY <3>4 DEF RecordPayment
  <2>3. new.key = p /\ new.money = p
    OBVIOUS
  <2> HIDE DEF new
  <2>4. KeyInv'
    BY <1>2, <2>1, <2>3 DEF RowsInv, KeyInv
  <2>5. CountedOnce'
    BY <2>1, <2>2, <2>3 DEF RowsInv, CountedOnce
  <2> QED  BY <2>4, <2>5 DEF RowsInv
<1> QED  BY <1>1, <1>2

\* An entry by hand: money a run recorded has its own id, which the function finds as the same row,
\* or as one of the other recorder under another key.
LEMMA HandKeepsRows ==
    ASSUME TypeOK, RowsInv, NEW p \in Payments, NEW key \in Payments \cup Mistyped, NEW second \in BOOLEAN,
           ByHand(p, key, second)
    PROVE  RowsInv'
<1>1. RecordPayment(key, p, TRUE, second, {})
  BY DEF ByHand
<1>2. CASE \E r \in rows : r.key = key
  BY <1>1, <1>2 DEF RecordPayment, RowsInv, KeyInv, CountedOnce
<1>3. CASE \A r \in rows : r.key # key
  <2> DEFINE new == [key |-> key, money |-> p, hand |-> TRUE]
  <2>1. rows' = rows \cup {new}
    BY <1>1, <1>3 DEF RecordPayment
  <2>2. \A r \in rows : r.money # p
    <3> SUFFICES ASSUME NEW r \in rows, r.money = p PROVE FALSE
      OBVIOUS
    <3>1. ~ r.hand /\ ~ second
      BY DEF ByHand
    <3>2. r.hand # TRUE
      BY <3>1
    <3>3. r \in Conflicts(key, TRUE, second, {})
      BY <1>3, <3>1, <3>2 DEF Conflicts
    <3> QED  BY <1>1, <3>3 DEF RecordPayment
  <2>3. new.key = key /\ new.money = p /\ new.hand
    OBVIOUS
  <2>4. key = p \/ key \in Mistyped
    BY DEF ByHand
  <2> HIDE DEF new
  <2>5. KeyInv'
    BY <1>3, <2>1, <2>3, <2>4 DEF RowsInv, KeyInv
  <2>6. CountedOnce'
    BY <2>1, <2>2, <2>3 DEF RowsInv, CountedOnce
  <2> QED  BY <2>5, <2>6 DEF RowsInv
<1> QED  BY <1>2, <1>3

\* Rows are written by these two alone, and never deleted.
LEMMA RowsAreWritten ==
    ASSUME [Next]_vars
    PROVE  \/ UNCHANGED rows
           \/ \E w \in Workers : \E p \in job[w].todo : RecordPayment(p, p, FALSE, FALSE, Reported(w))
           \/ \E p \in Payments, key \in Payments \cup Mistyped, second \in BOOLEAN : ByHand(p, key, second)
<1>1. ASSUME NEW w \in Workers, Step(w) PROVE UNCHANGED rows \/ Record(w)
  BY <1>1 DEF Step, Ask, Prior, Mark, Add
<1>2. ASSUME NEW w \in Workers, Record(w)
      PROVE UNCHANGED rows \/ \E p \in job[w].todo : RecordPayment(p, p, FALSE, FALSE, Reported(w))
  BY <1>2 DEF Record
<1>3. ASSUME NEW w \in Workers, Die(w) \/ (\E list \in SUBSET Watched : Begin(w, list))
                              \/ (\E renew \in BOOLEAN : Page(w, renew))
      PROVE UNCHANGED rows
  BY <1>3 DEF Die, Begin, Page
<1>4. ASSUME NEW p \in Payments,
             (\E c \in Codes : Pay(p, c)) \/ \E s \in {"pending", "settled"} : Show(p, s)
      PROVE UNCHANGED rows
  BY <1>4 DEF Pay, Show
<1>5. Tick \/ UNCHANGED vars => UNCHANGED rows
  BY DEF Tick, vars
<1> QED  BY <1>1, <1>2, <1>3, <1>4, <1>5 DEF Next

LEMMA NextRows == TypeOK /\ RowsInv /\ [Next]_vars => RowsInv'
<1> SUFFICES ASSUME TypeOK, RowsInv, [Next]_vars PROVE RowsInv'
  OBVIOUS
<1>1. CASE UNCHANGED rows
  BY <1>1 DEF RowsInv, KeyInv, CountedOnce
<1>2. \A w \in Workers : job[w].todo \subseteq Payments
  BY DEF TypeOK, Job
<1> QED  BY <1>1, <1>2, RowsAreWritten, RecordKeepsRows, HandKeepsRows

\* A row stays.
LEMMA RowsStay ==
    ASSUME TypeOK, [Next]_vars PROVE rows \subseteq rows'
<1>1. ASSUME NEW key, NEW money, NEW hand, NEW second, NEW reported,
             RecordPayment(key, money, hand, second, reported)
      PROVE rows \subseteq rows'
  BY <1>1 DEF RecordPayment
<1>2. ASSUME NEW p, NEW key, NEW second, ByHand(p, key, second) PROVE rows \subseteq rows'
  BY <1>1, <1>2 DEF ByHand
<1> QED  BY <1>1, <1>2, RowsAreWritten

(***************************************************************************)
(* The codes                                                               *)
(***************************************************************************)

LEMMA InitCodes == Init => CodeInv /\ MoneyIsWatched
  BY DEF Init, CodeInv, MoneyIsWatched

\* A step that writes no code, no payment and no clock.
LEMMA CodesUntouched ==
    ASSUME CodeInv, UNCHANGED <<now, made, closed, paid, shown>> PROVE CodeInv'
  BY DEF CodeInv, Made, Expires

LEMMA MarkKeepsCodes ==
    ASSUME TypeOK, CodeInv, RunInv, NEW w \in Workers, Mark(w)
    PROVE  CodeInv'
<1>1. PICK noted \in SUBSET job[w].answered :
        closed' = [c \in Codes |-> closed[c] \/ (c \in noted /\ Final(w, c))]
  BY DEF Mark
<1>2. noted \subseteq Made
  BY <1>1 DEF RunInv
<1>3. UNCHANGED <<now, made, paid, shown>>
  BY DEF Mark, qpay
<1>4. Made' = Made /\ \A c : Expires(c)' = Expires(c)
  BY <1>3 DEF Made, Expires
<1>5. \A c \in Codes : closed'[c] => c \in Made /\ now >= Expires(c) + Settle
  BY <1>1, <1>2 DEF Final, CodeInv
<1> QED  BY <1>3, <1>4, <1>5 DEF CodeInv

LEMMA AddKeepsCodes ==
    ASSUME TypeOK, CodeInv, NEW w \in Workers, Add(w)
    PROVE  CodeInv' /\ Made \subseteq Made' /\ \A c \in Made : Expires(c)' = Expires(c)
<1>1. UNCHANGED <<now, closed, paid, shown>>
  BY DEF Add, qpay
<1>2. Made \subseteq Made' /\ \A c \in Made : made'[c] = made[c]
  <2>1. CASE UNCHANGED made
    BY <2>1 DEF Made
  <2>2. CASE Newest < MaxCodes /\ made' = [made EXCEPT ![Newest + 1] = now]
    BY <2>2, NewestIsLast DEF Made, TypeOK
  <2> QED  BY <2>1, <2>2 DEF Add
<1>3. \A c \in Made : Expires(c)' = Expires(c)
  BY <1>2 DEF Expires
<1>4. \A p \in Payments : shown[p] = "unseen" => paid[p] \in Made
  BY DEF CodeInv
<1>5. CodeInv'
  BY <1>1, <1>2, <1>3, <1>4 DEF CodeInv
<1> QED  BY <1>2, <1>3, <1>5

LEMMA CodeTimes ==
    ASSUME TypeOK
    PROVE  now \in Int /\ \A c \in Codes : Expires(c) \in Int /\ Expires(c) + Settle \in Int
<1>1. Never \in Int
  BY DEF Never
<1>2. Times \cup {Never} \subseteq Int
  BY <1>1, Naturals
<1>3. \A c \in Codes : made[c] \in Int
  BY <1>2 DEF TypeOK
<1> QED  BY <1>2, <1>3, Naturals DEF TypeOK, Expires

LEMMA PayKeepsCodes ==
    ASSUME TypeOK, CodeInv, NEW p \in Payments, NEW c \in Codes, Pay(p, c)
    PROVE  CodeInv'
<1>1. UNCHANGED <<now, made, closed>>
  BY DEF Pay, codes
<1>2. Made' = Made /\ \A d : Expires(d)' = Expires(d)
  BY <1>1 DEF Made, Expires
<1>3. c # 0 /\ c \in Made
  BY Naturals DEF Pay, Codes
<1>4. now < Expires(c) + Settle
  <2>1. now <= Expires(c)
    BY DEF Pay
  <2> QED  BY <2>1, CodeTimes, Naturals
<1>5. /\ paid' = [paid EXCEPT ![p] = c] /\ shown' = [shown EXCEPT ![p] = "unseen"]
  BY DEF Pay
<1> QED  BY <1>1, <1>2, <1>3, <1>4, <1>5 DEF CodeInv, TypeOK

LEMMA TickKeepsCodes ==
    ASSUME TypeOK, CodeInv, Tick
    PROVE  CodeInv'
<1>1. UNCHANGED <<made, closed, paid, shown>> /\ now' = now + 1 /\ now \in Int
  BY CodeTimes DEF Tick, codes, qpay
<1>2. Made' = Made /\ \A d : Expires(d)' = Expires(d)
  BY <1>1 DEF Made, Expires
<1>3. \A d \in Codes : Expires(d) + Settle \in Int
  BY CodeTimes
<1>4. \A p \in Payments : shown[p] = "unseen" => now + 1 < Expires(paid[p]) + Settle
  BY DEF Tick
<1>5. \A d \in Codes : closed[d] => now + 1 >= Expires(d) + Settle
  BY <1>1, <1>3 DEF CodeInv
<1> QED  BY <1>1, <1>2, <1>4, <1>5 DEF CodeInv

LEMMA NextCodes == TypeOK /\ RunInv /\ CodeInv /\ [Next]_vars => CodeInv'
<1> SUFFICES ASSUME TypeOK, RunInv, CodeInv, [Next]_vars PROVE CodeInv'
  OBVIOUS
<1>1. ASSUME NEW w \in Workers, Step(w) PROVE CodeInv'
  <2>1. CASE Ask(w) \/ Prior(w) \/ Record(w)
    BY <2>1, CodesUntouched DEF Ask, Prior, Record, codes, qpay
  <2> QED  BY <1>1, <2>1, MarkKeepsCodes, AddKeepsCodes DEF Step
<1>2. ASSUME NEW w \in Workers, Die(w) \/ (\E list \in SUBSET Watched : Begin(w, list))
                              \/ (\E renew \in BOOLEAN : Page(w, renew))
      PROVE CodeInv'
  BY <1>2, CodesUntouched DEF Die, Begin, Page, codes, qpay
<1>3. ASSUME NEW p \in Payments, NEW s \in {"pending", "settled"}, Show(p, s) PROVE CodeInv'
  <2>1. UNCHANGED <<now, made, closed, paid>> /\ shown' = [shown EXCEPT ![p] = s] /\ shown[p] # "none"
    BY <1>3 DEF Show, codes
  <2>2. Made' = Made /\ \A d : Expires(d)' = Expires(d)
    BY <2>1 DEF Made, Expires
  <2> QED  BY <2>1, <2>2 DEF CodeInv, TypeOK
<1>4. ASSUME NEW p \in Payments, NEW key \in Payments \cup Mistyped, NEW second \in BOOLEAN,
             ByHand(p, key, second)
      PROVE CodeInv'
  BY <1>4, CodesUntouched DEF ByHand, codes, qpay
<1>5. CASE UNCHANGED vars
  BY <1>5, CodesUntouched DEF vars, codes, qpay
<1> QED  BY <1>1, <1>2, <1>3, <1>4, <1>5, PayKeepsCodes, TickKeepsCodes DEF Next

(***************************************************************************)
(* The runs: what a run keeps in mind                                      *)
(***************************************************************************)

\* One run's part of RunInv.
Knows(w) ==
    /\ At(w, "idle") => job[w] = NoJob
    /\ At(w, "ask") => job[w].list # {}
    /\ job[w].list \cup job[w].answered \subseteq Made
    /\ \A c \in job[w].answered, p \in Payments :
           paid[p] = c => p \in job[w].found \/ c \in job[w].pending \/ now < Expires(c) + Settle
    /\ \A p \in job[w].found : p \in job[w].todo \/ \E r \in rows : r.key = p
    /\ At(w, "mark") => job[w].todo = {}

LEMMA RunsKnow == RunInv <=> \A w \in Workers : Knows(w)
  BY DEF RunInv, Knows

LEMMA InitRuns == Init => RunInv
<1> SUFFICES ASSUME Init, NEW w \in Workers PROVE Knows(w)
  BY RunsKnow
<1>1. pc[w] = "idle" /\ job[w] = NoJob
  BY DEF Init
<1> QED  BY <1>1 DEF Knows, At, NoJob

\* A run that has just begun, or ended, or that makes a code, knows nothing.
LEMMA KnowsNothing ==
    ASSUME NEW w \in Workers, job'[w].answered = {}, job'[w].found = {}, job'[w].todo = {},
           job'[w].list \subseteq Made',
           pc'[w] = "idle" => job'[w] = NoJob,
           pc'[w] = "ask" => job'[w].list # {}
    PROVE  Knows(w)'
  BY DEF Knows, At

LEMMA EndKnows ==
    ASSUME TypeOK, NEW w \in Workers, End(w) PROVE Knows(w)'
<1>1. pc'[w] = "idle" /\ job'[w] = NoJob
  BY DEF End, Goto, Keep, TypeOK
<1>2. /\ NoJob.answered = {} /\ NoJob.found = {} /\ NoJob.todo = {} /\ NoJob.list = {}
  BY DEF NoJob
<1> QED  BY <1>1, <1>2, KnowsNothing

\* What another does takes nothing away from what a run knows: codes stay made, rows stay, money
\* QPay takes is on a living code.
LEMMA OthersKeep ==
    ASSUME TypeOK, CodeInv, NEW w \in Workers, Knows(w),
           pc'[w] = pc[w], job'[w] = job[w], rows \subseteq rows',
           Made \subseteq Made', \A c \in Made : Expires(c)' = Expires(c),
           now' = now \/ pc[w] = "idle",
           \A p \in Payments : paid'[p] = paid[p] \/ now < Expires(paid'[p]) + Settle
    PROVE  Knows(w)'
<1>1. CASE pc[w] = "idle"
  <2>1. job[w] = NoJob
    BY <1>1 DEF Knows, At
  <2>2. NoJob.answered = {} /\ NoJob.found = {} /\ NoJob.todo = {} /\ NoJob.list = {}
    BY DEF NoJob
  <2> QED  BY <1>1, <2>1, <2>2, KnowsNothing
<1>2. CASE pc[w] # "idle"
  <2>1. now' = now
    BY <1>2
  <2>2. job[w].answered \subseteq Made
    BY DEF Knows
  <2>3. \A c \in job[w].answered, p \in Payments :
            paid'[p] = c => p \in job[w].found \/ c \in job[w].pending \/ now < Expires(c)' + Settle
    BY <2>2 DEF Knows
  <2> QED  BY <2>1, <2>3 DEF Knows, At
<1> QED  BY <1>1, <1>2

\* QPay's answer: each payment on the code is settled and found, in flight and noted so, or hidden
\* still, which QPay does for less than the margin.
LEMMA AskKnows ==
    ASSUME TypeOK, CodeInv, NEW w \in Workers, Knows(w), Ask(w)
    PROVE  Knows(w)'
<1> DEFINE j == job[w]
           c == CHOOSE d \in j.list : \A e \in j.list : d <= e
           settled == {p \in Payments : paid[p] = c /\ shown[p] = "settled"}
           inFlight == \E p \in Payments : paid[p] = c /\ shown[p] = "pending"
           heard == [j EXCEPT !.list = @ \ {c}, !.answered = @ \cup {c},
                              !.pending = IF inFlight THEN @ \cup {c} ELSE @,
                              !.found = @ \cup settled, !.todo = @ \cup settled]
           silent == [j EXCEPT !.list = @ \ {c}]
<1>1. j \in Job /\ j.list \in SUBSET Codes /\ j.list # {}
  BY DEF TypeOK, Job, Ask, At, Knows
<1>2. c \in j.list
  BY <1>1, AskedIsListed
<1>3. \A p \in Payments : paid[p] = c => p \in settled \/ inFlight \/ now < Expires(c) + Settle
  <2> SUFFICES ASSUME NEW p \in Payments, paid[p] = c PROVE p \in settled \/ inFlight \/ now < Expires(c) + Settle
    OBVIOUS
  <2>0. \A d \in Codes : d # 0
    BY DEF Codes
  <2>1. c # 0
    BY <1>1, <1>2, <2>0
  <2>2. shown[p] \in {"unseen", "pending", "settled"}
    BY <2>1 DEF CodeInv, TypeOK
  <2> QED  BY <2>2 DEF CodeInv
<1>4. /\ job' = [job EXCEPT ![w] = heard] \/ job' = [job EXCEPT ![w] = silent]
      /\ pc' = [pc EXCEPT ![w] = IF j.list = {c} THEN "prior" ELSE "ask"]
      /\ UNCHANGED <<now, rows, codes, qpay>>
  BY DEF Ask, Keep, Goto
<1>5. UNCHANGED <<now, rows, made, paid>> /\ Made' = Made /\ \A d : Expires(d)' = Expires(d)
  BY <1>4 DEF codes, qpay, Made, Expires
<1>6. pc'[w] = (IF j.list = {c} THEN "prior" ELSE "ask") /\ (job'[w] = heard \/ job'[w] = silent)
  BY <1>4 DEF TypeOK
<1>7. /\ j.list \cup j.answered \subseteq Made
      /\ \A d \in j.answered, p \in Payments :
             paid[p] = d => p \in j.found \/ d \in j.pending \/ now < Expires(d) + Settle
      /\ \A p \in j.found : p \in j.todo \/ \E r \in rows : r.key = p
  BY DEF Knows
<1> HIDE DEF c, settled, inFlight
<1>8. /\ heard.list = j.list \ {c} /\ heard.answered = j.answered \cup {c}
      /\ heard.pending = (IF inFlight THEN j.pending \cup {c} ELSE j.pending)
      /\ heard.found = j.found \cup settled /\ heard.todo = j.todo \cup settled
  BY <1>1 DEF Job
<1>9. /\ silent.list = j.list \ {c} /\ silent.answered = j.answered /\ silent.pending = j.pending
      /\ silent.found = j.found /\ silent.todo = j.todo
  BY <1>1 DEF Job
<1> HIDE DEF j, heard, silent
<1>10. CASE job'[w] = heard
  <2>1. job'[w].list \cup job'[w].answered \subseteq Made'
    BY <1>2, <1>5, <1>7, <1>8, <1>10
  <2>2. \A d \in job'[w].answered, p \in Payments :
            paid[p] = d => p \in job'[w].found \/ d \in job'[w].pending \/ now < Expires(d) + Settle
    BY <1>3, <1>7, <1>8, <1>10
  <2>3. \A p \in job'[w].found : p \in job'[w].todo \/ \E r \in rows : r.key = p
    BY <1>7, <1>8, <1>10
  <2>4. pc'[w] \in {"prior", "ask"} /\ (pc'[w] = "ask" => job'[w].list # {})
    BY <1>2, <1>6, <1>8, <1>10
  <2> QED  BY <1>5, <2>1, <2>2, <2>3, <2>4 DEF Knows, At
<1>11. CASE job'[w] = silent
  <2>1. job'[w].list \cup job'[w].answered \subseteq Made'
    BY <1>5, <1>7, <1>9, <1>11
  <2>2. \A d \in job'[w].answered, p \in Payments :
            paid[p] = d => p \in job'[w].found \/ d \in job'[w].pending \/ now < Expires(d) + Settle
    BY <1>7, <1>9, <1>11
  <2>3. \A p \in job'[w].found : p \in job'[w].todo \/ \E r \in rows : r.key = p
    BY <1>7, <1>9, <1>11
  <2>4. pc'[w] \in {"prior", "ask"} /\ (pc'[w] = "ask" => job'[w].list # {})
    BY <1>2, <1>6, <1>9, <1>11
  <2> QED  BY <1>5, <2>1, <2>2, <2>3, <2>4 DEF Knows, At
<1> QED  BY <1>6, <1>10, <1>11

LEMMA PriorKnows ==
    ASSUME TypeOK, NEW w \in Workers, Knows(w), Prior(w)
    PROVE  Knows(w)'
<1>1. CASE End(w)
  BY <1>1, EndKnows
<1>2. CASE Goto(w, IF job[w].todo = {} THEN "mark" ELSE "record") /\ UNCHANGED job
  <2>1. pc'[w] = (IF job[w].todo = {} THEN "mark" ELSE "record") /\ job'[w] = job[w]
    BY <1>2 DEF Goto, TypeOK
  <2>2. UNCHANGED <<now, rows, made, paid>>
    BY DEF Prior, codes, qpay
  <2>3. Made' = Made /\ \A d : Expires(d)' = Expires(d)
    BY <2>2 DEF Made, Expires
  <2> QED  BY <2>1, <2>2, <2>3 DEF Knows, At
<1> QED  BY <1>1, <1>2 DEF Prior

\* What is recorded has a row of its id, and leaves the list of what is to do.
LEMMA RecordKnows ==
    ASSUME TypeOK, NEW w \in Workers, Knows(w), Record(w)
    PROVE  Knows(w)'
<1>1. PICK p \in job[w].todo :
        \/ /\ RecordPayment(p, p, FALSE, FALSE, Reported(w))
           /\ Keep(w, [job[w] EXCEPT !.todo = @ \ {p}])
           /\ Goto(w, IF job[w].todo = {p} THEN "mark" ELSE "record")
        \/ End(w)
  BY DEF Record
<1>2. CASE /\ RecordPayment(p, p, FALSE, FALSE, Reported(w))
           /\ Keep(w, [job[w] EXCEPT !.todo = @ \ {p}])
           /\ Goto(w, IF job[w].todo = {p} THEN "mark" ELSE "record")
  <2>1. /\ pc'[w] = (IF job[w].todo = {p} THEN "mark" ELSE "record")
        /\ job'[w] = [job[w] EXCEPT !.todo = @ \ {p}]
    BY <1>2 DEF Keep, Goto, TypeOK
  <2>2. job'[w].list = job[w].list /\ job'[w].answered = job[w].answered
        /\ job'[w].found = job[w].found /\ job'[w].pending = job[w].pending
        /\ job'[w].todo = job[w].todo \ {p}
    BY <2>1 DEF TypeOK, Job
  <2>3. UNCHANGED <<now, made, paid>>
    BY DEF Record, codes, qpay
  <2>4. Made' = Made /\ \A d : Expires(d)' = Expires(d)
    BY <2>3 DEF Made, Expires
  <2>5. rows \subseteq rows' /\ \E r \in rows' : r.key = p
    <3>1. CASE \E r \in rows : r.key = p
      BY <1>2, <3>1 DEF RecordPayment
    <3>2. CASE \A r \in rows : r.key # p
      <4> DEFINE new == [key |-> p, money |-> p, hand |-> FALSE]
      <4>1. rows' = rows \cup {new}
        BY <1>2, <3>2 DEF RecordPayment
      <4>2. new.key = p
        OBVIOUS
      <4> HIDE DEF new
      <4> QED  BY <4>1, <4>2
    <3> QED  BY <3>1, <3>2
  <2>6. \A q \in job'[w].found : q \in job'[w].todo \/ \E r \in rows' : r.key = q
    BY <2>2, <2>5 DEF Knows
  <2>7. pc'[w] = "mark" => job'[w].todo = {}
    BY <2>1, <2>2
  <2>8. pc'[w] \notin {"idle", "ask"}
    BY <2>1
  <2>9. /\ job'[w].list \cup job'[w].answered \subseteq Made'
        /\ \A c \in job'[w].answered, q \in Payments :
               paid'[q] = c => q \in job'[w].found \/ c \in job'[w].pending \/ now' < Expires(c)' + Settle
    BY <2>2, <2>3, <2>4 DEF Knows
  <2> QED  BY <2>6, <2>7, <2>8, <2>9 DEF Knows, At
<1>3. CASE End(w)
  BY <1>3, EndKnows
<1> QED  BY <1>1, <1>2, <1>3

LEMMA StartKnows ==
    ASSUME TypeOK, NEW w \in Workers,
           (\E list \in SUBSET Watched : Begin(w, list)) \/ (\E renew \in BOOLEAN : Page(w, renew))
    PROVE  Knows(w)'
<1>1. ASSUME NEW list \in SUBSET Watched, Begin(w, list) PROVE Knows(w)'
  <2>1. Made' = Made /\ list \subseteq Made
    BY <1>1 DEF Begin, codes, Made, Watched
  <2>2. /\ pc'[w] = "ask"
        /\ job'[w] = [NoJob EXCEPT !.list = list, !.ever = EverReported(list),
                                   !.had = [c \in Codes |-> IF c \in list THEN named[c] ELSE {}]]
        /\ list # {}
    BY <1>1 DEF Begin, Goto, Keep, TypeOK
  <2>3. job'[w].answered = {} /\ job'[w].found = {} /\ job'[w].todo = {} /\ job'[w].list = list
    BY <2>2 DEF NoJob
  <2> QED  BY <2>1, <2>2, <2>3, KnowsNothing
<1>2. ASSUME NEW renew \in BOOLEAN, Page(w, renew) PROVE Knows(w)'
  <2>1. pc'[w] = "add" /\ job'[w] = [NoJob EXCEPT !.renew = renew, !.latest = Newest]
    BY <1>2 DEF Page, Goto, Keep, TypeOK
  <2>2. job'[w].answered = {} /\ job'[w].found = {} /\ job'[w].todo = {} /\ job'[w].list = {}
    BY <2>1 DEF NoJob
  <2> QED  BY <2>1, <2>2, KnowsNothing
<1> QED  BY <1>1, <1>2

\* A step of another run, of the client, QPay or the founder, or the clock.
LEMMA OneRunMoves ==
    ASSUME TypeOK, CodeInv, NEW v \in Workers, NEW w \in Workers, v # w, Knows(w),
           Step(v) \/ Die(v) \/ (\E list \in SUBSET Watched : Begin(v, list)) \/ (\E renew \in BOOLEAN : Page(v, renew)),
           rows \subseteq rows'
    PROVE  Knows(w)'
<1>1. pc'[w] = pc[w] /\ job'[w] = job[w] /\ UNCHANGED <<now, paid>>
  <2>1. CASE Step(v)
    BY <2>1 DEF Step, Ask, Prior, Record, Mark, Add, End, Goto, Keep, TypeOK, qpay
  <2>2. CASE Die(v)
    BY <2>2 DEF Die, End, Goto, Keep, TypeOK, qpay
  <2>3. ASSUME NEW list \in SUBSET Watched, Begin(v, list) PROVE pc'[w] = pc[w] /\ job'[w] = job[w] /\ UNCHANGED <<now, paid>>
    BY <2>3 DEF Begin, Goto, Keep, TypeOK, qpay
  <2>4. ASSUME NEW renew \in BOOLEAN, Page(v, renew) PROVE pc'[w] = pc[w] /\ job'[w] = job[w] /\ UNCHANGED <<now, paid>>
    BY <2>4 DEF Page, Goto, Keep, TypeOK, qpay
  <2> QED  BY <2>1, <2>2, <2>3, <2>4
<1>2. Made \subseteq Made' /\ \A c \in Made : Expires(c)' = Expires(c)
  <2>1. CASE Add(v)
    BY <2>1, AddKeepsCodes
  <2>2. CASE UNCHANGED made
    BY <2>2 DEF Made, Expires
  <2>3. Add(v) \/ UNCHANGED made
    BY DEF Step, Ask, Prior, Record, Mark, Die, Begin, Page, codes
  <2> QED  BY <2>1, <2>2, <2>3
<1>3. \A p \in Payments : paid'[p] = paid[p] \/ now < Expires(paid'[p]) + Settle
  BY <1>1
<1> QED  BY <1>1, <1>2, <1>3, OthersKeep

LEMMA NextRuns == TypeOK /\ CodeInv /\ RunInv /\ [Next]_vars => RunInv'
<1> SUFFICES ASSUME TypeOK, CodeInv, RunInv, [Next]_vars, NEW w \in Workers PROVE Knows(w)'
  BY DEF RunInv, Knows
<1>1. Knows(w) /\ rows \subseteq rows'
  BY RunsKnow, RowsStay
<1>2. CASE Step(w) \/ Die(w) \/ (\E list \in SUBSET Watched : Begin(w, list)) \/ (\E renew \in BOOLEAN : Page(w, renew))
  <2>1. CASE Mark(w) \/ Add(w) \/ Die(w)
    BY <2>1, EndKnows DEF Mark, Add, Die
  <2> QED  BY <1>1, <1>2, <2>1, AskKnows, PriorKnows, RecordKnows, StartKnows DEF Step
<1>3. ASSUME NEW v \in Workers, v # w,
             Step(v) \/ Die(v) \/ (\E list \in SUBSET Watched : Begin(v, list)) \/ (\E renew \in BOOLEAN : Page(v, renew))
      PROVE Knows(w)'
  BY <1>1, <1>3, OneRunMoves
<1>4. ASSUME NEW p \in Payments, NEW c \in Codes, Pay(p, c) PROVE Knows(w)'
  <2>1. UNCHANGED <<now, made, pc, job>> /\ paid' = [paid EXCEPT ![p] = c] /\ now <= Expires(c)
    BY <1>4 DEF Pay, codes
  <2>2. now < Expires(c) + Settle
    BY <2>1, CodeTimes, Naturals
  <2>3. \A q \in Payments : paid'[q] = paid[q] \/ now < Expires(paid'[q]) + Settle
    BY <2>1, <2>2 DEF TypeOK
  <2>4. Made \subseteq Made' /\ \A d \in Made : Expires(d)' = Expires(d)
    BY <2>1 DEF Made, Expires
  <2> QED  BY <1>1, <2>1, <2>3, <2>4, OthersKeep
<1>5. ASSUME UNCHANGED <<made, paid, pc, job>>, now' = now \/ pc[w] = "idle" PROVE Knows(w)'
  <2>1. Made \subseteq Made' /\ \A d \in Made : Expires(d)' = Expires(d)
    BY <1>5 DEF Made, Expires
  <2> QED  BY <1>1, <1>5, <2>1, OthersKeep
<1>6. ASSUME NEW p \in Payments, NEW s \in {"pending", "settled"}, Show(p, s) PROVE Knows(w)'
  BY <1>5, <1>6 DEF Show, codes
<1>7. ASSUME NEW p \in Payments, NEW key \in Payments \cup Mistyped, NEW second \in BOOLEAN,
             ByHand(p, key, second)
      PROVE Knows(w)'
  BY <1>5, <1>7 DEF ByHand, codes, qpay
<1>8. CASE Tick
  BY <1>5, <1>8 DEF Tick, codes, qpay, At
<1>9. CASE UNCHANGED vars
  BY <1>5, <1>9 DEF vars, codes, qpay
<1> QED  BY <1>2, <1>3, <1>4, <1>6, <1>7, <1>8, <1>9 DEF Next

(***************************************************************************)
(* The theorems                                                            *)
(***************************************************************************)

\* A row of QPay's own id is that payment's money.
LEMMA OwnIdIsMoney ==
    ASSUME KeyInv, NEW p \in Payments, NEW r \in rows, r.key = p PROVE r.money = p
  BY BillingAssumption DEF KeyInv

\* A code is given up only after the margin, by a run that heard QPay on it: every payment on it
\* was found and, since nothing is left to do, recorded.
LEMMA MarkKeepsWatch ==
    ASSUME TypeOK, KeyInv, CodeInv, RunInv, MoneyIsWatched, NEW w \in Workers, Mark(w)
    PROVE  MoneyIsWatched'
<1>1. PICK noted \in SUBSET job[w].answered :
        closed' = [c \in Codes |-> closed[c] \/ (c \in noted /\ Final(w, c))]
  BY DEF Mark
<1>2. UNCHANGED <<now, rows, paid>> /\ At(w, "mark")
  BY DEF Mark, qpay
<1> SUFFICES ASSUME NEW p \in Payments, paid[p] # 0, closed'[paid[p]] PROVE \E r \in rows : r.money = p
  BY <1>2 DEF MoneyIsWatched
<1>3. paid[p] \in Codes
  BY DEF CodeInv, Made
<1>4. CASE closed[paid[p]]
  BY <1>4 DEF MoneyIsWatched
<1>5. CASE paid[p] \in noted /\ Final(w, paid[p])
  <2>1. paid[p] \in job[w].answered /\ paid[p] \notin job[w].pending /\ now >= Expires(paid[p]) + Settle
    BY <1>5 DEF Final
  <2>2. ~ (now < Expires(paid[p]) + Settle)
    BY <2>1, <1>3, CodeTimes
  <2>3. p \in job[w].found
    BY <2>1, <2>2 DEF RunInv
  <2>4. job[w].todo = {}
    BY <1>2 DEF RunInv
  <2>5. PICK r \in rows : r.key = p
    BY <2>3, <2>4 DEF RunInv
  <2> QED  BY <2>5, OwnIdIsMoney
<1> QED  BY <1>1, <1>3, <1>4, <1>5

LEMMA NextWatched == IInv /\ [Next]_vars => MoneyIsWatched'
<1> SUFFICES ASSUME IInv, [Next]_vars PROVE MoneyIsWatched'
  OBVIOUS
<1> USE DEF IInv
<1>1. rows \subseteq rows'
  BY RowsStay
<1>2. CASE UNCHANGED <<closed, paid>>
  BY <1>1, <1>2 DEF MoneyIsWatched
<1>3. ASSUME NEW w \in Workers, Step(w) PROVE MoneyIsWatched'
  <2>1. CASE Ask(w) \/ Prior(w) \/ Record(w) \/ Add(w)
    BY <1>2, <2>1 DEF Ask, Prior, Record, Add, codes, qpay
  <2> QED  BY <1>3, <2>1, MarkKeepsWatch DEF Step
<1>4. ASSUME NEW w \in Workers, Die(w) \/ (\E list \in SUBSET Watched : Begin(w, list))
                              \/ (\E renew \in BOOLEAN : Page(w, renew))
      PROVE MoneyIsWatched'
  BY <1>2, <1>4 DEF Die, Begin, Page, codes, qpay
<1>5. ASSUME NEW p \in Payments, NEW c \in Codes, Pay(p, c) PROVE MoneyIsWatched'
  <2>1. paid' = [paid EXCEPT ![p] = c] /\ UNCHANGED closed /\ now <= Expires(c)
    BY <1>5 DEF Pay, codes
  <2>2. ~ (now >= Expires(c) + Settle)
    BY <2>1, CodeTimes, Naturals
  <2>3. ~ closed[c]
    BY <2>2 DEF CodeInv
  <2> QED  BY <1>1, <2>1, <2>3 DEF MoneyIsWatched, TypeOK
<1>6. ASSUME NEW p \in Payments, NEW s \in {"pending", "settled"}, Show(p, s) PROVE MoneyIsWatched'
  BY <1>2, <1>6 DEF Show, codes
<1>7. ASSUME NEW p \in Payments, NEW key \in Payments \cup Mistyped, NEW second \in BOOLEAN,
             ByHand(p, key, second)
      PROVE MoneyIsWatched'
  BY <1>2, <1>7 DEF ByHand, codes, qpay
<1>8. Tick \/ UNCHANGED vars => MoneyIsWatched'
  BY <1>2 DEF Tick, vars, codes, qpay
<1> QED  BY <1>3, <1>4, <1>5, <1>6, <1>7, <1>8 DEF Next

LEMMA InitIInv == Init => IInv
  BY InitTypes, InitRows, InitCodes, InitRuns DEF IInv, RowsInv

LEMMA NextIInv == IInv /\ [Next]_vars => IInv'
  BY NextTypes, NextRows, NextCodes, NextRuns, NextWatched DEF IInv, RowsInv

LEMMA Invariant == Spec => []IInv
  BY InitIInv, NextIInv, PTL DEF Spec

\* No run, page, entry by hand or death takes a row, a code or a job out of its type.
THEOREM TypeCorrect == Spec => []TypeOK
<1>1. IInv => TypeOK
  BY DEF IInv
<1> QED  BY <1>1, Invariant, PTL

\* No two rows of billing_payments record the same money: a callback, the hourly run, the page and a
\* person's command may record it in any order and under any id the person typed (0067).  That a
\* second payment of one invoice is kept as a duplicate is not said here.
THEOREM NeverCountedTwice == Spec => []CountedOnce
<1>1. IInv => CountedOnce
  BY DEF IInv
<1> QED  BY <1>1, Invariant, PTL

\* No payment is forgotten: as long as it is not recorded its code is one the hourly run asks
\* about, whichever reads failed, whoever died and however late QPay showed it (engine.ts:749).
THEOREM NoMoneyForgotten == Spec => []MoneyIsWatched
<1>1. IInv => MoneyIsWatched
  BY DEF IInv
<1> QED  BY <1>1, Invariant, PTL
=============================================================================
