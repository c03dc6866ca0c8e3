------------------------- MODULE SpendLedgerProofs -------------------------
(***************************************************************************)
(* Proofs about what the platform counts and what it reports: SpendLedger  *)
(* for any set of attempts, any tenants, budgets, costs and estimate;      *)
(* AlertEpisodes for any subjects, runs, rows and failures.                *)
(***************************************************************************)
EXTENDS SpendLedger, AlertEpisodes, FiniteSetTheorems, TLAPS

\* Where a job is tells what its hold and its ledger row are.
PlaceInv ==
    \A j \in Jobs :
        /\ pc[j] \in {"start", "seedTenant", "insertHold", "reserveAll"} => hold[j] = "none"
        /\ pc[j] \in {"granted", "unmarked", "calling", "ledgerRow", "settleAll"} => hold[j] = "counted"
        /\ pc[j] = "markSettled" => hold[j] = "settled"
        /\ pc[j] \in {"settleAll", "markSettled"} => ledger[j] # NoCost

\* The row's state and the counters tell the same story of the hold.
StateInv ==
    \A j \in Jobs :
        /\ resv[j] \in {"called", "settled"} => hold[j] \in {"counted", "settled"}
        /\ hold[j] = "returned" => resv[j] = "released"
        /\ hold[j] = "settled" => ledger[j] # NoCost

\* The ceilings on their way to a counter, and those already there.
CapInv ==
    /\ \A j \in Jobs : ceil[j] <= CompiledCap
    /\ CompiledCapNeverRaised

IInv == TypeOK /\ PlaceInv /\ StateInv /\ CapInv

LEMMA InitIInv == Init => IInv
  BY SpendAssumption
  DEF Init, IInv, TypeOK, PlaceInv, StateInv, CapInv, CompiledCapNeverRaised, Counters,
      CounterRow, ResvStates, HoldStates, Places, Ended, NoCost

\* Seeding keeps the rows typed and never raises a tenant's ceiling above the cap.
LEMMA SeededTyped ==
    ASSUME TypeOK, CompiledCapNeverRaised, NEW c \in Counters, NEW n \in Nat,
           c \in Tenants => n <= CompiledCap
    PROVE  /\ Seeded(c, n) \in [Counters -> CounterRow]
           /\ \A t \in Tenants : Seeded(c, n)[t].ceiling <= CompiledCap
  BY SpendAssumption DEF TypeOK, CompiledCapNeverRaised, Seeded, Counters, CounterRow

\* The three statements that move reserved and settled keep the rows typed and the ceilings.
LEMMA MovesTyped ==
    ASSUME TypeOK, CompiledCapNeverRaised, NEW j \in Jobs
    PROVE  /\ MoveUp(j) \in [Counters -> CounterRow]
           /\ \A t \in Tenants : MoveUp(j)[t].ceiling <= CompiledCap
           /\ MoveDown(j) \in [Counters -> CounterRow]
           /\ \A t \in Tenants : MoveDown(j)[t].ceiling <= CompiledCap
           /\ ledger[j] # NoCost =>
                /\ SettleMove(j) \in [Counters -> CounterRow]
                /\ \A t \in Tenants : SettleMove(j)[t].ceiling <= CompiledCap
<1>1. ASSUME NEW c \in Counters
      PROVE  /\ counter[c] \in CounterRow
             /\ [counter[c] EXCEPT !.reserved = @ + Estimate] \in CounterRow
             /\ [counter[c] EXCEPT !.reserved = @ + Estimate].ceiling = counter[c].ceiling
             /\ [counter[c] EXCEPT !.reserved = FloorZero(@ - Estimate)] \in CounterRow
             /\ [counter[c] EXCEPT !.reserved = FloorZero(@ - Estimate)].ceiling = counter[c].ceiling
  BY SpendAssumption DEF TypeOK, CounterRow, FloorZero
<1>2. ASSUME NEW c \in Counters, ledger[j] # NoCost
      PROVE  LET r == [counter[c] EXCEPT !.reserved = FloorZero(@ - Estimate), !.settled = @ + ledger[j]]
             IN  r \in CounterRow /\ r.ceiling = counter[c].ceiling
  <2>1. ledger[j] \in Nat  BY <1>2, SpendAssumption DEF TypeOK
  <2>2. counter[c] \in CounterRow  BY DEF TypeOK
  <2>3. FloorZero(counter[c].reserved - Estimate) \in Nat
    BY <2>2, SpendAssumption DEF CounterRow, FloorZero
  <2>4. counter[c].settled + ledger[j] \in Nat  BY <2>1, <2>2 DEF CounterRow
  <2> QED  BY <2>2, <2>3, <2>4 DEF CounterRow
<1>3. Tenants \subseteq Counters  BY DEF Counters
<1> QED  BY <1>1, <1>2, <1>3 DEF MoveUp, MoveDown, SettleMove, CompiledCapNeverRaised

\* release_spend, applied or not, from any place that runs it.
LEMMA ReleaseStep ==
    ASSUME IInv, NEW j \in Jobs, NEW place \in Ended, pc[j] \in {"undo", "granted", "unmarked"},
           ReleaseTo(j, place)
    PROVE  IInv'
<1>1. TypeOK'
  <2>1. counter' \in [Counters -> CounterRow]
    BY MovesTyped DEF IInv, CapInv, TypeOK, ReleaseTo, ReleaseSpend
  <2> QED  BY <2>1 DEF IInv, TypeOK, ReleaseTo, ReleaseSpend, Goto, ResvStates, HoldStates, Places, Ended
<1>2. PlaceInv'
  BY DEF IInv, TypeOK, PlaceInv, ReleaseTo, ReleaseSpend, Goto, Ended
<1>3. StateInv'
  BY DEF IInv, TypeOK, StateInv, ReleaseTo, ReleaseSpend
<1>4. CapInv'
  BY MovesTyped DEF IInv, CapInv, CompiledCapNeverRaised, TypeOK, ReleaseTo, ReleaseSpend
<1> QED  BY <1>1, <1>2, <1>3, <1>4 DEF IInv

LEMMA NextIInv == IInv /\ [Next]_vars => IInv'
<1> SUFFICES ASSUME IInv, [Next]_vars PROVE IInv'
  OBVIOUS
<1> USE SpendAssumption
<1>1. ASSUME NEW j \in Jobs, ReadCeiling(j) PROVE IInv'
  <2> DEFINE c == Lower(CompiledCap, budget[TenantOf[j]])
  <2>0. budget[TenantOf[j]] \in Nat /\ CompiledCap \in Nat  BY DEF IInv, TypeOK
  <2>1. c \in Nat /\ c <= CompiledCap  BY <2>0 DEF Lower
  <2>2. Platform \in Counters /\ Platform \notin Tenants  BY DEF Counters
  <2>3. counter' \in [Counters -> CounterRow] /\ CompiledCapNeverRaised'
    BY <1>1, <2>2, SeededTyped DEF ReadCeiling, IInv, CapInv, CompiledCapNeverRaised
  <2> HIDE DEF c
  <2>4. /\ ceil' = [ceil EXCEPT ![j] = c]
        /\ pc' = [pc EXCEPT ![j] = IF c = 0 THEN "refused" ELSE "seedTenant"]
        /\ UNCHANGED <<budget, resv, ledger, hold>>
    BY <1>1 DEF ReadCeiling, Goto, c
  <2>5. TypeOK'  BY <2>1, <2>3, <2>4 DEF IInv, TypeOK, Places, Ended
  <2>6. PlaceInv' /\ StateInv'  BY <1>1, <2>4 DEF IInv, TypeOK, PlaceInv, StateInv, ReadCeiling
  <2>7. CapInv'  BY <2>1, <2>3, <2>4 DEF IInv, TypeOK, CapInv
  <2> QED  BY <2>5, <2>6, <2>7 DEF IInv
<1>2. ASSUME NEW j \in Jobs, SeedTenant(j) PROVE IInv'
  <2>1. TenantOf[j] \in Counters /\ ceil[j] \in Nat /\ ceil[j] <= CompiledCap
    BY DEF Counters, IInv, TypeOK, CapInv
  <2>2. counter' \in [Counters -> CounterRow] /\ CompiledCapNeverRaised'
    BY <1>2, <2>1, SeededTyped DEF SeedTenant, IInv, CapInv, CompiledCapNeverRaised
  <2>3. TypeOK'  BY <1>2, <2>2 DEF SeedTenant, Goto, IInv, TypeOK, Places, Ended
  <2>4. PlaceInv'  BY <1>2 DEF SeedTenant, Goto, IInv, TypeOK, PlaceInv
  <2>5. StateInv' /\ CapInv'  BY <1>2, <2>2 DEF SeedTenant, IInv, StateInv, CapInv
  <2> QED  BY <2>3, <2>4, <2>5 DEF IInv
<1>3. ASSUME NEW j \in Jobs, InsertHold(j) PROVE IInv'
  BY <1>3 DEF InsertHold, Goto, IInv, TypeOK, PlaceInv, StateInv, CapInv, CompiledCapNeverRaised,
              Places, Ended, ResvStates
<1>4. ASSUME NEW j \in Jobs, ReserveFails(j) PROVE IInv'
  <2>1. /\ Platform \in Counters /\ Platform \notin Tenants
        /\ TenantOf[j] \in Counters /\ ceil[j] \in Nat /\ ceil[j] <= CompiledCap
    BY DEF Counters, IInv, TypeOK, CapInv
  <2>2. counter' \in [Counters -> CounterRow] /\ CompiledCapNeverRaised'
    BY <1>4, <2>1, SeededTyped DEF ReserveFails, IInv, CapInv, TypeOK, CompiledCapNeverRaised
  <2>3. TypeOK'
    BY <1>4, <2>2 DEF ReserveFails, Goto, IInv, TypeOK, Places, Ended, ResvStates
  <2>5. PlaceInv'  BY <1>4 DEF ReserveFails, Goto, IInv, TypeOK, PlaceInv
  <2>6. StateInv'
    <3>1. CASE UNCHANGED resv  BY <1>4, <3>1 DEF ReserveFails, IInv, StateInv
    <3>2. CASE pc[j] = "insertHold" /\ resv' = [resv EXCEPT ![j] = "held"]
      BY <1>4, <3>2 DEF ReserveFails, IInv, TypeOK, StateInv, PlaceInv
    <3> QED  BY <1>4, <3>1, <3>2 DEF ReserveFails
  <2>7. CapInv'  BY <1>4, <2>2 DEF ReserveFails, IInv, CapInv
  <2> QED  BY <2>3, <2>5, <2>6, <2>7 DEF IInv
<1>5. ASSUME NEW j \in Jobs, ReserveAll(j) PROVE IInv'
  <2>1. counter' \in [Counters -> CounterRow] /\ CompiledCapNeverRaised'
    BY <1>5, MovesTyped DEF ReserveAll, IInv, CapInv, TypeOK, CompiledCapNeverRaised
  <2>2. TypeOK'
    BY <1>5, <2>1 DEF ReserveAll, Goto, IInv, TypeOK, Places, Ended, HoldStates
  <2>3. PlaceInv'  BY <1>5 DEF ReserveAll, Goto, IInv, TypeOK, PlaceInv
  <2>4. StateInv'  BY <1>5 DEF ReserveAll, IInv, TypeOK, StateInv
  <2>5. CapInv'  BY <1>5, <2>1 DEF ReserveAll, IInv, CapInv
  <2> QED  BY <2>2, <2>3, <2>4, <2>5 DEF IInv
<1>6. ASSUME NEW j \in Jobs, UndoReserve(j) PROVE IInv'
  BY <1>6, ReleaseStep DEF UndoReserve, Ended
<1>7. ASSUME NEW j \in Jobs, ReleaseUnused(j) PROVE IInv'
  BY <1>7, ReleaseStep DEF ReleaseUnused, Ended
<1>8. ASSUME NEW j \in Jobs, TurnRefused(j) PROVE IInv'
  BY <1>8 DEF TurnRefused, Goto, IInv, TypeOK, PlaceInv, StateInv, CapInv, CompiledCapNeverRaised,
              Places, Ended
<1>9. ASSUME NEW j \in Jobs, MarkCalled(j) PROVE IInv'
  BY <1>9 DEF MarkCalled, Goto, IInv, TypeOK, PlaceInv, StateInv, CapInv, CompiledCapNeverRaised,
              Places, Ended, ResvStates
<1>10. ASSUME NEW j \in Jobs, ReleaseUnmarked(j) PROVE IInv'
  BY <1>10, ReleaseStep DEF ReleaseUnmarked, Ended
<1>11. ASSUME NEW j \in Jobs, CallModel(j) PROVE IInv'
  BY <1>11 DEF CallModel, Goto, IInv, TypeOK, PlaceInv, StateInv, CapInv, CompiledCapNeverRaised,
               Places, Ended
<1>12. ASSUME NEW j \in Jobs, InsertLedger(j) PROVE IInv'
  <2>1. \A cost \in Costs : cost # NoCost  BY DEF NoCost
  <2> QED  BY <1>12, <2>1 DEF InsertLedger, Goto, IInv, TypeOK, PlaceInv, StateInv, CapInv,
                              CompiledCapNeverRaised, Places, Ended
<1>13. ASSUME NEW j \in Jobs, SettleAll(j) PROVE IInv'
  <2>1. ledger[j] # NoCost /\ hold[j] = "counted"  BY <1>13 DEF SettleAll, IInv, PlaceInv
  <2>2. counter' \in [Counters -> CounterRow] /\ CompiledCapNeverRaised'
    BY <1>13, <2>1, MovesTyped DEF SettleAll, IInv, CapInv, TypeOK, CompiledCapNeverRaised
  <2> QED  BY <1>13, <2>1, <2>2 DEF SettleAll, Goto, IInv, TypeOK, PlaceInv, StateInv, CapInv,
                                    Places, Ended, HoldStates
<1>14. ASSUME NEW j \in Jobs, MarkSettled(j) PROVE IInv'
  BY <1>14 DEF MarkSettled, Goto, IInv, TypeOK, PlaceInv, StateInv, CapInv, CompiledCapNeverRaised,
               Places, Ended, ResvStates
<1>15. ASSUME NEW j \in Jobs, Crash(j) PROVE IInv'
  BY <1>15 DEF Crash, Goto, IInv, TypeOK, PlaceInv, StateInv, CapInv, CompiledCapNeverRaised,
               Places, Ended
<1>16. ASSUME NEW t \in Tenants, ChangeBudget(t) PROVE IInv'
  BY <1>16 DEF ChangeBudget, IInv, TypeOK, PlaceInv, StateInv, CapInv, CompiledCapNeverRaised
<1>17. CASE UNCHANGED vars
  BY <1>17 DEF vars, IInv, TypeOK, PlaceInv, StateInv, CapInv, CompiledCapNeverRaised
<1> QED
  BY <1>1, <1>2, <1>3, <1>4, <1>5, <1>6, <1>7, <1>8, <1>9, <1>10, <1>11, <1>12, <1>13, <1>14,
     <1>15, <1>16, <1>17 DEF Next, Step

\* The rows are typed: whatever fails, is lost or dies, no counter goes below zero and no
\* reservation, ledger row or ceiling leaves its type.
THEOREM TypeCorrect == Spec => []TypeOK
<1>1. IInv => TypeOK  BY DEF IInv
<1> QED  BY InitIInv, NextIInv, <1>1, PTL DEF Spec

\* The provider is reached only behind a counted hold, for any number of attempts.
THEOREM CallsAreReserved == Spec => []CalledOnlyOnGrant
<1>1. IInv => CalledOnlyOnGrant
  BY DEF IInv, PlaceInv, StateInv, CalledOnlyOnGrant
<1> QED  BY InitIInv, NextIInv, <1>1, PTL DEF Spec

\* No tenant_budgets row raises a tenant's counter above the compiled cap.
THEOREM CapHolds == Spec => []CompiledCapNeverRaised
<1>1. IInv => CompiledCapNeverRaised  BY DEF IInv, CapInv
<1> QED  BY InitIInv, NextIInv, <1>1, PTL DEF Spec

\* No release, late or repeated, gives back the hold behind a call.
THEOREM NoRefundAfterCall == Spec => CalledIsNeverRefunded
<1>1. IInv /\ [Next]_vars =>
        [\A j \in Jobs : resv[j] = "called" => hold'[j] # "returned" /\ resv'[j] # "released"]_vars
  <2> SUFFICES ASSUME IInv, [Next]_vars, NEW j \in Jobs, resv[j] = "called"
               PROVE  hold'[j] # "returned" /\ resv'[j] # "released"
    OBVIOUS
  <2>1. hold[j] \in {"counted", "settled"}  BY DEF IInv, StateInv
  <2>2. IInv'  BY NextIInv
  <2>3. resv'[j] # "released"
    BY DEF Next, Step, ReadCeiling, SeedTenant, InsertHold, ReserveFails, ReserveAll, UndoReserve,
           ReleaseUnused, TurnRefused, MarkCalled, ReleaseUnmarked, CallModel, InsertLedger,
           SettleAll, MarkSettled, Crash, ChangeBudget, ReleaseTo, ReleaseSpend, vars, IInv, TypeOK
  <2> QED  BY <2>2, <2>3 DEF IInv, StateInv
<1> QED  BY InitIInv, NextIInv, <1>1, PTL DEF Spec, CalledIsNeverRefunded

(***************************************************************************)
(* What the counters carry.                                                *)
(***************************************************************************)

\* A reservation row is inserted once, before the counters are asked, and by the time a
\* release can find it `held` its hold was counted or never was.
RowInv ==
    \A j \in Jobs :
        /\ pc[j] \in {"start", "seedTenant", "insertHold"} => resv[j] = "none"
        /\ pc[j] = "reserveAll" => resv[j] = "held"
        /\ pc[j] = "undo" => hold[j] \in {"none", "counted"}

HoldsInv ==
    \A c \in Counters :
        /\ IsFiniteSet(Live(c)) /\ IsFiniteSet(Minted(c))
        /\ Estimate * Cardinality(Live(c)) <= counter[c].reserved + Estimate * Cardinality(Minted(c))

LEMMA NextRowInv == IInv /\ RowInv /\ [Next]_vars => RowInv'
<1> SUFFICES ASSUME IInv, RowInv, [Next]_vars PROVE RowInv'
  OBVIOUS
<1> USE DEF IInv, TypeOK, PlaceInv, RowInv, Goto
<1>1. ASSUME NEW j \in Jobs, NEW place \in Ended, pc[j] \in {"undo", "granted", "unmarked"},
             ReleaseTo(j, place)
      PROVE  RowInv'
  BY <1>1 DEF ReleaseTo, ReleaseSpend, Ended
<1>2. ASSUME NEW j \in Jobs, ReadCeiling(j) \/ SeedTenant(j) \/ InsertHold(j) \/ ReserveFails(j)
      PROVE  RowInv'
  <2>1. CASE ReadCeiling(j)
    <3>1. \E place \in {"refused", "seedTenant"} : pc' = [pc EXCEPT ![j] = place]
      BY <2>1 DEF ReadCeiling
    <3> QED  BY <2>1, <3>1 DEF ReadCeiling
  <2>2. CASE SeedTenant(j)  BY <2>2 DEF SeedTenant
  <2>3. CASE InsertHold(j)  BY <2>3 DEF InsertHold
  <2>4. CASE ReserveFails(j)  BY <2>4 DEF ReserveFails
  <2> QED  BY <1>2, <2>1, <2>2, <2>3, <2>4
<1>3. ASSUME NEW j \in Jobs, ReserveAll(j) PROVE RowInv'  BY <1>3 DEF ReserveAll
<1>4. ASSUME NEW j \in Jobs, UndoReserve(j) PROVE RowInv'  BY <1>4, <1>1 DEF UndoReserve, Ended
<1>5. ASSUME NEW j \in Jobs, ReleaseUnused(j) PROVE RowInv'  BY <1>5, <1>1 DEF ReleaseUnused, Ended
<1>6. ASSUME NEW j \in Jobs, ReleaseUnmarked(j) PROVE RowInv'  BY <1>6, <1>1 DEF ReleaseUnmarked, Ended
<1>7. ASSUME NEW j \in Jobs, TurnRefused(j) \/ CallModel(j) \/ InsertLedger(j) \/ Crash(j) PROVE RowInv'
  BY <1>7 DEF TurnRefused, CallModel, InsertLedger, Crash
<1>8. ASSUME NEW j \in Jobs, MarkCalled(j) PROVE RowInv'  BY <1>8 DEF MarkCalled
<1>9. ASSUME NEW j \in Jobs, SettleAll(j) PROVE RowInv'  BY <1>9 DEF SettleAll
<1>10. ASSUME NEW j \in Jobs, MarkSettled(j) PROVE RowInv'  BY <1>10 DEF MarkSettled
<1>11. ASSUME NEW t \in Tenants, ChangeBudget(t) PROVE RowInv'  BY <1>11 DEF ChangeBudget
<1>12. CASE UNCHANGED vars  BY <1>12 DEF vars
<1> QED
  BY <1>2, <1>3, <1>4, <1>5, <1>6, <1>7, <1>8, <1>9, <1>10, <1>11, <1>12 DEF Next, Step

\* What can happen to a counter's holds: one is counted, one leaves with its estimate, one
\* that never was counted leaves with an estimate all the same.
LEMMA CountUp ==
    ASSUME NEW L, NEW M, IsFiniteSet(L), IsFiniteSet(M), NEW r \in Nat, NEW j, Estimate \in Nat,
           Estimate * Cardinality(L) <= r + Estimate * Cardinality(M)
    PROVE  /\ IsFiniteSet(L \cup {j})
           /\ Estimate * Cardinality(L \cup {j}) <= (r + Estimate) + Estimate * Cardinality(M)
<1> DEFINE l == Cardinality(L)
           m == Cardinality(M)
<1>1. l \in Nat /\ m \in Nat  BY FS_CardinalityType
<1>2. IsFiniteSet(L \cup {j}) /\ Cardinality(L \cup {j}) \in {l, l + 1}  BY FS_AddElement
<1>3. Estimate * l <= r + Estimate * m  OBVIOUS
<1> HIDE DEF l, m
<1>4. Estimate * (l + 1) = Estimate * l + Estimate  BY <1>1
<1>5. Estimate * l \in Nat /\ Estimate * m \in Nat  BY <1>1
<1> QED  BY <1>1, <1>2, <1>3, <1>4, <1>5 DEF m

LEMMA CountDown ==
    ASSUME NEW L, NEW M, IsFiniteSet(L), IsFiniteSet(M), NEW r \in Nat, NEW j \in L, Estimate \in Nat,
           Estimate * Cardinality(L) <= r + Estimate * Cardinality(M)
    PROVE  /\ IsFiniteSet(L \ {j})
           /\ Estimate * Cardinality(L \ {j}) <= FloorZero(r - Estimate) + Estimate * Cardinality(M)
<1> DEFINE l == Cardinality(L)
           m == Cardinality(M)
<1>1. l \in Nat /\ m \in Nat  BY FS_CardinalityType
<1>2. IsFiniteSet(L \ {j}) /\ Cardinality(L \ {j}) = l - 1  BY FS_RemoveElement
<1>3. Estimate * l <= r + Estimate * m  OBVIOUS
<1>4. FloorZero(r - Estimate) \in Int /\ FloorZero(r - Estimate) >= r - Estimate  BY DEF FloorZero
<1> HIDE DEF l, m
<1>5. Estimate * (l - 1) = Estimate * l - Estimate  BY <1>1
<1>6. Estimate * l \in Nat /\ Estimate * m \in Nat  BY <1>1
<1> QED  BY <1>1, <1>2, <1>3, <1>4, <1>5, <1>6 DEF m

LEMMA CountMinted ==
    ASSUME NEW L, NEW M, IsFiniteSet(L), IsFiniteSet(M), NEW r \in Nat, NEW j, j \notin M, Estimate \in Nat,
           Estimate * Cardinality(L) <= r + Estimate * Cardinality(M)
    PROVE  /\ IsFiniteSet(M \cup {j})
           /\ Estimate * Cardinality(L) <= FloorZero(r - Estimate) + Estimate * Cardinality(M \cup {j})
<1> DEFINE l == Cardinality(L)
           m == Cardinality(M)
<1>1. l \in Nat /\ m \in Nat  BY FS_CardinalityType
<1>2. IsFiniteSet(M \cup {j}) /\ Cardinality(M \cup {j}) = m + 1  BY FS_AddElement
<1>3. Estimate * l <= r + Estimate * m  OBVIOUS
<1>4. FloorZero(r - Estimate) \in Int /\ FloorZero(r - Estimate) >= r - Estimate  BY DEF FloorZero
<1> HIDE DEF l, m
<1>5. Estimate * (m + 1) = Estimate * m + Estimate  BY <1>1
<1>6. Estimate * l \in Nat /\ Estimate * m \in Nat  BY <1>1
<1> QED  BY <1>1, <1>2, <1>3, <1>4, <1>5, <1>6 DEF l

\* A step that leaves `reserved` alone, and the holds of every job as counted and as minted.
LEMMA HoldsQuiet ==
    ASSUME IInv, HoldsInv,
           \A c \in Counters : counter'[c].reserved = counter[c].reserved,
           \A j \in Jobs : hold'[j] = "counted" <=> hold[j] = "counted",
           \A j \in Jobs : (resv'[j] = "released" /\ hold'[j] = "none")
                               <=> (resv[j] = "released" /\ hold[j] = "none")
    PROVE  HoldsInv'
<1>1. \A c : Live(c)' = Live(c) /\ Minted(c)' = Minted(c)
  BY DEF Live, Minted, JobsOn, Targets
<1> QED  BY <1>1 DEF HoldsInv

\* A step of one job: its targets move in one of these ways, the other counters stay.
LEMMA HoldsMove ==
    ASSUME IInv, HoldsInv, TypeOK', NEW j \in Jobs, NEW h \in HoldStates, NEW r \in ResvStates,
           hold' = [hold EXCEPT ![j] = h], resv' = [resv EXCEPT ![j] = r],
           \A c \in Counters \ Targets(j) : counter'[c].reserved = counter[c].reserved,
           \/ /\ hold[j] # "counted" /\ h = "counted" /\ resv[j] # "released" /\ r # "released"
              /\ \A c \in Targets(j) : counter'[c].reserved = counter[c].reserved + Estimate
           \/ /\ hold[j] = "counted" /\ h \in {"returned", "settled"}
              /\ \A c \in Targets(j) : counter'[c].reserved = FloorZero(counter[c].reserved - Estimate)
           \/ /\ hold[j] = "none" /\ h = "none" /\ resv[j] # "released" /\ r = "released"
              /\ \A c \in Targets(j) : counter'[c].reserved = FloorZero(counter[c].reserved - Estimate)
    PROVE  HoldsInv'
<1> SUFFICES ASSUME NEW c \in Counters
             PROVE  /\ IsFiniteSet(Live(c)') /\ IsFiniteSet(Minted(c)')
                    /\ Estimate * Cardinality(Live(c)')
                           <= counter'[c].reserved + Estimate * Cardinality(Minted(c)')
  BY DEF HoldsInv
<1>1. /\ IsFiniteSet(Live(c)) /\ IsFiniteSet(Minted(c))
      /\ Estimate * Cardinality(Live(c)) <= counter[c].reserved + Estimate * Cardinality(Minted(c))
      /\ counter[c].reserved \in Nat /\ counter'[c].reserved \in Nat /\ Estimate \in Nat
  BY SpendAssumption DEF HoldsInv, IInv, TypeOK, CounterRow
<1>2. hold \in [Jobs -> HoldStates] /\ resv \in [Jobs -> ResvStates]  BY DEF IInv, TypeOK
<1>3. CASE c \notin Targets(j)
  <2>1. Live(c)' = Live(c) /\ Minted(c)' = Minted(c)
    BY <1>2, <1>3 DEF Live, Minted, JobsOn, Targets
  <2> QED  BY <1>1, <1>3, <2>1
<1>4. CASE c \in Targets(j)
  <2>1. CASE hold[j] # "counted" /\ h = "counted" /\ resv[j] # "released" /\ r # "released"
    <3>1. Live(c)' = Live(c) \cup {j} /\ Minted(c)' = Minted(c)
      BY <1>2, <1>4, <2>1 DEF Live, Minted, JobsOn, Targets
    <3>2. counter'[c].reserved = counter[c].reserved + Estimate  BY <1>4, <2>1
    <3>3. /\ IsFiniteSet(Live(c) \cup {j})
          /\ Estimate * Cardinality(Live(c) \cup {j})
                 <= (counter[c].reserved + Estimate) + Estimate * Cardinality(Minted(c))
      BY <1>1, <3>1, CountUp
    <3> QED  BY <1>1, <3>1, <3>2, <3>3
  <2>2. CASE hold[j] = "counted" /\ h \in {"returned", "settled"}
    <3>1. j \in Live(c) /\ Live(c)' = Live(c) \ {j} /\ Minted(c)' = Minted(c)
      BY <1>2, <1>4, <2>2 DEF Live, Minted, JobsOn, Targets
    <3>2. counter'[c].reserved = FloorZero(counter[c].reserved - Estimate)  BY <1>4, <2>2
    <3>3. /\ IsFiniteSet(Live(c) \ {j})
          /\ Estimate * Cardinality(Live(c) \ {j})
                 <= FloorZero(counter[c].reserved - Estimate) + Estimate * Cardinality(Minted(c))
      BY <1>1, <3>1, CountDown
    <3> QED  BY <1>1, <3>1, <3>2, <3>3
  <2>3. CASE hold[j] = "none" /\ h = "none" /\ resv[j] # "released" /\ r = "released"
    <3>1. j \notin Minted(c) /\ Live(c)' = Live(c) /\ Minted(c)' = Minted(c) \cup {j}
      BY <1>2, <1>4, <2>3 DEF Live, Minted, JobsOn, Targets
    <3>2. counter'[c].reserved = FloorZero(counter[c].reserved - Estimate)  BY <1>4, <2>3
    <3>3. /\ IsFiniteSet(Minted(c) \cup {j})
          /\ Estimate * Cardinality(Live(c))
                 <= FloorZero(counter[c].reserved - Estimate) + Estimate * Cardinality(Minted(c) \cup {j})
      BY <1>1, <3>1, CountMinted
    <3> QED  BY <1>1, <3>1, <3>2, <3>3
  <2> QED  BY <2>1, <2>2, <2>3
<1> QED  BY <1>3, <1>4

\* release_spend from the three places that run it.
LEMMA HoldsRelease ==
    ASSUME IInv, RowInv, HoldsInv, TypeOK', NEW j \in Jobs, NEW place,
           pc[j] \in {"undo", "granted", "unmarked"}, ReleaseTo(j, place)
    PROVE  HoldsInv'
<1>1. CASE UNCHANGED <<resv, counter, hold>>  BY <1>1, HoldsQuiet
<1>2. CASE ReleaseSpend(j) /\ resv[j] = "held"
  <2> DEFINE h == IF hold[j] = "counted" THEN "returned" ELSE hold[j]
  <2>1. hold[j] \in {"none", "counted"}  BY DEF RowInv, IInv, PlaceInv
  <2>2. /\ resv' = [resv EXCEPT ![j] = "released"]
        /\ hold' = [hold EXCEPT ![j] = h]
        /\ \A c \in Counters \ Targets(j) : counter'[c].reserved = counter[c].reserved
        /\ \A c \in Counters \cap Targets(j) :
              counter'[c].reserved = FloorZero(counter[c].reserved - Estimate)
    BY <1>2 DEF ReleaseSpend, MoveDown, IInv, TypeOK, CounterRow
  <2>3. Targets(j) \subseteq Counters  BY SpendAssumption DEF Targets, Counters
  <2>4. h \in HoldStates /\ "released" \in ResvStates  BY <2>1 DEF HoldStates, ResvStates
  <2>5. CASE hold[j] = "counted"
    <3>1. h = "returned"  BY <2>5
    <3> HIDE DEF h
    <3> QED  BY <2>2, <2>3, <2>4, <2>5, <3>1, HoldsMove
  <2>6. CASE hold[j] = "none"
    <3>1. h = "none"  BY <2>6
    <3> HIDE DEF h
    <3> QED  BY <1>2, <2>2, <2>3, <2>4, <2>6, <3>1, HoldsMove
  <2> QED  BY <2>1, <2>5, <2>6
<1>3. CASE ReleaseSpend(j) /\ resv[j] # "held"  BY <1>3, HoldsQuiet DEF ReleaseSpend
<1> QED  BY <1>1, <1>2, <1>3 DEF ReleaseTo

LEMMA NextHoldsInv == IInv /\ RowInv /\ HoldsInv /\ [Next]_vars => HoldsInv'
<1> SUFFICES ASSUME IInv, RowInv, HoldsInv, [Next]_vars PROVE HoldsInv'
  OBVIOUS
<1>0. TypeOK'  BY NextIInv DEF IInv
<1>1. ASSUME NEW j \in Jobs, UndoReserve(j) \/ ReleaseUnused(j) \/ ReleaseUnmarked(j) PROVE HoldsInv'
  BY <1>0, <1>1, HoldsRelease DEF UndoReserve, ReleaseUnused, ReleaseUnmarked
<1>2. ASSUME NEW j \in Jobs, ReserveAll(j) PROVE HoldsInv'
  <2>1. CASE UNCHANGED <<counter, hold>>  BY <1>2, <2>1, HoldsQuiet DEF ReserveAll
  <2>2. CASE counter' = MoveUp(j) /\ hold' = [hold EXCEPT ![j] = "counted"]
    <3>1. hold[j] = "none" /\ resv[j] = "held"  BY <1>2 DEF ReserveAll, IInv, PlaceInv, RowInv
    <3>2. resv' = [resv EXCEPT ![j] = "held"]  BY <1>2, <3>1 DEF ReserveAll, IInv, TypeOK
    <3>3. /\ \A c \in Counters \ Targets(j) : counter'[c].reserved = counter[c].reserved
          /\ \A c \in Counters \cap Targets(j) : counter'[c].reserved = counter[c].reserved + Estimate
      BY <2>2 DEF MoveUp, IInv, TypeOK, CounterRow
    <3>4. Targets(j) \subseteq Counters  BY SpendAssumption DEF Targets, Counters
    <3>5. "counted" \in HoldStates /\ "held" \in ResvStates  BY DEF HoldStates, ResvStates
    <3> QED  BY <1>0, <2>2, <3>1, <3>2, <3>3, <3>4, <3>5, HoldsMove
  <2> QED  BY <1>2, <2>1, <2>2 DEF ReserveAll
<1>3. ASSUME NEW j \in Jobs, SettleAll(j) PROVE HoldsInv'
  <2>1. CASE UNCHANGED <<counter, hold>>  BY <1>3, <2>1, HoldsQuiet DEF SettleAll
  <2>2. CASE counter' = SettleMove(j) /\ hold' = [hold EXCEPT ![j] = "settled"]
    <3>1. hold[j] = "counted"  BY <1>3 DEF SettleAll, IInv, PlaceInv
    <3>2. resv' = [resv EXCEPT ![j] = resv[j]] /\ resv[j] \in ResvStates
      BY <1>3 DEF SettleAll, IInv, TypeOK
    <3>3. /\ \A c \in Counters \ Targets(j) : counter'[c].reserved = counter[c].reserved
          /\ \A c \in Counters \cap Targets(j) :
                counter'[c].reserved = FloorZero(counter[c].reserved - Estimate)
      BY <2>2 DEF SettleMove, IInv, TypeOK, CounterRow
    <3>4. Targets(j) \subseteq Counters  BY SpendAssumption DEF Targets, Counters
    <3>5. "settled" \in HoldStates  BY DEF HoldStates
    <3> QED  BY <1>0, <2>2, <3>1, <3>2, <3>3, <3>4, <3>5, HoldsMove
  <2> QED  BY <1>3, <2>1, <2>2 DEF SettleAll
<1>4. ASSUME NEW j \in Jobs, ReadCeiling(j) \/ SeedTenant(j) \/ ReserveFails(j) \/ InsertHold(j) PROVE HoldsInv'
  <2>1. \A n : \A c, d \in Counters : Seeded(c, n)[d].reserved = counter[d].reserved
    BY DEF Seeded, IInv, TypeOK, CounterRow
  <2>2. TenantOf[j] \in Counters /\ Platform \in Counters  BY SpendAssumption DEF Counters
  <2>3. \A c \in Counters : counter'[c].reserved = counter[c].reserved
    BY <1>4, <2>1, <2>2 DEF ReadCeiling, SeedTenant, ReserveFails, InsertHold
  <2>4. hold' = hold  BY <1>4 DEF ReadCeiling, SeedTenant, ReserveFails, InsertHold
  <2>5. \A k \in Jobs : resv'[k] = "released" <=> resv[k] = "released"
    <3>1. resv' = resv \/ (resv[j] = "none" /\ resv' = [resv EXCEPT ![j] = "held"])
      BY <1>4 DEF ReadCeiling, SeedTenant, ReserveFails, InsertHold, RowInv
    <3> QED  BY <3>1 DEF IInv, TypeOK
  <2> QED  BY <2>3, <2>4, <2>5, HoldsQuiet
<1>5. ASSUME NEW j \in Jobs, MarkCalled(j) \/ MarkSettled(j) PROVE HoldsInv'
  <2>1. UNCHANGED <<counter, hold>>  BY <1>5 DEF MarkCalled, MarkSettled
  <2>2. hold[j] # "none"  BY <1>5 DEF MarkCalled, MarkSettled, IInv, PlaceInv
  <2>3. \A k \in Jobs \ {j} : resv'[k] = resv[k]  BY <1>5 DEF MarkCalled, MarkSettled, IInv, TypeOK
  <2> QED  BY <2>1, <2>2, <2>3, HoldsQuiet
<1>6. ASSUME NEW j \in Jobs, TurnRefused(j) \/ CallModel(j) \/ InsertLedger(j) \/ Crash(j) PROVE HoldsInv'
  BY <1>6, HoldsQuiet DEF TurnRefused, CallModel, InsertLedger, Crash
<1>7. ASSUME NEW t \in Tenants, ChangeBudget(t) PROVE HoldsInv'  BY <1>7, HoldsQuiet DEF ChangeBudget
<1>8. CASE UNCHANGED vars  BY <1>8, HoldsQuiet DEF vars
<1> QED  BY <1>1, <1>2, <1>3, <1>4, <1>5, <1>6, <1>7, <1>8 DEF Next, Step

\* A refusal's release never takes more from a counter than one estimate for each reservation
\* that was released uncounted: every other hold in flight is still in `reserved`.
THEOREM HoldsStayCounted == Spec => []HoldsCountedButForMinted
<1>1. Init => RowInv /\ HoldsInv
  <2> SUFFICES ASSUME Init PROVE RowInv /\ HoldsInv
    OBVIOUS
  <2>1. \A c : Live(c) = {} /\ Minted(c) = {}  BY DEF Init, Live, Minted, JobsOn
  <2>2. Estimate * 0 = 0  BY SpendAssumption
  <2>3. RowInv  BY DEF Init, RowInv
  <2>4. \A c \in Counters : counter[c].reserved = 0  BY DEF Init
  <2>5. \A c : IsFiniteSet(Live(c)) /\ IsFiniteSet(Minted(c)) /\ Cardinality(Live(c)) = 0
               /\ Cardinality(Minted(c)) = 0
    BY <2>1, FS_EmptySet
  <2> QED  BY <2>2, <2>3, <2>4, <2>5 DEF HoldsInv
<1>2. HoldsInv => HoldsCountedButForMinted  BY DEF HoldsInv, HoldsCountedButForMinted
<1> QED  BY <1>1, <1>2, InitIInv, NextIInv, NextRowInv, NextHoldsInv, PTL DEF Spec

(***************************************************************************)
(* What the counters settle.                                               *)
(***************************************************************************)

\* One pair for each unit that the ledger rows of the settled calls of a counter come to.
Units(c) == UNION {{j} \X (1..ledger[j]) : j \in Settled(c)}

PaidInv ==
    \A c \in Counters : IsFiniteSet(Units(c)) /\ counter[c].settled = Cardinality(Units(c))

\* A settled call adds its own units, and no other row has any of them.
LEMMA AddUnits ==
    ASSUME NEW U, IsFiniteSet(U), NEW j, NEW n \in Nat, NEW P, P = {j} \X (1..n), U \cap P = {}
    PROVE  /\ IsFiniteSet(U \cup P)
           /\ Cardinality(U \cup P) = Cardinality(U) + n
<1> DEFINE S == {j}
           T == 1..n
<1>1. IsFiniteSet(S) /\ Cardinality(S) = 1  BY FS_Singleton
<1>2. IsFiniteSet(T) /\ Cardinality(T) = n  BY FS_Interval
<1>3. P = S \X T  OBVIOUS
<1> HIDE DEF S, T
<1>4. IsFiniteSet(S \X T) /\ Cardinality(S \X T) = Cardinality(S) * Cardinality(T)
  BY <1>1, <1>2, FS_Product
<1>5. IsFiniteSet(P) /\ Cardinality(P) = n
  <2> DEFINE a == Cardinality(S)
             b == Cardinality(T)
  <2>1. IsFiniteSet(P) /\ Cardinality(P) = a * b  BY <1>3, <1>4
  <2>2. a = 1 /\ b = n  BY <1>1, <1>2
  <2> HIDE DEF a, b
  <2> QED  BY <2>1, <2>2
<1>6. Cardinality(U \cap P) = 0  BY FS_EmptySet
<1>7. /\ IsFiniteSet(U \cup P)
      /\ Cardinality(U \cup P) = Cardinality(U) + Cardinality(P) - Cardinality(U \cap P)
  BY <1>5, FS_Union
<1>8. Cardinality(U) \in Nat  BY FS_CardinalityType
<1> QED  BY <1>5, <1>6, <1>7, <1>8

\* A step that settles nothing: the settled amounts, the settled jobs and their rows stay.
LEMMA PaidQuiet ==
    ASSUME IInv, PaidInv,
           \A c \in Counters : counter'[c].settled = counter[c].settled,
           \A j \in Jobs : hold'[j] = "settled" <=> hold[j] = "settled",
           \A j \in Jobs : hold[j] = "settled" => ledger'[j] = ledger[j]
    PROVE  PaidInv'
<1>1. \A c : Settled(c)' = Settled(c)  BY DEF Settled, JobsOn, Targets
<1>2. \A c : \A j \in Settled(c) : ledger'[j] = ledger[j]  BY DEF Settled, JobsOn
<1>3. \A c : Units(c)' = Units(c)  BY <1>1, <1>2 DEF Units
<1> QED  BY <1>3 DEF PaidInv

LEMMA NextPaidInv == IInv /\ PaidInv /\ [Next]_vars => PaidInv'
<1> SUFFICES ASSUME IInv, PaidInv, [Next]_vars PROVE PaidInv'
  OBVIOUS
<1>0. hold \in [Jobs -> HoldStates] /\ counter \in [Counters -> CounterRow]  BY DEF IInv, TypeOK
<1>1. ASSUME NEW j \in Jobs, UndoReserve(j) \/ ReleaseUnused(j) \/ ReleaseUnmarked(j) PROVE PaidInv'
  <2>1. \A c \in Counters : MoveDown(j)[c].settled = counter[c].settled
    BY <1>0 DEF MoveDown, CounterRow
  <2>2. \A c \in Counters : counter'[c].settled = counter[c].settled
    BY <1>1, <2>1 DEF UndoReserve, ReleaseUnused, ReleaseUnmarked, ReleaseTo, ReleaseSpend
  <2>3. ledger' = ledger
    BY <1>1 DEF UndoReserve, ReleaseUnused, ReleaseUnmarked, ReleaseTo
  <2>4. \A k \in Jobs : hold'[k] = "settled" <=> hold[k] = "settled"
    <3>1. hold' = hold \/ hold' = [hold EXCEPT ![j] = IF hold[j] = "counted" THEN "returned" ELSE hold[j]]
      BY <1>1 DEF UndoReserve, ReleaseUnused, ReleaseUnmarked, ReleaseTo, ReleaseSpend
    <3> QED  BY <1>0, <3>1
  <2> QED  BY <2>2, <2>3, <2>4, PaidQuiet
<1>2. ASSUME NEW j \in Jobs, ReserveAll(j) PROVE PaidInv'
  <2>1. hold[j] = "none"  BY <1>2 DEF ReserveAll, IInv, PlaceInv
  <2>2. \A c \in Counters : MoveUp(j)[c].settled = counter[c].settled
    BY <1>0 DEF MoveUp, CounterRow
  <2>3. \A c \in Counters : counter'[c].settled = counter[c].settled
    BY <1>2, <2>2 DEF ReserveAll
  <2>4. \A k \in Jobs : hold'[k] = "settled" <=> hold[k] = "settled"
    BY <1>0, <1>2, <2>1 DEF ReserveAll
  <2> QED  BY <1>2, <2>3, <2>4, PaidQuiet DEF ReserveAll
<1>3. ASSUME NEW j \in Jobs, SettleAll(j) PROVE PaidInv'
  <2>1. CASE UNCHANGED <<counter, hold>>  BY <1>3, <2>1, PaidQuiet DEF SettleAll
  <2>2. CASE counter' = SettleMove(j) /\ hold' = [hold EXCEPT ![j] = "settled"]
    <3>1. hold[j] = "counted" /\ ledger[j] \in Nat /\ ledger' = ledger
      BY <1>3, SpendAssumption DEF SettleAll, IInv, PlaceInv, TypeOK
    <3> SUFFICES ASSUME NEW c \in Counters
                 PROVE  IsFiniteSet(Units(c)') /\ counter'[c].settled = Cardinality(Units(c)')
      BY DEF PaidInv
    <3>2. IsFiniteSet(Units(c)) /\ counter[c].settled = Cardinality(Units(c))  BY DEF PaidInv
    <3>3. CASE c \notin Targets(j)
      <4>1. Settled(c)' = Settled(c)
        BY <1>0, <2>2, <3>3 DEF Settled, JobsOn, Targets
      <4>2. Units(c)' = Units(c)  BY <3>1, <4>1 DEF Units
      <4>3. counter'[c].settled = counter[c].settled  BY <1>0, <2>2, <3>3 DEF SettleMove
      <4> QED  BY <3>2, <4>2, <4>3
    <3>4. CASE c \in Targets(j)
      <4>1. Settled(c)' = Settled(c) \cup {j}
        BY <1>0, <2>2, <3>4 DEF Settled, JobsOn, Targets
      <4> DEFINE P == {j} \X (1..ledger[j])
      <4>2. Units(c)' = Units(c) \cup P
        BY <3>1, <4>1 DEF Units
      <4>3. Units(c) \cap P = {}  BY <3>1 DEF Units, Settled
      <4>4. counter'[c].settled = counter[c].settled + ledger[j]
        BY <1>0, <2>2, <3>4 DEF SettleMove, CounterRow
      <4>5. P = {j} \X (1..ledger[j])  OBVIOUS
      <4> HIDE DEF P
      <4> DEFINE U == Units(c)
                 n == ledger[j]
      <4>6. IsFiniteSet(U) /\ n \in Nat /\ P = {j} \X (1..n) /\ U \cap P = {}
        BY <3>1, <3>2, <4>3, <4>5
      <4> HIDE DEF U, n
      <4>7. IsFiniteSet(U \cup P) /\ Cardinality(U \cup P) = Cardinality(U) + n
        BY <4>6, AddUnits, Zenon
      <4> QED  BY <3>2, <4>2, <4>4, <4>7 DEF U, n
    <3> QED  BY <3>3, <3>4
  <2> QED  BY <1>3, <2>1, <2>2 DEF SettleAll
<1>4. ASSUME NEW j \in Jobs, ReadCeiling(j) \/ SeedTenant(j) \/ ReserveFails(j) \/ InsertHold(j) PROVE PaidInv'
  <2>1. \A n : \A c, d \in Counters : Seeded(c, n)[d].settled = counter[d].settled
    BY <1>0 DEF Seeded, CounterRow
  <2>2. TenantOf[j] \in Counters /\ Platform \in Counters  BY SpendAssumption DEF Counters
  <2>3. \A c \in Counters : counter'[c].settled = counter[c].settled
    BY <1>4, <2>1, <2>2 DEF ReadCeiling, SeedTenant, ReserveFails, InsertHold
  <2>4. UNCHANGED <<hold, ledger>>  BY <1>4 DEF ReadCeiling, SeedTenant, ReserveFails, InsertHold
  <2> QED  BY <2>3, <2>4, PaidQuiet
<1>5. ASSUME NEW j \in Jobs, InsertLedger(j) PROVE PaidInv'
  <2>1. hold[j] = "counted"  BY <1>5 DEF InsertLedger, IInv, PlaceInv
  <2>2. \A k \in Jobs \ {j} : ledger'[k] = ledger[k]  BY <1>5 DEF InsertLedger, IInv, TypeOK
  <2>3. UNCHANGED <<counter, hold>>  BY <1>5 DEF InsertLedger
  <2>4. \A k \in Jobs : hold[k] = "settled" => ledger'[k] = ledger[k]  BY <2>1, <2>2
  <2> QED  BY <2>3, <2>4, PaidQuiet
<1>6. ASSUME NEW j \in Jobs, MarkCalled(j) \/ MarkSettled(j) \/ TurnRefused(j) \/ CallModel(j) \/ Crash(j)
      PROVE  PaidInv'
  BY <1>6, PaidQuiet DEF MarkCalled, MarkSettled, TurnRefused, CallModel, Crash
<1>7. ASSUME NEW t \in Tenants, ChangeBudget(t) PROVE PaidInv'  BY <1>7, PaidQuiet DEF ChangeBudget
<1>8. CASE UNCHANGED vars  BY <1>8, PaidQuiet DEF vars
<1> QED  BY <1>1, <1>2, <1>3, <1>4, <1>5, <1>6, <1>7, <1>8 DEF Next, Step

\* Each counter has settled exactly what the ledger rows of its settled calls come to, and no
\* call is settled without its row: for any number of calls, failing or dying at any await.
THEOREM OnlyLedgeredCostIsSettled == Spec => []SettledIsLedgered
<1>1. Init => PaidInv
  <2> SUFFICES ASSUME Init, NEW c \in Counters
               PROVE  IsFiniteSet(Units(c)) /\ counter[c].settled = Cardinality(Units(c))
    BY DEF PaidInv
  <2>1. Units(c) = {}  BY DEF Init, Units, Settled, JobsOn
  <2>2. counter[c].settled = 0  BY DEF Init
  <2> QED  BY <2>1, <2>2, FS_EmptySet
<1>2. IInv /\ PaidInv => SettledIsLedgered
  BY DEF IInv, StateInv, PaidInv, SettledIsLedgered, CostOf, Units
<1> QED  BY <1>1, <1>2, InitIInv, NextIInv, NextPaidInv, PTL DEF Spec

(***************************************************************************)
(* AlertEpisodes: what rows and runs are, what a run has in hand, and what *)
(* it may stamp.                                                           *)
(***************************************************************************)
Episode == [key : Keys, open : BOOLEAN, hour : BOOLEAN, aged : BOOLEAN,
            stamp : {"none", "fresh", "old"}, told : BOOLEAN]
AlertRun == [pc : {"idle", "watch", "expiry", "list", "close", "ask", "insert", "send", "mark", "clear",
                   "summary", "parts", "stamp"},
             scope : SUBSET All, keep : SUBSET Keys, todo : SUBSET Keys, ids : SUBSET RowIds,
             left : SUBSET Channels, got : SUBSET RowIds, whole : BOOLEAN]

AlertTyped ==
    /\ world \in Worlds
    /\ now = [s \in All |-> now[s]] /\ \A s \in All : now[s] \in Facts(s)
    /\ rows \in [RowIds -> Episode \cup {NoRow}]
    /\ run \in [Runs -> AlertRun]
    /\ faults \in 0..MaxFaults

\* What run q has in hand exists, and what it will stamp was heard.
InHand(q) == run[q].ids \cup run[q].got
AllHeard(S) == \A i \in S : rows[i].open => rows[i].told
Sound(q) ==
    /\ InHand(q) \subseteq Used
    /\ run[q].pc \in {"ask", "insert", "send", "mark"} => run[q].todo # {}
    /\ run[q].pc = "summary" => run[q].got = {}
    /\ run[q].pc = "mark" => AllHeard(run[q].ids)
    /\ run[q].pc = "parts" /\ run[q].whole => AllHeard(run[q].got)
    /\ run[q].pc = "stamp" => AllHeard(run[q].got)

AlertInv == AlertTyped /\ StampedWasTold /\ \A q \in Runs : Sound(q)

LEMMA KeysArePairs == <<>> \notin Keys
  BY DEF Keys

\* A row is a row.
LEMMA RowsAreEpisodes ==
    /\ NoRow \notin Episode
    /\ \A k \in Keys : Row(k) \in Episode /\ Row(k).key = k /\ Row(k).open /\ Row(k).stamp = "none" /\ ~ Row(k).told
<1>1. NoRow.key = <<>>  BY DEF NoRow
<1>2. \A x \in Episode : x.key \in Keys  BY DEF Episode
<1> QED  BY <1>1, <1>2, KeysArePairs DEF Row, Episode

LEMMA UsedAreEpisodes ==
    ASSUME AlertTyped
    PROVE  /\ Used \subseteq RowIds
           /\ \A i \in Used : rows[i] \in Episode
           /\ \A i \in RowIds \ Used : rows[i] = NoRow
  BY RowsAreEpisodes DEF AlertTyped, Used

\* What a step on the rows owes to the runs: what anybody has in hand stays,
\* is not opened again, and is not silenced.
HandKept ==
    \A i \in Held : /\ rows'[i] # NoRow
                    /\ rows'[i].open => rows[i].open /\ (rows[i].told => rows'[i].told)
RowsStep ==
    /\ rows' \in [RowIds -> Episode \cup {NoRow}]
    /\ \A i \in RowIds : rows'[i] # NoRow /\ rows'[i].stamp = "fresh" => rows'[i].told
    /\ HandKept

LEMMA HeldIsUsed ==
    ASSUME AlertInv PROVE Held \subseteq Used
  BY DEF AlertInv, Sound, InHand, Held

LEMMA RowsSame ==
    ASSUME AlertInv, UNCHANGED rows PROVE RowsStep
  BY HeldIsUsed, UsedAreEpisodes DEF AlertInv, AlertTyped, RowsStep, HandKept, StampedWasTold, Used

LEMMA RowsShut ==
    ASSUME AlertInv, NEW S \in SUBSET Used,
           rows' = [i \in RowIds |-> IF i \in S THEN Shut(rows[i]) ELSE rows[i]]
    PROVE  RowsStep
<1>1. AlertTyped  BY DEF AlertInv
<1>2. ASSUME NEW i \in S
      PROVE  Shut(rows[i]) \in Episode /\ ~ Shut(rows[i]).open /\ Shut(rows[i]).stamp = "none"
  BY <1>1, <1>2, UsedAreEpisodes DEF Shut, Row, Episode
<1>3. \A i \in RowIds : rows'[i] = IF i \in S THEN Shut(rows[i]) ELSE rows[i]  OBVIOUS
<1>4. rows' \in [RowIds -> Episode \cup {NoRow}]
  BY <1>1, <1>2 DEF AlertTyped
<1>5. HandKept
  BY <1>1, <1>2, <1>3, HeldIsUsed, UsedAreEpisodes, RowsAreEpisodes DEF HandKept, Used
<1> QED  BY <1>1, <1>2, <1>3, <1>4, <1>5, UsedAreEpisodes DEF RowsStep, AlertInv, StampedWasTold, Used

LEMMA RowsHeard ==
    ASSUME AlertInv, NEW S \in SUBSET Used, rows' = Heard(S)
    PROVE  /\ RowsStep
           /\ \A i \in S : rows'[i] # NoRow /\ (rows'[i].open => rows'[i].told)
<1>1. AlertTyped  BY DEF AlertInv
<1> DEFINE heard(i) == [rows[i] EXCEPT !.told = TRUE]
<1>2. ASSUME NEW i \in Used
      PROVE  heard(i) \in Episode /\ heard(i).told /\ heard(i).open = rows[i].open
  BY <1>1, <1>2, UsedAreEpisodes DEF Episode
<1>3. \A i \in RowIds : rows'[i] = IF i \in S /\ rows[i].open THEN heard(i) ELSE rows[i]  BY DEF Heard
<1> HIDE DEF heard
<1>4. rows' \in [RowIds -> Episode \cup {NoRow}]
  <2>1. \A i \in RowIds : rows'[i] \in Episode \cup {NoRow}  BY <1>1, <1>2, <1>3 DEF AlertTyped
  <2>2. rows' = [i \in RowIds |-> rows'[i]]  BY DEF Heard
  <2> QED  BY <2>1, <2>2
<1>5. HandKept
  BY <1>1, <1>2, <1>3, HeldIsUsed, UsedAreEpisodes, RowsAreEpisodes DEF HandKept, Used
<1>6. \A i \in S : rows'[i] # NoRow /\ (rows'[i].open => rows'[i].told)
  BY <1>1, <1>2, <1>3, UsedAreEpisodes, RowsAreEpisodes
<1> QED  BY <1>1, <1>2, <1>3, <1>4, <1>5, <1>6, UsedAreEpisodes DEF RowsStep, AlertInv, StampedWasTold, Used

LEMMA RowsStamped ==
    ASSUME AlertInv, NEW S \in SUBSET Used, AllHeard(S), rows' = Stamped(S)
    PROVE  RowsStep
<1>1. AlertTyped  BY DEF AlertInv
<1> DEFINE stamped(i) == [rows[i] EXCEPT !.stamp = "fresh"]
<1>2. ASSUME NEW i \in Used
      PROVE  stamped(i) \in Episode /\ stamped(i).told = rows[i].told /\ stamped(i).open = rows[i].open
  BY <1>1, <1>2, UsedAreEpisodes DEF Episode
<1>3. \A i \in RowIds : rows'[i] = IF i \in S /\ rows[i].open THEN stamped(i) ELSE rows[i]  BY DEF Stamped
<1> HIDE DEF stamped
<1>4. rows' \in [RowIds -> Episode \cup {NoRow}]
  <2>1. \A i \in RowIds : rows'[i] \in Episode \cup {NoRow}  BY <1>1, <1>2, <1>3 DEF AlertTyped
  <2>2. rows' = [i \in RowIds |-> rows'[i]]  BY DEF Stamped
  <2> QED  BY <2>1, <2>2
<1>5. HandKept
  BY <1>1, <1>2, <1>3, HeldIsUsed, UsedAreEpisodes, RowsAreEpisodes DEF HandKept, Used
<1> QED  BY <1>1, <1>2, <1>3, <1>4, <1>5, UsedAreEpisodes DEF RowsStep, AlertInv, StampedWasTold, Used, AllHeard

LEMMA RowsFresh ==
    ASSUME AlertInv, NEW i \in Spare, NEW k \in Keys, rows' = [rows EXCEPT ![i] = Row(k)]
    PROVE  RowsStep /\ rows'[i] = Row(k) /\ Row(k) # NoRow
<1>1. AlertTyped  BY DEF AlertInv
<1>2. i \in RowIds /\ i \notin Held
  BY <1>1, HeldIsUsed DEF Spare, Used
<1>3. rows'[i] = Row(k) /\ Row(k) # NoRow /\ \A j \in RowIds \ {i} : rows'[j] = rows[j]
  BY <1>1, <1>2, RowsAreEpisodes DEF AlertTyped
<1>4. rows' \in [RowIds -> Episode \cup {NoRow}]
  BY <1>1, RowsAreEpisodes DEF AlertTyped
<1>5. HandKept
  BY <1>1, <1>2, <1>3, HeldIsUsed, UsedAreEpisodes DEF HandKept, Used
<1>6. Row(k).stamp = "none"  BY RowsAreEpisodes
<1> QED  BY <1>1, <1>2, <1>3, <1>4, <1>5, <1>6, UsedAreEpisodes DEF RowsStep, AlertInv, StampedWasTold, Used


\* What a run that becomes x owes: x is sound over the new rows.
Good(x) ==
    /\ x \in AlertRun
    /\ \A i \in x.ids \cup x.got : rows'[i] # NoRow
    /\ x.pc \in {"ask", "insert", "send", "mark"} => x.todo # {}
    /\ x.pc = "summary" => x.got = {}
    /\ x.pc = "mark" => \A i \in x.ids : rows'[i].open => rows'[i].told
    /\ x.pc = "parts" /\ x.whole => \A i \in x.got : rows'[i].open => rows'[i].told
    /\ x.pc = "stamp" => \A i \in x.got : rows'[i].open => rows'[i].told

LEMMA RunStepKeeps ==
    ASSUME AlertInv, NEW r \in Runs, NEW x, Good(x), RowsStep, run' = [run EXCEPT ![r] = x],
           UNCHANGED <<world, now>>, faults' \in 0..MaxFaults
    PROVE  AlertInv'
<1>1. AlertTyped  BY DEF AlertInv
<1>2. run'[r] = x /\ \A q \in Runs \ {r} : run'[q] = run[q]  BY <1>1 DEF AlertTyped
<1>3. AlertTyped'
  <2>1. run' \in [Runs -> AlertRun]  BY <1>1 DEF AlertTyped, Good
  <2> QED  BY <1>1, <2>1 DEF AlertTyped, RowsStep, Facts
<1>4. StampedWasTold'  BY DEF StampedWasTold, RowsStep, Used
<1>5. Sound(r)'
  <2>1. x.ids \subseteq RowIds /\ x.got \subseteq RowIds  BY DEF Good, AlertRun
  <2> QED  BY <1>2, <2>1 DEF Good, Sound, InHand, Used, AllHeard
<1>6. ASSUME NEW q \in Runs \ {r} PROVE Sound(q)'
  <2>1. Sound(q)  BY DEF AlertInv
  <2>2. InHand(q) \subseteq Held  BY DEF InHand, Held
  <2>3. \A i \in InHand(q) : rows'[i] # NoRow /\ (rows'[i].open => rows[i].open /\ (rows[i].told => rows'[i].told))
    BY <2>2 DEF RowsStep, HandKept
  <2>4. run'[q] = run[q]  BY <1>2, <1>6
  <2>5. InHand(q) \subseteq RowIds  BY <2>1 DEF Sound, Used
  <2> QED  BY <2>1, <2>3, <2>4, <2>5 DEF Sound, InHand, Used, AllHeard
<1> QED  BY <1>3, <1>4, <1>5, <1>6 DEF AlertInv

\* A run that goes on in silence: nothing of it is about to be stamped.
Silent(r, x) ==
    /\ x \in AlertRun /\ x.ids \cup x.got \subseteq InHand(r)
    /\ x.pc \notin {"mark", "parts", "stamp", "summary"}
    /\ x.pc \in {"ask", "insert", "send"} => x.todo # {}

LEMMA SilentStep ==
    ASSUME AlertInv, NEW r \in Runs, NEW x, Silent(r, x), RowsStep, run' = [run EXCEPT ![r] = x],
           UNCHANGED <<world, now>>, faults' \in 0..MaxFaults
    PROVE  AlertInv'
<1>1. \A i \in x.ids \cup x.got : rows'[i] # NoRow
  <2>1. InHand(r) \subseteq Held  BY DEF InHand, Held
  <2> QED  BY <2>1 DEF Silent, RowsStep, HandKept
<1>2. Good(x)  BY <1>1 DEF Good, Silent
<1> QED  BY <1>2, RunStepKeeps

LEMMA FaultsTyped ==
    ASSUME AlertInv, Works \/ Fails
    PROVE  faults' \in 0..MaxFaults
  BY AlertAssumption DEF AlertInv, AlertTyped, Works, Fails

\* The runs a step leads to, by name.
LEMMA RunsTyped ==
    ASSUME AlertInv, NEW r \in Runs
    PROVE  /\ run[r] \in AlertRun
           /\ Silent(r, NoRun)
           /\ \A left \in SUBSET Channels : Silent(r, Visit(left))
           /\ Silent(r, Onward(r)) /\ Silent(r, Closed(r))
           /\ run[r].todo # {} => \A k \in Keys, opened \in BOOLEAN : Silent(r, Raised(r, k, opened))
<1>1. run[r] \in AlertRun  BY DEF AlertInv, AlertTyped
<1>2. Silent(r, NoRun)  BY DEF Silent, NoRun, AlertRun
<1>3. ASSUME NEW left \in SUBSET Channels PROVE Silent(r, Visit(left))
  <2>1. Visit(left) \in AlertRun /\ Visit(left).ids = {} /\ Visit(left).got = {}
    BY DEF Visit, NoRun, AlertRun
  <2>2. Visit(left).pc \in {"expiry", "watch"}  BY DEF Visit, NoRun
  <2> QED  BY <2>1, <2>2 DEF Silent
<1>4. Silent(r, Onward(r))
  <2>1. run[r].left \in SUBSET Channels  BY <1>1 DEF AlertRun
  <2> QED  BY <1>2, <1>3, <2>1 DEF Onward
<1>5. Silent(r, Closed(r))
  <2>1. CASE run[r].todo # {}
    <3> DEFINE x == [run[r] EXCEPT !.pc = "ask", !.ids = {}]
    <3>1. x \in AlertRun /\ x.ids = {} /\ x.got = run[r].got /\ x.pc = "ask" /\ x.todo = run[r].todo
      BY <1>1 DEF AlertRun
    <3> HIDE DEF x
    <3> QED  BY <2>1, <3>1 DEF Closed, Silent, InHand, x
  <2>2. CASE run[r].todo = {}  BY <1>4, <2>2 DEF Closed
  <2> QED  BY <2>1, <2>2
<1>6. ASSUME NEW k \in Keys, NEW opened \in BOOLEAN PROVE Silent(r, Raised(r, k, opened))
  <2> DEFINE rest == run[r].todo \ {k}
             next == [run[r] EXCEPT !.todo = rest, !.ids = {}]
             ask == [next EXCEPT !.pc = "ask"]
             list == [next EXCEPT !.pc = "list"]
  <2>1. next \in AlertRun /\ next.ids = {} /\ next.got = run[r].got /\ next.todo = rest
    BY <1>1 DEF AlertRun
  <2> HIDE DEF next
  <2>2. ask \in AlertRun /\ ask.ids = {} /\ ask.got = run[r].got /\ ask.todo = rest /\ ask.pc = "ask"
    BY <2>1 DEF AlertRun
  <2>3. list \in AlertRun /\ list.ids = {} /\ list.got = run[r].got /\ list.pc = "list"
    BY <2>1 DEF AlertRun
  <2> HIDE DEF ask, list
  <2>4. rest # {} => Silent(r, ask)  BY <2>2 DEF Silent, InHand
  <2>5. Silent(r, list)  BY <2>3 DEF Silent, InHand
  <2>6. Raised(r, k, opened) \in {NoRun, Onward(r), list} \/ (rest # {} /\ Raised(r, k, opened) = ask)
    BY DEF Raised, ask, list, next, rest
  <2> QED  BY <1>2, <1>4, <2>4, <2>5, <2>6
<1> QED  BY <1>1, <1>2, <1>3, <1>4, <1>5, <1>6


LEMMA RaisingIsDue ==
    ASSUME AlertInv, NEW r \in Runs, run[r].todo # {}
    PROVE  Raising(r) \in run[r].todo /\ Raising(r) \in Keys
<1>1. Raising(r) \in run[r].todo  BY DEF Raising
<1>2. run[r].todo \subseteq Keys  BY RunsTyped DEF AlertRun
<1> QED  BY <1>1, <1>2

\* A channel's verdict names an episode of that channel.
LEMMA FoundIsSilent ==
    ASSUME AlertInv, NEW r \in Runs, NEW c \in run[r].left
    PROVE  Silent(r, Found(r, c, State(c))) /\ Silent(r, Found(r, c, "unknown"))
<1>1. run[r] \in AlertRun /\ c \in Channels  BY RunsTyped DEF AlertRun
<1>2. State(c) \in {"healthy", "not_provisioned", "no_webhooks", "no_messages", "unknown"}
  BY <1>1 DEF State, Diagnosis
<1>3. ASSUME NEW x \in {"healthy", "not_provisioned", "no_webhooks", "no_messages", "unknown"}
      PROVE  Silent(r, Found(r, c, x))
  <2> DEFINE seen == [run[r] EXCEPT !.left = @ \ {c}, !.scope = {c}]
             keys == {<<c, x>>}
             list == [seen EXCEPT !.pc = "list"]
             both == [seen EXCEPT !.pc = "list", !.keep = keys, !.todo = keys]
  <2>1. seen \in AlertRun /\ seen.ids = run[r].ids /\ seen.got = run[r].got
    BY <1>1 DEF AlertRun, All
  <2> HIDE DEF seen
  <2>2. seen.left \in SUBSET Channels  BY <2>1 DEF AlertRun
  <2>3. Silent(r, list)
    <3>1. list \in AlertRun /\ list.ids = seen.ids /\ list.got = seen.got /\ list.pc = "list"
      BY <2>1 DEF AlertRun
    <3> HIDE DEF list
    <3> QED  BY <2>1, <3>1 DEF Silent, InHand
  <2>4. x \notin {"healthy", "not_provisioned"} => Silent(r, both)
    <3> SUFFICES ASSUME x \notin {"healthy", "not_provisioned"} PROVE Silent(r, both)  OBVIOUS
    <3>1. keys \subseteq Keys  BY <1>1, <1>3 DEF Keys
    <3>2. both \in AlertRun /\ both.ids = seen.ids /\ both.got = seen.got /\ both.pc = "list"
      BY <2>1, <3>1 DEF AlertRun
    <3> HIDE DEF both
    <3> QED  BY <2>1, <3>2 DEF Silent, InHand
  <2>5. CASE x = "not_provisioned"
    BY <2>2, <2>5, RunsTyped DEF Found, seen
  <2>6. CASE x = "healthy"  BY <2>3, <2>6 DEF Found, seen, list
  <2>7. CASE x \notin {"healthy", "not_provisioned"}  BY <2>4, <2>7 DEF Found, seen, both, keys
  <2> QED  BY <2>5, <2>6, <2>7
<1> QED  BY <1>2, <1>3

LEMMA ClosingSteps ==
    ASSUME AlertInv, NEW r \in Runs, List(r) \/ Close(r) \/ Clear(r)
    PROVE  AlertInv'
<1>0. run[r] \in AlertRun /\ Silent(r, NoRun) /\ Silent(r, Closed(r))  BY RunsTyped
<1>1. faults' \in 0..MaxFaults /\ UNCHANGED <<world, now>>  BY FaultsTyped DEF List, Close, Clear
<1>2. InHand(r) \subseteq Used  BY DEF AlertInv, Sound
<1>3. CASE List(r)
  <2>1. RowsStep  BY <1>3, RowsSame DEF List
  <2>2. CASE run' = [run EXCEPT ![r] = Closed(r)]  BY <1>0, <1>1, <2>1, <2>2, SilentStep
  <2>3. CASE run' = [run EXCEPT ![r] = [run[r] EXCEPT !.pc = "close", !.ids = Stale(r)]]
    <3> DEFINE x == [run[r] EXCEPT !.pc = "close", !.ids = Stale(r)]
    <3>1. Stale(r) \subseteq Used /\ Stale(r) \subseteq RowIds  BY DEF Stale, OpenOf, Used
    <3>2. x \in AlertRun /\ x.ids = Stale(r) /\ x.got = run[r].got /\ x.pc = "close"
      BY <1>0, <3>1 DEF AlertRun
    <3> HIDE DEF x
    <3>3. \A i \in Used : rows'[i] # NoRow  BY <1>3 DEF List, Used
    <3>4. Good(x)  BY <1>2, <3>1, <3>2, <3>3 DEF Good, InHand
    <3> QED  BY <1>1, <2>1, <2>3, <3>4, RunStepKeeps DEF x
  <2> QED  BY <1>3, <2>2, <2>3 DEF List, Become
<1>4. CASE Close(r)
  <2>1. RowsStep
    <3>1. run[r].ids \in SUBSET Used  BY <1>2 DEF InHand
    <3> QED  BY <1>4, <3>1, RowsSame, RowsShut DEF Close
  <2> QED  BY <1>0, <1>1, <1>4, <2>1, SilentStep DEF Close, Become
<1>5. CASE Clear(r)
  <2>1. RowsStep
    <3>1. OpenOf(run[r].scope) \in SUBSET Used  BY DEF OpenOf
    <3> QED  BY <1>5, <3>1, RowsSame, RowsShut DEF Clear
  <2> QED  BY <1>0, <1>1, <1>5, <2>1, SilentStep DEF Clear, Become
<1> QED  BY <1>3, <1>4, <1>5

LEMMA RaisingSteps ==
    ASSUME AlertInv, NEW r \in Runs, Ask(r) \/ Insert(r) \/ Send(r) \/ Mark(r)
    PROVE  AlertInv'
<1>0. run[r] \in AlertRun /\ Sound(r)  BY RunsTyped DEF AlertInv
<1>1. faults' \in 0..MaxFaults /\ UNCHANGED <<world, now>>  BY FaultsTyped DEF Ask, Insert, Send, Mark
<1>2. run[r].todo # {} /\ Raising(r) \in Keys
  BY <1>0, RaisingIsDue DEF Ask, Insert, Send, Mark, At, Sound
<1>3. Silent(r, Raised(r, Raising(r), TRUE)) /\ Silent(r, Raised(r, Raising(r), FALSE))
  BY <1>2, RunsTyped
<1>4. run[r].ids \in SUBSET Used  BY <1>0 DEF Sound, InHand
<1>5. CASE Ask(r)
  <2>1. RowsStep  BY <1>5, RowsSame DEF Ask
  <2>2. CASE run' = [run EXCEPT ![r] = Raised(r, Raising(r), FALSE)]  BY <1>1, <1>3, <2>1, <2>2, SilentStep
  <2>3. CASE run' = [run EXCEPT ![r] = [run[r] EXCEPT !.pc = "insert"]]
    <3> DEFINE x == [run[r] EXCEPT !.pc = "insert"]
    <3>1. x \in AlertRun /\ x.ids = run[r].ids /\ x.got = run[r].got /\ x.pc = "insert" /\ x.todo = run[r].todo
      BY <1>0 DEF AlertRun
    <3> HIDE DEF x
    <3>2. Silent(r, x)  BY <1>2, <3>1 DEF Silent, InHand
    <3> QED  BY <1>1, <2>1, <2>3, <3>2, SilentStep DEF x
  <2> QED  BY <1>5, <2>2, <2>3 DEF Ask, Become, Proceed
<1>6. CASE Insert(r)
  <2>1. UNCHANGED rows \/ \E i \in Spare : rows' = [rows EXCEPT ![i] = Row(Raising(r))]
    <3>1. Spare # {} => Free \in Spare  BY DEF Free
    <3> QED  BY <1>6, <3>1 DEF Insert
  <2>2. RowsStep  BY <1>2, <2>1, RowsSame, RowsFresh
  <2>3. CASE run' = [run EXCEPT ![r] = Raised(r, Raising(r), TRUE)] \/ run' = [run EXCEPT ![r] = Raised(r, Raising(r), FALSE)]
    BY <1>1, <1>3, <2>2, <2>3, SilentStep
  <2>4. CASE /\ Spare # {} /\ rows' = [rows EXCEPT ![Free] = Row(Raising(r))]
             /\ run' = [run EXCEPT ![r] = [run[r] EXCEPT !.pc = "send", !.ids = {Free}]]
    <3> DEFINE x == [run[r] EXCEPT !.pc = "send", !.ids = {Free}]
    <3>1. Free \in Spare /\ Free \in RowIds  BY <2>4 DEF Free, Spare
    <3>2. x \in AlertRun /\ x.ids = {Free} /\ x.got = run[r].got /\ x.pc = "send" /\ x.todo = run[r].todo
      BY <1>0, <3>1 DEF AlertRun
    <3> HIDE DEF x
    <3>3. rows'[Free] # NoRow
      <4>1. rows'[Free] = Row(Raising(r)) /\ Row(Raising(r)) # NoRow  BY <1>2, <2>4, <3>1, RowsFresh
      <4> QED  BY <4>1
    <3>4. \A i \in run[r].got : rows'[i] # NoRow
      <4>1. run[r].got \subseteq Held  BY DEF Held
      <4> QED  BY <2>2, <4>1 DEF RowsStep, HandKept
    <3>5. Good(x)  BY <1>2, <3>2, <3>3, <3>4 DEF Good
    <3> QED  BY <1>1, <2>2, <2>4, <3>5, RunStepKeeps DEF x
  <2> QED  BY <1>6, <2>3, <2>4 DEF Insert, Become
<1>7. CASE Send(r)
  <2>1. RowsStep  BY <1>4, <1>7, RowsSame, RowsHeard DEF Send
  <2>2. CASE run' = [run EXCEPT ![r] = Raised(r, Raising(r), TRUE)]  BY <1>1, <1>3, <2>1, <2>2, SilentStep
  <2>3. CASE rows' = Heard(run[r].ids) /\ run' = [run EXCEPT ![r] = [run[r] EXCEPT !.pc = "mark"]]
    <3> DEFINE x == [run[r] EXCEPT !.pc = "mark"]
    <3>1. x \in AlertRun /\ x.ids = run[r].ids /\ x.got = run[r].got /\ x.pc = "mark" /\ x.todo = run[r].todo
      BY <1>0 DEF AlertRun
    <3> HIDE DEF x
    <3>2. \A i \in run[r].ids : rows'[i].open => rows'[i].told  BY <1>4, <2>3, RowsHeard
    <3>3. \A i \in InHand(r) : rows'[i] # NoRow
      <4>1. InHand(r) \subseteq Held  BY DEF InHand, Held
      <4> QED  BY <2>1, <4>1 DEF RowsStep, HandKept
    <3>4. Good(x)  BY <1>2, <3>1, <3>2, <3>3 DEF Good, InHand
    <3> QED  BY <1>1, <2>1, <2>3, <3>4, RunStepKeeps DEF x
  <2> QED  BY <1>7, <2>2, <2>3 DEF Send, Become, Proceed
<1>8. CASE Mark(r)
  <2>1. AllHeard(run[r].ids)  BY <1>0, <1>8 DEF Mark, At, Sound
  <2>2. RowsStep  BY <1>4, <1>8, <2>1, RowsSame, RowsStamped DEF Mark
  <2> QED  BY <1>1, <1>3, <1>8, <2>2, SilentStep DEF Mark, Become
<1> QED  BY <1>5, <1>6, <1>7, <1>8


LEMMA DetectorSteps ==
    ASSUME AlertInv, NEW r \in Runs,
           \/ StartHealth(r) \/ Watch(r) \/ Expiry(r) \/ Die(r)
           \/ \E s \in Outages \cap world : Meet(r, s) \/ Succeed(r, s)
           \/ \E s \in Clients \cap world : Record(r, s)
    PROVE  AlertInv'
<1>0. run[r] \in AlertRun /\ Silent(r, NoRun) /\ AlertTyped  BY RunsTyped DEF AlertInv
<1>1. faults' \in 0..MaxFaults /\ UNCHANGED <<world, now, rows>>
  BY FaultsTyped DEF StartHealth, Watch, Expiry, Die, Meet, Succeed, Record
<1>2. RowsStep  BY <1>1, RowsSame
<1>3. ASSUME NEW stop \in {"list", "ask"}, NEW scope \in SUBSET All, NEW keep \in SUBSET Keys,
             NEW todo \in SUBSET Keys, stop = "ask" => todo # {}
      PROVE  Silent(r, [NoRun EXCEPT !.pc = stop, !.scope = scope, !.keep = keep, !.todo = todo])
  <2> DEFINE x == [NoRun EXCEPT !.pc = stop, !.scope = scope, !.keep = keep, !.todo = todo]
  <2>1. x \in AlertRun /\ x.ids = {} /\ x.got = {} /\ x.pc = stop /\ x.todo = todo  BY DEF AlertRun, NoRun
  <2> HIDE DEF x
  <2>2. Silent(r, x)  BY <1>3, <2>1 DEF Silent
  <2> QED  BY <2>2 DEF x
<1>4. ASSUME NEW stop \in {"list", "clear"}, NEW scope \in SUBSET All
      PROVE  Silent(r, [NoRun EXCEPT !.pc = stop, !.scope = scope])
  <2> DEFINE x == [NoRun EXCEPT !.pc = stop, !.scope = scope]
  <2>1. x \in AlertRun /\ x.ids = {} /\ x.got = {} /\ x.pc = stop  BY DEF AlertRun, NoRun
  <2> HIDE DEF x
  <2>2. Silent(r, x)  BY <1>4, <2>1 DEF Silent
  <2> QED  BY <2>2 DEF x
<1>5. ASSUME NEW todo \in SUBSET Keys, todo # {}
      PROVE  Silent(r, [NoRun EXCEPT !.pc = "ask", !.todo = todo])
  <2> DEFINE x == [NoRun EXCEPT !.pc = "ask", !.todo = todo]
  <2>1. x \in AlertRun /\ x.ids = {} /\ x.got = {} /\ x.pc = "ask" /\ x.todo = todo  BY DEF AlertRun, NoRun
  <2> HIDE DEF x
  <2>2. Silent(r, x)  BY <1>5, <2>1 DEF Silent
  <2> QED  BY <2>2 DEF x
<1>6. CASE StartHealth(r)
  BY <1>1, <1>2, <1>6, RunsTyped, SilentStep DEF StartHealth, Become
<1>7. CASE Watch(r)
  BY <1>1, <1>2, <1>7, FoundIsSilent, SilentStep DEF Watch, Become
<1>8. CASE Expiry(r)
  <2> DEFINE found == {<<s, State(s)>> : s \in {s \in Secrets \cap world : Fault(s, State(s))}}
             x == [NoRun EXCEPT !.pc = IF found = {} THEN "list" ELSE "ask", !.scope = Secrets,
                                !.keep = found, !.todo = found]
  <2>1. found \subseteq Keys
    <3>1. ASSUME NEW s \in Secrets, Fault(s, State(s)) PROVE <<s, State(s)>> \in Keys
      <4>1. s \notin Channels /\ s \notin Outages  BY AlertAssumption
      <4>2. State(s) = now[s]  BY <4>1 DEF State
      <4>4. now[s] \in {"fine", "warn", "critical"}
        <5>1. now[s] \in Facts(s)  BY <1>0 DEF AlertTyped, All
        <5> QED  BY <4>1, <5>1 DEF Facts
      <4>3. now[s] # "fine"  BY <3>1, <4>2 DEF Fault
      <4> QED  BY <4>2, <4>3, <4>4 DEF Keys
    <3> QED  BY <3>1
  <2> HIDE DEF found
  <2>2. Silent(r, x)
    <3>1. Secrets \in SUBSET All  BY DEF All
    <3> DEFINE place == IF found = {} THEN "list" ELSE "ask"
    <3>2. place \in {"list", "ask"} /\ (place = "ask" => found # {})  OBVIOUS
    <3> HIDE DEF place
    <3>3. Silent(r, [NoRun EXCEPT !.pc = place, !.scope = Secrets, !.keep = found, !.todo = found])
      BY <1>3, <2>1, <3>1, <3>2
    <3> QED  BY <3>3 DEF place
  <2> HIDE DEF x
  <2>3. run' = [run EXCEPT ![r] = x] \/ run' = [run EXCEPT ![r] = NoRun]  BY <1>8 DEF Expiry, Become, x, found
  <2> QED  BY <1>0, <1>1, <1>2, <2>2, <2>3, SilentStep
<1>9. CASE Die(r)  BY <1>0, <1>1, <1>2, <1>9, SilentStep DEF Die, Become
<1>10. ASSUME NEW s \in Outages \cap world, Meet(r, s) \/ Succeed(r, s) PROVE AlertInv'
  <2> DEFINE x == [NoRun EXCEPT !.pc = "ask", !.todo = {<<s, "down">>}]
             y == [NoRun EXCEPT !.pc = "clear", !.scope = {s}]
  <2>1. {<<s, "down">>} \in SUBSET Keys /\ {s} \in SUBSET All  BY DEF Keys, All
  <2>2. Silent(r, x) /\ Silent(r, y)  BY <1>4, <1>5, <2>1
  <2>3. run' = [run EXCEPT ![r] = x] \/ run' = [run EXCEPT ![r] = y]  BY <1>10 DEF Meet, Succeed, Become
  <2> HIDE DEF x, y
  <2> QED  BY <1>1, <1>2, <2>2, <2>3, SilentStep
<1>11. ASSUME NEW s \in Clients \cap world, Record(r, s) PROVE AlertInv'
  <2> DEFINE keys == {<<s, now[s]>>}
             x == [NoRun EXCEPT !.pc = "list", !.scope = {s}]
             y == [NoRun EXCEPT !.pc = "ask", !.scope = {s}, !.keep = keys, !.todo = keys]
  <2>1. now[s] # "ready" => keys \in SUBSET Keys
    <3>1. s \notin Channels /\ s \notin Secrets /\ s \notin Outages  BY AlertAssumption
    <3>2. now[s] \in Stages \union {"ready"}
      <4>1. now[s] \in Facts(s)  BY <1>0 DEF AlertTyped, All
      <4> QED  BY <3>1, <4>1 DEF Facts
    <3> QED  BY <3>2 DEF Keys
  <2>2. {s} \in SUBSET All /\ keys # {}  BY DEF All
  <2>3. run' = [run EXCEPT ![r] = x] \/ (now[s] # "ready" /\ run' = [run EXCEPT ![r] = y])
    BY <1>11 DEF Record, Become
  <2> HIDE DEF keys
  <2>4. Silent(r, x) /\ (now[s] # "ready" => Silent(r, y))
    BY <1>3, <1>4, <2>1, <2>2
  <2> HIDE DEF x, y
  <2> QED  BY <1>1, <1>2, <2>3, <2>4, SilentStep
<1> QED  BY <1>6, <1>7, <1>8, <1>9, <1>10, <1>11

\* The report's run after a message: what it will stamp was heard by then.
LEMMA AfterIsGood ==
    ASSUME AlertInv, RowsStep, NEW x \in AlertRun, NEW lines \in SUBSET x.ids, NEW arrived \in BOOLEAN,
           \A i \in x.ids \cup x.got : rows'[i] # NoRow,
           x.whole => \A i \in x.got : rows'[i].open => rows'[i].told,
           arrived => \A i \in lines : rows'[i].open => rows'[i].told
    PROVE  Good(After(x, arrived, lines))
<1> DEFINE got == IF Merged \/ arrived THEN x.got \union lines ELSE x.got
           whole == x.whole /\ (arrived \/ ~Merged)
           z == [x EXCEPT !.whole = whole, !.got = got, !.ids = @ \ lines]
           parts == [z EXCEPT !.pc = "parts"]
           stamp == [z EXCEPT !.pc = "stamp"]
<1>1. got \subseteq RowIds /\ x.ids \subseteq RowIds  BY DEF AlertRun
<1>2. whole \in BOOLEAN  BY DEF AlertRun
<1>3. whole => \A i \in got : rows'[i].open => rows'[i].told  OBVIOUS
<1>4. \A i \in (x.ids \ lines) \cup got : rows'[i] # NoRow  OBVIOUS
<1>5. After(x, arrived, lines) = IF z.ids # {} THEN parts ELSE IF z.whole /\ z.got # {} THEN stamp ELSE NoRun
  BY DEF After
<1> HIDE DEF got, whole
<1>6. z \in AlertRun /\ z.ids = x.ids \ lines /\ z.got = got /\ z.whole = whole
  BY <1>1, <1>2 DEF AlertRun
<1> HIDE DEF z
<1>7. parts \in AlertRun /\ parts.ids = z.ids /\ parts.got = got /\ parts.whole = whole /\ parts.pc = "parts"
  BY <1>6 DEF AlertRun
<1>8. stamp \in AlertRun /\ stamp.ids = z.ids /\ stamp.got = got /\ stamp.whole = whole /\ stamp.pc = "stamp"
  BY <1>6 DEF AlertRun
<1> HIDE DEF parts, stamp
<1>9. Good(parts)  BY <1>3, <1>4, <1>6, <1>7 DEF Good
<1>10. z.whole => Good(stamp)  BY <1>3, <1>4, <1>6, <1>8 DEF Good
<1>11. Good(NoRun)  BY DEF Good, NoRun, AlertRun
<1> QED  BY <1>5, <1>9, <1>10, <1>11

LEMMA ReportSteps ==
    ASSUME AlertInv, NEW r \in Runs, StartReport(r) \/ Summary(r) \/ Part(r) \/ Stamp(r)
    PROVE  AlertInv'
<1>0. run[r] \in AlertRun /\ Sound(r) /\ Silent(r, NoRun)  BY RunsTyped DEF AlertInv
<1>1. UNCHANGED <<world, now>>  BY DEF StartReport, Summary, Part, Stamp
<1>2. InHand(r) \subseteq Used /\ InHand(r) \subseteq Held  BY <1>0 DEF Sound, InHand, Held
<1>3. ASSUME NEW ids \in SUBSET Used, NEW arrived \in BOOLEAN, Deliver(ids, arrived)
      PROVE  /\ RowsStep /\ faults' \in 0..MaxFaults
             /\ arrived => \A i \in ids : rows'[i].open => rows'[i].told
             /\ \A i \in InHand(r) : rows'[i] # NoRow
             /\ AllHeard(run[r].got) => \A i \in run[r].got : rows'[i].open => rows'[i].told
  <2>1. RowsStep /\ (arrived => \A i \in ids : rows'[i].open => rows'[i].told)
    BY <1>3, RowsSame, RowsHeard DEF Deliver
  <2>2. faults' \in 0..MaxFaults  BY <1>3, FaultsTyped DEF Deliver
  <2>3. run[r].got \subseteq Held  BY DEF Held
  <2> QED  BY <1>2, <2>1, <2>2, <2>3 DEF RowsStep, HandKept, AllHeard
<1>4. CASE StartReport(r)
  <2> DEFINE x == [NoRun EXCEPT !.pc = "summary", !.ids = OpenOf(All)]
  <2>1. OpenOf(All) \subseteq Used /\ OpenOf(All) \subseteq RowIds  BY DEF OpenOf, Used
  <2>2. x \in AlertRun /\ x.ids = OpenOf(All) /\ x.got = {} /\ x.pc = "summary"
    BY <2>1 DEF AlertRun, NoRun
  <2>3. run' = [run EXCEPT ![r] = x] /\ UNCHANGED rows  BY <1>4 DEF StartReport, Become
  <2> HIDE DEF x
  <2>4. Good(x)  BY <2>1, <2>2, <2>3 DEF Good, Used
  <2>5. faults' \in 0..MaxFaults  BY <1>4, FaultsTyped DEF StartReport
  <2> QED  BY <1>1, <2>3, <2>4, <2>5, RowsSame, RunStepKeeps
<1>5. CASE Summary(r)
  <2> DEFINE due == Escalated(run[r].ids)
             x == [run[r] EXCEPT !.ids = due]
  <2>1. due \subseteq run[r].ids /\ run[r].ids \subseteq Used  BY <1>2 DEF Escalated, InHand
  <2>2. PICK fits \in SUBSET run[r].ids, arrived \in BOOLEAN, lines \in SUBSET due :
           /\ Deliver(fits \union lines, arrived) /\ run' = [run EXCEPT ![r] = After(x, arrived, lines)]
    BY <1>5 DEF Summary, Become
  <2>3. run[r].got = {}  BY <1>0, <1>5 DEF Summary, At, Sound
  <2>4. x \in AlertRun /\ x.ids = due /\ x.got = {}
    BY <1>0, <2>1, <2>3 DEF AlertRun
  <2> HIDE DEF x, due
  <2>5. fits \union lines \in SUBSET Used  BY <2>1, <2>2
  <2>6. /\ RowsStep /\ faults' \in 0..MaxFaults
        /\ arrived => \A i \in lines : rows'[i].open => rows'[i].told
        /\ \A i \in x.ids \cup x.got : rows'[i] # NoRow
    <3>1. x.ids \cup x.got \subseteq InHand(r)  BY <2>1, <2>4 DEF InHand
    <3> QED  BY <1>3, <2>2, <2>5, <3>1
  <2>7. Good(After(x, arrived, lines))  BY <2>2, <2>4, <2>6, AfterIsGood
  <2> QED  BY <1>1, <2>2, <2>6, <2>7, RunStepKeeps
<1>6. CASE Part(r)
  <2>1. PICK lines \in SUBSET run[r].ids, arrived \in BOOLEAN :
           Deliver(lines, arrived) /\ run' = [run EXCEPT ![r] = After(run[r], arrived, lines)]
    BY <1>6 DEF Part, Become
  <2>2. lines \in SUBSET Used  BY <1>2, <2>1 DEF InHand
  <2>3. run[r].whole => AllHeard(run[r].got)  BY <1>0, <1>6 DEF Part, At, Sound
  <2>4. /\ RowsStep /\ faults' \in 0..MaxFaults
        /\ arrived => \A i \in lines : rows'[i].open => rows'[i].told
        /\ \A i \in run[r].ids \cup run[r].got : rows'[i] # NoRow
        /\ run[r].whole => \A i \in run[r].got : rows'[i].open => rows'[i].told
    BY <1>3, <2>1, <2>2, <2>3 DEF InHand
  <2>5. Good(After(run[r], arrived, lines))  BY <1>0, <2>1, <2>4, AfterIsGood
  <2> QED  BY <1>1, <2>1, <2>4, <2>5, RunStepKeeps
<1>7. CASE Stamp(r)
  <2>1. AllHeard(run[r].got)  BY <1>0, <1>7 DEF Stamp, At, Sound
  <2>2. run[r].got \in SUBSET Used  BY <1>2 DEF InHand
  <2>3. RowsStep  BY <1>7, <2>1, <2>2, RowsSame, RowsStamped DEF Stamp
  <2>4. faults' \in 0..MaxFaults  BY <1>7, FaultsTyped DEF Stamp
  <2> QED  BY <1>0, <1>1, <1>7, <2>3, <2>4, SilentStep DEF Stamp, Become
<1> QED  BY <1>4, <1>5, <1>6, <1>7


LEMMA WorldSteps ==
    ASSUME AlertInv, (\E s \in world : Change(s)) \/ HourPasses \/ \E i \in RowIds : Elapse(i)
    PROVE  AlertInv'
<1>0. AlertTyped /\ \A q \in Runs : Sound(q)  BY DEF AlertInv
<1>1. ASSUME NEW s \in world, Change(s) PROVE AlertInv'
  <2>1. PICK x \in Facts(s) : now' = [now EXCEPT ![s] = x] /\ UNCHANGED <<world, rows, run, faults>>
    BY <1>1 DEF Change
  <2>2. AlertTyped'
    <3>1. now' = [t \in All |-> now'[t]]  BY <1>0, <2>1 DEF AlertTyped
    <3>2. \A t \in All : now'[t] \in Facts(t)
      <4>1. \A t \in All : now'[t] = IF t = s THEN x ELSE now[t]  BY <1>0, <2>1 DEF AlertTyped
      <4> QED  BY <1>0, <4>1 DEF AlertTyped
    <3> QED  BY <1>0, <2>1, <3>1, <3>2 DEF AlertTyped, Facts
  <2> QED  BY <1>0, <2>1, <2>2 DEF AlertInv, StampedWasTold, Sound, InHand, Used, AllHeard
<1>2. ASSUME RowsStep, UNCHANGED <<world, now, run, faults>> PROVE AlertInv'
  <2>1. AlertTyped'  BY <1>0, <1>2 DEF AlertTyped, RowsStep, Facts
  <2>2. StampedWasTold'  BY <1>2 DEF StampedWasTold, RowsStep, Used
  <2>3. ASSUME NEW q \in Runs PROVE Sound(q)'
    <3>1. Sound(q)  BY <1>0
    <3>2. InHand(q) \subseteq Held /\ InHand(q) \subseteq RowIds  BY <3>1 DEF InHand, Held, Sound, Used
    <3>3. \A i \in InHand(q) : rows'[i] # NoRow /\ (rows'[i].open => rows[i].open /\ (rows[i].told => rows'[i].told))
      BY <1>2, <3>2 DEF RowsStep, HandKept
    <3>4. run'[q] = run[q]  BY <1>2
    <3> QED  BY <3>1, <3>2, <3>3, <3>4 DEF Sound, InHand, Used, AllHeard
  <2> QED  BY <2>1, <2>2, <2>3 DEF AlertInv
<1>3. CASE HourPasses
  <2> DEFINE later(i) == [rows[i] EXCEPT !.hour = FALSE]
  <2>1. \A i \in RowIds : rows'[i] = IF i \notin Used THEN NoRow
                                    ELSE IF rows[i].open \/ i \in Held THEN later(i) ELSE NoRow
    BY <1>3 DEF HourPasses
  <2>2. ASSUME NEW i \in Used
        PROVE  /\ later(i) \in Episode /\ later(i).open = rows[i].open /\ later(i).told = rows[i].told
               /\ later(i).stamp = rows[i].stamp
    BY <1>0, UsedAreEpisodes DEF Episode
  <2>3. rows' = [i \in RowIds |-> rows'[i]]  BY <1>3 DEF HourPasses
  <2> HIDE DEF later
  <2>4. Held \subseteq Used  BY HeldIsUsed
  <2>5. rows' \in [RowIds -> Episode \cup {NoRow}]
    <3>1. \A i \in RowIds : rows'[i] \in Episode \cup {NoRow}  BY <2>1, <2>2
    <3> QED  BY <2>3, <3>1
  <2>6. HandKept  BY <1>0, <2>1, <2>2, <2>4, UsedAreEpisodes, RowsAreEpisodes DEF HandKept
  <2>7. \A i \in RowIds : rows'[i] # NoRow /\ rows'[i].stamp = "fresh" => rows'[i].told
    BY <2>1, <2>2 DEF AlertInv, StampedWasTold
  <2>8. UNCHANGED <<world, now, run, faults>>  BY <1>3 DEF HourPasses
  <2> QED  BY <1>2, <2>5, <2>6, <2>7, <2>8 DEF RowsStep
<1>4. ASSUME NEW i \in RowIds, Elapse(i) PROVE AlertInv'
  <2> DEFINE stamp == IF rows[i].stamp = "none" THEN rows[i].stamp ELSE "old"
             aged == [rows[i] EXCEPT !.aged = TRUE, !.told = FALSE, !.stamp = stamp]
  <2>1. i \in Used /\ i \notin Held  BY <1>4 DEF Elapse, Used
  <2>2. stamp \in {"none", "old"}  OBVIOUS
  <2> HIDE DEF stamp
  <2>3. aged \in Episode /\ aged.stamp = stamp
    <3>1. rows[i] \in Episode  BY <1>0, <2>1, UsedAreEpisodes
    <3> QED  BY <2>2, <3>1 DEF Episode
  <2>4. rows' = [rows EXCEPT ![i] = aged]  BY <1>4 DEF Elapse, stamp
  <2> HIDE DEF aged
  <2>5. rows'[i] = aged /\ \A j \in RowIds \ {i} : rows'[j] = rows[j]  BY <1>0, <2>4 DEF AlertTyped
  <2>6. rows' \in [RowIds -> Episode \cup {NoRow}]  BY <1>0, <2>3, <2>4 DEF AlertTyped
  <2>7. HandKept  BY <1>0, <2>1, <2>5, HeldIsUsed, UsedAreEpisodes DEF HandKept, Used
  <2>8. \A j \in RowIds : rows'[j] # NoRow /\ rows'[j].stamp = "fresh" => rows'[j].told
    BY <2>2, <2>3, <2>5 DEF AlertInv, StampedWasTold, Used
  <2>9. UNCHANGED <<world, now, run, faults>>  BY <1>4 DEF Elapse
  <2> QED  BY <1>2, <2>6, <2>7, <2>8, <2>9 DEF RowsStep
<1> QED  BY <1>1, <1>3, <1>4

LEMMA InitAlertInv == AlertInit => AlertInv
<1> SUFFICES ASSUME AlertInit PROVE AlertInv  OBVIOUS
<1>1. \A s \in All : now[s] \in Facts(s)
  <2>1. (CHOOSE x \in Stages : TRUE) \in Stages  BY AlertAssumption
  <2>2. ASSUME NEW s \in All
        PROVE  now[s] = IF s \in Channels THEN <<"ok", "ok">> ELSE IF s \in Secrets THEN "fine"
                        ELSE IF s \in Outages THEN "up" ELSE CHOOSE x \in Stages : TRUE
    BY DEF AlertInit
  <2> QED  BY <2>1, <2>2, AlertAssumption DEF Facts
<1>2. now = [s \in All |-> now[s]]
  <2> DEFINE start(s) == IF s \in Channels THEN <<"ok", "ok">> ELSE IF s \in Secrets THEN "fine"
                         ELSE IF s \in Outages THEN "up" ELSE CHOOSE x \in Stages : TRUE
  <2>1. now = [s \in All |-> start(s)]  BY DEF AlertInit
  <2> HIDE DEF start
  <2> QED  BY <2>1
<1>3. NoRun \in AlertRun  BY DEF NoRun, AlertRun
<1>4. rows \in [RowIds -> Episode \cup {NoRow}] /\ run \in [Runs -> AlertRun] /\ Used = {}
  BY <1>3 DEF AlertInit, Used
<1>5. faults \in 0..MaxFaults  BY AlertAssumption DEF AlertInit
<1>6. \A q \in Runs : Sound(q)
  <2>1. \A q \in Runs : run[q] = NoRun  BY DEF AlertInit
  <2> QED  BY <2>1 DEF Sound, InHand, NoRun
<1> QED  BY <1>1, <1>2, <1>4, <1>5, <1>6 DEF AlertInv, AlertTyped, StampedWasTold, AlertInit

LEMMA NextAlertInv == AlertInv /\ [AlertNext]_alertVars => AlertInv'
<1> SUFFICES ASSUME AlertInv, [AlertNext]_alertVars PROVE AlertInv'  OBVIOUS
<1>1. ASSUME NEW r \in Runs, RunStep(r) \/ Die(r) PROVE AlertInv'
  BY <1>1, ClosingSteps, RaisingSteps, DetectorSteps, ReportSteps DEF RunStep
<1>2. ASSUME NEW r \in Health, StartHealth(r) PROVE AlertInv'
  BY <1>2, DetectorSteps DEF Runs
<1>3. ASSUME NEW r \in Reports, StartReport(r) PROVE AlertInv'
  BY <1>3, ReportSteps DEF Runs
<1>4. ASSUME NEW r \in Replies, NEW s \in Outages \cap world, Meet(r, s) \/ Succeed(r, s) PROVE AlertInv'
  BY <1>4, DetectorSteps DEF Runs
<1>5. ASSUME NEW r \in Operators, NEW s \in Clients \cap world, Record(r, s) PROVE AlertInv'
  BY <1>5, DetectorSteps DEF Runs
<1>6. CASE UNCHANGED alertVars
  <2>1. UNCHANGED <<world, now, rows, run, faults>>  BY <1>6 DEF alertVars
  <2> QED  BY <2>1 DEF AlertInv, AlertTyped, StampedWasTold, Sound, InHand, Used, AllHeard, Facts
<1> QED  BY <1>1, <1>2, <1>3, <1>4, <1>5, <1>6, WorldSteps DEF AlertNext

\* No run, failed message or death takes an episode or a run out of its type.
THEOREM AlertTypeCorrect == AlertSpec => []AlertTypeOK
<1>1. AlertInv => AlertTypeOK
  <2> SUFFICES ASSUME AlertInv PROVE AlertTypeOK  OBVIOUS
  <2>1. \A i \in Used : rows[i] \in Episode  BY UsedAreEpisodes DEF AlertInv
  <2> QED  BY <2>1 DEF AlertInv, AlertTyped, AlertTypeOK, Episode, AlertRun
<1> QED  BY <1>1, InitAlertInv, NextAlertInv, PTL DEF AlertSpec

\* The three days of an episode never begin on a message that did not arrive
\* (digest.ts:853): for any number of rows, reports and parts.
THEOREM NothingUntoldIsStamped == AlertSpec => []StampedWasTold
<1>1. AlertInv => StampedWasTold  BY DEF AlertInv
<1> QED  BY <1>1, InitAlertInv, NextAlertInv, PTL DEF AlertSpec


(***************************************************************************)
(* What a client's set-up leaves open.                                     *)
(***************************************************************************)

\* A step keeps the open episodes outside S open, and the key of whatever a run has in hand.
OpenKept(S) ==
    /\ \A i \in Used \ S : rows[i].open => i \in Used' /\ rows'[i].open /\ rows'[i].key = rows[i].key
    /\ \A i \in Held : rows'[i].key = rows[i].key

LEMMA SameKeepsOpen ==
    ASSUME AlertInv, UNCHANGED rows PROVE OpenKept({})
  BY HeldIsUsed DEF OpenKept, Used

LEMMA ShutKeepsOpen ==
    ASSUME AlertInv, NEW S \in SUBSET Used,
           rows' = [i \in RowIds |-> IF i \in S THEN Shut(rows[i]) ELSE rows[i]]
    PROVE  OpenKept(S)
<1>1. \A i \in RowIds : Shut(rows[i]).key = rows[i].key  BY DEF Shut, Row
<1>2. \A i \in RowIds : rows'[i] = IF i \in S THEN Shut(rows[i]) ELSE rows[i]  OBVIOUS
<1> QED  BY <1>1, <1>2, HeldIsUsed DEF OpenKept, Used

LEMMA TellingKeepsOpen ==
    ASSUME AlertInv, NEW S \in SUBSET Used, rows' = Heard(S) \/ rows' = Stamped(S)
    PROVE  OpenKept({})
<1>1. ASSUME NEW i \in Used
      PROVE  /\ rows'[i] \in Episode /\ rows'[i].open = rows[i].open /\ rows'[i].key = rows[i].key
  <2>1. rows[i] \in Episode /\ i \in RowIds  BY UsedAreEpisodes DEF AlertInv
  <2>2. rows'[i] \in {rows[i], [rows[i] EXCEPT !.told = TRUE], [rows[i] EXCEPT !.stamp = "fresh"]}
    BY <2>1 DEF Heard, Stamped
  <2> QED  BY <2>1, <2>2 DEF Episode
<1> QED  BY <1>1, HeldIsUsed, RowsAreEpisodes DEF OpenKept, Used

LEMMA FreshKeepsOpen ==
    ASSUME AlertInv, NEW i \in Spare, NEW k \in Keys, rows' = [rows EXCEPT ![i] = Row(k)]
    PROVE  OpenKept({}) /\ i \in Used' /\ rows'[i].open /\ rows'[i].key = k
<1>1. i \in RowIds /\ i \notin Held /\ (i \in Used => ~ rows[i].open)
  BY HeldIsUsed DEF Spare, Used
<1>2. rows'[i] = Row(k) /\ \A j \in RowIds \ {i} : rows'[j] = rows[j]  BY <1>1 DEF AlertInv, AlertTyped
<1>3. Row(k) # NoRow /\ Row(k).open /\ Row(k).key = k  BY RowsAreEpisodes
<1> QED  BY <1>1, <1>2, <1>3, HeldIsUsed DEF OpenKept, Used

\* Only a closing step closes, and it closes what it lists.
LEMMA StepKeepsOpen ==
    ASSUME AlertInv, NEW r \in Runs,
           \/ RunStep(r) \/ StartHealth(r) \/ StartReport(r) \/ Die(r)
           \/ \E s \in Outages \cap world : Meet(r, s) \/ Succeed(r, s)
           \/ \E s \in Clients \cap world : Record(r, s)
    PROVE  \/ OpenKept({})
           \/ Close(r) /\ OpenKept(run[r].ids)
           \/ Clear(r) /\ OpenKept(OpenOf(run[r].scope))
<1>1. InHand(r) \subseteq Used /\ run[r].ids \in SUBSET Used /\ run[r].got \in SUBSET Used
  BY DEF AlertInv, Sound, InHand
<1>2. CASE UNCHANGED rows  BY <1>2, SameKeepsOpen
<1>3. CASE Close(r)  BY <1>1, <1>3, SameKeepsOpen, ShutKeepsOpen DEF Close
<1>4. CASE Clear(r)
  <2>1. OpenOf(run[r].scope) \in SUBSET Used  BY DEF OpenOf
  <2> QED  BY <1>4, <2>1, SameKeepsOpen, ShutKeepsOpen DEF Clear
<1>5. CASE Insert(r)
  <2>1. Raising(r) \in Keys
    <3>1. run[r].todo # {}  BY <1>5 DEF Insert, At, AlertInv, Sound
    <3> QED  BY <3>1, RaisingIsDue
  <2>2. UNCHANGED rows \/ \E i \in Spare : rows' = [rows EXCEPT ![i] = Row(Raising(r))]
    <3>1. Spare # {} => Free \in Spare  BY DEF Free
    <3> QED  BY <1>5, <3>1 DEF Insert
  <2> QED  BY <2>1, <2>2, SameKeepsOpen, FreshKeepsOpen
<1>6. CASE Send(r) \/ Mark(r) \/ Stamp(r)
  BY <1>1, <1>6, SameKeepsOpen, TellingKeepsOpen DEF Send, Mark, Stamp
<1>7. CASE Summary(r) \/ Part(r)
  <2>1. \E ids \in SUBSET Used, arrived \in BOOLEAN : Deliver(ids, arrived)
    <3>1. CASE Summary(r)
      <4>1. Escalated(run[r].ids) \subseteq Used  BY <1>1 DEF Escalated
      <4>2. PICK fits \in SUBSET run[r].ids, arrived \in BOOLEAN, lines \in SUBSET Escalated(run[r].ids) :
              Deliver(fits \union lines, arrived)
        BY <3>1 DEF Summary
      <4>3. fits \union lines \in SUBSET Used  BY <1>1, <4>1, <4>2
      <4> QED  BY <4>2, <4>3
    <3>2. CASE Part(r)
      <4>1. PICK lines \in SUBSET run[r].ids, arrived \in BOOLEAN : Deliver(lines, arrived)  BY <3>2 DEF Part
      <4>2. lines \in SUBSET Used  BY <1>1, <4>1
      <4> QED  BY <4>1, <4>2
    <3> QED  BY <1>7, <3>1, <3>2
  <2> QED  BY <2>1, SameKeepsOpen, TellingKeepsOpen DEF Deliver
<1> QED
  BY <1>2, <1>3, <1>4, <1>5, <1>6, <1>7
  DEF RunStep, StartHealth, StartReport, Die, Meet, Succeed, Record, List, Ask, Watch, Expiry

\* Only an operator's run closes a client's episodes: of one client, and behind an open
\* episode of the stage it found, if it found one.
Stands(q) == \E i \in Used : rows[i].open /\ rows[i].key \in run[q].keep
SetsUp(q) ==
    \E s \in Clients :
        /\ run[q].scope = {s}
        /\ \/ run[q].keep = {} /\ run[q].todo = {} /\ run[q].pc \in {"list", "close"}
           \/ \E x \in Stages :
                /\ run[q].keep = {<<s, x>>}
                /\ \/ run[q].pc \in {"ask", "insert", "send", "mark"} /\ run[q].todo = {<<s, x>>}
                   \/ run[q].pc \in {"list", "close"} /\ run[q].todo = {}
                /\ run[q].pc \in {"send", "mark", "list", "close"} => Stands(q)
        /\ run[q].pc = "close" => \A i \in run[q].ids : rows[i].key[1] = s /\ rows[i].key \notin run[q].keep
Elsewhere(q) ==
    /\ run[q].scope \cap Clients = {}
    /\ run[q].pc = "close" => \A i \in run[q].ids : rows[i].key[1] \notin Clients
OwnPlace(q) == IF q \in Operators THEN run[q] = NoRun \/ SetsUp(q) ELSE Elsewhere(q)
PlacesInv == \A q \in Runs : OwnPlace(q)


\* One run's step leaves the others where they were, if nobody else is an operator.
LEMMA OthersStay ==
    ASSUME AlertInv, PlacesInv, \A p, q \in Operators : p = q, NEW r \in Runs, NEW x,
           run' = [run EXCEPT ![r] = x],
           \/ OpenKept({})
           \/ Close(r) /\ OpenKept(run[r].ids)
           \/ Clear(r) /\ OpenKept(OpenOf(run[r].scope))
    PROVE  \A q \in Runs \ {r} : OwnPlace(q)'
<1> SUFFICES ASSUME NEW q \in Runs \ {r} PROVE OwnPlace(q)'  OBVIOUS
<1>1. run'[q] = run[q]  BY DEF AlertInv, AlertTyped
<1>2. \A i \in run[q].ids : rows'[i].key = rows[i].key
  <2>1. run[q].ids \subseteq Held  BY DEF Held
  <2> QED  BY <2>1 DEF OpenKept
<1>3. OwnPlace(q) /\ OwnPlace(r)  BY DEF PlacesInv
<1>4. CASE q \notin Operators
  BY <1>1, <1>2, <1>3, <1>4 DEF OwnPlace, Elsewhere
<1>5. CASE q \in Operators
  <2>1. Elsewhere(r)  BY <1>3, <1>5 DEF OwnPlace
  <2>2. ASSUME NEW s \in Clients, NEW y \in Stages, run[q].keep = {<<s, y>>}, Stands(q) PROVE Stands(q)'
    <3>1. PICK i \in Used : rows[i].open /\ rows[i].key = <<s, y>>  BY <2>2 DEF Stands
    <3>2. rows[i].key[1] = s  BY <3>1
    <3>3. ~ (Close(r) /\ i \in run[r].ids)  BY <2>1, <3>2 DEF Elsewhere, Close, At
    <3>4. ~ (Clear(r) /\ i \in OpenOf(run[r].scope))  BY <2>1, <3>2 DEF Elsewhere, OpenOf
    <3>5. i \in Used' /\ rows'[i].open /\ rows'[i].key = rows[i].key  BY <3>1, <3>3, <3>4 DEF OpenKept
    <3> QED  BY <1>1, <2>2, <3>1, <3>5 DEF Stands
  <2>3. CASE run[q] = NoRun  BY <1>1, <1>5, <2>3 DEF OwnPlace
  <2>4. CASE SetsUp(q)
    <3>1. SetsUp(q)'
      <4>1. PICK s \in Clients :
              /\ run[q].scope = {s}
              /\ \/ run[q].keep = {} /\ run[q].todo = {} /\ run[q].pc \in {"list", "close"}
                 \/ \E y \in Stages :
                      /\ run[q].keep = {<<s, y>>}
                      /\ \/ run[q].pc \in {"ask", "insert", "send", "mark"} /\ run[q].todo = {<<s, y>>}
                         \/ run[q].pc \in {"list", "close"} /\ run[q].todo = {}
                      /\ run[q].pc \in {"send", "mark", "list", "close"} => Stands(q)
              /\ run[q].pc = "close" => \A i \in run[q].ids : rows[i].key[1] = s /\ rows[i].key \notin run[q].keep
        BY <2>4 DEF SetsUp
      <4> QED  BY <1>1, <1>2, <2>2, <4>1 DEF SetsUp
    <3> QED  BY <1>5, <3>1 DEF OwnPlace
  <2> QED  BY <1>3, <1>5, <2>3, <2>4 DEF OwnPlace
<1> QED  BY <1>4, <1>5

\* A run that is no operator's stays away from the clients.
LEMMA AwaySteps ==
    ASSUME AlertInv, NEW r \in Runs \ Operators, Elsewhere(r),
           \/ RunStep(r) \/ StartHealth(r) \/ StartReport(r) \/ Die(r)
           \/ \E s \in Outages \cap world : Meet(r, s) \/ Succeed(r, s)
    PROVE  Elsewhere(r)'
<1> DEFINE Away(x) == x.scope \cap Clients = {} /\ x.pc # "close"
<1>0. run[r] \in AlertRun /\ run[r].scope \cap Clients = {} /\ run \in [Runs -> AlertRun]
  BY RunsTyped DEF Elsewhere, AlertInv, AlertTyped
<1>1. Away(NoRun) /\ \A left : Away(Visit(left))  BY DEF NoRun, Visit
<1>2. Away(Onward(r))  BY <1>1 DEF Onward
<1>3. Away(Closed(r))
  <2> DEFINE x == [run[r] EXCEPT !.pc = "ask", !.ids = {}]
  <2>1. x.scope = run[r].scope /\ x.pc = "ask"  BY <1>0 DEF AlertRun
  <2> HIDE DEF x
  <2> QED  BY <1>0, <1>2, <2>1 DEF Closed, x
<1>4. ASSUME NEW k, NEW opened PROVE Away(Raised(r, k, opened))
  <2> DEFINE next == [run[r] EXCEPT !.todo = @ \ {k}, !.ids = {}]
             ask == [next EXCEPT !.pc = "ask"]
             list == [next EXCEPT !.pc = "list"]
  <2>1. /\ ask.scope = run[r].scope /\ ask.pc = "ask"
        /\ list.scope = run[r].scope /\ list.pc = "list"
    BY <1>0 DEF AlertRun
  <2>2. Raised(r, k, opened) \in {ask, list, NoRun, Onward(r)}  BY DEF Raised
  <2> HIDE DEF ask, list
  <2> QED  BY <1>0, <1>1, <1>2, <2>1, <2>2
<1>5. ASSUME NEW x, run' = [run EXCEPT ![r] = x], Away(x) PROVE Elsewhere(r)'
  BY <1>0, <1>5 DEF Elsewhere
<1> HIDE DEF Away
<1>6. CASE List(r)
  <2>1. CASE run' = [run EXCEPT ![r] = Closed(r)]  BY <1>3, <1>5, <2>1
  <2>2. CASE run' = [run EXCEPT ![r] = [run[r] EXCEPT !.pc = "close", !.ids = Stale(r)]]
    <3>1. run'[r].scope = run[r].scope /\ run'[r].ids = Stale(r)  BY <1>0, <2>2 DEF AlertRun
    <3>2. \A i \in Stale(r) : rows'[i].key[1] \notin Clients
      BY <1>0, <1>6 DEF List, Stale, OpenOf
    <3> QED  BY <1>0, <3>1, <3>2 DEF Elsewhere
  <2> QED  BY <1>6, <2>1, <2>2 DEF List, Become
<1>7. CASE Close(r) \/ Clear(r) \/ Stamp(r) \/ Die(r)
  BY <1>1, <1>3, <1>5, <1>7 DEF Close, Clear, Stamp, Die, Become
<1>8. CASE Ask(r) \/ Insert(r) \/ Send(r) \/ Mark(r)
  <2> DEFINE insert == [run[r] EXCEPT !.pc = "insert"]
             send == [run[r] EXCEPT !.pc = "send", !.ids = {Free}]
             mark == [run[r] EXCEPT !.pc = "mark"]
  <2>1. Away(insert) /\ Away(send) /\ Away(mark)  BY <1>0 DEF AlertRun, Away
  <2>2. \/ \E opened \in BOOLEAN : run' = [run EXCEPT ![r] = Raised(r, Raising(r), opened)]
        \/ run' = [run EXCEPT ![r] = insert] \/ run' = [run EXCEPT ![r] = send] \/ run' = [run EXCEPT ![r] = mark]
    BY <1>8 DEF Ask, Insert, Send, Mark, Become, Proceed
  <2> HIDE DEF insert, send, mark
  <2> QED  BY <1>4, <1>5, <2>1, <2>2
<1>9. CASE StartHealth(r)  BY <1>1, <1>5, <1>9 DEF StartHealth, Become
<1>10. CASE Watch(r)
  <2>1. PICK c \in run[r].left : \E x : run' = [run EXCEPT ![r] = Found(r, c, x)]
    BY <1>10 DEF Watch, Become
  <2>6. PICK x : run' = [run EXCEPT ![r] = Found(r, c, x)]  BY <2>1
  <2>2. c \in Channels /\ c \notin Clients  BY <1>0, AlertAssumption DEF AlertRun
  <2> DEFINE seen == [run[r] EXCEPT !.left = @ \ {c}, !.scope = {c}]
             list == [seen EXCEPT !.pc = "list"]
             both == [seen EXCEPT !.pc = "list", !.keep = {<<c, x>>}, !.todo = {<<c, x>>}]
  <2>3. list.scope = {c} /\ list.pc = "list" /\ both.scope = {c} /\ both.pc = "list"
    BY <1>0 DEF AlertRun
  <2>4. Found(r, c, x) \in {Visit(seen.left), list, both}  BY DEF Found
  <2> HIDE DEF seen, list, both
  <2>5. Away(list) /\ Away(both)  BY <2>2, <2>3 DEF Away
  <2> QED  BY <1>1, <1>5, <2>6, <2>4, <2>5
<1>11. CASE Expiry(r)
  <2> DEFINE found == {<<s, State(s)>> : s \in {s \in Secrets \cap world : Fault(s, State(s))}}
             x == [NoRun EXCEPT !.pc = IF found = {} THEN "list" ELSE "ask", !.scope = Secrets,
                                !.keep = found, !.todo = found]
  <2>1. run' = [run EXCEPT ![r] = x] \/ run' = [run EXCEPT ![r] = NoRun]  BY <1>11 DEF Expiry, Become
  <2> HIDE DEF found
  <2>2. x.scope = Secrets /\ x.pc \in {"list", "ask"}  BY DEF NoRun
  <2> HIDE DEF x
  <2>3. Away(x)  BY <2>2, AlertAssumption DEF Away
  <2> QED  BY <1>1, <1>5, <2>1, <2>3
<1>12. ASSUME NEW s \in Outages \cap world, Meet(r, s) \/ Succeed(r, s) PROVE Elsewhere(r)'
  <2> DEFINE x == [NoRun EXCEPT !.pc = "ask", !.todo = {<<s, "down">>}]
             y == [NoRun EXCEPT !.pc = "clear", !.scope = {s}]
  <2>1. x.scope = {} /\ x.pc = "ask" /\ y.scope = {s} /\ y.pc = "clear"  BY DEF NoRun
  <2>2. run' = [run EXCEPT ![r] = x] \/ run' = [run EXCEPT ![r] = y]  BY <1>12 DEF Meet, Succeed, Become
  <2> HIDE DEF x, y
  <2>3. Away(x) /\ Away(y)  BY <2>1, AlertAssumption DEF Away
  <2> QED  BY <1>5, <2>2, <2>3
<1>13. CASE StartReport(r) \/ Summary(r) \/ Part(r)
  <2>1. ASSUME NEW x, x.scope \cap Clients = {}, NEW arrived, NEW ids, x \in AlertRun PROVE Away(After(x, arrived, ids))
    <3> DEFINE y == [x EXCEPT !.whole = @ /\ (arrived \/ ~Merged), !.got = IF Merged \/ arrived THEN @ \union ids ELSE @,
                              !.ids = @ \ ids]
               parts == [y EXCEPT !.pc = "parts"]
               stamp == [y EXCEPT !.pc = "stamp"]
    <3>1. parts.scope = x.scope /\ parts.pc = "parts" /\ stamp.scope = x.scope /\ stamp.pc = "stamp"
      BY <2>1 DEF AlertRun
    <3>2. After(x, arrived, ids) \in {parts, stamp, NoRun}  BY DEF After
    <3> HIDE DEF parts, stamp
    <3>3. Away(parts) /\ Away(stamp)  BY <2>1, <3>1 DEF Away
    <3> QED  BY <1>1, <3>2, <3>3
  <2>2. CASE StartReport(r)
    <3> DEFINE x == [NoRun EXCEPT !.pc = "summary", !.ids = OpenOf(All)]
    <3>1. x.scope = {} /\ x.pc = "summary"  BY DEF NoRun
    <3>2. run' = [run EXCEPT ![r] = x]  BY <2>2 DEF StartReport, Become
    <3> HIDE DEF x
    <3>3. Away(x)  BY <3>1 DEF Away
    <3> QED  BY <1>5, <3>2, <3>3
  <2>3. CASE Summary(r)
    <3> DEFINE due == Escalated(run[r].ids)
               x == [run[r] EXCEPT !.ids = due]
    <3>1. due \subseteq RowIds  BY <1>0 DEF Escalated, AlertRun
    <3>2. PICK arrived, lines : run' = [run EXCEPT ![r] = After(x, arrived, lines)]
      BY <2>3 DEF Summary, Become
    <3> HIDE DEF due
    <3>3. x \in AlertRun /\ x.scope = run[r].scope  BY <1>0, <3>1 DEF AlertRun
    <3> HIDE DEF x
    <3> QED  BY <1>0, <1>5, <2>1, <3>2, <3>3
  <2>4. CASE Part(r)
    <3>1. PICK arrived, lines : run' = [run EXCEPT ![r] = After(run[r], arrived, lines)]
      BY <2>4 DEF Part, Become
    <3> QED  BY <1>0, <1>5, <2>1, <3>1
  <2> QED  BY <1>13, <2>2, <2>3, <2>4
<1> QED
  BY <1>6, <1>7, <1>8, <1>9, <1>10, <1>11, <1>12, <1>13 DEF RunStep


\* An operator's run: raise, and close the rest behind what it raised.
LEMMA OperatorSteps ==
    ASSUME AlertInv, NEW r \in Operators, run[r] = NoRun \/ SetsUp(r),
           \/ RunStep(r) \/ Die(r)
           \/ \E s \in Clients \cap world : Record(r, s)
    PROVE  run'[r] = NoRun \/ SetsUp(r)'
<1>0. run[r] \in AlertRun /\ r \in Runs /\ AlertTyped /\ r \notin Health
  BY RunsTyped, AlertAssumption DEF Runs, AlertInv
<1>1. \A x : run' = [run EXCEPT ![r] = x] => run'[r] = x  BY <1>0 DEF AlertTyped
<1>2. ASSUME NEW s \in Clients \cap world, Record(r, s) PROVE SetsUp(r)'
  <2> DEFINE keys == {<<s, now[s]>>}
             x == [NoRun EXCEPT !.pc = "list", !.scope = {s}]
             y == [NoRun EXCEPT !.pc = "ask", !.scope = {s}, !.keep = keys, !.todo = keys]
  <2>1. x.scope = {s} /\ x.keep = {} /\ x.todo = {} /\ x.pc = "list"  BY DEF NoRun
  <2>2. y.scope = {s} /\ y.keep = keys /\ y.todo = keys /\ y.pc = "ask"  BY DEF NoRun
  <2>3. run' = [run EXCEPT ![r] = x] \/ (now[s] # "ready" /\ run' = [run EXCEPT ![r] = y])
    BY <1>2 DEF Record, Become
  <2>4. now[s] # "ready" => now[s] \in Stages
    <3>1. s \notin Channels /\ s \notin Secrets /\ s \notin Outages  BY AlertAssumption
    <3>2. now[s] \in Facts(s)  BY <1>0 DEF AlertTyped, All
    <3> QED  BY <3>1, <3>2 DEF Facts
  <2> HIDE DEF x, y
  <2>5. CASE run'[r] = x  BY <2>1, <2>5 DEF SetsUp
  <2>6. CASE now[s] # "ready" /\ run'[r] = y  BY <2>2, <2>4, <2>6 DEF SetsUp
  <2> QED  BY <1>1, <2>3, <2>5, <2>6
<1>3. CASE Die(r)  BY <1>1, <1>3 DEF Die, Become
<1>4. ASSUME RunStep(r) PROVE run'[r] = NoRun \/ SetsUp(r)'
  <2>1. run[r].pc # "idle"
    BY <1>4 DEF RunStep, List, Close, Clear, Ask, Insert, Send, Mark, Watch, Expiry, Summary, Part, Stamp, At
  <2>2. SetsUp(r)  BY <2>1 DEF NoRun
  <2>3. PICK s \in Clients :
          /\ run[r].scope = {s}
          /\ \/ run[r].keep = {} /\ run[r].todo = {} /\ run[r].pc \in {"list", "close"}
             \/ \E x \in Stages :
                  /\ run[r].keep = {<<s, x>>}
                  /\ \/ run[r].pc \in {"ask", "insert", "send", "mark"} /\ run[r].todo = {<<s, x>>}
                     \/ run[r].pc \in {"list", "close"} /\ run[r].todo = {}
                  /\ run[r].pc \in {"send", "mark", "list", "close"} => Stands(r)
          /\ run[r].pc = "close" => \A i \in run[r].ids : rows[i].key[1] = s /\ rows[i].key \notin run[r].keep
    BY <2>2 DEF SetsUp
  <2>4. run[r].pc \in {"ask", "insert", "send", "mark", "list", "close"}  BY <2>3
  <2>5. List(r) \/ Close(r) \/ Ask(r) \/ Insert(r) \/ Send(r) \/ Mark(r)
    BY <1>4, <2>4 DEF RunStep, Clear, Watch, Expiry, Summary, Part, Stamp, At
  <2>6. Onward(r) = NoRun  BY <1>0 DEF Onward
  <2>7. CASE Close(r)
    <3>1. run[r].todo = {}  BY <2>3, <2>7 DEF Close, At
    <3> QED  BY <1>1, <2>6, <2>7, <3>1 DEF Close, Become, Closed
  <2>8. CASE List(r)
    <3>1. run[r].todo = {} /\ run[r].pc = "list" /\ UNCHANGED rows  BY <2>3, <2>8 DEF List, At
    <3>2. CASE run' = [run EXCEPT ![r] = Closed(r)]
      BY <1>1, <2>6, <3>1, <3>2 DEF Closed
    <3>3. CASE run' = [run EXCEPT ![r] = [run[r] EXCEPT !.pc = "close", !.ids = Stale(r)]]
      <4>1. /\ run'[r].scope = {s} /\ run'[r].keep = run[r].keep /\ run'[r].todo = {}
            /\ run'[r].pc = "close" /\ run'[r].ids = Stale(r)
        BY <1>0, <2>3, <3>1, <3>3 DEF AlertTyped, AlertRun
      <4>2. \A i \in Stale(r) : rows[i].key[1] = s /\ rows[i].key \notin run[r].keep
        BY <2>3 DEF Stale, OpenOf
      <4>3. Stands(r) => Stands(r)'  BY <3>1, <4>1 DEF Stands, Used
      <4>4. SetsUp(r)'  BY <2>3, <3>1, <4>1, <4>2, <4>3 DEF SetsUp
      <4> QED  BY <4>4
    <3> QED  BY <2>8, <3>2, <3>3 DEF List, Become
  <2>9. CASE Ask(r) \/ Insert(r) \/ Send(r) \/ Mark(r)
    <3>1. PICK x \in Stages : run[r].keep = {<<s, x>>} /\ run[r].todo = {<<s, x>>}
      BY <2>3, <2>9 DEF Ask, Insert, Send, Mark, At
    <3> DEFINE k == <<s, x>>
    <3>2. Raising(r) = k /\ k \in Keys
      <4>1. Raising(r) \in run[r].todo /\ Raising(r) \in Keys  BY <1>0, <3>1, RaisingIsDue
      <4> QED  BY <3>1, <4>1
    <3>3. run[r].pc \in {"send", "mark"} => Stands(r)  BY <2>3
    <3> HIDE DEF k
    <3>4. Raised(r, k, FALSE) = NoRun
      BY <1>0, <3>1 DEF Raised, k
    <3> DEFINE up(stop) == [run[r] EXCEPT !.pc = stop]
               held(i) == [run[r] EXCEPT !.pc = "send", !.ids = {i}]
               list == Raised(r, k, TRUE)
    <3>5. list.scope = {s} /\ list.keep = {k} /\ list.todo = {} /\ list.pc = "list"
      <4> DEFINE next == [run[r] EXCEPT !.todo = @ \ {k}, !.ids = {}]
                 y == [next EXCEPT !.pc = "list"]
      <4>1. y.scope = {s} /\ y.keep = {k} /\ y.todo = {} /\ y.pc = "list"
        BY <1>0, <2>3, <3>1 DEF AlertRun, k
      <4>2. run[r].todo \ {k} = {}  BY <3>1 DEF k
      <4>3. list = y  BY <4>2 DEF Raised
      <4> HIDE DEF y, list
      <4> QED  BY <4>1, <4>3
    <3>6. ASSUME NEW y, run' = [run EXCEPT ![r] = y], y.scope = {s}, y.keep = {k},
                 \/ y.pc = "insert" /\ y.todo = {k}
                 \/ y.pc \in {"send", "mark"} /\ y.todo = {k} /\ Stands(r)'
                 \/ y.pc = "list" /\ y.todo = {} /\ Stands(r)'
          PROVE  SetsUp(r)'
      <4>1. run'[r] = y  BY <1>1, <3>6
      <4> QED  BY <3>6, <4>1 DEF SetsUp, k
    <3>7. /\ up("insert").scope = {s} /\ up("insert").keep = {k} /\ up("insert").todo = {k} /\ up("insert").pc = "insert"
          /\ up("mark").scope = {s} /\ up("mark").keep = {k} /\ up("mark").todo = {k} /\ up("mark").pc = "mark"
          /\ held(Free).scope = {s} /\ held(Free).keep = {k} /\ held(Free).todo = {k} /\ held(Free).pc = "send"
      BY <1>0, <2>3, <3>1 DEF AlertRun, k
    <3> HIDE DEF up, held, list
    <3>8. CASE Ask(r)
      <4>1. run' = [run EXCEPT ![r] = NoRun] \/ run' = [run EXCEPT ![r] = up("insert")]
        BY <3>2, <3>4, <3>8 DEF Ask, Become, Proceed, up
      <4> QED  BY <1>1, <3>6, <3>7, <4>1
    <3>9. CASE Insert(r)
      <4>1. \/ run' = [run EXCEPT ![r] = NoRun]
            \/ /\ Spare # {} /\ rows' = [rows EXCEPT ![Free] = Row(k)]
               /\ run' = [run EXCEPT ![r] = held(Free)] \/ run' = [run EXCEPT ![r] = list]
        BY <3>2, <3>4, <3>9 DEF Insert, Become, held, list
      <4>2. CASE run' = [run EXCEPT ![r] = NoRun]  BY <1>1, <4>2
      <4>3. CASE /\ Spare # {} /\ rows' = [rows EXCEPT ![Free] = Row(k)]
                 /\ run' = [run EXCEPT ![r] = held(Free)] \/ run' = [run EXCEPT ![r] = list]
        <5>1. Free \in Spare  BY <4>3 DEF Free
        <5>2. Free \in Used' /\ rows'[Free].open /\ rows'[Free].key = k  BY <3>2, <4>3, <5>1, FreshKeepsOpen
        <5>3. run'[r].keep = {k}  BY <1>1, <3>5, <3>7, <4>3
        <5>4. Stands(r)'  BY <5>2, <5>3 DEF Stands
        <5> QED  BY <3>5, <3>6, <3>7, <4>3, <5>4
      <4> QED  BY <4>1, <4>2, <4>3
    <3>10. CASE Send(r) \/ Mark(r)
      <4>1. run' = [run EXCEPT ![r] = up("mark")] \/ run' = [run EXCEPT ![r] = list]
        BY <3>2, <3>10 DEF Send, Mark, Become, Proceed, up, list
      <4>2. Stands(r)'
        <5>1. PICK i \in Used : rows[i].open /\ rows[i].key \in run[r].keep
          BY <3>3, <3>10 DEF Send, Mark, At, Stands
        <5>2. OpenKept({})
          <6>1. run[r].ids \in SUBSET Used  BY <1>0 DEF AlertInv, Sound, InHand
          <6> QED  BY <3>10, <6>1, SameKeepsOpen, TellingKeepsOpen DEF Send, Mark
        <5>3. run'[r].keep = run[r].keep  BY <1>1, <3>1, <3>5, <3>7, <4>1 DEF k
        <5> QED  BY <5>1, <5>2, <5>3 DEF Stands, OpenKept
      <4> QED  BY <3>5, <3>6, <3>7, <4>1, <4>2
    <3> QED  BY <2>9, <3>8, <3>9, <3>10
  <2> QED  BY <2>5, <2>7, <2>8, <2>9
<1> QED  BY <1>2, <1>3, <1>4


LEMMA InitPlaces == AlertInit => PlacesInv
<1> SUFFICES ASSUME AlertInit, NEW q \in Runs PROVE OwnPlace(q)  BY DEF PlacesInv
<1>1. run[q] = NoRun  BY DEF AlertInit
<1> QED  BY <1>1 DEF OwnPlace, Elsewhere, NoRun

LEMMA NextPlaces ==
    ASSUME AlertInv, PlacesInv, \A p, q \in Operators : p = q, [AlertNext]_alertVars
    PROVE  /\ PlacesInv'
           /\ \A s \in Clients : OpenOf({s}) # {} /\ OpenOf({s})' = {} =>
                \E r \in Operators : At(r, "close") /\ run[r].scope = {s} /\ run[r].keep = {}
<1> DEFINE Ends(s) == \E r \in Operators : At(r, "close") /\ run[r].scope = {s} /\ run[r].keep = {}
<1>1. ASSUME OpenKept({}), NEW s \in Clients, OpenOf({s}) # {} PROVE OpenOf({s})' # {}
  <2>1. PICK i \in Used : rows[i].open /\ rows[i].key[1] = s  BY <1>1 DEF OpenOf
  <2>2. i \in Used' /\ rows'[i].open /\ rows'[i].key = rows[i].key  BY <1>1, <2>1 DEF OpenKept
  <2> QED  BY <2>1, <2>2 DEF OpenOf
<1>2. ASSUME OpenKept({}), UNCHANGED run PROVE PlacesInv'
  <2> SUFFICES ASSUME NEW q \in Runs PROVE OwnPlace(q)'  BY DEF PlacesInv
  <2>1. OwnPlace(q)  BY DEF PlacesInv
  <2>2. \A i \in run[q].ids : rows'[i].key = rows[i].key
    <3>1. run[q].ids \subseteq Held  BY DEF Held
    <3> QED  BY <1>2, <3>1 DEF OpenKept
  <2>3. Stands(q) => Stands(q)'  BY <1>2 DEF Stands, OpenKept
  <2>4. SetsUp(q) => SetsUp(q)'  BY <1>2, <2>2, <2>3 DEF SetsUp
  <2>5. Elsewhere(q) => Elsewhere(q)'  BY <1>2, <2>2 DEF Elsewhere
  <2> QED  BY <1>2, <2>1, <2>4, <2>5 DEF OwnPlace
<1>3. ASSUME NEW r \in Runs,
             \/ RunStep(r) \/ Die(r)
             \/ r \in Operators /\ \E s \in Clients \cap world : Record(r, s)
             \/ /\ r \notin Operators
                /\ \/ StartHealth(r) \/ StartReport(r)
                   \/ \E s \in Outages \cap world : Meet(r, s) \/ Succeed(r, s)
      PROVE  PlacesInv' /\ \A s \in Clients : OpenOf({s}) # {} /\ OpenOf({s})' = {} => Ends(s)
  <2>1. \/ OpenKept({})
        \/ Close(r) /\ OpenKept(run[r].ids)
        \/ Clear(r) /\ OpenKept(OpenOf(run[r].scope))
    BY <1>3, StepKeepsOpen
  <2>2. OwnPlace(r)  BY DEF PlacesInv
  <2>3. PICK x : run' = [run EXCEPT ![r] = x]
    BY <1>3 DEF RunStep, StartHealth, StartReport, Die, Meet, Succeed, Record, List, Close, Clear, Ask, Insert,
                Send, Mark, Watch, Expiry, Summary, Part, Stamp, Become, Proceed
  <2>4. OwnPlace(r)'
    <3>1. CASE r \in Operators
      <4>1. run'[r] = NoRun \/ SetsUp(r)'  BY <1>3, <2>2, <3>1, OperatorSteps DEF OwnPlace
      <4> QED  BY <3>1, <4>1 DEF OwnPlace
    <3>2. CASE r \notin Operators
      <4>1. Elsewhere(r)'  BY <1>3, <2>2, <3>2, AwaySteps DEF OwnPlace
      <4> QED  BY <3>2, <4>1 DEF OwnPlace
    <3> QED  BY <3>1, <3>2
  <2>5. PlacesInv'  BY <2>1, <2>3, <2>4, OthersStay DEF PlacesInv
  <2>6. ASSUME NEW s \in Clients, OpenOf({s}) # {}, OpenOf({s})' = {} PROVE Ends(s)
    <3>1. PICK i \in Used : rows[i].open /\ rows[i].key[1] = s  BY <2>6 DEF OpenOf
    <3>2. \A j \in Used : rows[j].open /\ rows[j].key[1] = s => ~ (j \in Used' /\ rows'[j].open /\ rows'[j].key = rows[j].key)
      BY <2>6 DEF OpenOf
    <3>3. \/ Close(r) /\ OpenKept(run[r].ids) /\ i \in run[r].ids
          \/ Clear(r) /\ i \in OpenOf(run[r].scope)
      BY <2>1, <3>1, <3>2 DEF OpenKept
    <3>4. r \in Operators /\ Close(r)
      <4>1. CASE r \notin Operators
        <5>1. Elsewhere(r)  BY <2>2, <4>1 DEF OwnPlace
        <5> QED  BY <3>1, <3>3, <5>1 DEF Elsewhere, Close, At, OpenOf
      <4>2. CASE r \in Operators
        <5>1. run[r] = NoRun \/ SetsUp(r)  BY <2>2, <4>2 DEF OwnPlace
        <5>2. run[r].pc # "clear"  BY <5>1 DEF NoRun, SetsUp
        <5> QED  BY <3>3, <4>2, <5>2 DEF Clear, At
      <4> QED  BY <4>1, <4>2
    <3>5. run[r].pc = "close"  BY <3>4 DEF Close, At
    <3>6. SetsUp(r)  BY <2>2, <3>4, <3>5 DEF OwnPlace, NoRun
    <3>7. i \in run[r].ids /\ OpenKept(run[r].ids)
      <4>1. ~ Clear(r)  BY <3>5 DEF Clear, At
      <4> QED  BY <3>3, <4>1
    <3>8. PICK t \in Clients :
            /\ run[r].scope = {t}
            /\ run[r].keep = {} \/ \E y \in Stages : run[r].keep = {<<t, y>>} /\ Stands(r)
            /\ \A j \in run[r].ids : rows[j].key[1] = t /\ rows[j].key \notin run[r].keep
      BY <3>5, <3>6 DEF SetsUp
    <3>9. t = s  BY <3>1, <3>7, <3>8
    <3>10. CASE run[r].keep = {}  BY <3>4, <3>5, <3>8, <3>9, <3>10 DEF At
    <3>11. ASSUME NEW y \in Stages, run[r].keep = {<<s, y>>}, Stands(r) PROVE FALSE
      <4>1. PICK j \in Used : rows[j].open /\ rows[j].key = <<s, y>>  BY <3>11 DEF Stands
      <4>2. rows[j].key[1] = s  BY <4>1
      <4>3. rows[j].key \in run[r].keep  BY <3>11, <4>1
      <4>4. j \notin run[r].ids  BY <3>8, <4>3
      <4> QED  BY <3>2, <3>7, <4>1, <4>2, <4>4 DEF OpenKept
    <3> QED  BY <3>8, <3>9, <3>10, <3>11
  <2> QED  BY <2>5, <2>6
<1>4. ASSUME OpenKept({}), UNCHANGED run
      PROVE  PlacesInv' /\ \A s \in Clients : OpenOf({s}) # {} /\ OpenOf({s})' = {} => Ends(s)
  BY <1>1, <1>2, <1>4
<1>5. \A r \in Operators : r \notin Health /\ r \notin Reports /\ r \notin Replies  BY AlertAssumption
<1>6. ASSUME NEW r \in Runs, RunStep(r) \/ Die(r)
      PROVE  PlacesInv' /\ \A s \in Clients : OpenOf({s}) # {} /\ OpenOf({s})' = {} => Ends(s)
  BY <1>3, <1>6
<1>7. ASSUME NEW r \in Runs \ Operators,
             StartHealth(r) \/ StartReport(r) \/ \E s \in Outages \cap world : Meet(r, s) \/ Succeed(r, s)
      PROVE  PlacesInv' /\ \A s \in Clients : OpenOf({s}) # {} /\ OpenOf({s})' = {} => Ends(s)
  BY <1>3, <1>7
<1>8. ASSUME NEW r \in Operators, NEW s \in Clients \cap world, Record(r, s)
      PROVE  PlacesInv' /\ \A t \in Clients : OpenOf({t}) # {} /\ OpenOf({t})' = {} => Ends(t)
  BY <1>3, <1>8 DEF Runs
<1>9. CASE \E s \in world : Change(s)
  <2>1. UNCHANGED <<rows, run>>  BY <1>9 DEF Change
  <2> QED  BY <1>4, <2>1, SameKeepsOpen
<1>10. CASE HourPasses \/ \E i \in RowIds : Elapse(i)
  <2>1. UNCHANGED run  BY <1>10 DEF HourPasses, Elapse
  <2>2. OpenKept({})
    <3> DEFINE later(i) == [rows[i] EXCEPT !.hour = FALSE]
               aged(i) == [rows[i] EXCEPT !.aged = TRUE, !.told = FALSE,
                                          !.stamp = IF rows[i].stamp = "none" THEN rows[i].stamp ELSE "old"]
    <3>1. ASSUME NEW i \in Used
          PROVE  /\ i \in RowIds /\ later(i).open = rows[i].open /\ later(i).key = rows[i].key
                 /\ aged(i).open = rows[i].open /\ aged(i).key = rows[i].key /\ rows[i].key \in Keys
      BY <3>1, UsedAreEpisodes DEF AlertInv, Episode
    <3> HIDE DEF later, aged
    <3>4. \A i \in Used : later(i) # NoRow /\ aged(i) # NoRow
      <4>1. NoRow.key \notin Keys  BY KeysArePairs DEF NoRow
      <4> QED  BY <3>1, <4>1
    <3>2. CASE HourPasses
      <4>1. \A i \in Used : rows[i].open \/ i \in Held => rows'[i] = later(i)
        BY <3>1, <3>2 DEF HourPasses, later
      <4> QED  BY <3>1, <3>4, <4>1, HeldIsUsed DEF OpenKept, Used
    <3>3. ASSUME NEW i \in RowIds, Elapse(i) PROVE OpenKept({})
      <4>1. i \in Used /\ i \notin Held  BY <3>3 DEF Elapse, Used
      <4>2. rows'[i] = aged(i) /\ \A j \in RowIds \ {i} : rows'[j] = rows[j]
        BY <3>3 DEF Elapse, AlertInv, AlertTyped, aged
      <4> QED  BY <3>1, <3>4, <4>1, <4>2, HeldIsUsed DEF OpenKept, Used
    <3> QED  BY <1>10, <3>2, <3>3
  <2> QED  BY <1>4, <2>1, <2>2
<1>11. CASE UNCHANGED alertVars
  <2>1. UNCHANGED <<rows, run>>  BY <1>11 DEF alertVars
  <2> QED  BY <1>4, <2>1, SameKeepsOpen
<1> QED
  BY <1>5, <1>6, <1>7, <1>8, <1>9, <1>10, <1>11 DEF AlertNext, Runs

\* A client whose set-up was recorded stays in the report until a run found it ready
\* (recordReadiness), for any number of rows, deaths and refused inserts, if one
\* operator at a time records.
THEOREM SetUpStaysVisible ==
    ASSUME \A p, q \in Operators : p = q
    PROVE  AlertSpec => NeverInvisible
<1> DEFINE Both == AlertInv /\ PlacesInv
<1>1. AlertInit => Both  BY InitAlertInv, InitPlaces
<1>2. Both /\ [AlertNext]_alertVars => Both'  BY NextAlertInv, NextPlaces
<1>3. Both /\ [AlertNext]_alertVars =>
        [\A s \in Clients : OpenOf({s}) # {} /\ OpenOf({s})' = {} =>
            \E r \in Operators : At(r, "close") /\ run[r].scope = {s} /\ run[r].keep = {}]_alertVars
  BY NextPlaces
<1> HIDE DEF Both
<1> QED  BY <1>1, <1>2, <1>3, PTL DEF AlertSpec, NeverInvisible
=============================================================================
