---------------------------- MODULE SpendLedger ----------------------------
(***************************************************************************)
(* The spend guard: reserve before the model call, settle after it.        *)
(*                                                                         *)
(* A job is one attempt of a worker at one reply.  It seeds the two day    *)
(* counters (its tenant's and the platform's), inserts a reservation row,  *)
(* moves both counters in one statement, and then either gives the hold    *)
(* back or marks it called, reaches the provider, and settles.  Every step *)
(* below is one awaited database call of src/lib/spend/reserve.ts and      *)
(* settle.ts; jobs interleave between any two of them, any call can fail   *)
(* with or without having been applied, and a job can die anywhere.        *)
(*                                                                         *)
(* The calendar is one day: a job addresses the counters of the day of its *)
(* own `now` from its reserve to its settle, so days never share a row.    *)
(* One surface (reception) for the same reason.                            *)
(***************************************************************************)
EXTENDS Integers, FiniteSets

CONSTANTS
    Jobs,          \* attempts at a reply
    Tenants,
    Platform,      \* the key of the platform-wide counter
    TenantOf,      \* the tenant of each job
    Estimate,      \* RECEPTION_REPLY_ESTIMATE, one per reply
    Costs,         \* what the provider may charge for a call
    Budgets,       \* the ceilings tenant_budgets can hold for the surface
    CompiledCap,   \* CAPS.perTenantPerSurfacePerDay
    PlatformCap    \* CAPS.platformPerDay

ASSUME SpendAssumption ==
    /\ Platform \notin Tenants
    /\ TenantOf \in [Jobs -> Tenants]
    /\ Estimate \in Nat
    /\ Costs \subseteq Nat
    /\ Budgets \subseteq Nat
    /\ CompiledCap \in Nat
    /\ PlatformCap \in Nat

VARIABLES
    budget,    \* tenant_budgets: the latest row of each tenant
    counter,   \* spend_counters
    resv,      \* spend_reservations.state of the job's row
    ledger,    \* spend_ledger: the cost written for the job's call
    ceil,      \* the ceiling the job read, held across its awaits
    hold,      \* history: what the counters have done for the job
    pc         \* where the job is

vars == <<budget, counter, resv, ledger, ceil, hold, pc>>

Counters == Tenants \cup {Platform}
NoCost == -1
Targets(j) == {TenantOf[j], Platform}
\* The effective ceiling is a minimum.
Lower(a, b) == IF a <= b THEN a ELSE b
\* greatest(0, n), on every statement that takes from `reserved`.
FloorZero(n) == IF n >= 0 THEN n ELSE 0

CounterRow == [seeded : BOOLEAN, ceiling : Nat, reserved : Nat, settled : Nat]
ResvStates == {"none", "held", "called", "settled", "released"}
HoldStates == {"none", "counted", "returned", "settled"}
Ended == {"refused", "unavailable", "ended", "dead"}
Places == {"start", "seedTenant", "insertHold", "reserveAll", "undo", "granted",
           "unmarked", "calling", "ledgerRow", "settleAll", "markSettled"} \cup Ended

TypeOK ==
    /\ budget \in [Tenants -> Budgets]
    /\ counter \in [Counters -> CounterRow]
    /\ resv \in [Jobs -> ResvStates]
    /\ ledger \in [Jobs -> Costs \cup {NoCost}]
    /\ ceil \in [Jobs -> Nat]
    /\ hold \in [Jobs -> HoldStates]
    /\ pc \in [Jobs -> Places]

Init ==
    /\ budget \in [Tenants -> Budgets]
    /\ counter = [c \in Counters |-> [seeded |-> FALSE, ceiling |-> 0, reserved |-> 0, settled |-> 0]]
    /\ resv = [j \in Jobs |-> "none"]
    /\ ledger = [j \in Jobs |-> NoCost]
    /\ ceil = [j \in Jobs |-> 0]
    /\ hold = [j \in Jobs |-> "none"]
    /\ pc = [j \in Jobs |-> "start"]

Goto(j, place) == pc' = [pc EXCEPT ![j] = place]

\* ensureCounter: an upsert that ignores duplicates, so the first ceiling of the day stays.
Seeded(c, ceiling) ==
    IF counter[c].seeded THEN counter
    ELSE [counter EXCEPT ![c] = [@ EXCEPT !.seeded = TRUE, !.ceiling = ceiling]]

(***************************************************************************)
(* reserve()                                                               *)
(***************************************************************************)

\* effectiveDailyCeiling, and the platform counter seeded beside it.  A ceiling of zero
\* refuses here, before the tenant's counter is touched.
ReadCeiling(j) ==
    /\ pc[j] = "start"
    /\ LET c == Lower(CompiledCap, budget[TenantOf[j]]) IN
       /\ ceil' = [ceil EXCEPT ![j] = c]
       /\ Goto(j, IF c = 0 THEN "refused" ELSE "seedTenant")
    /\ counter' = Seeded(Platform, PlatformCap)
    /\ UNCHANGED <<budget, resv, ledger, hold>>

\* The tenant's counter, seeded with the ceiling read one await earlier.
SeedTenant(j) ==
    /\ pc[j] = "seedTenant"
    /\ counter' = Seeded(TenantOf[j], ceil[j])
    /\ Goto(j, "insertHold")
    /\ UNCHANGED <<budget, resv, ledger, ceil, hold>>

InsertHold(j) ==
    /\ pc[j] = "insertHold"
    /\ resv' = [resv EXCEPT ![j] = "held"]
    /\ Goto(j, "reserveAll")
    /\ UNCHANGED <<budget, counter, ledger, ceil, hold>>

\* One of the writes above fails, applied or not: the guard answers 503.
ReserveFails(j) ==
    /\ \/ /\ pc[j] = "start"
          /\ counter' \in {counter, Seeded(Platform, PlatformCap)}
          /\ UNCHANGED resv
       \/ /\ pc[j] = "seedTenant"
          /\ counter' \in {counter, Seeded(TenantOf[j], ceil[j])}
          /\ UNCHANGED resv
       \/ /\ pc[j] = "insertHold"
          /\ resv' \in {resv, [resv EXCEPT ![j] = "held"]}
          /\ UNCHANGED counter
    /\ Goto(j, "unavailable")
    /\ UNCHANGED <<budget, ledger, ceil, hold>>

\* app.reserve_spend_all: the per-row guard, and every target moves or none does.
FitsOn(c) ==
    /\ counter[c].seeded
    /\ counter[c].reserved + counter[c].settled + Estimate <= counter[c].ceiling
Fits(j) == \A c \in Targets(j) : FitsOn(c)

\* Fault: only the platform counter moves, as the old loop could leave it.
MoveUpPartly(j) == [counter EXCEPT ![Platform].reserved = @ + Estimate]
MoveUp(j) ==
    [c \in Counters |-> IF c \in Targets(j)
                        THEN [counter[c] EXCEPT !.reserved = @ + Estimate]
                        ELSE counter[c]]

\* The reply of reserve_spend_all: granted; granted with the answer lost; raised (23514 when
\* it does not fit, another code when the statement failed).  Every error goes to release().
ReserveAll(j) ==
    /\ pc[j] = "reserveAll"
    /\ \/ /\ Fits(j)
          /\ counter' = MoveUp(j)
          /\ hold' = [hold EXCEPT ![j] = "counted"]
          /\ \E answer \in {"granted", "undo"} : Goto(j, answer)
       \/ /\ Goto(j, "undo")
          /\ UNCHANGED <<counter, hold>>
    /\ UNCHANGED <<budget, resv, ledger, ceil>>

\* app.release_spend: CAS held -> released, then the estimate comes off every target,
\* floored at zero, whether or not this reservation ever put it there.
MoveDown(j) ==
    [c \in Counters |-> IF c \in Targets(j)
                        THEN [counter[c] EXCEPT !.reserved = FloorZero(@ - Estimate)]
                        ELSE counter[c]]

\* Fault: the release does not compare-and-set on `held`.
ReleaseSpendNoCas(j) ==
    /\ resv' = [resv EXCEPT ![j] = "released"]
    /\ counter' = MoveDown(j)
    /\ hold' = [hold EXCEPT ![j] = IF @ = "counted" THEN "returned" ELSE @]

ReleaseSpend(j) ==
    IF resv[j] = "held"
    THEN /\ resv' = [resv EXCEPT ![j] = "released"]
         /\ counter' = MoveDown(j)
         /\ hold' = [hold EXCEPT ![j] = IF @ = "counted" THEN "returned" ELSE @]
    ELSE UNCHANGED <<resv, counter, hold>>

\* release() ignores the outcome of its RPC, so the release may also not happen at all.
ReleaseTo(j, place) ==
    /\ ReleaseSpend(j) \/ UNCHANGED <<resv, counter, hold>>
    /\ Goto(j, place)
    /\ UNCHANGED <<budget, ledger, ceil>>

\* The release reserve() runs on any error of reserve_spend_all, ceiling or not.
UndoReserve(j) ==
    /\ pc[j] = "undo"
    /\ \E place \in {"refused", "unavailable"} : ReleaseTo(j, place)

(***************************************************************************)
(* The holder of a granted reservation                                     *)
(***************************************************************************)

\* A canned or deterministic reply, a stale event, no tenant data: no call is made.
ReleaseUnused(j) ==
    /\ pc[j] = "granted"
    /\ ReleaseTo(j, "ended")

\* The website job whose turn claim is refused after the guard returns, and keeps the hold.
TurnRefused(j) ==
    /\ pc[j] = "granted"
    /\ Goto(j, "ended")
    /\ UNCHANGED <<budget, counter, resv, ledger, ceil, hold>>

\* CAS held -> called; an error (applied or not) makes the handler release and retry.
MarkCalled(j) ==
    /\ pc[j] = "granted"
    /\ \/ /\ resv' = [resv EXCEPT ![j] = IF @ = "held" THEN "called" ELSE @]
          /\ \E place \in {"calling", "unmarked"} : Goto(j, place)
       \/ /\ UNCHANGED resv
          /\ Goto(j, "unmarked")
    /\ UNCHANGED <<budget, counter, ledger, ceil, hold>>

ReleaseUnmarked(j) ==
    /\ pc[j] = "unmarked"
    /\ ReleaseTo(j, "ended")

\* callModel: usage comes back, or nothing that can be priced does (a retryable failure,
\* a terminal one without usage, no price or no FX rate) and the reservation is parked.
CallModel(j) ==
    /\ pc[j] = "calling"
    /\ \E place \in {"ledgerRow", "ended"} : Goto(j, place)
    /\ UNCHANGED <<budget, counter, resv, ledger, ceil, hold>>

(***************************************************************************)
(* settle()                                                                *)
(***************************************************************************)

\* Fault: the outcome of the ledger insert is not looked at.
InsertLedgerUnchecked(j) ==
    /\ pc[j] = "ledgerRow"
    /\ (\E cost \in Costs : ledger' = [ledger EXCEPT ![j] = cost]) \/ UNCHANGED ledger
    /\ Goto(j, "settleAll")
    /\ UNCHANGED <<budget, counter, resv, ceil, hold>>

InsertLedger(j) ==
    /\ pc[j] = "ledgerRow"
    /\ \/ /\ \E cost \in Costs : ledger' = [ledger EXCEPT ![j] = cost]
          /\ \E place \in {"settleAll", "ended"} : Goto(j, place)
       \/ /\ UNCHANGED ledger
          /\ Goto(j, "ended")
    /\ UNCHANGED <<budget, counter, resv, ceil, hold>>

\* app.settle_spend_all: reserved gives the estimate back, settled takes the cost, on
\* every target or (a target missing) on none.
SettleMove(j) ==
    [c \in Counters |-> IF c \in Targets(j)
                        THEN [counter[c] EXCEPT !.reserved = FloorZero(@ - Estimate),
                                                !.settled = @ + ledger[j]]
                        ELSE counter[c]]

SettleAll(j) ==
    /\ pc[j] = "settleAll"
    /\ \/ /\ \A c \in Targets(j) : counter[c].seeded
          /\ counter' = SettleMove(j)
          /\ hold' = [hold EXCEPT ![j] = "settled"]
          /\ \E place \in {"markSettled", "ended"} : Goto(j, place)
       \/ /\ UNCHANGED <<counter, hold>>
          /\ Goto(j, "ended")
    /\ UNCHANGED <<budget, resv, ledger, ceil>>

MarkSettled(j) ==
    /\ pc[j] = "markSettled"
    /\ resv' = [resv EXCEPT ![j] = "settled"] \/ UNCHANGED resv
    /\ Goto(j, "ended")
    /\ UNCHANGED <<budget, counter, ledger, ceil, hold>>

(***************************************************************************)
(* The world around a job                                                  *)
(***************************************************************************)

\* The function invocation is killed between two awaits.
Crash(j) ==
    /\ pc[j] \notin Ended
    /\ Goto(j, "dead")
    /\ UNCHANGED <<budget, counter, resv, ledger, ceil, hold>>

\* An operator writes a newer tenant_budgets row.
ChangeBudget(t) ==
    /\ \E b \in Budgets \ {budget[t]} : budget' = [budget EXCEPT ![t] = b]
    /\ UNCHANGED <<counter, resv, ledger, ceil, hold, pc>>

Step(j) ==
    \/ ReadCeiling(j) \/ SeedTenant(j) \/ InsertHold(j) \/ ReserveFails(j)
    \/ ReserveAll(j) \/ UndoReserve(j)
    \/ ReleaseUnused(j) \/ TurnRefused(j) \/ MarkCalled(j) \/ ReleaseUnmarked(j)
    \/ CallModel(j) \/ InsertLedger(j) \/ SettleAll(j) \/ MarkSettled(j)

Next ==
    \/ \E j \in Jobs : Step(j) \/ Crash(j)
    \/ \E t \in Tenants : ChangeBudget(t)

Spec == Init /\ [][Next]_vars

\* An attempt that is not killed runs to its end: every await of the worker is bounded by
\* its own timeout, and the function is then resumed by the runtime.
FairSpec == Spec /\ \A j \in Jobs : WF_vars(Step(j))

(***************************************************************************)
(* Properties                                                              *)
(***************************************************************************)

JobsOn(c) == {j \in Jobs : c \in Targets(j)}
Live(c) == {j \in JobsOn(c) : hold[j] = "counted"}
Minted(c) == {j \in JobsOn(c) : resv[j] = "released" /\ hold[j] = "none"}
Settled(c) == {j \in JobsOn(c) : hold[j] = "settled"}
\* What the ledger rows of S come to: one pair for each unit of each row.
CostOf(S) == Cardinality(UNION {{j} \X (1..ledger[j]) : j \in S})

\* The provider is reached only behind a hold that moved both counters: a reservation in
\* called or settled was granted, on every path by which reserve_spend_all can fail, lose
\* its answer or be released (reserve.ts:217-240, handle.ts:1352).
CalledOnlyOnGrant ==
    \A j \in Jobs :
        resv[j] \in {"called", "settled"} \/ pc[j] = "calling" => hold[j] \in {"counted", "settled"}

\* What a refusal can cost the ceiling, exactly: the holds in flight on a counter are all
\* in its `reserved`, but for one estimate per reservation that was released without ever
\* having been counted (release_spend after a rolled-back reserve_spend_all).  With no
\* such release the counter carries every hold.
HoldsCountedButForMinted ==
    \A c \in Counters :
        Estimate * Cardinality(Live(c)) <= counter[c].reserved + Estimate * Cardinality(Minted(c))

\* The counters settle only what spend_ledger records, once per call: each counter's settled
\* amount is the cost of ledger rows, and never of a call whose row is missing.
SettledIsLedgered ==
    \A c \in Counters :
        /\ counter[c].settled = CostOf(Settled(c))
        /\ \A j \in Jobs : hold[j] = "settled" => ledger[j] # NoCost

\* A tenant_budgets row can only tighten the compiled cap, whenever it is edited and
\* however stale the ceiling a job carried to its seed (reserve.ts:95-98).
CompiledCapNeverRaised ==
    \A t \in Tenants : counter[t].ceiling <= CompiledCap

\* A hold behind a call is never given back, even by the release that follows a markCalled
\* whose success was reported as an error: the provider may have been reached.
CalledIsNeverRefunded ==
    [][\A j \in Jobs : resv[j] = "called" => hold'[j] # "returned" /\ resv'[j] # "released"]_vars

\* What the schema promises of the counters: "reserved + settled are both counted, so two
\* concurrent messages cannot both pass a check against the same balance"
\* (0001_initial_schema.sql:1026).  The holds in flight and the settled cost fit together
\* under the ceiling.  Fails: see the README.
NoSharedBalance ==
    \A c \in Counters :
        counter[c].seeded =>
            Estimate * Cardinality(Live(c)) + counter[c].settled <= counter[c].ceiling

\* "The expiry sweep is what reconciles it" (handle.ts:1389), "the expiry sweeps whatever
\* this misses" (reserve.ts:261): the hold of an attempt that is over does not stay counted.
\* Fails: no code reads spend_reservations.expires_at.
AbandonedHoldReconciled ==
    \A j \in Jobs : (pc[j] = "ended" /\ hold[j] = "counted") ~> hold[j] # "counted"
=============================================================================
