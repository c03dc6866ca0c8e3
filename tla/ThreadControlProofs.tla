------------------------ MODULE ThreadControlProofs ------------------------
(***************************************************************************)
(* Proofs about ThreadControl for any number of messages, workers, staff,  *)
(* handover events, failures and hours.                                    *)
(***************************************************************************)
EXTENDS ThreadControl, TLAPS

LineKeys == {"line"} \X Msgs
ReplyKeys == {"reply"} \X Msgs

LEMMA Distinct ==
    /\ Keys = LineKeys \cup ReplyKeys /\ LineKeys \cap ReplyKeys = {}
    /\ Keys \cap OwnEchoes = {} /\ Keys \cap Events = {} /\ OwnEchoes \cap (Staff \cup Handovers) = {}
    /\ NoWork \notin Keys \cup Events
<1>1. Keys = LineKeys \cup ReplyKeys
  BY DEF Keys, LineKeys, ReplyKeys
<1>2. LineKeys \cap ReplyKeys = {}
  BY DEF LineKeys, ReplyKeys
<1>3. Keys \cap OwnEchoes = {}
  BY DEF Keys, OwnEchoes
<1> QED  BY <1>1, <1>2, <1>3, WorkAssumption DEF Events

(***************************************************************************)
(* Types                                                                   *)
(***************************************************************************)

ClockTypes == now \in Times /\ late \in BOOLEAN /\ faults \in 0 .. MaxFaults
ConvTypes == control \in Controls /\ since \in Times \cup {Null} /\ source \in Sources
RowTypes == row \in [Keys -> RowStates] /\ made \in [Keys -> Times] /\ said \in [Keys -> Nat]
InboxTypes ==
    /\ wrote \in [Msgs -> Times \cup {Null}]
    /\ stored \in [Events -> (SUBSET Msgs) \cup {NotStored}]
    /\ told \in [Handovers -> [to : {"bot", "human"}, at : Times]]
JobTypes == undone \subseteq Events /\ queue \in [Msgs -> 0 .. MaxJobs]
WorkerTypes ==
    /\ pc \in [Workers -> Places]
    /\ about \in [Workers -> Events \cup Keys \cup {NoWork}]
    /\ start \in [Workers -> Times] /\ held \in [Workers -> Controls] /\ target \in [Workers -> Target]

LEMMA Parts == TypeOK <=> ClockTypes /\ ConvTypes /\ RowTypes /\ InboxTypes /\ JobTypes /\ WorkerTypes
  BY DEF TypeOK, ClockTypes, ConvTypes, RowTypes, InboxTypes, JobTypes, WorkerTypes

LEMMA Bounds ==
    /\ MaxTime \in Nat /\ MaxFaults \in Nat /\ MaxJobs \in Nat /\ 0 \in Times
    /\ 1 \in Times /\ Times \subseteq Nat /\ 0 \in 0 .. MaxFaults /\ 0 \in 0 .. MaxJobs
  BY ThreadAssumption DEF Times

LEMMA NoTargetType == NoTarget \in Target
  BY Bounds DEF NoTarget, Target, Controls, Sources

\* What the helpers leave a worker with.
LEMMA ForgetTypes == ASSUME WorkerTypes, NEW w \in Workers, Forget(w) PROVE WorkerTypes'
  BY Bounds, NoTargetType DEF WorkerTypes, Forget, Places, Controls
LEMMA GotoTypes == ASSUME WorkerTypes, NEW w \in Workers, NEW place \in Places, Goto(w, place) PROVE WorkerTypes'
  BY DEF WorkerTypes, Goto, memory
LEMMA TakeTypes ==
    ASSUME WorkerTypes, now \in Times, NEW w \in Workers, NEW place \in Places, NEW what \in Events \cup Keys,
           Take(w, place, what)
    PROVE  WorkerTypes'
  BY DEF WorkerTypes, Take
LEMMA ApplyTypes ==
    ASSUME WorkerTypes, NEW w \in Workers, NEW c \in Controls, NEW at \in Times, NEW src \in Sources,
           NEW again \in BOOLEAN, Apply(w, c, at, src, again)
    PROVE  WorkerTypes'
<1>1. [control |-> c, at |-> at, source |-> src, refresh |-> again] \in Target
  BY DEF Target
<1> QED  BY <1>1 DEF WorkerTypes, Apply, Places
LEMMA DoneTypes == ASSUME WorkerTypes, JobTypes, NEW w \in Workers, Done(w) PROVE WorkerTypes' /\ JobTypes'
  BY ForgetTypes DEF Done, JobTypes
LEMMA FaultTypes == ASSUME faults \in 0 .. MaxFaults, Fault \/ NoFault PROVE faults' \in 0 .. MaxFaults
  BY Bounds DEF Fault, NoFault

(***************************************************************************)
(* The invariant                                                           *)
(***************************************************************************)

OnWire == {"sending", "sent", "indeterminate"}
LinePlaces == {"thread", "row", "person", "decline", "declined", "draft", "claim", "send", "mark", "drop", "flip"}
ReplyPlaces == {"check4", "speak", "replySend", "replyMark"}

\* What a worker at a place knows of its row.
Stands(w) ==
    /\ pc[w] \in LinePlaces => about[w] \in LineKeys
    /\ pc[w] \in ReplyPlaces => about[w] \in ReplyKeys
    /\ pc[w] = "judge" => about[w] \in Events
    /\ pc[w] \in {"read", "write"} => about[w] \in Events \cup Keys
    /\ pc[w] \in {"check4", "speak"} => row[about[w]] = "none"
    /\ pc[w] \in {"replySend", "replyMark", "send", "mark"} => row[about[w]] = "sending"
    /\ pc[w] = "send" => said[about[w]] = 0
    /\ pc[w] \in {"mark", "flip"} => said[about[w]] > 0
    /\ pc[w] \in {"read", "write"} /\ about[w] \in OwnEchoes => late
    /\ target[w].source # "reclaim"

\* A reply has one worker; a line has one while it is on its way out.
Owns(w) == about[w] \in ReplyKeys \/ pc[w] \in {"send", "mark"}
ApartInv == \A v, w \in Workers : v # w /\ Owns(v) /\ Owns(w) => about[v] # about[w]

\* What the customer got is in a row that no claim takes; a line that is sent was got, once.
WireInv ==
    /\ \A k \in Keys : said[k] > 0 => row[k] \in OnWire
    /\ \A k \in LineKeys : said[k] <= 1 /\ (row[k] = "sent" => said[k] > 0)

\* Meta echoes what was said.
Echoed(k) == <<"echo", k>> \in undone \/ \E w \in Workers : about[w] = <<"echo", k>>
EchoInv == \A k \in Keys : Echoed(k) => said[k] > 0

IInv == TypeOK /\ (\A w \in Workers : Stands(w)) /\ ApartInv /\ WireInv /\ EchoInv /\ BackIsSaid

\* What a step of one worker leaves alone: the others, and every row but its own.
OthersStay(w) ==
    \A v \in Workers \ {w} :
        pc'[v] = pc[v] /\ about'[v] = about[v] /\ target'[v] = target[v] /\ start'[v] = start[v]
RowStep(w) ==
    /\ \A k \in Keys \ {about[w]} : row'[k] = row[k] /\ said'[k] = said[k]
    /\ \A k \in Keys : said'[k] >= said[k]
    /\ about[w] \in Keys /\ said'[about[w]] # said[about[w]] => Owns(w)
    /\ about[w] \in Keys /\ row'[about[w]] # row[about[w]] => Owns(w) \/ row[about[w]] # "sending"
StepOf(w) == OthersStay(w) /\ RowStep(w) /\ (late => late')

LEMMA InitIInv == Init => IInv
<1> SUFFICES ASSUME Init PROVE IInv
  OBVIOUS
<1>1. TypeOK
  <2>1. ClockTypes
    BY Bounds DEF Init, ClockTypes
  <2>2. ConvTypes
    BY Bounds DEF Init, ConvTypes, Controls, Sources
  <2>3. RowTypes
    BY Bounds DEF Init, RowTypes, RowStates
  <2>4. InboxTypes
    <3>1. wrote \in [Msgs -> Times \cup {Null}]
      BY DEF Init
    <3>2. stored \in [Events -> (SUBSET Msgs) \cup {NotStored}]
      BY DEF Init
    <3>3. told \in [Handovers -> [to : {"bot", "human"}, at : Times]]
      BY Bounds DEF Init
    <3> QED  BY <3>1, <3>2, <3>3 DEF InboxTypes
  <2>5. JobTypes
    BY Bounds DEF Init, JobTypes
  <2>6. WorkerTypes
    BY Bounds, NoTargetType DEF Init, WorkerTypes, Places, Controls
  <2> QED  BY <2>1, <2>2, <2>3, <2>4, <2>5, <2>6, Parts
<1>2. \A w \in Workers : Stands(w)
  BY Distinct DEF Init, Stands, LinePlaces, ReplyPlaces, NoTarget, Events
<1>3. ApartInv /\ EchoInv
  <2>1. \A w \in Workers : ~Owns(w)
    BY Distinct DEF Init, Owns
  <2>2. \A k \in Keys : ~Echoed(k)
    BY Distinct DEF Init, Echoed, OwnEchoes, Events
  <2> QED  BY <2>1, <2>2 DEF ApartInv, EchoInv
<1>4. WireInv /\ BackIsSaid
  BY Distinct DEF Init, WireInv, BackIsSaid
<1> QED  BY <1>1, <1>2, <1>3, <1>4 DEF IInv

\* The other workers stand where they stood.
LEMMA OthersStand ==
    ASSUME IInv, NEW w \in Workers, StepOf(w), RowTypes', NEW v \in Workers \ {w}
    PROVE  Stands(v)'
<1>1. Stands(v) /\ (Owns(v) /\ Owns(w) => about[v] # about[w])
  BY DEF IInv, ApartInv
<1>2. pc[v] \in {"check4", "speak", "replySend", "replyMark"} => about[v] \in ReplyKeys /\ Owns(v) /\ about[v] \in Keys
  BY <1>1, Distinct DEF Stands, ReplyPlaces, Owns
<1>3. pc[v] \in {"send", "mark", "flip"} => about[v] \in LineKeys /\ about[v] \in Keys /\ (pc[v] # "flip" => Owns(v))
  BY <1>1, Distinct DEF Stands, LinePlaces, Owns
<1>4. about[w] \in ReplyKeys => Owns(w)
  BY DEF Owns
<1>5. pc[v] \in {"check4", "speak", "replySend", "replyMark"} => row'[about[v]] = row[about[v]]
  BY <1>1, <1>2, <1>4 DEF StepOf, RowStep
<1>6. pc[v] \in {"send", "mark"} => row'[about[v]] = row[about[v]] /\ said'[about[v]] = said[about[v]]
  BY <1>1, <1>3 DEF StepOf, OthersStay, RowStep, Stands
<1>7. pc[v] = "flip" => said'[about[v]] > 0
  <2> SUFFICES ASSUME pc[v] = "flip" PROVE said'[about[v]] > 0
    OBVIOUS
  <2>1. said[about[v]] > 0 /\ said'[about[v]] >= said[about[v]]
    BY <1>1, <1>3 DEF StepOf, OthersStay, RowStep, Stands
  <2>2. said[about[v]] \in Nat /\ said'[about[v]] \in Nat
    BY <1>3, Parts DEF IInv, RowTypes
  <2> QED  BY <2>1, <2>2
<1> QED  BY <1>1, <1>5, <1>6, <1>7 DEF StepOf, OthersStay, RowStep, Stands

\* A step that says nothing and writes no row.
LEMMA QuietRows ==
    ASSUME IInv, NEW w \in Workers, UNCHANGED <<row, said>>
    PROVE  RowStep(w) /\ WireInv'
<1>1. \A k \in Keys : said[k] \in Nat
  BY Parts DEF IInv, RowTypes
<1> QED  BY <1>1 DEF IInv, RowStep, WireInv

LEMMA QuietConv ==
    ASSUME IInv, UNCHANGED source, RowTypes', \A k \in Keys : said'[k] >= said[k]
    PROVE  BackIsSaid'
<1> SUFFICES ASSUME source = "reclaim" PROVE \E m \in Msgs : said'[<<"line", m>>] > 0
  BY DEF BackIsSaid
<1>1. PICK m \in Msgs : said[<<"line", m>>] > 0
  BY DEF IInv, BackIsSaid
<1>2. <<"line", m>> \in Keys
  BY DEF Keys
<1>3. said[<<"line", m>>] \in Nat /\ said'[<<"line", m>>] \in Nat /\ said'[<<"line", m>>] >= said[<<"line", m>>]
  BY <1>2, Parts DEF IInv, RowTypes
<1> QED  BY <1>1, <1>3

\* Of a worker's step: what is left to show is about the worker itself.
LEMMA Assemble ==
    ASSUME IInv, NEW w \in Workers, TypeOK', StepOf(w), Stands(w)', WireInv', BackIsSaid',
           undone' \subseteq undone,
           about'[w] = about[w] \/ about'[w] \in undone \/ about'[w] \notin OwnEchoes,
           Owns(w)' => \A v \in Workers \ {w} : Owns(v) => about[v] # about'[w]
    PROVE  IInv'
<1>1. RowTypes'
  BY DEF TypeOK, RowTypes
<1>2. \A v \in Workers : Stands(v)'
  BY <1>1, OthersStand
<1>3. ApartInv'
  <2>1. \A v \in Workers \ {w} : Owns(v)' <=> Owns(v)
    BY DEF StepOf, OthersStay, Owns
  <2> QED  BY <2>1 DEF ApartInv, IInv, StepOf, OthersStay
<1>4. EchoInv'
  <2> SUFFICES ASSUME NEW k \in Keys, Echoed(k)' PROVE said'[k] > 0
    BY DEF EchoInv
  <2>1. <<"echo", k>> \in OwnEchoes
    BY DEF OwnEchoes
  <2>2. Echoed(k)
    BY <2>1 DEF Echoed, StepOf, OthersStay
  <2>3. said[k] > 0 /\ said[k] \in Nat /\ said'[k] \in Nat /\ said'[k] >= said[k]
    BY <1>1, <2>2, Parts DEF IInv, EchoInv, RowTypes, StepOf, RowStep
  <2> QED  BY <2>3
<1> QED  BY <1>2, <1>3, <1>4 DEF IInv

\* A worker that is done.
LEMMA Retires ==
    ASSUME IInv, NEW w \in Workers, Forget(w), TypeOK', RowStep(w), late => late', WireInv', BackIsSaid',
           undone' \subseteq undone
    PROVE  IInv'
<1>1. /\ pc'[w] = "idle" /\ about'[w] = NoWork /\ target'[w] = NoTarget /\ OthersStay(w)
  BY Parts DEF Forget, IInv, WorkerTypes, OthersStay
<1>2. Stands(w)'
  BY <1>1 DEF Stands, LinePlaces, ReplyPlaces, NoTarget
<1>3. ~Owns(w)' /\ about'[w] \notin OwnEchoes
  BY <1>1, Distinct DEF Owns, Events
<1> QED  BY <1>1, <1>2, <1>3, Assemble DEF StepOf

\* A worker that goes on with the same work.
LEMMA Moves ==
    ASSUME IInv, NEW w \in Workers, NEW place \in Places,
           pc' = [pc EXCEPT ![w] = place], UNCHANGED <<about, start>>,
           \A v \in Workers \ {w} : target'[v] = target[v],
           TypeOK', RowStep(w), late => late', WireInv', BackIsSaid', undone' \subseteq undone,
           Stands(w)', place \in {"send", "mark"} => Owns(w) \/ row[about[w]] # "sending"
    PROVE  IInv'
<1>1. pc'[w] = place /\ OthersStay(w)
  BY Parts DEF IInv, WorkerTypes, OthersStay
<1>2. ASSUME Owns(w)', NEW v \in Workers \ {w}, Owns(v)
      PROVE  about[v] # about[w]
  <2>1. CASE Owns(w)
    BY <1>2, <2>1 DEF IInv, ApartInv
  <2>2. CASE ~Owns(w)
    <3>1. row[about[w]] # "sending" /\ about[w] \notin ReplyKeys
      BY <1>1, <1>2, <2>2 DEF Owns
    <3> QED  BY <1>2, <3>1 DEF Owns, IInv, Stands
  <2> QED  BY <2>1, <2>2
<1> QED  BY <1>1, <1>2, Assemble DEF StepOf

LEMMA Goes ==
    ASSUME IInv, NEW w \in Workers, NEW place \in Places, Goto(w, place),
           TypeOK', RowStep(w), UNCHANGED late, WireInv', BackIsSaid', undone' \subseteq undone,
           Stands(w)', place \in {"send", "mark"} => Owns(w) \/ row[about[w]] # "sending"
    PROVE  IInv'
  BY Moves DEF Goto, memory

\* A worker that begins.
LEMMA Starts ==
    ASSUME IInv, NEW w \in Workers, NEW place \in {"judge", "check4", "thread"}, NEW what \in Events \cup Keys,
           Take(w, place, what), UNCHANGED <<row, said, late, source>>, TypeOK', undone' \subseteq undone,
           place = "judge" => what \in undone,
           place = "check4" => what \in ReplyKeys /\ row[what] = "none" /\ \A v \in Workers : about[v] # what,
           place = "thread" => what \in LineKeys
    PROVE  IInv'
<1>1. pc'[w] = place /\ about'[w] = what /\ OthersStay(w) /\ target' = target
  BY Parts DEF Take, IInv, WorkerTypes, OthersStay
<1>2. RowStep(w) /\ WireInv' /\ BackIsSaid'
  <2>1. RowTypes'
    BY DEF TypeOK, RowTypes
  <2> QED  BY <2>1, QuietRows, QuietConv DEF RowStep
<1>3. undone \subseteq Events
  BY Parts DEF IInv, JobTypes
<1>4. Stands(w)'
  BY <1>1, <1>3 DEF Stands, LinePlaces, ReplyPlaces, IInv
<1>5. about'[w] \in undone \/ about'[w] \notin OwnEchoes
  BY <1>1, Distinct
<1>6. Owns(w)' => place = "check4"
  BY <1>1, <1>3, Distinct DEF Owns
<1> QED  BY <1>1, <1>2, <1>4, <1>5, <1>6, Assemble DEF StepOf

(***************************************************************************)
(* Events                                                                  *)
(***************************************************************************)

\* A step of the worker's own memory, of the queue and of the clock's bookkeeping.
LEMMA QuietTypes ==
    ASSUME IInv, UNCHANGED <<now, conv, rows, inbox>>, late' \in BOOLEAN, Fault \/ NoFault, WorkerTypes', JobTypes'
    PROVE  TypeOK'
<1>1. ClockTypes'
  BY FaultTypes, Parts DEF IInv, ClockTypes
<1>2. ConvTypes' /\ RowTypes' /\ InboxTypes'
  BY Parts DEF IInv, ConvTypes, RowTypes, InboxTypes, conv, rows, inbox
<1> QED  BY <1>1, <1>2 DEF TypeOK, ClockTypes, ConvTypes, RowTypes, InboxTypes, JobTypes, WorkerTypes

LEMMA QuietAll ==
    ASSUME IInv, NEW w \in Workers, UNCHANGED <<conv, rows>>, TypeOK'
    PROVE  RowStep(w) /\ WireInv' /\ BackIsSaid'
<1>1. RowTypes'
  BY DEF TypeOK, RowTypes
<1> QED  BY <1>1, QuietRows, QuietConv DEF RowStep, conv, rows

LEMMA StartEventKeeps ==
    ASSUME IInv, NEW w \in Workers, NEW e \in Events, StartEvent(w, e)
    PROVE  IInv'
<1>1. WorkerTypes' /\ JobTypes' /\ late' \in BOOLEAN
  BY TakeTypes, Parts DEF IInv, StartEvent, ClockTypes, Places, JobTypes, jobs
<1>2. TypeOK'
  BY <1>1, QuietTypes DEF StartEvent
<1> QED  BY <1>2, Starts DEF StartEvent, rows, conv, jobs

LEMMA StartReplyKeeps ==
    ASSUME IInv, NEW w \in Workers, NEW m \in Msgs, StartReply(w, m)
    PROVE  IInv'
<1> DEFINE k == <<"reply", m>>
<1>1. k \in ReplyKeys /\ k \in Keys
  BY DEF ReplyKeys, Keys
<1>2. WorkerTypes' /\ JobTypes' /\ late' \in BOOLEAN
  BY <1>1, TakeTypes, Parts DEF IInv, StartReply, ClockTypes, Places, JobTypes, jobs
<1>3. TypeOK'
  BY <1>2, QuietTypes DEF StartReply
<1> QED  BY <1>1, <1>3, Starts DEF StartReply, rows, conv, jobs

LEMMA StartReclaimKeeps ==
    ASSUME IInv, NEW w \in Workers, NEW m \in Msgs, StartReclaim(w, m)
    PROVE  IInv'
<1> DEFINE k == <<"line", m>>
<1>1. k \in LineKeys /\ k \in Keys
  BY DEF LineKeys, Keys
<1>2. JobTypes'
  BY Bounds, Parts DEF IInv, StartReclaim, JobTypes
<1>3. WorkerTypes' /\ late' \in BOOLEAN
  BY <1>1, TakeTypes, Parts DEF IInv, StartReclaim, ClockTypes, Places
<1>4. TypeOK'
  BY <1>2, <1>3, QuietTypes DEF StartReclaim
<1> QED  BY <1>1, <1>4, Starts DEF StartReclaim, rows, conv

\* A job that ends, with no row and no thread written.
LEMMA QuietDone ==
    ASSUME IInv, NEW w \in Workers, Done(w), UNCHANGED <<now, conv, rows, inbox>>, late' \in BOOLEAN, late => late',
           Fault \/ NoFault
    PROVE  IInv'
<1>1. WorkerTypes' /\ JobTypes'
  BY DoneTypes, Parts DEF IInv
<1>2. TypeOK'
  BY <1>1, QuietTypes
<1> QED  BY <1>2, QuietAll, Retires DEF Done

\* A job that goes on, with no row and no thread written.
LEMMA QuietGoes ==
    ASSUME IInv, NEW w \in Workers, NEW place \in Places \ {"send", "mark"}, Goto(w, place), UNCHANGED jobs,
           UNCHANGED <<now, late, conv, rows, inbox>>, Fault \/ NoFault, Stands(w)'
    PROVE  IInv'
<1>1. WorkerTypes' /\ JobTypes' /\ late' \in BOOLEAN
  BY GotoTypes, Parts DEF IInv, ClockTypes, JobTypes, jobs
<1>2. TypeOK'
  BY <1>1, QuietTypes
<1> QED  BY <1>2, QuietAll, Goes DEF jobs

\* applyThreadControl is called: with whatever it is told but the reclaim's own mark.
LEMMA Applies ==
    ASSUME IInv, NEW w \in Workers, NEW c \in Controls, NEW at \in Times, NEW src \in Sources \ {"reclaim"},
           NEW again \in BOOLEAN, Apply(w, c, at, src, again), UNCHANGED jobs, UNCHANGED source, TypeOK',
           RowStep(w), WireInv', late => late', about[w] \in Events \cup Keys, about[w] \in OwnEchoes => late'
    PROVE  IInv'
<1>1. BackIsSaid'
  <2>1. RowTypes'
    BY DEF TypeOK, RowTypes
  <2> QED  BY <2>1, QuietConv DEF RowStep
<1>2. pc'[w] = "read" /\ about' = about /\ target'[w].source = src /\ \A v \in Workers \ {w} : target'[v] = target[v]
  BY Parts DEF Apply, IInv, WorkerTypes
<1>3. Stands(w)'
  BY <1>2 DEF Stands, LinePlaces, ReplyPlaces
<1>4. "read" \in Places
  BY DEF Places
<1> QED  BY <1>1, <1>2, <1>3, <1>4, Moves DEF Apply, jobs

LEMMA JudgeKeeps ==
    ASSUME IInv, NEW w \in Workers, Judge(w)
    PROVE  IInv'
<1> DEFINE e == about[w]
<1>1. e \in Events /\ late' \in BOOLEAN /\ (late => late')
  BY Parts DEF Judge, At, IInv, Stands, ClockTypes
<1>2. CASE Done(w)
  BY <1>1, <1>2, QuietDone DEF Judge
<1>3. ASSUME ~Done(w)
      PROVE  IInv'
  <2>1. UNCHANGED jobs /\ UNCHANGED <<now, conv, rows, inbox>> /\ NoFault
        /\ \/ e \in Handovers /\ Apply(w, told[e].to, told[e].at, "handover", FALSE)
           \/ e \notin Handovers /\ FromPerson(e, start[w]) /\ Apply(w, "human", start[w], "echo", FALSE)
    BY <1>3 DEF Judge
  <2>2. PICK c \in Controls, at \in Times, src \in Sources \ {"reclaim"} : Apply(w, c, at, src, FALSE)
    <3>1. CASE e \in Handovers
      <4>1. told[e].to \in Controls /\ told[e].at \in Times
        BY <3>1, Parts DEF IInv, InboxTypes, Controls
      <4> QED  BY <2>1, <3>1, <4>1 DEF Sources
    <3>2. CASE e \notin Handovers
      <4>1. start[w] \in Times
        BY Parts DEF IInv, WorkerTypes
      <4> QED  BY <2>1, <3>2, <4>1 DEF Controls, Sources
    <3> QED  BY <3>1, <3>2
  <2>3. TypeOK'
    <3>1. WorkerTypes' /\ JobTypes'
      BY <2>1, <2>2, ApplyTypes, Parts DEF IInv, JobTypes, jobs
    <3> QED  BY <1>1, <2>1, <3>1, QuietTypes
  <2>4. e \in OwnEchoes => late'
    <3> SUFFICES ASSUME e \in OwnEchoes, ~late PROVE made[e[2]] + OwnWindow <= start[w]
      BY <1>1 DEF Judge
    <3>1. PICK k \in Keys : e = <<"echo", k>>
      BY DEF OwnEchoes
    <3>2. e \notin Staff /\ e \notin Handovers
      BY Distinct
    <3>3. said[k] > 0 /\ row[k] \in OnWire
      BY <3>1 DEF IInv, EchoInv, Echoed, WireInv
    <3>4. ~Recognised(e, start[w])
      BY <2>1, <3>2 DEF FromPerson
    <3>5. ~(made[k] + OwnWindow > start[w])
      BY <3>1, <3>3, <3>4 DEF Recognised, OnWire
    <3>6. made[k] \in Nat /\ start[w] \in Nat /\ OwnWindow \in Nat
      BY Bounds, Parts, ThreadAssumption DEF IInv, RowTypes, WorkerTypes
    <3> QED  BY <3>1, <3>5, <3>6
  <2> QED  BY <1>1, <2>1, <2>2, <2>3, <2>4, Applies, QuietAll DEF conv
<1> QED  BY <1>2, <1>3

LEMMA ReadKeeps ==
    ASSUME IInv, NEW w \in Workers, Read(w)
    PROVE  IInv'
<1>1. late' \in BOOLEAN
  BY Parts DEF IInv, ClockTypes, Read
<1>2. CASE Done(w)
  BY <1>1, <1>2, QuietDone DEF Read
<1>3. CASE ~Done(w)
  <2>1. pc' = [pc EXCEPT ![w] = "write"] /\ held' = [held EXCEPT ![w] = control] /\ UNCHANGED <<about, start, target, jobs>>
        /\ NoFault /\ UNCHANGED <<now, late, conv, rows, inbox>>
    BY <1>3 DEF Read
  <2>2. "write" \in Places
    BY DEF Places
  <2>3. WorkerTypes' /\ JobTypes'
    BY <2>1, <2>2, Parts DEF IInv, WorkerTypes, ConvTypes, JobTypes, jobs
  <2>4. TypeOK'
    BY <1>1, <2>1, <2>3, QuietTypes
  <2>5. pc'[w] = "write" /\ pc[w] = "read"
    BY <2>1, Parts DEF IInv, WorkerTypes, Read, At
  <2>6. Stands(w)'
    BY <2>1, <2>5 DEF IInv, Stands, LinePlaces, ReplyPlaces
  <2> QED  BY <2>1, <2>2, <2>4, <2>6, QuietAll, Moves DEF jobs
<1> QED  BY <1>2, <1>3

LEMMA WriteKeeps ==
    ASSUME IInv, NEW w \in Workers, Write(w)
    PROVE  IInv'
<1>1. target[w] \in Target
  BY Parts DEF IInv, WorkerTypes
<1>2. ConvTypes'
  BY <1>1, Parts DEF IInv, ConvTypes, Write, Update, conv, Target
<1>3. TypeOK'
  <2>1. WorkerTypes' /\ JobTypes'
    BY DoneTypes, Parts DEF IInv, Write
  <2>2. ClockTypes'
    BY FaultTypes, Parts DEF IInv, ClockTypes, Write
  <2>3. RowTypes' /\ InboxTypes'
    BY Parts DEF IInv, RowTypes, InboxTypes, Write, rows, inbox
  <2> QED  BY <1>2, <2>1, <2>2, <2>3 DEF TypeOK, ClockTypes, ConvTypes, RowTypes, InboxTypes, JobTypes, WorkerTypes
<1>4. source' = "reclaim" => source = "reclaim"
  BY DEF Write, Update, conv, IInv, Stands
<1>5. BackIsSaid'
  BY <1>4 DEF IInv, BackIsSaid, Write, rows
<1> QED  BY <1>3, <1>5, QuietRows, Retires DEF Write, Done, rows

(***************************************************************************)
(* Rows                                                                    *)
(***************************************************************************)

\* A write of the worker's own row.
LEMMA Writes ==
    ASSUME IInv, NEW w \in Workers, about[w] \in Keys, NEW s \in RowStates,
           row' = [row EXCEPT ![about[w]] = s] \/ UNCHANGED row, UNCHANGED said, made' \in [Keys -> Times],
           said[about[w]] > 0 => s \in OnWire,
           about[w] \in LineKeys /\ s = "sent" => said[about[w]] > 0,
           Owns(w) \/ row[about[w]] # "sending"
    PROVE  RowTypes' /\ RowStep(w) /\ WireInv'
<1>1. RowTypes
  BY Parts DEF IInv
<1>2. RowTypes'
  BY <1>1 DEF RowTypes
<1>3. \A k \in Keys : said'[k] = said[k] /\ said[k] \in Nat /\ (k # about[w] => row'[k] = row[k])
  BY <1>1 DEF RowTypes
<1>4. RowStep(w)
  BY <1>3 DEF RowStep
<1>5. row'[about[w]] = s \/ row'[about[w]] = row[about[w]]
  BY <1>1 DEF RowTypes
<1>6. WireInv'
  BY <1>3, <1>5, Distinct DEF WireInv, IInv
<1> QED  BY <1>2, <1>4, <1>6

LEMMA RowTypesKept ==
    ASSUME IInv, UNCHANGED <<now, late, conv, inbox>>, Fault \/ NoFault, RowTypes', WorkerTypes', JobTypes'
    PROVE  TypeOK'
<1>1. ClockTypes'
  BY FaultTypes, Parts DEF IInv, ClockTypes
<1>2. ConvTypes' /\ InboxTypes'
  BY Parts DEF IInv, ConvTypes, InboxTypes, conv, inbox
<1> QED  BY <1>1, <1>2 DEF TypeOK, ClockTypes, ConvTypes, RowTypes, InboxTypes, JobTypes, WorkerTypes

LEMMA RowConv ==
    ASSUME IInv, NEW w \in Workers, RowTypes', RowStep(w), UNCHANGED conv
    PROVE  BackIsSaid'
  BY QuietConv DEF RowStep, conv

\* A job that ends with a row written.
LEMMA RowDone ==
    ASSUME IInv, NEW w \in Workers, Done(w), UNCHANGED <<now, late, conv, inbox>>, Fault \/ NoFault,
           RowTypes', RowStep(w), WireInv'
    PROVE  IInv'
<1>1. WorkerTypes' /\ JobTypes'
  BY DoneTypes, Parts DEF IInv
<1>2. TypeOK' /\ BackIsSaid'
  BY <1>1, RowTypesKept, RowConv
<1> QED  BY <1>2, Retires DEF Done

\* A job that goes on with a row written.
LEMMA RowGoes ==
    ASSUME IInv, NEW w \in Workers, NEW place \in Places, Goto(w, place), UNCHANGED jobs,
           UNCHANGED <<now, late, conv, inbox>>, Fault \/ NoFault,
           RowTypes', RowStep(w), WireInv', Stands(w)',
           place \in {"send", "mark"} => Owns(w) \/ row[about[w]] # "sending"
    PROVE  IInv'
<1>1. WorkerTypes' /\ JobTypes'
  BY GotoTypes, Parts DEF IInv, JobTypes, jobs
<1>2. TypeOK' /\ BackIsSaid'
  BY <1>1, RowTypesKept, RowConv
<1> QED  BY <1>2, Goes DEF jobs

\* Where a worker stands after Goto.
LEMMA Stood ==
    ASSUME IInv, NEW w \in Workers, NEW place \in Places, Goto(w, place)
    PROVE  /\ pc'[w] = place /\ about' = about /\ target' = target
           /\ target[w].source # "reclaim"
  BY Parts DEF IInv, WorkerTypes, Goto, memory, Stands

(***************************************************************************)
(* The reply                                                               *)
(***************************************************************************)

LEMMA ReplyKnown ==
    ASSUME IInv, NEW w \in Workers, pc[w] \in ReplyPlaces
    PROVE  /\ about[w] \in ReplyKeys /\ about[w] \in Keys /\ Owns(w) /\ about[w] \notin OwnEchoes
           /\ about[w] \notin LineKeys
           /\ RowTypes /\ made \in [Keys -> Times] /\ now \in Times
           /\ (pc[w] \in {"check4", "speak"} => row[about[w]] = "none" /\ ~(said[about[w]] > 0))
           /\ (pc[w] \in {"replySend", "replyMark"} => row[about[w]] = "sending")
<1>1. about[w] \in ReplyKeys /\ about[w] \in Keys
  BY Distinct DEF IInv, Stands
<1>2. RowTypes /\ made \in [Keys -> Times] /\ now \in Times
  BY Parts DEF IInv, RowTypes, ClockTypes
<1> QED  BY <1>1, <1>2, Distinct DEF IInv, Stands, WireInv, Owns, OnWire

LEMMA Check4Keeps ==
    ASSUME IInv, NEW w \in Workers, Check4(w)
    PROVE  IInv'
<1>1. pc[w] \in ReplyPlaces /\ pc[w] = "check4"
  BY DEF Check4, At, ReplyPlaces
<1>2. Fault \/ NoFault
  BY DEF Check4
<1>3. CASE Done(w) /\ row' = [row EXCEPT ![about[w]] = "refused"]
  <2>1. RowTypes' /\ RowStep(w) /\ WireInv'
    BY <1>1, <1>3, ReplyKnown, Writes DEF Check4, RowStates
  <2> QED  BY <1>2, <1>3, <2>1, RowDone DEF Check4
<1>4. CASE Goto(w, "speak") /\ UNCHANGED <<jobs, row>>
  <2>1. "speak" \in Places \ {"send", "mark"}
    BY DEF Places
  <2>2. Stands(w)'
    BY <1>1, <1>4, <2>1, Stood, ReplyKnown DEF Stands, LinePlaces, ReplyPlaces
  <2> QED  BY <1>2, <1>4, <2>1, <2>2, QuietGoes DEF Check4, rows
<1> QED  BY <1>3, <1>4 DEF Check4

LEMMA SpeakKeeps ==
    ASSUME IInv, NEW w \in Workers, Speak(w)
    PROVE  IInv'
<1>1. pc[w] \in ReplyPlaces /\ pc[w] = "speak"
  BY DEF Speak, At, ReplyPlaces
<1>2. Fault \/ NoFault
  BY DEF Speak
<1>3. made' \in [Keys -> Times]
  BY <1>1, ReplyKnown DEF Speak
<1>4. CASE Done(w) /\ row' = [row EXCEPT ![about[w]] = "refused"]
  <2>1. RowTypes' /\ RowStep(w) /\ WireInv'
    BY <1>1, <1>3, <1>4, ReplyKnown, Writes DEF Speak, RowStates
  <2> QED  BY <1>2, <1>4, <2>1, RowDone DEF Speak
<1>5. CASE row' = [row EXCEPT ![about[w]] = "sending"] /\ Goto(w, "replySend") /\ UNCHANGED jobs
  <2>1. "replySend" \in Places
    BY DEF Places
  <2>2. RowTypes' /\ RowStep(w) /\ WireInv'
    BY <1>1, <1>3, <1>5, ReplyKnown, Writes DEF Speak, RowStates
  <2>3. row'[about[w]] = "sending"
    BY <1>1, <1>5, ReplyKnown DEF RowTypes
  <2>4. Stands(w)'
    BY <1>1, <1>5, <2>1, <2>3, Stood, ReplyKnown DEF Stands, LinePlaces, ReplyPlaces
  <2> QED  BY <1>2, <1>5, <2>1, <2>2, <2>4, RowGoes DEF Speak
<1> QED  BY <1>4, <1>5 DEF Speak

\* A message is out: the row is on the wire, and the line was not out before.
LEMMA Puts ==
    ASSUME IInv, NEW w \in Workers, about[w] \in Keys, Put(about[w]), NEW s \in OnWire,
           row' = [row EXCEPT ![about[w]] = s] \/ UNCHANGED row, UNCHANGED made, row[about[w]] = "sending",
           Owns(w), about[w] \in LineKeys => said[about[w]] = 0
    PROVE  RowTypes' /\ RowStep(w) /\ WireInv' /\ said'[about[w]] > 0
<1>1. RowTypes
  BY Parts DEF IInv
<1>2. \A k \in Keys : said[k] \in Nat /\ said'[k] = (IF k = about[w] THEN said[k] + 1 ELSE said[k])
  BY <1>1 DEF RowTypes, Put
<1>3. said' \in [Keys -> Nat]
  <2>1. said[about[w]] + 1 \in Nat
    BY <1>2
  <2> QED  BY <1>1, <2>1 DEF RowTypes, Put
<1>4. RowTypes'
  BY <1>1, <1>3 DEF RowTypes, RowStates, OnWire
<1>5. \A k \in Keys : (k # about[w] => row'[k] = row[k]) /\ row'[about[w]] \in OnWire
  BY <1>1 DEF RowTypes, OnWire
<1>6. RowStep(w)
  BY <1>2, <1>5 DEF RowStep
<1>7. said'[about[w]] > 0
  BY <1>2
<1>8. WireInv'
  BY <1>2, <1>5, <1>7, Distinct DEF IInv, WireInv
<1> QED  BY <1>4, <1>6, <1>7, <1>8

LEMMA ReplySendKeeps ==
    ASSUME IInv, NEW w \in Workers, ReplySend(w)
    PROVE  IInv'
<1>1. pc[w] \in ReplyPlaces /\ pc[w] = "replySend"
  BY DEF ReplySend, At, ReplyPlaces
<1>2. "replyMark" \in Places
  BY DEF Places
<1>3. "sending" \in OnWire
  BY DEF OnWire
<1>4. RowTypes' /\ RowStep(w) /\ WireInv'
  BY <1>1, <1>3, ReplyKnown, Puts DEF ReplySend
<1>5. Stands(w)'
  BY <1>1, <1>2, Stood, ReplyKnown DEF ReplySend, Stands, LinePlaces, ReplyPlaces
<1> QED  BY <1>2, <1>4, <1>5, RowGoes DEF ReplySend

LEMMA ReplyMarkKeeps ==
    ASSUME IInv, NEW w \in Workers, ReplyMark(w)
    PROVE  IInv'
<1>1. pc[w] \in ReplyPlaces /\ pc[w] = "replyMark"
  BY DEF ReplyMark, At, ReplyPlaces
<1>2. Fault \/ NoFault
  BY DEF ReplyMark
<1>3. made' \in [Keys -> Times]
  BY <1>1, ReplyKnown DEF ReplyMark
<1>4. "sent" \in RowStates /\ "sent" \in OnWire
  BY DEF RowStates, OnWire
<1>5. RowTypes' /\ RowStep(w) /\ WireInv'
  BY <1>1, <1>3, <1>4, ReplyKnown, Writes DEF ReplyMark
<1>6. CASE Done(w)
  BY <1>2, <1>5, <1>6, RowDone DEF ReplyMark
<1>7. CASE Apply(w, "human", start[w], "handover", TRUE) /\ UNCHANGED jobs
  <2>1. "human" \in Controls /\ "handover" \in Sources \ {"reclaim"} /\ TRUE \in BOOLEAN
    BY DEF Controls, Sources
  <2>2. start[w] \in Times
    BY Parts DEF IInv, WorkerTypes
  <2>3. WorkerTypes' /\ JobTypes'
    BY <1>7, <2>1, <2>2, ApplyTypes, Parts DEF IInv, JobTypes, jobs
  <2>4. TypeOK'
    BY <1>2, <1>5, <2>3, RowTypesKept DEF ReplyMark
  <2> QED  BY <1>1, <1>5, <1>7, <2>1, <2>2, <2>4, Applies, ReplyKnown DEF ReplyMark, conv
<1> QED  BY <1>6, <1>7 DEF ReplyMark

(***************************************************************************)
(* The reclaim line                                                        *)
(***************************************************************************)

LEMMA LineKnown ==
    ASSUME IInv, NEW w \in Workers, pc[w] \in LinePlaces
    PROVE  /\ about[w] \in LineKeys /\ about[w] \in Keys /\ about[w] \notin ReplyKeys /\ about[w] \notin OwnEchoes
           /\ RowTypes /\ made \in [Keys -> Times] /\ now \in Times
           /\ row[about[w]] \in RowStates /\ said[about[w]] \in Nat
           /\ (row[about[w]] \notin OnWire => ~(said[about[w]] > 0) /\ said[about[w]] = 0)
           /\ (row[about[w]] = "sent" => said[about[w]] > 0)
           /\ (pc[w] \in {"send", "mark"} => Owns(w) /\ row[about[w]] = "sending")
           /\ (pc[w] = "send" => said[about[w]] = 0 /\ ~(said[about[w]] > 0))
           /\ (pc[w] \in {"mark", "flip"} => said[about[w]] > 0)
<1>1. about[w] \in LineKeys /\ about[w] \in Keys
  BY Distinct DEF IInv, Stands
<1>2. RowTypes /\ made \in [Keys -> Times] /\ now \in Times
  BY Parts DEF IInv, RowTypes, ClockTypes
<1>3. row[about[w]] \in RowStates /\ said[about[w]] \in Nat
  BY <1>1, <1>2 DEF RowTypes
<1>4. about[w] \notin ReplyKeys /\ about[w] \notin OwnEchoes
  BY <1>1, Distinct
<1>5. row[about[w]] \notin OnWire => ~(said[about[w]] > 0) /\ said[about[w]] = 0
  BY <1>1, <1>3 DEF IInv, WireInv
<1>6. row[about[w]] = "sent" => said[about[w]] > 0
  BY <1>1 DEF IInv, WireInv
<1>7. pc[w] = "send" => said[about[w]] = 0 /\ ~(said[about[w]] > 0)
  BY DEF IInv, Stands
<1>8. pc[w] \in {"send", "mark"} => Owns(w) /\ row[about[w]] = "sending"
  BY DEF IInv, Stands, Owns
<1>9. pc[w] \in {"mark", "flip"} => said[about[w]] > 0
  BY DEF IInv, Stands
<1> QED  BY <1>1, <1>2, <1>3, <1>4, <1>5, <1>6, <1>7, <1>8, <1>9

\* A job gives up, and no row is written.
LEMMA QuitKeeps ==
    ASSUME IInv, NEW w \in Workers, Quit(w), UNCHANGED <<now, late, conv, inbox>>, Fault \/ NoFault
    PROVE  IInv'
<1>1. late' \in BOOLEAN
  BY Parts DEF IInv, ClockTypes
<1> QED  BY <1>1, QuietDone DEF Quit

\* The steps that only read: the worker goes on to a place where nothing new is asked of its row, or to
\* the flip of a line that is sent.
LEMMA LineGoes ==
    ASSUME IInv, NEW w \in Workers, pc[w] \in LinePlaces,
           NEW place \in {"row", "person", "decline", "draft", "flip"}, Goto(w, place),
           UNCHANGED <<now, late, conv, rows, inbox, jobs>>, Fault \/ NoFault,
           place = "flip" => said[about[w]] > 0
    PROVE  IInv'
<1>1. place \in Places \ {"send", "mark"}
  BY DEF Places
<1>2. Stands(w)'
  BY <1>1, Stood, LineKnown DEF Stands, LinePlaces, ReplyPlaces, rows
<1> QED  BY <1>1, <1>2, QuietGoes

LEMMA ThreadKeeps == ASSUME IInv, NEW w \in Workers, Thread(w) PROVE IInv'
<1>1. pc[w] \in LinePlaces /\ (Fault \/ NoFault)
  BY DEF Thread, At, LinePlaces
<1>2. CASE Quit(w)
  BY <1>1, <1>2, QuitKeeps DEF Thread
<1>3. CASE Goto(w, "row") /\ UNCHANGED <<jobs, rows>>
  BY <1>1, <1>3, LineGoes DEF Thread
<1> QED  BY <1>2, <1>3 DEF Thread

LEMMA LineRowKeeps == ASSUME IInv, NEW w \in Workers, LineRow(w) PROVE IInv'
<1>1. pc[w] \in LinePlaces /\ (Fault \/ NoFault)
  BY DEF LineRow, At, LinePlaces
<1>2. CASE Quit(w)
  BY <1>1, <1>2, QuitKeeps DEF LineRow
<1>3. CASE row[about[w]] = "sent" /\ Goto(w, "flip") /\ UNCHANGED <<jobs, rows>>
  BY <1>1, <1>3, LineKnown, LineGoes DEF LineRow
<1>4. CASE Goto(w, "person") /\ UNCHANGED <<jobs, rows>>
  BY <1>1, <1>4, LineGoes DEF LineRow
<1> QED  BY <1>2, <1>3, <1>4 DEF LineRow, Line

LEMMA PersonKeeps == ASSUME IInv, NEW w \in Workers, Person(w) PROVE IInv'
<1>1. pc[w] \in LinePlaces /\ (Fault \/ NoFault)
  BY DEF Person, At, LinePlaces
<1>2. CASE Quit(w)
  BY <1>1, <1>2, QuitKeeps DEF Person
<1>3. CASE Goto(w, "decline") /\ UNCHANGED <<jobs, rows>>
  BY <1>1, <1>3, LineGoes DEF Person
<1>4. CASE Goto(w, "draft") /\ UNCHANGED <<jobs, rows>>
  BY <1>1, <1>4, LineGoes DEF Person
<1> QED  BY <1>2, <1>3, <1>4 DEF Person

\* draftOnce drafts a row nobody drafted, and leaves any other as it is.
LEMMA DraftOnceKeeps ==
    ASSUME IInv, NEW w \in Workers, pc[w] \in LinePlaces, DraftOnce(about[w])
    PROVE  RowTypes' /\ RowStep(w) /\ WireInv'
<1>1. CASE row[about[w]] = "none"
  <2>1. made' \in [Keys -> Times]
    BY <1>1, LineKnown DEF DraftOnce
  <2>2. ~(said[about[w]] > 0)
    BY <1>1, LineKnown DEF OnWire
  <2> QED  BY <1>1, <2>1, <2>2, LineKnown, Writes DEF DraftOnce, RowStates
<1>2. CASE row[about[w]] # "none"
  <2>1. UNCHANGED rows
    BY <1>2 DEF DraftOnce
  <2>2. RowTypes'
    BY <2>1, LineKnown DEF RowTypes, rows
  <2> QED  BY <2>1, <2>2, QuietRows DEF rows
<1> QED  BY <1>1, <1>2

LEMMA DraftGoes ==
    ASSUME IInv, NEW w \in Workers, pc[w] \in LinePlaces, DraftOnce(about[w]),
           NEW place \in {"declined", "claim"}, Goto(w, place),
           UNCHANGED <<now, late, conv, inbox, jobs>>, Fault \/ NoFault
    PROVE  IInv'
<1>1. place \in Places
  BY DEF Places
<1>2. RowTypes' /\ RowStep(w) /\ WireInv'
  BY DraftOnceKeeps
<1>3. Stands(w)'
  BY <1>1, Stood, LineKnown DEF Stands, LinePlaces, ReplyPlaces
<1> QED  BY <1>1, <1>2, <1>3, RowGoes

LEMMA DeclineKeeps == ASSUME IInv, NEW w \in Workers, Decline(w) PROVE IInv'
<1>1. pc[w] \in LinePlaces /\ (Fault \/ NoFault)
  BY DEF Decline, At, LinePlaces
<1>2. CASE Quit(w)
  BY <1>1, <1>2, QuitKeeps DEF Decline
<1>3. CASE DraftOnce(about[w]) /\ Goto(w, "declined") /\ UNCHANGED jobs
  BY <1>1, <1>3, DraftGoes DEF Decline
<1> QED  BY <1>2, <1>3 DEF Decline, Line

LEMMA DraftKeeps == ASSUME IInv, NEW w \in Workers, Draft(w) PROVE IInv'
<1>1. pc[w] \in LinePlaces /\ (Fault \/ NoFault)
  BY DEF Draft, At, LinePlaces
<1>2. CASE Quit(w)
  BY <1>1, <1>2, QuitKeeps DEF Draft
<1>3. CASE DraftOnce(about[w]) /\ Goto(w, "claim") /\ UNCHANGED jobs
  BY <1>1, <1>3, DraftGoes DEF Draft
<1> QED  BY <1>2, <1>3 DEF Draft, Line

\* A row is refused only from a state in which nothing was said.
LEMMA RefuseKeeps ==
    ASSUME IInv, NEW w \in Workers, pc[w] \in LinePlaces, UNCHANGED <<made, said>>,
           NEW states \in SUBSET {"draft", "failed"}, RefuseFrom(about[w], states) \/ UNCHANGED row
    PROVE  RowTypes' /\ RowStep(w) /\ WireInv'
<1>1. CASE UNCHANGED row
  <2>1. RowTypes'
    BY <1>1, LineKnown DEF RowTypes
  <2> QED  BY <1>1, <2>1, QuietRows
<1>2. CASE row[about[w]] \in states /\ row' = [row EXCEPT ![about[w]] = "refused"]
  <2>1. ~(said[about[w]] > 0) /\ row[about[w]] # "sending"
    BY <1>2, LineKnown DEF OnWire
  <2>2. made' \in [Keys -> Times]
    BY LineKnown
  <2> QED  BY <1>2, <2>1, <2>2, LineKnown, Writes DEF RowStates
<1> QED  BY <1>1, <1>2 DEF RefuseFrom

LEMMA DeclinedKeeps == ASSUME IInv, NEW w \in Workers, Declined(w) PROVE IInv'
<1>1. pc[w] \in LinePlaces /\ (Fault \/ NoFault)
  BY DEF Declined, At, LinePlaces
<1>2. RowTypes' /\ RowStep(w) /\ WireInv'
  BY <1>1, RefuseKeeps DEF Declined, Line
<1> QED  BY <1>1, <1>2, RowDone DEF Declined

LEMMA DropKeeps == ASSUME IInv, NEW w \in Workers, Drop(w) PROVE IInv'
<1>1. pc[w] \in LinePlaces /\ (Fault \/ NoFault)
  BY DEF Drop, At, LinePlaces
<1>2. RowTypes' /\ RowStep(w) /\ WireInv'
  BY <1>1, RefuseKeeps DEF Drop, Line
<1> QED  BY <1>1, <1>2, RowDone DEF Drop

LEMMA ClaimKeeps == ASSUME IInv, NEW w \in Workers, Claim(w) PROVE IInv'
<1>1. pc[w] \in LinePlaces /\ (Fault \/ NoFault)
  BY DEF Claim, At, LinePlaces
<1>2. CASE row[about[w]] \in Claimable /\ row' = [row EXCEPT ![about[w]] = "sending"] /\ Goto(w, "send") /\ UNCHANGED jobs
  <2>1. "send" \in Places
    BY DEF Places
  <2>2. said[about[w]] = 0 /\ ~(said[about[w]] > 0) /\ row[about[w]] # "sending"
    BY <1>1, <1>2, LineKnown DEF Claimable, OnWire
  <2>3. RowTypes' /\ RowStep(w) /\ WireInv'
    BY <1>1, <1>2, <2>2, LineKnown, Writes DEF Claim, RowStates
  <2>4. row'[about[w]] = "sending"
    BY <1>1, <1>2, LineKnown DEF RowTypes
  <2>5. Stands(w)'
    BY <1>1, <1>2, <2>1, <2>2, <2>4, Stood, LineKnown DEF Claim, Stands, LinePlaces, ReplyPlaces
  <2> QED  BY <1>1, <1>2, <2>1, <2>2, <2>3, <2>5, RowGoes DEF Claim
<1>3. CASE row[about[w]] = "sent" /\ Goto(w, "flip") /\ UNCHANGED <<row, jobs>>
  BY <1>1, <1>3, LineKnown, LineGoes DEF Claim, rows
<1>4. CASE Done(w) /\ UNCHANGED row
  BY <1>1, <1>4, QuitKeeps DEF Claim, Quit, rows
<1> QED  BY <1>2, <1>3, <1>4 DEF Claim, Line

LEMMA SendKeeps == ASSUME IInv, NEW w \in Workers, Send(w) PROVE IInv'
<1>1. pc[w] \in LinePlaces /\ pc[w] = "send" /\ (Fault \/ NoFault)
  BY DEF Send, At, LinePlaces
<1>2. {"failed", "indeterminate"} \subseteq RowStates /\ {"indeterminate", "sending"} \subseteq OnWire
  BY DEF RowStates, OnWire
<1>3. CASE Put(about[w]) /\ Goto(w, "mark") /\ UNCHANGED <<row, jobs>>
  <2>1. "mark" \in Places
    BY DEF Places
  <2>2. RowTypes' /\ RowStep(w) /\ WireInv' /\ said'[about[w]] > 0
    BY <1>1, <1>2, <1>3, LineKnown, Puts DEF Send
  <2>3. Stands(w)'
    BY <1>1, <1>3, <2>1, <2>2, Stood, LineKnown DEF Send, Stands, LinePlaces, ReplyPlaces
  <2> QED  BY <1>1, <1>3, <2>1, <2>2, <2>3, LineKnown, RowGoes DEF Send
<1>4. CASE row' = [row EXCEPT ![about[w]] = "failed"] /\ UNCHANGED said /\ (Done(w) \/ (Goto(w, "drop") /\ UNCHANGED jobs))
  <2>1. RowTypes' /\ RowStep(w) /\ WireInv'
    BY <1>1, <1>2, <1>4, LineKnown, Writes DEF Send
  <2>2. CASE Done(w)
    BY <1>1, <2>1, <2>2, RowDone DEF Send
  <2>3. CASE Goto(w, "drop") /\ UNCHANGED jobs
    <3>1. "drop" \in Places
      BY DEF Places
    <3>2. Stands(w)'
      BY <1>1, <2>3, <3>1, Stood, LineKnown DEF Stands, LinePlaces, ReplyPlaces
    <3> QED  BY <1>1, <2>1, <2>3, <3>1, <3>2, RowGoes DEF Send
  <2> QED  BY <1>4, <2>2, <2>3
<1>5. CASE row' = [row EXCEPT ![about[w]] = "indeterminate"] /\ Done(w) /\ (Put(about[w]) \/ UNCHANGED said)
  <2>1. RowTypes' /\ RowStep(w) /\ WireInv'
    <3>1. CASE Put(about[w])
      BY <1>1, <1>2, <1>5, <3>1, LineKnown, Puts DEF Send
    <3>2. CASE UNCHANGED said
      BY <1>1, <1>2, <1>5, <3>2, LineKnown, Writes DEF Send
    <3> QED  BY <1>5, <3>1, <3>2
  <2> QED  BY <1>1, <1>5, <2>1, RowDone DEF Send
<1> QED  BY <1>3, <1>4, <1>5 DEF Send, Line

LEMMA MarkKeeps == ASSUME IInv, NEW w \in Workers, Mark(w) PROVE IInv'
<1>1. pc[w] \in LinePlaces /\ pc[w] = "mark" /\ (Fault \/ NoFault)
  BY DEF Mark, At, LinePlaces
<1>2. "flip" \in Places /\ "sent" \in RowStates /\ "sent" \in OnWire
  BY DEF Places, RowStates, OnWire
<1>3. RowTypes' /\ RowStep(w) /\ WireInv'
  BY <1>1, <1>2, LineKnown, Writes DEF Mark, Line
<1>4. Stands(w)'
  BY <1>1, <1>2, Stood, LineKnown DEF Mark, Stands, LinePlaces, ReplyPlaces
<1> QED  BY <1>1, <1>2, <1>3, <1>4, RowGoes DEF Mark

LEMMA FlipKeeps == ASSUME IInv, NEW w \in Workers, Flip(w) PROVE IInv'
<1>1. pc[w] \in LinePlaces /\ pc[w] = "flip" /\ (Fault \/ NoFault)
  BY DEF Flip, At, LinePlaces
<1>2. ConvTypes'
  <2>1. start[w] \in Times /\ ConvTypes
    BY Parts DEF IInv, WorkerTypes
  <2> QED  BY <2>1 DEF Flip, ConvTypes, conv, Controls, Sources
<1>3. TypeOK'
  <2>1. WorkerTypes' /\ JobTypes'
    BY DoneTypes, Parts DEF IInv, Flip
  <2>2. ClockTypes'
    BY <1>1, FaultTypes, Parts DEF IInv, ClockTypes, Flip
  <2>3. RowTypes' /\ InboxTypes'
    BY Parts DEF IInv, RowTypes, InboxTypes, Flip, rows, inbox
  <2> QED  BY <1>2, <2>1, <2>2, <2>3 DEF TypeOK, ClockTypes, ConvTypes, RowTypes, InboxTypes, JobTypes, WorkerTypes
<1>4. BackIsSaid'
  <2>1. PICK m \in Msgs : about[w] = <<"line", m>>
    BY <1>1, LineKnown DEF LineKeys
  <2>2. said'[<<"line", m>>] > 0
    BY <1>1, <2>1, LineKnown DEF Flip, rows
  <2> QED  BY <2>2 DEF BackIsSaid
<1> QED  BY <1>3, <1>4, QuietRows, Retires DEF Flip, Done, rows

LEMMA QueuedTypes == ASSUME JobTypes, NEW m \in Msgs PROVE Queued(m) \in [Msgs -> 0 .. MaxJobs]
  BY Bounds DEF JobTypes, Queued

LEMMA DieKeeps == ASSUME IInv, NEW w \in Workers, Die(w) PROVE IInv'
<1>1. JobTypes'
  <2>1. JobTypes
    BY Parts DEF IInv
  <2>2. CASE about[w] \in {"line"} \X Msgs
    <3>1. Of(w) \in Msgs
      BY <2>2 DEF Of
    <3> QED  BY <2>1, <2>2, <3>1, QueuedTypes DEF Die, JobTypes
  <2>3. CASE about[w] \notin {"line"} \X Msgs
    BY <2>1, <2>3 DEF Die, JobTypes
  <2> QED  BY <2>2, <2>3
<1>2. WorkerTypes' /\ late' \in BOOLEAN
  BY ForgetTypes, Parts DEF IInv, Die, ClockTypes
<1>3. TypeOK'
  BY <1>1, <1>2, QuietTypes DEF Die
<1> QED  BY <1>3, QuietAll, Retires DEF Die

LEMMA StepKeeps == ASSUME IInv, NEW w \in Workers, Step(w) PROVE IInv'
  BY JudgeKeeps, ReadKeeps, WriteKeeps, Check4Keeps, SpeakKeeps, ReplySendKeeps, ReplyMarkKeeps, ThreadKeeps,
     LineRowKeeps, PersonKeeps, DeclineKeeps, DeclinedKeeps, DraftKeeps, ClaimKeeps, SendKeeps, MarkKeeps, DropKeeps,
     FlipKeeps DEF Step

(***************************************************************************)
(* The steps without a worker                                              *)
(***************************************************************************)

\* Nobody works, says or moves the thread; an event may be added that nobody has, an echo of ours only of
\* what was said.
LEMMA NobodyWorks ==
    ASSUME IInv, UNCHANGED <<late, conv, rows, pc, memory>>, TypeOK',
           \A k \in Keys : <<"echo", k>> \in undone' => <<"echo", k>> \in undone \/ said[k] > 0
    PROVE  IInv'
<1>1. UNCHANGED <<row, made, said, source, about, target>>
  BY DEF rows, conv, memory
<1>2. \A w \in Workers : Stands(w)'
  BY <1>1 DEF IInv, Stands
<1>3. ApartInv'
  BY <1>1 DEF IInv, ApartInv, Owns
<1>4. WireInv' /\ BackIsSaid'
  BY <1>1 DEF IInv, WireInv, BackIsSaid
<1>5. EchoInv'
  BY <1>1 DEF IInv, EchoInv, Echoed
<1> QED  BY <1>2, <1>3, <1>4, <1>5 DEF IInv

\* Types, when neither a worker, nor the thread, nor a row changes.
LEMMA NobodyTypes ==
    ASSUME IInv, UNCHANGED <<late, conv, rows, pc, memory>>, NoFault, now' \in Times, InboxTypes', JobTypes'
    PROVE  TypeOK'
<1>1. ClockTypes'
  BY Parts DEF IInv, ClockTypes, NoFault
<1>2. ConvTypes' /\ RowTypes' /\ WorkerTypes'
  BY Parts DEF IInv, ConvTypes, RowTypes, WorkerTypes, conv, rows, memory
<1> QED  BY <1>1, <1>2 DEF TypeOK, ClockTypes, ConvTypes, RowTypes, InboxTypes, JobTypes, WorkerTypes

LEMMA SweepKeeps == ASSUME IInv, Sweep PROVE IInv'
<1>1. JobTypes'
  BY QueuedTypes, Parts DEF IInv, JobTypes, Sweep, Written
<1>2. InboxTypes' /\ now' \in Times
  BY Parts DEF IInv, InboxTypes, ClockTypes, Sweep, inbox
<1>3. TypeOK'
  BY <1>1, <1>2, NobodyTypes DEF Sweep
<1> QED  BY <1>3, NobodyWorks DEF Sweep

LEMMA TickKeeps == ASSUME IInv, Tick PROVE IInv'
<1>1. JobTypes' /\ InboxTypes'
  BY Parts DEF IInv, JobTypes, InboxTypes, Tick, jobs, inbox
<1>2. now' \in Times
  BY Bounds, Parts DEF IInv, ClockTypes, Tick, Times
<1>3. TypeOK'
  BY <1>1, <1>2, NobodyTypes DEF Tick
<1> QED  BY <1>3, NobodyWorks DEF Tick, jobs

LEMMA CustomerWritesKeeps == ASSUME IInv, NEW m \in Msgs, CustomerWrites(m) PROVE IInv'
<1>1. JobTypes' /\ now' \in Times
  BY Parts DEF IInv, JobTypes, ClockTypes, CustomerWrites, jobs
<1>2. InboxTypes'
  BY Parts DEF IInv, InboxTypes, ClockTypes, CustomerWrites
<1>3. TypeOK'
  BY <1>1, <1>2, NobodyTypes DEF CustomerWrites
<1> QED  BY <1>3, NobodyWorks DEF CustomerWrites, jobs

LEMMA StoreKeeps ==
    ASSUME IInv, NEW e \in Events, Store(e), told' \in [Handovers -> [to : {"bot", "human"}, at : Times]],
           \A k \in Keys : e = <<"echo", k>> => said[k] > 0
    PROVE  IInv'
<1>1. JobTypes' /\ now' \in Times
  BY Parts DEF IInv, JobTypes, ClockTypes, Store
<1>2. Written \in SUBSET Msgs
  BY DEF Written
<1>3. InboxTypes'
  BY <1>2, Parts DEF IInv, InboxTypes, Store
<1>4. TypeOK'
  BY <1>1, <1>3, NobodyTypes DEF Store
<1> QED  BY <1>4, NobodyWorks DEF Store

LEMMA StaffWritesKeeps == ASSUME IInv, NEW s \in Staff, StaffWrites(s) PROVE IInv'
<1>1. s \in Events /\ \A k \in Keys : s # <<"echo", k>>
  BY Distinct DEF Events, OwnEchoes
<1>2. told' \in [Handovers -> [to : {"bot", "human"}, at : Times]]
  BY Parts DEF IInv, InboxTypes, StaffWrites
<1> QED  BY <1>1, <1>2, StoreKeeps DEF StaffWrites

LEMMA MetaEchoesKeeps == ASSUME IInv, NEW k \in Keys, MetaEchoes(k) PROVE IInv'
<1>1. <<"echo", k>> \in Events /\ \A j \in Keys : <<"echo", k>> = <<"echo", j>> => j = k
  BY DEF Events, OwnEchoes
<1>2. told' \in [Handovers -> [to : {"bot", "human"}, at : Times]]
  BY Parts DEF IInv, InboxTypes, MetaEchoes
<1> QED  BY <1>1, <1>2, StoreKeeps DEF MetaEchoes

LEMMA MetaHandsOverKeeps ==
    ASSUME IInv, NEW h \in Handovers, NEW to \in {"bot", "human"}, MetaHandsOver(h, to)
    PROVE  IInv'
<1>1. h \in Events /\ \A k \in Keys : h # <<"echo", k>>
  BY Distinct DEF Events, OwnEchoes
<1>2. told' \in [Handovers -> [to : {"bot", "human"}, at : Times]]
  BY Parts DEF IInv, InboxTypes, ClockTypes, MetaHandsOver
<1> QED  BY <1>1, <1>2, StoreKeeps DEF MetaHandsOver

(***************************************************************************)
(* Every step                                                              *)
(***************************************************************************)

LEMMA NextKeepsIInv == IInv /\ [Next]_vars => IInv'
<1> SUFFICES ASSUME IInv, [Next]_vars PROVE IInv'
  OBVIOUS
<1>1. CASE UNCHANGED vars
  <2>1. UNCHANGED <<now, late, conv, rows, inbox, jobs, pc, memory, faults>>
    BY <1>1 DEF vars
  <2>2. JobTypes' /\ InboxTypes' /\ now' \in Times /\ NoFault
    BY <2>1, Parts DEF IInv, JobTypes, InboxTypes, ClockTypes, jobs, inbox, NoFault
  <2>3. TypeOK'
    BY <2>1, <2>2, NobodyTypes
  <2> QED  BY <2>1, <2>3, NobodyWorks DEF jobs
<1>2. CASE \E w \in Workers : Step(w) \/ Die(w)
  BY <1>2, StepKeeps, DieKeeps
<1>3. CASE \E w \in Workers, e \in Events : StartEvent(w, e)
  BY <1>3, StartEventKeeps
<1>4. CASE \E w \in Workers, m \in Msgs : StartReply(w, m)
  BY <1>4, StartReplyKeeps
<1>5. CASE Serve \/ Sweep
  BY <1>5, StartReclaimKeeps, SweepKeeps DEF Serve
<1>6. CASE (\E m \in Msgs : CustomerWrites(m)) \/ Tick
  BY <1>6, CustomerWritesKeeps, TickKeeps
<1>7. CASE (\E s \in Staff : StaffWrites(s)) \/ (\E k \in Keys : MetaEchoes(k))
  BY <1>7, StaffWritesKeeps, MetaEchoesKeeps
<1>8. CASE \E h \in Handovers, to \in {"bot", "human"} : MetaHandsOver(h, to)
  BY <1>8, MetaHandsOverKeeps
<1> QED  BY <1>1, <1>2, <1>3, <1>4, <1>5, <1>6, <1>7, <1>8 DEF Next

LEMMA Invariance == Spec => []IInv
  BY InitIInv, NextKeepsIInv, PTL DEF Spec

\* Every variable keeps its type, whatever fails and whoever dies.
THEOREM TypeCorrect == Spec => []TypeOK
<1>1. IInv => TypeOK
  BY DEF IInv
<1> QED  BY <1>1, Invariance, PTL

\* One held message gets one reclaim line: of the jobs the sweep queued twice or QStash delivered again, one
\* holds the row while it is on its way out, and a row that may have reached the customer is claimed by none.
THEOREM LineOnce == Spec => []OneLine
<1>1. IInv => OneLine
  <2> SUFFICES ASSUME IInv, NEW m \in Msgs PROVE said[<<"line", m>>] <= 1
    BY DEF OneLine
  <2>1. <<"line", m>> \in LineKeys
    BY DEF LineKeys
  <2> QED  BY <2>1 DEF IInv, WireInv
<1> QED  BY <1>1, Invariance, PTL

\* The reclaim's flip writes "bot" only after its line was said.
THEOREM BackOnlyAfterLine == Spec => []BackIsSaid
<1>1. IInv => BackIsSaid
  BY DEF IInv
<1> QED  BY <1>1, Invariance, PTL

\* An echo of the bot's own message moves the thread only when it is judged after its row left the window in
\* which it is recognised: until then the row is one that may be on the wire, and the lookup finds it.
THEOREM OwnEchoHarmless == Spec => NotMutedByOwnEcho
<1>1. IInv /\ [Next]_vars => [\A w \in Workers : Applied(w) /\ about[w] \in OwnEchoes => late]_vars
  <2> SUFFICES ASSUME IInv, NEW w \in Workers, Applied(w), about[w] \in OwnEchoes PROVE late
    OBVIOUS
  <2> QED  BY DEF IInv, Stands, Applied, At
<1> QED  BY <1>1, Invariance, PTL DEF Spec, NotMutedByOwnEcho

(***************************************************************************)
(* The flip and staff                                                      *)
(*                                                                         *)
(* Without a fault, a person's echo is recorded with the hour it is        *)
(* recorded in, and a job ends in the hour it began in.  So while the      *)
(* source of the thread is an echo, its time is not before a message that  *)
(* a recorded echo followed, and a job that found the thread held by an    *)
(* older echo loses it to every write but that of a handover event.        *)
(***************************************************************************)

IsStored(e) == stored[e] # NotStored
FiledInv ==
    /\ \A e \in undone : IsStored(e)
    /\ \A w \in Workers : about[w] \in Events => IsStored(about[w])
    /\ \A s \in Staff, m \in Msgs : m \in stored[s] => wrote[m] # Null
    /\ \A m \in Msgs : wrote[m] <= now

\* What a worker is about to write: with the time that is now, or with a handover event's own.
OfHandover(t) == t.source = "handover" /\ ~t.refresh /\ \E h \in Handovers : IsStored(h) /\ t.at = told[h].at
Aims(w) ==
    /\ pc[w] # "idle" => start[w] = now
    /\ pc[w] \in {"read", "write"} =>
          /\ target[w].at = now \/ OfHandover(target[w])
          /\ target[w].source = "echo" => target[w].at = now
          /\ about[w] \in Staff => target[w].control = "human" /\ target[w].source = "echo"
    /\ pc[w] = "write" /\ held[w] = target[w].control => target[w].at = now

\* A person's echo that came after the message was recorded.
Answered(m) == \E s \in Staff : s \notin undone /\ IsStored(s) /\ m \in stored[s]
LaterInv == source = "echo" => \A m \in Msgs : Answered(m) => since >= wrote[m]
Reclaiming == LinePlaces \ {"thread"}
Spares(w) == pc[w] \in Reclaiming /\ Answered(Of(w)) => since = now \/ HandedOver

AimInv == \A w \in Workers : Aims(w)
SpareInv == faults = 0 => LaterInv /\ \A w \in Workers : Spares(w)
StaffInv == FiledInv /\ AimInv /\ SpareInv

LEMMA Hours == Times \cup {Null} \subseteq Int /\ \A t \in Times : t \in Int /\ t # Null /\ t <= t
<1>1. \A t \in Times : t \in Int /\ t >= 0
  BY Bounds
<1> QED  BY <1>1 DEF Null

LEMMA WroteHours == ASSUME IInv PROVE now \in Times /\ now \in Int /\ \A m \in Msgs : wrote[m] \in Int
<1>1. wrote \in [Msgs -> Times \cup {Null}] /\ now \in Times
  BY Parts DEF IInv, InboxTypes, ClockTypes
<1> QED  BY <1>1, Hours

LEMMA InitStaffInv == Init => StaffInv
<1> SUFFICES ASSUME Init PROVE StaffInv
  OBVIOUS
<1>1. \A s \in Staff, m \in Msgs : m \notin stored[s]
  <2> SUFFICES ASSUME NEW s \in Staff, NEW m \in Msgs, m \in stored[s] PROVE FALSE
    OBVIOUS
  <2>1. s \in Events /\ m # 0
    BY ThreadAssumption DEF Events, Msgs
  <2> QED  BY <2>1 DEF Init, NotStored
<1>2. FiledInv
  <2>1. undone = {} /\ now = 1 /\ \A m \in Msgs : wrote[m] = -1
    BY DEF Init, Null
  <2>2. \A m \in Msgs : wrote[m] <= now
    BY <2>1
  <2>3. \A w \in Workers : about[w] \notin Events
    BY Distinct DEF Init
  <2> QED  BY <1>1, <2>1, <2>2, <2>3 DEF FiledInv
<1>3. AimInv /\ SpareInv
  BY <1>1 DEF Init, AimInv, Aims, SpareInv, LaterInv, Spares, Answered, Reclaiming, LinePlaces
<1> QED  BY <1>2, <1>3 DEF StaffInv

\* Nothing is filed, nobody but w moves, and without a fault the step is after steps without one.
OneMoves(w) ==
    /\ UNCHANGED <<now, inbox>> /\ (Fault \/ NoFault) /\ undone' \subseteq undone
    /\ \A v \in Workers \ {w} :
          pc'[v] = pc[v] /\ about'[v] = about[v] /\ start'[v] = start[v] /\ held'[v] = held[v] /\ target'[v] = target[v]

LEMMA Faultless == ASSUME IInv, Fault \/ NoFault, faults' = 0 PROVE faults = 0 /\ NoFault
<1>1. faults \in Nat
  BY Bounds, Parts DEF IInv, ClockTypes
<1> QED  BY <1>1 DEF Fault, NoFault

LEMMA Files ==
    ASSUME StaffInv, NEW w \in Workers, OneMoves(w),
           about'[w] \in Events => about'[w] = about[w] \/ about'[w] \in undone
    PROVE  FiledInv'
  BY DEF StaffInv, FiledInv, OneMoves, inbox, IsStored

LEMMA OthersAim ==
    ASSUME StaffInv, NEW w \in Workers, OneMoves(w), Aims(w)'
    PROVE  AimInv'
<1> SUFFICES ASSUME NEW v \in Workers \ {w} PROVE Aims(v)'
  BY DEF AimInv
<1>1. Aims(v) /\ UNCHANGED <<now, stored, told>>
  BY DEF StaffInv, AimInv, OneMoves, inbox
<1> QED  BY <1>1 DEF Aims, OneMoves, OfHandover, IsStored

\* A worker's step that writes no thread, and ends no staff echo unless by a fault.
LEMMA QuietSpares ==
    ASSUME IInv, StaffInv, NEW w \in Workers, OneMoves(w), UNCHANGED conv,
           \A s \in Staff : s \in undone => s \in undone' \/ faults' # 0,
           pc'[w] \in Reclaiming => about'[w] = about[w] /\ (pc[w] \in Reclaiming \/ (faults' = 0 => ~Answered(Of(w)))),
           about'[w] \in Events => about'[w] = about[w] \/ about'[w] \in undone,
           Aims(w)'
    PROVE  StaffInv'
<1>1. FiledInv' /\ AimInv'
  BY Files, OthersAim
<1>2. ASSUME faults' = 0 PROVE LaterInv' /\ \A v \in Workers : Spares(v)'
  <2>1. faults = 0 /\ LaterInv /\ \A v \in Workers : Spares(v)
    BY <1>2, Faultless DEF OneMoves, StaffInv, SpareInv
  <2>2. UNCHANGED <<now, wrote, stored, told, control, since, source>>
    BY DEF OneMoves, inbox, conv
  <2>3. \A m : Answered(m)' => Answered(m)
    BY <1>2, <2>2 DEF Answered, IsStored
  <2>4. HandedOver' <=> HandedOver
    BY <2>2 DEF HandedOver
  <2>5. LaterInv'
    BY <2>1, <2>2, <2>3 DEF LaterInv
  <2>6. ASSUME NEW v \in Workers, pc'[v] \in Reclaiming, Answered(Of(v))'
        PROVE  since = now \/ HandedOver
    <3>1. about'[v] = about[v] /\ Answered(Of(v))
      <4>1. about'[v] = about[v]
        BY <2>6 DEF OneMoves
      <4> QED  BY <2>2, <2>6, <4>1, <1>2 DEF Answered, IsStored, Of
    <3>2. pc[v] \in Reclaiming
      BY <1>2, <2>6, <3>1 DEF OneMoves
    <3> QED  BY <2>1, <3>1, <3>2 DEF Spares
  <2> QED  BY <2>2, <2>4, <2>5, <2>6 DEF Spares
<1> QED  BY <1>1, <1>2 DEF StaffInv, SpareInv

LEMMA ForgetAims ==
    ASSUME IInv, NEW w \in Workers, Forget(w)
    PROVE  /\ Aims(w)' /\ pc'[w] = "idle" /\ about'[w] = NoWork /\ about'[w] \notin Events
           /\ \A v \in Workers \ {w} :
                 pc'[v] = pc[v] /\ about'[v] = about[v] /\ start'[v] = start[v] /\ held'[v] = held[v] /\ target'[v] = target[v]
<1>1. pc'[w] = "idle" /\ about'[w] = NoWork
  BY Parts DEF IInv, WorkerTypes, Forget
<1>2. Aims(w)'
  BY <1>1 DEF Aims
<1> QED  BY <1>1, <1>2, Distinct, Parts DEF IInv, WorkerTypes, Forget

\* A job that ends and writes no thread: one about staff's echo ends so only by a fault.
LEMMA EndsSpared ==
    ASSUME IInv, StaffInv, NEW w \in Workers, Done(w), UNCHANGED <<now, conv, inbox>>, Fault \/ NoFault,
           about[w] \in Staff => Fault
    PROVE  StaffInv'
<1>1. OneMoves(w) /\ Aims(w)' /\ pc'[w] = "idle" /\ about'[w] \notin Events
  BY ForgetAims DEF Done, OneMoves
<1>2. Fault => faults' # 0
  BY Bounds, Parts DEF IInv, ClockTypes, Fault
<1> QED  BY <1>1, <1>2, QuietSpares DEF Done, Reclaiming, LinePlaces

\* The work of a worker at these places is a reply or a line.
LEMMA KeyWork ==
    ASSUME IInv, NEW w \in Workers, pc[w] \in LinePlaces \cup ReplyPlaces
    PROVE  about[w] \in Keys /\ about[w] \notin Events /\ about[w] \notin Staff
  BY Distinct DEF IInv, Stands, Events

LEMMA GoesSpared ==
    ASSUME IInv, StaffInv, NEW w \in Workers, NEW place \in LinePlaces \cup ReplyPlaces, Goto(w, place),
           pc[w] \in LinePlaces \cup ReplyPlaces,
           UNCHANGED <<now, conv, inbox, jobs>>, Fault \/ NoFault,
           place \in Reclaiming => pc[w] \in Reclaiming \/ (faults' = 0 => ~Answered(Of(w)))
    PROVE  StaffInv'
<1>1. pc'[w] = place /\ UNCHANGED <<about, start, held, target, undone>> /\ OneMoves(w)
  BY Parts DEF IInv, WorkerTypes, Goto, memory, jobs, OneMoves
<1>2. Aims(w)'
  BY <1>1 DEF Aims, StaffInv, AimInv, OneMoves, LinePlaces, ReplyPlaces
<1> QED  BY <1>1, <1>2, KeyWork, QuietSpares

LEMMA StartsSpared ==
    ASSUME IInv, StaffInv, NEW w \in Workers, NEW place \in {"judge", "check4", "thread"}, NEW what \in Events \cup Keys,
           Take(w, place, what), UNCHANGED <<now, conv, inbox, undone>>, NoFault, what \in Events => what \in undone
    PROVE  StaffInv'
<1>1. pc'[w] = place /\ about'[w] = what /\ start'[w] = now /\ OneMoves(w)
  BY Parts DEF IInv, WorkerTypes, Take, OneMoves
<1>2. Aims(w)'
  BY <1>1 DEF Aims, OneMoves
<1> QED  BY <1>1, <1>2, QuietSpares DEF Reclaiming, LinePlaces

LEMMA AppliesSpared ==
    ASSUME IInv, StaffInv, NEW w \in Workers, NEW c, NEW at, NEW src, NEW again, Apply(w, c, at, src, again),
           pc[w] # "idle", UNCHANGED <<now, conv, inbox, jobs>>, Fault \/ NoFault,
           \/ at = now
           \/ src = "handover" /\ ~again /\ \E h \in Handovers : IsStored(h) /\ at = told[h].at,
           src = "echo" => at = now,
           about[w] \in Staff => c = "human" /\ src = "echo"
    PROVE  StaffInv'
<1>1. /\ pc'[w] = "read" /\ UNCHANGED <<about, start, undone>> /\ OneMoves(w)
      /\ target'[w] = [control |-> c, at |-> at, source |-> src, refresh |-> again]
  BY Parts DEF IInv, WorkerTypes, Apply, OneMoves, jobs
<1>2. Aims(w)'
  <2>1. UNCHANGED <<now, stored, told>> /\ start[w] = now
    BY DEF inbox, StaffInv, AimInv, Aims
  <2> QED  BY <1>1, <2>1 DEF Aims, OfHandover, IsStored
<1> QED  BY <1>1, <1>2, QuietSpares DEF Reclaiming, LinePlaces

LEMMA JudgeSpares == ASSUME IInv, StaffInv, NEW w \in Workers, Judge(w) PROVE StaffInv'
<1> DEFINE e == about[w]
<1>1. /\ e \in Events /\ IsStored(e) /\ start[w] = now /\ pc[w] # "idle" /\ (Fault \/ NoFault)
      /\ UNCHANGED <<now, conv, rows, inbox>>
  BY DEF Judge, At, IInv, Stands, StaffInv, FiledInv, AimInv, Aims
<1>2. e \in Staff => e \notin Handovers /\ FromPerson(e, start[w])
  BY WorkAssumption DEF FromPerson
<1>3. CASE Done(w)
  <2>1. pc'[w] = "idle" /\ pc \in [Workers -> Places]
    BY <1>3, ForgetAims, Parts DEF Done, IInv, WorkerTypes
  <2>2. ~(pc' = [pc EXCEPT ![w] = "read"])
    BY <2>1
  <2>3. e \in Staff => Fault
    BY <1>2, <2>2 DEF Judge, Apply
  <2> QED  BY <1>1, <1>3, <2>3, EndsSpared
<1>4. CASE ~Done(w)
  <2>1. CASE e \in Handovers
    <3>1. Apply(w, told[e].to, told[e].at, "handover", FALSE) /\ UNCHANGED jobs
      BY <1>4, <2>1 DEF Judge
    <3>2. e \notin Staff
      BY <2>1, WorkAssumption
    <3>3. \E h \in Handovers : IsStored(h) /\ told[e].at = told[h].at
      BY <1>1, <2>1
    <3>4. "handover" # "echo"
      OBVIOUS
    <3> QED  BY <1>1, <3>1, <3>2, <3>3, <3>4, AppliesSpared
  <2>2. CASE e \notin Handovers
    <3>1. Apply(w, "human", now, "echo", FALSE) /\ UNCHANGED jobs
      BY <1>1, <1>4, <2>2 DEF Judge
    <3> QED  BY <1>1, <3>1, AppliesSpared
  <2> QED  BY <2>1, <2>2
<1> QED  BY <1>3, <1>4

LEMMA ReadSpares == ASSUME IInv, StaffInv, NEW w \in Workers, Read(w) PROVE StaffInv'
<1>1. /\ pc[w] = "read" /\ Aims(w) /\ (Fault \/ NoFault) /\ UNCHANGED <<now, conv, rows, inbox>>
      /\ pc \in [Workers -> Places] /\ held \in [Workers -> Controls]
  BY Parts DEF Read, At, StaffInv, AimInv, IInv, WorkerTypes
<1>2. CASE Done(w)
  <2>1. about[w] \in Staff => target[w].control = "human" /\ target[w].source = "echo"
    BY <1>1 DEF Aims
  <2>2. pc'[w] = "idle"
    BY <1>2, ForgetAims DEF Done
  <2>3. ~(pc' = [pc EXCEPT ![w] = "write"])
    BY <1>1, <2>2
  <2>4. about[w] \in Staff => Fault
    BY <2>1, <2>3 DEF Read
  <2> QED  BY <1>1, <1>2, <2>4, EndsSpared
<1>3. CASE ~Done(w)
  <2>1. /\ control # target[w].control \/ (control = "human" /\ (target[w].source = "echo" \/ target[w].refresh))
        /\ pc' = [pc EXCEPT ![w] = "write"] /\ held' = [held EXCEPT ![w] = control]
        /\ UNCHANGED <<about, start, target, jobs>>
    BY <1>3 DEF Read
  <2>2. pc'[w] = "write" /\ held'[w] = control /\ OneMoves(w) /\ UNCHANGED undone
    BY <1>1, <2>1 DEF OneMoves, jobs
  <2>3. held'[w] = target[w].control => target[w].at = now
    BY <1>1, <2>1, <2>2 DEF Aims, OfHandover
  <2>4. Aims(w)'
    <3>1. UNCHANGED <<now, stored, told>>
      BY <1>1 DEF inbox
    <3> QED  BY <1>1, <2>1, <2>2, <2>3, <3>1 DEF Aims, OfHandover, IsStored
  <2> QED  BY <1>1, <2>1, <2>2, <2>4, QuietSpares DEF Reclaiming, LinePlaces
<1> QED  BY <1>2, <1>3

\* After a write the time of the thread is now, or a handover event has it.
LEMMA ConvSpares ==
    ASSUME IInv, StaffInv, NEW w \in Workers, Done(w), UNCHANGED <<now, inbox>>, Fault \/ NoFault,
           since' = now \/ (source' = "handover" /\ HandedOver')
    PROVE  StaffInv'
<1>1. OneMoves(w) /\ Aims(w)' /\ about'[w] \notin Events
  BY ForgetAims DEF Done, OneMoves
<1>2. FiledInv' /\ AimInv'
  BY <1>1, Files, OthersAim
<1>3. LaterInv'
  <2>1. CASE since' = now
    <3> SUFFICES ASSUME NEW m \in Msgs PROVE since' >= wrote'[m]
      BY DEF LaterInv
    <3>1. wrote[m] <= now /\ wrote' = wrote
      BY DEF StaffInv, FiledInv, inbox
    <3>2. wrote[m] \in Int /\ now \in Int
      BY WroteHours
    <3> QED  BY <2>1, <3>1, <3>2
  <2>2. CASE source' = "handover"
    BY <2>2 DEF LaterInv
  <2> QED  BY <2>1, <2>2
<1>4. \A v \in Workers : Spares(v)'
  BY DEF Spares
<1> QED  BY <1>2, <1>3, <1>4 DEF StaffInv, SpareInv

LEMMA WriteSpares == ASSUME IInv, StaffInv, NEW w \in Workers, Write(w) PROVE StaffInv'
<1>1. /\ pc[w] = "write" /\ Done(w) /\ (Fault \/ NoFault) /\ UNCHANGED <<now, rows, inbox>>
      /\ Aims(w)
  BY DEF Write, At, StaffInv, AimInv
<1>2. CASE UNCHANGED conv /\ Fault
  BY <1>1, <1>2, EndsSpared
<1>3. CASE Update(w)
  <2>1. CASE target[w].at = now
    <3>1. since' = now
      BY <1>3, <2>1 DEF Update
    <3> QED  BY <1>1, <3>1, ConvSpares
  <2>2. CASE target[w].at # now
    <3>1. OfHandover(target[w]) /\ held[w] # target[w].control
      BY <1>1, <2>2 DEF Aims
    <3>2. since' = target[w].at /\ source' = "handover"
      BY <1>3, <3>1 DEF Update, OfHandover
    <3>3. HandedOver'
      BY <1>1, <3>1, <3>2 DEF OfHandover, HandedOver, IsStored, inbox
    <3> QED  BY <1>1, <3>2, <3>3, ConvSpares
  <2> QED  BY <2>1, <2>2
<1> QED  BY <1>2, <1>3 DEF Write

LEMMA FlipSpares == ASSUME IInv, StaffInv, NEW w \in Workers, Flip(w) PROVE StaffInv'
<1>1. /\ Done(w) /\ (Fault \/ NoFault) /\ UNCHANGED <<now, rows, inbox>> /\ start[w] = now
      /\ about[w] \notin Staff
  BY KeyWork DEF Flip, At, StaffInv, AimInv, Aims, LinePlaces
<1>2. CASE UNCHANGED conv
  BY <1>1, <1>2, EndsSpared
<1>3. CASE since' = start[w]
  BY <1>1, <1>3, ConvSpares
<1> QED  BY <1>2, <1>3 DEF Flip

\* A job that goes on found the thread a person's by an echo older than the message: no recorded echo
\* came after it.
LEMMA ThreadSpares == ASSUME IInv, StaffInv, NEW w \in Workers, Thread(w) PROVE StaffInv'
<1>1. /\ pc[w] = "thread" /\ pc[w] \in LinePlaces /\ (Fault \/ NoFault) /\ UNCHANGED <<now, conv, inbox>>
      /\ about[w] \in LineKeys
  BY LineKnown DEF Thread, At, LinePlaces
<1>2. CASE Quit(w)
  BY <1>1, <1>2, KeyWork, EndsSpared DEF Quit
<1>3. CASE StillHeld(w) /\ Goto(w, "row") /\ UNCHANGED <<jobs, rows>>
  <2>1. ASSUME faults' = 0, Answered(Of(w)) PROVE FALSE
    <3>1. faults = 0 /\ LaterInv
      BY <1>1, <2>1, Faultless DEF StaffInv, SpareInv
    <3>2. Of(w) \in Msgs
      BY <1>1 DEF LineKeys, Of
    <3>3. since >= wrote[Of(w)] /\ since < wrote[Of(w)]
      BY <1>3, <2>1, <3>1, <3>2 DEF LaterInv, StillHeld
    <3>4. since \in Int /\ wrote[Of(w)] \in Int
      BY <3>2, WroteHours, Hours, Parts DEF IInv, ConvTypes
    <3> QED  BY <3>3, <3>4
  <2>2. "row" \in LinePlaces
    BY DEF LinePlaces
  <2> QED  BY <1>1, <1>3, <2>1, <2>2, GoesSpared
<1> QED  BY <1>2, <1>3 DEF Thread

LEMMA LineSpares ==
    ASSUME IInv, StaffInv, NEW w \in Workers, pc[w] \in Reclaiming, UNCHANGED <<now, conv, inbox>>, Fault \/ NoFault,
           \/ Done(w)
           \/ UNCHANGED jobs /\ \E place \in Reclaiming : Goto(w, place)
    PROVE  StaffInv'
<1>1. pc[w] \in LinePlaces /\ Reclaiming \subseteq LinePlaces
  BY DEF Reclaiming
<1>2. CASE Done(w)
  BY <1>1, <1>2, KeyWork, EndsSpared
<1>3. CASE UNCHANGED jobs /\ \E place \in Reclaiming : Goto(w, place)
  <2>1. PICK place \in Reclaiming : Goto(w, place)
    BY <1>3
  <2> QED  BY <1>1, <1>3, <2>1, GoesSpared
<1> QED  BY <1>2, <1>3

LEMMA ReclaimSpares ==
    ASSUME IInv, StaffInv, NEW w \in Workers,
           \/ LineRow(w) \/ Person(w) \/ Decline(w) \/ Declined(w) \/ Draft(w) \/ Claim(w) \/ Send(w) \/ Mark(w)
           \/ Drop(w)
    PROVE  StaffInv'
<1>1. {"row", "person", "decline", "declined", "draft", "claim", "send", "mark", "drop", "flip"} \subseteq Reclaiming
  BY DEF Reclaiming, LinePlaces
<1>2. CASE LineRow(w)
  BY <1>1, <1>2, LineSpares DEF LineRow, At, Quit
<1>3. CASE Person(w)
  BY <1>1, <1>3, LineSpares DEF Person, At, Quit
<1>4. CASE Decline(w)
  BY <1>1, <1>4, LineSpares DEF Decline, At, Quit
<1>5. CASE Declined(w)
  BY <1>1, <1>5, LineSpares DEF Declined, At
<1>6. CASE Draft(w)
  BY <1>1, <1>6, LineSpares DEF Draft, At, Quit
<1>7. CASE Claim(w)
  BY <1>1, <1>7, LineSpares DEF Claim, At
<1>8. CASE Send(w)
  BY <1>1, <1>8, LineSpares DEF Send, At
<1>9. CASE Mark(w)
  BY <1>1, <1>9, LineSpares DEF Mark, At
<1>10. CASE Drop(w)
  BY <1>1, <1>10, LineSpares DEF Drop, At
<1> QED  BY <1>2, <1>3, <1>4, <1>5, <1>6, <1>7, <1>8, <1>9, <1>10

LEMMA ReplySpares ==
    ASSUME IInv, StaffInv, NEW w \in Workers, Check4(w) \/ Speak(w) \/ ReplySend(w) \/ ReplyMark(w)
    PROVE  StaffInv'
<1>1. pc[w] \in ReplyPlaces /\ (Fault \/ NoFault) /\ UNCHANGED <<now, conv, inbox>>
  BY DEF Check4, Speak, ReplySend, ReplyMark, At, ReplyPlaces
<1>2. {"speak", "replySend", "replyMark"} \subseteq ReplyPlaces /\ ReplyPlaces \cap Reclaiming = {}
  BY DEF ReplyPlaces, Reclaiming, LinePlaces
<1>3. CASE Done(w)
  BY <1>1, <1>3, KeyWork, EndsSpared
<1>4. CASE UNCHANGED jobs /\ \E place \in {"speak", "replySend", "replyMark"} : Goto(w, place)
  <2>1. PICK place \in {"speak", "replySend", "replyMark"} : Goto(w, place)
    BY <1>4
  <2> QED  BY <1>1, <1>2, <1>4, <2>1, GoesSpared
<1>5. CASE UNCHANGED jobs /\ Apply(w, "human", start[w], "handover", TRUE)
  <2>1. start[w] = now /\ pc[w] # "idle"
    BY <1>1 DEF StaffInv, AimInv, Aims, ReplyPlaces
  <2> QED  BY <1>1, <1>5, <2>1, KeyWork, AppliesSpared
<1> QED  BY <1>3, <1>4, <1>5 DEF Check4, Speak, ReplySend, ReplyMark

LEMMA DieSpares == ASSUME IInv, StaffInv, NEW w \in Workers, Die(w) PROVE StaffInv'
<1>1. OneMoves(w) /\ Aims(w)' /\ pc'[w] = "idle" /\ about'[w] \notin Events
  BY ForgetAims DEF Die, OneMoves
<1> QED  BY <1>1, QuietSpares DEF Die, Reclaiming, LinePlaces

LEMMA WorkSpares == ASSUME IInv, StaffInv, NEW w \in Workers, Step(w) \/ Die(w) PROVE StaffInv'
  BY JudgeSpares, ReadSpares, WriteSpares, ReplySpares, ThreadSpares, ReclaimSpares, FlipSpares, DieSpares DEF Step

LEMMA StartSpares ==
    ASSUME IInv, StaffInv, NEW w \in Workers,
           \/ \E e \in Events : StartEvent(w, e)
           \/ \E m \in Msgs : StartReply(w, m) \/ StartReclaim(w, m)
    PROVE  StaffInv'
<1>1. CASE \E e \in Events : StartEvent(w, e)
  BY <1>1, StartsSpared DEF StartEvent, jobs
<1>2. CASE \E m \in Msgs : StartReply(w, m)
  <2>1. PICK m \in Msgs : StartReply(w, m)
    BY <1>2
  <2>2. <<"reply", m>> \in Keys /\ <<"reply", m>> \notin Events
    BY Distinct DEF Keys
  <2> QED  BY <2>1, <2>2, StartsSpared DEF StartReply, jobs
<1>3. CASE \E m \in Msgs : StartReclaim(w, m)
  <2>1. PICK m \in Msgs : StartReclaim(w, m)
    BY <1>3
  <2>2. <<"line", m>> \in Keys /\ <<"line", m>> \notin Events
    BY Distinct DEF Keys
  <2> QED  BY <2>1, <2>2, StartsSpared DEF StartReclaim
<1> QED  BY <1>1, <1>2, <1>3

\* Nobody works and nobody moves the thread: what is filed anew is not recorded yet.
LEMMA FilingSpares ==
    ASSUME IInv, StaffInv, UNCHANGED <<conv, pc, memory, wrote, now>>, NoFault, NEW e \in Events, stored[e] = NotStored,
           stored' = [stored EXCEPT ![e] = Written], undone' = undone \cup {e},
           \A h \in Handovers : h # e => told'[h] = told[h]
    PROVE  StaffInv'
<1>1. UNCHANGED <<about, start, held, target, control, since, source, faults>>
  BY DEF conv, memory, NoFault
<1>2. stored \in [Events -> (SUBSET Msgs) \cup {NotStored}] /\ undone \subseteq Events /\ now \in Times
  BY Parts DEF IInv, InboxTypes, JobTypes, ClockTypes
<1>3. Written # NotStored
  <2>1. 0 \notin Msgs
    BY ThreadAssumption DEF Msgs
  <2> QED  BY <2>1 DEF Written, NotStored
<1>4. \A d \in Events : /\ stored'[d] = IF d = e THEN Written ELSE stored[d]
                        /\ IsStored(d) => IsStored(d)' /\ d # e
  BY <1>2, <1>3 DEF IsStored
<1>5. Staff \subseteq Events /\ Handovers \subseteq Events
  BY DEF Events
<1>6. FiledInv'
  <2>1. \A d \in undone' : IsStored(d)'
    <3> SUFFICES ASSUME NEW d \in undone' PROVE stored'[d] # NotStored
      BY DEF IsStored
    <3>1. CASE d = e
      BY <1>3, <1>4, <3>1
    <3>2. CASE d # e
      BY <1>2, <1>4, <3>2 DEF StaffInv, FiledInv, IsStored
    <3> QED  BY <3>1, <3>2
  <2>2. \A w \in Workers : about[w] \in Events => stored'[about[w]] # NotStored
    BY <1>3, <1>4 DEF StaffInv, FiledInv, IsStored
  <2>3. \A s \in Staff, m \in Msgs : m \in stored'[s] => wrote[m] # Null
    BY <1>4, <1>5 DEF StaffInv, FiledInv, Written
  <2> QED  BY <1>1, <2>1, <2>2, <2>3 DEF StaffInv, FiledInv, IsStored
<1>7. \A h \in Handovers : IsStored(h) => IsStored(h)' /\ told'[h] = told[h]
  BY <1>4, <1>5
<1>8. AimInv'
  <2> SUFFICES ASSUME NEW w \in Workers PROVE Aims(w)'
    BY DEF AimInv
  <2>1. Aims(w)
    BY DEF StaffInv, AimInv
  <2>2. OfHandover(target[w]) => OfHandover(target[w])'
    BY <1>1, <1>7 DEF OfHandover
  <2> QED  BY <1>1, <2>1, <2>2 DEF Aims
<1>9. \A m : Answered(m)' => Answered(m)
  BY <1>4, <1>5 DEF Answered, IsStored
<1>10. HandedOver => HandedOver'
  BY <1>1, <1>7 DEF HandedOver, IsStored
<1>11. SpareInv'
  <2> SUFFICES ASSUME faults' = 0 PROVE LaterInv' /\ \A w \in Workers : Spares(w)'
    BY DEF SpareInv
  <2>1. LaterInv /\ \A w \in Workers : Spares(w)
    BY <1>1 DEF StaffInv, SpareInv
  <2>2. LaterInv'
    BY <1>1, <1>9, <2>1 DEF LaterInv
  <2>3. ASSUME NEW w \in Workers PROVE Spares(w)'
    <3>1. Answered(Of(w))' => Answered(Of(w))
      BY <1>1, <1>4, <1>5 DEF Answered, IsStored, Of
    <3> QED  BY <1>1, <1>10, <2>1, <3>1 DEF Spares
  <2> QED  BY <2>2, <2>3
<1> QED  BY <1>6, <1>8, <1>11 DEF StaffInv

LEMMA StoresSpare ==
    ASSUME IInv, StaffInv,
           \/ \E s \in Staff : StaffWrites(s)
           \/ \E k \in Keys : MetaEchoes(k)
           \/ \E h \in Handovers, to \in {"bot", "human"} : MetaHandsOver(h, to)
    PROVE  StaffInv'
<1>1. CASE \E s \in Staff : StaffWrites(s)
  <2>1. PICK s \in Staff : StaffWrites(s)
    BY <1>1
  <2>2. s \in Events
    BY DEF Events
  <2> QED  BY <2>1, <2>2, FilingSpares DEF StaffWrites, Store
<1>2. CASE \E k \in Keys : MetaEchoes(k)
  <2>1. PICK k \in Keys : MetaEchoes(k)
    BY <1>2
  <2>2. <<"echo", k>> \in Events
    BY DEF Events, OwnEchoes
  <2> QED  BY <2>1, <2>2, FilingSpares DEF MetaEchoes, Store
<1>3. CASE \E h \in Handovers, to \in {"bot", "human"} : MetaHandsOver(h, to)
  <2>1. PICK h \in Handovers, to \in {"bot", "human"} : MetaHandsOver(h, to)
    BY <1>3
  <2>2. h \in Events
    BY DEF Events
  <2>3. \A g \in Handovers : g # h => told'[g] = told[g]
    BY <2>1, Parts DEF IInv, InboxTypes, MetaHandsOver
  <2> QED  BY <2>1, <2>2, <2>3, FilingSpares DEF MetaHandsOver, Store
<1> QED  BY <1>1, <1>2, <1>3

\* No echo that is filed came after a message that is not written.
LEMMA CustomerSpares == ASSUME IInv, StaffInv, NEW m \in Msgs, CustomerWrites(m) PROVE StaffInv'
<1>1. UNCHANGED <<about, start, held, target, control, since, source, faults, pc, now, stored, told, undone>>
  BY DEF CustomerWrites, conv, memory, jobs, NoFault
<1>2. wrote \in [Msgs -> Times \cup {Null}] /\ now \in Times /\ wrote[m] = Null /\ now # Null /\ now <= now
  <2>1. wrote \in [Msgs -> Times \cup {Null}] /\ now \in Times
    BY Parts DEF IInv, InboxTypes, ClockTypes
  <2> QED  BY <2>1, Hours DEF CustomerWrites
<1>3. \A n \in Msgs : wrote'[n] = IF n = m THEN now ELSE wrote[n]
  BY <1>2 DEF CustomerWrites
<1>4. FiledInv'
  BY <1>1, <1>2, <1>3 DEF StaffInv, FiledInv, IsStored
<1>5. AimInv'
  BY <1>1 DEF StaffInv, AimInv, Aims, OfHandover, IsStored
<1>6. ~Answered(m)
  BY <1>2 DEF Answered, StaffInv, FiledInv
<1>7. LaterInv => LaterInv'
  BY <1>1, <1>3, <1>6 DEF LaterInv, Answered, IsStored
<1>8. SpareInv'
  BY <1>1, <1>7 DEF StaffInv, SpareInv, Spares, Answered, IsStored, HandedOver, Of
<1> QED  BY <1>4, <1>5, <1>8 DEF StaffInv

LEMMA TickSpares == ASSUME IInv, StaffInv, Tick PROVE StaffInv'
<1>1. /\ UNCHANGED <<about, start, held, target, control, since, source, faults, pc, wrote, stored, told, undone>>
      /\ now' = now + 1 /\ \A w \in Workers : pc[w] = "idle"
  BY DEF Tick, At, conv, memory, jobs, inbox, NoFault
<1>2. FiledInv'
  <2>1. \A m \in Msgs : wrote[m] <= now'
    <3> SUFFICES ASSUME NEW m \in Msgs PROVE wrote[m] <= now'
      OBVIOUS
    <3>1. wrote[m] \in Int /\ now \in Int /\ wrote[m] <= now
      BY WroteHours DEF StaffInv, FiledInv
    <3> QED  BY <1>1, <3>1
  <2> QED  BY <1>1, <2>1 DEF StaffInv, FiledInv, IsStored
<1>3. AimInv'
  BY <1>1 DEF AimInv, Aims
<1>4. SpareInv'
  BY <1>1 DEF StaffInv, SpareInv, LaterInv, Spares, Answered, IsStored, Reclaiming, LinePlaces
<1> QED  BY <1>2, <1>3, <1>4 DEF StaffInv

LEMMA IdleSpares ==
    ASSUME StaffInv, UNCHANGED <<now, conv, inbox, undone, pc, memory, faults>>
    PROVE  StaffInv'
<1>1. UNCHANGED <<about, start, held, target, control, since, source, faults, pc, now, wrote, stored, told, undone>>
  BY DEF conv, memory, inbox
<1>2. FiledInv' /\ AimInv'
  BY <1>1 DEF StaffInv, FiledInv, AimInv, Aims, OfHandover, IsStored
<1>3. SpareInv'
  BY <1>1 DEF StaffInv, SpareInv, LaterInv, Spares, Answered, IsStored, HandedOver, Of
<1> QED  BY <1>2, <1>3 DEF StaffInv

LEMMA NextSpares == IInv /\ StaffInv /\ [Next]_vars => StaffInv'
<1> SUFFICES ASSUME IInv, StaffInv, [Next]_vars PROVE StaffInv'
  OBVIOUS
<1>1. CASE UNCHANGED vars
  BY <1>1, IdleSpares DEF vars, jobs
<1>2. CASE Sweep
  BY <1>2, IdleSpares DEF Sweep, NoFault
<1>3. CASE Serve
  BY <1>3, StartSpares DEF Serve
<1>4. CASE Next /\ ~Sweep /\ ~Serve
  BY <1>4, WorkSpares, StartSpares, CustomerSpares, StoresSpare, TickSpares DEF Next
<1> QED  BY <1>1, <1>2, <1>3, <1>4

LEMMA StaffInvariance == Spec => []StaffInv
  BY InitStaffInv, NextSpares, Invariance, PTL DEF Spec

\* Two steps move the thread: the write of what an event or a notice says, and the flip.
LEMMA MovesThread == ASSUME Next, conv' # conv PROVE \E v \in Workers : Write(v) \/ Flip(v)
<1>1. CASE \E v \in Workers : Step(v) \/ Die(v)
  <2>1. PICK v \in Workers : Step(v) \/ Die(v)
    BY <1>1
  <2>2. (Judge(v) \/ Read(v) \/ Check4(v) \/ Speak(v) \/ ReplySend(v) \/ ReplyMark(v) \/ Die(v)) => UNCHANGED conv
    BY DEF Judge, Read, Check4, Speak, ReplySend, ReplyMark, Die
  <2>3. (\/ Thread(v) \/ LineRow(v) \/ Person(v) \/ Decline(v) \/ Declined(v)
         \/ Draft(v) \/ Claim(v) \/ Send(v) \/ Mark(v) \/ Drop(v))
        => UNCHANGED conv
    BY DEF Thread, LineRow, Person, Decline, Declined, Draft, Claim, Send, Mark, Drop
  <2> QED  BY <2>1, <2>2, <2>3 DEF Step
<1>2. CASE (\E w \in Workers, e \in Events : StartEvent(w, e)) \/ (\E w \in Workers, m \in Msgs : StartReply(w, m)) \/ Serve
  BY <1>2 DEF StartEvent, StartReply, StartReclaim, Serve
<1>3. CASE Sweep \/ Tick \/ \E m \in Msgs : CustomerWrites(m)
  BY <1>3 DEF Sweep, Tick, CustomerWrites
<1>4. CASE \/ \E s \in Staff : StaffWrites(s)
           \/ \E k \in Keys : MetaEchoes(k)
           \/ \E h \in Handovers, to \in {"bot", "human"} : MetaHandsOver(h, to)
  BY <1>4 DEF StaffWrites, MetaEchoes, MetaHandsOver, Store
<1> QED  BY <1>1, <1>2, <1>3, <1>4 DEF Next

\* The flip takes no thread from staff: without a fault, a person's echo that came after the message and was
\* recorded before the flip keeps the chat, unless a handover event recorded later moved it with an older time.
THEOREM StaffKeepTheirThread == Spec => FlipSparesStaff
<1> DEFINE Spared ==
      \A w \in Workers :
         (At(w, "flip") /\ pc'[w] = "idle" /\ conv' # conv /\ faults' = 0)
         => \A s \in Staff : (stored[s] # NotStored /\ Of(w) \in stored[s]) => s \in undone \/ HandedOver
<1>1. IInv /\ StaffInv /\ [Next]_vars => [Spared]_vars
  <2> SUFFICES ASSUME IInv, StaffInv, Next, NEW w \in Workers, pc[w] = "flip", pc'[w] = "idle", conv' # conv, faults' = 0,
                      NEW s \in Staff, stored[s] # NotStored, Of(w) \in stored[s], s \notin undone, ~HandedOver
               PROVE  FALSE
    BY DEF At
  <2>1. Answered(Of(w))
    BY DEF Answered, IsStored
  <2>2. PICK v \in Workers : Write(v) \/ Flip(v)
    BY MovesThread
  <2>3. Done(v) /\ (Fault \/ NoFault) /\ pc[v] \in {"write", "flip"}
    BY <2>2 DEF Write, Flip, At
  <2>4. v = w
    BY <2>3, ForgetAims DEF Done
  <2>5. Flip(w) /\ since < wrote[Of(w)]
    BY <2>2, <2>4 DEF Flip, Write, At
  <2>6. faults = 0
    BY <2>3, Faultless
  <2>7. since = now
    BY <2>1, <2>6 DEF StaffInv, SpareInv, Spares, Reclaiming, LinePlaces
  <2>8. Of(w) \in Msgs
    BY LineKnown DEF LineKeys, LinePlaces, Of
  <2>9. wrote[Of(w)] <= now /\ wrote[Of(w)] \in Int /\ now \in Int
    BY <2>8, WroteHours DEF StaffInv, FiledInv
  <2> QED  BY <2>5, <2>7, <2>9
<1> QED  BY <1>1, Invariance, StaffInvariance, PTL DEF Spec, FlipSparesStaff
=============================================================================
