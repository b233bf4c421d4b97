------------------------------ MODULE Admission ------------------------------
(***************************************************************************)
(* The bounded queue of one API process before the expensive registration  *)
(* path.  Slots bound who may wait, semaphores bound who may run, and an   *)
(* unfamiliar mail domain has a lane of its own that exists only while     *)
(* somebody refers to it.  Every channel operation is a step.              *)
(***************************************************************************)
EXTENDS Naturals, FiniteSets

CONSTANTS
  Callers,      \* requests that pass through, each once
  DomainOf,     \* the mail domain of each
  Established,  \* the domains that need no lane
  InFlight, Queued, UnfamiliarInFlight, UnfamiliarQueued, PerDomain,
  MaxLanes,     \* model bound: lanes ever made for a domain
  MaxTimeouts   \* model bound: waits that end in a timeout

Domains      == {DomainOf[c] : c \in Callers}
Unfamiliar(c) == DomainOf[c] \notin Established
Lanes        == Domains \X (1 .. MaxLanes)

AdmissionAssumption ==
  /\ IsFiniteSet(Callers) /\ MaxLanes \in Nat
  /\ {InFlight, UnfamiliarInFlight, PerDomain} \subseteq Nat \ {0}
  /\ {Queued, UnfamiliarQueued, MaxTimeouts} \subseteq Nat
  /\ PerDomain <= UnfamiliarInFlight /\ UnfamiliarInFlight <= InFlight

VARIABLES
  chan,      \* entries in the channels totalSlots, unfamiliarSlots, unfamiliar and global
  lanes,     \* the lane each domain maps to now, 0 for none
  refs,      \* references of each lane object
  sem,       \* entries in the semaphore of each lane object
  made,      \* lanes made so far for each domain
  held,      \* what each caller holds
  lane,      \* the lane object each caller retained
  pc,
  timeouts

admissionVars == <<chan, lanes, refs, sem, made, held, lane, pc, timeouts>>

Labels  == {"idle", "slots", "retain", "lane", "unfamiliar", "global", "running", "leaving",
            "left", "busy"}
Grants  == {"totalSlots", "unfamiliarSlots", "lane", "laneSlot", "unfamiliar", "global"}
Channels == {"totalSlots", "unfamiliarSlots", "unfamiliar", "global"}
Limit(k) == IF k = "totalSlots" THEN InFlight + Queued
            ELSE IF k = "unfamiliarSlots" THEN UnfamiliarInFlight + UnfamiliarQueued
            ELSE IF k = "unfamiliar" THEN UnfamiliarInFlight ELSE InFlight
NoLane  == 0
LaneOf(c) == <<DomainOf[c], lane[c]>>

TypeOK ==
  /\ chan \in [Channels -> Nat] /\ \A k \in Channels : chan[k] <= Limit(k)
  /\ made \in [Domains -> 0 .. MaxLanes] /\ lanes \in [Domains -> 0 .. MaxLanes]
  /\ \A d \in Domains : lanes[d] <= made[d]
  /\ refs \in [Lanes -> 0 .. Cardinality(Callers)] /\ sem \in [Lanes -> 0 .. PerDomain]
  /\ held \in [Callers -> SUBSET Grants] /\ lane \in [Callers -> 0 .. MaxLanes]
  /\ pc \in [Callers -> Labels] /\ timeouts \in 0 .. MaxTimeouts

Init ==
  /\ chan = [k \in Channels |-> 0]
  /\ lanes = [d \in Domains |-> NoLane] /\ made = [d \in Domains |-> 0]
  /\ refs = [l \in Lanes |-> 0] /\ sem = [l \in Lanes |-> 0]
  /\ held = [c \in Callers |-> {}] /\ lane = [c \in Callers |-> NoLane]
  /\ pc = [c \in Callers |-> "idle"] /\ timeouts = 0

laneVars == <<lanes, refs, sem, made, lane>>
At(c, label) == pc[c] = label
To(c, label) == pc' = [pc EXCEPT ![c] = label]
Full(k)      == chan[k] = Limit(k)
Put(c, k)    == chan' = [chan EXCEPT ![k] = @ + 1] /\ held' = [held EXCEPT ![c] = @ \cup {k}]
Take(c, k)   == chan' = [chan EXCEPT ![k] = @ - 1] /\ held' = [held EXCEPT ![c] = @ \ {k}]

-----------------------------------------------------------------------------
(* Acquire *)

\* A slot is taken at once or not at all.
TryReserve(c) ==
  /\ At(c, "idle")
  /\ \/ ~Full("totalSlots") /\ Put(c, "totalSlots")
        /\ To(c, IF Unfamiliar(c) THEN "slots" ELSE "global")
     \/ Full("totalSlots") /\ To(c, "busy") /\ UNCHANGED <<chan, held>>
  /\ UNCHANGED <<laneVars, timeouts>>

TryReserveUnfamiliar(c) ==
  /\ At(c, "slots")
  /\ \/ ~Full("unfamiliarSlots") /\ Put(c, "unfamiliarSlots") /\ To(c, "retain")
     \/ Full("unfamiliarSlots") /\ Take(c, "totalSlots") /\ To(c, "busy")
  /\ UNCHANGED <<laneVars, timeouts>>

\* Under the mutex: the domain's lane, made when there is none.
Referred_NewOnly(d, n) == [refs EXCEPT ![<<d, n>>] = IF lanes[d] = NoLane THEN 1 ELSE @]
Referred(d, n) == [refs EXCEPT ![<<d, n>>] = @ + 1]

retainLane(c) ==
  LET d == DomainOf[c] n == IF lanes[d] = NoLane THEN made[d] + 1 ELSE lanes[d] IN
  /\ At(c, "retain") /\ To(c, "lane")
  /\ n <= MaxLanes
  /\ lanes' = [lanes EXCEPT ![d] = n] /\ lane' = [lane EXCEPT ![c] = n]
  /\ made' = [made EXCEPT ![d] = IF @ < n THEN n ELSE @]
  /\ refs' = Referred(d, n)
  /\ held' = [held EXCEPT ![c] = @ \cup {"lane"}]
  /\ UNCHANGED <<chan, sem, timeouts>>

AcquireLane(c) ==
  /\ At(c, "lane") /\ sem[LaneOf(c)] < PerDomain
  /\ sem' = [sem EXCEPT ![LaneOf(c)] = @ + 1]
  /\ held' = [held EXCEPT ![c] = @ \cup {"laneSlot"}] /\ To(c, "unfamiliar")
  /\ UNCHANGED <<chan, lanes, refs, made, lane, timeouts>>

AcquireUnfamiliar(c) ==
  /\ At(c, "unfamiliar") /\ ~Full("unfamiliar") /\ Put(c, "unfamiliar") /\ To(c, "global")
  /\ UNCHANGED <<laneVars, timeouts>>

AcquireGlobal(c) ==
  /\ At(c, "global") /\ ~Full("global") /\ Put(c, "global") /\ To(c, "running")
  /\ UNCHANGED <<laneVars, timeouts>>

\* The wait ends with the context: whatever is held is given back.
WaitTimeout(c) ==
  /\ pc[c] \in {"lane", "unfamiliar", "global"} /\ To(c, "leaving")
  /\ timeouts < MaxTimeouts /\ timeouts' = timeouts + 1
  /\ UNCHANGED <<chan, held, laneVars>>

\* The caller's work is done; a second call of release does nothing.
Release(c) ==
  /\ At(c, "running") /\ To(c, "leaving")
  /\ UNCHANGED <<chan, held, laneVars, timeouts>>

-----------------------------------------------------------------------------
(* The cleanup, in its order *)

Order == <<"global", "laneSlot", "lane", "unfamiliar", "unfamiliarSlots", "totalSlots">>
First(c, k) ==
  \E i \in 1 .. 6 : Order[i] = k /\ k \in held[c] /\ \A j \in 1 .. i - 1 : Order[j] \notin held[c]

GiveBack(c) ==
  /\ At(c, "leaving")
  /\ \E k \in Channels :
       First(c, k) /\ Take(c, k) /\ IF k = "totalSlots" THEN To(c, "left") ELSE UNCHANGED pc
  /\ UNCHANGED <<laneVars, timeouts>>

LeaveLane(c) ==
  /\ At(c, "leaving") /\ First(c, "laneSlot")
  /\ sem' = [sem EXCEPT ![LaneOf(c)] = @ - 1]
  /\ held' = [held EXCEPT ![c] = @ \ {"laneSlot"}]
  /\ UNCHANGED <<chan, lanes, refs, made, lane, pc, timeouts>>

\* Under the mutex: the last reference takes the lane out of the map.
Forgotten_Always(l) == TRUE
Forgotten(l) == refs[l] = 1

releaseLane(c) ==
  LET d == DomainOf[c] l == LaneOf(c) IN
  /\ At(c, "leaving") /\ First(c, "lane")
  /\ held' = [held EXCEPT ![c] = @ \ {"lane"}]
  /\ IF lanes[d] = lane[c]
     THEN /\ refs' = [refs EXCEPT ![l] = @ - 1]
          /\ lanes' = IF Forgotten(l) THEN [lanes EXCEPT ![d] = NoLane] ELSE lanes
     ELSE UNCHANGED <<refs, lanes>>
  /\ UNCHANGED <<chan, sem, made, lane, pc, timeouts>>

Acquire(c) == \/ TryReserve(c) \/ TryReserveUnfamiliar(c) \/ retainLane(c) \/ AcquireLane(c)
              \/ AcquireUnfamiliar(c) \/ AcquireGlobal(c)
cleanup(c) == GiveBack(c) \/ LeaveLane(c) \/ releaseLane(c)

Proceed(c) == Acquire(c) \/ Release(c) \/ cleanup(c)

Next == \E c \in Callers : Proceed(c) \/ WaitTimeout(c)

Spec == Init /\ [][Next]_admissionVars

-----------------------------------------------------------------------------
(* Properties *)

Holders(k)  == {c \in Callers : k \in held[c]}
Inside(d)   == {c \in Callers : DomainOf[c] = d /\ "laneSlot" \in held[c]}
Settled(c)  == pc[c] \in {"left", "busy"}

\* What the channels and the lanes hold is what their holders hold, whichever
\* wait timed out: nothing is given back twice and nothing is kept.
SlotsBalanced ==
  /\ \A k \in Channels : chan[k] = Cardinality(Holders(k))
  /\ \A l \in Lanes : /\ refs[l] = Cardinality({c \in Holders("lane") : LaneOf(c) = l})
                      /\ sem[l] = Cardinality({c \in Holders("laneSlot") : LaneOf(c) = l})
  /\ \A c \in Callers : Settled(c) => held[c] = {}

\* An unfamiliar domain never has more than its share inside, although its
\* lane comes and goes (retainLane, releaseLane).
DomainBounded == \A d \in Domains \ Established : Cardinality(Inside(d)) <= PerDomain

\* Nobody who runs or waits refers to a lane the map no longer has.
LaneCurrent == \A c \in Holders("lane") : lanes[DomainOf[c]] = lane[c]
=============================================================================
