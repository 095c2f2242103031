------------------------------- MODULE IdGen -------------------------------
(***************************************************************************)
(* The 64-bit id generator of core/identity_so/idgen.go: time in           *)
(* milliseconds, worker number and a per-millisecond sequence, packed into *)
(* one integer.  One generator lives in each server process; any number of *)
(* goroutines call it and its mutex lets one in at a time.                 *)
(***************************************************************************)
EXTENDS Integers, Sequences, FiniteSets

CONSTANTS
  Gens,             \* the generators, one per process
  RawWorker,        \* [Gens -> Int], the worker number each one was given
  Callers,          \* goroutines that ask for ids
  EpochMs,          \* time zero of the ids
  SeqMax,           \* largest sequence number (2^12 - 1 in the code)
  WorkerMax,        \* largest worker number (2^10 - 1 in the code)
  TimeSpan,         \* number of values of the time field (2^42 in the code)
  StartMs,          \* the times the wall clock may show at the beginning
  MaxMs,            \* bound: last millisecond of the wall clock
  MaxIssued         \* bound: number of ids asked for

ASSUME FieldsAssumption ==
  /\ EpochMs \in Nat /\ MaxMs \in Nat /\ MaxIssued \in Nat
  /\ SeqMax \in Nat /\ WorkerMax \in Nat
  /\ TimeSpan \in Nat /\ TimeSpan > 1
  /\ MaxMs < EpochMs + TimeSpan        \* the time field does not wrap
  /\ StartMs \subseteq 0..MaxMs
  /\ RawWorker \in [Gens -> Int]
  /\ "none" \notin Callers

VARIABLES
  clock,     \* the wall clock, in ms
  back,      \* history: TRUE once the wall clock has been set back
  lastMs,    \* [Gens -> ms]: Generator.lastMs
  sequence,  \* [Gens -> 0..SeqMax+1]: Generator.sequence
  holder,    \* [Gens -> caller holding the mutex across steps, or "none"]
  pc,        \* [Callers -> "idle" | "waiting" | "spinning"]
  at,        \* [Callers -> the generator the caller is in]
  issued     \* history: <<time, worker, sequence>> of every id handed out

vars == <<clock, back, lastMs, sequence, holder, pc, at, issued>>

\* NewGenerator clamps the worker number into its field.
WorkerID(g) == IF RawWorker[g] < 0 THEN 0
               ELSE IF RawWorker[g] > WorkerMax THEN WorkerMax
               ELSE RawWorker[g]

\* The first clock reading of GetMachineID; times up to the epoch are replaced.
NowMs == IF clock <= EpochMs THEN EpochMs + 1 ELSE clock

\* Mutated form: the worker field is one value too narrow.
Pack_NarrowWorker(ms, w, s) == (((ms - EpochMs) % TimeSpan) * WorkerMax + w) * (SeqMax + 1) + s

\* The bit layout: the time field wraps, the fields are side by side.
Pack(ms, w, s) == (((ms - EpochMs) % TimeSpan) * (WorkerMax + 1) + w) * (SeqMax + 1) + s

Stamp == [ms : Nat, worker : 0..WorkerMax, seq : 0..SeqMax]

IdOf(st) == Pack(st.ms, st.worker, st.seq)

Init == /\ clock \in StartMs
        /\ back = FALSE
        /\ lastMs = [g \in Gens |-> 0]
        /\ sequence = [g \in Gens |-> 0]
        /\ holder = [g \in Gens |-> "none"]
        /\ pc = [c \in Callers |-> "idle"]
        /\ at \in [Callers -> Gens]
        /\ issued = << >>

-----------------------------------------------------------------------------
(* Callers.                                                                *)

\* A goroutine calls GetMachineID and waits for the mutex.
Call(c, g) ==
  /\ pc[c] = "idle"
  /\ Len(issued) + Cardinality({d \in Callers : pc[d] # "idle"}) < MaxIssued
  /\ pc' = [pc EXCEPT ![c] = "waiting"]
  /\ at' = [at EXCEPT ![c] = g]
  /\ UNCHANGED <<clock, back, lastMs, sequence, holder, issued>>

\* The last lines: the id is built from the generator's fields, mutex released.
Return(c, g, ms, s) ==
  /\ lastMs' = [lastMs EXCEPT ![g] = ms]
  /\ sequence' = [sequence EXCEPT ![g] = s]
  /\ issued' = Append(issued, [ms |-> ms, worker |-> WorkerID(g), seq |-> s])
  /\ pc' = [pc EXCEPT ![c] = "idle"]
  /\ holder' = [holder EXCEPT ![g] = "none"]

\* The millisecond differs from the last one: the sequence starts over.
NewMs(c) == LET g == at[c] IN
  /\ pc[c] = "waiting" /\ holder[g] = "none"
  /\ NowMs # lastMs[g]
  /\ Return(c, g, NowMs, 0)
  /\ UNCHANGED <<clock, back, at>>

\* Mutated form: the limit of the sequence is off by one.
SameMs_OffByOne(c) == LET g == at[c] IN
  /\ pc[c] = "waiting" /\ holder[g] = "none"
  /\ NowMs = lastMs[g]
  /\ sequence[g] + 1 <= SeqMax + 1
  /\ Return(c, g, lastMs[g], sequence[g] + 1)
  /\ UNCHANGED <<clock, back, at>>

\* Same millisecond, and the sequence has room.
SameMs(c) == LET g == at[c] IN
  /\ pc[c] = "waiting" /\ holder[g] = "none"
  /\ NowMs = lastMs[g]
  /\ sequence[g] + 1 <= SeqMax
  /\ Return(c, g, lastMs[g], sequence[g] + 1)
  /\ UNCHANGED <<clock, back, at>>

\* Same millisecond, sequence used up: keep the mutex and spin on the clock.
Exhausted(c) == LET g == at[c] IN
  /\ pc[c] = "waiting" /\ holder[g] = "none"
  /\ NowMs = lastMs[g]
  /\ sequence[g] + 1 > SeqMax
  /\ sequence' = [sequence EXCEPT ![g] = @ + 1]
  /\ holder' = [holder EXCEPT ![g] = c]
  /\ pc' = [pc EXCEPT ![c] = "spinning"]
  /\ UNCHANGED <<clock, back, lastMs, at, issued>>

\* Mutated form: the spin ends on the millisecond whose sequence is used up.
SpinEnd_TooEarly(c) == LET g == at[c] IN
  /\ pc[c] = "spinning"
  /\ clock >= lastMs[g]
  /\ Return(c, g, clock, 0)
  /\ UNCHANGED <<clock, back, at>>

\* Mutated form: an early return leaves the mutex locked.
SpinEnd_KeepsMutex(c) == LET g == at[c] IN
  /\ pc[c] = "spinning"
  /\ clock > lastMs[g]
  /\ lastMs' = [lastMs EXCEPT ![g] = clock]
  /\ sequence' = [sequence EXCEPT ![g] = 0]
  /\ issued' = Append(issued, [ms |-> clock, worker |-> WorkerID(g), seq |-> 0])
  /\ pc' = [pc EXCEPT ![c] = "idle"]
  /\ UNCHANGED <<clock, back, at, holder>>

\* The reading of the clock that ends the spin; it is not clamped to the epoch.
SpinEnd(c) == LET g == at[c] IN
  /\ pc[c] = "spinning"
  /\ clock > lastMs[g]
  /\ Return(c, g, clock, 0)
  /\ UNCHANGED <<clock, back, at>>

GetMachineID(c) == NewMs(c) \/ SameMs(c) \/ Exhausted(c) \/ SpinEnd(c)

-----------------------------------------------------------------------------
(* The environment.                                                        *)

Tick == /\ clock < MaxMs
        /\ clock' = clock + 1
        /\ UNCHANGED <<back, lastMs, sequence, holder, pc, at, issued>>

\* NTP or an operator sets the wall clock back; bound: once.
StepBack == /\ ~back
            /\ \E t \in 0..MaxMs : t < clock /\ clock' = t
            /\ back' = TRUE
            /\ UNCHANGED <<lastMs, sequence, holder, pc, at, issued>>

\* A process dies and comes back, later than the last id it gave: the
\* generator is new, and the calls that were inside the old one are gone.
Restart(g) ==
  /\ clock > lastMs[g]
  /\ lastMs[g] # 0
  /\ lastMs' = [lastMs EXCEPT ![g] = 0]
  /\ sequence' = [sequence EXCEPT ![g] = 0]
  /\ holder' = [holder EXCEPT ![g] = "none"]
  /\ pc' = [c \in Callers |-> IF at[c] = g THEN "idle" ELSE pc[c]]
  /\ UNCHANGED <<clock, back, at, issued>>

Next == \/ \E c \in Callers : GetMachineID(c) \/ \E g \in Gens : Call(c, g)
        \/ Tick
        \/ StepBack
        \/ \E g \in Gens : Restart(g)

Spec == Init /\ [][Next]_vars

\* The clock goes on; a goroutine that holds the mutex runs; and Go's mutex
\* hands over to the longest waiter after 1 ms, so no waiter is starved.
Fairness == /\ WF_vars(Tick)
            /\ \A c \in Callers : /\ WF_vars(SpinEnd(c))
                                  /\ SF_vars(NewMs(c) \/ SameMs(c) \/ Exhausted(c))

FairSpec == Spec /\ Fairness

-----------------------------------------------------------------------------
(* Properties.                                                             *)

\* The values every variable ranges over (the struct fields of Generator).
TypeOK == /\ clock \in 0..MaxMs
          /\ back \in BOOLEAN
          /\ lastMs \in [Gens -> Nat]
          /\ sequence \in [Gens -> 0..(SeqMax + 1)]
          /\ holder \in [Gens -> Callers \cup {"none"}]
          /\ pc \in [Callers -> {"idle", "waiting", "spinning"}]
          /\ at \in [Callers -> Gens]
          /\ issued \in Seq(Stamp)

\* "Generator produces unique 64-bit IDs" (idgen.go:24): across overflow of
\* the sequence, restarts and several processes, no id is handed out twice, as
\* long as the wall clock has not been set back.
UniqueIds == ~back =>
  \A j, k \in DOMAIN issued : IdOf(issued[j]) = IdOf(issued[k]) => j = k

\* Ids of different processes differ even when their clock is set back or they
\* restart: worker numbers keep them apart, whatever the other fields hold.
WorkersDisjoint == \A j, k \in DOMAIN issued :
  IdOf(issued[j]) = IdOf(issued[k]) => issued[j].worker = issued[k].worker

\* Ids of one process are handed out in increasing order, so that documents
\* sort by age on machine_id (the order computeProjectContentHash reads them).
AgeOrder == ~back =>
  \A j, k \in DOMAIN issued : j < k /\ issued[j].worker = issued[k].worker =>
    IdOf(issued[j]) < IdOf(issued[k])

\* The modelled clock stands at its bound, and caller c's generator has used up
\* the sequence of that millisecond.
OutOfTime(c) == clock = MaxMs /\ lastMs[at[c]] >= clock /\ sequence[at[c]] >= SeqMax

\* Every call returns, also when the sequence of its millisecond is used up and
\* when others spin with the mutex held.
EveryCallReturns == \A c \in Callers : pc[c] # "idle" ~> (pc[c] = "idle" \/ OutOfTime(c))

-----------------------------------------------------------------------------
(* The inductive invariant behind UniqueIds.                               *)

\* No two generators share a worker number.
DistinctWorkers == \A g, h \in Gens : WorkerID(g) = WorkerID(h) => g = h

\* A generator that has given an id since it started is not ahead of the clock.
NotAhead == \A g \in Gens : lastMs[g] <= NowMs

\* Every id given under g's worker number comes before the next one g gives.
Behind(st, g) ==
  \/ lastMs[g] > st.ms
  \/ lastMs[g] = st.ms /\ st.seq <= sequence[g]
  \/ lastMs[g] = 0 /\ st.ms < NowMs

AllBehind == \A k \in DOMAIN issued, g \in Gens :
               issued[k].worker = WorkerID(g) => Behind(issued[k], g)

\* The time field of every id lies in its 42 bits.
InTime == \A k \in DOMAIN issued : issued[k].ms \in (EpochMs + 1)..(EpochMs + TimeSpan - 1)

\* Later ids of a worker are later in time, or in sequence within a millisecond.
Before(s, t) == s.ms < t.ms \/ (s.ms = t.ms /\ s.seq < t.seq)

Ordered == \A j, k \in DOMAIN issued :
             j < k /\ issued[j].worker = issued[k].worker => Before(issued[j], issued[k])

\* Between calls the sequence fits its field.
SeqFits == \A g \in Gens : holder[g] = "none" => sequence[g] <= SeqMax

\* A caller that spins does so on a millisecond after the epoch.
SpinTime == \A c \in Callers : pc[c] = "spinning" => lastMs[at[c]] > EpochMs

\* What holds whatever the clock does, and what a clock that goes forward adds.
FieldInv == TypeOK /\ InTime /\ SeqFits /\ SpinTime
Timely   == NotAhead /\ AllBehind /\ Ordered

IInv == FieldInv /\ (~back => Timely)
=============================================================================
