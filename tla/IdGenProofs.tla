---------------------------- MODULE IdGenProofs ----------------------------
(***************************************************************************)
(* Proofs about the identity generator: with distinct worker numbers, and  *)
(* until the clock is set back, ids are unique and ordered by age, for     *)
(* every number of processes, goroutines and field widths.                 *)
(***************************************************************************)
EXTENDS IdGen, TLAPS

\* Division with remainder is unique: two fields that sit side by side in one
\* number can be read back.  (The shift-and-or at the end of GetMachineID.)
LEMMA FieldsApart ==
  ASSUME NEW a \in Nat, NEW b \in Nat, NEW n \in Nat,
         NEW x \in 0..(n - 1), NEW y \in 0..(n - 1),
         a < b
  PROVE  a * n + x < b * n + y
<1>1. PICK d \in Nat : b = a + 1 + d
  <2>1. b - a - 1 \in Nat
    OBVIOUS
  <2>2. QED
    BY <2>1
<1>2. b * n = a * n + n + d * n
  BY <1>1
<1>3. d * n >= 0
  BY <1>1
<1>4. a * n \in Int /\ b * n \in Int /\ d * n \in Int
  BY <1>1
<1>5. QED
  BY <1>2, <1>3, <1>4

\* Ids whose time field is in range are ordered as (time, worker, sequence).
LEMMA PackOrder ==
  ASSUME NEW s \in Stamp, NEW t \in Stamp,
         s.ms \in (EpochMs + 1)..(EpochMs + TimeSpan - 1),
         t.ms \in (EpochMs + 1)..(EpochMs + TimeSpan - 1)
  PROVE  /\ s.ms < t.ms => IdOf(s) < IdOf(t)
         /\ s.ms = t.ms /\ s.worker < t.worker => IdOf(s) < IdOf(t)
         /\ s.ms = t.ms /\ s.worker = t.worker /\ s.seq < t.seq => IdOf(s) < IdOf(t)
         /\ IdOf(s) \in Nat
<1> DEFINE ts == s.ms - EpochMs
           tt == t.ms - EpochMs
           W  == WorkerMax + 1
           Q  == SeqMax + 1
<1>1. /\ EpochMs \in Nat /\ SeqMax \in Nat /\ WorkerMax \in Nat
      /\ TimeSpan \in Nat /\ TimeSpan > 1
  BY FieldsAssumption
<1>2. /\ s.ms \in Nat /\ s.worker \in 0..(W - 1) /\ s.seq \in 0..(Q - 1)
      /\ t.ms \in Nat /\ t.worker \in 0..(W - 1) /\ t.seq \in 0..(Q - 1)
  BY <1>1 DEF Stamp
<1>3. ts \in 0..(TimeSpan - 1) /\ tt \in 0..(TimeSpan - 1)
  BY <1>1
<1>4. ts % TimeSpan = ts /\ tt % TimeSpan = tt
  BY <1>1, <1>3
<1>5. /\ IdOf(s) = (ts * W + s.worker) * Q + s.seq
      /\ IdOf(t) = (tt * W + t.worker) * Q + t.seq
  BY <1>4 DEF IdOf, Pack
<1> DEFINE us == ts * W + s.worker
           ut == tt * W + t.worker
<1>6. W \in Nat /\ Q \in Nat /\ ts \in Nat /\ tt \in Nat
  BY <1>1, <1>3
<1>7. us \in Nat /\ ut \in Nat
  <2>1. ts * W \in Nat /\ tt * W \in Nat
    BY <1>6
  <2>2. QED
    BY <2>1, <1>2, <1>6
<1>8. us < ut => IdOf(s) < IdOf(t)
  <2> HIDE DEF us, ut, ts, tt, W
  <2>1. ASSUME us < ut PROVE us * Q + s.seq < ut * Q + t.seq
    BY <2>1, <1>2, <1>6, <1>7, FieldsApart
  <2>2. QED
    BY <2>1, <1>5 DEF us, ut
<1>9. s.ms < t.ms => us < ut
  <2>1. ASSUME s.ms < t.ms PROVE ts < tt
    BY <2>1, <1>1, <1>2
  <2> HIDE DEF ts, tt, W
  <2>2. ASSUME ts < tt PROVE ts * W + s.worker < tt * W + t.worker
    BY <2>2, <1>2, <1>6, FieldsApart
  <2>3. QED
    BY <2>1, <2>2 DEF us, ut
<1>10. s.ms = t.ms /\ s.worker < t.worker => us < ut
  <2>1. ts * W \in Nat
    BY <1>6
  <2>2. QED
    BY <2>1, <1>2, <1>6
<1>11. s.ms = t.ms /\ s.worker = t.worker => us = ut
  OBVIOUS
<1>12. us * Q \in Nat /\ ut * Q \in Nat
  <2> HIDE DEF us, ut, Q
  <2>1. QED
    BY <1>6, <1>7
<1>13. s.ms = t.ms /\ s.worker = t.worker /\ s.seq < t.seq => IdOf(s) < IdOf(t)
  <2> HIDE DEF us, ut, Q
  <2>1. QED
    BY <1>5, <1>11, <1>12, <1>2 DEF us, ut
<1>14. IdOf(s) \in Nat
  <2>1. IdOf(s) = us * Q + s.seq
    BY <1>5
  <2> HIDE DEF us, Q
  <2>2. QED
    BY <2>1, <1>12, <1>2, <1>6
<1>15. QED
  BY <1>8, <1>9, <1>10, <1>13, <1>14

\* Stamps of different workers are packed into different ids.
LEMMA OtherWorker ==
  ASSUME NEW s \in Stamp, NEW t \in Stamp,
         s.ms \in (EpochMs + 1)..(EpochMs + TimeSpan - 1),
         t.ms \in (EpochMs + 1)..(EpochMs + TimeSpan - 1),
         s.worker # t.worker
  PROVE  IdOf(s) # IdOf(t)
<1>1. s.ms \in Nat /\ t.ms \in Nat /\ s.worker \in Int /\ t.worker \in Int
  BY FieldsAssumption DEF Stamp
<1>2. IdOf(s) \in Nat /\ IdOf(t) \in Nat
  BY PackOrder
<1>3. CASE s.ms < t.ms
  BY <1>2, <1>3, PackOrder
<1>4. CASE t.ms < s.ms
  BY <1>2, <1>4, PackOrder
<1>5. CASE s.ms = t.ms /\ s.worker < t.worker
  BY <1>2, <1>5, PackOrder
<1>6. CASE s.ms = t.ms /\ t.worker < s.worker
  BY <1>2, <1>6, PackOrder
<1>7. QED
  BY <1>1, <1>3, <1>4, <1>5, <1>6

-----------------------------------------------------------------------------
(* The inductive invariant.                                                *)

\* A worker number always fits its field (the clamping in NewGenerator).
LEMMA WorkerFits == \A g \in Gens : WorkerID(g) \in 0..WorkerMax
BY FieldsAssumption DEF WorkerID

\* The invariant holds when the process starts.
LEMMA InitInv == Init => IInv
<1>1. SUFFICES ASSUME Init PROVE IInv
  OBVIOUS
<1>2. TypeOK
  <2>1. back \in BOOLEAN
    BY <1>1, Zenon DEF Init
  <2>2. QED
    BY <1>1, <2>1, FieldsAssumption DEF Init, TypeOK
<1>3. NotAhead
  BY <1>1, FieldsAssumption DEF Init, NotAhead, NowMs
<1>4. AllBehind /\ InTime /\ Ordered /\ SeqFits /\ SpinTime
  BY <1>1, FieldsAssumption DEF Init, AllBehind, InTime, Ordered, SeqFits, SpinTime
<1>5. QED
  BY <1>2, <1>3, <1>4 DEF IInv, FieldInv, Timely

-----------------------------------------------------------------------------
(* The fields, whatever the clock does.                                    *)

\* Handing out <<ms, s>> appends one stamp to the history.
LEMMA ReturnAppends ==
  ASSUME TypeOK, NEW c \in Callers, NEW g \in Gens, NEW ms \in Nat, NEW s \in 0..SeqMax,
         Return(c, g, ms, s)
  PROVE  /\ issued' \in Seq(Stamp)
         /\ Len(issued') = Len(issued) + 1
         /\ Len(issued) \in Nat
         /\ DOMAIN issued = 1..Len(issued)
         /\ DOMAIN issued' = 1..(Len(issued) + 1)
         /\ \A k \in DOMAIN issued : issued'[k] = issued[k] /\ issued[k] \in Stamp
         /\ issued'[Len(issued) + 1] = [ms |-> ms, worker |-> WorkerID(g), seq |-> s]
<1>1. [ms |-> ms, worker |-> WorkerID(g), seq |-> s] \in Stamp
  BY WorkerFits DEF Stamp
<1>2. issued \in Seq(Stamp)
  BY DEF TypeOK
<1>3. issued' = Append(issued, [ms |-> ms, worker |-> WorkerID(g), seq |-> s])
  BY DEF Return
<1>4. QED
  BY <1>1, <1>2, <1>3

\* Handing out an id whose time is in range keeps the fields.
LEMMA ReturnFields ==
  ASSUME FieldInv,
         NEW c \in Callers, NEW g \in Gens, NEW ms \in Nat, NEW s \in 0..SeqMax,
         Return(c, g, ms, s), UNCHANGED <<clock, back, at>>,
         ms \in (EpochMs + 1)..(EpochMs + TimeSpan - 1)
  PROVE  FieldInv'
<1>1. TypeOK /\ InTime /\ SeqFits /\ SpinTime
  BY DEF FieldInv
<1>2. TypeOK'
  <2>1. s \in 0..(SeqMax + 1)
    BY FieldsAssumption
  <2>2. issued' \in Seq(Stamp)
    BY <1>1, ReturnAppends
  <2>3. QED
    BY <1>1, <2>1, <2>2 DEF TypeOK, Return
<1>3. InTime'
  <2>1. /\ DOMAIN issued = 1..Len(issued)
        /\ Len(issued) \in Nat
        /\ DOMAIN issued' = 1..(Len(issued) + 1)
        /\ \A k \in DOMAIN issued : issued'[k] = issued[k]
        /\ issued'[Len(issued) + 1] = [ms |-> ms, worker |-> WorkerID(g), seq |-> s]
    BY <1>1, ReturnAppends
  <2>2. QED
    BY <1>1, <2>1 DEF InTime
<1>4. SpinTime'
  <2>1. SUFFICES ASSUME NEW d \in Callers, pc'[d] = "spinning"
                 PROVE  lastMs'[at'[d]] > EpochMs
    BY DEF SpinTime
  <2>2. pc[d] = "spinning" /\ at'[d] = at[d] /\ at[d] \in Gens
    BY <2>1, <1>1 DEF Return, TypeOK
  <2>3. lastMs' = [lastMs EXCEPT ![g] = ms]
    BY DEF Return
  <2>4. CASE at[d] = g
    BY <2>2, <2>3, <2>4, <1>1, FieldsAssumption DEF TypeOK
  <2>5. CASE at[d] # g
    BY <2>2, <2>3, <2>5, <1>1 DEF TypeOK, SpinTime
  <2>6. QED
    BY <2>4, <2>5
<1>5. SeqFits'
  BY <1>1, FieldsAssumption DEF SeqFits, Return, TypeOK
<1>6. QED
  BY <1>2, <1>3, <1>4, <1>5 DEF FieldInv

\* The clamped reading of the clock fits the time field.
LEMMA NowInTime == TypeOK => NowMs \in (EpochMs + 1)..(EpochMs + TimeSpan - 1)
BY FieldsAssumption DEF NowMs, TypeOK

\* Every step keeps the fields, also one that sets the clock back.
LEMMA FieldStep == FieldInv /\ [Next]_vars => FieldInv'
<1>1. SUFFICES ASSUME FieldInv, [Next]_vars PROVE FieldInv'
  OBVIOUS
<1>2. TypeOK /\ InTime /\ SeqFits /\ SpinTime
  BY <1>1 DEF FieldInv
<1>3. NowMs \in (EpochMs + 1)..(EpochMs + TimeSpan - 1)
  BY <1>2, NowInTime
<1>4. 0 \in 0..SeqMax
  BY FieldsAssumption
<1>5. ASSUME NEW c \in Callers, NewMs(c)
      PROVE  FieldInv'
  <2>1. at[c] \in Gens /\ NowMs \in Nat
    BY <1>2, <1>3, FieldsAssumption DEF TypeOK
  <2>2. Return(c, at[c], NowMs, 0) /\ UNCHANGED <<clock, back, at>>
    BY <1>5 DEF NewMs
  <2>3. QED
    BY <1>1, <1>3, <1>4, <2>1, <2>2, ReturnFields
<1>6. ASSUME NEW c \in Callers, SameMs(c)
      PROVE  FieldInv'
  <2>1. /\ at[c] \in Gens /\ lastMs[at[c]] \in Nat
        /\ lastMs[at[c]] = NowMs
        /\ sequence[at[c]] + 1 \in 0..SeqMax
    BY <1>2, <1>6, FieldsAssumption DEF TypeOK, SameMs
  <2>2. Return(c, at[c], lastMs[at[c]], sequence[at[c]] + 1) /\ UNCHANGED <<clock, back, at>>
    BY <1>6 DEF SameMs
  <2>3. QED
    BY <1>1, <1>3, <2>1, <2>2, ReturnFields
<1>7. ASSUME NEW c \in Callers, SpinEnd(c)
      PROVE  FieldInv'
  <2>1. /\ at[c] \in Gens /\ clock \in Nat
        /\ clock \in (EpochMs + 1)..(EpochMs + TimeSpan - 1)
    BY <1>2, <1>7, FieldsAssumption DEF TypeOK, SpinTime, SpinEnd
  <2>2. Return(c, at[c], clock, 0) /\ UNCHANGED <<clock, back, at>>
    BY <1>7 DEF SpinEnd
  <2>3. QED
    BY <1>1, <1>4, <2>1, <2>2, ReturnFields
<1>8. ASSUME NEW c \in Callers, Exhausted(c)
      PROVE  FieldInv'
  <2>1. at[c] \in Gens
    BY <1>2 DEF TypeOK
  <2>2. TypeOK'
    BY <2>1, <1>2, <1>8, FieldsAssumption DEF TypeOK, SeqFits, Exhausted
  <2>3. InTime'
    BY <1>2, <1>8 DEF InTime, Exhausted
  <2>4. SeqFits'
    BY <2>1, <1>2, <1>8, FieldsAssumption DEF SeqFits, Exhausted, TypeOK
  <2>5. SpinTime'
    <3>1. lastMs[at[c]] > EpochMs
      BY <1>3, <1>8, FieldsAssumption DEF Exhausted
    <3>2. QED
      BY <3>1, <1>2, <1>8 DEF SpinTime, Exhausted, TypeOK
  <2>6. QED
    BY <2>2, <2>3, <2>4, <2>5 DEF FieldInv
<1>9. ASSUME NEW c \in Callers, NEW g \in Gens, Call(c, g)
      PROVE  FieldInv'
  <2>1. TypeOK'
    BY <1>2, <1>9 DEF TypeOK, Call
  <2>2. SpinTime'
    BY <1>2, <1>9 DEF SpinTime, TypeOK, Call
  <2>3. InTime' /\ SeqFits'
    BY <1>2, <1>9 DEF InTime, SeqFits, Call
  <2>4. QED
    BY <2>1, <2>2, <2>3 DEF FieldInv
<1>10. CASE Tick \/ StepBack
  <2>1. TypeOK'
    <3>1. back' \in BOOLEAN
      BY <1>2, <1>10, Zenon DEF TypeOK, Tick, StepBack
    <3>2. clock' \in 0..MaxMs
      BY <1>2, <1>10, FieldsAssumption DEF TypeOK, Tick, StepBack
    <3>3. UNCHANGED <<lastMs, sequence, holder, pc, at, issued>>
      BY <1>10 DEF Tick, StepBack
    <3>4. QED
      BY <1>2, <3>1, <3>2, <3>3 DEF TypeOK
  <2>2. InTime' /\ SeqFits' /\ SpinTime'
    BY <1>2, <1>10 DEF InTime, SeqFits, SpinTime, Tick, StepBack
  <2>3. QED
    BY <2>1, <2>2 DEF FieldInv
<1>11. ASSUME NEW g \in Gens, Restart(g)
       PROVE  FieldInv'
  <2>1. TypeOK'
    BY <1>2, <1>11, FieldsAssumption DEF TypeOK, Restart
  <2>2. SpinTime'
    BY <1>2, <1>11 DEF SpinTime, Restart, TypeOK
  <2>3. InTime' /\ SeqFits'
    BY <1>2, <1>11, FieldsAssumption DEF InTime, SeqFits, Restart, TypeOK
  <2>4. QED
    BY <2>1, <2>2, <2>3 DEF FieldInv
<1>12. CASE UNCHANGED vars
  BY <1>2, <1>12 DEF FieldInv, TypeOK, InTime, SeqFits, SpinTime, vars
<1>13. QED
  BY <1>1, <1>5, <1>6, <1>7, <1>8, <1>9, <1>10, <1>11, <1>12 DEF Next, GetMachineID

-----------------------------------------------------------------------------
(* The order of ids, while the clock goes forward.                         *)

\* Handing out <<ms, s>> keeps the order when the pair comes after every id of
\* the same worker and ms is not ahead of the clock.
LEMMA ReturnTimely ==
  ASSUME DistinctWorkers, FieldInv, Timely,
         NEW c \in Callers, NEW g \in Gens, NEW ms \in Nat, NEW s \in 0..SeqMax,
         Return(c, g, ms, s), UNCHANGED <<clock, back, at>>,
         ms <= NowMs,
         \A k \in DOMAIN issued : issued[k].worker = WorkerID(g) =>
             issued[k].ms < ms \/ (issued[k].ms = ms /\ issued[k].seq < s)
  PROVE  Timely'
<1> DEFINE st == [ms |-> ms, worker |-> WorkerID(g), seq |-> s]
<1>1. TypeOK /\ NotAhead /\ AllBehind /\ Ordered
  BY DEF FieldInv, Timely
<1>4. /\ DOMAIN issued = 1..Len(issued)
      /\ Len(issued) \in Nat
      /\ DOMAIN issued' = 1..(Len(issued) + 1)
      /\ \A k \in DOMAIN issued : issued'[k] = issued[k] /\ issued[k] \in Stamp
      /\ issued'[Len(issued) + 1] = st
  BY <1>1, ReturnAppends
<1>5. /\ lastMs' = [lastMs EXCEPT ![g] = ms]
      /\ sequence' = [sequence EXCEPT ![g] = s]
      /\ clock' = clock /\ NowMs' = NowMs
  BY DEF Return, NowMs
<1>7. NotAhead'
  BY <1>1, <1>5 DEF NotAhead, TypeOK
<1>8. AllBehind'
  <2>1. SUFFICES ASSUME NEW k \in DOMAIN issued', NEW h \in Gens,
                        issued'[k].worker = WorkerID(h)
                 PROVE  Behind(issued[k], h)'
    BY <1>5 DEF AllBehind, Behind
  <2>2. CASE k \in DOMAIN issued /\ h = g
    <3>1. lastMs'[h] = ms /\ sequence'[h] = s
      BY <2>2, <1>1, <1>5 DEF TypeOK
    <3>2. issued'[k] = issued[k] /\ issued[k] \in Stamp
      BY <2>2, <1>4
    <3>3. issued[k].ms < ms \/ (issued[k].ms = ms /\ issued[k].seq < s)
      BY <2>1, <2>2, <3>2
    <3>4. issued[k].seq \in Nat /\ issued[k].ms \in Nat /\ s \in Nat
      BY <3>2, FieldsAssumption DEF Stamp
    <3>5. QED
      BY <3>1, <3>2, <3>3, <3>4 DEF Behind
  <2>3. CASE k \in DOMAIN issued /\ h # g
    <3>1. Behind(issued[k], h)
      BY <2>1, <2>3, <1>1, <1>4 DEF AllBehind
    <3>2. lastMs'[h] = lastMs[h] /\ sequence'[h] = sequence[h]
      BY <2>3, <1>1, <1>5 DEF TypeOK
    <3>3. issued'[k] = issued[k]
      BY <2>3, <1>4
    <3>4. QED
      BY <3>1, <3>2, <3>3, <1>5 DEF Behind
  <2>4. CASE k = Len(issued) + 1
    <3>1. h = g
      BY <2>1, <2>4, <1>4 DEF DistinctWorkers
    <3>2. lastMs'[h] = ms /\ sequence'[h] = s
      BY <3>1, <1>1, <1>5 DEF TypeOK
    <3>3. issued'[k].ms = ms /\ issued'[k].seq = s /\ s \in Nat
      BY <2>4, <1>4, FieldsAssumption
    <3>4. QED
      BY <3>2, <3>3 DEF Behind
  <2>5. QED
    BY <2>2, <2>3, <2>4, <1>4
<1>10. Ordered'
  <2>1. SUFFICES ASSUME NEW j \in DOMAIN issued', NEW k \in DOMAIN issued',
                        j < k, issued'[j].worker = issued'[k].worker
                 PROVE  Before(issued'[j], issued'[k])
    BY DEF Ordered
  <2>2. j \in DOMAIN issued
    BY <2>1, <1>4
  <2>3. CASE k \in DOMAIN issued
    BY <2>1, <2>2, <2>3, <1>1, <1>4 DEF Ordered
  <2>4. CASE k = Len(issued) + 1
    BY <2>1, <2>2, <2>4, <1>4 DEF Before
  <2>5. QED
    BY <2>3, <2>4, <1>4
<1>13. QED
  BY <1>7, <1>8, <1>10 DEF Timely

\* Every step keeps the order, as long as the clock has not been set back.
LEMMA TimelyStep ==
  DistinctWorkers /\ FieldInv /\ Timely /\ ~back' /\ [Next]_vars => Timely'
<1>1. SUFFICES ASSUME DistinctWorkers, FieldInv, Timely, ~back', [Next]_vars
               PROVE  Timely'
  OBVIOUS
<1>2. TypeOK /\ NotAhead /\ AllBehind /\ InTime /\ Ordered /\ SeqFits /\ SpinTime
  BY <1>1 DEF FieldInv, Timely
<1>3. NowMs \in (EpochMs + 1)..(EpochMs + TimeSpan - 1)
  BY <1>2, NowInTime
<1>4. \A k \in DOMAIN issued : issued[k] \in Stamp
  BY <1>2 DEF TypeOK
<1>5. ASSUME NEW c \in Callers, NewMs(c)
      PROVE  Timely'
  <2> DEFINE g == at[c]
  <2>1. g \in Gens /\ lastMs[g] \in Nat /\ NowMs \in Nat
    BY <1>2, <1>3, FieldsAssumption DEF TypeOK
  <2>2. \A k \in DOMAIN issued : issued[k].worker = WorkerID(g) => issued[k].ms < NowMs
    <3>1. lastMs[g] < NowMs
      BY <1>2, <1>5, <2>1 DEF NotAhead, NewMs
    <3>2. QED
      BY <3>1, <2>1, <1>2, <1>4 DEF AllBehind, Behind, Stamp
  <2>3. Return(c, g, NowMs, 0) /\ UNCHANGED <<clock, back, at>>
    BY <1>5 DEF NewMs
  <2>4. 0 \in 0..SeqMax
    BY FieldsAssumption
  <2>5. QED
    BY <1>1, <1>3, <2>1, <2>2, <2>3, <2>4, ReturnTimely
<1>6. ASSUME NEW c \in Callers, SameMs(c)
      PROVE  Timely'
  <2> DEFINE g == at[c]
             s == sequence[g] + 1
  <2>1. /\ g \in Gens /\ lastMs[g] \in Nat
        /\ lastMs[g] = NowMs /\ NowMs > 0
        /\ s \in 0..SeqMax
    BY <1>2, <1>3, <1>6, FieldsAssumption DEF TypeOK, SameMs
  <2>2. \A k \in DOMAIN issued : issued[k].worker = WorkerID(g) =>
           issued[k].ms < lastMs[g] \/ (issued[k].ms = lastMs[g] /\ issued[k].seq < s)
    BY <2>1, <1>2, <1>4 DEF AllBehind, Behind, Stamp, TypeOK
  <2>3. Return(c, g, lastMs[g], s) /\ UNCHANGED <<clock, back, at>>
    BY <1>6 DEF SameMs
  <2>4. lastMs[g] <= NowMs
    BY <2>1
  <2> HIDE DEF s, g
  <2>5. QED
    BY <1>1, <1>3, <2>1, <2>2, <2>3, <2>4, ReturnTimely
<1>7. ASSUME NEW c \in Callers, SpinEnd(c)
      PROVE  Timely'
  <2> DEFINE g == at[c]
  <2>1. g \in Gens /\ lastMs[g] \in Nat /\ clock \in Nat /\ clock > lastMs[g]
    BY <1>2, <1>7, FieldsAssumption DEF TypeOK, SpinEnd
  <2>2. clock > EpochMs
    BY <2>1, <1>2, <1>7, FieldsAssumption DEF SpinTime, SpinEnd, TypeOK
  <2>3. NowMs = clock
    BY <2>1, <2>2, FieldsAssumption DEF NowMs
  <2>4. \A k \in DOMAIN issued : issued[k].worker = WorkerID(g) => issued[k].ms < clock
    BY <2>1, <2>3, <1>2, <1>4 DEF AllBehind, Behind, Stamp
  <2>5. Return(c, g, clock, 0) /\ UNCHANGED <<clock, back, at>>
    BY <1>7 DEF SpinEnd
  <2>6. 0 \in 0..SeqMax
    BY FieldsAssumption
  <2>7. QED
    BY <1>1, <1>3, <2>1, <2>3, <2>4, <2>5, <2>6, ReturnTimely
<1>8. ASSUME NEW c \in Callers, Exhausted(c)
      PROVE  Timely'
  <2>1. \A h \in Gens : sequence[h] <= sequence'[h] /\ sequence[h] \in Nat /\ sequence'[h] \in Nat
    BY <1>2, <1>8, FieldsAssumption DEF TypeOK, Exhausted
  <2>2. AllBehind'
    <3>1. SUFFICES ASSUME NEW k \in DOMAIN issued, NEW h \in Gens, Behind(issued[k], h)
                   PROVE  Behind(issued[k], h)'
      BY <1>2, <1>8 DEF AllBehind, Exhausted
    <3>2. issued[k].seq \in Nat
      BY <1>4, FieldsAssumption DEF Stamp
    <3>3. lastMs' = lastMs /\ clock' = clock /\ issued' = issued
      BY <1>8 DEF Exhausted
    <3>4. QED
      BY <2>1, <3>1, <3>2, <3>3 DEF Behind, NowMs
  <2>3. NotAhead' /\ Ordered'
    BY <1>2, <1>8 DEF NotAhead, Ordered, Exhausted, NowMs
  <2>4. QED
    BY <2>2, <2>3 DEF Timely
<1>9. ASSUME NEW c \in Callers, NEW g \in Gens, Call(c, g)
      PROVE  Timely'
  BY <1>2, <1>9 DEF Timely, NotAhead, AllBehind, Behind, Ordered, Call, NowMs
<1>10. CASE Tick
  <2>1. NowMs <= NowMs' /\ NowMs \in Nat /\ NowMs' \in Nat
    BY <1>2, <1>10, FieldsAssumption DEF TypeOK, Tick, NowMs
  <2>2. NotAhead'
    BY <2>1, <1>2, <1>10 DEF NotAhead, Tick, TypeOK
  <2>3. AllBehind'
    <3>1. SUFFICES ASSUME NEW k \in DOMAIN issued, NEW h \in Gens, Behind(issued[k], h)
                   PROVE  Behind(issued[k], h)'
      BY <1>2, <1>10 DEF AllBehind, Tick
    <3>2. issued[k].ms \in Nat
      BY <1>4 DEF Stamp
    <3>3. QED
      BY <3>1, <3>2, <2>1, <1>10 DEF Behind, Tick
  <2>4. Ordered'
    BY <1>2, <1>10 DEF Ordered, Tick
  <2>5. QED
    BY <2>2, <2>3, <2>4 DEF Timely
<1>11. ASSUME NEW g \in Gens, Restart(g)
       PROVE  Timely'
  <2>1. NotAhead'
    BY <1>2, <1>3, <1>11, FieldsAssumption DEF NotAhead, Restart, TypeOK, NowMs
  <2>2. AllBehind'
    <3>1. SUFFICES ASSUME NEW k \in DOMAIN issued, NEW h \in Gens, Behind(issued[k], h)
                   PROVE  Behind(issued[k], h)'
      BY <1>2, <1>11 DEF AllBehind, Restart
    <3>2. CASE h # g
      BY <3>1, <3>2, <1>2, <1>11 DEF Behind, Restart, TypeOK, NowMs
    <3>3. CASE h = g
      <4>1. issued[k].ms \in Nat /\ lastMs[g] \in Nat /\ clock \in Nat
        BY <1>2, <1>4, FieldsAssumption DEF Stamp, TypeOK
      <4>2. lastMs[g] < NowMs
        BY <4>1, <1>11, FieldsAssumption DEF Restart, NowMs
      <4>3. issued[k].ms < NowMs
        BY <3>1, <3>3, <4>1, <4>2, <1>3, FieldsAssumption DEF Behind
      <4>4. lastMs'[g] = 0 /\ NowMs' = NowMs /\ issued' = issued
        BY <1>2, <1>11 DEF Restart, TypeOK, NowMs
      <4>5. QED
        BY <3>3, <4>3, <4>4 DEF Behind
    <3>4. QED
      BY <3>2, <3>3
  <2>3. Ordered'
    BY <1>2, <1>11 DEF Ordered, Restart
  <2>4. QED
    BY <2>1, <2>2, <2>3 DEF Timely
<1>12. CASE UNCHANGED vars
  BY <1>2, <1>12 DEF Timely, NotAhead, AllBehind, Behind, Ordered, NowMs, vars
<1>13. CASE StepBack
  BY <1>1, <1>13 DEF StepBack
<1>14. QED
  BY <1>1, <1>5, <1>6, <1>7, <1>8, <1>9, <1>10, <1>11, <1>12, <1>13 DEF Next, GetMachineID

\* Until the clock is set back it has not been.
LEMMA BackStays == ASSUME [Next]_vars, ~back' PROVE ~back
<1>1. CASE UNCHANGED vars
  BY <1>1 DEF vars
<1>2. CASE \E c \in Callers : GetMachineID(c) \/ \E g \in Gens : Call(c, g)
  BY <1>2 DEF GetMachineID, NewMs, SameMs, Exhausted, SpinEnd, Call
<1>3. CASE Tick \/ StepBack \/ \E g \in Gens : Restart(g)
  BY <1>3 DEF Tick, StepBack, Restart
<1>4. QED
  BY <1>1, <1>2, <1>3 DEF Next

-----------------------------------------------------------------------------
(* The theorems.                                                           *)

\* The fields keep their ranges; worker numbers of their own and a clock that
\* has not been set back keep the order of the ids.
LEMMA InvHolds ==
  ASSUME DistinctWorkers
  PROVE  Spec => []IInv
<1>1. IInv /\ [Next]_vars => IInv'
  <2>1. SUFFICES ASSUME IInv, [Next]_vars PROVE IInv'
    OBVIOUS
  <2>2. FieldInv'
    BY <2>1, FieldStep DEF IInv
  <2>3. ~back' => Timely'
    BY <2>1, TimelyStep, BackStays DEF IInv
  <2>4. QED
    BY <2>2, <2>3 DEF IInv
<1>2. QED
  BY InitInv, <1>1, PTL DEF Spec

\* The fields keep their ranges whatever the clock and the worker numbers do.
LEMMA FieldsHold == Spec => []FieldInv
<1>1. Init => FieldInv
  BY InitInv DEF IInv
<1>2. FieldInv /\ [Next]_vars => FieldInv'
  BY FieldStep
<1>3. QED
  BY <1>1, <1>2, PTL DEF Spec

\* Every variable of a generator stays within its type (idgen.go:25-30), for
\* any worker numbers, and also when the clock is set back.
THEOREM TypeCorrect == Spec => []TypeOK
<1>1. FieldInv => TypeOK
  BY DEF FieldInv
<1>2. QED
  BY FieldsHold, <1>1, PTL

\* Ids of different workers differ, also when the clock is set back: the
\* fields stay apart in the packed integer.
THEOREM Disjoint == Spec => []WorkersDisjoint
<1>1. FieldInv => WorkersDisjoint
  <2>1. SUFFICES ASSUME FieldInv, NEW j \in DOMAIN issued, NEW k \in DOMAIN issued,
                        issued[j].worker # issued[k].worker
                 PROVE  IdOf(issued[j]) # IdOf(issued[k])
    BY DEF WorkersDisjoint
  <2>2. /\ issued[j] \in Stamp /\ issued[k] \in Stamp
        /\ issued[j].ms \in (EpochMs + 1)..(EpochMs + TimeSpan - 1)
        /\ issued[k].ms \in (EpochMs + 1)..(EpochMs + TimeSpan - 1)
    BY <2>1 DEF FieldInv, TypeOK, InTime
  <2>3. QED
    BY <2>1, <2>2, OtherWorker
<1>2. QED
  BY FieldsHold, <1>1, PTL

\* "Generator produces unique 64-bit IDs" (idgen.go:24) and they are ordered by
\* age within a worker: the invariant implies both.
LEMMA InvAgeOrder == IInv => AgeOrder
<1>1. SUFFICES ASSUME IInv, ~back, NEW j \in DOMAIN issued, NEW k \in DOMAIN issued,
                      j < k, issued[j].worker = issued[k].worker
               PROVE  IdOf(issued[j]) < IdOf(issued[k])
  BY DEF AgeOrder
<1>2. /\ issued[j] \in Stamp /\ issued[k] \in Stamp
      /\ issued[j].ms \in (EpochMs + 1)..(EpochMs + TimeSpan - 1)
      /\ issued[k].ms \in (EpochMs + 1)..(EpochMs + TimeSpan - 1)
      /\ Before(issued[j], issued[k])
  BY <1>1 DEF IInv, FieldInv, Timely, TypeOK, InTime, Ordered
<1>3. QED
  BY <1>1, <1>2, PackOrder DEF Before

\* No two positions of the history carry the same id.
LEMMA InvUnique == IInv => UniqueIds
<1>1. SUFFICES ASSUME IInv, ~back, NEW j \in DOMAIN issued, NEW k \in DOMAIN issued,
                      j < k
               PROVE  IdOf(issued[j]) # IdOf(issued[k])
  <2>1. SUFFICES ASSUME IInv, ~back, NEW j \in DOMAIN issued, NEW k \in DOMAIN issued, j # k
                 PROVE  IdOf(issued[j]) # IdOf(issued[k])
    BY DEF UniqueIds
  <2>2. j \in Int /\ k \in Int
    <3>1. issued \in Seq(Stamp)
      BY <2>1 DEF IInv, FieldInv, TypeOK
    <3>2. DOMAIN issued = 1..Len(issued) /\ Len(issued) \in Nat
      BY <3>1
    <3>3. QED
      BY <2>1, <3>2
  <2>3. j < k \/ k < j
    BY <2>1, <2>2
  <2>4. QED
    BY <1>1, <2>1, <2>3
<1>2. /\ issued[j] \in Stamp /\ issued[k] \in Stamp
      /\ issued[j].ms \in (EpochMs + 1)..(EpochMs + TimeSpan - 1)
      /\ issued[k].ms \in (EpochMs + 1)..(EpochMs + TimeSpan - 1)
  BY <1>1 DEF IInv, FieldInv, TypeOK, InTime
<1>3. CASE issued[j].worker = issued[k].worker
  <2>1. IdOf(issued[j]) < IdOf(issued[k])
    BY <1>1, <1>3, InvAgeOrder DEF AgeOrder
  <2>2. IdOf(issued[j]) \in Nat /\ IdOf(issued[k]) \in Nat
    BY <1>2, PackOrder
  <2>3. QED
    BY <2>1, <2>2
<1>4. CASE issued[j].worker # issued[k].worker
  BY <1>2, <1>4, OtherWorker
<1>5. QED
  BY <1>3, <1>4

\* Every id handed out is different from every other, for any number of
\* processes with their own worker numbers, until the clock is set back
\* ("Generator produces unique 64-bit IDs. Safe for concurrent use.", idgen.go:24).
THEOREM Uniqueness ==
  ASSUME DistinctWorkers
  PROVE  Spec => []UniqueIds
BY InvHolds, InvUnique, PTL

\* Within a process a later call gets a larger id: machine_id sorts by age.
THEOREM OrderedByAge ==
  ASSUME DistinctWorkers
  PROVE  Spec => []AgeOrder
BY InvHolds, InvAgeOrder, PTL
=============================================================================
