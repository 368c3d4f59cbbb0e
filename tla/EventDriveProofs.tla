-------------------------- MODULE EventDriveProofs --------------------------
(***************************************************************************)
(* For every number of lines, every frame rate, every opcode length and    *)
(* every power: the drive loop loses no clock, the CPU and the events      *)
(* share each line exactly, a frame has the clocks of its rate, and each   *)
(* step of a frame moves it on.                                            *)
(***************************************************************************)
EXTENDS EventDrive, TLAPS, FiniteSetTheorems, WellFoundedInduction

(* What was saved between two frames satisfies what held between them.     *)
SavedIsSettled ==
  saved # NULL => saved.eventClocks = saved.begun

(* Outside the loop of a line no event clocks are left; inside, there is a *)
(* line.                                                                   *)
LineIsDone == IF phase = "run" THEN curVline < Lines ELSE eventRemain <= 0

(* The inductive invariant. *)
DriveInv ==
  /\ TypeOK
  /\ LineIsDone
  /\ NoClockLost
  /\ eventRemain * Scale = cpuRemain + cpuAccum
  /\ SavedIsSettled

(* The clocks dealt to a line are a number of clocks. *)
LEMMA LineClocksType ==
  ASSUME NEW sum \in Nat
  PROVE  LineClocks(sum) \in [Line -> Nat]
<1> DEFINE remain == sum % Lines
           given(l) == {i \in 0 .. remain - 1 : (Lines * i) \div remain = l}
<1>1. ASSUME NEW l \in Line
      PROVE  sum \div Lines + Cardinality(given(l)) \in Nat
  <2>1. sum \div Lines \in Nat /\ remain \in Nat
    BY DriveAssumption
  <2>2. IsFiniteSet(0 .. remain - 1)
    BY <2>1, FS_Interval
  <2>3. IsFiniteSet(given(l))
    BY <2>2, FS_Subset
  <2>4. Cardinality(given(l)) \in Nat
    BY <2>3, FS_CardinalityType
  <2> QED
    BY <2>1, <2>4
<1> QED
  BY <1>1 DEF LineClocks

(* One turn of the loop keeps the CPU and the events on the same clock:    *)
(* the arithmetic of the division by a power of two.                       *)
LEMMA WholeClocks ==
  ASSUME NEW total \in Nat
  PROVE  /\ total \div Scale \in Nat
         /\ total - (total \div Scale) * Scale \in 0 .. Scale - 1
BY DriveAssumption

(* Lines and turns are scaled to CPU clocks one by one or all at once.     *)
LEMMA ScaleDistributes ==
  ASSUME NEW e \in Int, NEW d \in Int
  PROVE  (e - d) * Scale = e * Scale - d * Scale
BY DriveAssumption

(* Scaled clocks are whole CPU clocks.                                     *)
LEMMA ScaleIsInt == ASSUME NEW e \in Int PROVE e * Scale \in Int
BY DriveAssumption

----------------------------------------------------------------------------
(* Every set of numbers has a least one. *)
LEMMA LeastNumber ==
  ASSUME NEW T \in SUBSET Nat, T # {}
  PROVE  \E x \in T : \A y \in T : x <= y
<1> DEFINE R == {ss \in Nat \X Nat : ss[1] < ss[2]}
<1>1. IsWellFoundedOn(R, Nat)
  BY NatLessThanWellFounded DEF OpToRel
<1>2. PICK x \in T : \A y \in T : ~(<<y, x>> \in R)
  <2> HIDE DEF R
  <2> QED
    BY <1>1, WFMin
<1>3. ASSUME NEW y \in T
      PROVE  x <= y
  <2>1. ~(<<y, x>> \in R)
    BY <1>2
  <2> QED
    BY <2>1
<1> QED
  BY <1>3

(* A measure of the subsets of S that grows by f[x] with each x is the sum *)
(* of f: the order in which SumFunction adds does not matter.              *)
LEMMA SumIsMeasure ==
  ASSUME NEW S, IsFiniteSet(S), NEW f, DOMAIN f = S, NEW m,
         m[{}] = 0,
         \A s \in SUBSET S : \A x \in s : m[s] = f[x] + m[s \ {x}]
  PROVE  SumFunction(f) = m[S]
<1> DEFINE Step(g) == [s \in SUBSET S |->
                         IF s = {} THEN 0
                         ELSE f[CHOOSE x \in s : TRUE]
                                + g[s \ {CHOOSE x \in s : TRUE}]]
           at == CHOOSE g : g = Step(g)
           met == [s \in SUBSET S |-> m[s]]
<1>1. SumFunction(f) = at[S]
  BY DEF SumFunction, SumFunctionOnSet, FoldFunctionOnSet, MapThenFoldSet
<1>2. \A s \in SUBSET S : s # {} => (CHOOSE x \in s : TRUE) \in s
  OBVIOUS
<1>3. met = Step(met)
  <2>1. \A s \in SUBSET S : met[s] = Step(met)[s]
    BY <1>2
  <2> QED
    BY <2>1
<1>4. at = Step(at)
  <2> HIDE DEF Step, met
  <2> QED
    BY <1>3
<1> HIDE DEF at
<1>5. ASSUME NEW s \in SUBSET S, s # {}
      PROVE  \E x \in s : /\ at[s] = f[x] + at[s \ {x}]
                          /\ m[s] = f[x] + m[s \ {x}]
  <2>1. PICK x \in s : x = CHOOSE y \in s : TRUE
    BY <1>2, <1>5
  <2>2. at[s] = Step(at)[s]
    BY <1>4
  <2>3. at[s] = f[x] + at[s \ {x}]
    BY <1>5, <2>1, <2>2
  <2> QED
    BY <2>1, <2>3
<1>6. at[{}] = 0
  <2>1. at[{}] = Step(at)[{}]
    BY <1>4
  <2> QED
    BY <2>1
<1> HIDE DEF Step
<1>7. \A s \in SUBSET S : IsFiniteSet(s) /\ Cardinality(s) \in Nat
  BY FS_Subset, FS_CardinalityType
<1>8. \A s \in SUBSET S : at[s] = m[s]
  <2> DEFINE T == {n \in Nat : \E s \in SUBSET S :
                                 Cardinality(s) = n /\ at[s] # m[s]}
  <2>1. SUFFICES ASSUME T # {}
                 PROVE  FALSE
    BY <1>7
  <2>2. PICK n \in T : \A k \in T : n <= k
    <3>1. T \in SUBSET Nat
      OBVIOUS
    <3> HIDE DEF T
    <3> QED
      BY <2>1, <3>1, LeastNumber
  <2>3. PICK s \in SUBSET S : Cardinality(s) = n /\ at[s] # m[s]
    OBVIOUS
  <2>4. s # {}
    BY <1>6, <2>3
  <2>5. PICK x \in s : /\ at[s] = f[x] + at[s \ {x}]
                       /\ m[s] = f[x] + m[s \ {x}]
    BY <1>5, <2>4
  <2>6. s \ {x} \in SUBSET S /\ at[s \ {x}] # m[s \ {x}]
    BY <2>3, <2>5
  <2>7. Cardinality(s \ {x}) = n - 1
    <3>1. IsFiniteSet(s)
      BY <1>7
    <3> QED
      BY <2>3, <3>1, FS_RemoveElement
  <2>8. n - 1 \in T
    BY <1>7, <2>6, <2>7
  <2>9. n \in Nat
    OBVIOUS
  <2> HIDE DEF T
  <2> QED
    BY <2>2, <2>8, <2>9
<1> QED
  BY <1>1, <1>8

(* Clocks that are left go to lines of the frame. *)
LEMMA RestIsOnLines ==
  ASSUME NEW r \in Nat, NEW i \in 0 .. r - 1
  PROVE  (Lines * i) \div r \in Line
<1> DEFINE x == Lines * i
           q == x \div r
           y == r * q
<1>1. Lines \in Nat /\ Lines > 0 /\ r \in Int /\ r > 0 /\ i \in Nat /\ i < r
  BY DriveAssumption
<1>2. x \in Nat /\ x \in Int
  BY <1>1
<1>3. x < Lines * r
  BY <1>1
<1>4. q \in Int /\ y <= x /\ q >= 0
  <2> HIDE DEF x
  <2> QED
    BY <1>1, <1>2
<1>5. q < Lines
  <2> HIDE DEF x, q
  <2>1. q >= Lines => r * q >= Lines * r
    BY <1>1, <1>4
  <2>2. y \in Int /\ Lines * r \in Int
    BY <1>1, <1>4
  <2> QED
    BY <1>1, <1>2, <1>3, <1>4, <2>1, <2>2
<1> QED
  BY <1>1, <1>4, <1>5 DEF Line

(* Every clock of a frame is dealt to one line: whatever its clocks and    *)
(* its lines, and whether or not one divides the other.                    *)
LEMMA LineClocksAddUp ==
  ASSUME NEW sum \in Nat
  PROVE  SumFunction(LineClocks(sum)) = sum
<1> DEFINE remain == sum % Lines
           share == sum \div Lines
           spread == 0 .. remain - 1
           place(i) == (Lines * i) \div remain
           given(l) == {i \in spread : place(i) = l}
           dealt(s) == {i \in spread : place(i) \in s}
           f == [l \in Line |-> share + Cardinality(given(l))]
           m == [s \in SUBSET Line |->
                   Cardinality(s) * share + Cardinality(dealt(s))]
<1>1. LineClocks(sum) = f
  BY DEF LineClocks
<1>2. Lines \in Int /\ Lines > 0 /\ sum \in Int
  BY DriveAssumption
<1>3. share \in Nat /\ remain \in Nat /\ Lines * share + remain = sum
  <2>1. share \in Nat
    BY <1>2
  <2>2. remain \in Nat
    BY <1>2
  <2>3. sum = Lines * share + remain
    BY <1>2
  <2> QED
    BY <2>1, <2>2, <2>3
<1>4. IsFiniteSet(spread) /\ Cardinality(spread) = remain
  <2> HIDE DEF remain
  <2>1. remain - 1 \in Int /\ 0 \in Int
    BY <1>3
  <2>2. /\ IsFiniteSet(0 .. remain - 1)
        /\ Cardinality(0 .. remain - 1)
             = IF 0 > remain - 1 THEN 0 ELSE (remain - 1) - 0 + 1
    BY <2>1, FS_Interval
  <2> QED
    BY <1>3, <2>2
<1>5. IsFiniteSet(Line) /\ Cardinality(Line) = Lines
  BY <1>2, FS_Interval DEF Line
<1> HIDE DEF share, remain
<1>6. dealt(Line) = spread
  BY <1>3, RestIsOnLines
<1> HIDE DEF place, spread
<1>7. \A s : IsFiniteSet(dealt(s)) /\ Cardinality(dealt(s)) \in Nat
  BY <1>4, FS_Subset, FS_CardinalityType
<1>8. \A l : IsFiniteSet(given(l)) /\ Cardinality(given(l)) \in Nat
  BY <1>4, FS_Subset, FS_CardinalityType
<1>9. m[{}] = 0
  <2>1. dealt({}) = {}
    OBVIOUS
  <2>2. Cardinality({}) = 0
    BY FS_EmptySet
  <2> HIDE DEF dealt
  <2> QED
    BY <1>3, <2>1, <2>2
<1>10. ASSUME NEW s \in SUBSET Line, NEW l \in s
       PROVE  m[s] = f[l] + m[s \ {l}]
  <2> DEFINE k == Cardinality(s \ {l})
             a == Cardinality(given(l))
             b == Cardinality(dealt(s \ {l}))
  <2>1. IsFiniteSet(s) /\ IsFiniteSet(s \ {l})
    BY <1>5, FS_Subset
  <2>2. k \in Nat /\ Cardinality(s) = k + 1
    <3>1. Cardinality(s) \in Nat /\ k = Cardinality(s) - 1
      BY <2>1, FS_RemoveElement, FS_CardinalityType
    <3>2. k \in Nat
      BY <2>1, FS_CardinalityType
    <3> HIDE DEF k
    <3> QED
      BY <3>1, <3>2
  <2>3. Cardinality(dealt(s)) = a + b
    <3> DEFINE all == given(l) \cup dealt(s \ {l})
               both == given(l) \cap dealt(s \ {l})
    <3>1. dealt(s) = all
      OBVIOUS
    <3>2. both = {}
      OBVIOUS
    <3> HIDE DEF given, dealt
    <3>3. Cardinality(all) = a + b - Cardinality(both)
      BY <1>7, <1>8, FS_Union
    <3>4. Cardinality(both) = 0
      <4> HIDE DEF both
      <4> QED
        BY <3>2, FS_EmptySet
    <3>5. a \in Nat /\ b \in Nat
      BY <1>7, <1>8
    <3> HIDE DEF a, b, all, both
    <3> QED
      BY <3>1, <3>3, <3>4, <3>5
  <2>4. a \in Nat /\ b \in Nat
    BY <1>7, <1>8
  <2> HIDE DEF given, dealt
  <2>5. m[s] = (k + 1) * share + (a + b)
    BY <2>2, <2>3
  <2>6. m[s \ {l}] = k * share + b /\ f[l] = share + a
    OBVIOUS
  <2> HIDE DEF m, f, k, a, b
  <2>7. (k + 1) * share = k * share + share /\ k * share \in Int
    BY <1>3, <2>2
  <2> QED
    BY <1>3, <2>4, <2>5, <2>6, <2>7
<1>11. m[Line] = sum
  <2> HIDE DEF dealt
  <2>1. m[Line] = Lines * share + remain
    BY <1>4, <1>5, <1>6
  <2> QED
    BY <1>3, <2>1
<1>12. DOMAIN f = Line
  OBVIOUS
<1> HIDE DEF f, m
<1>13. \A s \in SUBSET Line : \A l \in s : m[s] = f[l] + m[s \ {l}]
  BY <1>10
<1>14. SumFunction(f) = m[Line]
  BY <1>5, <1>9, <1>12, <1>13, SumIsMeasure
<1> QED
  BY <1>1, <1>11, <1>14

(* The line clocks are always those of the rate they were computed for,    *)
(* also in a saved state, and a frame is driven at the configured rate.    *)
RateIsKnown ==
  /\ framesPerSec # NULL => vclocks = LineClocks(Clocks[framesPerSec])
  /\ saved # NULL /\ saved.framesPerSec # NULL
       => saved.vclocks = LineClocks(Clocks[saved.framesPerSec])
  /\ phase # "frames" => framesPerSec = fps

(* Steps keep it: a restore and a change of settings happen between two    *)
(* frames, and the next frame compares the rates.                          *)
LEMMA RateStaysKnown ==
  RateIsKnown /\ TypeOK /\ [Next]_vars => RateIsKnown'
<1> SUFFICES ASSUME RateIsKnown, TypeOK, [Next]_vars
             PROVE  RateIsKnown'
  OBVIOUS
<1>1. CASE BeginFrame
  BY <1>1, DriveAssumption DEF BeginFrame, RateIsKnown, TypeOK
<1>2. CASE BeginLine
  BY <1>2 DEF BeginLine, RateIsKnown
<1>3. ASSUME NEW t \in OpClocks, Turn(t)
      PROVE  RateIsKnown'
  BY <1>3 DEF Turn, RateIsKnown
<1>4. CASE EndLine
  BY <1>4 DEF EndLine, RateIsKnown
<1>5. CASE EndFrame
  BY <1>5 DEF EndFrame, RateIsKnown
<1>6. CASE Reset
  BY <1>6 DEF Reset, RateIsKnown
<1>7. ASSUME NEW r \in Rates, ChangeSettings(r)
      PROVE  RateIsKnown'
  BY <1>7 DEF ChangeSettings, RateIsKnown
<1>8. CASE SaveState
  BY <1>8 DEF SaveState, RateIsKnown
<1>9. ASSUME NEW r \in Rates, LoadState(r)
      PROVE  RateIsKnown'
  BY <1>9 DEF LoadState, RateIsKnown
<1>10. CASE UNCHANGED vars
  BY <1>10 DEF vars, RateIsKnown
<1> QED
  BY <1>1, <1>2, <1>3, <1>4, <1>5, <1>6, <1>7, <1>8, <1>9, <1>10
     DEF Next, Drive

(* The machine starts with no clock dealt and none owed.                   *)
LEMMA InitDriveInv == Init => DriveInv
BY DriveAssumption
   DEF Init, DriveInv, TypeOK, LineIsDone, NoClockLost, SavedIsSettled,
       AtLeastZero, Line

(* No step of the drive loop, nor a reset, a restore or a change of        *)
(* settings between frames, breaks the strengthened invariant.             *)
LEMMA NextDriveInv == DriveInv /\ [Next]_vars => DriveInv'
<1> SUFFICES ASSUME DriveInv, [Next]_vars
             PROVE  DriveInv'
  OBVIOUS
<1> USE DEF DriveInv
<1>1. CASE BeginFrame
  <2>1. Clocks[fps] \in Nat
    BY DriveAssumption DEF TypeOK
  <2>2. vclocks' \in [Line -> Nat]
    BY <1>1, <2>1, LineClocksType DEF BeginFrame, TypeOK
  <2>3. TypeOK'
    BY <1>1, <2>2, DriveAssumption DEF BeginFrame, TypeOK
  <2> QED
    BY <1>1, <2>3
       DEF BeginFrame, LineIsDone, NoClockLost, AtLeastZero, SavedIsSettled
<1>2. CASE BeginLine
  <2> DEFINE v == vclocks[curVline]
  <2>1. v \in Nat
    BY <1>2, DriveAssumption DEF BeginLine, TypeOK, Line
  <2>2. eventRemain \in Int /\ eventRemain <= 0 /\ Scale \in Nat \ {0}
    BY <1>2, DriveAssumption DEF BeginLine, TypeOK, LineIsDone
  <2>3. eventClocks' \in Nat /\ NoClockLost'
    <3>1. eventClocks = begun /\ begun \in Nat
      BY <2>2 DEF NoClockLost, AtLeastZero, TypeOK
    <3>2. /\ eventRemain' = eventRemain + v
          /\ begun' = begun + v
          /\ eventClocks' = IF eventRemain < 0
                            THEN eventClocks + Smaller(-eventRemain, v)
                            ELSE eventClocks
      BY <1>2 DEF BeginLine
    <3> HIDE DEF v
    <3> QED
      BY <2>1, <2>2, <3>1, <3>2 DEF NoClockLost, AtLeastZero, Smaller
  <2>4. TypeOK'
    BY <1>2, <2>1, <2>2, <2>3 DEF BeginLine, TypeOK
  <2>5. (eventRemain * Scale = cpuRemain + cpuAccum)'
    BY <1>2, <2>1, <2>2, DriveAssumption DEF BeginLine, TypeOK
  <2> QED
    BY <1>2, <2>3, <2>4, <2>5 DEF BeginLine, LineIsDone, SavedIsSettled
<1>3. ASSUME NEW t \in OpClocks, Turn(t)
      PROVE  DriveInv'
  <2> DEFINE total == cpuAccum + t
             done == IF cpuRemain > 0 THEN total \div Scale ELSE eventRemain
  <2>1. t \in Nat \ {0} /\ total \in Nat /\ Scale \in {1, 2, 4, 8, 16}
    BY DriveAssumption DEF TypeOK
  <2>2. eventRemain \in Nat \ {0} /\ cpuRemain \in Int
    BY <1>3 DEF Turn, TypeOK
  <2>3. cpuRemain > 0
    BY <2>1, <2>2 DEF TypeOK
  <2>4. done = total \div Scale /\ done \in Nat
    BY <2>1, <2>3, WholeClocks
  <2>5. /\ cpuRemain' = cpuRemain - t
        /\ cpuAccum' = total - done * Scale
        /\ eventClocks' = eventClocks + Smaller(done, eventRemain)
        /\ eventRemain' = eventRemain - done
        /\ UNCHANGED <<phase, fps, framesPerSec, vclocks, curVline, begun,
                       saved>>
    BY <1>3, <2>3 DEF Turn
  <2>6. cpuAccum' \in 0 .. Scale - 1
    BY <2>1, <2>4, <2>5, WholeClocks
  <2>7. eventClocks' \in Nat /\ NoClockLost'
    BY <2>2, <2>4, <2>5 DEF NoClockLost, AtLeastZero, Smaller, TypeOK
  <2>8. TypeOK'
    BY <2>1, <2>2, <2>4, <2>5, <2>6, <2>7 DEF TypeOK
  <2>9. (eventRemain * Scale = cpuRemain + cpuAccum)'
    <3>1. eventRemain \in Int /\ cpuAccum \in Int /\ t \in Int
      BY <2>1, <2>2 DEF TypeOK
    <3> HIDE DEF done
    <3>2. eventRemain * Scale = cpuRemain + cpuAccum
      OBVIOUS
    <3>3. done \in Int /\ cpuRemain \in Int
      BY <2>2, <2>4
    <3>4. /\ (eventRemain - done) * Scale = eventRemain * Scale - done * Scale
          /\ done * Scale \in Int
      BY <3>1, <3>3, ScaleDistributes, ScaleIsInt
    <3>5. (eventRemain - done) * Scale
            = (cpuRemain - t) + ((cpuAccum + t) - done * Scale)
      BY <3>1, <3>2, <3>3, <3>4
    <3> QED
      BY <2>5, <3>5
  <2> QED
    <3>1. LineIsDone'
      BY <1>3, <2>5 DEF Turn, LineIsDone
    <3>2. SavedIsSettled'
      BY <2>5 DEF SavedIsSettled
    <3> QED
      BY <2>7, <2>8, <2>9, <3>1, <3>2
<1>4. CASE EndLine
  BY <1>4, DriveAssumption
     DEF EndLine, TypeOK, LineIsDone, NoClockLost, AtLeastZero,
              SavedIsSettled
<1>5. CASE EndFrame
  BY <1>5 DEF EndFrame, TypeOK, LineIsDone, NoClockLost, AtLeastZero,
              SavedIsSettled
<1>6. CASE Reset
  BY <1>6, DriveAssumption
     DEF Reset, ForgetOverrun, TypeOK, LineIsDone, NoClockLost, AtLeastZero,
         SavedIsSettled
<1>7. ASSUME NEW r \in Rates, ChangeSettings(r)
      PROVE  DriveInv'
  BY <1>7, DriveAssumption
     DEF ChangeSettings, ForgetOverrun, TypeOK, LineIsDone, NoClockLost,
         AtLeastZero, SavedIsSettled
<1>8. CASE SaveState
  <2>1. saved' \in Snapshot
    BY <1>8 DEF SaveState, TypeOK, Snapshot
  <2>2. SavedIsSettled'
    BY <1>8 DEF SaveState, SavedIsSettled, LineIsDone, NoClockLost,
                AtLeastZero, TypeOK
  <2> QED
    BY <1>8, <2>1, <2>2
       DEF SaveState, TypeOK, LineIsDone, NoClockLost, AtLeastZero
<1>9. ASSUME NEW r \in Rates, LoadState(r)
      PROVE  DriveInv'
  <2>1. saved \in Snapshot
    BY <1>9 DEF LoadState, TypeOK
  <2>2. TypeOK'
    BY <1>9, <2>1, DriveAssumption
       DEF LoadState, ForgetOverrun, TypeOK, Snapshot
  <2>3. NoClockLost' /\ LineIsDone'
    BY <1>9, <2>1
       DEF LoadState, ForgetOverrun, NoClockLost, LineIsDone, AtLeastZero,
           SavedIsSettled, Snapshot
  <2>4. (eventRemain * Scale = cpuRemain + cpuAccum)'
    BY <1>9, DriveAssumption DEF LoadState, ForgetOverrun
  <2> QED
    BY <1>9, <2>2, <2>3, <2>4 DEF LoadState, SavedIsSettled
<1>10. CASE UNCHANGED vars
  BY <1>10 DEF vars, TypeOK, LineIsDone, NoClockLost, AtLeastZero,
               SavedIsSettled
<1> QED
  BY <1>1, <1>2, <1>3, <1>4, <1>5, <1>6, <1>7, <1>8, <1>9, <1>10
     DEF Next, Drive

(* With event clocks left on a line the CPU has clocks left too.           *)
LEMMA DriveInvShares == DriveInv => CpuSharesLine
BY DriveAssumption DEF DriveInv, CpuSharesLine, TypeOK

(* The strengthened invariant holds of every behaviour of the drive loop.  *)
THEOREM DriveInvHolds == Spec => []DriveInv
BY InitDriveInv, NextDriveInv, PTL DEF Spec

(* The variables keep their types, saved states included. *)
THEOREM DriveTypeCorrect == Spec => []TypeOK
BY DriveInvHolds, PTL DEF DriveInv

(* No clock is lost or given to the events twice, for every frame rate,    *)
(* line count, opcode length and power, across resets and restores.        *)
THEOREM NoClockIsLost == Spec => []NoClockLost
BY DriveInvHolds, PTL DEF DriveInv

(* The CPU is never without a clock while events have one left: the branch *)
(* of drive that advances the events alone is never taken with one CPU.    *)
THEOREM CpuIsNeverStarved == Spec => []CpuSharesLine
BY DriveInvShares, DriveInvHolds, PTL

(* Every frame is driven with as many clocks as its rate has, however      *)
(* many lines share them: rates changed, saved and restored leave no stale *)
(* line clocks behind.                                                     *)
THEOREM FramesHaveTheirClocks == Spec => []FrameHasItsClocks
<1>1. Init => RateIsKnown
  BY DEF Init, RateIsKnown
<1>2. RateIsKnown /\ TypeOK => FrameHasItsClocks
  <2> SUFFICES ASSUME RateIsKnown, TypeOK, phase # "frames"
               PROVE  SumFunction(vclocks) = Clocks[fps]
    BY DEF FrameHasItsClocks
  <2>1. framesPerSec = fps /\ fps \in Rates /\ Clocks[fps] \in Nat
    BY DriveAssumption DEF RateIsKnown, TypeOK
  <2>2. vclocks = LineClocks(Clocks[fps])
    BY <2>1, DriveAssumption DEF RateIsKnown
  <2> QED
    BY <2>1, <2>2, LineClocksAddUp
<1> QED
  BY <1>1, <1>2, RateStaysKnown, DriveTypeCorrect, PTL DEF Spec

(* A frame that has begun moves on with every step: to its next line, into *)
(* the line, or, within the line, by an opcode the CPU has the clocks for. *)
FrameMovesOn ==
  phase # "frames" =>
    \/ phase = "line" /\ curVline = Lines /\ phase' = "frames"
    \/ phase = "line" /\ curVline < Lines /\ phase' = "run"
         /\ curVline' = curVline
    \/ phase = "run" /\ eventRemain <= 0 /\ phase' = "line"
         /\ curVline' = curVline + 1
    \/ phase = "run" /\ phase' = "run" /\ curVline' = curVline
         /\ 0 < cpuRemain /\ cpuRemain' < cpuRemain

(* The safety half of FrameEnds: no step of a frame leaves it where it     *)
(* was, so no opcode, however short, and no reset, restore or change of    *)
(* rate holds a frame up.                                                  *)
THEOREM FramesMoveOn == Spec => [][FrameMovesOn]_vars
<1>1. ASSUME DriveInv, Next
      PROVE  FrameMovesOn
  <2>1. ASSUME NEW t \in OpClocks, Turn(t)
        PROVE  FrameMovesOn
    <3>1. t \in Nat \ {0} /\ cpuRemain \in Int /\ eventRemain \in Int
      BY <1>1, DriveAssumption DEF DriveInv, TypeOK
    <3>2. CpuSharesLine /\ eventRemain > 0
      BY <1>1, <2>1, DriveInvShares DEF Turn
    <3>3. 0 < cpuRemain
      BY <3>1, <3>2 DEF CpuSharesLine
    <3>4. cpuRemain' = cpuRemain - t
      BY <2>1, <3>1, <3>3 DEF Turn
    <3>5. phase = "run" /\ phase' = "run" /\ curVline' = curVline
      BY <2>1 DEF Turn
    <3> QED
      BY <3>1, <3>3, <3>4, <3>5 DEF FrameMovesOn
  <2>2. ASSUME BeginLine \/ EndLine \/ EndFrame
        PROVE  FrameMovesOn
    BY <2>2 DEF BeginLine, EndLine, EndFrame, FrameMovesOn
  <2>3. CASE phase = "frames"
    BY <2>3 DEF FrameMovesOn
  <2> QED
    BY <1>1, <2>1, <2>2, <2>3
       DEF Next, Drive, BeginFrame, Reset, ChangeSettings, SaveState, LoadState
<1>2. DriveInv /\ [Next]_vars => [FrameMovesOn]_vars
  BY <1>1
<1> QED
  BY <1>2, DriveInvHolds, PTL DEF Spec
=============================================================================
