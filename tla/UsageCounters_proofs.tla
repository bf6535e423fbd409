------------------------ MODULE UsageCounters_proofs ------------------------
(***************************************************************************)
(* Theorems about UsageCounters, for counters of any width, any number of  *)
(* months and any amount of traffic.                                       *)
(***************************************************************************)
EXTENDS UsageCounters, WellFoundedInduction, TLAPS

Amounts == Nat \cup {None}

Types ==
    /\ counter \in 0..(Wrap - 1) /\ last \in 0..(Wrap - 1)
    /\ monthly \in Nat /\ usageMonth \in 0..LastMonth /\ clock \in Months
    /\ first \in BOOLEAN
    /\ tmp \in [Months -> Amounts] /\ file \in [Months -> Amounts]

\* Time goes on, and UsageDir is written for a month that was recalled only.
Calm == world \cap {"term", "clock", "early"} = {}

\* What is in memory and in /tmp is never behind UsageDir, and months to come
\* have no file.
Ahead ==
    /\ \A m \in Months : tmp[m] # None => file[m] # None /\ tmp[m] >= file[m]
    /\ \A m \in Months : m > clock => file[m] = None
    /\ place # "off" /\ usageMonth # 0 =>
         /\ usageMonth <= clock
         /\ file[usageMonth] # None /\ monthly >= file[usageMonth]
         /\ \A m \in Months : m > usageMonth => file[m] = None
    /\ place = "up" => ~first
    /\ place # "off" /\ ~first => usageMonth # 0

Sound == Types /\ (Calm => Ahead)

-----------------------------------------------------------------------------
(* getMonthlyUsage and updateMonthlyUsage                                  *)

LEMMA DeltaNat ==
  ASSUME Types
  PROVE  Delta \in Nat
BY UsageConstants DEF Types, Delta

\* A recall keeps the files of all months and makes the month known that is.
LEMMA RecallSound ==
  ASSUME Sound, Recall, world' = world, clock' = clock
  PROVE  /\ usageMonth' \in 0..LastMonth /\ monthly' \in Nat
         /\ tmp' \in [Months -> Amounts] /\ file' \in [Months -> Amounts]
         /\ \A m \in Months : file'[m] >= file[m]
         /\ usageMonth' # 0
         /\ Calm /\ place' # "off" =>
              /\ \A m \in Months : tmp'[m] # None => file'[m] # None /\ tmp'[m] >= file'[m]
              /\ \A m \in Months : m > clock => file'[m] = None
              /\ usageMonth' <= clock /\ file'[usageMonth'] # None /\ monthly' >= file'[usageMonth']
              /\ \A m \in Months : m > usageMonth' => file'[m] = None
<1> DEFINE total == Stored(clock) + monthly
<1>1. clock \in Months /\ clock \in Nat /\ clock # 0 /\ clock \in 0..LastMonth /\ None \notin Nat
  BY UsageConstants DEF Sound, Types, Months, None
<1>2. Stored(clock) \in Nat
  BY <1>1 DEF Sound, Types, Stored, Amounts, None
<1>3. total \in Nat /\ total >= Stored(clock)
  BY <1>2 DEF Sound, Types
<1> HIDE DEF total
<1>4. /\ usageMonth' = clock /\ monthly' = total
      /\ tmp' = [tmp EXCEPT ![clock] = total]
      /\ file' = [file EXCEPT ![clock] = IF @ = None THEN total ELSE @]
  BY DEF Recall, total
<1>5. tmp' \in [Months -> Amounts] /\ file' \in [Months -> Amounts]
  BY <1>1, <1>3, <1>4 DEF Sound, Types, Amounts
<1>6. \A m \in Months : file'[m] >= file[m]
  BY <1>1, <1>3, <1>4 DEF Sound, Types, Amounts, None
<1>7. Calm =>
        /\ \A m \in Months : tmp'[m] # None => file'[m] # None /\ tmp'[m] >= file'[m]
        /\ \A m \in Months : m > clock => file'[m] = None
        /\ file'[clock] # None /\ total >= file'[clock]
  <2> SUFFICES ASSUME Calm  PROVE
        /\ \A m \in Months : tmp'[m] # None => file'[m] # None /\ tmp'[m] >= file'[m]
        /\ \A m \in Months : m > clock => file'[m] = None
        /\ file'[clock] # None /\ total >= file'[clock]
    OBVIOUS
  <2>1. Ahead
    BY DEF Sound
  <2>2. Stored(clock) >= file[clock]
    BY <1>1, <2>1 DEF Ahead, Stored, Sound, Types, Amounts, None
  <2>3. tmp'[clock] # None /\ tmp'[clock] >= file'[clock] /\ file'[clock] # None /\ total >= file'[clock]
    <3>1. CASE tmp[clock] = None
      BY <1>1, <1>2, <1>3, <1>4, <2>2, <3>1 DEF Sound, Types, Amounts, None
    <3>2. CASE tmp[clock] # None
      <4>1. tmp[clock] \in Nat /\ Stored(clock) = tmp[clock] /\ tmp[clock] >= file[clock]
        BY <1>1, <2>1, <3>2 DEF Ahead, Stored, Sound, Types, Amounts
      <4>2. tmp'[clock] = total
        BY <1>1, <1>4 DEF Sound, Types
      <4>3. file'[clock] = IF file[clock] = None THEN total ELSE file[clock]
        BY <1>1, <1>4 DEF Sound, Types
      <4>4. file[clock] # None
        BY <1>1, <2>1, <3>2 DEF Ahead
      <4> QED  BY <1>1, <1>2, <1>3, <4>1, <4>2, <4>3, <4>4, <3>2 DEF Sound, Types, Amounts, None
    <3> QED  BY <3>1, <3>2
  <2>4. \A m \in Months \ {clock} : tmp'[m] = tmp[m] /\ file'[m] = file[m]
    BY <1>4 DEF Sound, Types
  <2> QED  BY <1>1, <2>1, <2>3, <2>4 DEF Ahead
<1> QED  BY <1>1, <1>3, <1>4, <1>5, <1>6, <1>7

\* So does an update with no less than what is in memory.
LEMMA UpdateSound ==
  ASSUME Sound, NEW n \in Nat, n >= monthly, Update(n),
         world' = world, clock' = clock
  PROVE  /\ usageMonth' \in 0..LastMonth /\ monthly' \in Nat
         /\ tmp' \in [Months -> Amounts] /\ file' \in [Months -> Amounts]
         /\ usageMonth' # 0
         /\ Calm /\ place # "off" /\ ~first =>
              /\ \A m \in Months : file'[m] >= file[m]
              /\ \A m \in Months : tmp'[m] # None => file'[m] # None /\ tmp'[m] >= file'[m]
              /\ \A m \in Months : m > clock => file'[m] = None
              /\ usageMonth' <= clock /\ file'[usageMonth'] # None /\ monthly' >= file'[usageMonth']
              /\ \A m \in Months : m > usageMonth' => file'[m] = None
<1>1. clock \in Months /\ clock \in Nat /\ clock # 0 /\ clock \in 0..LastMonth /\ None \notin Nat
  BY UsageConstants DEF Sound, Types, Months, None
<1>2. CASE clock = usageMonth
  <2>1. /\ tmp' = [tmp EXCEPT ![clock] = n] /\ monthly' = n
        /\ file' = file /\ usageMonth' = usageMonth
    BY <1>2 DEF Update
  <2>2. tmp' \in [Months -> Amounts]
    BY <1>1, <2>1 DEF Sound, Types, Amounts
  <2>3. Calm /\ place # "off" => file[clock] # None /\ n >= file[clock]
    BY <1>1, <1>2 DEF Sound, Types, Ahead, Amounts, None
  <2>4. \A m \in Months : file[m] >= file[m]
    BY DEF Sound, Types, Amounts, None
  <2> QED
    BY <1>1, <1>2, <2>1, <2>2, <2>3, <2>4 DEF Sound, Types, Ahead
<1>3. CASE clock # usageMonth
  <2>1. /\ tmp' = [m \in Months |-> IF m = clock THEN 0
                                    ELSE IF m = usageMonth THEN None ELSE tmp[m]]
        /\ file' = [m \in Months |-> IF m = clock THEN 0
                                     ELSE IF m = usageMonth THEN n ELSE file[m]]
        /\ monthly' = 0 /\ usageMonth' = clock
    BY <1>3 DEF Update
  <2>2. tmp' \in [Months -> Amounts] /\ file' \in [Months -> Amounts]
    BY <2>1 DEF Sound, Types, Amounts
  <2>3. ASSUME Calm, place # "off", ~first
        PROVE  /\ usageMonth < clock /\ n >= file[usageMonth]
               /\ file[clock] = None
               /\ usageMonth \in Months
    BY <1>1, <1>3, <2>3 DEF Sound, Types, Ahead, Months, Amounts, None
  <2>4. ASSUME Calm, place # "off", ~first
        PROVE  /\ \A m \in Months : file'[m] >= file[m]
               /\ \A m \in Months : tmp'[m] # None => file'[m] # None /\ tmp'[m] >= file'[m]
               /\ \A m \in Months : m > clock => file'[m] = None
    BY <1>1, <2>1, <2>3, <2>4 DEF Sound, Types, Ahead, Amounts, None, Months
  <2>5. file'[clock] = 0
    BY <1>1, <2>1
  <2> QED  BY <1>1, <2>1, <2>2, <2>4, <2>5
<1> QED  BY <1>2, <1>3

\* An end inside an update leaves files that were there, 0, or the usage of the
\* month that was in memory; a crash, as far as it comes, what an update leaves.
LEMMA PartlyFiles ==
  ASSUME Types, NEW n \in Nat, NEW k \in 0..5, PartlyUpdated(n, k)
  PROVE  /\ tmp' \in [Months -> Amounts] /\ file' \in [Months -> Amounts]
         /\ \A m \in Months :
              /\ tmp'[m] = tmp[m] \/ tmp'[m] = None
              /\ file'[m] = file[m] \/ file'[m] = 0 \/ (m = usageMonth /\ file'[m] = n)
         /\ "term" \notin world => \A m \in Months :
              \/ file'[m] = file[m]
              \/ m = usageMonth /\ file'[m] = n /\ tmp'[m] = None
              \/ m = clock /\ m # usageMonth /\ file'[m] = 0
<1> DEFINE half == [m \in Months |-> IF m = usageMonth /\ k >= 2 THEN n
                                    ELSE IF m = clock /\ k >= 5 THEN 0 ELSE file[m]]
           month == IF k >= 4 THEN clock ELSE usageMonth
<1>1. /\ k > 0 => clock # usageMonth
      /\ tmp' = [m \in Months |-> IF m = usageMonth /\ k >= 1 THEN None ELSE tmp[m]]
      /\ \/ file' = half
         \/ "term" \in world
            /\ file' = [m \in Months |-> IF m = month THEN (IF k >= 3 THEN 0 ELSE n) ELSE half[m]]
  BY DEF PartlyUpdated
<1>2. half \in [Months -> Amounts]
  BY DEF Types, Amounts
<1>3. tmp' \in [Months -> Amounts] /\ file' \in [Months -> Amounts]
  BY <1>1, <1>2 DEF Types, Amounts
<1>4. \A m \in Months :
        half[m] = file[m] \/ half[m] = 0 \/ (m = usageMonth /\ half[m] = n)
  OBVIOUS
<1>5. ASSUME NEW m \in Months
      PROVE  /\ tmp'[m] = tmp[m] \/ tmp'[m] = None
             /\ file'[m] = file[m] \/ file'[m] = 0 \/ (m = usageMonth /\ file'[m] = n)
  BY <1>1, <1>4
<1>6. ASSUME "term" \notin world, NEW m \in Months
      PROVE  \/ file'[m] = file[m]
             \/ m = usageMonth /\ file'[m] = n /\ tmp'[m] = None
             \/ m = clock /\ m # usageMonth /\ file'[m] = 0
  BY <1>1, <1>6
<1> HIDE DEF half, month
<1> QED  BY <1>3, <1>5, <1>6

LEMMA InsideSound ==
  ASSUME Sound, EndInside
  PROVE  Types' /\ (Calm => (\A m \in Months : file'[m] >= file[m]) /\ Ahead')
<1>1. /\ place # "off" /\ place' = "off" /\ Types
      /\ UNCHANGED <<last, monthly, usageMonth, first, clock, counter, world>>
  BY DEF EndInside, memoryVars, linkVars, Sound
<1>2. monthly \in Nat /\ monthly + Delta \in Nat /\ Delta \in Nat /\ clock \in Months
  BY <1>1, DeltaNat DEF Types
<1>3. CASE first
  <2>1. "term" \in world /\ file' = [file EXCEPT ![clock] = monthly] /\ tmp' = tmp
    BY <1>3 DEF EndInside, PartlyRecalled
  <2> QED  BY <1>1, <1>2, <2>1 DEF Types, Amounts, Calm
<1>4. CASE ~first
  <2>1. PICK k \in 0..5, n \in Nat : n >= monthly /\ PartlyUpdated(n, k)
    <3>1. PICK k \in 0..5 : \E n \in {monthly} \cup (IF place = "up" /\ up THEN {monthly + Delta} ELSE {}) :
            PartlyUpdated(n, k)
      BY <1>4 DEF EndInside
    <3>2. PICK n \in {monthly, monthly + Delta} : PartlyUpdated(n, k)
      BY <3>1
    <3>3. n \in Nat /\ n >= monthly
      BY <1>2
    <3> QED  BY <3>2, <3>3
  <2>2. Types'
    BY <1>1, <2>1, PartlyFiles DEF Types
  <2>3. ASSUME Calm
        PROVE  (\A m \in Months : file'[m] >= file[m]) /\ Ahead'
    <3>1. Ahead /\ "term" \notin world /\ usageMonth # 0 /\ usageMonth \in Months
      BY <1>1, <1>4, <2>3 DEF Sound, Calm, Ahead, Types, Months
    <3>2. \A m \in Months :
            /\ tmp'[m] = tmp[m] \/ tmp'[m] = None
            /\ \/ file'[m] = file[m]
               \/ m = usageMonth /\ file'[m] = n /\ tmp'[m] = None
               \/ m = clock /\ m # usageMonth /\ file'[m] = 0
      BY <1>1, <2>1, <3>1, PartlyFiles
    <3>3. usageMonth <= clock /\ n >= file[usageMonth] /\ (clock # usageMonth => file[clock] = None)
      BY <1>1, <1>2, <2>1, <3>1 DEF Ahead, Types, Amounts, None, Months
    <3>4. ASSUME NEW m \in Months
          PROVE  /\ file'[m] >= file[m]
                 /\ tmp'[m] # None => file'[m] # None /\ tmp'[m] >= file'[m]
                 /\ m > clock => file'[m] = None
      <4>1. tmp[m] \in Amounts /\ file[m] \in Amounts /\ m \in Nat /\ clock \in Nat
        BY <1>1, <1>2 DEF Types, Months
      <4>2. /\ tmp[m] # None => file[m] # None /\ tmp[m] >= file[m]
            /\ m > clock => file[m] = None
        BY <3>1 DEF Ahead
      <4>3. CASE file'[m] = file[m]
        BY <3>2, <4>1, <4>2, <4>3 DEF Amounts, None
      <4>4. CASE m = usageMonth /\ file'[m] = n /\ tmp'[m] = None
        BY <3>3, <4>1, <4>4
      <4>5. CASE m = clock /\ m # usageMonth /\ file'[m] = 0
        BY <3>2, <3>3, <4>1, <4>2, <4>5 DEF None
      <4> QED  BY <3>2, <4>3, <4>4, <4>5
    <3> QED  BY <1>1, <3>4 DEF Ahead
  <2> QED  BY <2>2, <2>3
<1> QED  BY <1>3, <1>4

-----------------------------------------------------------------------------
(* The steps                                                               *)

LEMMA InitSound == Init => Sound
BY UsageConstants DEF Init, Sound, Types, Ahead, Amounts, Months, None

LEMMA NextSound == Sound /\ [Next]_vars => Sound' /\ (Calm => \A m \in Months : file'[m] >= file[m])
<1> SUFFICES ASSUME Sound, [Next]_vars
             PROVE  Sound' /\ (Calm => \A m \in Months : file'[m] >= file[m])
  OBVIOUS
<1> DEFINE Grows == \A m \in Months : file'[m] >= file[m]
<1>1. ASSUME file' = file  PROVE Grows
  BY <1>1 DEF Sound, Types, Amounts, None
<1>2. CASE UNCHANGED vars
  BY <1>1, <1>2 DEF vars, memoryVars, fileVars, linkVars, boundVars, Sound, Types, Ahead, Calm
<1>3. CASE Dial \/ LinkLost \/ Drop
  BY <1>1, <1>3, UsageConstants
  DEF Dial, LinkLost, Drop, memoryVars, fileVars, linkVars, boundVars, Sound, Types, Ahead, Calm
<1>4. CASE ReadDialing
  <2>1. monthly' \in Nat /\ monthly' >= monthly
    BY <1>4, DeltaNat DEF ReadDialing, Sound, Types
  <2>2. /\ place = "dialing" /\ last' = counter
        /\ UNCHANGED <<place, usageMonth, first, tmp, file, clock, counter, world>>
    BY <1>4 DEF ReadDialing, fileVars, boundVars
  <2>3. Types'
    BY <2>1, <2>2 DEF Sound, Types
  <2>4. usageMonth # 0 => file[usageMonth] \in Amounts
    BY UsageConstants DEF Sound, Types, Months
  <2>5. Calm => Ahead'
    BY <2>1, <2>2, <2>4 DEF Sound, Types, Ahead, Amounts, None
  <2> QED  BY <1>1, <2>2, <2>3, <2>5 DEF Sound, Calm
<1>5. CASE Connected
  <2>1. CASE first
    BY <1>5, <2>1, RecallSound DEF Connected, linkVars, boundVars, Sound, Types, Ahead, Calm
  <2>2. CASE ~first
    <3>1. monthly \in Nat /\ monthly >= monthly
      BY DEF Sound, Types
    <3> QED
      BY <1>5, <2>2, <3>1, UpdateSound
      DEF Connected, linkVars, boundVars, Sound, Types, Ahead, Calm
  <2> QED  BY <2>1, <2>2
<1>6. CASE ReadUp
  <2>1. monthly + Delta \in Nat /\ monthly + Delta >= monthly
    BY DeltaNat DEF Sound, Types
  <2> QED
    BY <1>1, <1>6, <2>1, UpdateSound
    DEF ReadUp, fileVars, boundVars, Sound, Types, Ahead, Calm
<1>7. CASE FeatureChange
  <2>1. monthly \in Nat /\ monthly >= monthly
    BY DEF Sound, Types
  <2>2. Calm => ~first
    BY <1>7 DEF FeatureChange, Calm
  <2> QED
    BY <1>7, <2>1, <2>2, UpdateSound DEF FeatureChange, linkVars, Sound, Types, Ahead, Calm
<1>8. CASE Start
  BY <1>1, <1>8, UsageConstants DEF Start, fileVars, boundVars, Sound, Types, Ahead, Calm
<1>9. CASE End
  <2>1. /\ place # "off" /\ place' = "off" /\ UNCHANGED <<memoryVars, clock, counter, world>>
        /\ tmp' = tmp \/ tmp' = [m \in Months |-> None]
        /\ file' = file \/ Write
    BY <1>9 DEF End, fileVars
  <2>2. Write => file' = [m \in Months |-> IF m = usageMonth THEN monthly ELSE file[m]]
    BY DEF Write
  <2>3. Types'
    BY <2>1, <2>2 DEF memoryVars, Sound, Types, Amounts, None
  <2>4. Calm => Ahead /\ \A m \in Months : m = usageMonth =>
                       file[m] # None /\ monthly >= file[m] /\ m <= clock
    BY <2>1, UsageConstants DEF Sound, Types, Ahead, Months
  <2>5. Calm => Grows
    <3>1. CASE Write
      BY <2>2, <2>4, <3>1 DEF Sound, Types, Amounts, None
    <3> QED  BY <1>1, <2>1, <3>1
  <2>6. Calm => file' = file \/ (Write /\ tmp' = [m \in Months |-> None])
    BY <1>9 DEF End, Calm
  <2>7. Calm => \A m \in Months : m > clock => file'[m] = None
    BY <2>1, <2>2, <2>4, UsageConstants DEF Ahead, Sound, Types, Months
  <2>8. Calm => \A m \in Months : tmp'[m] # None => file'[m] # None /\ tmp'[m] >= file'[m]
    BY <2>1, <2>4, <2>6 DEF Ahead
  <2>9. Calm => Ahead'
    BY <2>1, <2>7, <2>8 DEF Ahead
  <2> QED  BY <2>1, <2>3, <2>5, <2>9 DEF Sound, Calm
<1>10. CASE Traffic
  <2>1. counter' \in 0..(Wrap - 1)
    BY <1>10, UsageConstants DEF Traffic, Sound, Types
  <2> QED
    BY <1>1, <1>10, <2>1 DEF Traffic, memoryVars, fileVars, boundVars, Sound, Types, Ahead, Calm
<1>11. CASE ModemReset
  BY <1>1, <1>11, UsageConstants
  DEF ModemReset, memoryVars, fileVars, boundVars, Sound, Types, Ahead, Calm
<1>12. CASE Month
  BY <1>1, <1>12, UsageConstants
  DEF Month, memoryVars, fileVars, linkVars, boundVars, Sound, Types, Ahead, Calm, Months
<1>13. CASE EndInside
  <2>1. world' = world
    BY <1>13 DEF EndInside
  <2> QED  BY <1>13, <2>1, InsideSound DEF Sound, Calm
<1> QED
  BY <1>2, <1>3, <1>4, <1>5, <1>6, <1>7, <1>8, <1>9, <1>10, <1>11, <1>12, <1>13 DEF Next

\* Usage that reached UsageDir is never taken back there: not by a restart, a
\* crash or a loss of power at any place, a new month or a change of features,
\* whatever was dialled and counted between, where on_term writes nothing.
THEOREM UsageNeverLess == Spec => NeverLess
<1>1. Sound /\ [Next]_vars =>
        [world \cap {"term", "clock", "early"} = {} =>
           \A m \in Months : file'[m] >= file[m]]_file
  BY NextSound DEF Calm
<1> QED  BY <1>1, InitSound, NextSound, PTL DEF Spec, NeverLess

-----------------------------------------------------------------------------
(* Sums over the months                                                    *)

\* A non-empty set of numbers has a smallest one.
LEMMA SmallestOf ==
  ASSUME NEW T, T \subseteq Nat, T # {}
  PROVE  \E n \in T : \A k \in T : ~(k < n)
<1> DEFINE Less == {p \in Nat \X Nat : p[1] < p[2]}
<1>1. IsWellFoundedOn(Less, Nat)
  BY NatLessThanWellFounded DEF OpToRel
<1>2. \A k, n \in T : k < n => <<k, n>> \in Less
  OBVIOUS
<1> HIDE DEF Less
<1>3. \E n \in T : \A k \in T : <<k, n>> \notin Less
  BY <1>1, WFMin
<1> QED  BY <1>2, <1>3

\* Induction, for a set of numbers.
LEMMA SetInduction ==
  ASSUME NEW S, 0 \in S, \A n \in Nat : n \in S => n + 1 \in S
  PROVE  \A n \in Nat : n \in S
<1>1. SUFFICES ASSUME Nat \ S # {}  PROVE FALSE
  OBVIOUS
<1>2. PICK n \in Nat \ S : \A k \in Nat \ S : ~(k < n)
  BY <1>1, SmallestOf
<1>3. n # 0 /\ n - 1 \in Nat /\ n - 1 < n /\ n - 1 + 1 = n
  BY <1>2
<1>4. n - 1 \in S
  BY <1>2, <1>3
<1> QED  BY <1>2, <1>3, <1>4

\* upTo of Total
UpTo(f) == CHOOSE h : h = [m \in 0..LastMonth |-> IF m = 0 THEN 0 ELSE h[m - 1] + f[m]]

LEMMA UpToIs ==
  ASSUME NEW f \in [Months -> Int]
  PROVE  /\ UpTo(f)[0] = 0
         /\ \A m \in Months : UpTo(f)[m] = UpTo(f)[m - 1] + f[m]
         /\ \A m \in 0..LastMonth : UpTo(f)[m] \in Int
         /\ Total(f) = UpTo(f)[LastMonth]
<1> DEFINE Fits(h, n) == /\ h[0] = 0
                         /\ \A m \in 1..n : m <= LastMonth => h[m] = h[m - 1] + f[m]
           S == {n \in Nat : \E h \in [0..n -> Int] : Fits(h, n)}
<1>1. 0 \in S
  <2>1. Fits([i \in 0..0 |-> 0], 0) /\ [i \in 0..0 |-> 0] \in [0..0 -> Int]
    OBVIOUS
  <2> QED  BY <2>1
<1>2. ASSUME NEW n \in Nat, n \in S  PROVE n + 1 \in S
  <2>1. PICK h \in [0..n -> Int] : Fits(h, n)
    BY <1>2
  <2> DEFINE g == [i \in 0..(n + 1) |-> IF i # n + 1 THEN h[i]
                                        ELSE IF n + 1 <= LastMonth THEN h[n] + f[n + 1] ELSE 0]
  <2>2. n + 1 <= LastMonth => h[n] + f[n + 1] \in Int
    BY DEF Months
  <2>3. g \in [0..(n + 1) -> Int]
    BY <2>2
  <2>4. Fits(g, n + 1)
    BY <2>1
  <2> HIDE DEF g, Fits
  <2> QED  BY <2>3, <2>4
<1>3. PICK h \in [0..LastMonth -> Int] : Fits(h, LastMonth)
  <2> HIDE DEF S
  <2>1. LastMonth \in S
    BY <1>1, <1>2, SetInduction, UsageConstants
  <2> QED  BY <2>1 DEF S
<1>4. h = [m \in 0..LastMonth |-> IF m = 0 THEN 0 ELSE h[m - 1] + f[m]]
  BY <1>3
<1>5. UpTo(f) = [m \in 0..LastMonth |-> IF m = 0 THEN 0 ELSE UpTo(f)[m - 1] + f[m]]
  BY <1>4 DEF UpTo
<1>6. /\ UpTo(f)[0] = 0
      /\ \A m \in Months : UpTo(f)[m] = UpTo(f)[m - 1] + f[m]
  BY <1>5, UsageConstants DEF Months
<1>7. \A m \in 0..LastMonth : UpTo(f)[m] \in Int
  <2> DEFINE R == {n \in Nat : n <= LastMonth => UpTo(f)[n] \in Int}
  <2>1. 0 \in R
    BY <1>6
  <2>2. ASSUME NEW n \in Nat, n \in R  PROVE n + 1 \in R
    BY <1>6, <2>2, UsageConstants DEF Months
  <2> HIDE DEF R
  <2>3. \A n \in Nat : n \in R
    BY <2>1, <2>2, SetInduction
  <2> QED  BY <2>3 DEF R
<1>8. Total(f) = UpTo(f)[LastMonth]
  BY DEF Total, UpTo
<1> QED  BY <1>6, <1>7, <1>8

\* One month makes the difference.
LEMMA TotalStep ==
  ASSUME NEW f \in [Months -> Int], NEW g \in [Months -> Int], NEW k \in Months, NEW d \in Int,
         \A m \in Months : m # k => f[m] <= g[m],
         f[k] + d <= g[k]
  PROVE  Total(f) + d <= Total(g)
<1> DEFINE Extra(n) == IF n >= k THEN d ELSE 0
           S == {n \in Nat : n <= LastMonth => UpTo(f)[n] + Extra(n) <= UpTo(g)[n]}
<1>1. 0 \in S
  <2>1. UpTo(f)[0] = 0 /\ UpTo(g)[0] = 0 /\ k > 0 /\ k \in Nat
    BY UpToIs DEF Months
  <2> QED  BY <2>1
<1>2. ASSUME NEW n \in Nat, n \in S  PROVE n + 1 \in S
  <2> SUFFICES ASSUME n + 1 <= LastMonth
               PROVE  UpTo(f)[n + 1] + Extra(n + 1) <= UpTo(g)[n + 1]
    OBVIOUS
  <2>1. UpTo(f)[n] + Extra(n) <= UpTo(g)[n]
    BY <1>2, UsageConstants
  <2>2. n + 1 \in Months /\ n \in 0..LastMonth /\ n + 1 - 1 = n
    BY UsageConstants DEF Months
  <2>3. /\ UpTo(f)[n + 1] = UpTo(f)[n] + f[n + 1] /\ UpTo(g)[n + 1] = UpTo(g)[n] + g[n + 1]
        /\ UpTo(f)[n] \in Int /\ UpTo(g)[n] \in Int
    BY <2>2, UpToIs
  <2>4. k \in Nat /\ f[n + 1] \in Int /\ g[n + 1] \in Int
    BY <2>2 DEF Months
  <2>5. CASE n + 1 = k
    BY <2>1, <2>3, <2>4, <2>5
  <2>6. CASE n + 1 # k
    <3>1. f[n + 1] <= g[n + 1] /\ Extra(n + 1) = Extra(n)
      BY <2>2, <2>4, <2>6
    <3>2. Extra(n) \in Int
      OBVIOUS
    <3> HIDE DEF Extra
    <3> QED  BY <2>1, <2>3, <2>4, <3>1, <3>2
  <2> QED  BY <2>5, <2>6
<1>3. LastMonth \in S
  <2> HIDE DEF S
  <2> QED  BY <1>1, <1>2, SetInduction, UsageConstants
<1>4. Extra(LastMonth) = d
  BY UsageConstants DEF Months
<1> QED  BY <1>3, <1>4, UpToIs, UsageConstants

LEMMA TotalLess ==
  ASSUME NEW f \in [Months -> Int], NEW g \in [Months -> Int],
         \A m \in Months : f[m] <= g[m]
  PROVE  Total(f) <= Total(g)
<1>1. 1 \in Months /\ f[1] + 0 <= g[1]
  BY UsageConstants DEF Months
<1>2. Total(f) + 0 <= Total(g)
  BY <1>1, TotalStep
<1>3. Total(f) \in Int /\ Total(g) \in Int
  BY UpToIs, UsageConstants
<1> QED  BY <1>2, <1>3

LEMMA TotalNone ==
  ASSUME NEW f \in [Months -> Int], \A m \in Months : f[m] = 0
  PROVE  Total(f) = 0
<1> DEFINE S == {n \in Nat : n <= LastMonth => UpTo(f)[n] = 0}
<1>1. 0 \in S
  BY UpToIs
<1>2. ASSUME NEW n \in Nat, n \in S  PROVE n + 1 \in S
  <2>1. n + 1 <= LastMonth => n + 1 \in Months /\ n <= LastMonth /\ n + 1 - 1 = n
    BY UsageConstants DEF Months
  <2>2. n + 1 <= LastMonth => UpTo(f)[n + 1] = UpTo(f)[n] + f[n + 1]
    BY <2>1, UpToIs
  <2> QED  BY <1>2, <2>1, <2>2
<1> HIDE DEF S
<1>3. LastMonth \in S
  BY <1>1, <1>2, SetInduction, UsageConstants
<1> QED  BY <1>3, UpToIs DEF S

-----------------------------------------------------------------------------
(* What upLoop counted                                                     *)

On == place # "off"

Tallies == actual \in Nat /\ unread \in 0..(Wrap - 1) /\ kept \in Nat

\* Without a short term that begins too early, the first connection is the one
\* that recalls the month.
Begun ==
    /\ On => (first <=> usageMonth = 0)
    /\ place = "up" => ~first

Early == "early" \in world

Counted == Sound /\ Tallies /\ (~Early => Begun)

LEMMA InitCounted == Init => Counted
BY InitSound, UsageConstants DEF Init, Counted, Tallies, Begun, On

LEMMA UpdateMonth ==
  ASSUME Types, NEW n, Update(n)
  PROVE  usageMonth' = clock /\ usageMonth' # 0
BY DEF Update, Types, Months

LEMMA NextCounted == Counted /\ [Next]_vars => Counted'
<1> SUFFICES ASSUME Counted, [Next]_vars  PROVE Tallies' /\ (~Early => Begun)'
  BY NextSound DEF Counted
<1> USE DEF memoryVars, fileVars, linkVars, boundVars
<1>1. Types /\ Tallies /\ (~Early => Begun) /\ 0 \in 0..(Wrap - 1) /\ Delta \in Nat
  BY DeltaNat, UsageConstants DEF Counted, Sound
<1>2. CASE UNCHANGED vars
  BY <1>1, <1>2 DEF vars, Tallies, Begun, On, Early
<1>3. CASE Dial \/ ReadDialing \/ LinkLost \/ Drop \/ ModemReset \/ Month
  BY <1>1, <1>3 DEF Dial, ReadDialing, LinkLost, Drop, ModemReset, Month, Tallies, Begun, On, Early
<1>4. CASE Connected
  <2>1. usageMonth' # 0 /\ first' = FALSE /\ UNCHANGED <<linkVars, kept, world>>
    BY <1>1, <1>4, UpdateMonth DEF Connected, Recall, Types, Months
  <2> QED  BY <1>1, <2>1 DEF Tallies, Begun
<1>5. CASE ReadUp
  <2>1. /\ place = "up" /\ place' = "up" /\ unread' = 0 /\ kept' = kept + Delta
        /\ UNCHANGED <<first, actual, world>>
    BY <1>5 DEF ReadUp
  <2>2. usageMonth' = usageMonth \/ usageMonth' # 0
    BY <1>1, <1>5, UpdateMonth DEF ReadUp
  <2> QED  BY <1>1, <2>1, <2>2 DEF Tallies, Begun, On, Early
<1>6. CASE FeatureChange
  <2>1. usageMonth' # 0 /\ UNCHANGED <<place, first, linkVars, kept, world>>
    BY <1>1, <1>6, UpdateMonth DEF FeatureChange
  <2>2. ~Early => ~first
    BY <1>6 DEF FeatureChange, Early
  <2> QED  BY <1>1, <2>1, <2>2 DEF Tallies, Begun, On, Early
<1>7. CASE Start
  BY <1>1, <1>7 DEF Start, Tallies, Begun, On
<1>8. CASE End \/ EndInside
  BY <1>1, <1>8 DEF End, EndInside, Tallies, Begun, On
<1>9. CASE Traffic
  <2>1. actual' = actual + 1 /\ unread' = unread + 1 /\ unread < Wrap - 1
    BY <1>9 DEF Traffic
  <2>2. Tallies'
    BY <1>1, <1>9, <2>1, UsageConstants DEF Traffic, Tallies
  <2> QED  BY <1>1, <1>9, <2>2 DEF Traffic, Begun, On, Early
<1> QED
  BY <1>2, <1>3, <1>4, <1>5, <1>6, <1>7, <1>8, <1>9 DEF Next

Stores == [m \in Months |-> Stored(m)]

Empty(m) == tmp[m] = None /\ file[m] = None

Orderly == world \cap {"crash", "loss", "clock", "early", "inside"} = {}

\* The months that are over, or not yet recalled, are in UsageDir: there a
\* month has no less than in /tmp, which a reboot empties.
Filed ==
    /\ \A m \in Months : m > clock => Empty(m)
    /\ On /\ usageMonth # 0 =>
         /\ usageMonth <= clock /\ monthly >= Stored(usageMonth)
         /\ \A m \in Months : m > usageMonth => Empty(m)
    /\ \A m \in Months : tmp[m] # None /\ (On => m # usageMonth) => file[m] >= tmp[m]

LEMMA StoredNat ==
  ASSUME Types
  PROVE  /\ \A m \in Months : Stored(m) \in Nat
         /\ Stores \in [Months -> Int]
BY DEF Types, Stored, Stores, Amounts, None

\* getMonthlyUsage
LEMMA RecallFiled ==
  ASSUME Types, Filed, On, usageMonth = 0, Recall, clock' = clock, place' # "off"
  PROVE  Filed' /\ \A m \in Months : Stored(m) <= Stored(m)'
<1> DEFINE total == Stored(clock) + monthly
<1>1. clock \in Months /\ clock \in Nat /\ clock # 0 /\ None \notin Nat
  BY UsageConstants DEF Types, Months, None
<1>2. total \in Nat /\ total >= Stored(clock)
  BY <1>1, StoredNat DEF Types
<1>3. /\ usageMonth' = clock /\ monthly' = total
      /\ tmp' = [tmp EXCEPT ![clock] = total]
      /\ file' = [file EXCEPT ![clock] = IF @ = None THEN total ELSE @]
  BY DEF Recall
<1> HIDE DEF total
<1>4. /\ \A m \in Months : m # clock => tmp'[m] = tmp[m] /\ file'[m] = file[m]
      /\ tmp'[clock] = total
  BY <1>1, <1>3 DEF Types
<1>5. \A m \in Months : m # clock => Stored(m)' = Stored(m)
  BY <1>4 DEF Stored
<1>6. Stored(clock) <= Stored(clock)' /\ Stored(clock)' <= total
  <2>1. CASE tmp[clock] = None
    BY <1>1, <1>2, <1>3, <1>4, <2>1 DEF Stored
  <2>2. CASE tmp[clock] # None
    BY <1>1, <1>2, <1>3, <1>4, <2>2, StoredNat DEF Stored
  <2> QED  BY <2>1, <2>2
<1>7. \A m \in Months : Stored(m) <= Stored(m)'
  BY <1>5, <1>6, StoredNat
<1>8. \A m \in Months : m > clock => Empty(m)'
  BY <1>1, <1>4 DEF Filed, Empty
<1>9. \A m \in Months : m # clock /\ tmp'[m] # None => file'[m] >= tmp'[m]
  BY <1>4 DEF Filed, On, Months
<1>10. monthly' >= Stored(usageMonth)'
  BY <1>2, <1>3, <1>6 DEF Stored
<1>11. \A m \in Months : tmp'[m] # None /\ (On' => m # usageMonth') => file'[m] >= tmp'[m]
  BY <1>3, <1>9 DEF On
<1>12. usageMonth' <= clock' /\ \A m \in Months : m > usageMonth' => Empty(m)'
  BY <1>1, <1>3, <1>8
<1> QED  BY <1>7, <1>8, <1>10, <1>11, <1>12 DEF Filed

\* updateMonthlyUsage: the month of the update has what is added to it more.
LEMMA UpdateFiled ==
  ASSUME Types, Filed, On, usageMonth # 0, NEW n \in Nat, n >= monthly, Update(n),
         clock' = clock, place' # "off"
  PROVE  /\ Filed'
         /\ usageMonth \in Months
         /\ \A m \in Months : m # usageMonth => Stored(m) <= Stored(m)'
         /\ \A m \in Months : m = usageMonth => Stored(m) + (n - monthly) <= Stored(m)'
<1>1. /\ clock \in Months /\ clock \in Nat /\ clock # 0 /\ None \notin Nat
      /\ usageMonth \in Months /\ usageMonth \in Nat /\ usageMonth <= clock
      /\ monthly \in Nat /\ monthly >= Stored(usageMonth)
  BY UsageConstants DEF Types, Months, None, Filed
<1>2. \A m \in Months : Stored(m) \in Nat
  BY StoredNat
<1>3. CASE clock = usageMonth
  <2>1. /\ tmp' = [tmp EXCEPT ![clock] = n] /\ monthly' = n
        /\ file' = file /\ usageMonth' = usageMonth
    BY <1>3 DEF Update
  <2>2. /\ tmp'[clock] = n
        /\ \A m \in Months : m # clock => tmp'[m] = tmp[m]
    BY <1>1, <2>1 DEF Types
  <2>3. /\ \A m \in Months : m = clock => Stored(m)' = n
        /\ \A m \in Months : m # clock => Stored(m)' = Stored(m)
    BY <1>1, <2>1, <2>2 DEF Stored
  <2>4. \A m \in Months : m > clock => Empty(m)'
    BY <1>1, <2>1, <2>2 DEF Filed, Empty
  <2>5. \A m \in Months : m # clock /\ tmp'[m] # None => file'[m] >= tmp'[m]
    BY <1>1, <1>3, <2>1, <2>2 DEF Filed
  <2>6. monthly' >= Stored(usageMonth)'
    BY <1>1, <1>3, <2>1, <2>2 DEF Stored
  <2>7. Filed'
    BY <1>1, <1>3, <2>1, <2>4, <2>5, <2>6 DEF Filed, On
  <2> QED  BY <1>1, <1>2, <1>3, <2>3, <2>7
<1>4. CASE clock # usageMonth
  <2>1. /\ tmp' = [m \in Months |-> IF m = clock THEN 0
                                    ELSE IF m = usageMonth THEN None ELSE tmp[m]]
        /\ file' = [m \in Months |-> IF m = clock THEN 0
                                     ELSE IF m = usageMonth THEN n ELSE file[m]]
        /\ monthly' = 0 /\ usageMonth' = clock
    BY <1>4 DEF Update
  <2>2. /\ tmp'[clock] = 0 /\ file'[clock] = 0
        /\ tmp'[usageMonth] = None /\ file'[usageMonth] = n
        /\ \A m \in Months : m \notin {clock, usageMonth} =>
             tmp'[m] = tmp[m] /\ file'[m] = file[m]
    BY <1>1, <1>4, <2>1
  <2>3. Stored(clock) = 0
    BY <1>1, <1>4 DEF Filed, Empty, On, Stored
  <2>4. /\ \A m \in Months : m = clock => Stored(m)' = 0
        /\ \A m \in Months : m = usageMonth => Stored(m)' = n
        /\ \A m \in Months : m \notin {clock, usageMonth} => Stored(m)' = Stored(m)
    BY <1>1, <2>2 DEF Stored, None
  <2>5. \A m \in Months : m > clock => Empty(m)'
    BY <1>1, <2>2 DEF Filed, Empty
  <2>6. \A m \in Months : m # clock /\ tmp'[m] # None => file'[m] >= tmp'[m]
    BY <1>1, <2>2 DEF Filed
  <2>7. monthly' >= Stored(usageMonth)'
    BY <1>1, <2>1, <2>2 DEF Stored, None
  <2>8. Filed'
    BY <1>1, <2>1, <2>5, <2>6, <2>7 DEF Filed, On
  <2> QED  BY <1>1, <1>2, <1>4, <2>3, <2>4, <2>8
<1> QED  BY <1>3, <1>4

\* An orderly end: writeMonthlyUsage leaves the month in UsageDir, so a reboot
\* loses nothing with /tmp.
LEMMA EndFiled ==
  ASSUME Types, Filed, End, Orderly
  PROVE  Filed' /\ \A m \in Months : Stored(m) <= Stored(m)'
<1>1. /\ place' = "off" /\ place # "off" /\ clock' = clock /\ usageMonth' = usageMonth
      /\ Write /\ (tmp' = tmp \/ tmp' = [m \in Months |-> None])
  BY DEF End, Orderly, memoryVars
<1>2. None \notin Nat /\ monthly \in Nat /\ tmp \in [Months -> Amounts] /\ file \in [Months -> Amounts]
  BY DEF Types, None
<1>3. /\ \A m \in Months : m = usageMonth => file'[m] = monthly /\ monthly >= Stored(m)
      /\ \A m \in Months : m # usageMonth => file'[m] = file[m]
      /\ \A m \in Months : tmp'[m] = tmp[m] \/ tmp'[m] = None
  <2>1. usageMonth \in Months => monthly >= Stored(usageMonth)
    BY <1>1 DEF Filed, On, Months
  <2>2. file' = [m \in Months |-> IF m = usageMonth THEN monthly ELSE file[m]]
    BY <1>1 DEF Write
  <2>3. \A m \in Months : tmp'[m] = tmp[m] \/ tmp'[m] = None
    BY <1>1
  <2> QED  BY <2>1, <2>2, <2>3
<1>4. \A m \in Months : tmp[m] # None => file'[m] # None /\ file'[m] >= tmp[m]
  <2>1. ASSUME NEW m \in Months, m = usageMonth, tmp[m] # None
        PROVE  file'[m] # None /\ file'[m] >= tmp[m]
    BY <1>2, <1>3, <2>1 DEF Stored
  <2>2. ASSUME NEW m \in Months, m # usageMonth, tmp[m] # None
        PROVE  file'[m] # None /\ file'[m] >= tmp[m]
    BY <1>2, <1>3, <2>2 DEF Filed, Amounts, None
  <2> QED  BY <2>1, <2>2
<1>5. ASSUME NEW m \in Months  PROVE Stored(m) <= Stored(m)'
  <2>1. CASE tmp'[m] # None
    BY <1>3, <2>1, StoredNat DEF Stored
  <2>2. CASE tmp'[m] = None /\ tmp[m] # None
    BY <1>4, <2>2 DEF Stored
  <2>3. CASE tmp'[m] = None /\ tmp[m] = None
    <3>1. CASE m = usageMonth
      BY <1>2, <1>3, <2>3, <3>1 DEF Stored
    <3>2. CASE m # usageMonth
      BY <1>3, <2>3, <3>2, StoredNat DEF Stored
    <3> QED  BY <3>1, <3>2
  <2> QED  BY <2>1, <2>2, <2>3
<1>6. \A m \in Months : m > clock => Empty(m)'
  BY <1>1, <1>3 DEF Filed, Empty, On, Types, Months
<1>7. \A m \in Months : tmp'[m] # None => file'[m] >= tmp'[m]
  BY <1>3, <1>4
<1> QED  BY <1>1, <1>5, <1>6, <1>7 DEF Filed, On

LEMMA NextWorld == [Next]_vars => world' = world
BY DEF Next, Dial, ReadDialing, Connected, ReadUp, LinkLost, FeatureChange, Start, End,
       EndInside, Traffic, Drop, ModemReset, Month, vars, boundVars

Booked == Filed /\ Total(Stores) >= kept

\* One month has d more after the step, and no other one less.
LEMMA StoredStep ==
  ASSUME Types, Types', NEW k \in Months, NEW d \in Nat,
         \A m \in Months : m # k => Stored(m) <= Stored(m)',
         Stored(k) + d <= Stored(k)'
  PROVE  Total(Stores) + d <= Total(Stores)' /\ Total(Stores)' \in Int
<1>1. /\ Stores \in [Months -> Int]
      /\ \A m \in Months : Stores[m] = Stored(m)
  BY StoredNat DEF Stores
<1>2. /\ Stores' \in [Months -> Int]
      /\ \A m \in Months : Stores'[m] = Stored(m)'
  BY DEF Types, Stored, Stores, Amounts, None
<1>3. PICK f, g : f = Stores /\ g = Stores'
  OBVIOUS
<1>4. Total(f) = Total(Stores) /\ Total(g) = Total(Stores)'
  BY <1>3 DEF Total
<1>5. Total(f) + d <= Total(g) /\ Total(g) \in Int
  <2>1. /\ f \in [Months -> Int] /\ g \in [Months -> Int] /\ d \in Int
        /\ \A m \in Months : m # k => f[m] <= g[m]
        /\ f[k] + d <= g[k]
    BY <1>1, <1>2, <1>3
  <2>2. LastMonth \in 0..LastMonth
    BY UsageConstants
  <2> QED  BY <2>1, <2>2, TotalStep, UpToIs
<1> QED  BY <1>4, <1>5

LEMMA StoresInt ==
  ASSUME Types
  PROVE  Total(Stores) \in Int
<1>1. Stores \in [Months -> Int] /\ LastMonth \in 0..LastMonth
  BY StoredNat, UsageConstants
<1> QED  BY <1>1, UpToIs

LEMMA StoredMore ==
  ASSUME Types, Types', \A m \in Months : Stored(m) <= Stored(m)'
  PROVE  Total(Stores) <= Total(Stores)' /\ Total(Stores)' \in Int
<1>1. 1 \in Months /\ Stored(1) + 0 <= Stored(1)'
  <2>1. 1 \in Months
    BY UsageConstants DEF Months
  <2> QED  BY <2>1, StoredNat
<1>2. Total(Stores) + 0 <= Total(Stores)' /\ Total(Stores)' \in Int
  BY <1>1, StoredStep
<1> QED  BY <1>2, StoresInt

LEMMA InitBooked == Init => Booked
<1> SUFFICES ASSUME Init  PROVE Booked
  OBVIOUS
<1>1. Types /\ kept = 0
  BY InitSound DEF Init, Sound
<1>2. Filed
  BY DEF Init, Filed, Empty
<1>3. \A m \in Months : Stores[m] = 0
  BY DEF Init, Stores, Stored
<1>4. Total(Stores) = 0
  BY <1>1, <1>3, StoredNat, TotalNone
<1> QED  BY <1>1, <1>2, <1>4 DEF Booked

LEMMA NextBooked ==
  ASSUME Counted, Counted', Orderly, Booked, [Next]_vars
  PROVE  Booked'
<1> USE DEF memoryVars, fileVars, linkVars, boundVars
<1>1. /\ Types /\ Types' /\ Filed /\ Begun
      /\ Total(Stores) >= kept /\ kept \in Nat /\ Total(Stores) \in Int
  BY StoresInt DEF Counted, Sound, Tallies, Booked, Orderly, Early
<1>2. ASSUME Filed', \A m \in Months : Stored(m) <= Stored(m)', kept' = kept
      PROVE  Booked'
  BY <1>1, <1>2, StoredMore DEF Booked
<1>3. ASSUME UNCHANGED fileVars, kept' = kept, Filed'
      PROVE  Booked'
  <2>1. \A m \in Months : Stored(m) <= Stored(m)'
    BY <1>1, <1>3, StoredNat DEF Stored
  <2> QED  BY <1>2, <1>3, <2>1
<1>4. CASE UNCHANGED vars
  BY <1>1, <1>3, <1>4 DEF vars, Filed, On, Empty, Stored
<1>5. CASE Dial \/ LinkLost \/ Traffic \/ Drop \/ ModemReset
  BY <1>1, <1>3, <1>5 DEF Dial, LinkLost, Traffic, Drop, ModemReset, Filed, On, Empty, Stored
<1>6. CASE ReadDialing
  <2>1. /\ place = "dialing" /\ monthly' = monthly + Delta
        /\ UNCHANGED <<place, usageMonth, fileVars, clock, kept>> /\ Delta \in Nat
    BY <1>1, <1>6, DeltaNat DEF ReadDialing
  <2>2. Filed'
    <3>1. On /\ usageMonth # 0 => usageMonth \in Months
      BY <1>1 DEF Types, Months
    <3>2. usageMonth \in Months => Stored(usageMonth) \in Nat
      BY <1>1, StoredNat
    <3>3. monthly \in Nat
      BY <1>1 DEF Types
    <3>4. On /\ usageMonth # 0 => monthly' >= Stored(usageMonth)
      BY <1>1, <2>1, <3>1, <3>2, <3>3 DEF Filed
    <3> QED  BY <1>1, <2>1, <3>4 DEF Filed, On, Empty, Stored
  <2> QED  BY <1>3, <2>1, <2>2
<1>7. CASE Month
  <2>1. clock' = clock + 1 /\ UNCHANGED <<place, usageMonth, monthly, fileVars, kept>>
    BY <1>7 DEF Month, Orderly
  <2>2. Filed'
    BY <1>1, <2>1, UsageConstants DEF Filed, On, Empty, Stored, Types, Months
  <2> QED  BY <1>3, <2>1, <2>2
<1>8. CASE Connected
  <2>1. On /\ place' # "off" /\ UNCHANGED <<clock, kept>>
    BY <1>8 DEF Connected, On
  <2>2. CASE first
    <3>1. usageMonth = 0 /\ Recall
      BY <1>1, <1>8, <2>1, <2>2 DEF Connected, Begun
    <3> QED  BY <1>1, <1>2, <2>1, <3>1, RecallFiled
  <2>3. CASE ~first
    <3>1. usageMonth # 0 /\ Update(monthly) /\ monthly \in Nat /\ monthly >= monthly
      BY <1>1, <1>8, <2>1, <2>3 DEF Connected, Begun, Types
    <3>2. /\ Filed' /\ \A m \in Months : m # usageMonth => Stored(m) <= Stored(m)'
          /\ \A m \in Months : m = usageMonth => Stored(m) + (monthly - monthly) <= Stored(m)'
      BY <1>1, <2>1, <3>1, UpdateFiled
    <3>3. \A m \in Months : Stored(m) <= Stored(m)'
      BY <1>1, <3>1, <3>2, StoredNat
    <3> QED  BY <1>2, <2>1, <3>2, <3>3
  <2> QED  BY <2>2, <2>3
<1>9. CASE FeatureChange
  <2>1. /\ On /\ place' # "off" /\ UNCHANGED <<clock, kept>> /\ ~first
        /\ Update(monthly) /\ monthly \in Nat /\ monthly >= monthly
    BY <1>1, <1>9 DEF FeatureChange, On, Orderly, Types
  <2>2. usageMonth # 0
    BY <1>1, <2>1 DEF Begun
  <2>3. /\ Filed' /\ \A m \in Months : m # usageMonth => Stored(m) <= Stored(m)'
        /\ \A m \in Months : m = usageMonth => Stored(m) + (monthly - monthly) <= Stored(m)'
    BY <1>1, <2>1, <2>2, UpdateFiled
  <2>4. \A m \in Months : Stored(m) <= Stored(m)'
    BY <1>1, <2>1, <2>3, StoredNat
  <2> QED  BY <1>2, <2>1, <2>3, <2>4
<1>10. CASE ReadUp
  <2>1. /\ On /\ place' = place /\ place = "up" /\ clock' = clock /\ kept' = kept + Delta
        /\ Delta \in Nat /\ monthly \in Nat
    BY <1>1, <1>10, DeltaNat DEF ReadUp, On, Types
  <2>2. usageMonth # 0
    BY <1>1, <2>1 DEF Begun
  <2>3. CASE Delta > 0
    <3>1. PICK n \in Nat : n = monthly + Delta
      BY <2>1
    <3>2. Update(n) /\ n >= monthly /\ n - monthly = Delta /\ place' # "off"
      BY <1>10, <2>1, <2>3, <3>1 DEF ReadUp
    <3>3. /\ Filed' /\ usageMonth \in Months
          /\ \A m \in Months : m # usageMonth => Stored(m) <= Stored(m)'
          /\ \A m \in Months : m = usageMonth => Stored(m) + (n - monthly) <= Stored(m)'
      BY <1>1, <2>1, <2>2, <3>2, UpdateFiled
    <3>4. PICK k \in Months, d \in Nat : k = usageMonth /\ d = Delta
      BY <2>1, <3>3
    <3>5. Total(Stores) + d <= Total(Stores)' /\ Total(Stores)' \in Int
      BY <1>1, <3>2, <3>3, <3>4, StoredStep
    <3> QED  BY <1>1, <2>1, <3>3, <3>4, <3>5 DEF Booked
  <2>4. CASE Delta = 0
    <3>1. UNCHANGED <<monthly, usageMonth, fileVars, kept>>
      BY <1>1, <1>10, <2>1, <2>4 DEF ReadUp
    <3>2. Filed'
      BY <1>1, <2>1, <3>1 DEF Filed, On, Empty, Stored
    <3> QED  BY <1>3, <3>1, <3>2
  <2> QED  BY <2>1, <2>3, <2>4
<1>11. CASE Start
  <2>1. place = "off" /\ usageMonth' = 0 /\ UNCHANGED <<fileVars, clock, kept>>
    BY <1>11 DEF Start
  <2>2. Filed'
    BY <1>1, <2>1 DEF Filed, On, Empty
  <2> QED  BY <1>3, <2>1, <2>2
<1>12. CASE End
  <2>1. Filed' /\ (\A m \in Months : Stored(m) <= Stored(m)') /\ kept' = kept
    BY <1>1, <1>12, EndFiled DEF End
  <2> QED  BY <1>2, <2>1
<1>13. CASE EndInside
  BY <1>13 DEF EndInside, Orderly
<1> QED
  BY <1>4, <1>5, <1>6, <1>7, <1>8, <1>9, <1>10, <1>11, <1>12, <1>13 DEF Next

\* What is known of a month is never less than its files say.
LEMMA KnownStored ==
  ASSUME Types, Filed
  PROVE  Known >= Total(Stores) /\ Known \in Int
<1> DEFINE usages == [m \in Months |-> Usage(m)]
<1>1. \A m \in Months : Usage(m) \in Int /\ Stored(m) <= Usage(m)
  BY StoredNat DEF Usage, Filed, On, Types, Months
<1>2. usages \in [Months -> Int] /\ \A m \in Months : Stores[m] <= usages[m]
  BY <1>1 DEF Stores
<1>3. Known = Total(usages) /\ LastMonth \in 0..LastMonth
  BY UsageConstants DEF Known
<1> HIDE DEF usages
<1>4. Stores \in [Months -> Int]
  BY StoredNat
<1>5. Total(Stores) <= Total(usages) /\ Total(usages) \in Int /\ Total(Stores) \in Int
  BY <1>2, <1>3, <1>4, TotalLess, UpToIs
<1> QED  BY <1>3, <1>5

\* What upLoop counted stays counted, in its month or the next one, over new
\* connections, new months, changes of features, orderly ends and reboots.
THEOREM UsageNothingForgotten == Spec => []NothingForgotten
<1>1. Init => Counted /\ (Orderly => Booked)
  BY InitCounted, InitBooked
<1>2. (Counted /\ (Orderly => Booked)) /\ [Next]_vars => (Counted /\ (Orderly => Booked))'
  <2>1. [Next]_vars => Orderly' = Orderly
    BY NextWorld DEF Orderly
  <2> QED  BY <2>1, NextCounted, NextBooked
<1>3. Counted /\ (Orderly => Booked) => NothingForgotten
  <2>1. ASSUME Counted, Orderly, Booked  PROVE Known >= kept
    <3>1. Types /\ Filed /\ Total(Stores) >= kept /\ kept \in Nat
      BY <2>1 DEF Counted, Sound, Tallies, Booked
    <3> QED  BY <3>1, KnownStored, StoresInt
  <2> QED  BY <2>1 DEF NothingForgotten, Orderly
<1> QED  BY <1>1, <1>2, <1>3, PTL DEF Spec

-----------------------------------------------------------------------------
(* What is counted once                                                    *)

Larger(a, b) == IF a > b THEN a ELSE b

\* The most that a restart, in whatever order the files are lost, can find of
\* a month.
Most(m) == Larger(Usage(m), Larger(tmp[m], file[m]))

Mosts == [m \in Months |-> Most(m)]

\* What monitor knows of no month yet, or has not read yet.
Pending == IF On THEN unread + (IF usageMonth = 0 THEN monthly ELSE 0) ELSE 0

\* The counter is where last_rx_bytes is, and what was not read yet beyond it.
Follows == counter = last + unread \/ counter = last + unread - Wrap

OneCounter == world \cap {"reset", "early"} = {}

Once ==
    /\ Total(Mosts) + Pending <= actual
    /\ On /\ up => Follows

LEMMA DeltaUnread ==
  ASSUME Types, Tallies, Follows
  PROVE  Delta = unread
BY UsageConstants DEF Types, Tallies, Follows, Delta

LEMMA MostNat ==
  ASSUME Types
  PROVE  /\ \A m \in Months : Most(m) \in Nat
         /\ Mosts \in [Months -> Int]
<1>1. \A m \in Months : Usage(m) \in Nat /\ tmp[m] \in Amounts /\ file[m] \in Amounts
  BY StoredNat DEF Types, Usage
<1>2. \A m \in Months : Most(m) \in Nat
  BY <1>1 DEF Most, Larger, Amounts, None
<1> QED  BY <1>2 DEF Mosts

\* What a month can have at most grows by what its parts grow by.
LEMMA MostGrows ==
  ASSUME Types, Types', NEW m \in Months, NEW d \in Nat,
         Usage(m)' <= Most(m) + d, tmp'[m] <= Most(m) + d, file'[m] <= Most(m) + d
  PROVE  Most(m)' <= Most(m) + d
BY DEF Most, Larger

LEMMA MostParts ==
  ASSUME Types, NEW m \in Months
  PROVE  Usage(m) <= Most(m) /\ tmp[m] <= Most(m) /\ file[m] <= Most(m) /\ Stored(m) <= Most(m)
<1>1. Usage(m) \in Nat /\ tmp[m] \in Amounts /\ file[m] \in Amounts /\ Stored(m) \in Nat
  BY StoredNat DEF Types, Usage
<1>2. Usage(m) <= Most(m) /\ tmp[m] <= Most(m) /\ file[m] <= Most(m)
  BY <1>1 DEF Most, Larger, Amounts, None
<1>3. Most(m) >= 0
  BY MostNat
<1> QED  BY <1>1, <1>2, <1>3 DEF Stored

LEMMA MostStep ==
  ASSUME Types, Types', NEW k \in Months, NEW d \in Nat,
         \A m \in Months : m # k => Most(m)' <= Most(m),
         Most(k)' <= Most(k) + d
  PROVE  Total(Mosts)' <= Total(Mosts) + d /\ Total(Mosts) \in Int /\ Total(Mosts)' \in Int
<1>1. /\ Mosts \in [Months -> Int]
      /\ \A m \in Months : Mosts[m] = Most(m)
  BY MostNat DEF Mosts
<1>2. /\ Mosts' \in [Months -> Int]
      /\ \A m \in Months : Mosts'[m] = Most(m)'
  <2>1. \A m \in Months : Usage(m)' \in Nat /\ tmp'[m] \in Amounts /\ file'[m] \in Amounts
    BY DEF Types, Usage, Stored, Amounts, None
  <2>2. \A m \in Months : Most(m)' \in Nat
    BY <2>1 DEF Most, Larger, Amounts, None
  <2> QED  BY <2>2 DEF Mosts
<1>3. PICK f, g : f = Mosts /\ g = Mosts'
  OBVIOUS
<1>4. Total(f) = Total(Mosts) /\ Total(g) = Total(Mosts)'
  BY <1>3 DEF Total
<1>5. Total(g) + (0 - d) <= Total(f) /\ Total(f) \in Int /\ Total(g) \in Int
  <2>1. /\ f \in [Months -> Int] /\ g \in [Months -> Int] /\ 0 - d \in Int
        /\ \A m \in Months : m # k => g[m] <= f[m]
    BY <1>1, <1>2, <1>3
  <2>2. g[k] <= f[k] + d /\ g[k] \in Int /\ f[k] \in Int
    BY <1>1, <1>2, <1>3
  <2>3. g[k] + (0 - d) <= f[k] /\ LastMonth \in 0..LastMonth
    BY <2>2, UsageConstants
  <2> HIDE DEF Mosts
  <2> QED  BY <2>1, <2>3, TotalStep, UpToIs
<1> QED  BY <1>4, <1>5

LEMMA MostLess ==
  ASSUME Types, Types', \A m \in Months : Most(m)' <= Most(m)
  PROVE  Total(Mosts)' <= Total(Mosts) /\ Total(Mosts) \in Int /\ Total(Mosts)' \in Int
<1>1. 1 \in Months /\ Most(1)' <= Most(1) + 0
  <2>1. 1 \in Months
    BY UsageConstants DEF Months
  <2> QED  BY <2>1, MostNat
<1> QED  BY <1>1, MostStep

LEMMA RecallMost ==
  ASSUME Types, Types', On, place' # "off", usageMonth = 0, Recall, clock' = clock
  PROVE  /\ Total(Mosts)' <= Total(Mosts) + monthly
         /\ Total(Mosts) \in Int /\ Total(Mosts)' \in Int
<1>1. PICK k \in Months, d \in Nat : k = clock /\ d = monthly
  BY DEF Types
<1>2. PICK total \in Nat : total = Stored(k) + d
  BY <1>1, StoredNat
<1>3. /\ usageMonth' = k /\ monthly' = total /\ usageMonth \notin Months
      /\ \A m \in Months : m # k => tmp'[m] = tmp[m] /\ file'[m] = file[m]
      /\ tmp'[k] = total /\ file'[k] \in {total, file[k]}
  BY <1>1, <1>2 DEF Recall, Types, Months
<1>4. ASSUME NEW m \in Months, m # k  PROVE Most(m)' = Most(m)
  BY <1>3, <1>4 DEF Most, Usage, Stored
<1>5. Most(k)' <= Most(k) + d
  <2>1. /\ Usage(k)' = total /\ total <= Most(k) + d
        /\ tmp[k] <= Most(k) /\ file[k] <= Most(k) /\ Most(k) \in Nat
        /\ tmp[k] \in Amounts /\ file[k] \in Amounts
    BY <1>2, <1>3, MostParts, MostNat, StoredNat DEF Usage, Types
  <2>2. tmp'[k] <= Most(k) + d /\ file'[k] <= Most(k) + d
    BY <1>3, <2>1 DEF Amounts, None
  <2> QED  BY <2>1, <2>2, MostGrows
<1>6. \A m \in Months : m # k => Most(m)' <= Most(m)
  BY <1>4, MostNat
<1>7. /\ Total(Mosts)' <= Total(Mosts) + d
      /\ Total(Mosts) \in Int /\ Total(Mosts)' \in Int
  BY <1>5, <1>6, MostStep
<1> QED  BY <1>1, <1>7

LEMMA UpdateMost ==
  ASSUME Types, Types', On, place' # "off", usageMonth # 0, clock' = clock,
         NEW d \in Nat, NEW n \in Nat, n = monthly + d, Update(n)
  PROVE  /\ usageMonth' # 0
         /\ Total(Mosts)' <= Total(Mosts) + d
         /\ Total(Mosts) \in Int /\ Total(Mosts)' \in Int
<1>1. PICK k \in Months, c \in Months : k = usageMonth /\ c = clock
  BY DEF Types, Months
<1>2. /\ Usage(k) = monthly /\ n <= Most(k) + d /\ Most(k) \in Nat
      /\ tmp[k] <= Most(k) /\ file[k] <= Most(k)
      /\ tmp[k] \in Amounts /\ file[k] \in Amounts
  <2>1. Usage(k) = monthly /\ monthly \in Nat
    BY <1>1 DEF Usage, On, Types
  <2> QED  BY <2>1, MostParts, MostNat DEF Types
<1>3. CASE c = k
  <2>1. /\ monthly' = n /\ file' = file /\ usageMonth' = k
        /\ tmp'[k] = n /\ \A m \in Months : m # k => tmp'[m] = tmp[m]
    BY <1>1, <1>3 DEF Update, Types
  <2>2. Most(k)' <= Most(k) + d
    <3>1. Usage(k)' = n /\ tmp'[k] <= Most(k) + d
      BY <1>2, <2>1 DEF Usage
    <3>2. file'[k] <= Most(k) + d
      BY <1>2, <2>1 DEF Amounts, None
    <3> QED  BY <1>2, <3>1, <3>2, MostGrows
  <2>3. ASSUME NEW m \in Months, m # k  PROVE Most(m)' = Most(m)
    BY <1>1, <2>1, <2>3 DEF Most, Usage, Stored
  <2>4. \A m \in Months : m # k => Most(m)' <= Most(m)
    BY <2>3, MostNat
  <2> QED  BY <2>1, <2>2, <2>4, MostStep DEF Months
<1>4. CASE c # k
  <2>1. /\ monthly' = 0 /\ usageMonth' = c
        /\ tmp'[c] = 0 /\ file'[c] = 0 /\ tmp'[k] = None /\ file'[k] = n
        /\ \A m \in Months : m \notin {c, k} => tmp'[m] = tmp[m] /\ file'[m] = file[m]
    BY <1>1, <1>4 DEF Update, Types
  <2>2. Most(k)' <= Most(k) + d
    <3>1. Usage(k)' = n
      BY <1>4, <2>1 DEF Usage, Stored, None
    <3>2. tmp'[k] <= Most(k) + d
      BY <1>2, <2>1 DEF None
    <3> QED  BY <1>2, <2>1, <3>1, <3>2, MostGrows
  <2>3. Most(c)' <= Most(c)
    <3>1. Most(c)' = 0
      BY <2>1 DEF Most, Usage, Larger
    <3> QED  BY <3>1, MostNat
  <2>4. ASSUME NEW m \in Months, m \notin {c, k}  PROVE Most(m)' = Most(m)
    BY <1>1, <2>1, <2>4 DEF Most, Usage, Stored
  <2>5. \A m \in Months : m # k => Most(m)' <= Most(m)
    BY <2>3, <2>4, MostNat
  <2> QED  BY <2>1, <2>2, <2>5, MostStep DEF Months
<1> QED  BY <1>3, <1>4

\* A process that ends, however it does, leaves no more than it knew.
LEMMA EndMost ==
  ASSUME Types, Types', End
  PROVE  \A m \in Months : Most(m)' <= Most(m)
<1>1. /\ place # "off" /\ place' = "off" /\ usageMonth' = usageMonth /\ monthly' = monthly
      /\ tmp' = tmp \/ tmp' = [m \in Months |-> None]
      /\ file' = file \/ Write
  BY DEF End, memoryVars
<1> SUFFICES ASSUME NEW m \in Months  PROVE Most(m)' <= Most(m)
  OBVIOUS
<1>2. /\ tmp[m] \in Amounts /\ file[m] \in Amounts /\ Most(m) \in Nat
      /\ tmp[m] <= Most(m) /\ file[m] <= Most(m) /\ Usage(m) <= Most(m)
  BY MostParts, MostNat DEF Types
<1>3. tmp'[m] = tmp[m] \/ tmp'[m] = None
  BY <1>1
<1>4. file'[m] = file[m] \/ (m = usageMonth /\ file'[m] = monthly)
  BY <1>1 DEF Write
<1>5. m = usageMonth => monthly <= Most(m)
  BY <1>1, <1>2 DEF Usage
<1>6. tmp'[m] <= Most(m) + 0 /\ file'[m] <= Most(m) + 0
  <2>1. tmp'[m] <= Most(m)
    BY <1>2, <1>3 DEF Amounts, None
  <2>2. file'[m] <= Most(m)
    BY <1>2, <1>4, <1>5
  <2>3. tmp'[m] \in Int /\ file'[m] \in Int
    BY DEF Types, Amounts, None
  <2> QED  BY <1>2, <2>1, <2>2, <2>3
<1>7. Usage(m)' <= Most(m) + 0
  <2>1. Usage(m)' = Stored(m)'
    BY <1>1 DEF Usage
  <2> QED  BY <1>2, <1>6, <2>1 DEF Stored
<1>8. Most(m)' <= Most(m) + 0
  BY <1>6, <1>7, MostGrows
<1> QED  BY <1>2, <1>8

\* Inside an update or a recall, what was read and not stored yet may be stored.
LEMMA InsideMost ==
  ASSUME Types, Types', Tallies, Begun, EndInside, On /\ up => Delta = unread
  PROVE  /\ Total(Mosts)' <= Total(Mosts) + Pending
         /\ Total(Mosts) \in Int /\ Total(Mosts)' \in Int
<1>1. /\ On /\ place' = "off" /\ UNCHANGED <<usageMonth, monthly, clock>>
      /\ monthly \in Nat /\ unread \in Nat /\ clock \in Months /\ Delta \in Nat
  BY DeltaNat, UsageConstants DEF EndInside, memoryVars, On, Types, Tallies
<1>2. ASSUME NEW k \in Months, NEW d \in Nat, d <= Pending, Pending \in Nat,
             \A m \in Months :
               /\ tmp'[m] = tmp[m] \/ tmp'[m] = None
               /\ \/ file'[m] = file[m] \/ file'[m] = 0
                  \/ m = k /\ file'[m] \in Nat /\ file'[m] <= Most(m) + d
      PROVE  /\ Total(Mosts)' <= Total(Mosts) + Pending
             /\ Total(Mosts) \in Int /\ Total(Mosts)' \in Int
  <2>1. ASSUME NEW m \in Months, NEW e \in Nat, m = k => e = d
        PROVE  Most(m)' <= Most(m) + e
    <3>1. /\ tmp[m] \in Amounts /\ file[m] \in Amounts /\ Most(m) \in Nat
          /\ tmp[m] <= Most(m) /\ file[m] <= Most(m)
      BY MostParts, MostNat DEF Types
    <3>2. tmp'[m] <= Most(m) + e
      BY <1>2, <3>1 DEF Amounts, None
    <3>3. file'[m] <= Most(m) + e
      BY <1>2, <2>1, <3>1 DEF Amounts, None
    <3>4. Usage(m)' <= Most(m) + e
      <4>1. Usage(m)' = Stored(m)'
        BY <1>1 DEF Usage
      <4> QED  BY <3>1, <3>2, <3>3, <4>1 DEF Stored
    <3> QED  BY <3>2, <3>3, <3>4, MostGrows
  <2>2. ASSUME NEW m \in Months, m # k  PROVE Most(m)' <= Most(m)
    <3>1. Most(m)' <= Most(m) + 0
      BY <2>1, <2>2
    <3> QED  BY <3>1, MostNat
  <2>3. Most(k)' <= Most(k) + d
    BY <2>1
  <2>4. /\ Total(Mosts)' <= Total(Mosts) + d
        /\ Total(Mosts) \in Int /\ Total(Mosts)' \in Int
    BY <2>2, <2>3, MostStep
  <2> QED  BY <1>2, <2>4
<1>3. CASE first
  <2>1. usageMonth = 0 /\ Pending = unread + monthly
    BY <1>1, <1>3 DEF Begun, Pending
  <2>2. tmp' = tmp /\ file' = [file EXCEPT ![clock] = monthly]
    BY <1>3 DEF EndInside, PartlyRecalled
  <2>3. PICK k \in Months, d \in Nat : k = clock /\ d = monthly
    BY <1>1
  <2>4. d <= Pending /\ Pending \in Nat /\ d <= Most(k) + d /\ Most(k) \in Nat
    BY <1>1, <2>1, <2>3, MostNat
  <2>5. \A m \in Months :
          /\ tmp'[m] = tmp[m]
          /\ file'[m] = file[m] \/ (m = k /\ file'[m] = d)
    BY <2>2, <2>3 DEF Types
  <2> QED  BY <1>2, <2>4, <2>5
<1>4. CASE ~first
  <2>1. usageMonth # 0 /\ Pending = unread
    BY <1>1, <1>4 DEF Begun, Pending
  <2>2. PICK k \in 0..5 : \E n \in {monthly} \cup (IF place = "up" /\ up THEN {monthly + Delta} ELSE {}) :
          PartlyUpdated(n, k)
    BY <1>4 DEF EndInside
  <2>3. PICK d \in Nat : d <= unread /\ PartlyUpdated(monthly + d, k)
    <3>1. CASE PartlyUpdated(monthly, k)
      <4>1. PartlyUpdated(monthly + 0, k)
        <5>1. monthly + 0 = monthly
          BY <1>1
        <5> QED  BY <3>1, <5>1
      <4> QED  BY <1>1, <4>1
    <3>2. CASE up /\ PartlyUpdated(monthly + Delta, k)
      BY <1>1, <3>2
    <3> QED  BY <2>2, <3>1, <3>2
  <2>4. PICK u \in Months, n \in Nat : u = usageMonth /\ n = monthly + d
    BY <1>1, <2>1 DEF Types, Months
  <2>5. \A m \in Months :
          /\ tmp'[m] = tmp[m] \/ tmp'[m] = None
          /\ file'[m] = file[m] \/ file'[m] = 0 \/ (m = u /\ file'[m] = n)
    BY <2>3, <2>4, PartlyFiles
  <2>6. n <= Most(u) + d
    <3>1. Usage(u) = monthly /\ Usage(u) <= Most(u) /\ Most(u) \in Nat
      BY <1>1, <2>4, MostParts, MostNat DEF Usage, On
    <3> QED  BY <1>1, <2>4, <3>1
  <2> QED  BY <1>1, <1>2, <2>1, <2>3, <2>4, <2>5, <2>6
<1> QED  BY <1>3, <1>4

LEMMA InitOnce == Init => Once
<1> SUFFICES ASSUME Init  PROVE Once
  OBVIOUS
<1>1. Types
  BY InitSound DEF Sound
<1>2. \A m \in Months : Mosts[m] = 0
  BY DEF Init, Mosts, Most, Larger, Usage, Stored, None, Months
<1>3. Total(Mosts) = 0
  BY <1>1, <1>2, MostNat, TotalNone
<1> QED  BY <1>3 DEF Init, Once, Pending

LEMMA PendingNat == Types /\ Tallies => Pending \in Nat
BY UsageConstants DEF Types, Tallies, Pending

LEMMA NextOnce ==
  ASSUME Counted, Counted', OneCounter, Once, [Next]_vars
  PROVE  Once'
<1> USE DEF memoryVars, fileVars, linkVars, boundVars
<1>1. /\ Types /\ Types' /\ Tallies /\ Tallies' /\ Begun /\ Wrap \in Nat
      /\ Total(Mosts) \in Int /\ Pending \in Nat /\ Total(Mosts) + Pending <= actual
      /\ Delta \in Nat /\ monthly \in Nat /\ unread \in Nat /\ actual \in Nat
  <2>1. Types /\ Types' /\ Tallies /\ Tallies' /\ Begun /\ Total(Mosts) + Pending <= actual
    BY DEF Counted, Sound, Once, OneCounter, Early
  <2>2. Total(Mosts) \in Int
    <3>1. \A m \in Months : Most(m) \in Nat /\ Mosts \in [Months -> Int]
      BY <2>1, MostNat
    <3>2. 1 \in Months /\ LastMonth \in 0..LastMonth
      BY UsageConstants DEF Months
    <3> QED  BY <3>1, <3>2, UpToIs
  <2> QED  BY <2>1, <2>2, PendingNat, DeltaNat, UsageConstants DEF Types, Tallies
<1>2. ASSUME Total(Mosts)' <= Total(Mosts), Total(Mosts)' \in Int,
             Pending' <= Pending, Pending' \in Nat, actual' = actual, On' /\ up' => Follows'
      PROVE  Once'
  BY <1>1, <1>2 DEF Once
<1>3. ASSUME \A m \in Months : Most(m)' = Most(m)
      PROVE  Total(Mosts)' <= Total(Mosts) /\ Total(Mosts)' \in Int
  BY <1>1, <1>3, MostNat, MostLess
<1>4. Pending' \in Nat
  <2>1. (Types /\ Tallies)' => (Pending \in Nat)'
    BY PendingNat, PTL
  <2>2. Types' /\ Tallies'
    BY <1>1
  <2> QED  BY <2>1, <2>2
<1>5. On /\ up => Delta = unread
  BY <1>1, DeltaUnread DEF Once
<1>6. CASE UNCHANGED vars
  <2>1. \A m \in Months : Most(m)' = Most(m)
    BY <1>6 DEF vars, Most, Usage, Stored
  <2>2. Pending' = Pending /\ actual' = actual /\ (On' /\ up' => Follows')
    BY <1>6 DEF vars, Pending, On, Follows, Once
  <2> QED  BY <1>1, <1>2, <1>3, <2>1, <2>2
<1>7. CASE Dial
  <2>1. \A m \in Months : Most(m)' = Most(m)
    BY <1>7 DEF Dial, Most, Usage, Stored
  <2>2. Pending' <= Pending /\ actual' = actual /\ Follows'
    BY <1>1, <1>7 DEF Dial, Pending, On, Follows
  <2> QED  BY <1>2, <1>3, <1>4, <2>1, <2>2
<1>8. CASE LinkLost \/ Drop
  <2>1. \A m \in Months : Most(m)' = Most(m)
    BY <1>8 DEF LinkLost, Drop, Most, Usage, Stored
  <2>2. Pending' = Pending /\ actual' = actual /\ (On' /\ up' => Follows')
    BY <1>8 DEF LinkLost, Drop, Pending, On, Follows, Once
  <2> QED  BY <1>1, <1>2, <1>3, <2>1, <2>2
<1>9. CASE Month
  <2>1. UNCHANGED <<place, memoryVars, fileVars, linkVars, kept>>
    BY <1>9 DEF Month
  <2>2. \A m \in Months : Most(m)' = Most(m)
    BY <2>1 DEF Most, Usage, Stored
  <2>3. Pending' = Pending /\ actual' = actual /\ (On' /\ up' => Follows')
    BY <2>1 DEF Pending, On, Follows, Once
  <2> QED  BY <1>1, <1>2, <1>3, <2>2, <2>3
<1>10. CASE Start
  <2>1. \A m \in Months : Most(m)' = Most(m)
    BY <1>10 DEF Start, Most, Usage, Stored, Months
  <2>2. Pending' <= Pending /\ actual' = actual /\ (up' => Follows')
    BY <1>1, <1>10 DEF Start, Pending, On, Follows, Types
  <2> QED  BY <1>2, <1>3, <1>4, <2>1, <2>2
<1>11. CASE End
  <2>1. Total(Mosts)' <= Total(Mosts) /\ Total(Mosts)' \in Int
    BY <1>1, <1>11, EndMost, MostLess
  <2>2. Pending' <= Pending /\ actual' = actual /\ ~On'
    BY <1>1, <1>11 DEF End, Pending, On
  <2> QED  BY <1>2, <1>4, <2>1, <2>2
<1>12. CASE Traffic
  <2>1. \A m \in Months : Most(m)' = Most(m)
    BY <1>12 DEF Traffic, Most, Usage, Stored
  <2>2. /\ UNCHANGED <<up, place, memoryVars>> /\ up /\ unread < Wrap - 1
        /\ actual' = actual + 1 /\ unread' = unread + 1
        /\ counter' = (counter + 1) % Wrap
    BY <1>12 DEF Traffic
  <2>3. Pending' <= Pending + 1
    BY <1>1, <2>2 DEF Pending, On
  <2>4. Total(Mosts)' <= Total(Mosts) /\ Total(Mosts)' \in Int
    BY <1>3, <2>1
  <2>5. Total(Mosts)' + Pending' <= actual'
    BY <1>1, <1>4, <2>2, <2>3, <2>4
  <2>6. On' => Follows'
    <3>1. counter' = IF counter + 1 = Wrap THEN 0 ELSE counter + 1
      <4>1. counter \in 0..(Wrap - 1) /\ Wrap > 1
        BY <1>1, UsageConstants DEF Types
      <4>2. counter + 1 < Wrap => (counter + 1) % Wrap = counter + 1
        BY <1>1, <4>1
      <4>3. Wrap % Wrap = 0
        BY <1>1, <4>1
      <4> QED  BY <1>1, <2>2, <4>1, <4>2, <4>3
    <3>2. On => Follows
      BY <2>2 DEF Once
    <3> QED  BY <1>1, <2>2, <3>1, <3>2, UsageConstants DEF Follows, On, Types, Tallies
  <2> QED  BY <2>5, <2>6 DEF Once
<1>13. CASE ModemReset
  BY <1>13 DEF ModemReset, OneCounter
<1>14. CASE Connected
  <2>1. /\ On /\ place' = "up" /\ place' # "off" /\ clock' = clock
        /\ UNCHANGED <<last, up, counter, actual, unread>>
    BY <1>14 DEF Connected, On
  <2>2. On' /\ up' => Follows'
    BY <2>1 DEF Follows, Once, On
  <2>3. usageMonth' # 0 => Pending' = unread
    <3>1. place' # "off" /\ unread' = unread /\ unread \in Nat
      BY <1>1, <2>1
    <3> QED  BY <3>1 DEF Pending, On
  <2>4. CASE first
    <3>1. usageMonth = 0 /\ Recall /\ usageMonth' # 0
      BY <1>1, <1>14, <2>1, <2>4 DEF Connected, Begun, Recall, Types, Months
    <3>2. Total(Mosts)' <= Total(Mosts) + monthly /\ Total(Mosts)' \in Int
      BY <1>1, <2>1, <3>1, RecallMost
    <3>3. Pending = unread + monthly
      BY <2>1, <3>1 DEF Pending
    <3>4. Total(Mosts)' + Pending' <= actual'
      BY <1>1, <2>1, <2>3, <3>1, <3>2, <3>3
    <3> QED  BY <2>2, <3>4 DEF Once
  <2>5. CASE ~first
    <3>1. usageMonth # 0 /\ Update(monthly) /\ monthly = monthly + 0
      BY <1>1, <1>14, <2>1, <2>5 DEF Connected, Begun
    <3>2. usageMonth' # 0 /\ Total(Mosts)' <= Total(Mosts) + 0 /\ Total(Mosts)' \in Int
      BY <1>1, <2>1, <3>1, UpdateMost
    <3>3. Pending' <= Pending
      BY <1>1, <2>1, <2>3, <3>1, <3>2 DEF Pending
    <3> QED  BY <1>1, <1>2, <1>4, <2>1, <2>2, <3>2, <3>3
  <2> QED  BY <2>4, <2>5
<1>15. CASE FeatureChange
  <2>1. /\ On /\ place' = place /\ place' # "off" /\ clock' = clock /\ ~first
        /\ UNCHANGED <<last, up, counter, actual, unread>> /\ Update(monthly)
        /\ monthly = monthly + 0
    BY <1>1, <1>15 DEF FeatureChange, On, OneCounter
  <2>2. usageMonth # 0
    BY <1>1, <2>1 DEF Begun
  <2>3. usageMonth' # 0 /\ Total(Mosts)' <= Total(Mosts) + 0 /\ Total(Mosts)' \in Int
    BY <1>1, <2>1, <2>2, UpdateMost
  <2>4. Pending' <= Pending /\ (On' /\ up' => Follows')
    BY <1>1, <2>1, <2>2, <2>3 DEF Pending, On, Follows, Once
  <2> QED  BY <1>1, <1>2, <1>4, <2>1, <2>3, <2>4
<1>16. CASE ReadDialing
  <2>1. /\ On /\ up /\ On' /\ monthly' = monthly + Delta /\ last' = counter /\ unread' = 0
        /\ Delta = unread
        /\ UNCHANGED <<place, usageMonth, fileVars, counter, actual>>
    BY <1>5, <1>16 DEF ReadDialing, On
  <2>2. Follows'
    BY <1>1, <2>1 DEF Follows, Types
  <2>3. CASE usageMonth = 0
    <3>1. \A m \in Months : Most(m)' = Most(m)
      BY <2>1, <2>3 DEF Most, Usage, Stored, Months
    <3>2. Pending' <= Pending
      BY <1>1, <2>1, <2>3 DEF Pending
    <3> QED  BY <1>2, <1>3, <1>4, <2>1, <2>2, <3>1, <3>2
  <2>4. CASE usageMonth # 0
    <3>1. PICK k \in Months, d \in Nat : k = usageMonth /\ d = Delta
      BY <1>1, <2>4 DEF Types, Months
    <3>2. ASSUME NEW m \in Months, m # k  PROVE Most(m)' <= Most(m)
      <4>1. Most(m)' = Most(m)
        BY <2>1, <3>1, <3>2 DEF Most, Usage, Stored
      <4> QED  BY <1>1, <4>1, MostNat
    <3>3. Most(k)' <= Most(k) + d
      <4>1. Usage(k) = monthly /\ Usage(k)' = monthly + d
        BY <2>1, <3>1 DEF Usage, On
      <4>2. /\ monthly <= Most(k) /\ tmp[k] <= Most(k) /\ file[k] <= Most(k) /\ Most(k) \in Nat
            /\ tmp[k] \in Amounts /\ file[k] \in Amounts
        BY <1>1, <4>1, MostParts, MostNat DEF Types
      <4>3. Usage(k)' <= Most(k) + d /\ tmp'[k] <= Most(k) + d /\ file'[k] <= Most(k) + d
        BY <1>1, <2>1, <4>1, <4>2 DEF Amounts, None
      <4> QED  BY <1>1, <4>3, MostGrows
    <3>4. Total(Mosts)' <= Total(Mosts) + d /\ Total(Mosts)' \in Int
      BY <1>1, <3>2, <3>3, MostStep
    <3>5. Pending = d /\ Pending' = 0
      BY <1>1, <2>1, <2>4, <3>1 DEF Pending
    <3>6. Total(Mosts)' + Pending' <= actual'
      BY <1>1, <2>1, <3>4, <3>5
    <3> QED  BY <2>2, <3>6 DEF Once
  <2> QED  BY <2>3, <2>4
<1>17. CASE ReadUp
  <2>1. /\ On /\ up /\ On' /\ place' = place /\ place' # "off" /\ place = "up"
        /\ last' = counter /\ unread' = 0 /\ Delta = unread
        /\ UNCHANGED <<clock, counter, actual>>
    BY <1>5, <1>17 DEF ReadUp, On
  <2>2. Follows' /\ usageMonth # 0
    BY <1>1, <2>1 DEF Follows, Types, Begun
  <2>3. Pending = unread
    BY <1>1, <2>1, <2>2 DEF Pending
  <2>4. CASE Delta > 0
    <3>1. PICK d \in Nat, n \in Nat : d = Delta /\ n = monthly + d
      BY <1>1
    <3>2. Update(n)
      BY <1>17, <2>4, <3>1 DEF ReadUp
    <3>3. usageMonth' # 0 /\ Total(Mosts)' <= Total(Mosts) + d /\ Total(Mosts)' \in Int
      BY <1>1, <2>1, <2>2, <3>1, <3>2, UpdateMost
    <3>4. Pending' = 0
      BY <2>1, <3>3 DEF Pending
    <3>5. Total(Mosts)' + Pending' <= actual'
      BY <1>1, <2>1, <2>3, <3>1, <3>3, <3>4
    <3> QED  BY <2>2, <3>5 DEF Once
  <2>5. CASE ~(Delta > 0)
    <3>1. UNCHANGED <<monthly, usageMonth, fileVars>> /\ unread = 0
      BY <1>1, <1>17, <2>1, <2>5 DEF ReadUp
    <3>2. \A m \in Months : Most(m)' = Most(m)
      BY <2>1, <3>1 DEF Most, Usage, Stored
    <3>3. Pending' <= Pending
      BY <1>1, <2>1, <2>2, <3>1 DEF Pending
    <3> QED  BY <1>2, <1>3, <1>4, <2>1, <2>2, <3>2, <3>3
  <2> QED  BY <2>4, <2>5
<1>18. CASE EndInside
  <2>1. Total(Mosts)' <= Total(Mosts) + Pending /\ Total(Mosts)' \in Int
    BY <1>1, <1>5, <1>18, InsideMost
  <2>2. Pending' = 0 /\ actual' = actual /\ ~On'
    BY <1>18 DEF EndInside, Pending, On
  <2> QED  BY <1>1, <2>1, <2>2 DEF Once
<1> QED
  BY <1>6, <1>7, <1>8, <1>9, <1>10, <1>11, <1>12, <1>13, <1>14, <1>15, <1>16, <1>17, <1>18
  DEF Next

\* Nothing is counted twice, whatever ends the process or takes its files,
\* over wraps of the counter, new connections, restarts, new months and changes
\* of the clock, as long as the counter does not begin anew under its
\* interface and no short term begins before the first connection.
THEOREM UsageNotOverCounted == Spec => []NotOverCounted
<1>1. Init => Counted /\ (OneCounter => Once)
  BY InitCounted, InitOnce
<1>2. (Counted /\ (OneCounter => Once)) /\ [Next]_vars => (Counted /\ (OneCounter => Once))'
  <2>1. [Next]_vars => OneCounter' = OneCounter
    BY NextWorld DEF OneCounter
  <2> QED  BY <2>1, NextCounted, NextOnce
<1>3. Counted /\ (OneCounter => Once) => NotOverCounted
  <2> SUFFICES ASSUME Counted, OneCounter, Once
               PROVE  Known + (IF usageMonth = 0 /\ place # "off" THEN monthly ELSE 0) <= actual
    BY DEF NotOverCounted, OneCounter
  <2> DEFINE usages == [m \in Months |-> Usage(m)]
  <2>1. /\ Types /\ Tallies /\ Total(Mosts) + Pending <= actual
        /\ monthly \in Nat /\ unread \in Nat /\ actual \in Nat
    BY UsageConstants DEF Counted, Sound, Once, Types, Tallies
  <2>2. /\ Mosts \in [Months -> Int]
        /\ \A m \in Months : Usage(m) \in Int /\ Usage(m) <= Mosts[m]
    BY <2>1, MostNat, MostParts, StoredNat DEF Mosts, Usage, Types
  <2>3. usages \in [Months -> Int] /\ \A m \in Months : usages[m] <= Mosts[m]
    BY <2>2
  <2>4. Known = Total(usages) /\ LastMonth \in 0..LastMonth
    BY UsageConstants DEF Known
  <2> HIDE DEF usages
  <2>5. Total(usages) <= Total(Mosts) /\ Total(usages) \in Int /\ Total(Mosts) \in Int
    BY <2>2, <2>3, <2>4, TotalLess, UpToIs
  <2>6. (IF usageMonth = 0 /\ place # "off" THEN monthly ELSE 0) <= Pending /\ Pending \in Nat
    BY <2>1, PendingNat DEF Pending, On
  <2> QED  BY <2>1, <2>4, <2>5, <2>6
<1> QED  BY <1>1, <1>2, <1>3, PTL DEF Spec

-----------------------------------------------------------------------------
(* The types                                                               *)

Bounds ==
    /\ up \in BOOLEAN /\ place \in {"off", "down", "dialing", "up"}
    /\ actual \in 0..MaxTraffic /\ ends \in 0..MaxEnds /\ world \in Worlds

LEMMA NextBounds == Bounds /\ [Next]_vars => Bounds'
<1> SUFFICES ASSUME Bounds, [Next]_vars  PROVE Bounds'
  OBVIOUS
<1> USE UsageConstants DEF Bounds, memoryVars, fileVars, linkVars, boundVars
<1>1. CASE Dial \/ ReadDialing \/ Connected \/ ReadUp \/ LinkLost \/ UNCHANGED vars
  BY <1>1 DEF Dial, ReadDialing, Connected, ReadUp, LinkLost, vars
<1>2. CASE FeatureChange \/ End \/ EndInside
  <2>1. ends < MaxEnds /\ ends' = ends + 1
    BY <1>2 DEF FeatureChange, End, EndInside
  <2>2. ends' \in 0..MaxEnds
    BY <2>1
  <2>3. UNCHANGED <<actual, world>> /\ up' \in {up, FALSE} /\ place' \in {place, "off"}
    BY <1>2 DEF FeatureChange, End, EndInside
  <2> QED  BY <2>2, <2>3
<1>3. CASE Start \/ Drop \/ ModemReset \/ Month
  BY <1>3 DEF Start, Drop, ModemReset, Month
<1>4. CASE Traffic
  <2>1. actual < MaxTraffic /\ actual' = actual + 1 /\ UNCHANGED <<up, place, ends, world>>
    BY <1>4 DEF Traffic
  <2>2. actual' \in 0..MaxTraffic
    BY <2>1
  <2> QED  BY <2>1, <2>2
<1> QED  BY <1>1, <1>2, <1>3, <1>4 DEF Next

\* The counters stay counters: no difference of two readings is negative, no
\* file holds anything but an amount, and the month is one of the calendar.
THEOREM UsageTypeOK == Spec => []TypeOK
<1>1. Init => Counted /\ Bounds
  <2>1. Init => Bounds
    <3>1. 0 \in 0..MaxTraffic /\ 0 \in 0..MaxEnds
      BY UsageConstants
    <3> QED  BY <3>1, Zenon DEF Init, Bounds
  <2> QED  BY <2>1, InitCounted
<1>2. Counted /\ Bounds => TypeOK
  BY DEF Counted, Sound, Types, Tallies, Amounts, Bounds, TypeOK
<1> QED  BY <1>1, <1>2, NextCounted, NextBounds, PTL DEF Spec
=============================================================================
