----------------------- MODULE StatusfileRecoveryProofs -----------------------
(* Proofs about the status file, for any number of slots and of saves.       *)
EXTENDS StatusfileRecovery, Integers, FiniteSetTheorems, TLAPS

(* Max picks the largest of finitely many births.                            *)
LEMMA LargestIsMax ==
  ASSUME NEW n \in Nat, NEW S, S \subseteq 1..n, S # {}
  PROVE  Max(S) \in S /\ \A x \in S : x <= Max(S)
<1> DEFINE Above(b) == {x \in S : x > b}
           R == StrictSubsetOrdering(S)
           T == {Above(b) : b \in S}
<1>1. IsFiniteSet(S)
  <2>1. IsFiniteSet(1..n)
    BY FS_Interval
  <2> QED
    BY <2>1, FS_Subset
<1>2. T \subseteq FiniteSubsetsOf(S)
  <2> SUFFICES ASSUME NEW b \in S PROVE Above(b) \in FiniteSubsetsOf(S)
    OBVIOUS
  <2>1. Above(b) \in SUBSET S
    OBVIOUS
  <2> HIDE DEF Above
  <2>2. IsFiniteSet(Above(b))
    BY <1>1, <2>1, FS_Subset
  <2> QED
    BY <2>1, <2>2 DEF FiniteSubsetsOf
<1>3. T # {}
  OBVIOUS
<1>4. \E U \in T : \A V \in T : ~(<<V, U>> \in R)
  <2> HIDE DEF T, R
  <2>1. IsWellFoundedOn(R, FiniteSubsetsOf(S))
    BY FS_StrictSubsetOrderingWellFounded DEF R
  <2> QED
    BY <1>2, <1>3, <2>1, WFMin
<1>5. PICK b \in S : \A c \in S : ~(<<Above(c), Above(b)>> \in R)
  BY <1>4
<1>6. \A x \in S : b >= x
  <2> SUFFICES ASSUME NEW x \in S, x > b PROVE FALSE
    OBVIOUS
  <2>1. Above(x) \subseteq Above(b) /\ x \in Above(b) /\ x \notin Above(x)
    <3>1. \A y \in S : y \in Int
      OBVIOUS
    <3>2. \A y \in S : y > x => y > b
      BY <3>1
    <3>3. ~(x > x)
      BY <3>1
    <3> QED
      BY <3>2, <3>3, Zenon
  <2>2. Above(x) \in FiniteSubsetsOf(S) /\ Above(b) \in FiniteSubsetsOf(S)
    BY <1>2
  <2> HIDE DEF Above
  <2>3. <<Above(x), Above(b)>> \in R
    BY <2>1, <2>2 DEF StrictSubsetOrdering, FiniteSubsetsOf
  <2> QED
    BY <1>5, <2>3
<1>7. Max(S) \in S /\ \A x \in S : Max(S) >= x
  BY <1>6 DEF Max
<1> QED
  BY <1>7

-------------------------------------------------------------------------------
(* What is in the files carries no birth that has not been.                  *)
Contents(n) == [Slot -> 0..n]

InvFiles ==
  /\ births \in 0..MaxSaves /\ DOMAIN temps \subseteq 1..births
  /\ target \in Contents(births) \cup {Empty}
  /\ \A b \in DOMAIN temps : temps[b] \in Contents(births) \cup {Empty}
  /\ durable \in Contents(births)
  /\ cache \in Contents(births) \cup {None}
  /\ blank \in BOOLEAN

InvPlaces ==
  /\ save \in {"idle", "write", "rename", "renaming"}
  /\ save # "idle" => cache # None /\ births # 0
  /\ recovery \in {"start", "list", "replace", "move", "moving", "done"}
  /\ replacement \in Birth \cup {None}
  /\ save = "renaming" => births \in DOMAIN temps /\ recovery # "moving"
  /\ recovery = "moving" => replacement \in DOMAIN temps

Newest(b) == b \in DOMAIN temps /\ \A c \in DOMAIN temps : c <= b

(* RAUC works with what the file says, and the script only once the file is  *)
(* empty and before RAUC has read it.                                        *)
InvKept ==
  ~blank =>
    /\ cache # None =>
         AtLeast(cache) /\ recovery \in {"start", "done"} /\ (target # Empty \/ save = "renaming")
    /\ target # Empty => AtLeast(target)
    /\ target = Empty =>
         \E b \in DOMAIN temps : Newest(b) /\ temps[b] # Empty /\ AtLeast(temps[b])
    /\ save # "idle" => births \in DOMAIN temps
    /\ save \in {"rename", "renaming"} => temps[births] = cache
    /\ save = "renaming" => target = Empty
    /\ recovery \in {"list", "replace", "move", "moving"} => target = Empty
    /\ recovery \in {"replace", "move", "moving"} => Newest(replacement)
    /\ recovery = "done" => target # Empty \/ save = "renaming"

InvStatus == InvFiles /\ InvPlaces /\ InvKept

LEMMA NotStatus ==
  ASSUME NEW n \in Nat
  PROVE  Empty \notin Contents(n) /\ None \notin Contents(n) /\ Contents(n) \subseteq Contents(n + 1)
<1>1. Contents(n) \subseteq [Slot -> Nat]
  BY DEF Contents
<1>2. 0..n \subseteq 0..n + 1
  OBVIOUS
<1>3. Contents(n) \subseteq Contents(n + 1)
  BY <1>2 DEF Contents
<1> QED
  BY <1>1, <1>3, StatusAssumption

LEMMA InitStatusHolds == InitStatus => InvStatus
<1> SUFFICES ASSUME InitStatus PROVE InvStatus
  OBVIOUS
<1>1. Nothing \in Contents(0) /\ Nothing # Empty
  BY NotStatus DEF Contents, Nothing
<1>2. DOMAIN temps = {}
  BY DEF InitStatus
<1>3. InvFiles
  <2>1. births = 0 /\ 0 \in 0..MaxSaves
    BY StatusAssumption DEF InitStatus
  <2>2. target \in Contents(births) /\ durable \in Contents(births)
    BY <1>1, <2>1 DEF InitStatus
  <2> QED
    BY <1>2, <2>1, <2>2 DEF InitStatus, InvFiles
<1>4. InvPlaces
  BY DEF InitStatus, InvPlaces
<1>5. InvKept
  BY <1>1 DEF InitStatus, InvKept, AtLeast, Nothing
<1> QED
  BY <1>3, <1>4, <1>5 DEF InvStatus

-------------------------------------------------------------------------------
LEMMA RaucStep == InvStatus /\ Rauc => InvStatus'
<1> SUFFICES ASSUME InvStatus, Rauc PROVE InvStatus'
  OBVIOUS
<1> USE StatusAssumption
<1>1. births \in Nat /\ MaxSaves \in Nat
  BY DEF InvStatus, InvFiles
<1>2. Empty \notin Contents(births) /\ None \notin Contents(births)
  BY <1>1, NotStatus
<1>3. CASE Load
  <2>1. Nothing \in Contents(births)
    BY <1>1 DEF Nothing, Contents
  <2>2. InvFiles' /\ InvPlaces'
    BY <1>1, <1>3, <2>1 DEF Load, InvStatus, InvFiles, InvPlaces, files, script, Renaming
  <2>3. InvKept'
    BY <1>3, <1>2 DEF Load, InvStatus, InvFiles, InvPlaces, InvKept, files, script, Renaming, AtLeast, Newest
  <2> QED
    BY <2>2, <2>3 DEF InvStatus
<1>4. ASSUME NEW s \in Slot, Create(s) PROVE InvStatus'
  <2> DEFINE n == births + 1
  <2>1. births' = n /\ n \in 1..MaxSaves /\ births \in 0..MaxSaves
    BY <1>1, <1>4 DEF Create, InvStatus, InvFiles
  <2>2. Contents(births) \subseteq Contents(n)
    BY <1>1, NotStatus
  <2>3. cache \in Contents(births)
    BY <1>4 DEF Create, InvStatus, InvFiles
  <2>4. cache' = [cache EXCEPT ![s] = n] /\ target' = target /\ durable' = durable /\ save' = "write"
        /\ blank' = blank /\ recovery' = recovery /\ replacement' = replacement /\ save = "idle"
    BY <1>4, <2>1 DEF Create, script
  <2>5. cache' \in Contents(n)
    BY <1>1, <2>2, <2>3, <2>4 DEF Contents
  <2>6. DOMAIN temps' = DOMAIN temps \cup {n} /\ temps'[n] = Empty
        /\ \A b \in DOMAIN temps : temps'[b] = temps[b]
    <3>1. n \notin DOMAIN temps
      BY <1>1 DEF InvStatus, InvFiles
    <3> QED
      BY <1>4, <2>1, <3>1 DEF Create
  <2>7. InvFiles'
    <3>1. 1..births \subseteq 1..n
      BY <1>1
    <3> HIDE DEF n
    <3> QED
      BY <2>1, <2>2, <2>4, <2>5, <2>6, <3>1 DEF InvStatus, InvFiles
  <2>8. InvPlaces'
    <3>1. None \notin Contents(n)
      BY <1>1, NotStatus
    <3>2. births' # 0
      BY <2>1
    <3> HIDE DEF n
    <3> QED
      BY <2>4, <2>5, <2>6, <3>1, <3>2 DEF InvStatus, InvPlaces
  <2>9. InvKept'
    <3>1. AtLeast(cache) => AtLeast(cache)'
      <4>1. \A t \in Slot : durable[t] \in 0..births /\ cache[t] \in 0..births
        BY <2>3 DEF InvStatus, InvFiles, Contents
      <4>2. \A t \in Slot : cache'[t] = IF t = s THEN n ELSE cache[t]
        BY <2>3, <2>4 DEF Contents
      <4> QED
        BY <1>1, <2>4, <4>1, <4>2 DEF AtLeast
    <3> HIDE DEF n
    <3> QED
      BY <1>2, <2>1, <2>3, <2>4, <2>6, <3>1 DEF InvStatus, InvFiles, InvPlaces, InvKept, AtLeast, Newest
  <2> QED
    BY <2>7, <2>8, <2>9 DEF InvStatus
<1>5. CASE Write
  <2>1. DOMAIN temps' = DOMAIN temps /\ cache \in Contents(births)
        /\ \A b \in DOMAIN temps : temps'[b] = IF b = births THEN cache ELSE temps[b]
    BY <1>5 DEF Write, InvStatus, InvFiles, InvPlaces
  <2>2. InvFiles' /\ InvPlaces'
    BY <1>5, <2>1 DEF Write, InvStatus, InvFiles, InvPlaces, script
  <2>3. InvKept'
    BY <1>2, <1>5, <2>1 DEF Write, InvStatus, InvFiles, InvPlaces, InvKept, script, AtLeast, Newest
  <2> QED
    BY <2>2, <2>3 DEF InvStatus
<1>6. CASE StartRename
  <2>1. \A b \in DOMAIN temps : b <= births
    BY <1>1 DEF InvStatus, InvFiles
  <2>2. InvFiles' /\ InvPlaces'
    BY <1>6 DEF StartRename, InvStatus, InvFiles, InvPlaces, script, Renaming
  <2>3. InvKept'
    BY <1>2, <1>6, <2>1 DEF StartRename, InvStatus, InvFiles, InvPlaces, InvKept, script, Renaming, AtLeast, Newest
  <2> QED
    BY <2>2, <2>3 DEF InvStatus
<1>7. CASE Renamed
  <2>1. cache \in Contents(births) /\ births \in DOMAIN temps /\ recovery # "moving"
    BY <1>7 DEF Renamed, InvStatus, InvFiles, InvPlaces
  <2>2. DOMAIN temps' = DOMAIN temps \ {births} /\ \A b \in DOMAIN temps' : temps'[b] = temps[b]
    BY <1>7 DEF Renamed, Without
  <2>3. InvFiles' /\ InvPlaces'
    BY <1>7, <2>1, <2>2 DEF Renamed, InvStatus, InvFiles, InvPlaces, script
  <2>4. AtLeast(cache)'
    <3>1. \A t \in Slot : cache[t] \in Int
      BY <1>1, <2>1 DEF Contents
    <3> QED
      BY <1>7, <3>1 DEF Renamed, AtLeast
  <2>5. InvKept'
    BY <1>2, <1>7, <2>1, <2>2, <2>4 DEF Renamed, InvStatus, InvFiles, InvPlaces, InvKept, script, AtLeast, Newest
  <2> QED
    BY <2>3, <2>5 DEF InvStatus
<1>8. CASE RenameFails
  BY <1>8 DEF RenameFails, InvStatus, InvFiles, InvPlaces, InvKept, script, files, AtLeast, Newest
<1> QED
  BY <1>3, <1>4, <1>5, <1>6, <1>7, <1>8 DEF Rauc

-------------------------------------------------------------------------------
LEMMA ScriptStep == InvStatus /\ Script => InvStatus'
<1> SUFFICES ASSUME InvStatus, Script PROVE InvStatus'
  OBVIOUS
<1> USE StatusAssumption
<1>1. births \in Nat /\ Empty \notin Contents(births) /\ None \notin Contents(births)
  BY NotStatus DEF InvStatus, InvFiles
<1>2. CASE CheckTarget
  BY <1>2 DEF CheckTarget, InvStatus, InvFiles, InvPlaces, InvKept, files, Renaming, AtLeast, Newest
<1>3. CASE ListCandidates
  <2>1. InvFiles'
    BY <1>3 DEF ListCandidates, InvStatus, InvFiles, files
  <2>2. DOMAIN temps # {} =>
          /\ Max(DOMAIN temps) \in DOMAIN temps
          /\ \A b \in DOMAIN temps : b <= Max(DOMAIN temps)
    <3>1. DOMAIN temps \subseteq 1..births
      BY DEF InvStatus, InvFiles
    <3> QED
      BY <1>1, <3>1, LargestIsMax
  <2>3. 1..births \subseteq Birth
    BY DEF InvStatus, InvFiles, Birth
  <2>4. InvPlaces'
    BY <1>3, <2>2, <2>3 DEF ListCandidates, InvStatus, InvFiles, InvPlaces, files
  <2>5. InvKept'
    BY <1>3, <2>2 DEF ListCandidates, InvStatus, InvPlaces, InvKept, files, AtLeast, Newest
  <2> QED
    BY <2>1, <2>4, <2>5 DEF InvStatus
<1>4. CASE CheckReplacement
  <2>1. InvFiles' /\ InvPlaces'
    BY <1>4 DEF CheckReplacement, InvStatus, InvFiles, InvPlaces, files
  <2>2. \A b, c \in DOMAIN temps : Newest(b) /\ Newest(c) => b = c
    BY <1>1 DEF InvStatus, InvFiles, Newest
  <2>3. InvKept'
    BY <1>4, <2>2 DEF CheckReplacement, InvStatus, InvPlaces, InvKept, files, AtLeast, Newest
  <2> QED
    BY <2>1, <2>3 DEF InvStatus
<1>5. CASE StartMove
  BY <1>5 DEF StartMove, InvStatus, InvFiles, InvPlaces, InvKept, Renaming, AtLeast, Newest
<1>6. CASE Moved
  <2>1. DOMAIN temps' = DOMAIN temps \ {replacement} /\ \A b \in DOMAIN temps' : temps'[b] = temps[b]
    BY <1>6 DEF Moved, Without
  <2>2. InvFiles' /\ InvPlaces'
    BY <1>6, <2>1 DEF Moved, InvStatus, InvFiles, InvPlaces
  <2>3. \A b, c \in DOMAIN temps : Newest(b) /\ Newest(c) => b = c
    BY <1>1 DEF InvStatus, InvFiles, Newest
  <2>4. InvKept'
    BY <1>6, <2>1, <2>3 DEF Moved, InvStatus, InvPlaces, InvKept, AtLeast, Newest
  <2> QED
    BY <2>2, <2>4 DEF InvStatus
<1>7. CASE MoveFails
  BY <1>7 DEF MoveFails, InvStatus, InvFiles, InvPlaces, InvKept, files, AtLeast, Newest
<1> QED
  BY <1>2, <1>3, <1>4, <1>5, <1>6, <1>7 DEF Script

LEMMA StatusStep == InvStatus /\ [NextStatus]_statusVars => InvStatus'
<1> SUFFICES ASSUME InvStatus, [NextStatus]_statusVars PROVE InvStatus'
  OBVIOUS
<1>1. CASE PowerFails
  BY <1>1 DEF PowerFails, InvStatus, InvFiles, InvPlaces, InvKept, files, AtLeast, Newest
<1>2. CASE UNCHANGED statusVars
  BY <1>2 DEF statusVars, files, script, InvStatus, InvFiles, InvPlaces, InvKept, AtLeast, Newest
<1> QED
  BY <1>1, <1>2, RaucStep, ScriptStep DEF NextStatus

(* The inductive invariant.                                                  *)
THEOREM StatusInductive == SpecStatus => []InvStatus
BY InitStatusHolds, StatusStep, PTL DEF SpecStatus

(* The type of every variable.                                               *)
THEOREM TypeCorrectStatus == SpecStatus => []TypeOKStatus
<1>1. ASSUME InvStatus PROVE TypeOKStatus
  <2>1. \A n \in 0..MaxSaves : Contents(n) \subseteq Status
    <3> SUFFICES ASSUME NEW n \in 0..MaxSaves PROVE Contents(n) \subseteq Status
      OBVIOUS
    <3>1. 0..n \subseteq 0..MaxSaves
      BY StatusAssumption
    <3> QED
      BY <3>1 DEF Contents, Status
  <2> QED
    BY <1>1, <2>1 DEF InvStatus, InvFiles, InvPlaces, TypeOKStatus
<1> QED
  BY <1>1, StatusInductive, PTL

(* No finished save is lost, however many there are and wherever power fails. *)
THEOREM SavesAreKept == SpecStatus => []NothingLost
<1>1. ASSUME InvStatus PROVE NothingLost
  <2> SUFFICES ASSUME ~blank, target = Empty
               PROVE  /\ recovery = "done" => Renaming
                      /\ DOMAIN temps # {}
                      /\ temps[Max(DOMAIN temps)] # Empty /\ AtLeast(temps[Max(DOMAIN temps)])
    BY <1>1 DEF InvStatus, InvKept, NothingLost
  <2>1. PICK b \in DOMAIN temps : Newest(b) /\ temps[b] # Empty /\ AtLeast(temps[b])
    BY <1>1 DEF InvStatus, InvKept
  <2>2. births \in Nat /\ DOMAIN temps \subseteq 1..births
    BY <1>1, StatusAssumption DEF InvStatus, InvFiles
  <2>3. Newest(Max(DOMAIN temps))
    BY <2>1, <2>2, LargestIsMax DEF Newest
  <2>4. Max(DOMAIN temps) = b
    BY <2>1, <2>2, <2>3 DEF Newest
  <2>5. recovery = "done" => Renaming
    BY <1>1 DEF InvStatus, InvKept, Renaming
  <2> QED
    BY <2>1, <2>4, <2>5
<1> QED
  BY <1>1, StatusInductive, PTL

-------------------------------------------------------------------------------
(* The refinement.  What is stored is in the file or, while that is empty, in*)
(* the newest temporary file.                                                *)
LEMMA WhatIsStored ==
  InvFiles => /\ target # Empty => Stored = target
              /\ target = Empty => \A b : Newest(b) => Stored = temps[b]
<1> SUFFICES ASSUME InvFiles, target = Empty, NEW b, Newest(b) PROVE Stored = temps[b]
  BY DEF Stored
<1>1. births \in Nat /\ DOMAIN temps \subseteq 1..births /\ b \in DOMAIN temps
  BY StatusAssumption DEF InvFiles, Newest
<1>2. Max(DOMAIN temps) \in DOMAIN temps /\ \A x \in DOMAIN temps : x <= Max(DOMAIN temps)
  BY <1>1, LargestIsMax
<1>3. Max(DOMAIN temps) = b
  BY <1>1, <1>2 DEF Newest
<1> QED
  BY <1>1, <1>3 DEF Stored

(* As long as RAUC has not begun with an empty file, each of its steps is one*)
(* of the abstract status or none; the rename takes effect as it sets in.    *)
LEMMA RaucIsDurable ==
  InvStatus /\ InvStatus' /\ ~blank /\ ~blank' /\ Rauc =>
    Durable!Sound \/ UNCHANGED <<Stored, cache>>
<1> SUFFICES ASSUME InvStatus, InvStatus', ~blank, ~blank', Rauc
             PROVE  Durable!Sound \/ UNCHANGED <<Stored, cache>>
  OBVIOUS
<1> USE DEF InvStatus
<1>1. births \in Nat /\ Empty \notin Contents(births) /\ None \notin Contents(births)
      /\ DOMAIN temps \subseteq 1..births /\ InvKept
  BY NotStatus, StatusAssumption DEF InvFiles
<1>2. CASE Load
  <2>0. target # Empty
    <3>1. ~Renaming /\ blank' = (blank \/ (target = Empty /\ recovery # "done"))
      BY <1>2 DEF Load
    <3>2. ~(target = Empty /\ recovery # "done")
      BY <3>1, Zenon
    <3>3. recovery = "done" => target # Empty \/ Renaming
      BY DEF InvStatus, InvKept, Renaming
    <3> QED
      BY <3>1, <3>2, <3>3
  <2>1. target' = target /\ cache = None /\ cache' = target
    BY <1>2, <2>0 DEF Load, files
  <2>2. Stored = target /\ Stored' = target
    BY <2>0, <2>1 DEF Stored
  <2> QED
    BY <2>1, <2>2 DEF Durable!Sound, Durable!Read
<1>3. ASSUME NEW s \in Slot, Create(s) PROVE Durable!Sound
  <2>1. /\ cache # None /\ save = "idle" /\ target' = target
        /\ cache' = [cache EXCEPT ![s] = births + 1]
    BY <1>3 DEF Create
  <2>2. target # Empty
    BY <1>1, <2>1 DEF InvKept
  <2>3. cache \in Contents(births) /\ cache' \in Contents(births')
    <3>1. births' = births + 1 /\ births' \in Nat
      BY <1>1, <1>3 DEF Create
    <3>2. cache \in Contents(births)
      BY <2>1 DEF InvFiles
    <3> QED
      BY <1>1, <2>1, <3>1, <3>2 DEF Contents
  <2>4. cache'[s] = births + 1 /\ cache[s] \in 0..births
    BY <2>1, <2>3 DEF Contents
  <2>5. cache' # None
    <3>1. births' \in Nat
      BY <1>1, <1>3 DEF Create
    <3> QED
      BY <2>3, <3>1, NotStatus
  <2>6. Durable!Learn(s)
    <3>1. births + 1 > cache[s]
      BY <1>1, <2>4
    <3> QED
      BY <2>1, <2>2, <2>4, <2>5, <3>1 DEF Durable!Learn, Stored
  <2> QED
    BY <2>6 DEF Durable!Sound
<1>4. CASE Write
  <2>1. target # Empty /\ UNCHANGED <<target, cache>>
    BY <1>4 DEF Write, InvKept, InvPlaces
  <2> QED
    BY <2>1 DEF Stored
<1>5. CASE StartRename
  <2>1. /\ cache # None /\ UNCHANGED <<temps, births, cache>> /\ target' = Empty
        /\ births \in DOMAIN temps /\ temps[births] = cache
    BY <1>1, <1>5 DEF StartRename, InvKept, InvPlaces
  <2>2. Max(DOMAIN temps) = births
    <3>1. Max(DOMAIN temps) \in DOMAIN temps /\ \A x \in DOMAIN temps : x <= Max(DOMAIN temps)
      BY <1>1, <2>1, LargestIsMax
    <3> QED
      BY <1>1, <2>1, <3>1
  <2>3. Stored' = cache
    BY <2>1, <2>2 DEF Stored
  <2> QED
    BY <2>1, <2>3 DEF Durable!Sound, Durable!Commit
<1>6. CASE Renamed
  <2>1. /\ births \in DOMAIN temps /\ temps[births] = cache /\ target = Empty
        /\ target' = cache /\ cache' = cache /\ cache # Empty
    BY <1>1, <1>6 DEF Renamed, InvKept, InvPlaces, InvFiles
  <2>2. Newest(births)
    BY <1>1, <2>1 DEF Newest
  <2>3. Stored = cache
    BY <2>1, <2>2, WhatIsStored
  <2> QED
    BY <2>1, <2>3 DEF Stored
<1>7. CASE RenameFails
  BY <1>7 DEF RenameFails, files, Stored
<1> QED
  BY <1>2, <1>3, <1>4, <1>5, <1>6, <1>7 DEF Rauc

(* The script does not change what is stored: it only moves it.              *)
LEMMA ScriptIsDurable ==
  InvStatus /\ ~blank /\ Script => UNCHANGED <<Stored, cache>>
<1> SUFFICES ASSUME InvStatus, ~blank, Script PROVE UNCHANGED <<Stored, cache>>
  OBVIOUS
<1> USE DEF InvStatus
<1>1. CASE CheckTarget \/ ListCandidates \/ CheckReplacement \/ MoveFails
  BY <1>1 DEF CheckTarget, ListCandidates, CheckReplacement, MoveFails, files, Stored
<1>2. CASE StartMove
  BY <1>2 DEF StartMove, InvKept, Stored
<1>3. CASE Moved
  <2>1. /\ target = Empty /\ Newest(replacement) /\ cache' = cache
        /\ target' = temps[replacement] /\ replacement \in DOMAIN temps
    BY <1>3 DEF Moved, InvKept, InvPlaces
  <2>2. Stored = temps[replacement]
    BY <2>1, WhatIsStored
  <2>3. temps[replacement] # Empty
    <3>1. PICK b \in DOMAIN temps : Newest(b) /\ temps[b] # Empty
      BY <2>1 DEF InvKept
    <3>2. b = replacement
      BY <2>1, <3>1, StatusAssumption DEF InvFiles, Newest
    <3> QED
      BY <3>1, <3>2
  <2> QED
    BY <2>1, <2>2, <2>3 DEF Stored
<1> QED
  BY <1>1, <1>2, <1>3 DEF Script

LEMMA StepIsDurable ==
  InvStatus /\ InvStatus' /\ [NextStatus]_statusVars =>
    [Durable!NextDurable]_(Durable!durableVars)
<1> SUFFICES ASSUME InvStatus, InvStatus', [NextStatus]_statusVars
             PROVE  [Durable!NextDurable]_(Durable!durableVars)
  OBVIOUS
<1> USE DEF Durable!durableVars, Durable!NextDurable
<1>1. CASE blank'
  BY <1>1
<1>2. CASE UNCHANGED statusVars
  BY <1>2 DEF statusVars, files, Stored
<1>3. CASE NextStatus /\ ~blank'
  <2>1. blank \in BOOLEAN /\ blank' \in BOOLEAN
    BY DEF InvStatus, InvFiles
  <2>2. ~blank
    BY <1>3, <2>1 DEF NextStatus, Rauc, Script, PowerFails, Load, Create, Write, StartRename,
       Renamed, RenameFails, CheckTarget, ListCandidates, CheckReplacement, StartMove, Moved,
       MoveFails
  <2>3. blank' = blank
    BY <1>3, <2>1, <2>2
  <2>4. CASE PowerFails
    <3>1. Durable!Crash
      BY <2>4 DEF PowerFails, files, Durable!Crash, Stored
    <3> QED
      BY <2>2, <2>3, <3>1 DEF Durable!Sound
  <2>5. CASE Rauc \/ Script
    BY <1>3, <2>2, <2>3, <2>5, RaucIsDurable, ScriptIsDurable
  <2> QED
    BY <1>3, <2>4, <2>5 DEF NextStatus
<1> QED
  BY <1>1, <1>2, <1>3

(* RAUC and the script together implement a status that is replaced in one   *)
(* step and survives failures, until RAUC once begins with an empty file.    *)
THEOREM StatusIsDurable == SpecStatus => IsDurable
<1>1. InitStatus => Durable!InitDurable
  <2>1. Nothing # Empty
    <3>1. Nothing \in [Slot -> Nat]
      BY DEF Nothing
    <3> QED
      BY <3>1, StatusAssumption
  <2> QED
    BY <2>1 DEF InitStatus, Durable!InitDurable, Stored, Nothing
<1>2. InvStatus /\ InvStatus' /\ [NextStatus]_statusVars =>
        [Durable!NextDurable]_(Durable!durableVars)
  BY StepIsDurable
<1> QED
  BY <1>1, <1>2, StatusInductive, PTL DEF SpecStatus, IsDurable, Durable!SpecDurable
===============================================================================
