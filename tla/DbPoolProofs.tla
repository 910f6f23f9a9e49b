---------------------------- MODULE DbPoolProofs ----------------------------
(***************************************************************************)
(* Theorems about DbPool for any set of open() and closeAll() calls and    *)
(* any connection strings.                                                 *)
(***************************************************************************)
EXTENDS DbPoolInv, RawVectorProofs

(* The calls of open() are finitely many; those that have returned are     *)
(* counted by a number that grows with them.                               *)
LEMMA SettledSize ==
  /\ IsFiniteSet(Opens) /\ Cardinality(Opens) \in Nat
  /\ Cardinality(Settled) \in Nat
  /\ Cardinality(Settled) <= Cardinality(Opens)
<1>1. IsFiniteSet(Opens) /\ Settled \in SUBSET Opens
  BY DbPoolAssumption DEF Settled
<1>2. QED
  BY <1>1, FS_Subset, FS_CardinalityType

(* What TypeOK says of the vector and of the numbers threads loaded.       *)
LEMMA VectorTypes ==
  ASSUME TypeOK
  PROVE  /\ Instances \in [at : [1..Cardinality(Opens) -> Opens \cup {None}],
                           fin : Nat]
         /\ Instances.at \in [1..Cardinality(Opens) -> Opens \cup {None}]
         /\ Instances.fin \in Nat /\ it \in Nat /\ pfin \in Nat
         /\ \A o \in Opens : ofin[o] \in Nat
         /\ \A c \in Closers : cfin[c] \in Nat
BY DEF TypeOK

(* The steps, one by one: of the pool thread, of an open() and its         *)
(* dispose(), of a closeAll() or the destructor, and of the environment.   *)
LEMMA Steps ==
  ASSUME [Next]_vars
  PROVE  \/ PoolTop \/ PoolSpin \/ PoolSet \/ SweepTest \/ SweepLook
         \/ SweepDelete \/ EraseRead \/ EraseWrite \/ PoolRelease
         \/ PoolSleep
         \/ \E o \in Opens :
              \/ OpenCall(o) \/ OpenSpin(o) \/ OpenSet(o) \/ ScanTest(o)
              \/ ScanUsed(o) \/ ScanString(o) \/ Take(o) \/ OpenRelease(o)
              \/ CreateInstance(o) \/ PushRead(o)
              \/ PushWrite(o) \/ Dispose(o)
         \/ \E c \in Closers :
              \/ CloseCall(c) \/ CloseSpin(c) \/ CloseSet(c) \/ CloseTest(c)
              \/ CloseBack(c) \/ PopRead(c) \/ PopWrite(c) \/ CloseRelease(c)
         \/ DtorStop \/ DtorUnhold \/ DtorJoin
         \/ \E i \in Opens : Expire(i)
         \/ \E s \in ConnStrings : SetConnectionString(s)
         \/ UNCHANGED vars
BY Zenon DEF Next, Pool, Open, Close

(* A test of getUnusedInstance goes on to the next test of the same        *)
(* element, which fits, or to the next element.                            *)
LEMMA ReadsDoes ==
  ASSUME TypeOK, NEW o \in Opens, ScanUsed(o) \/ ScanString(o)
  PROVE  /\ corrupt = {} /\ opener[o] \in {"unused", "string"}
         /\ corrupt' = IF oit[o] \in Sound THEN {} ELSE {"open"}
         /\ UNCHANGED <<Running, Hold, ConnectionString, Instances, inst, Used,
                        expired, cs, pool, it, pfin, got, ofin, closer, cfin,
                        asked, overlap, raced, cutin>>
         /\ \E p \in Scanning, n \in Nat :
              /\ opener' = [opener EXCEPT ![o] = p]
              /\ oit' = [oit EXCEPT ![o] = n]
              /\ \/ oit[o] \notin Sound /\ p = opener[o] /\ n = oit[o]
                 \/ oit[o] \in Sound /\ p = "scan" /\ n = oit[o] + 1
                 \/ /\ oit[o] \in Sound /\ p = "string" /\ n = oit[o]
                    /\ ~Used[Instances.at[oit[o]]]
                 \/ /\ oit[o] \in Sound /\ p = "take" /\ n = oit[o]
                    /\ opener[o] = "string"
                    /\ cs[Instances.at[oit[o]]] = ConnectionString
<1>1. /\ oit[o] \in Nat /\ oit = [oit EXCEPT ![o] = oit[o]]
      /\ opener = [opener EXCEPT ![o] = opener[o]]
      /\ oit[o] \in Sound => Instances.at[oit[o]] \in Opens
  BY DEF TypeOK, Sound
<1>2. /\ corrupt = {} /\ opener[o] \in {"unused", "string"}
      /\ corrupt' = IF oit[o] \in Sound THEN {} ELSE {"open"}
      /\ UNCHANGED <<Running, Hold, ConnectionString, Instances, inst, Used,
                     expired, cs, pool, it, pfin, got, ofin, closer, cfin,
                     asked, overlap, raced, cutin>>
  BY DEF ScanUsed, ScanString, Reads, OpenGoes, Blame, flagVars, instVars,
     poolVars, closeVars
<1>3. \/ oit[o] \notin Sound /\ UNCHANGED <<opener, oit>>
      \/ /\ oit[o] \in Sound /\ opener' = [opener EXCEPT ![o] = "scan"]
         /\ oit' = [oit EXCEPT ![o] = oit[o] + 1]
      \/ /\ oit[o] \in Sound /\ opener' = [opener EXCEPT ![o] = "string"]
         /\ oit' = oit /\ ~Used[Instances.at[oit[o]]]
      \/ /\ oit[o] \in Sound /\ opener' = [opener EXCEPT ![o] = "take"]
         /\ oit' = oit /\ opener[o] = "string"
         /\ cs[Instances.at[oit[o]]] = ConnectionString
  <2>1. CASE ScanUsed(o)
    BY <1>1, <2>1 DEF ScanUsed, Reads, OpenGoes
  <2>2. CASE ScanString(o)
    BY <1>1, <2>2 DEF ScanString, Reads, OpenGoes
  <2>3. QED
    BY <2>1, <2>2
<1>4. /\ opener[o] \in Scanning
      /\ "scan" \in Scanning /\ "string" \in Scanning /\ "take" \in Scanning
      /\ oit[o] + 1 \in Nat
  BY <1>1, <1>2 DEF Scanning
<1>5. QED
  BY <1>1, <1>2, <1>3, <1>4, Zenon

-----------------------------------------------------------------------------
(* Types, and the bound of the vector they rest on. *)

(* A step adds to the calls that have settled, or leaves them alone; the   *)
(* store of a push_back adds its own.                                      *)
LEMMA SettledGrows ==
  ASSUME TypeOK, [Next]_vars
  PROVE  /\ Cardinality(Settled)' \in Nat
         /\ Cardinality(Settled) <= Cardinality(Settled)'
         /\ Cardinality(Settled)' <= Cardinality(Opens)
         /\ \A o \in Opens : PushWrite(o) =>
              Cardinality(Settled)' = Cardinality(Settled) + 1
<1>1. Settled \subseteq Settled'
  <2> USE DEF Settled, TypeOK
  <2>1. ASSUME NEW o \in Opens,
               \/ OpenCall(o) \/ OpenSpin(o) \/ OpenSet(o) \/ ScanTest(o)
               \/ Take(o) \/ OpenRelease(o) \/ CreateInstance(o)
               \/ PushRead(o) \/ PushWrite(o) \/ Dispose(o)
        PROVE  Settled \subseteq Settled'
    BY <2>1 DEF OpenCall, OpenSpin, OpenSet, ScanTest, Take, OpenRelease,
       CreateInstance, PushRead, PushWrite, Dispose, OpenGoes
  <2>6. ASSUME NEW o \in Opens, ScanUsed(o) \/ ScanString(o)
        PROVE  Settled \subseteq Settled'
    <3>1. opener[o] \notin {"using", "done"} /\ opener \in [Opens -> OpenPC]
      BY <2>6, ReadsDoes
    <3>2. PICK p \in Scanning : opener' = [opener EXCEPT ![o] = p]
      BY <2>6, ReadsDoes
    <3>3. QED
      BY <3>1, <3>2
  <2>2. CASE \/ PoolTop \/ PoolSpin \/ PoolSet \/ SweepTest \/ SweepLook
             \/ SweepDelete \/ EraseRead \/ EraseWrite \/ PoolRelease
             \/ PoolSleep
    BY <2>2 DEF PoolTop, PoolSpin, PoolSet, SweepTest, SweepLook, SweepDelete, EraseRead, EraseWrite,
       PoolRelease, PoolSleep, openVars
  <2>3. ASSUME NEW c \in Closers,
               \/ CloseCall(c) \/ CloseSpin(c) \/ CloseSet(c) \/ CloseTest(c)
               \/ CloseBack(c) \/ PopRead(c) \/ PopWrite(c) \/ CloseRelease(c)
        PROVE  Settled \subseteq Settled'
    BY <2>3 DEF CloseCall, CloseSpin, CloseSet, CloseTest, CloseBack, PopRead, PopWrite,
       CloseRelease, openVars
  <2>4. CASE \/ DtorStop \/ DtorUnhold \/ DtorJoin
             \/ \E i \in Opens : Expire(i)
             \/ \E s \in ConnStrings : SetConnectionString(s)
             \/ UNCHANGED vars
    BY <2>4 DEF DtorStop, DtorUnhold, DtorJoin, Expire, SetConnectionString,
       openVars, vars
  <2>5. QED
    BY <2>1, <2>2, <2>3, <2>4, <2>6, Steps
<1>2. Settled' \in SUBSET Opens /\ Settled \in SUBSET Opens /\ IsFiniteSet(Opens)
  BY SettledSize DEF Settled
<1>3. IsFiniteSet(Settled') /\ IsFiniteSet(Settled)
  BY <1>2, FS_Subset
<1>4. /\ Cardinality(Settled') \in Nat
      /\ Cardinality(Settled) <= Cardinality(Settled')
      /\ Cardinality(Settled') <= Cardinality(Opens)
  BY <1>1, <1>2, <1>3, FS_Subset, FS_CardinalityType
<1>5. ASSUME NEW o \in Opens, PushWrite(o)
      PROVE  Cardinality(Settled') = Cardinality(Settled) + 1
  <2>1. Settled' = Settled \cup {o} /\ o \notin Settled
    BY <1>5 DEF PushWrite, OpenGoes, Settled, TypeOK
  <2>2. QED
    BY <1>3, <2>1, FS_AddElement
<1>6. QED
  BY <1>4, <1>5

(* Every step of the pool thread keeps the types.                          *)
LEMMA PoolTypeStep ==
  ASSUME TypeOK, VectorInv,
         \/ PoolTop \/ PoolSpin \/ PoolSet \/ SweepTest \/ SweepLook
         \/ SweepDelete \/ EraseRead \/ EraseWrite \/ PoolRelease
         \/ PoolSleep
  PROVE  TypeOK'
<1> USE DEF TypeOK, PoolGoes, flagVars, instVars, openVars, closeVars, PoolPC,
            Sweeping
<1>1. CASE PoolTop \/ PoolSpin \/ SweepTest \/ PoolSleep
  BY <1>1 DEF PoolTop, PoolSpin, SweepTest, PoolSleep
<1>2. CASE PoolSet \/ PoolRelease
  <2>1. CASE PoolSet
    BY <2>1 DEF PoolSet, Enter
  <2>2. CASE PoolRelease
    BY <2>2 DEF PoolRelease
  <2>3. QED
    BY <1>2, <2>1, <2>2
<1>3. CASE SweepLook
  <2>1. it' = it \/ it' = it + 1
    BY <1>3 DEF SweepLook
  <2>2. corrupt' = corrupt \/ corrupt' = corrupt \cup {"pool"}
    BY <1>3 DEF SweepLook, Blame
  <2>3. pool' \in PoolPC
    BY <1>3 DEF SweepLook
  <2>4. corrupt' \subseteq {"pool", "open", "close", "user"}
    BY <2>2
  <2>5. it \in Nat
    OBVIOUS
  <2>6. it' \in Nat
    BY <2>1, <2>5
  <2>7. QED
    BY <1>3, <2>3, <2>4, <2>6 DEF SweepLook
<1>4. CASE SweepDelete \/ EraseRead
  <2>1. pool' \in PoolPC /\ pfin' \in Nat
    BY <1>4 DEF SweepDelete, EraseRead
  <2>2. corrupt' = corrupt \/ corrupt' = corrupt \cup {"pool"}
    BY <1>4 DEF SweepDelete, EraseRead, Blame
  <2>3. inst' = inst \/ inst' = [inst EXCEPT ![Instances.at[it]] = "swept"]
    BY <1>4 DEF SweepDelete, EraseRead
  <2>4. corrupt' \subseteq {"pool", "open", "close", "user"}
    BY <2>2
  <2>5. inst' \in [Opens -> InstState]
    BY <2>3 DEF InstState
  <2>6. UNCHANGED <<Running, Hold, ConnectionString, Instances, Used, expired,
                    cs, it, opener, got, oit, ofin, closer, cfin, asked,
                    overlap, raced, cutin>>
    BY <1>4 DEF SweepDelete, EraseRead
  <2>7. QED
    BY <2>1, <2>4, <2>5, <2>6
<1>5. CASE EraseWrite
  <2>1. it \in Nat /\ pfin \in 1..Cardinality(Opens)
    BY <1>5, SettledSize, VectorTypes DEF EraseWrite, VectorInv
  <2>2. Instances' \in [at : [1..Cardinality(Opens) -> Opens \cup {None}],
                        fin : Nat]
    <3>1. Instances' = CutAt(Instances, it, pfin)
      BY <1>5 DEF EraseWrite
    <3>2. QED
      BY <2>1, <3>1, SettledSize, VectorTypes, CutType
  <2>3. QED
    BY <1>5, <2>2 DEF EraseWrite, Stale
<1>6. QED
  BY <1>1, <1>2, <1>3, <1>4, <1>5

(* What a push_back stores is a vector.                                    *)
LEMMA PushTypes ==
  ASSUME TypeOK, NEW o \in Opens
  PROVE  PutAt(Instances, ofin[o], o) \in
           [at : [1..Cardinality(Opens) -> Opens \cup {None}], fin : Nat]
<1>1. ofin[o] \in Nat /\ o \in Opens \cup {None}
  BY VectorTypes
<1>2. QED
  BY <1>1, SettledSize, VectorTypes, PutType, Zenon

(* Every step of an open() and its dispose() keeps the types.              *)
LEMMA OpenTypeStep ==
  ASSUME TypeOK, VectorInv, OriginInv, NEW o \in Opens,
         \/ OpenCall(o) \/ OpenSpin(o) \/ OpenSet(o) \/ ScanTest(o)
         \/ ScanUsed(o) \/ ScanString(o) \/ Take(o) \/ OpenRelease(o)
         \/ CreateInstance(o) \/ PushRead(o)
         \/ PushWrite(o) \/ Dispose(o)
  PROVE  TypeOK'
<1> USE DEF TypeOK, OpenGoes, flagVars, instVars, poolVars, closeVars, OpenPC,
            Scanning
<1>1. CASE OpenCall(o) \/ OpenSpin(o) \/ ScanTest(o)
  <2>1. CASE OpenCall(o)
    BY <2>1 DEF OpenCall
  <2>2. CASE OpenSpin(o)
    BY <2>2 DEF OpenSpin
  <2>3. CASE ScanTest(o)
    BY <2>3 DEF ScanTest
  <2>4. QED
    BY <1>1, <2>1, <2>2, <2>3
<1>2. CASE OpenSet(o) \/ OpenRelease(o)
  <2>1. oit' = [oit EXCEPT ![o] = 1] /\ 1 \in Nat
    BY <1>2 DEF OpenSet, OpenRelease
  <2>2. oit' \in [Opens -> Nat]
    BY <2>1
  <2>3. /\ opener' \in [Opens -> OpenPC] /\ Hold' \in BOOLEAN
        /\ overlap' \in BOOLEAN
    BY <1>2 DEF OpenSet, OpenRelease, Enter
  <2>4. QED
    BY <1>2, <2>2, <2>3 DEF OpenSet, OpenRelease
<1>3. CASE ScanUsed(o) \/ ScanString(o) \/ Take(o)
  <2>1. CASE ScanUsed(o) \/ ScanString(o)
    <3>1. /\ opener' \in [Opens -> OpenPC] /\ oit' \in [Opens -> Nat]
          /\ corrupt' \subseteq {"pool", "open", "close", "user"}
      <4>1. PICK p \in Scanning, n \in Nat :
              /\ opener' = [opener EXCEPT ![o] = p]
              /\ oit' = [oit EXCEPT ![o] = n]
        BY <2>1, ReadsDoes
      <4>2. corrupt' \in {{}, {"open"}}
        BY <2>1, ReadsDoes
      <4>3. QED
        BY <4>1, <4>2
    <3>2. UNCHANGED <<Running, Hold, ConnectionString, Instances, inst, Used,
                      expired, cs, pool, it, pfin, got, ofin, closer, cfin,
                      asked, overlap, raced, cutin>>
      BY <2>1, ReadsDoes
    <3>3. QED
      BY <3>1, <3>2
  <2>2. CASE Take(o)
    <3>1. oit[o] \in 1..Cardinality(Opens)
      BY <2>2, SettledSize DEF Take, VectorInv
    <3>2. Instances.at[oit[o]] \in Opens \cup {None}
      BY <3>1, VectorTypes
    <3>3. got' \in [Opens -> Opens \cup {None}]
      BY <2>2, <3>2 DEF Take
    <3>4. QED
      BY <2>2, <3>3 DEF Take
  <2>3. QED
    BY <1>3, <2>1, <2>2
<1>4. CASE CreateInstance(o)
  <2>1. inst' \in [Opens -> InstState] /\ opener' \in [Opens -> OpenPC]
    BY <1>4 DEF CreateInstance, InstState
  <2>2. Used' \in [Opens -> BOOLEAN]
    <3>1. Used' = Used \/ Used' = [Used EXCEPT ![o] = TRUE]
      BY <1>4 DEF CreateInstance
    <3>2. QED
      BY <3>1
  <2>3. got' \in [Opens -> Opens \cup {None}]
    <3>1. got' = got \/ got' = [got EXCEPT ![o] = o]
      BY <1>4 DEF CreateInstance
    <3>2. QED
      BY <3>1
  <2>4. cs' \in [Opens -> ConnStrings]
    BY <1>4 DEF CreateInstance
  <2>5. QED
    BY <1>4, <2>1, <2>2, <2>3, <2>4 DEF CreateInstance
<1>5. CASE PushRead(o)
  BY <1>5 DEF PushRead
<1>6. CASE PushWrite(o)
  <2>1. Instances' \in [at : [1..Cardinality(Opens) -> Opens \cup {None}],
                        fin : Nat]
    <3>1. Instances' = PutAt(Instances, ofin[o], o)
      BY <1>6 DEF PushWrite
    <3>2. QED
      BY <3>1, PushTypes
  <2>2. QED
    BY <1>6, <2>1 DEF PushWrite, Stale
<1>7. CASE Dispose(o)
  BY <1>7 DEF Dispose, Blame
<1>8. QED
  BY <1>1, <1>2, <1>3, <1>4, <1>5, <1>6, <1>7

(* Every other step keeps the types.                                       *)
LEMMA CloseTypeStep ==
  ASSUME TypeOK, VectorInv,
         \/ \E c \in Closers :
              \/ CloseCall(c) \/ CloseSpin(c) \/ CloseSet(c) \/ CloseTest(c)
              \/ CloseBack(c) \/ PopRead(c) \/ PopWrite(c) \/ CloseRelease(c)
         \/ DtorStop \/ DtorUnhold \/ DtorJoin
         \/ \E i \in Opens : Expire(i)
         \/ \E s \in ConnStrings : SetConnectionString(s)
         \/ UNCHANGED vars
  PROVE  TypeOK'
<1> USE DEF TypeOK, CloseGoes, flagVars, instVars, poolVars, openVars,
            closeVars, ClosePC, Closing
<1>0. Dtor \in Closers
  BY DEF Closers
<1>1. ASSUME NEW c \in Closers,
             \/ CloseCall(c) \/ CloseSpin(c) \/ CloseSet(c) \/ CloseTest(c)
             \/ CloseRelease(c)
      PROVE  TypeOK'
  <2>1. /\ closer' \in [Closers -> ClosePC] /\ Hold' \in BOOLEAN
        /\ overlap' \in BOOLEAN
    BY <1>1 DEF CloseCall, CloseSpin, CloseSet, CloseTest, CloseRelease, Enter
  <2>2. UNCHANGED <<Running, ConnectionString, Instances, inst, Used, expired,
                    cs, pool, it, pfin, opener, got, oit, ofin, cfin, asked,
                    raced, cutin, corrupt>>
    BY <1>1 DEF CloseCall, CloseSpin, CloseSet, CloseTest, CloseRelease
  <2>3. QED
    BY <2>1, <2>2
<1>2. ASSUME NEW c \in Closers, CloseBack(c) \/ PopRead(c)
      PROVE  TypeOK'
  <2>1. inst' \in [Opens -> InstState]
    BY <1>2 DEF CloseBack, PopRead, InstState
  <2>2. /\ cfin' \in [Closers -> Nat]
        /\ corrupt' \subseteq {"pool", "open", "close", "user"}
        /\ closer' \in [Closers -> ClosePC]
    BY <1>2 DEF CloseBack, PopRead, Blame
  <2>3. QED
    BY <1>2, <2>1, <2>2 DEF CloseBack, PopRead
<1>3. ASSUME NEW c \in Closers, PopWrite(c)
      PROVE  TypeOK'
  <2>1. cfin[c] - 1 \in Nat
    BY <1>3, VectorTypes DEF PopWrite, VectorInv
  <2>2. Instances' \in [at : [1..Cardinality(Opens) -> Opens \cup {None}],
                        fin : Nat]
    <3> DEFINE n == cfin[c] - 1
    <3>1. Instances' = [Instances EXCEPT !.fin = n] /\ n \in Nat
      BY <1>3, <2>1 DEF PopWrite
    <3> HIDE DEF n
    <3>2. QED
      BY <3>1
  <2>3. QED
    BY <1>3, <2>2 DEF PopWrite, Stale
<1>4. CASE DtorStop \/ DtorUnhold \/ DtorJoin
  BY <1>0, <1>4 DEF DtorStop, DtorUnhold, DtorJoin
<1>5. CASE \E i \in Opens : Expire(i)
  BY <1>5 DEF Expire
<1>6. CASE \E s \in ConnStrings : SetConnectionString(s)
  BY <1>6 DEF SetConnectionString
<1>7. CASE UNCHANGED vars
  BY <1>7 DEF vars
<1>8. QED
  BY <1>1, <1>2, <1>3, <1>4, <1>5, <1>6, <1>7

(* Every step keeps the types: threads that overwrite each other's updates *)
(* leave the vector inside its slots all the same.                         *)
LEMMA TypeStep ==
  ASSUME TypeOK, VectorInv, OriginInv, [Next]_vars
  PROVE  TypeOK'
BY Steps, PoolTypeStep, OpenTypeStep, CloseTypeStep

(* A step of the program begins only while no deleted instance was used.   *)
LEMMA StepBegins ==
  ASSUME TypeOK, [Next]_vars
  PROVE  corrupt = {} \/ UNCHANGED vars
<1>1. ASSUME NEW o \in Opens,
             \/ OpenCall(o) \/ OpenSpin(o) \/ OpenSet(o) \/ ScanTest(o)
             \/ Take(o) \/ OpenRelease(o) \/ CreateInstance(o)
             \/ PushRead(o) \/ PushWrite(o) \/ Dispose(o)
      PROVE  corrupt = {}
  BY <1>1 DEF OpenCall, OpenSpin, OpenSet, ScanTest, Take, OpenRelease,
     CreateInstance, PushRead, PushWrite, Dispose, OpenGoes
<1>2. ASSUME NEW o \in Opens, ScanUsed(o) \/ ScanString(o)
      PROVE  corrupt = {}
  BY <1>2, ReadsDoes
<1>3. ASSUME NEW c \in Closers,
             \/ CloseCall(c) \/ CloseSpin(c) \/ CloseSet(c) \/ CloseTest(c)
             \/ CloseBack(c) \/ PopRead(c) \/ PopWrite(c) \/ CloseRelease(c)
      PROVE  corrupt = {}
  BY <1>3 DEF CloseCall, CloseSpin, CloseSet, CloseTest, CloseBack, PopRead,
     PopWrite, CloseRelease, CloseGoes
<1>4. CASE \/ PoolTop \/ PoolSpin \/ PoolSet \/ SweepTest \/ SweepLook
           \/ SweepDelete \/ EraseRead \/ EraseWrite \/ PoolRelease
           \/ PoolSleep
  BY <1>4 DEF PoolTop, PoolSpin, PoolSet, SweepTest, SweepLook, SweepDelete,
     EraseRead, EraseWrite, PoolRelease, PoolSleep, PoolGoes
<1>5. CASE \/ DtorStop \/ DtorUnhold \/ DtorJoin
           \/ \E i \in Opens : Expire(i)
           \/ \E s \in ConnStrings : SetConnectionString(s)
           \/ UNCHANGED vars
  BY <1>5 DEF DtorStop, DtorUnhold, DtorJoin, CloseGoes, Expire,
     SetConnectionString
<1>6. QED
  BY <1>1, <1>2, <1>3, <1>4, <1>5, Steps

(* No thread works with a finish past the calls that have pushed: whatever *)
(* a store of finish was computed from was loaded from finish.             *)
LEMMA FinishStep ==
  ASSUME TypeOK, VectorInv, [Next]_vars
  PROVE  /\ Instances'.fin <= Cardinality(Settled)'
         /\ pfin' <= Cardinality(Settled)'
         /\ \A o \in Opens : ofin'[o] <= Cardinality(Settled)'
         /\ \A c \in Closers : cfin'[c] <= Cardinality(Settled)'
<1> DEFINE n == Cardinality(Settled)
<1>0. /\ n \in Nat /\ n' \in Nat /\ n <= n'
      /\ \A o \in Opens : PushWrite(o) => n' = n + 1
  BY SettledSize, SettledGrows
<1>1. /\ Instances.fin <= n /\ pfin <= n
      /\ \A o \in Opens : ofin[o] <= n
      /\ \A c \in Closers : cfin[c] <= n
  BY DEF VectorInv
<1> HIDE DEF n
<1>2. /\ Instances'.fin <= n' /\ pfin' <= n'
      /\ \A o \in Opens : ofin'[o] <= n'
      /\ \A c \in Closers : cfin'[c] <= n'
  <2>1. CASE \/ PoolTop \/ PoolSpin \/ PoolSet \/ SweepTest \/ SweepLook
             \/ SweepDelete \/ PoolRelease \/ PoolSleep \/ DtorStop
             \/ DtorUnhold \/ DtorJoin
             \/ (\E i \in Opens : Expire(i))
             \/ (\E s \in ConnStrings : SetConnectionString(s))
             \/ UNCHANGED vars
    <3>1. /\ Instances' = Instances /\ pfin' = pfin /\ ofin' = ofin
          /\ cfin' = cfin
      BY <2>1 DEF PoolTop, PoolSpin, PoolSet, SweepTest, SweepLook, SweepDelete,
         PoolRelease, PoolSleep, DtorStop, DtorUnhold, DtorJoin, Expire,
         SetConnectionString, vars, poolVars, openVars, closeVars
    <3>2. QED
      BY <1>0, <1>1, <3>1, VectorTypes
  <2>2. CASE EraseRead
    <3>1. /\ Instances' = Instances /\ pfin' = Instances.fin /\ ofin' = ofin
          /\ cfin' = cfin
      BY <2>2 DEF EraseRead, openVars, closeVars
    <3>2. QED
      BY <1>0, <1>1, <3>1, VectorTypes
  <2>3. CASE EraseWrite
    <3>1. /\ Instances'.fin = pfin - 1 /\ pfin' = 0 /\ ofin' = ofin
          /\ cfin' = cfin
      BY <2>3 DEF EraseWrite, openVars, closeVars, CutAt
    <3>2. QED
      BY <1>0, <1>1, <3>1, VectorTypes
  <2>4. ASSUME NEW o \in Opens,
               \/ OpenCall(o) \/ OpenSpin(o) \/ OpenSet(o) \/ ScanTest(o)
               \/ Take(o) \/ OpenRelease(o) \/ CreateInstance(o) \/ Dispose(o)
               \/ ScanUsed(o) \/ ScanString(o)
        PROVE  /\ Instances' = Instances /\ pfin' = pfin /\ ofin' = ofin
               /\ cfin' = cfin
    BY <2>4, ReadsDoes DEF OpenCall, OpenSpin, OpenSet, ScanTest, Take,
       OpenRelease, CreateInstance, Dispose, poolVars, closeVars
  <2>5. ASSUME NEW o \in Opens, PushRead(o)
        PROVE  /\ Instances' = Instances /\ pfin' = pfin /\ cfin' = cfin
               /\ ofin' = [ofin EXCEPT ![o] = Instances.fin]
    BY <2>5 DEF PushRead, poolVars, closeVars
  <2>6. ASSUME NEW o \in Opens, PushWrite(o)
        PROVE  /\ Instances'.fin = ofin[o] + 1 /\ pfin' = pfin /\ cfin' = cfin
               /\ ofin' = [ofin EXCEPT ![o] = 0]
    BY <2>6 DEF PushWrite, poolVars, closeVars, PutAt
  <2>7. ASSUME NEW c \in Closers,
               \/ CloseCall(c) \/ CloseSpin(c) \/ CloseSet(c) \/ CloseTest(c)
               \/ CloseBack(c) \/ CloseRelease(c)
        PROVE  /\ Instances' = Instances /\ pfin' = pfin /\ ofin' = ofin
               /\ cfin' = cfin
    BY <2>7 DEF CloseCall, CloseSpin, CloseSet, CloseTest, CloseBack,
       CloseRelease, poolVars, openVars
  <2>8. ASSUME NEW c \in Closers, PopRead(c)
        PROVE  /\ Instances' = Instances /\ pfin' = pfin /\ ofin' = ofin
               /\ cfin' = [cfin EXCEPT ![c] = Instances.fin]
    BY <2>8 DEF PopRead, poolVars, openVars
  <2>9. ASSUME NEW c \in Closers, PopWrite(c)
        PROVE  /\ Instances'.fin = cfin[c] - 1 /\ pfin' = pfin /\ ofin' = ofin
               /\ cfin' = [cfin EXCEPT ![c] = 0]
    BY <2>9, VectorTypes DEF PopWrite, poolVars, openVars
  <2>10. ASSUME NEW o \in Opens,
                \/ OpenCall(o) \/ OpenSpin(o) \/ OpenSet(o) \/ ScanTest(o)
                \/ ScanUsed(o) \/ ScanString(o) \/ Take(o) \/ OpenRelease(o)
                \/ CreateInstance(o) \/ PushRead(o)
                \/ PushWrite(o) \/ Dispose(o)
         PROVE  /\ Instances'.fin <= n' /\ pfin' <= n'
                /\ \A q \in Opens : ofin'[q] <= n'
                /\ \A c \in Closers : cfin'[c] <= n'
    <3>1. CASE \/ OpenCall(o) \/ OpenSpin(o) \/ OpenSet(o) \/ ScanTest(o)
               \/ Take(o) \/ OpenRelease(o) \/ CreateInstance(o) \/ Dispose(o)
               \/ ScanUsed(o) \/ ScanString(o)
      BY <1>0, <1>1, <2>4, <3>1, VectorTypes
    <3>2. CASE PushRead(o)
      <4>1. ofin \in [Opens -> Nat] /\ Instances.fin \in Nat
        BY DEF TypeOK
      <4>2. \A q \in Opens : ofin'[q] \in {ofin[q], Instances.fin}
        BY <2>5, <3>2, <4>1
      <4>3. QED
        BY <1>0, <1>1, <2>5, <3>2, <4>1, <4>2, VectorTypes
    <3>3. CASE PushWrite(o)
      <4>1. n' = n + 1 /\ ofin \in [Opens -> Nat]
        BY <1>0, <3>3 DEF TypeOK
      <4>2. ofin[o] \in Nat /\ ofin[o] <= n
        BY <1>1, VectorTypes
      <4>3. \A q \in Opens : ofin'[q] \in {ofin[q], 0}
        BY <2>6, <3>3, <4>1
      <4>4. QED
        BY <1>0, <1>1, <2>6, <3>3, <4>1, <4>2, <4>3, VectorTypes
    <3>4. QED
      BY <2>10, <3>1, <3>2, <3>3
  <2>11. ASSUME NEW c \in Closers,
                \/ CloseCall(c) \/ CloseSpin(c) \/ CloseSet(c) \/ CloseTest(c)
                \/ CloseBack(c) \/ PopRead(c) \/ PopWrite(c) \/ CloseRelease(c)
         PROVE  /\ Instances'.fin <= n' /\ pfin' <= n'
                /\ \A o \in Opens : ofin'[o] <= n'
                /\ \A d \in Closers : cfin'[d] <= n'
    <3>1. CASE \/ CloseCall(c) \/ CloseSpin(c) \/ CloseSet(c) \/ CloseTest(c)
               \/ CloseBack(c) \/ CloseRelease(c)
      BY <1>0, <1>1, <2>7, <3>1, VectorTypes
    <3>2. CASE PopRead(c)
      <4>1. cfin \in [Closers -> Nat] /\ Instances.fin \in Nat
        BY DEF TypeOK
      <4>2. \A q \in Closers : cfin'[q] \in {cfin[q], Instances.fin}
        BY <2>8, <3>2, <4>1
      <4>3. QED
        BY <1>0, <1>1, <2>8, <3>2, <4>1, <4>2, VectorTypes
    <3>3. CASE PopWrite(c)
      <4>1. cfin[c] \in Nat /\ cfin[c] <= n /\ cfin \in [Closers -> Nat]
        BY <1>1, VectorTypes DEF TypeOK
      <4>2. \A q \in Closers : cfin'[q] \in {cfin[q], 0}
        BY <2>9, <3>3, <4>1
      <4>3. QED
        BY <1>0, <1>1, <2>9, <3>3, <4>1, <4>2, VectorTypes
    <3>4. QED
      BY <2>11, <3>1, <3>2, <3>3
  <2>12. QED
    BY <2>1, <2>2, <2>3, <2>10, <2>11, Steps
<1>3. QED
  BY <1>2 DEF n

(* An erase or a pop_back has found an element, and who stands in the      *)
(* vector stands at one of its slots.                                      *)
LEMMA VectorStep ==
  ASSUME TypeOK, VectorInv, [Next]_vars
  PROVE  VectorInv'
<1>1. corrupt' = {} => corrupt = {}
  BY StepBegins DEF vars
<1>2. Cardinality(Opens)' = Cardinality(Opens) /\ Cardinality(Opens) \in Nat
      /\ \A k \in Sound : k \in 1..Cardinality(Opens)
  BY SettledSize, VectorTypes DEF Sound
<1>3. \A c \in Closers : closer'[c] = "pop2" /\ corrupt' = {} => 1 <= cfin'[c]
  <2>1. \A c \in Closers : closer[c] = "pop2" /\ corrupt = {} => 1 <= cfin[c]
    BY DEF VectorInv
  <2>2. CASE UNCHANGED <<closer, cfin>>
    BY <1>1, <2>1, <2>2
  <2>3. ASSUME NEW c \in Closers, PopRead(c), corrupt' = {}
        PROVE  \A d \in Closers : closer'[d] = "pop2" => 1 <= cfin'[d]
    <3>1. /\ cfin' = [cfin EXCEPT ![c] = Instances.fin]
          /\ closer' = [closer EXCEPT ![c] = "pop2"]
          /\ Instances.fin # 0
      BY <2>3 DEF PopRead, CloseGoes, Blame
    <3>2. 1 <= Instances.fin
      BY <3>1, VectorTypes
    <3>3. QED
      BY <1>1, <2>1, <2>3, <3>1, <3>2 DEF TypeOK
  <2>4. ASSUME NEW c \in Closers, corrupt' = {},
               \/ CloseCall(c) \/ CloseSpin(c) \/ CloseSet(c) \/ CloseTest(c)
               \/ CloseBack(c) \/ PopWrite(c) \/ CloseRelease(c)
        PROVE  \A d \in Closers : closer'[d] = "pop2" => 1 <= cfin'[d]
    <3>1. /\ closer'[c] # "pop2"
          /\ \A d \in Closers \ {c} : closer'[d] = closer[d] /\ cfin'[d] = cfin[d]
      BY <2>4 DEF CloseCall, CloseSpin, CloseSet, CloseTest, CloseBack, PopWrite,
         CloseRelease, CloseGoes, TypeOK
    <3>2. QED
      BY <1>1, <2>1, <2>4, <3>1
  <2>5. CASE DtorStop \/ DtorUnhold \/ DtorJoin
    <3>1. /\ \E p \in {"unhold", "join", "done"} :
               closer' = [closer EXCEPT ![Dtor] = p]
          /\ cfin' = cfin
      BY <2>5 DEF DtorStop, DtorUnhold, DtorJoin, CloseGoes
    <3>2. \A c \in Closers : closer'[c] = "pop2" => closer[c] = "pop2"
      BY <3>1 DEF TypeOK
    <3>3. QED
      BY <1>1, <2>1, <3>1, <3>2
  <2>6. CASE \/ PoolTop \/ PoolSpin \/ PoolSet \/ SweepTest \/ SweepLook
             \/ SweepDelete \/ EraseRead \/ EraseWrite \/ PoolRelease
             \/ PoolSleep
    BY <2>2, <2>6 DEF PoolTop, PoolSpin, PoolSet, SweepTest, SweepLook,
       SweepDelete, EraseRead, EraseWrite, PoolRelease, PoolSleep, closeVars
  <2>7. ASSUME NEW o \in Opens,
               \/ OpenCall(o) \/ OpenSpin(o) \/ OpenSet(o) \/ ScanTest(o)
               \/ ScanUsed(o) \/ ScanString(o) \/ Take(o) \/ OpenRelease(o)
               \/ CreateInstance(o) \/ PushRead(o)
               \/ PushWrite(o) \/ Dispose(o)
        PROVE  UNCHANGED <<closer, cfin>>
    BY <2>7, ReadsDoes DEF OpenCall, OpenSpin, OpenSet, ScanTest, Take,
       OpenRelease, CreateInstance, PushRead, PushWrite, Dispose, closeVars
  <2>8. CASE \/ \E i \in Opens : Expire(i)
             \/ \E s \in ConnStrings : SetConnectionString(s)
             \/ UNCHANGED vars
    BY <2>2, <2>8 DEF Expire, SetConnectionString, closeVars, vars
  <2>9. QED
    BY <2>2, <2>3, <2>4, <2>5, <2>6, <2>7, <2>8, Steps
<1>4. /\ 1 <= it'
      /\ pool' \in {"delete", "erase", "erase2"} => it' <= Cardinality(Opens)
      /\ pool' = "erase2" /\ corrupt' = {} => it' <= pfin'
  <2>1. /\ 1 <= it /\ it \in Nat /\ pfin \in Nat
        /\ pool \in {"delete", "erase", "erase2"} => it <= Cardinality(Opens)
        /\ pool = "erase2" /\ corrupt = {} => it <= pfin
    BY VectorTypes DEF VectorInv
  <2>2. CASE UNCHANGED <<pool, it, pfin>>
    BY <1>1, <2>1, <2>2
  <2>3. CASE PoolTop \/ PoolSpin \/ SweepTest \/ PoolRelease \/ PoolSleep
    BY <2>1, <2>3 DEF PoolTop, PoolSpin, SweepTest, PoolRelease, PoolSleep,
       PoolGoes
  <2>4. CASE PoolSet
    BY <2>1, <2>4 DEF PoolSet, PoolGoes
  <2>5. CASE SweepLook
    BY <1>2, <2>1, <2>5 DEF SweepLook, PoolGoes
  <2>6. CASE SweepDelete
    BY <2>1, <2>6 DEF SweepDelete, PoolGoes
  <2>7. CASE EraseRead
    <3>1. /\ it' = it /\ pfin' = Instances.fin /\ pool' = "erase2"
          /\ pool = "erase" /\ (corrupt' = {} => ~(it > Instances.fin))
      BY <2>7 DEF EraseRead, PoolGoes, Blame
    <3>2. QED
      BY <2>1, <3>1, VectorTypes
  <2>8. CASE EraseWrite
    BY <2>1, <2>8 DEF EraseWrite, PoolGoes
  <2>9. ASSUME NEW o \in Opens,
               \/ OpenCall(o) \/ OpenSpin(o) \/ OpenSet(o) \/ ScanTest(o)
               \/ ScanUsed(o) \/ ScanString(o) \/ Take(o) \/ OpenRelease(o)
               \/ CreateInstance(o) \/ PushRead(o)
               \/ PushWrite(o) \/ Dispose(o)
        PROVE  UNCHANGED <<pool, it, pfin>>
    BY <2>9, ReadsDoes DEF OpenCall, OpenSpin, OpenSet, ScanTest, Take,
       OpenRelease, CreateInstance, PushRead, PushWrite, Dispose, poolVars
  <2>10. ASSUME NEW c \in Closers,
                \/ CloseCall(c) \/ CloseSpin(c) \/ CloseSet(c) \/ CloseTest(c)
                \/ CloseBack(c) \/ PopRead(c) \/ PopWrite(c) \/ CloseRelease(c)
         PROVE  UNCHANGED <<pool, it, pfin>>
    BY <2>10 DEF CloseCall, CloseSpin, CloseSet, CloseTest, CloseBack, PopRead,
       PopWrite, CloseRelease, poolVars
  <2>11. CASE \/ DtorStop \/ DtorUnhold \/ DtorJoin
              \/ \E i \in Opens : Expire(i)
              \/ \E s \in ConnStrings : SetConnectionString(s)
              \/ UNCHANGED vars
    BY <2>2, <2>11 DEF DtorStop, DtorUnhold, DtorJoin, Expire,
       SetConnectionString, poolVars, vars
  <2>12. QED
    BY <2>2, <2>3, <2>4, <2>5, <2>6, <2>7, <2>8, <2>9, <2>10, <2>11, Steps
<1>5. \A o \in Opens :
        /\ 1 <= oit'[o]
        /\ opener'[o] \in {"string", "take"} => oit'[o] <= Cardinality(Opens)
  <2>1. \A o \in Opens :
          /\ 1 <= oit[o] /\ oit[o] \in Nat
          /\ opener[o] \in {"string", "take"} => oit[o] <= Cardinality(Opens)
    BY DEF VectorInv, TypeOK
  <2>2. CASE UNCHANGED <<opener, oit>>
    BY <2>1, <2>2
  <2>3. ASSUME NEW o \in Opens,
               \/ OpenCall(o) \/ OpenSpin(o) \/ OpenSet(o) \/ ScanTest(o)
               \/ Take(o) \/ OpenRelease(o) \/ CreateInstance(o)
               \/ PushRead(o) \/ PushWrite(o) \/ Dispose(o)
        PROVE  \A q \in Opens :
                 /\ 1 <= oit'[q]
                 /\ opener'[q] \in {"string", "take"} =>
                      oit'[q] <= Cardinality(Opens)
    <3>1. /\ opener'[o] \notin {"string", "take"} /\ oit'[o] \in {oit[o], 1}
          /\ \A q \in Opens \ {o} : opener'[q] = opener[q] /\ oit'[q] = oit[q]
      BY <2>3 DEF OpenCall, OpenSpin, OpenSet, ScanTest, Take, OpenRelease,
         CreateInstance, PushRead, PushWrite, Dispose, OpenGoes, TypeOK
    <3>2. QED
      BY <2>1, <3>1
  <2>4. ASSUME NEW o \in Opens, ScanUsed(o) \/ ScanString(o)
        PROVE  \A q \in Opens :
                 /\ 1 <= oit'[q]
                 /\ opener'[q] \in {"string", "take"} =>
                      oit'[q] <= Cardinality(Opens)
    <3>1. PICK p \in Scanning, n \in Nat :
            /\ opener' = [opener EXCEPT ![o] = p] /\ oit' = [oit EXCEPT ![o] = n]
            /\ \/ oit[o] \notin Sound /\ p = opener[o] /\ n = oit[o]
               \/ oit[o] \in Sound /\ p = "scan" /\ n = oit[o] + 1
               \/ oit[o] \in Sound /\ n = oit[o]
      BY <2>4, ReadsDoes
    <3>2. /\ opener'[o] = p /\ oit'[o] = n
          /\ \A q \in Opens \ {o} : opener'[q] = opener[q] /\ oit'[q] = oit[q]
      BY <3>1 DEF TypeOK
    <3>3. 1 <= n /\ (p \in {"string", "take"} => n <= Cardinality(Opens))
      BY <1>2, <2>1, <3>1
    <3>4. QED
      BY <2>1, <3>2, <3>3
  <2>5. CASE \/ PoolTop \/ PoolSpin \/ PoolSet \/ SweepTest \/ SweepLook
             \/ SweepDelete \/ EraseRead \/ EraseWrite \/ PoolRelease
             \/ PoolSleep
    BY <2>2, <2>5 DEF PoolTop, PoolSpin, PoolSet, SweepTest, SweepLook,
       SweepDelete, EraseRead, EraseWrite, PoolRelease, PoolSleep, openVars
  <2>6. ASSUME NEW c \in Closers,
               \/ CloseCall(c) \/ CloseSpin(c) \/ CloseSet(c) \/ CloseTest(c)
               \/ CloseBack(c) \/ PopRead(c) \/ PopWrite(c) \/ CloseRelease(c)
        PROVE  UNCHANGED <<opener, oit>>
    BY <2>6 DEF CloseCall, CloseSpin, CloseSet, CloseTest, CloseBack, PopRead,
       PopWrite, CloseRelease, openVars
  <2>7. CASE \/ DtorStop \/ DtorUnhold \/ DtorJoin
             \/ \E i \in Opens : Expire(i)
             \/ \E s \in ConnStrings : SetConnectionString(s)
             \/ UNCHANGED vars
    BY <2>2, <2>7 DEF DtorStop, DtorUnhold, DtorJoin, Expire,
       SetConnectionString, openVars, vars
  <2>8. QED
    BY <2>2, <2>3, <2>4, <2>5, <2>6, <2>7, Steps
<1>6. QED
  BY <1>2, <1>3, <1>4, <1>5, FinishStep DEF VectorInv

-----------------------------------------------------------------------------
(* Hold, the instances and what the callers know of them. *)

(* A step that lets nobody into Hold leaves inside who was, or fewer.      *)
LEMMA MutexStep ==
  ASSUME TypeOK, MutexInv, [Next]_vars
  PROVE  MutexInv'
<1>1. CASE /\ overlap' = overlap
           /\ PoolInside' => PoolInside
           /\ \A o \in Opens : OpenInside(o)' => OpenInside(o)
           /\ \A c \in Closers : CloseInside(c)' => CloseInside(c)
  BY <1>1 DEF MutexInv
<1>2. CASE PoolSet
  BY <1>2 DEF PoolSet, PoolGoes, Enter, Held, MutexInv, PoolInside, OpenInside,
     CloseInside, openVars, closeVars
<1>3. ASSUME NEW o \in Opens, OpenSet(o)
      PROVE  MutexInv'
  <2>1. /\ overlap' = (overlap \/ Held) /\ pool' = pool /\ closer' = closer
        /\ \A q \in Opens \ {o} : opener'[q] = opener[q]
    BY <1>3 DEF OpenSet, OpenGoes, Enter, poolVars, closeVars, TypeOK
  <2>2. QED
    BY <2>1 DEF Held, MutexInv, PoolInside, OpenInside, CloseInside
<1>4. ASSUME NEW c \in Closers, CloseSet(c)
      PROVE  MutexInv'
  <2>1. /\ overlap' = (overlap \/ Held) /\ pool' = pool /\ opener' = opener
        /\ \A d \in Closers \ {c} : closer'[d] = closer[d]
    BY <1>4 DEF CloseSet, CloseGoes, Enter, poolVars, openVars, TypeOK
  <2>2. QED
    BY <2>1 DEF Held, MutexInv, PoolInside, OpenInside, CloseInside
<1>5. CASE \/ PoolTop \/ PoolSpin \/ SweepTest \/ SweepLook \/ SweepDelete
           \/ EraseRead \/ EraseWrite \/ PoolRelease \/ PoolSleep
  <2>1. /\ overlap' = overlap /\ opener' = opener /\ closer' = closer
        /\ pool' \in Sweeping \cup {"release"} =>
             pool \in Sweeping \cup {"release"}
    BY <1>5 DEF PoolTop, PoolSpin, SweepTest, SweepLook, SweepDelete, EraseRead,
       EraseWrite, PoolRelease, PoolSleep, PoolGoes, Sweeping, openVars,
       closeVars
  <2>2. QED
    BY <1>1, <2>1 DEF PoolInside, OpenInside, CloseInside
<1>6. ASSUME NEW o \in Opens,
             \/ OpenCall(o) \/ OpenSpin(o) \/ ScanTest(o) \/ ScanUsed(o)
             \/ ScanString(o) \/ Take(o) \/ OpenRelease(o)
             \/ CreateInstance(o) \/ PushRead(o) \/ PushWrite(o) \/ Dispose(o)
      PROVE  MutexInv'
  <2>1. CASE ~(ScanUsed(o) \/ ScanString(o))
    <3>1. /\ overlap' = overlap /\ pool' = pool /\ closer' = closer
          /\ \A q \in Opens : opener'[q] = opener[q]
                              \/ opener'[q] \notin Scanning \cup {"release"}
                              \/ opener[q] \in Scanning
      BY <1>6, <2>1 DEF OpenCall, OpenSpin, ScanTest, Take, OpenRelease,
         CreateInstance, PushRead, PushWrite, Dispose, OpenGoes, Scanning,
         poolVars, closeVars, TypeOK
    <3>2. QED
      BY <1>1, <3>1 DEF PoolInside, OpenInside, CloseInside
  <2>2. CASE ScanUsed(o) \/ ScanString(o)
    <3>1. /\ overlap' = overlap /\ pool' = pool /\ closer' = closer
          /\ opener[o] \in Scanning
      BY <2>2, ReadsDoes DEF Scanning
    <3>2. \A q \in Opens \ {o} : opener'[q] = opener[q]
      BY <2>2, ReadsDoes DEF TypeOK
    <3>3. QED
      BY <1>1, <3>1, <3>2 DEF PoolInside, OpenInside, CloseInside
  <2>3. QED
    BY <2>1, <2>2
<1>7. ASSUME NEW c \in Closers,
             \/ CloseCall(c) \/ CloseSpin(c) \/ CloseTest(c) \/ CloseBack(c)
             \/ PopRead(c) \/ PopWrite(c) \/ CloseRelease(c)
      PROVE  MutexInv'
  <2>1. /\ overlap' = overlap /\ pool' = pool /\ opener' = opener
        /\ \A d \in Closers : closer'[d] = closer[d]
                              \/ closer'[d] \notin Closing \cup {"release"}
                              \/ closer[d] \in Closing
    BY <1>7 DEF CloseCall, CloseSpin, CloseTest, CloseBack, PopRead, PopWrite,
       CloseRelease, CloseGoes, Closing, poolVars, openVars, TypeOK
  <2>2. QED
    BY <1>1, <2>1 DEF PoolInside, OpenInside, CloseInside
<1>8. CASE DtorStop \/ DtorUnhold \/ DtorJoin
  <2>1. /\ overlap' = overlap /\ pool' = pool /\ opener' = opener
        /\ \A d \in Closers : closer'[d] = closer[d]
                              \/ closer'[d] \notin Closing \cup {"release"}
    BY <1>8 DEF DtorStop, DtorUnhold, DtorJoin, CloseGoes, Closing, poolVars,
       openVars, TypeOK
  <2>2. QED
    BY <1>1, <2>1 DEF PoolInside, OpenInside, CloseInside
<1>9. CASE \/ \E i \in Opens : Expire(i)
           \/ \E s \in ConnStrings : SetConnectionString(s)
           \/ UNCHANGED vars
  BY <1>1, <1>9 DEF Expire, SetConnectionString, vars, poolVars, openVars,
     closeVars, PoolInside, OpenInside, CloseInside
<1>10. QED
  BY <1>2, <1>3, <1>4, <1>5, <1>6, <1>7, <1>8, <1>9, Steps

(* A scan returns what a push_back has stored; a deletion leaves the       *)
(* instance the one that open() made.                                      *)
LEMMA OriginStep ==
  ASSUME TypeOK, VectorInv, OriginInv, [Next]_vars
  PROVE  OriginInv'
<1> DEFINE Origin(at, opn, gt, ins) ==
      /\ \A k \in 1..Cardinality(Opens) :
           at[k] # None => gt[at[k]] = at[k] /\ opn[at[k]] \in {"using", "done"}
      /\ \A o \in Opens :
           /\ opn[o] \in Fresh => ins[o] = "none"
           /\ opn[o] \in Fresh \ {"release"} => gt[o] = None
           /\ opn[o] \in Pushes => gt[o] = o /\ ins[o] = "live"
           /\ opn[o] = "using" => gt[o] # None
           /\ gt[o] = o => ins[o] \in {"live", "swept", "closed"}
                           /\ opn[o] \in Pushes \cup {"using", "done"}
           /\ ins[o] = "live" => gt[o] = o
           /\ gt[o] \notin {None, o} =>
                gt[gt[o]] = gt[o] /\ opn[gt[o]] \in {"using", "done"}
<1>1. /\ Instances.at \in [1..Cardinality(Opens) -> Opens \cup {None}]
      /\ DOMAIN Instances.at = 1..Cardinality(Opens)
      /\ opener \in [Opens -> OpenPC] /\ got \in [Opens -> Opens \cup {None}]
      /\ inst \in [Opens -> InstState] /\ None \notin Opens
  BY VectorTypes, DbPoolAssumption DEF TypeOK
<1>2. Origin(Instances.at, opener, got, inst)
  BY <1>1 DEF OriginInv
<1>3. SUFFICES /\ DOMAIN Instances'.at = 1..Cardinality(Opens)
               /\ Origin(Instances'.at, opener', got', inst')
  BY DEF OriginInv
<1>4. CASE UNCHANGED <<Instances, opener, got, inst>>
  BY <1>1, <1>2, <1>4
<1>5. CASE EraseWrite
  <2>1. /\ opener' = opener /\ got' = got /\ inst' = inst
        /\ Instances'.at = [k \in 1..Cardinality(Opens) |->
             IF it <= k /\ k < pfin THEN Instances.at[k + 1] ELSE Instances.at[k]]
    BY <1>1, <1>5 DEF EraseWrite, CutAt, openVars, instVars
  <2>2. it \in Nat /\ pfin \in Nat /\ pfin <= Cardinality(Opens)
    BY VectorTypes, SettledSize DEF VectorInv
  <2>3. \A k \in 1..Cardinality(Opens) : \E m \in 1..Cardinality(Opens) :
          Instances'.at[k] = Instances.at[m]
    BY <2>1, <2>2, SettledSize
  <2>4. QED
    BY <1>1, <1>2, <2>1, <2>3
<1>6. ASSUME NEW k \in 1..Cardinality(Opens), NEW st \in {"swept", "closed"},
             Instances' = Instances, opener' = opener, got' = got,
             \/ inst' = [inst EXCEPT ![Instances.at[k]] = st]
             \/ inst' = inst
      PROVE  /\ DOMAIN Instances'.at = 1..Cardinality(Opens)
             /\ Origin(Instances'.at, opener', got', inst')
  <2>1. \A o \in Opens : inst'[o] = inst[o] \/ (inst'[o] = st /\ o = Instances.at[k])
    BY <1>1, <1>6
  <2>2. QED
    BY <1>1, <1>2, <1>6, <2>1 DEF Fresh, Pushes
<1>7. CASE SweepDelete
  <2>1. it \in 1..Cardinality(Opens)
    BY <1>7, VectorTypes, SettledSize DEF SweepDelete, PoolGoes, VectorInv
  <2>2. /\ Instances' = Instances /\ opener' = opener /\ got' = got
        /\ inst' = [inst EXCEPT ![Instances.at[it]] = "swept"]
    BY <1>7 DEF SweepDelete, openVars
  <2>3. QED
    BY <1>6, <2>1, <2>2
<1>8. ASSUME NEW c \in Closers, CloseBack(c)
      PROVE  /\ DOMAIN Instances'.at = 1..Cardinality(Opens)
             /\ Origin(Instances'.at, opener', got', inst')
  <2>1. CASE Instances.fin \notin Sound
    BY <1>4, <1>8, <2>1 DEF CloseBack, openVars
  <2>2. CASE Instances.fin \in Sound
    <3>1. Instances.fin \in 1..Cardinality(Opens)
      BY <1>1, <2>2 DEF Sound
    <3>2. /\ Instances' = Instances /\ opener' = opener /\ got' = got
          /\ inst' = [inst EXCEPT ![Instances.at[Instances.fin]] = "closed"]
      BY <1>8, <2>2 DEF CloseBack, openVars
    <3>3. QED
      BY <1>6, <3>1, <3>2
  <2>3. QED
    BY <2>1, <2>2
<1>9. ASSUME NEW o \in Opens, Take(o)
      PROVE  /\ DOMAIN Instances'.at = 1..Cardinality(Opens)
             /\ Origin(Instances'.at, opener', got', inst')
  <2>1. /\ Instances' = Instances /\ inst' = inst /\ opener[o] = "take"
        /\ opener' = [opener EXCEPT ![o] = "release"]
    BY <1>9 DEF Take, OpenGoes, instVars
  <2>2. /\ oit[o] \in 1..Cardinality(Opens)
        /\ got' = [got EXCEPT ![o] = Instances.at[oit[o]]] /\ got[o] = None
    BY <1>2, <1>9, <2>1, SettledSize DEF Take, VectorInv, TypeOK, Fresh, Scanning
  <2>3. \A q \in Opens : opener'[q] = IF q = o THEN "release" ELSE opener[q]
    BY <1>1, <2>1
  <2>4. CASE got' = got
    BY <1>1, <1>2, <2>1, <2>3, <2>4 DEF Fresh, Pushes
  <2>5. ASSUME NEW i \in Opens, got[i] = i, opener[i] \in {"using", "done"},
               got' = [got EXCEPT ![o] = i]
        PROVE  Origin(Instances'.at, opener', got', inst')
    <3>1. \A q \in Opens : got'[q] = IF q = o THEN i ELSE got[q]
      BY <1>1, <2>5
    <3>2. i # o /\ inst[o] = "none" /\ opener'[i] \in {"using", "done"}
          /\ got'[i] = i /\ i # None
      BY <1>1, <1>2, <2>1, <2>3, <2>5, <3>1 DEF Fresh
    <3>3. \A q \in Opens : got[q] # o /\ \A k \in 1..Cardinality(Opens) :
                                              Instances.at[k] # o
      BY <1>1, <1>2, <2>1 DEF Fresh, Pushes
    <3>4. \A k \in 1..Cardinality(Opens) : Instances.at[k] # None =>
            /\ got'[Instances.at[k]] = Instances.at[k]
            /\ opener'[Instances.at[k]] \in {"using", "done"}
      <4>1. \A k \in 1..Cardinality(Opens) : Instances.at[k] # None =>
              Instances.at[k] \in Opens \ {o}
        BY <1>1, <3>3
      <4>2. QED
        BY <1>2, <2>3, <3>1, <4>1
    <3>5. \A q \in Opens : q # o /\ got[q] # None =>
            got[q] \in Opens \ {o} /\ got'[got[q]] = got[got[q]]
            /\ opener'[got[q]] = opener[got[q]]
      BY <1>1, <2>3, <3>1, <3>3
    <3>6. /\ DOMAIN Instances'.at = 1..Cardinality(Opens)
          /\ Instances'.at = Instances.at /\ inst' = inst
      BY <1>1, <2>1
    <3>7. QED
      BY <1>1, <1>2, <2>3, <3>1, <3>2, <3>4, <3>5, <3>6 DEF Fresh, Pushes
  <2>6. QED
    <3>1. CASE Instances.at[oit[o]] = None
      <4>1. got' = got
        BY <1>1, <2>2, <3>1
      <4>2. QED
        BY <1>1, <2>1, <2>4, <4>1
    <3>2. CASE Instances.at[oit[o]] # None
      <4> DEFINE i == Instances.at[oit[o]]
      <4>0. i \in Opens
        BY <1>1, <2>2, <3>2
      <4>1. /\ i \in Opens /\ got[i] = i /\ opener[i] \in {"using", "done"}
            /\ got' = [got EXCEPT ![o] = i]
        BY <1>2, <2>2, <3>2, <4>0
      <4> HIDE DEF i, Origin
      <4>2. Origin(Instances'.at, opener', got', inst')
        BY <2>5, <4>1
      <4>3. QED
        BY <1>1, <2>1, <4>2
    <3>3. QED
      BY <3>1, <3>2
<1>10. ASSUME NEW o \in Opens, CreateInstance(o)
       PROVE  /\ DOMAIN Instances'.at = 1..Cardinality(Opens)
              /\ Origin(Instances'.at, opener', got', inst')
  <2>1. /\ Instances' = Instances /\ opener[o] = "create"
        /\ \/ /\ opener' = [opener EXCEPT ![o] = "push1"]
              /\ inst' = [inst EXCEPT ![o] = "live"]
              /\ got' = [got EXCEPT ![o] = o]
           \/ /\ opener' = [opener EXCEPT ![o] = "threw"]
              /\ inst' = [inst EXCEPT ![o] = "failed"]
              /\ got' = got
    BY <1>10 DEF CreateInstance, OpenGoes
  <2>2. \A q \in Opens : got[q] # o /\ \A k \in 1..Cardinality(Opens) :
                                            Instances.at[k] # o
    BY <1>1, <1>2, <2>1 DEF Fresh, Pushes
  <2>3. \A q \in Opens \ {o} :
          opener'[q] = opener[q] /\ inst'[q] = inst[q] /\ got'[q] = got[q]
    BY <1>1, <2>1
  <2>4. \/ opener'[o] = "push1" /\ inst'[o] = "live" /\ got'[o] = o
        \/ opener'[o] = "threw" /\ inst'[o] = "failed" /\ got'[o] = None
    BY <1>1, <1>2, <2>1 DEF Fresh
  <2>5. \A k \in 1..Cardinality(Opens) : Instances.at[k] # None =>
          /\ got'[Instances.at[k]] = Instances.at[k]
          /\ opener'[Instances.at[k]] \in {"using", "done"}
    <3>1. \A k \in 1..Cardinality(Opens) : Instances.at[k] # None =>
            Instances.at[k] \in Opens \ {o}
      BY <1>1, <2>2
    <3>2. QED
      BY <1>2, <2>3, <3>1
  <2>6. \A q \in Opens : q # o /\ got[q] # None =>
          got[q] \in Opens \ {o} /\ got'[got[q]] = got[got[q]]
          /\ opener'[got[q]] = opener[got[q]]
    BY <1>1, <2>2, <2>3
  <2>7. DOMAIN Instances'.at = 1..Cardinality(Opens) /\ Instances'.at = Instances.at
    BY <1>1, <2>1
  <2>8. QED
    BY <1>1, <1>2, <2>3, <2>4, <2>5, <2>6, <2>7 DEF Fresh, Pushes
<1>11. ASSUME NEW o \in Opens, PushWrite(o)
       PROVE  /\ DOMAIN Instances'.at = 1..Cardinality(Opens)
              /\ Origin(Instances'.at, opener', got', inst')
  <2>1. /\ inst' = inst /\ got' = got /\ opener[o] = "push2"
        /\ opener' = [opener EXCEPT ![o] = "using"]
        /\ Instances'.at = [Instances.at EXCEPT ![ofin[o] + 1] = o]
    BY <1>11 DEF PushWrite, OpenGoes, instVars, PutAt
  <2>2. \A k \in 1..Cardinality(Opens) : Instances'.at[k] \in {Instances.at[k], o}
    BY <1>1, <2>1
  <2>3. DOMAIN Instances'.at = 1..Cardinality(Opens)
    BY <1>1, <2>1
  <2>4. \A q \in Opens : opener'[q] = IF q = o THEN "using" ELSE opener[q]
    BY <1>1, <2>1
  <2>5. QED
    BY <1>1, <1>2, <2>1, <2>2, <2>3, <2>4 DEF Fresh, Pushes
<1>12. ASSUME NEW o \in Opens,
              \/ OpenCall(o) \/ OpenSpin(o) \/ OpenSet(o) \/ ScanTest(o)
              \/ ScanUsed(o) \/ ScanString(o) \/ OpenRelease(o)
              \/ PushRead(o) \/ Dispose(o)
       PROVE  /\ DOMAIN Instances'.at = 1..Cardinality(Opens)
              /\ Origin(Instances'.at, opener', got', inst')
  <2>1. ASSUME NEW p \in OpenPC, opener' = [opener EXCEPT ![o] = p],
               Instances' = Instances, inst' = inst, got' = got,
               \/ opener[o] \in Fresh \ {"release", "create"}
                  /\ p \in Fresh
               \/ opener[o] = "release" /\ p = "using" /\ got[o] # None
               \/ opener[o] = "release" /\ p = "create" /\ got[o] = None
               \/ opener[o] = "push1" /\ p = "push2"
               \/ opener[o] = "using" /\ p = "done"
        PROVE  /\ DOMAIN Instances'.at = 1..Cardinality(Opens)
               /\ Origin(Instances'.at, opener', got', inst')
    BY <1>1, <1>2, <2>1 DEF Fresh, Pushes, Scanning
  <2>2. CASE ~(ScanUsed(o) \/ ScanString(o))
    <3>1. /\ Instances' = Instances /\ inst' = inst /\ got' = got
          /\ \E p \in OpenPC :
               /\ opener' = [opener EXCEPT ![o] = p]
               /\ \/ opener[o] \in Fresh \ {"release", "create"} /\ p \in Fresh
                  \/ opener[o] = "release" /\ p = "using" /\ got[o] # None
                  \/ opener[o] = "release" /\ p = "create" /\ got[o] = None
                  \/ opener[o] = "push1" /\ p = "push2"
                  \/ opener[o] = "using" /\ p = "done"
      BY <1>12, <2>2 DEF OpenCall, OpenSpin, OpenSet, ScanTest, OpenRelease,
         PushRead, Dispose, OpenGoes, instVars, OpenPC, Scanning, Fresh
    <3>2. QED
      BY <2>1, <3>1
  <2>3. CASE ScanUsed(o) \/ ScanString(o)
    <3>1. /\ Instances' = Instances /\ inst' = inst /\ got' = got
          /\ opener[o] \in Fresh \ {"release", "create"}
          /\ \E p \in Scanning : opener' = [opener EXCEPT ![o] = p]
      BY <2>3, ReadsDoes DEF Fresh, Scanning
    <3>2. \A p \in Scanning : p \in Fresh /\ p \in OpenPC
      BY DEF Fresh, Scanning, OpenPC
    <3>3. QED
      BY <2>1, <3>1, <3>2
  <2>4. QED
    BY <2>2, <2>3
<1>13. CASE \/ PoolTop \/ PoolSpin \/ PoolSet \/ SweepTest \/ SweepLook
            \/ EraseRead \/ PoolRelease \/ PoolSleep
            \/ DtorStop \/ DtorUnhold \/ DtorJoin
            \/ (\E i \in Opens : Expire(i))
            \/ (\E s \in ConnStrings : SetConnectionString(s))
            \/ UNCHANGED vars
  BY <1>4, <1>13 DEF PoolTop, PoolSpin, PoolSet, SweepTest, SweepLook,
     EraseRead, PoolRelease, PoolSleep, DtorStop, DtorUnhold, DtorJoin, Expire,
     SetConnectionString, vars, openVars, instVars
<1>14. ASSUME NEW c \in Closers,
              \/ CloseCall(c) \/ CloseSpin(c) \/ CloseSet(c) \/ CloseTest(c)
              \/ PopRead(c) \/ PopWrite(c) \/ CloseRelease(c)
       PROVE  /\ DOMAIN Instances'.at = 1..Cardinality(Opens)
              /\ Origin(Instances'.at, opener', got', inst')
  <2>1. /\ opener' = opener /\ got' = got /\ inst' = inst
        /\ Instances'.at = Instances.at
    <3>1. CASE PopWrite(c)
      BY <3>1, VectorTypes DEF PopWrite, openVars, instVars
    <3>2. CASE \/ CloseCall(c) \/ CloseSpin(c) \/ CloseSet(c) \/ CloseTest(c)
               \/ PopRead(c) \/ CloseRelease(c)
      BY <3>2 DEF CloseCall, CloseSpin, CloseSet, CloseTest, PopRead,
         CloseRelease, openVars, instVars
    <3>3. QED
      BY <1>14, <3>1, <3>2
  <2>2. QED
    BY <1>1, <1>2, <2>1
<1>15. QED
  <2> HIDE DEF Origin
  <2>1. QED
    BY <1>5, <1>7, <1>8, <1>9, <1>10, <1>11, <1>12, <1>13, <1>14, Steps

(* The accidents are remembered: an update whose finish was stale is one   *)
(* of them, a push_back that cuts in on a closeAll() another.              *)
LEMMA CalmStep ==
  ASSUME TypeOK, [Next]_vars
  PROVE  /\ Calm' => Calm
         /\ Clean' => Clean
         /\ Calm' /\ EraseWrite => pfin = Instances.fin
         /\ \A o \in Opens : Calm' /\ PushWrite(o) => ofin[o] = Instances.fin
         /\ \A c \in Closers : Calm' /\ PopWrite(c) => cfin[c] = Instances.fin
         /\ (\A o \in Opens : ~PushWrite(o)) => cutin' = cutin
         /\ \A o \in Opens : Clean' /\ PushWrite(o) =>
              \A c \in Closers : closer[c] # "pop"
<1>1. ASSUME NEW o \in Opens,
             \/ OpenCall(o) \/ OpenSpin(o) \/ OpenSet(o) \/ ScanTest(o)
             \/ Take(o) \/ OpenRelease(o) \/ CreateInstance(o)
             \/ PushRead(o) \/ Dispose(o)
      PROVE  cutin' = cutin /\ (Calm' => Calm)
  BY <1>1 DEF OpenCall, OpenSpin, OpenSet, ScanTest, Take, OpenRelease,
     CreateInstance, PushRead, Dispose, Calm, Enter, TypeOK
<1>2. ASSUME NEW o \in Opens, ScanUsed(o) \/ ScanString(o)
      PROVE  cutin' = cutin /\ (Calm' => Calm)
  BY <1>2, ReadsDoes DEF Calm
<1>3. ASSUME NEW o \in Opens, PushWrite(o)
      PROVE  (cutin => cutin') /\ (Calm' => Calm)
  BY <1>3 DEF PushWrite, Calm, Stale
<1>4. ASSUME NEW c \in Closers,
             \/ CloseCall(c) \/ CloseSpin(c) \/ CloseSet(c) \/ CloseTest(c)
             \/ CloseBack(c) \/ PopRead(c) \/ PopWrite(c) \/ CloseRelease(c)
      PROVE  cutin' = cutin /\ (Calm' => Calm)
  BY <1>4 DEF CloseCall, CloseSpin, CloseSet, CloseTest, CloseBack, PopRead,
     PopWrite, CloseRelease, Calm, Enter, Stale, TypeOK
<1>5. ASSUME \/ DtorStop \/ DtorUnhold \/ DtorJoin
             \/ \E i \in Opens : Expire(i)
             \/ \E s \in ConnStrings : SetConnectionString(s)
             \/ UNCHANGED vars
      PROVE  cutin' = cutin /\ (Calm' => Calm)
  BY <1>5 DEF DtorStop, DtorUnhold, DtorJoin, Expire, SetConnectionString, vars,
     Calm
<1>6. ASSUME \/ PoolTop \/ PoolSpin \/ PoolSet \/ SweepTest \/ SweepLook
             \/ SweepDelete \/ EraseRead \/ EraseWrite \/ PoolRelease
             \/ PoolSleep
      PROVE  cutin' = cutin /\ (Calm' => Calm)
  BY <1>6 DEF PoolTop, PoolSpin, PoolSet, SweepTest, SweepLook, SweepDelete,
     EraseRead, EraseWrite, PoolRelease, PoolSleep, Calm, Enter, Stale, TypeOK
<1>7. \/ cutin' = cutin /\ (Calm' => Calm)
      \/ (\E o \in Opens : PushWrite(o)) /\ (cutin => cutin') /\ (Calm' => Calm)
  BY <1>1, <1>2, <1>3, <1>4, <1>5, <1>6, Steps
<1>8. /\ (cutin => cutin') /\ (Calm' => Calm)
      /\ (\A o \in Opens : ~PushWrite(o)) => cutin' = cutin
  BY <1>7
<1>9. /\ Calm' /\ EraseWrite => pfin = Instances.fin
      /\ \A o \in Opens : Calm' /\ PushWrite(o) => ofin[o] = Instances.fin
      /\ \A c \in Closers : Calm' /\ PopWrite(c) => cfin[c] = Instances.fin
  BY DEF EraseWrite, PushWrite, PopWrite, Stale, Calm, TypeOK
<1>10. \A o \in Opens : Clean' /\ PushWrite(o) =>
         \A c \in Closers : closer[c] # "pop"
  BY DEF PushWrite, Clean
<1>11. QED
  BY <1>8, <1>9, <1>10 DEF Clean

(* Nobody takes an element out of the vector while a thread scans it, and  *)
(* a push_back stores behind what is there.                                *)
LEMMA ScannerKeeps ==
  ASSUME TypeOK, VectorInv, MutexInv, [Next]_vars, Calm',
         NEW o \in Opens, opener[o] \in Scanning
  PROVE  /\ Instances.fin <= Instances'.fin
         /\ \A k \in 1..Instances.fin : Instances'.at[k] = Instances.at[k]
<1>1. /\ Instances.fin \in Nat
      /\ Instances.at \in [1..Cardinality(Opens) -> Opens \cup {None}]
      /\ OpenInside(o) /\ ~overlap
  BY CalmStep, VectorTypes DEF Calm, OpenInside
<1>2. ~PoolInside /\ \A c \in Closers : ~CloseInside(c)
  BY <1>1 DEF MutexInv
<1>3. CASE Instances' = Instances
  BY <1>1, <1>3
<1>4. ~EraseWrite
  BY <1>2 DEF EraseWrite, PoolGoes, PoolInside, Sweeping
<1>5. ASSUME NEW c \in Closers
      PROVE  ~PopWrite(c)
  BY <1>2 DEF PopWrite, CloseGoes, CloseInside, Closing
<1>6. ASSUME NEW q \in Opens, PushWrite(q)
      PROVE  /\ Instances.fin <= Instances'.fin
             /\ \A k \in 1..Instances.fin : Instances'.at[k] = Instances.at[k]
  <2>1. Instances' = PutAt(Instances, Instances.fin, q)
    BY <1>6, CalmStep DEF PushWrite
  <2>2. QED
    BY <1>1, <2>1 DEF PutAt
<1>7. CASE \/ PoolTop \/ PoolSpin \/ PoolSet \/ SweepTest \/ SweepLook
           \/ SweepDelete \/ EraseRead \/ PoolRelease \/ PoolSleep
           \/ DtorStop \/ DtorUnhold \/ DtorJoin
           \/ (\E i \in Opens : Expire(i))
           \/ (\E s \in ConnStrings : SetConnectionString(s))
           \/ UNCHANGED vars
  BY <1>3, <1>7 DEF PoolTop, PoolSpin, PoolSet, SweepTest, SweepLook,
     SweepDelete, EraseRead, PoolRelease, PoolSleep, DtorStop, DtorUnhold,
     DtorJoin, Expire, SetConnectionString, vars
<1>8. ASSUME NEW q \in Opens,
             \/ OpenCall(q) \/ OpenSpin(q) \/ OpenSet(q) \/ ScanTest(q)
             \/ ScanUsed(q) \/ ScanString(q) \/ Take(q) \/ OpenRelease(q)
             \/ CreateInstance(q) \/ PushRead(q) \/ Dispose(q)
      PROVE  Instances' = Instances
  BY <1>8, ReadsDoes DEF OpenCall, OpenSpin, OpenSet, ScanTest, Take,
     OpenRelease, CreateInstance, PushRead, Dispose
<1>9. ASSUME NEW c \in Closers,
             \/ CloseCall(c) \/ CloseSpin(c) \/ CloseSet(c) \/ CloseTest(c)
             \/ CloseBack(c) \/ PopRead(c) \/ CloseRelease(c)
      PROVE  Instances' = Instances
  BY <1>9 DEF CloseCall, CloseSpin, CloseSet, CloseTest, CloseBack, PopRead,
     CloseRelease
<1>10. QED
  BY <1>3, <1>4, <1>5, <1>6, <1>7, <1>8, <1>9, Steps

(* The string an open() was called with is the one it works with, unless   *)
(* setConnectionString intervened, and then asked forgets it.  The element *)
(* it returns is the one it has tested.                                    *)
LEMMA StringStep ==
  ASSUME TypeOK, VectorInv, MutexInv, OriginInv, StringInv, ScanInv,
         [Next]_vars
  PROVE  StringInv'
<1>1. /\ opener \in [Opens -> OpenPC] /\ got \in [Opens -> Opens \cup {None}]
      /\ cs \in [Opens -> ConnStrings] /\ None \notin Opens
      /\ asked \in [Opens -> ConnStrings \cup {None}]
      /\ oit \in [Opens -> Nat]
  BY DbPoolAssumption DEF TypeOK
<1>2. CASE UNCHANGED vars
  BY <1>2 DEF StringInv, vars, openVars, instVars, Calm
<1>3. SUFFICES ASSUME corrupt = {}
               PROVE  StringInv'
  BY <1>2, StepBegins
<1>4. Calm' => Calm
  BY CalmStep
<1>5. \A o \in Opens : asked[o] # None =>
        (opener[o] \notin {"using", "done"} => asked[o] = ConnectionString)
  BY DEF StringInv
<1>6. \A o \in Opens : Calm /\ asked[o] # None =>
        /\ opener[o] = "take" => cs[Instances.at[oit[o]]] = asked[o]
        /\ opener[o] # "done" /\ got[o] # None => cs[got[o]] = asked[o]
  BY DEF StringInv
<1>7. \A o \in Opens :
        /\ opener[o] \in Fresh \ {"release"} => got[o] = None
        /\ got[o] = o => opener[o] \in Pushes \cup {"using", "done"}
        /\ got[o] \notin {None, o} =>
             got[got[o]] = got[o] /\ opener[got[o]] \in {"using", "done"}
  BY DEF OriginInv
<1>8. ASSUME NEW o \in Opens, Calm', opener[o] = "take"
      PROVE  /\ Instances'.at[oit[o]] = Instances.at[oit[o]]
             /\ Instances.at[oit[o]] \in Opens
             /\ opener[Instances.at[oit[o]]] \in {"using", "done"}
  <2>1. oit[o] \in 1..Instances.fin /\ Instances.at[oit[o]] # None
    BY <1>1, <1>3, <1>4, <1>8, VectorTypes DEF ScanInv, VectorInv
  <2>2. Instances'.at[oit[o]] = Instances.at[oit[o]]
    BY <1>8, <2>1, ScannerKeeps DEF Scanning
  <2>3. /\ oit[o] \in 1..Cardinality(Opens)
        /\ DOMAIN Instances.at = 1..Cardinality(Opens)
    BY <1>1, <1>8, VectorTypes, SettledSize DEF VectorInv
  <2>4. Instances.at[oit[o]] \in Opens
    BY <2>1, <2>3, VectorTypes
  <2>5. opener[Instances.at[oit[o]]] \in {"using", "done"}
    BY <2>1, <2>3 DEF OriginInv
  <2>6. QED
    BY <2>2, <2>4, <2>5
(* who goes on in an open() without returning anything yet *)
<1>9. ASSUME NEW o \in Opens, NEW p \in OpenPC,
             UNCHANGED <<asked, got, cs, ConnectionString>>,
             opener' = [opener EXCEPT ![o] = p],
             \A q \in Opens \ {o} : oit'[q] = oit[q],
             opener[o] # "done", opener[o] = "using" => p = "done",
             p = "take" => /\ oit'[o] = oit[o] /\ Instances' = Instances
                           /\ cs[Instances.at[oit[o]]] = ConnectionString
                           /\ opener[o] = "string"
      PROVE  StringInv'
  <2>1. \A q \in Opens \ {o} : opener'[q] = opener[q]
    BY <1>1, <1>9
  <2>2. opener'[o] = p
    BY <1>1, <1>9
  <2>3. ASSUME NEW q \in Opens, asked'[q] # None
        PROVE  opener'[q] \notin {"using", "done"} =>
                 asked'[q] = ConnectionString'
    BY <1>5, <1>9, <2>1, <2>2, <2>3
  <2>4. ASSUME NEW q \in Opens, asked'[q] # None, Calm'
        PROVE  /\ opener'[q] = "take" => cs'[Instances'.at[oit'[q]]] = asked'[q]
               /\ opener'[q] # "done" /\ got'[q] # None => cs'[got'[q]] = asked'[q]
    <3>1. CASE q = o
      BY <1>4, <1>5, <1>6, <1>9, <2>2, <2>4, <3>1
    <3>2. CASE q # o
      BY <1>4, <1>6, <1>8, <1>9, <2>1, <2>4, <3>2
    <3>3. QED
      BY <3>1, <3>2
  <2>5. QED
    BY <2>3, <2>4 DEF StringInv
<1>10. CASE UNCHANGED <<asked, got, cs, opener, oit, ConnectionString>>
  BY <1>4, <1>5, <1>6, <1>8, <1>10 DEF StringInv
<1>11. ASSUME NEW o \in Opens,
              \/ OpenSpin(o) \/ OpenSet(o) \/ ScanTest(o) \/ OpenRelease(o)
              \/ PushRead(o) \/ PushWrite(o) \/ Dispose(o)
       PROVE  StringInv'
  <2>1. /\ UNCHANGED <<asked, got, cs, ConnectionString>>
        /\ \A q \in Opens \ {o} : oit'[q] = oit[q]
    BY <1>1, <1>11 DEF OpenSpin, OpenSet, ScanTest, OpenRelease, PushRead,
       PushWrite, Dispose, instVars
  <2>2. \E p \in {"set", "scan", "unused", "release", "create", "using",
                  "push2", "done"} :
          /\ opener' = [opener EXCEPT ![o] = p]
          /\ opener[o] = "using" => p = "done"
          /\ opener[o] # "done"
    BY <1>11 DEF OpenSpin, OpenSet, ScanTest, OpenRelease, PushRead, PushWrite,
       Dispose, OpenGoes
  <2>3. QED
    BY <1>9, <2>1, <2>2 DEF OpenPC, Scanning
<1>12. ASSUME NEW o \in Opens, ScanUsed(o) \/ ScanString(o)
       PROVE  StringInv'
  <2>1. /\ UNCHANGED <<asked, got, cs, ConnectionString, Instances>>
        /\ opener[o] \in {"unused", "string"}
    BY <1>12, ReadsDoes
  <2>2. PICK p \in Scanning, n \in Nat :
          /\ opener' = [opener EXCEPT ![o] = p]
          /\ oit' = [oit EXCEPT ![o] = n]
          /\ p = "take" => /\ n = oit[o] /\ opener[o] = "string"
                           /\ cs[Instances.at[oit[o]]] = ConnectionString
    <3>1. PICK p \in Scanning, n \in Nat :
            /\ opener' = [opener EXCEPT ![o] = p]
            /\ oit' = [oit EXCEPT ![o] = n]
            /\ \/ oit[o] \notin Sound /\ p = opener[o] /\ n = oit[o]
               \/ oit[o] \in Sound /\ p = "scan" /\ n = oit[o] + 1
               \/ /\ oit[o] \in Sound /\ p = "string" /\ n = oit[o]
                  /\ ~Used[Instances.at[oit[o]]]
               \/ /\ oit[o] \in Sound /\ p = "take" /\ n = oit[o]
                  /\ opener[o] = "string"
                  /\ cs[Instances.at[oit[o]]] = ConnectionString
      BY <1>12, ReadsDoes
    <3>2. p = "take" => /\ n = oit[o] /\ opener[o] = "string"
                        /\ cs[Instances.at[oit[o]]] = ConnectionString
      BY <2>1, <3>1
    <3>3. QED
      BY <3>1, <3>2
  <2>3. (\A q \in Opens \ {o} : oit'[q] = oit[q]) /\ oit'[o] = n
    BY <1>1, <2>2
  <2>4. p \in OpenPC
    BY DEF OpenPC
  <2>5. QED
    BY <1>9, <2>1, <2>2, <2>3, <2>4
<1>13. ASSUME NEW o \in Opens, Take(o)
       PROVE  StringInv'
  <2>1. /\ opener[o] = "take" /\ opener' = [opener EXCEPT ![o] = "release"]
        /\ UNCHANGED <<asked, cs, ConnectionString, oit>>
        /\ got' = [got EXCEPT ![o] = Instances.at[oit[o]]]
    BY <1>13 DEF Take, OpenGoes, instVars
  <2>2. /\ \A q \in Opens \ {o} : opener'[q] = opener[q] /\ got'[q] = got[q]
        /\ opener'[o] = "release" /\ got'[o] = Instances.at[oit[o]]
    BY <1>1, <2>1
  <2>3. ASSUME NEW q \in Opens, asked'[q] # None
        PROVE  opener'[q] \notin {"using", "done"} =>
                 asked'[q] = ConnectionString'
    BY <1>5, <2>1, <2>2, <2>3
  <2>4. ASSUME NEW q \in Opens, asked'[q] # None, Calm'
        PROVE  /\ opener'[q] = "take" => cs'[Instances'.at[oit'[q]]] = asked'[q]
               /\ opener'[q] # "done" /\ got'[q] # None => cs'[got'[q]] = asked'[q]
    BY <1>4, <1>6, <1>8, <2>1, <2>2, <2>4
  <2>5. QED
    BY <2>3, <2>4 DEF StringInv
<1>14. ASSUME NEW o \in Opens, OpenCall(o)
       PROVE  StringInv'
  <2>1. /\ opener[o] = "idle" /\ opener' = [opener EXCEPT ![o] = "spin"]
        /\ asked' = [asked EXCEPT ![o] = ConnectionString]
        /\ UNCHANGED <<got, cs, ConnectionString, oit>> /\ got[o] = None
    BY <1>7, <1>14 DEF OpenCall, OpenGoes, instVars, Fresh
  <2>2. /\ \A q \in Opens \ {o} : opener'[q] = opener[q] /\ asked'[q] = asked[q]
        /\ opener'[o] = "spin" /\ asked'[o] = ConnectionString
    BY <1>1, <2>1
  <2>3. ASSUME NEW q \in Opens, asked'[q] # None
        PROVE  opener'[q] \notin {"using", "done"} =>
                 asked'[q] = ConnectionString'
    BY <1>5, <2>1, <2>2, <2>3
  <2>4. ASSUME NEW q \in Opens, asked'[q] # None, Calm'
        PROVE  /\ opener'[q] = "take" => cs'[Instances'.at[oit'[q]]] = asked'[q]
               /\ opener'[q] # "done" /\ got'[q] # None => cs'[got'[q]] = asked'[q]
    BY <1>4, <1>6, <1>8, <2>1, <2>2, <2>4
  <2>5. QED
    BY <2>3, <2>4 DEF StringInv
<1>15. ASSUME NEW o \in Opens, CreateInstance(o)
       PROVE  StringInv'
  <2>1. /\ opener[o] = "create" /\ UNCHANGED <<asked, ConnectionString, oit>>
        /\ cs' = [cs EXCEPT ![o] = ConnectionString]
        /\ \/ /\ opener' = [opener EXCEPT ![o] = "push1"]
              /\ got' = [got EXCEPT ![o] = o]
           \/ /\ opener' = [opener EXCEPT ![o] = "threw"]
              /\ got' = got
    BY <1>15 DEF CreateInstance, OpenGoes
  <2>2. \A q \in Opens : got[q] # o
    BY <1>1, <1>7, <2>1 DEF Fresh, Pushes
  <2>3. \A q \in Opens \ {o} : opener'[q] = opener[q] /\ got'[q] = got[q]
    BY <1>1, <2>1
  <2>4. cs'[o] = ConnectionString /\ got'[o] \in {o, None}
        /\ \A i \in Opens \ {o} : cs'[i] = cs[i]
    BY <1>1, <1>7, <2>1 DEF Fresh
  <2>5. opener'[o] \in {"push1", "threw"}
    BY <1>1, <2>1
  <2>6. ASSUME NEW q \in Opens, asked'[q] # None
        PROVE  opener'[q] \notin {"using", "done"} =>
                 asked'[q] = ConnectionString'
    BY <1>5, <2>1, <2>3, <2>6
  <2>7. ASSUME NEW q \in Opens, asked'[q] # None, Calm'
        PROVE  /\ opener'[q] = "take" => cs'[Instances'.at[oit'[q]]] = asked'[q]
               /\ opener'[q] # "done" /\ got'[q] # None => cs'[got'[q]] = asked'[q]
    <3>1. CASE q = o
      BY <1>5, <2>1, <2>4, <2>5, <2>7, <3>1
    <3>2. CASE q # o
      <4>1. got[q] # None => got[q] \in Opens \ {o}
        BY <1>1, <2>2
      <4>2. opener[q] = "take" => Instances.at[oit[q]] \in Opens \ {o}
        BY <1>8, <2>1, <2>7
      <4>3. QED
        BY <1>4, <1>6, <1>8, <2>1, <2>3, <2>4, <2>7, <3>2, <4>1, <4>2
    <3>3. QED
      BY <3>1, <3>2
  <2>8. QED
    BY <2>6, <2>7 DEF StringInv
<1>16. CASE \E s \in ConnStrings : SetConnectionString(s)
  <2>1. /\ UNCHANGED <<got, cs, opener, oit, Instances>>
        /\ asked' = [o \in Opens |-> IF opener[o] \in {"using", "done"}
                                     THEN asked[o] ELSE None]
    BY <1>16 DEF SetConnectionString, openVars, instVars
  <2>2. QED
    BY <1>1, <1>4, <1>6, <2>1 DEF StringInv
<1>17. CASE \/ PoolTop \/ PoolSpin \/ PoolSet \/ SweepTest \/ SweepLook
            \/ SweepDelete \/ EraseRead \/ EraseWrite \/ PoolRelease
            \/ PoolSleep
  BY <1>10, <1>17 DEF PoolTop, PoolSpin, PoolSet, SweepTest, SweepLook,
     SweepDelete, EraseRead, EraseWrite, PoolRelease, PoolSleep, openVars,
     instVars
<1>18. CASE \E c \in Closers :
             \/ CloseCall(c) \/ CloseSpin(c) \/ CloseSet(c) \/ CloseTest(c)
             \/ CloseBack(c) \/ PopRead(c) \/ PopWrite(c) \/ CloseRelease(c)
  BY <1>10, <1>18 DEF CloseCall, CloseSpin, CloseSet, CloseTest, CloseBack,
     PopRead, PopWrite, CloseRelease, openVars, instVars
<1>19. CASE \/ DtorStop \/ DtorUnhold \/ DtorJoin
            \/ \E i \in Opens : Expire(i)
            \/ UNCHANGED vars
  BY <1>10, <1>19 DEF DtorStop, DtorUnhold, DtorJoin, Expire, vars, openVars,
     instVars
<1>20. QED
  BY <1>11, <1>12, <1>13, <1>14, <1>15, <1>16, <1>17, <1>18, <1>19, Steps

-----------------------------------------------------------------------------
(* What holds while the accidents have not happened. *)

LEMMA ExactUnfolds ==
  /\ InstancesExact <=>
       (Clean /\ corrupt = {} => HoldsExactly(Instances, Live \cup Doomed))
  /\ InstancesExact' <=>
       (Clean' /\ corrupt' = {} =>
          HoldsExactly(Instances', Live' \cup Doomed'))
BY DEF InstancesExact, Clean, Calm, Live, Doomed, DoomedSlots, Pushes

(* What is between its delete and the end of its erase or pop_back.        *)
LEMMA DoomedAre ==
  /\ \A x : x \in Doomed <=>
       \/ pool \in {"erase", "erase2"} /\ x = Instances.at[it]
       \/ \E c \in Closers : closer[c] = "pop" /\ x = Instances.at[Instances.fin]
       \/ \E c \in Closers : closer[c] = "pop2" /\ x = Instances.at[cfin[c]]
  /\ \A x : x \in Doomed' <=>
       \/ pool' \in {"erase", "erase2"} /\ x = Instances'.at[it']
       \/ \E c \in Closers :
            closer'[c] = "pop" /\ x = Instances'.at[Instances'.fin]
       \/ \E c \in Closers : closer'[c] = "pop2" /\ x = Instances'.at[cfin'[c]]
BY DEF Doomed, DoomedSlots

(* Once a push_back has made closeAll() pop another instance than it       *)
(* deleted, the pool thread and open() do not get into Hold any more.      *)
LEMMA CutKeepsOut ==
  ASSUME DbPoolIInv, Calm, corrupt = {}, PoolInside \/ \E o \in Opens : OpenInside(o)
  PROVE  Clean
<1>1. SUFFICES ASSUME cutin PROVE FALSE
  BY DEF Clean, Calm, DbPoolIInv, TypeOK
<1>2. PICK c \in Closers : closer[c] \in Closing
  BY <1>1 DEF DbPoolIInv, CutInv
<1>3. CloseInside(c)
  BY <1>2 DEF CloseInside
<1>4. QED
  BY <1>3 DEF DbPoolIInv, MutexInv, Calm

(* Whoever is inside Hold and neither the pool thread after a delete nor   *)
(* closeAll() after one finds live instances only.                         *)
LEMMA InsideFinds ==
  ASSUME DbPoolIInv, Clean, corrupt = {},
         \/ pool \in {"sweep", "look", "delete"}
         \/ \E o \in Opens : opener[o] \in Scanning
         \/ \E c \in Closers : closer[c] \in {"close", "back"}
  PROVE  /\ Doomed = {} /\ HoldsExactly(Instances, Live)
         /\ \A k \in 1..Instances.fin :
              /\ k \in DOMAIN Instances.at /\ k \in Sound
              /\ Instances.at[k] \in Live /\ inst[Instances.at[k]] = "live"
<1>1. pool \notin {"erase", "erase2"}
      /\ \A c \in Closers : closer[c] \notin {"pop", "pop2"}
  <2>1. /\ PoolInside => /\ \A o \in Opens : ~OpenInside(o)
                         /\ \A c \in Closers : ~CloseInside(c)
        /\ \A o \in Opens, c \in Closers : ~(OpenInside(o) /\ CloseInside(c))
        /\ \A c, d \in Closers : CloseInside(c) /\ CloseInside(d) => c = d
    BY DEF DbPoolIInv, MutexInv, Clean, Calm
  <2>2. CASE pool \in {"sweep", "look", "delete"}
    BY <2>1, <2>2 DEF PoolInside, CloseInside, Sweeping, Closing
  <2>3. CASE \E o \in Opens : opener[o] \in Scanning
    BY <2>1, <2>3 DEF PoolInside, OpenInside, CloseInside, Sweeping, Closing
  <2>4. CASE \E c \in Closers : closer[c] \in {"close", "back"}
    BY <2>1, <2>4 DEF PoolInside, CloseInside, Sweeping, Closing
  <2>5. QED
    BY <2>2, <2>3, <2>4
<1>2. Doomed = {}
  BY <1>1, DoomedAre
<1>3. HoldsExactly(Instances, Live)
  BY <1>2, ExactUnfolds DEF DbPoolIInv
<1>4. /\ DOMAIN Instances.at = 1..Cardinality(Opens) /\ Instances.fin \in Nat
      /\ Instances.fin <= Cardinality(Opens) /\ Cardinality(Opens) \in Nat
  <2>1. TypeOK /\ VectorInv
    BY DEF DbPoolIInv
  <2>2. QED
    BY <2>1, VectorTypes, SettledSize DEF VectorInv
<1>5. ASSUME NEW k \in 1..Instances.fin
      PROVE  /\ k \in DOMAIN Instances.at /\ k \in Sound
             /\ Instances.at[k] \in Live /\ inst[Instances.at[k]] = "live"
  <2>1. k \in DOMAIN Instances.at /\ k <= Instances.fin
    BY <1>4
  <2>2. Instances.at[k] \in Live
    BY <1>3, <2>1 DEF HoldsExactly, Elements
  <2>3. QED
    BY <2>1, <2>2 DEF Live, Sound, Gone
<1>6. QED
  BY <1>2, <1>3, <1>5

(* The store of a push_back leaves the slots of the vector alone, and it   *)
(* is the vector's own finish that grows.                                  *)
LEMMA PushKeeps ==
  ASSUME DbPoolIInv, [Next]_vars, Calm', NEW o \in Opens, PushWrite(o)
  PROVE  /\ Instances' = PutAt(Instances, Instances.fin, o)
         /\ Instances'.fin = Instances.fin + 1
         /\ Instances.fin < Cardinality(Opens)
         /\ \A k \in Nat : k <= Instances.fin => Instances'.at[k] = Instances.at[k]
<1>1. TypeOK /\ ofin[o] = Instances.fin
  BY CalmStep DEF DbPoolIInv
<1>2. Instances' = PutAt(Instances, Instances.fin, o)
  BY <1>1 DEF PushWrite
<1>3. Instances.fin < Cardinality(Opens)
  BY <1>1, SettledGrows, SettledSize, VectorTypes DEF DbPoolIInv, VectorInv
<1>4. \A k \in Nat : k <= Instances.fin => Instances'.at[k] = Instances.at[k]
  BY <1>1, <1>2, VectorTypes DEF PutAt
<1>5. QED
  BY <1>2, <1>3, <1>4 DEF PutAt

(* Where a scan stands, it stands in the vector, at an element whose tests *)
(* still hold: nobody takes an element out meanwhile, and who disposes of  *)
(* an instance only makes it fit.                                          *)
LEMMA ScanStep ==
  ASSUME DbPoolIInv, [Next]_vars
  PROVE  ScanInv'
<1>1. /\ TypeOK /\ VectorInv /\ MutexInv /\ (corrupt = {} \/ UNCHANGED vars)
      /\ (Calm' => Calm) /\ (corrupt' = {} => corrupt = {})
  BY CalmStep, StepBegins DEF DbPoolIInv, vars
<1>2. SUFFICES ASSUME Calm, Calm', corrupt = {}, corrupt' = {}
               PROVE  ScanInv'
  BY <1>1 DEF ScanInv
<1>3. \A o \in Opens :
        /\ opener[o] = "scan" => oit[o] <= Instances.fin + 1
        /\ opener[o] \in {"unused", "string", "take"} => oit[o] <= Instances.fin
        /\ opener[o] \in {"string", "take"} =>
             /\ Instances.at[oit[o]] # None /\ ~Used[Instances.at[oit[o]]]
  BY <1>2 DEF DbPoolIInv, ScanInv
<1>4. /\ opener \in [Opens -> OpenPC] /\ oit \in [Opens -> Nat]
      /\ Used \in [Opens -> BOOLEAN] /\ None \notin Opens
      /\ Instances.fin \in Nat /\ Instances'.fin \in Nat
      /\ Instances.at \in [1..Cardinality(Opens) -> Opens \cup {None}]
      /\ \A o \in Opens : 1 <= oit[o]
      /\ \A o \in Opens : opener[o] \in {"string", "take"} =>
                            oit[o] \in 1..Cardinality(Opens)
  <2>1. TypeOK'
    BY TypeStep DEF DbPoolIInv
  <2>2. QED
    BY <1>1, <2>1, DbPoolAssumption, VectorTypes, SettledSize DEF TypeOK,
       VectorInv
<1>5. ASSUME NEW o \in Opens, opener[o] \in Scanning
      PROVE  /\ Instances.fin <= Instances'.fin
             /\ \A k \in 1..Instances.fin : Instances'.at[k] = Instances.at[k]
  BY <1>1, <1>2, <1>5, ScannerKeeps
(* those a step leaves where they are *)
<1>6. ASSUME NEW o \in Opens, opener'[o] = opener[o], oit'[o] = oit[o],
             \/ Used' = Used
             \/ \E i \in Opens : Used' = [Used EXCEPT ![i] = FALSE]
             \/ \E i \in Opens : /\ opener[i] = "create"
                                  /\ Used' = [Used EXCEPT ![i] = TRUE]
      PROVE  /\ opener'[o] = "scan" => oit'[o] <= Instances'.fin + 1
             /\ opener'[o] \in {"unused", "string", "take"} =>
                  oit'[o] <= Instances'.fin
             /\ opener'[o] \in {"string", "take"} =>
                  /\ Instances'.at[oit'[o]] # None
                  /\ ~Used'[Instances'.at[oit'[o]]]
  <2>1. opener[o] \in {"scan", "unused", "string", "take"} =>
          Instances.fin <= Instances'.fin
    BY <1>5 DEF Scanning
  <2>2. ASSUME opener[o] \in {"string", "take"}
        PROVE  /\ Instances'.at[oit'[o]] # None
               /\ ~Used'[Instances'.at[oit'[o]]]
    <3> DEFINE i == Instances.at[oit[o]]
    <3>1. oit[o] \in 1..Instances.fin /\ oit[o] \in DOMAIN Instances.at
      <4>1. oit[o] \in Nat /\ 1 <= oit[o] /\ oit[o] <= Instances.fin
        BY <1>3, <1>4, <2>2
      <4>2. /\ oit[o] \in 1..Cardinality(Opens)
            /\ DOMAIN Instances.at = 1..Cardinality(Opens)
        BY <1>4, <2>2
      <4>3. QED
        BY <1>4, <4>1, <4>2
    <3>2. Instances'.at[oit'[o]] = i
      BY <1>5, <1>6, <2>2, <3>1 DEF Scanning
    <3>3. i \in Opens /\ i # None /\ ~Used[i]
      BY <1>3, <1>4, <2>2
    <3>4. opener[i] \in {"using", "done"}
      BY <3>1, <3>3 DEF DbPoolIInv, OriginInv
    <3> HIDE DEF i
    <3>5. ~Used'[i]
      BY <1>4, <1>6, <3>3, <3>4
    <3>6. QED
      BY <3>2, <3>3, <3>5
  <2>3. QED
    BY <1>3, <1>4, <1>6, <2>1, <2>2
<1>7. CASE UNCHANGED <<opener, oit, Used>>
  BY <1>6, <1>7 DEF ScanInv
<1>8. ASSUME NEW o \in Opens,
             \A q \in Opens \ {o} : opener'[q] = opener[q] /\ oit'[q] = oit[q],
             \/ Used' = Used
             \/ \E i \in Opens : Used' = [Used EXCEPT ![i] = FALSE]
             \/ \E i \in Opens : /\ opener[i] = "create"
                                  /\ Used' = [Used EXCEPT ![i] = TRUE],
             /\ opener'[o] = "scan" => oit'[o] <= Instances'.fin + 1
             /\ opener'[o] \in {"unused", "string", "take"} =>
                  oit'[o] <= Instances'.fin
             /\ opener'[o] \in {"string", "take"} =>
                  /\ Instances'.at[oit'[o]] # None
                  /\ ~Used'[Instances'.at[oit'[o]]]
      PROVE  ScanInv'
  BY <1>6, <1>8 DEF ScanInv
<1>9. ASSUME NEW o \in Opens, OpenSet(o)
      PROVE  ScanInv'
  <2>1. /\ opener' = [opener EXCEPT ![o] = "scan"]
        /\ oit' = [oit EXCEPT ![o] = 1] /\ Used' = Used
    BY <1>9 DEF OpenSet, OpenGoes, instVars
  <2>2. /\ \A q \in Opens \ {o} : opener'[q] = opener[q] /\ oit'[q] = oit[q]
        /\ opener'[o] = "scan" /\ oit'[o] = 1
    BY <1>4, <2>1
  <2>3. QED
    BY <1>4, <1>8, <2>1, <2>2
<1>10. ASSUME NEW o \in Opens, ScanTest(o)
       PROVE  ScanInv'
  <2>1. /\ opener[o] = "scan" /\ UNCHANGED <<oit, Used, Instances>>
        /\ \/ opener' = [opener EXCEPT ![o] = "release"]
           \/ /\ opener' = [opener EXCEPT ![o] = "unused"]
              /\ oit[o] # Instances.fin + 1
    BY <1>10 DEF ScanTest, OpenGoes, instVars
  <2>2. /\ \A q \in Opens \ {o} : opener'[q] = opener[q] /\ oit'[q] = oit[q]
        /\ \/ opener'[o] = "release"
           \/ opener'[o] = "unused" /\ oit[o] # Instances.fin + 1
    BY <1>4, <2>1
  <2>3. oit[o] <= Instances.fin + 1 /\ oit[o] \in Nat
    BY <1>3, <1>4, <2>1
  <2>4. opener'[o] = "unused" => oit'[o] <= Instances'.fin
    BY <1>4, <2>1, <2>2, <2>3
  <2>5. QED
    BY <1>8, <2>1, <2>2, <2>4
<1>11. ASSUME NEW o \in Opens, ScanUsed(o) \/ ScanString(o)
       PROVE  ScanInv'
  <2>1. /\ UNCHANGED <<Used, Instances>> /\ opener[o] \in {"unused", "string"}
        /\ oit[o] \in Sound
    BY <1>1, <1>2, <1>11, ReadsDoes
  <2>2. PICK p \in Scanning, n \in Nat :
          /\ opener' = [opener EXCEPT ![o] = p]
          /\ oit' = [oit EXCEPT ![o] = n]
          /\ \/ oit[o] \notin Sound
             \/ p = "scan" /\ n = oit[o] + 1
             \/ p = "string" /\ n = oit[o] /\ ~Used[Instances.at[oit[o]]]
             \/ p = "take" /\ n = oit[o] /\ opener[o] = "string"
    BY <1>1, <1>11, ReadsDoes
  <2>3. /\ \A q \in Opens \ {o} : opener'[q] = opener[q] /\ oit'[q] = oit[q]
        /\ opener'[o] = p /\ oit'[o] = n
    BY <1>4, <2>2
  <2>4. /\ oit[o] <= Instances.fin /\ oit[o] \in Nat
        /\ Instances.at[oit[o]] # None
    BY <1>3, <1>4, <2>1 DEF Sound
  <2>5. /\ p = "scan" => n <= Instances.fin + 1
        /\ p \in {"unused", "string", "take"} => n <= Instances.fin
        /\ p \in {"string", "take"} =>
             /\ Instances.at[n] # None /\ ~Used[Instances.at[n]]
    BY <1>3, <1>4, <2>1, <2>2, <2>4
  <2>6. QED
    BY <1>8, <2>1, <2>3, <2>5
<1>12. ASSUME NEW o \in Opens,
              \/ OpenCall(o) \/ OpenSpin(o) \/ Take(o) \/ OpenRelease(o)
              \/ PushRead(o) \/ PushWrite(o)
       PROVE  ScanInv'
  <2>1. Used' = Used /\ \A q \in Opens \ {o} : oit'[q] = oit[q]
    BY <1>4, <1>12 DEF OpenCall, OpenSpin, Take, OpenRelease, PushRead,
       PushWrite, instVars
  <2>2. /\ opener'[o] \notin Scanning
        /\ \A q \in Opens \ {o} : opener'[q] = opener[q]
    BY <1>4, <1>12 DEF OpenCall, OpenSpin, Take, OpenRelease, PushRead,
       PushWrite, OpenGoes, Scanning
  <2>3. QED
    BY <1>8, <2>1, <2>2 DEF Scanning
<1>13. ASSUME NEW o \in Opens, CreateInstance(o)
       PROVE  ScanInv'
  <2>1. /\ oit' = oit /\ opener[o] = "create"
        /\ Used' = Used \/ Used' = [Used EXCEPT ![o] = TRUE]
        /\ \/ opener' = [opener EXCEPT ![o] = "push1"]
           \/ opener' = [opener EXCEPT ![o] = "threw"]
    BY <1>13 DEF CreateInstance, OpenGoes
  <2>2. /\ opener'[o] \notin Scanning
        /\ \A q \in Opens \ {o} : opener'[q] = opener[q]
    BY <1>4, <2>1 DEF Scanning
  <2>3. QED
    BY <1>8, <2>1, <2>2 DEF Scanning
<1>14. ASSUME NEW o \in Opens, Dispose(o)
       PROVE  ScanInv'
  <2>1. /\ oit' = oit /\ Used' = [Used EXCEPT ![got[o]] = FALSE]
        /\ opener' = [opener EXCEPT ![o] = "done"] /\ opener[o] = "using"
    BY <1>14 DEF Dispose, OpenGoes
  <2>2. /\ opener'[o] \notin Scanning
        /\ \A q \in Opens \ {o} : opener'[q] = opener[q]
    BY <1>4, <2>1 DEF Scanning
  <2>3. got[o] \in Opens
    BY <1>1, <2>1 DEF DbPoolIInv, OriginInv, TypeOK
  <2>4. QED
    BY <1>8, <2>1, <2>2, <2>3 DEF Scanning
<1>15. CASE \/ PoolTop \/ PoolSpin \/ PoolSet \/ SweepTest \/ SweepLook
            \/ SweepDelete \/ EraseRead \/ EraseWrite \/ PoolRelease
            \/ PoolSleep
  BY <1>7, <1>15 DEF PoolTop, PoolSpin, PoolSet, SweepTest, SweepLook,
     SweepDelete, EraseRead, EraseWrite, PoolRelease, PoolSleep, openVars,
     instVars
<1>16. CASE \E c \in Closers :
              \/ CloseCall(c) \/ CloseSpin(c) \/ CloseSet(c) \/ CloseTest(c)
              \/ CloseBack(c) \/ PopRead(c) \/ PopWrite(c) \/ CloseRelease(c)
  BY <1>7, <1>16 DEF CloseCall, CloseSpin, CloseSet, CloseTest, CloseBack,
     PopRead, PopWrite, CloseRelease, openVars, instVars
<1>17. CASE \/ DtorStop \/ DtorUnhold \/ DtorJoin
            \/ \E i \in Opens : Expire(i)
            \/ \E s \in ConnStrings : SetConnectionString(s)
            \/ UNCHANGED vars
  BY <1>7, <1>17 DEF DtorStop, DtorUnhold, DtorJoin, Expire,
     SetConnectionString, vars, openVars, instVars
<1>18. QED
  BY <1>9, <1>10, <1>11, <1>12, <1>13, <1>14, <1>15, <1>16, <1>17, Steps

(* A deleted instance that a push_back has put out of reach of its         *)
(* pop_back stays in the vector while closeAll() goes on.                  *)
LEMMA CutStep ==
  ASSUME DbPoolIInv, [Next]_vars
  PROVE  CutInv'
<1>1. /\ TypeOK /\ VectorInv /\ (corrupt = {} \/ UNCHANGED vars)
      /\ (Calm' => Calm) /\ (corrupt' = {} => corrupt = {})
  BY CalmStep, StepBegins DEF DbPoolIInv, vars
<1>2. SUFFICES ASSUME Calm, Calm', corrupt = {}, corrupt' = {}, cutin'
               PROVE  CutInv'
  BY <1>1 DEF CutInv
<1>3. /\ Instances.at \in [1..Cardinality(Opens) -> Opens \cup {None}]
      /\ Instances.fin \in Nat /\ Instances.fin <= Cardinality(Opens)
      /\ Cardinality(Opens) \in Nat /\ None \notin Opens
      /\ inst \in [Opens -> InstState] /\ closer \in [Closers -> ClosePC]
      /\ cfin \in [Closers -> Nat]
  BY <1>1, VectorTypes, SettledSize, DbPoolAssumption DEF VectorInv, TypeOK
<1>4. CASE ~cutin
  <2>1. PICK o \in Opens : PushWrite(o)
    BY <1>1, <1>2, <1>4, CalmStep
  <2>2. PICK c \in Closers : closer[c] = "pop"
    BY <1>2, <1>4, <2>1 DEF PushWrite
  <2>3. /\ 1 <= Instances.fin /\ Instances.at[Instances.fin] # None
        /\ Gone(Instances.at[Instances.fin])
    BY <1>2, <1>4, <2>2 DEF DbPoolIInv, SweepInv, Clean
  <2>4. /\ Instances'.fin = Instances.fin + 1
        /\ Instances'.at[Instances.fin] = Instances.at[Instances.fin]
    BY <1>2, <1>3, <2>1, PushKeeps
  <2>5. closer' = closer /\ cfin' = cfin /\ inst' = inst
    BY <2>1 DEF PushWrite, closeVars, instVars
  <2>6. /\ closer'[c] \in Closing /\ closer'[c] # "pop2"
        /\ Instances.fin \in Rest(c)'
        /\ Instances'.at[Instances.fin] # None
        /\ inst'[Instances'.at[Instances.fin]] \in {"swept", "closed"}
    BY <1>3, <2>2, <2>3, <2>4, <2>5 DEF Closing, Rest, Gone
  <2>7. QED
    BY <2>6 DEF CutInv, Rest, Gone
<1>5. SUFFICES ASSUME cutin PROVE CutInv'
  BY <1>4
<1>60. PICK c \in Closers :
         /\ closer[c] \in Closing
         /\ closer[c] = "pop2" => cfin[c] <= Instances.fin
         /\ \E k \in Rest(c) : Instances.at[k] # None /\ Gone(Instances.at[k])
  BY <1>2, <1>5 DEF DbPoolIInv, CutInv
<1>6. PICK k \in Rest(c) :
        /\ closer[c] \in Closing
        /\ closer[c] = "pop2" => cfin[c] <= Instances.fin
        /\ Instances.at[k] # None /\ Gone(Instances.at[k])
  BY <1>60
<1>7. /\ ~PoolInside /\ \A o \in Opens : ~OpenInside(o)
      /\ \A d \in Closers \ {c} : ~CloseInside(d)
  BY <1>2, <1>6 DEF DbPoolIInv, MutexInv, Calm, CloseInside
<1>8. k \in 1..Instances.fin /\ k \in DOMAIN Instances.at
  BY <1>3, <1>6 DEF Rest
<1>9. /\ Instances.at[k] \in Opens
      /\ opener[Instances.at[k]] \in {"using", "done"}
  BY <1>3, <1>6, <1>8 DEF DbPoolIInv, OriginInv
<1>10. SUFFICES /\ closer'[c] \in Closing
                /\ closer'[c] = "pop2" => cfin'[c] <= Instances'.fin
                /\ k \in Rest(c)'
                /\ Instances'.at[k] = Instances.at[k]
                /\ inst'[Instances.at[k]] \in {"swept", "closed"}
  BY <1>6 DEF CutInv, Rest, Gone
<1> DEFINE Kept == /\ closer'[c] \in Closing
                   /\ closer'[c] = "pop2" => cfin'[c] <= Instances'.fin
                   /\ k \in Rest(c)'
                   /\ Instances'.at[k] = Instances.at[k]
                   /\ inst'[Instances.at[k]] \in {"swept", "closed"}
<1>11. CASE /\ UNCHANGED <<Instances, inst>>
            /\ closer'[c] = closer[c] /\ cfin'[c] = cfin[c]
  BY <1>6, <1>11 DEF Rest, Gone
<1>12. CASE \/ PoolTop \/ PoolSpin \/ PoolSet \/ PoolRelease \/ PoolSleep
            \/ DtorStop \/ DtorUnhold \/ DtorJoin
            \/ \E i \in Opens : Expire(i)
            \/ \E s \in ConnStrings : SetConnectionString(s)
            \/ UNCHANGED vars
  <2>1. /\ UNCHANGED <<Instances, inst, cfin>>
        /\ \/ closer' = closer
           \/ /\ closer[Dtor] \notin Closing
              /\ \E p \in ClosePC : closer' = [closer EXCEPT ![Dtor] = p]
    BY <1>12 DEF PoolTop, PoolSpin, PoolSet, PoolRelease, PoolSleep, DtorStop,
       DtorUnhold, DtorJoin, Expire, SetConnectionString, vars, closeVars,
       instVars, CloseGoes, ClosePC, Closing
  <2>2. closer'[c] = closer[c]
    BY <1>3, <1>6, <2>1
  <2>3. QED
    BY <1>11, <2>1, <2>2
<1>13. ~(SweepTest \/ SweepLook \/ SweepDelete \/ EraseRead \/ EraseWrite)
  BY <1>7 DEF SweepTest, SweepLook, SweepDelete, EraseRead, EraseWrite, PoolGoes,
     PoolInside, Sweeping
<1>14. ASSUME NEW o \in Opens,
              \/ OpenCall(o) \/ OpenSpin(o) \/ OpenSet(o) \/ ScanTest(o)
              \/ Take(o) \/ OpenRelease(o)
              \/ PushRead(o) \/ Dispose(o)
       PROVE  Kept
  BY <1>11, <1>14 DEF OpenCall, OpenSpin, OpenSet, ScanTest, Take, OpenRelease,
     PushRead, Dispose, instVars, closeVars
<1>15. ASSUME NEW o \in Opens, ScanUsed(o) \/ ScanString(o)
       PROVE  Kept
  BY <1>1, <1>11, <1>15, ReadsDoes
<1>16. ASSUME NEW o \in Opens, CreateInstance(o)
       PROVE  Kept
  <2>1. /\ UNCHANGED <<Instances, closer, cfin>> /\ opener[o] = "create"
        /\ \/ inst' = [inst EXCEPT ![o] = "live"]
           \/ inst' = [inst EXCEPT ![o] = "failed"]
    BY <1>16 DEF CreateInstance, OpenGoes, closeVars
  <2>2. inst'[Instances.at[k]] = inst[Instances.at[k]]
    BY <1>3, <1>9, <2>1
  <2>3. QED
    BY <1>6, <2>1, <2>2 DEF Rest, Gone
<1>17. ASSUME NEW o \in Opens, PushWrite(o)
       PROVE  Kept
  <2>1. UNCHANGED <<inst, closer, cfin>>
    BY <1>17 DEF PushWrite, instVars, closeVars
  <2>2. Instances'.fin = Instances.fin + 1 /\ Instances'.at[k] = Instances.at[k]
    BY <1>2, <1>3, <1>8, <1>17, PushKeeps
  <2>3. QED
    BY <1>3, <1>6, <2>1, <2>2 DEF Rest, Gone
<1>18. ASSUME NEW d \in Closers, d # c,
              \/ CloseCall(d) \/ CloseSpin(d) \/ CloseSet(d) \/ CloseTest(d)
              \/ CloseBack(d) \/ PopRead(d) \/ PopWrite(d) \/ CloseRelease(d)
       PROVE  Kept
  <2>1. ~CloseInside(d)
    BY <1>7, <1>18
  <2>2. CloseCall(d) \/ CloseSpin(d) \/ CloseSet(d)
    BY <1>18, <2>1 DEF CloseInside, Closing, CloseTest, CloseBack, PopRead,
       PopWrite, CloseRelease, CloseGoes
  <2>3. /\ UNCHANGED <<Instances, inst>>
        /\ closer'[c] = closer[c] /\ cfin'[c] = cfin[c]
    BY <1>3, <1>18, <2>2 DEF CloseCall, CloseSpin, CloseSet, CloseGoes, instVars
  <2>4. QED
    BY <1>11, <2>3
<1>19. CASE CloseTest(c)
  <2>1. /\ UNCHANGED <<Instances, inst, cfin>> /\ closer[c] = "close"
        /\ closer' = [closer EXCEPT ![c] = "back"]
    BY <1>3, <1>8, <1>19 DEF CloseTest, CloseGoes, instVars
  <2>2. closer'[c] = "back"
    BY <1>3, <2>1
  <2>3. QED
    BY <1>6, <2>1, <2>2 DEF Rest, Gone, Closing
<1>20. CASE CloseBack(c)
  <2>1. /\ UNCHANGED <<Instances, cfin>> /\ closer[c] = "back"
        /\ closer'[c] = "pop" /\ Instances.fin \in Sound
        /\ inst' = [inst EXCEPT ![Instances.at[Instances.fin]] = "closed"]
    BY <1>2, <1>3, <1>20 DEF CloseBack, CloseGoes, Blame
  <2>2. k # Instances.fin
    BY <1>6, <2>1 DEF Sound
  <2>3. inst'[Instances.at[k]] \in {"swept", "closed"}
    BY <1>3, <1>6, <1>9, <2>1 DEF Gone
  <2>4. QED
    BY <1>3, <1>8, <2>1, <2>2, <2>3 DEF Rest, Closing
<1>21. CASE PopRead(c)
  <2>1. /\ UNCHANGED <<Instances, inst>> /\ closer[c] = "pop"
        /\ closer'[c] = "pop2" /\ cfin'[c] = Instances.fin
    BY <1>3, <1>21 DEF PopRead, CloseGoes, instVars
  <2>2. QED
    BY <1>3, <1>6, <2>1 DEF Rest, Gone, Closing
<1>22. CASE PopWrite(c)
  <2>1. /\ inst' = inst /\ closer[c] = "pop2" /\ closer'[c] = "close"
        /\ Instances' = [Instances EXCEPT !.fin = Instances.fin - 1]
        /\ cfin[c] = Instances.fin
    BY <1>1, <1>2, <1>3, <1>22, CalmStep DEF PopWrite, CloseGoes, instVars
  <2>2. /\ Instances'.at = Instances.at /\ Instances'.fin = Instances.fin - 1
    BY <1>1, <2>1, VectorTypes
  <2>3. QED
    BY <1>3, <1>6, <2>1, <2>2 DEF Rest, Gone, Closing
<1>23. ~CloseRelease(c) /\ ~CloseCall(c) /\ ~CloseSpin(c) /\ ~CloseSet(c)
  BY <1>6 DEF CloseRelease, CloseCall, CloseSpin, CloseSet, CloseGoes, Closing
<1>24. QED
  BY <1>12, <1>13, <1>14, <1>15, <1>16, <1>17, <1>18, <1>19, <1>20, <1>21,
     <1>22, <1>23, Steps

(* A scan and the pool thread pass over an instance whose creator has not  *)
(* disposed of it, for Used says so.                                       *)
LEMMA CreatorStep ==
  ASSUME DbPoolIInv, [Next]_vars
  PROVE  UsedInv' /\ CreatorUndisturbed'
<1>1. /\ opener \in [Opens -> OpenPC] /\ got \in [Opens -> Opens \cup {None}]
      /\ inst \in [Opens -> InstState] /\ Used \in [Opens -> BOOLEAN]
      /\ None \notin Opens /\ TypeOK
  BY DbPoolAssumption DEF DbPoolIInv, TypeOK
<1>2. Calm' => Calm
  BY <1>1, CalmStep
<1>3. SUFFICES ASSUME Calm, Calm'
               PROVE  \A o \in Opens : opener'[o] # "done" =>
                        /\ got'[o] = o => Used'[o]
                        /\ inst'[o] # "swept"
                        /\ \A q \in Opens \ {o} : got'[q] # o
  BY <1>2 DEF UsedInv, CreatorUndisturbed, Calm
<1>4. \A o \in Opens : opener[o] # "done" =>
        /\ got[o] = o => Used[o]
        /\ inst[o] # "swept"
        /\ \A q \in Opens \ {o} : got[q] # o
  BY <1>3 DEF DbPoolIInv, UsedInv, CreatorUndisturbed, Calm
<1>5. \A o \in Opens :
        /\ opener[o] \in Fresh => inst[o] = "none"
        /\ opener[o] \in Fresh \ {"release"} => got[o] = None
        /\ got[o] = o => opener[o] \in Pushes \cup {"using", "done"}
        /\ got[o] \notin {None, o} => got[got[o]] = got[o]
        /\ inst[o] = "live" => got[o] = o
  BY DEF DbPoolIInv, OriginInv
<1>6. CASE UNCHANGED <<opener, got, inst, Used>>
  BY <1>1, <1>4, <1>6
<1>7. ASSUME NEW o \in Opens, Take(o)
      PROVE  \A p \in Opens : opener'[p] # "done" =>
                /\ got'[p] = p => Used'[p]
                /\ inst'[p] # "swept"
                /\ \A q \in Opens \ {p} : got'[q] # p
  <2>1. /\ opener[o] = "take" /\ opener' = [opener EXCEPT ![o] = "release"]
        /\ corrupt = {} /\ UNCHANGED <<Used, inst>>
        /\ got' = [got EXCEPT ![o] = Instances.at[oit[o]]]
    BY <1>7 DEF Take, OpenGoes, instVars
  <2>2. oit[o] \in 1..Instances.fin /\ ~Used[Instances.at[oit[o]]]
    BY <1>1, <1>3, <2>1, VectorTypes DEF DbPoolIInv, ScanInv, VectorInv, TypeOK
  <2>3. Clean
    BY <1>3, <2>1, CutKeepsOut DEF OpenInside, Scanning
  <2>4. /\ Instances.at[oit[o]] \in Opens
        /\ inst[Instances.at[oit[o]]] = "live"
    BY <2>1, <2>2, <2>3, InsideFinds DEF Live, Scanning
  <2>5. opener[Instances.at[oit[o]]] = "done"
    BY <1>4, <1>5, <2>2, <2>4
  <2>6. /\ \A q \in Opens \ {o} : opener'[q] = opener[q] /\ got'[q] = got[q]
        /\ got'[o] = Instances.at[oit[o]] /\ opener'[o] = "release"
    BY <1>1, <2>1
  <2>7. QED
    BY <1>4, <2>1, <2>5, <2>6
<1>8. ASSUME NEW o \in Opens, CreateInstance(o)
      PROVE  \A p \in Opens : opener'[p] # "done" =>
                /\ got'[p] = p => Used'[p]
                /\ inst'[p] # "swept"
                /\ \A q \in Opens \ {p} : got'[q] # p
  <2>1. /\ opener[o] = "create" /\ got[o] = None
        /\ \/ /\ opener' = [opener EXCEPT ![o] = "push1"]
              /\ inst' = [inst EXCEPT ![o] = "live"]
              /\ Used' = [Used EXCEPT ![o] = TRUE]
              /\ got' = [got EXCEPT ![o] = o]
           \/ /\ opener' = [opener EXCEPT ![o] = "threw"]
              /\ inst' = [inst EXCEPT ![o] = "failed"]
              /\ UNCHANGED <<Used, got>>
    BY <1>5, <1>8 DEF CreateInstance, OpenGoes, Fresh
  <2>2. QED
    BY <1>1, <1>4, <2>1
<1>9. ASSUME NEW o \in Opens, Dispose(o)
      PROVE  \A p \in Opens : opener'[p] # "done" =>
                /\ got'[p] = p => Used'[p]
                /\ inst'[p] # "swept"
                /\ \A q \in Opens \ {p} : got'[q] # p
  <2>1. /\ opener' = [opener EXCEPT ![o] = "done"] /\ UNCHANGED <<got, inst>>
        /\ Used' = [Used EXCEPT ![got[o]] = FALSE]
    BY <1>9 DEF Dispose, OpenGoes
  <2>2. QED
    BY <1>1, <1>4, <2>1
<1>10. ASSUME NEW o \in Opens,
              \/ OpenCall(o) \/ OpenSpin(o) \/ OpenSet(o) \/ ScanTest(o)
              \/ ScanUsed(o) \/ ScanString(o) \/ OpenRelease(o)
              \/ PushRead(o) \/ PushWrite(o)
       PROVE  \A p \in Opens : opener'[p] # "done" =>
                /\ got'[p] = p => Used'[p]
                /\ inst'[p] # "swept"
                /\ \A q \in Opens \ {p} : got'[q] # p
  <2>1. /\ UNCHANGED <<got, inst, Used>> /\ opener[o] # "done"
        /\ \A p \in Opens \ {o} : opener'[p] = opener[p]
    <3>1. CASE ~(ScanUsed(o) \/ ScanString(o))
      BY <1>1, <1>10, <3>1 DEF OpenCall, OpenSpin, OpenSet, ScanTest, OpenRelease,
         PushRead, PushWrite, OpenGoes, instVars
    <3>2. CASE ScanUsed(o) \/ ScanString(o)
      BY <1>1, <3>2, ReadsDoes
    <3>3. QED
      BY <3>1, <3>2
  <2>2. QED
    BY <1>1, <1>4, <2>1
<1>11. CASE SweepDelete
  <2>1. /\ pool = "delete" /\ corrupt = {} /\ UNCHANGED <<opener, got, Used>>
        /\ inst' = [inst EXCEPT ![Instances.at[it]] = "swept"]
    BY <1>11 DEF SweepDelete, PoolGoes, openVars
  <2>0. Clean
    BY <1>3, <2>1, CutKeepsOut DEF PoolInside, Sweeping
  <2>2. it \in 1..Instances.fin /\ ~Used[Instances.at[it]]
    BY <1>1, <2>0, <2>1, VectorTypes DEF DbPoolIInv, SweepInv, VectorInv
  <2>3. Instances.at[it] \in Opens /\ inst[Instances.at[it]] = "live"
    BY <2>0, <2>1, <2>2, InsideFinds DEF Live
  <2>4. opener[Instances.at[it]] = "done"
    BY <1>4, <1>5, <2>2, <2>3
  <2>5. QED
    BY <1>1, <1>4, <2>1, <2>3, <2>4
<1>12. ASSUME NEW c \in Closers, CloseBack(c)
       PROVE  \A p \in Opens : opener'[p] # "done" =>
                /\ got'[p] = p => Used'[p]
                /\ inst'[p] # "swept"
                /\ \A q \in Opens \ {p} : got'[q] # p
  <2>1. /\ UNCHANGED <<opener, got, Used>>
        /\ \/ inst' = inst
           \/ inst' = [inst EXCEPT ![Instances.at[Instances.fin]] = "closed"]
    BY <1>12 DEF CloseBack, openVars
  <2>2. \A p \in Opens : inst'[p] \in {inst[p], "closed"}
    BY <1>1, <2>1
  <2>3. QED
    BY <1>1, <1>4, <2>1, <2>2
<1>13. CASE \/ PoolTop \/ PoolSpin \/ PoolSet \/ SweepTest \/ SweepLook
            \/ EraseRead \/ EraseWrite
            \/ PoolRelease \/ PoolSleep \/ DtorStop \/ DtorUnhold \/ DtorJoin
            \/ \E i \in Opens : Expire(i)
            \/ \E s \in ConnStrings : SetConnectionString(s)
            \/ UNCHANGED vars
  BY <1>6, <1>13 DEF PoolTop, PoolSpin, PoolSet, SweepTest, SweepLook,
     EraseRead, EraseWrite, PoolRelease, PoolSleep, DtorStop, DtorUnhold, DtorJoin, Expire,
     SetConnectionString, vars, openVars, instVars
<1>14. CASE \E c \in Closers :
              \/ CloseCall(c) \/ CloseSpin(c) \/ CloseSet(c) \/ CloseTest(c)
              \/ PopRead(c) \/ PopWrite(c) \/ CloseRelease(c)
  BY <1>6, <1>14 DEF CloseCall, CloseSpin, CloseSet, CloseTest, PopRead,
     PopWrite, CloseRelease, openVars, instVars
<1>15. QED
  BY <1>7, <1>8, <1>9, <1>10, <1>11, <1>12, <1>13, <1>14, Steps

(* Nobody but the user of an instance can come upon one that was deleted.  *)
LEMMA SoundStep ==
  ASSUME DbPoolIInv, [Next]_vars
  PROVE  PoolSound'
<1>1. TypeOK /\ (corrupt = {} \/ UNCHANGED vars) /\ (Clean' => Clean)
  BY CalmStep, StepBegins DEF DbPoolIInv
<1>2. CASE UNCHANGED vars
  BY <1>2 DEF DbPoolIInv, PoolSound, vars
<1>3. SUFFICES ASSUME Clean, corrupt = {}
               PROVE  corrupt' \subseteq {"user"}
  BY <1>1, <1>2 DEF PoolSound, Clean, Calm
<1>4. /\ pool \in {"look", "delete", "erase"} => it \in 1..Instances.fin
      /\ \A o \in Opens : opener[o] \in {"unused", "string"} =>
           oit[o] \in 1..Instances.fin
      /\ \A c \in Closers : closer[c] \in {"back", "pop"} =>
           Instances.fin \in 1..Instances.fin
      /\ Instances.fin \in Nat /\ it \in Nat
  BY <1>1, <1>3, VectorTypes
     DEF DbPoolIInv, SweepInv, ScanInv, VectorInv, Clean, TypeOK
<1>5. CASE SweepLook \/ SweepDelete
  <2>1. pool \in {"look", "delete"}
    BY <1>5 DEF SweepLook, SweepDelete, PoolGoes
  <2>2. it \in Sound
    BY <1>3, <1>4, <2>1, InsideFinds
  <2>3. QED
    BY <1>3, <1>5, <2>2 DEF SweepLook, SweepDelete, Blame
<1>6. CASE EraseRead
  <2>1. ~(it > Instances.fin)
    BY <1>4, <1>6 DEF EraseRead, PoolGoes
  <2>2. QED
    BY <1>3, <1>6, <2>1 DEF EraseRead, Blame
<1>7. ASSUME NEW o \in Opens, ScanUsed(o) \/ ScanString(o)
      PROVE  corrupt' \subseteq {"user"}
  <2>1. opener[o] \in {"unused", "string"}
    BY <1>1, <1>7, ReadsDoes
  <2>2. oit[o] \in Sound
    BY <1>3, <1>4, <2>1, InsideFinds DEF Scanning
  <2>3. QED
    BY <1>1, <1>7, <2>2, ReadsDoes
<1>8. ASSUME NEW c \in Closers, CloseBack(c)
      PROVE  corrupt' \subseteq {"user"}
  <2>1. closer[c] = "back"
    BY <1>8 DEF CloseBack, CloseGoes
  <2>2. Instances.fin \in Sound
    BY <1>3, <1>4, <2>1, InsideFinds
  <2>3. QED
    BY <1>3, <1>8, <2>2 DEF CloseBack, Blame
<1>9. ASSUME NEW c \in Closers, PopRead(c)
      PROVE  corrupt' \subseteq {"user"}
  <2>1. Instances.fin # 0
    BY <1>4, <1>9 DEF PopRead, CloseGoes
  <2>2. QED
    BY <1>3, <1>9, <2>1 DEF PopRead, Blame
<1>10. ASSUME NEW o \in Opens,
              \/ OpenCall(o) \/ OpenSpin(o) \/ OpenSet(o) \/ ScanTest(o)
              \/ Take(o) \/ OpenRelease(o) \/ CreateInstance(o)
              \/ PushRead(o) \/ PushWrite(o) \/ Dispose(o)
       PROVE  corrupt' \subseteq {"user"}
  BY <1>3, <1>10 DEF OpenCall, OpenSpin, OpenSet, ScanTest, Take, OpenRelease,
     CreateInstance, PushRead, PushWrite, Dispose, Blame
<1>11. ASSUME NEW c \in Closers,
              \/ CloseCall(c) \/ CloseSpin(c) \/ CloseSet(c) \/ CloseTest(c)
              \/ PopWrite(c) \/ CloseRelease(c)
       PROVE  corrupt' \subseteq {"user"}
  BY <1>3, <1>11 DEF CloseCall, CloseSpin, CloseSet, CloseTest, PopWrite,
     CloseRelease
<1>12. CASE \/ PoolTop \/ PoolSpin \/ PoolSet \/ SweepTest \/ EraseWrite
            \/ PoolRelease \/ PoolSleep \/ DtorStop \/ DtorUnhold \/ DtorJoin
            \/ \E i \in Opens : Expire(i)
            \/ \E s \in ConnStrings : SetConnectionString(s)
            \/ UNCHANGED vars
  BY <1>3, <1>12 DEF PoolTop, PoolSpin, PoolSet, SweepTest, EraseWrite,
     PoolRelease, PoolSleep, DtorStop, DtorUnhold, DtorJoin, Expire,
     SetConnectionString, vars
<1>13. QED
  BY <1>5, <1>6, <1>7, <1>8, <1>9, <1>10, <1>11, <1>12, Steps

(* The positions of the pool thread in its sweep and of a closeAll() in    *)
(* its loop stay positions of the vector: nobody else takes an element out *)
(* meanwhile, and a push_back adds one behind them.                        *)
LEMMA SweepStep ==
  ASSUME DbPoolIInv, [Next]_vars
  PROVE  SweepInv'
<1>1. /\ TypeOK /\ (corrupt = {} \/ UNCHANGED vars) /\ (Clean' => Clean)
      /\ corrupt' = {} => corrupt = {}
  BY CalmStep, StepBegins DEF DbPoolIInv, vars
<1>2. SUFFICES ASSUME Clean, Clean', corrupt = {}, corrupt' = {}
               PROVE  SweepInv'
  BY <1>1 DEF SweepInv
<1>20. Calm /\ Calm'
  BY <1>2 DEF Clean
<1>3. /\ pool = "sweep" => it <= Instances.fin + 1
      /\ pool \in {"look", "delete", "erase", "erase2"} => it <= Instances.fin
      /\ pool = "delete" =>
           Instances.at[it] # None /\ ~Used[Instances.at[it]]
      /\ pool \in {"erase", "erase2"} =>
           /\ Instances.at[it] # None
           /\ inst[Instances.at[it]] \in {"swept", "closed"}
      /\ \A c \in Closers :
           /\ closer[c] \in {"back", "pop"} => 1 <= Instances.fin
           /\ closer[c] = "pop" =>
                /\ Instances.at[Instances.fin] # None
                /\ inst[Instances.at[Instances.fin]] \in {"swept", "closed"}
           /\ closer[c] = "pop2" =>
                /\ cfin[c] <= Instances.fin /\ Instances.at[cfin[c]] # None
                /\ inst[Instances.at[cfin[c]]] \in {"swept", "closed"}
  BY <1>2 DEF DbPoolIInv, SweepInv, Gone
<1>4. /\ Instances.at \in [1..Cardinality(Opens) -> Opens \cup {None}]
      /\ Instances.fin \in Nat /\ Instances.fin <= Cardinality(Opens)
      /\ Cardinality(Opens) \in Nat /\ None \notin Opens
      /\ it \in Nat /\ 1 <= it /\ pfin \in Nat
      /\ inst \in [Opens -> InstState] /\ Used \in [Opens -> BOOLEAN]
      /\ closer \in [Closers -> ClosePC] /\ cfin \in [Closers -> Nat]
      /\ \A c \in Closers : closer[c] = "pop2" => 1 <= cfin[c]
  BY <1>1, <1>2, VectorTypes, SettledSize, DbPoolAssumption
     DEF DbPoolIInv, VectorInv, TypeOK
<1>5. /\ PoolInside => \A c \in Closers : ~CloseInside(c)
      /\ \A c, d \in Closers : CloseInside(c) /\ CloseInside(d) => c = d
  BY <1>20 DEF DbPoolIInv, MutexInv, Calm
<1> DEFINE AtPool ==
      /\ pool' = "sweep" => it' <= Instances'.fin + 1
      /\ pool' \in {"look", "delete", "erase", "erase2"} => it' <= Instances'.fin
      /\ pool' = "delete" =>
           Instances'.at[it'] # None /\ ~Used'[Instances'.at[it']]
      /\ pool' \in {"erase", "erase2"} =>
           /\ Instances'.at[it'] # None
           /\ inst'[Instances'.at[it']] \in {"swept", "closed"}
    AtClose(c) ==
      /\ closer'[c] \in {"back", "pop"} => 1 <= Instances'.fin
      /\ closer'[c] = "pop" =>
           /\ Instances'.at[Instances'.fin] # None
           /\ inst'[Instances'.at[Instances'.fin]] \in {"swept", "closed"}
      /\ closer'[c] = "pop2" =>
           /\ cfin'[c] <= Instances'.fin /\ Instances'.at[cfin'[c]] # None
           /\ inst'[Instances'.at[cfin'[c]]] \in {"swept", "closed"}
<1>6. SUFFICES AtPool /\ \A c \in Closers : AtClose(c)
  BY DEF SweepInv, Gone
<1>7. ASSUME UNCHANGED <<Instances, inst, closer, cfin>>
      PROVE  \A c \in Closers : AtClose(c)
  BY <1>3, <1>7
<1>8. ASSUME UNCHANGED <<pool, it, Instances, Used, inst>>
      PROVE  AtPool
  BY <1>3, <1>8
<1>9. ASSUME \A c \in Closers : ~CloseInside(c), closer' = closer
      PROVE  \A c \in Closers : AtClose(c)
  BY <1>9 DEF CloseInside, Closing
<1>10. ASSUME ~PoolInside, pool' = pool
       PROVE  AtPool
  BY <1>10 DEF PoolInside, Sweeping
(* the pool thread *)
<1>11. CASE PoolTop \/ PoolSpin \/ PoolSet \/ PoolRelease \/ PoolSleep
  <2>1. /\ pool' \in Sweeping => pool' = "sweep" /\ it' = 1
        /\ UNCHANGED <<Instances, inst, closer, cfin>>
    BY <1>11 DEF PoolTop, PoolSpin, PoolSet, PoolRelease, PoolSleep, PoolGoes,
       Sweeping, instVars, closeVars
  <2>2. AtPool
    BY <1>4, <2>1 DEF Sweeping
  <2>3. QED
    BY <1>7, <2>1, <2>2
<1>12. CASE SweepTest \/ SweepLook
  <2>1. /\ UNCHANGED <<Instances, inst, Used, closer, cfin>>
        /\ \/ pool = "sweep" /\ pool' = "release"
           \/ /\ pool = "sweep" /\ pool' = "look" /\ it' = it
              /\ it # Instances.fin + 1
           \/ /\ pool = "look" /\ it \in Sound /\ pool' = "delete" /\ it' = it
              /\ ~Used[Instances.at[it]]
           \/ pool = "look" /\ pool' = "sweep" /\ it' = it + 1
    BY <1>2, <1>12 DEF SweepTest, SweepLook, PoolGoes, Blame, instVars, closeVars
  <2>2. it \in Sound => Instances.at[it] # None
    BY <1>4 DEF Sound
  <2>3. AtPool
    BY <1>3, <1>4, <2>1, <2>2
  <2>4. QED
    BY <1>7, <2>1, <2>3
<1>13. CASE SweepDelete
  <2>1. /\ pool = "delete" /\ pool' = "erase" /\ it' = it
        /\ UNCHANGED <<Instances, closer>>
        /\ inst' = [inst EXCEPT ![Instances.at[it]] = "swept"]
    BY <1>13 DEF SweepDelete, PoolGoes, closeVars
  <2>2. it \in 1..Cardinality(Opens)
    BY <1>3, <1>4, <2>1
  <2>3. Instances.at[it] \in Opens
    BY <1>3, <1>4, <2>1, <2>2
  <2>4. inst'[Instances.at[it]] = "swept"
    BY <1>4, <2>1, <2>3
  <2>5. AtPool
    BY <1>3, <2>1, <2>4
  <2>6. \A c \in Closers : ~CloseInside(c)
    BY <1>5, <2>1 DEF PoolInside, Sweeping
  <2>7. QED
    BY <1>9, <2>1, <2>5, <2>6
<1>14. CASE EraseRead
  <2>1. /\ pool = "erase" /\ pool' = "erase2" /\ it' = it
        /\ UNCHANGED <<Instances, inst, closer, cfin>>
    BY <1>14 DEF EraseRead, PoolGoes, instVars, closeVars
  <2>2. AtPool
    BY <1>3, <2>1
  <2>3. QED
    BY <1>7, <2>1, <2>2
<1>15. CASE EraseWrite
  <2>1. /\ pool = "erase2" /\ pool' = "sweep" /\ it' = it /\ closer' = closer
        /\ Instances'.fin = pfin - 1 /\ pfin = Instances.fin
    BY <1>1, <1>15, <1>20, CalmStep DEF EraseWrite, PoolGoes, closeVars, CutAt
  <2>2. AtPool
    BY <1>3, <1>4, <2>1
  <2>3. \A c \in Closers : ~CloseInside(c)
    BY <1>5, <2>1 DEF PoolInside, Sweeping
  <2>4. QED
    BY <1>9, <2>1, <2>2, <2>3
(* an open() and its dispose() *)
<1>16. ASSUME NEW o \in Opens,
              \/ OpenCall(o) \/ OpenSpin(o) \/ OpenSet(o) \/ ScanTest(o)
              \/ ScanUsed(o) \/ ScanString(o) \/ Take(o) \/ OpenRelease(o)
              \/ PushRead(o)
       PROVE  AtPool /\ \A c \in Closers : AtClose(c)
  <2>1. UNCHANGED <<pool, it, Instances, Used, inst, closer, cfin>>
    <3>1. CASE ~(ScanUsed(o) \/ ScanString(o))
      BY <1>16, <3>1 DEF OpenCall, OpenSpin, OpenSet, ScanTest, Take,
         OpenRelease, PushRead, poolVars, closeVars, instVars
    <3>2. CASE ScanUsed(o) \/ ScanString(o)
      BY <1>1, <3>2, ReadsDoes
    <3>3. QED
      BY <3>1, <3>2
  <2>2. QED
    BY <1>7, <1>8, <2>1
<1>17. ASSUME NEW o \in Opens, CreateInstance(o)
       PROVE  AtPool /\ \A c \in Closers : AtClose(c)
  <2>1. /\ UNCHANGED <<pool, it, Instances, closer, cfin>> /\ opener[o] = "create"
        /\ Used' = Used \/ Used' = [Used EXCEPT ![o] = TRUE]
        /\ \/ inst' = [inst EXCEPT ![o] = "live"]
           \/ inst' = [inst EXCEPT ![o] = "failed"]
    BY <1>17 DEF CreateInstance, OpenGoes, poolVars, closeVars
  <2>2. \A k \in DOMAIN Instances.at : Instances.at[k] # o
    <3>1. \A k \in DOMAIN Instances.at : Instances.at[k] # None =>
            opener[Instances.at[k]] \in {"using", "done"}
      BY DEF DbPoolIInv, OriginInv
    <3>2. QED
      BY <1>4, <2>1, <3>1
  <2>3. \A i \in Opens \ {o} : inst'[i] = inst[i] /\ Used'[i] = Used[i]
    BY <1>4, <2>1
  <2>4. \A k \in 1..Cardinality(Opens) : Instances.at[k] # None =>
          Instances.at[k] \in Opens \ {o}
    BY <1>4, <2>2
  <2>5. \A k \in 1..Cardinality(Opens) : Instances.at[k] # None =>
          /\ inst'[Instances.at[k]] = inst[Instances.at[k]]
          /\ Used'[Instances.at[k]] = Used[Instances.at[k]]
    BY <2>3, <2>4
  <2>6. /\ pool \in {"delete", "erase", "erase2"} =>
             it \in 1..Cardinality(Opens)
        /\ \A c \in Closers :
             /\ closer[c] = "pop" => Instances.fin \in 1..Cardinality(Opens)
             /\ closer[c] = "pop2" => cfin[c] \in 1..Cardinality(Opens)
    BY <1>3, <1>4
  <2>7. QED
    BY <1>3, <2>1, <2>5, <2>6
<1>18. ASSUME NEW o \in Opens, PushWrite(o)
       PROVE  AtPool /\ \A c \in Closers : AtClose(c)
  <2>1. UNCHANGED <<pool, it, Used, inst, closer, cfin>>
    BY <1>18 DEF PushWrite, poolVars, closeVars, instVars
  <2>2. /\ Instances'.fin = Instances.fin + 1
        /\ \A k \in Nat : k <= Instances.fin => Instances'.at[k] = Instances.at[k]
    BY <1>18, <1>20, PushKeeps
  <2>3. \A c \in Closers : closer[c] # "pop"
    BY <1>1, <1>2, <1>18, CalmStep
  <2>4. AtPool
    BY <1>3, <1>4, <2>1, <2>2
  <2>5. ASSUME NEW c \in Closers
        PROVE  AtClose(c)
    BY <1>3, <1>4, <2>1, <2>2, <2>3
  <2>6. QED
    BY <2>4, <2>5
<1>19. ASSUME NEW o \in Opens, Dispose(o)
       PROVE  AtPool /\ \A c \in Closers : AtClose(c)
  <2>1. /\ UNCHANGED <<pool, it, Instances, inst, closer, cfin>>
        /\ Used' = [Used EXCEPT ![got[o]] = FALSE]
    BY <1>19 DEF Dispose, poolVars, closeVars
  <2>2. \A i \in Opens : Used'[i] => Used[i]
    BY <1>4, <2>1
  <2>3. pool = "delete" => Instances.at[it] \in Opens
    BY <1>3, <1>4
  <2>4. AtPool
    BY <1>3, <2>1, <2>2, <2>3
  <2>5. QED
    BY <1>7, <2>1, <2>4
(* a closeAll(), the destructor and the environment *)
<1>21. ASSUME NEW c \in Closers,
              CloseTest(c) \/ CloseBack(c) \/ PopRead(c) \/ PopWrite(c)
       PROVE  AtPool /\ \A d \in Closers : AtClose(d)
  <2>1. /\ pool' = pool /\ closer[c] \in Closing
        /\ \A d \in Closers \ {c} : closer'[d] = closer[d]
    BY <1>4, <1>21 DEF CloseTest, CloseBack, PopRead, PopWrite, CloseGoes,
       poolVars, Closing
  <2>2. ~PoolInside /\ \A d \in Closers \ {c} : ~CloseInside(d)
    BY <1>5, <2>1 DEF CloseInside
  <2>3. AtPool
    BY <1>10, <2>1, <2>2
  <2>4. \A d \in Closers \ {c} : AtClose(d)
    BY <2>1, <2>2 DEF CloseInside, Closing
  <2>5. CASE CloseTest(c)
    <3>1. /\ Instances' = Instances
          /\ \/ closer'[c] = "release"
             \/ closer'[c] = "back" /\ Instances.fin # 0
      BY <1>4, <2>5 DEF CloseTest, CloseGoes
    <3>2. AtClose(c)
      BY <1>4, <3>1
    <3>3. QED
      BY <2>3, <2>4, <3>2
  <2>6. CASE CloseBack(c)
    <3>1. /\ Instances' = Instances /\ closer[c] = "back" /\ closer'[c] = "pop"
          /\ Instances.fin \in Sound
          /\ inst' = [inst EXCEPT ![Instances.at[Instances.fin]] = "closed"]
      BY <1>2, <1>4, <2>6 DEF CloseBack, CloseGoes, Blame
    <3>2. Instances.at[Instances.fin] \in Opens
      BY <3>1 DEF Sound
    <3>3. inst'[Instances.at[Instances.fin]] = "closed"
      BY <1>4, <3>1, <3>2
    <3>4. AtClose(c)
      BY <1>3, <1>4, <3>1, <3>2, <3>3
    <3>5. QED
      BY <2>3, <2>4, <3>4
  <2>7. CASE PopRead(c)
    <3>1. /\ UNCHANGED <<Instances, inst>> /\ closer[c] = "pop"
          /\ closer'[c] = "pop2" /\ cfin'[c] = Instances.fin
      BY <1>4, <2>7 DEF PopRead, CloseGoes, instVars
    <3>2. AtClose(c)
      BY <1>3, <1>4, <3>1
    <3>3. QED
      BY <2>3, <2>4, <3>2
  <2>8. CASE PopWrite(c)
    <3>1. closer'[c] = "close"
      BY <1>4, <2>8 DEF PopWrite, CloseGoes
    <3>2. QED
      BY <2>3, <2>4, <3>1
  <2>9. QED
    BY <1>21, <2>5, <2>6, <2>7, <2>8
<1>22. ASSUME NEW c \in Closers,
              \/ CloseCall(c) \/ CloseSpin(c) \/ CloseSet(c) \/ CloseRelease(c)
              \/ DtorStop \/ DtorUnhold \/ DtorJoin
       PROVE  AtPool /\ \A d \in Closers : AtClose(d)
  <2>1. /\ UNCHANGED <<pool, it, Instances, Used, inst, cfin>>
        /\ \A d \in Closers : closer'[d] \in {"back", "pop", "pop2"} =>
                               closer'[d] = closer[d]
    BY <1>4, <1>22 DEF CloseCall, CloseSpin, CloseSet, CloseRelease, DtorStop,
       DtorUnhold, DtorJoin, CloseGoes, poolVars, instVars
  <2>2. QED
    BY <1>3, <1>8, <2>1
<1>23. CASE \/ \E i \in Opens : Expire(i)
            \/ \E s \in ConnStrings : SetConnectionString(s)
            \/ UNCHANGED vars
  <2>1. UNCHANGED <<pool, it, Instances, Used, inst, closer, cfin>>
    BY <1>23 DEF Expire, SetConnectionString, vars, poolVars, closeVars, instVars
  <2>2. QED
    BY <1>7, <1>8, <2>1
<1>24. \E c \in Closers : TRUE
  BY DEF Closers
<1>25. QED
  <2> HIDE DEF AtPool, AtClose
  <2>1. QED
    BY <1>11, <1>12, <1>13, <1>14, <1>15, <1>16, <1>17, <1>18, <1>19, <1>21,
       <1>22, <1>23, <1>24, Steps

(* Each delete moves its instance to the doomed ones, each erase and each  *)
(* pop_back takes that one out of the vector, and each push_back adds its  *)
(* own.                                                                    *)
LEMMA ExactStep ==
  ASSUME DbPoolIInv, [Next]_vars
  PROVE  InstancesExact'
<1>1. /\ TypeOK /\ (corrupt = {} \/ UNCHANGED vars) /\ (Clean' => Clean)
      /\ corrupt' = {} => corrupt = {}
  BY CalmStep, StepBegins DEF DbPoolIInv, vars
<1>2. SUFFICES ASSUME Clean, Clean', corrupt = {}, corrupt' = {}
               PROVE  HoldsExactly(Instances', Live' \cup Doomed')
  BY <1>1, ExactUnfolds
<1>20. Calm /\ Calm'
  BY <1>2 DEF Clean
<1>3. HoldsExactly(Instances, Live \cup Doomed)
  BY <1>2, ExactUnfolds DEF DbPoolIInv
<1>4. /\ Instances \in [at : [1..Cardinality(Opens) -> Opens \cup {None}],
                        fin : Nat]
      /\ Instances.at \in [1..Cardinality(Opens) -> Opens \cup {None}]
      /\ Instances.fin \in Nat /\ Instances.fin <= Cardinality(Opens)
      /\ Cardinality(Opens) \in Nat
      /\ it \in Nat /\ 1 <= it
      /\ \A c \in Closers :
           cfin[c] \in Nat /\ (closer[c] = "pop2" => 1 <= cfin[c])
  BY <1>1, <1>2, VectorTypes, SettledSize DEF DbPoolIInv, VectorInv
<1>40. /\ inst \in [Opens -> InstState] /\ closer \in [Closers -> ClosePC]
       /\ cfin \in [Closers -> Nat] /\ opener \in [Opens -> OpenPC]
       /\ None \notin Opens
  BY <1>1, DbPoolAssumption DEF TypeOK
<1>5. /\ PoolInside => \A c \in Closers : ~CloseInside(c)
      /\ \A c, d \in Closers : CloseInside(c) /\ CloseInside(d) => c = d
  BY <1>20 DEF DbPoolIInv, MutexInv, Calm
<1>6. /\ \A k \in DOMAIN Instances.at : Instances.at[k] # None =>
           opener[Instances.at[k]] \in {"using", "done"}
      /\ \A o \in Opens : opener[o] \in Fresh => inst[o] = "none"
  BY DEF DbPoolIInv, OriginInv
<1>7. /\ pool \in {"look", "delete", "erase", "erase2"} => it <= Instances.fin
      /\ pool \in {"erase", "erase2"} =>
           Instances.at[it] # None /\ Gone(Instances.at[it])
      /\ \A c \in Closers :
           /\ closer[c] \in {"back", "pop"} => 1 <= Instances.fin
           /\ closer[c] = "pop2" =>
                /\ cfin[c] <= Instances.fin
                /\ Instances.at[cfin[c]] # None /\ Gone(Instances.at[cfin[c]])
  BY <1>2 DEF DbPoolIInv, SweepInv
<1>8. ASSUME PoolInside
      PROVE  \A c \in Closers : closer[c] \notin {"pop", "pop2"}
  BY <1>5, <1>8 DEF CloseInside, Closing
<1>9. ASSUME NEW c \in Closers, closer[c] \in Closing
      PROVE  /\ pool \notin {"erase", "erase2"}
             /\ \A d \in Closers \ {c} : closer[d] \notin {"pop", "pop2"}
  BY <1>5, <1>9 DEF CloseInside, PoolInside, Sweeping, Closing
<1>10. ASSUME Instances' = Instances, Live' = Live, Doomed' = Doomed
       PROVE  HoldsExactly(Instances', Live' \cup Doomed')
  BY <1>3, <1>10
<1>11. ASSUME UNCHANGED <<Instances, inst, opener, it, cfin>>,
              pool' \in {"erase", "erase2"} <=> pool \in {"erase", "erase2"},
              \A c \in Closers : \/ closer'[c] = closer[c]
                                 \/ {closer[c], closer'[c]} \cap {"pop", "pop2"} = {}
       PROVE  HoldsExactly(Instances', Live' \cup Doomed')
  <2>1. Live' = Live
    BY <1>11 DEF Live
  <2>2. \A c \in Closers : /\ closer'[c] = "pop" <=> closer[c] = "pop"
                           /\ closer'[c] = "pop2" <=> closer[c] = "pop2"
    BY <1>11
  <2>3. \A x : x \in Doomed' <=> x \in Doomed
    BY <1>11, <2>2, DoomedAre
  <2>4. Doomed' = Doomed
    BY <2>3 DEF Doomed
  <2>5. QED
    BY <1>10, <1>11, <2>1, <2>4
(* the pool thread *)
<1>12. CASE SweepDelete
  <2>1. /\ pool = "delete" /\ pool' = "erase" /\ it' = it
        /\ UNCHANGED <<Instances, opener, closer, cfin>>
        /\ inst' = [inst EXCEPT ![Instances.at[it]] = "swept"]
    BY <1>12 DEF SweepDelete, PoolGoes, openVars, closeVars
  <2>2. /\ it \in 1..Instances.fin
        /\ \A c \in Closers : closer'[c] \notin {"pop", "pop2"}
    BY <1>4, <1>7, <1>8, <2>1 DEF PoolInside, Sweeping
  <2>3. Instances.at[it] \in Live /\ Doomed = {} /\ Instances.at[it] \in Opens
    BY <1>2, <2>1, <2>2, InsideFinds DEF Live
  <2>4. Doomed' = {Instances.at[it]}
    <3>1. \A x : x \in Doomed' <=> x = Instances.at[it]
      BY <2>1, <2>2, DoomedAre
    <3>2. QED
      BY <3>1
  <2>5. Live' = Live \ {Instances.at[it]}
    BY <1>40, <2>1, <2>3 DEF Live
  <2>6. Live' \cup Doomed' = Live \cup Doomed
    BY <2>3, <2>4, <2>5
  <2>7. QED
    BY <1>3, <2>1, <2>6
<1>13. CASE EraseWrite
  <2>1. /\ pool = "erase2" /\ pool' = "sweep"
        /\ UNCHANGED <<opener, inst, closer>>
        /\ Instances' = CutAt(Instances, it, Instances.fin)
    BY <1>1, <1>13, <1>20, CalmStep DEF EraseWrite, PoolGoes, openVars, instVars,
       closeVars
  <2>2. /\ it \in 1..Instances.fin
        /\ \A c \in Closers : closer[c] \notin {"pop", "pop2"}
        /\ \A c \in Closers : closer'[c] \notin {"pop", "pop2"}
    BY <1>4, <1>7, <1>8, <2>1 DEF PoolInside, Sweeping
  <2>3. Doomed = {Instances.at[it]} /\ Doomed' = {} /\ Live' = Live
    <3>1. \A x : x \in Doomed <=> x = Instances.at[it]
      BY <2>1, <2>2, DoomedAre
    <3>2. \A x : x \notin Doomed'
      BY <2>1, <2>2, DoomedAre
    <3>3. QED
      BY <2>1, <3>1, <3>2 DEF Live
  <2>4. Instances.at[it] \notin Live
    BY <1>7, <2>1 DEF Live, Gone
  <2>5. (Live \cup Doomed) \ {Instances.at[it]} = Live' \cup Doomed'
    BY <2>3, <2>4
  <2>6. HoldsExactly(Instances', (Live \cup Doomed) \ {Instances.at[it]})
    BY <1>3, <1>4, <2>1, <2>2, CutExact, Zenon
  <2>7. QED
    BY <2>5, <2>6
<1>14. CASE EraseRead
  <2>1. /\ UNCHANGED <<Instances, inst, opener, it, cfin, closer>>
        /\ pool = "erase" /\ pool' = "erase2"
    BY <1>14 DEF EraseRead, PoolGoes, openVars, instVars, closeVars
  <2>2. QED
    BY <1>11, <2>1
<1>15. CASE \/ PoolTop \/ PoolSpin \/ PoolSet \/ SweepTest \/ SweepLook
            \/ PoolRelease \/ PoolSleep
  <2>1. /\ pool \notin {"delete", "erase", "erase2"}
        /\ pool' \notin {"erase", "erase2"}
        /\ UNCHANGED <<Instances, opener, inst, closer, cfin>>
    BY <1>15 DEF PoolTop, PoolSpin, PoolSet, SweepTest, SweepLook, PoolRelease,
       PoolSleep, PoolGoes, openVars, instVars, closeVars
  <2>2. Live' = Live
    BY <2>1 DEF Live
  <2>3. \A x : x \in Doomed' <=> x \in Doomed
    BY <2>1, DoomedAre
  <2>4. Doomed' = Doomed
    BY <2>3 DEF Doomed
  <2>5. QED
    BY <1>10, <2>1, <2>2, <2>4
(* an open() and its dispose() *)
<1>16. ASSUME NEW o \in Opens, PushWrite(o)
       PROVE  HoldsExactly(Instances', Live' \cup Doomed')
  <2>1. /\ UNCHANGED <<pool, it, inst, closer, cfin>>
        /\ opener[o] = "push2" /\ opener' = [opener EXCEPT ![o] = "using"]
    BY <1>16 DEF PushWrite, OpenGoes, poolVars, closeVars, instVars
  <2>2. /\ Instances' = PutAt(Instances, Instances.fin, o)
        /\ Instances.fin < Cardinality(Opens)
        /\ \A k \in Nat : k <= Instances.fin => Instances'.at[k] = Instances.at[k]
    BY <1>16, <1>20, PushKeeps
  <2>3. inst[o] = "live"
    BY <2>1 DEF DbPoolIInv, OriginInv, Pushes
  <2>4. Live' = Live \cup {o} /\ o \notin Live
    BY <1>40, <2>1, <2>3 DEF Live, Pushes
  <2>5. \A c \in Closers : closer[c] # "pop"
    BY <1>1, <1>2, <1>16, CalmStep
  <2>6. Doomed' = Doomed /\ o \notin Doomed
    <3>1. pool \in {"erase", "erase2"} =>
            it \in DOMAIN Instances.at /\ Instances'.at[it] = Instances.at[it]
      BY <1>4, <1>7, <2>2
    <3>2. \A c \in Closers : closer[c] = "pop2" =>
            /\ cfin[c] \in DOMAIN Instances.at
            /\ Instances'.at[cfin[c]] = Instances.at[cfin[c]]
      BY <1>4, <1>7, <2>2
    <3>3. \A x : x \in Doomed' <=> x \in Doomed
      BY <2>1, <2>5, <3>1, <3>2, DoomedAre
    <3>4. Doomed' = Doomed
      BY <3>3 DEF Doomed
    <3>5. \A k \in DOMAIN Instances.at : Instances.at[k] # o
      BY <1>6, <1>40, <2>1
    <3>6. o \notin Doomed
      BY <2>5, <3>1, <3>2, <3>5, DoomedAre
    <3>7. QED
      BY <3>4, <3>6
  <2>7. HoldsExactly(Instances', (Live \cup Doomed) \cup {o})
    <3>1. o \notin Live \cup Doomed
      BY <2>4, <2>6
    <3>2. QED
      BY <1>3, <1>4, <2>2, <3>1, PushExact, Zenon
  <2>8. QED
    BY <2>4, <2>6, <2>7
<1>17. ASSUME NEW o \in Opens,
              \/ OpenCall(o) \/ OpenSpin(o) \/ OpenSet(o) \/ ScanTest(o)
              \/ ScanUsed(o) \/ ScanString(o) \/ Take(o) \/ OpenRelease(o)
              \/ CreateInstance(o) \/ PushRead(o) \/ Dispose(o)
       PROVE  HoldsExactly(Instances', Live' \cup Doomed')
  <2>1. UNCHANGED <<Instances, pool, it, closer, cfin>>
    <3>1. CASE ~(ScanUsed(o) \/ ScanString(o))
      BY <1>17, <3>1 DEF OpenCall, OpenSpin, OpenSet, ScanTest, Take,
         OpenRelease, CreateInstance, PushRead, Dispose, poolVars, closeVars
    <3>2. CASE ScanUsed(o) \/ ScanString(o)
      BY <1>1, <3>2, ReadsDoes
    <3>3. QED
      BY <3>1, <3>2
  <2>2. Live' = Live
    <3>1. CASE CreateInstance(o)
      <4>1. /\ opener[o] = "create"
            /\ \/ /\ opener' = [opener EXCEPT ![o] = "push1"]
                  /\ inst' = [inst EXCEPT ![o] = "live"]
               \/ /\ opener' = [opener EXCEPT ![o] = "threw"]
                  /\ inst' = [inst EXCEPT ![o] = "failed"]
        BY <3>1 DEF CreateInstance, OpenGoes
      <4>2. inst[o] = "none"
        BY <1>6, <4>1 DEF Fresh
      <4>3. o \notin Live /\ o \notin Live'
        BY <1>40, <4>1, <4>2 DEF Live, Pushes
      <4>4. \A q \in Opens \ {o} : inst'[q] = inst[q] /\ opener'[q] = opener[q]
        BY <1>40, <4>1
      <4>5. QED
        BY <4>3, <4>4 DEF Live
    <3>2. CASE ScanUsed(o) \/ ScanString(o)
      <4>1. PICK p \in Scanning : opener' = [opener EXCEPT ![o] = p]
        BY <1>1, <3>2, ReadsDoes
      <4>2. inst' = inst /\ opener[o] \notin Pushes /\ p \notin Pushes
        BY <1>1, <3>2, <4>1, ReadsDoes DEF Pushes, Scanning
      <4>3. QED
        BY <1>40, <4>1, <4>2 DEF Live
    <3>3. CASE \/ OpenCall(o) \/ OpenSpin(o) \/ OpenSet(o) \/ ScanTest(o)
               \/ Take(o) \/ OpenRelease(o) \/ PushRead(o) \/ Dispose(o)
      <4>1. /\ inst' = inst
            /\ \E p \in OpenPC :
                 /\ opener' = [opener EXCEPT ![o] = p]
                 /\ opener[o] \in Pushes <=> p \in Pushes
        BY <3>3 DEF OpenCall, OpenSpin, OpenSet, ScanTest, Take, OpenRelease,
           PushRead, Dispose, OpenGoes, instVars, OpenPC, Scanning, Pushes
      <4>2. QED
        BY <1>40, <4>1 DEF Live
    <3>4. QED
      BY <1>17, <3>1, <3>2, <3>3
  <2>3. \A x : x \in Doomed' <=> x \in Doomed
    BY <2>1, DoomedAre
  <2>4. Doomed' = Doomed
    BY <2>3 DEF Doomed
  <2>5. QED
    BY <1>10, <2>1, <2>2, <2>4
(* a closeAll(), the destructor and the environment *)
<1>18. ASSUME NEW c \in Closers, CloseBack(c)
       PROVE  HoldsExactly(Instances', Live' \cup Doomed')
  <2> DEFINE i == Instances.at[Instances.fin]
  <2>1. /\ UNCHANGED <<pool, it, opener, Instances, cfin>> /\ closer[c] = "back"
        /\ closer' = [closer EXCEPT ![c] = "pop"]
        /\ inst' = [inst EXCEPT ![i] = "closed"]
    BY <1>2, <1>18 DEF CloseBack, CloseGoes, Blame, poolVars, openVars
  <2>2. Doomed = {} /\ i \in Live /\ i \in Opens
    <3>1. Instances.fin \in 1..Instances.fin
      BY <1>4, <1>7, <2>1
    <3>2. QED
      BY <1>2, <2>1, <3>1, InsideFinds DEF Live
  <2>3. Doomed' = {i}
    <3>1. /\ pool' \notin {"erase", "erase2"} /\ Instances' = Instances
          /\ \A d \in Closers : closer'[d] # "pop2"
          /\ \A d \in Closers : closer'[d] = "pop" <=> d = c
      BY <1>9, <1>40, <2>1 DEF Closing
    <3>2. \A x : x \in Doomed' <=> x = i
      BY <3>1, DoomedAre
    <3>3. QED
      BY <3>2
  <2>4. Live' = Live \ {i}
    <3> HIDE DEF i
    <3>1. QED
      BY <1>40, <2>1, <2>2 DEF Live
  <2>5. Live' \cup Doomed' = Live \cup Doomed
    BY <2>2, <2>3, <2>4
  <2>6. QED
    BY <1>3, <2>1, <2>5
<1>19. ASSUME NEW c \in Closers, PopRead(c)
       PROVE  HoldsExactly(Instances', Live' \cup Doomed')
  <2>1. /\ UNCHANGED <<pool, it, opener, Instances, inst>> /\ closer[c] = "pop"
        /\ closer' = [closer EXCEPT ![c] = "pop2"]
        /\ cfin' = [cfin EXCEPT ![c] = Instances.fin]
    BY <1>19 DEF PopRead, CloseGoes, poolVars, openVars, instVars
  <2>2. /\ pool \notin {"erase", "erase2"}
        /\ \A d \in Closers : /\ closer[d] # "pop2"
                              /\ closer[d] = "pop" <=> d = c
                              /\ closer'[d] # "pop"
                              /\ closer'[d] = "pop2" <=> d = c
    BY <1>9, <1>40, <2>1 DEF Closing
  <2>3. cfin'[c] = Instances.fin
    BY <1>40, <2>1
  <2>4. \A x : x \in Doomed' <=> x \in Doomed
    BY <2>1, <2>2, <2>3, DoomedAre
  <2>5. Doomed' = Doomed /\ Live' = Live
    BY <2>1, <2>4 DEF Doomed, Live
  <2>6. QED
    BY <1>10, <2>1, <2>5
<1>21. ASSUME NEW c \in Closers, PopWrite(c)
       PROVE  HoldsExactly(Instances', Live' \cup Doomed')
  <2>1. /\ UNCHANGED <<pool, opener, inst>> /\ closer[c] = "pop2"
        /\ closer' = [closer EXCEPT ![c] = "close"]
        /\ cfin[c] = Instances.fin
        /\ Instances' = [Instances EXCEPT !.fin = Instances.fin - 1]
    BY <1>1, <1>20, <1>21, CalmStep DEF PopWrite, CloseGoes, poolVars, openVars,
       instVars
  <2>2. /\ pool \notin {"erase", "erase2"}
        /\ \A d \in Closers : /\ closer[d] # "pop"
                              /\ closer[d] = "pop2" <=> d = c
                              /\ closer'[d] \notin {"pop", "pop2"}
    BY <1>9, <1>40, <2>1 DEF Closing
  <2>3. Doomed = {Instances.at[Instances.fin]} /\ Doomed' = {}
    <3>1. \A x : x \in Doomed <=> x = Instances.at[Instances.fin]
      BY <2>1, <2>2, DoomedAre
    <3>2. \A x : x \notin Doomed'
      BY <2>1, <2>2, DoomedAre
    <3>3. QED
      BY <3>1, <3>2
  <2>4. Live' = Live /\ Instances.at[Instances.fin] \notin Live
    BY <1>7, <2>1 DEF Live, Gone
  <2>5. HoldsExactly(Instances', (Live \cup Doomed) \ {Instances.at[Instances.fin]})
    <3>1. Instances.fin \in 1..Cardinality(Opens)
      BY <1>4, <2>1
    <3>2. QED
      BY <1>3, <1>4, <2>1, <3>1, PopExact, Zenon
  <2>6. (Live \cup Doomed) \ {Instances.at[Instances.fin]} = Live' \cup Doomed'
    BY <2>3, <2>4
  <2>7. QED
    BY <2>5, <2>6
<1>22. ASSUME NEW c \in Closers,
              \/ CloseCall(c) \/ CloseSpin(c) \/ CloseSet(c) \/ CloseTest(c)
              \/ CloseRelease(c)
              \/ DtorStop \/ DtorUnhold \/ DtorJoin
       PROVE  HoldsExactly(Instances', Live' \cup Doomed')
  <2>1. /\ UNCHANGED <<pool, it, opener, Instances, inst, cfin>>
        /\ \A d \in Closers :
             \/ closer'[d] = closer[d]
             \/ {closer[d], closer'[d]} \cap {"pop", "pop2"} = {}
    BY <1>40, <1>22 DEF CloseCall, CloseSpin, CloseSet, CloseTest, CloseRelease,
       DtorStop, DtorUnhold, DtorJoin, CloseGoes, poolVars, openVars, instVars
  <2>2. QED
    BY <1>11, <2>1
<1>23. CASE \/ \E i \in Opens : Expire(i)
            \/ \E s \in ConnStrings : SetConnectionString(s)
            \/ UNCHANGED vars
  <2>1. UNCHANGED <<pool, it, opener, Instances, inst, closer, cfin>>
    BY <1>23 DEF Expire, SetConnectionString, vars, poolVars, openVars, closeVars,
       instVars
  <2>2. QED
    BY <1>11, <2>1
<1>24. \E c \in Closers : TRUE
  BY DEF Closers
<1>25. QED
  BY <1>12, <1>13, <1>14, <1>15, <1>16, <1>17, <1>18, <1>19, <1>21, <1>22,
     <1>23, <1>24, Steps

-----------------------------------------------------------------------------
LEMMA DbPoolInit == Init => DbPoolIInv
<1> SUFFICES ASSUME Init
             PROVE  DbPoolIInv
  OBVIOUS
<1>1. /\ Instances.fin = 0 /\ Instances.at = [i \in 1..Cardinality(Opens) |-> None]
      /\ Instances \in [at : [1..Cardinality(Opens) -> Opens \cup {None}],
                        fin : Nat]
  BY DEF Init, EmptyVec
<1>2. /\ \A o \in Opens : /\ inst[o] = "none" /\ opener[o] = "idle"
                          /\ got[o] = None /\ ofin[o] = 0 /\ asked[o] = None
                          /\ oit[o] = 1
      /\ \A c \in Closers : closer[c] = "idle" /\ cfin[c] = 0
      /\ pool = "top" /\ it = 1 /\ pfin = 0 /\ corrupt = {} /\ ~cutin
  BY DEF Init
<1>3. TypeOK
  BY <1>1 DEF Init, TypeOK, InstState, PoolPC, OpenPC, ClosePC
<1>4. VectorInv
  BY <1>1, <1>2, SettledSize DEF VectorInv
<1>5. MutexInv
  BY <1>2 DEF MutexInv, PoolInside, OpenInside, CloseInside, Sweeping, Scanning,
     Closing
<1>6. OriginInv
  BY <1>1, <1>2, DbPoolAssumption DEF OriginInv, Fresh, Pushes
<1>7. /\ StringInv /\ UsedInv /\ CreatorUndisturbed /\ SweepInv /\ ScanInv
      /\ CutInv /\ PoolSound
  BY <1>2, DbPoolAssumption DEF StringInv, UsedInv, CreatorUndisturbed, SweepInv,
     ScanInv, CutInv, PoolSound
<1>8. InstancesExact
  <2>1. Live \cup Doomed = {}
    BY <1>2 DEF Live, Doomed, DoomedSlots
  <2>2. HoldsExactly(Instances, {})
    BY <1>1 DEF HoldsExactly, Elements
  <2>3. QED
    BY <2>1, <2>2, ExactUnfolds
<1>9. QED
  BY <1>3, <1>4, <1>5, <1>6, <1>7, <1>8 DEF DbPoolIInv

(* The inductive invariant holds in every reachable state                  *)
(* (CDatabase.cpp:29-112).                                                 *)
THEOREM DbPoolInvariance == Spec => []DbPoolIInv
<1>1. DbPoolIInv /\ [Next]_vars => DbPoolIInv'
  <2> SUFFICES ASSUME DbPoolIInv, [Next]_vars
               PROVE  DbPoolIInv'
    OBVIOUS
  <2>1. TypeOK /\ VectorInv /\ MutexInv /\ OriginInv /\ StringInv /\ ScanInv
    BY DEF DbPoolIInv
  <2>2. TypeOK' /\ VectorInv' /\ MutexInv' /\ OriginInv' /\ StringInv'
    BY <2>1, TypeStep, VectorStep, MutexStep, OriginStep, StringStep
  <2>3. /\ UsedInv' /\ CreatorUndisturbed' /\ SweepInv' /\ ScanInv' /\ CutInv'
        /\ InstancesExact' /\ PoolSound'
    BY CreatorStep, SweepStep, ScanStep, CutStep, ExactStep, SoundStep
  <2>4. QED
    BY <2>2, <2>3 DEF DbPoolIInv
<1>2. QED
  BY <1>1, DbPoolInit, PTL DEF Spec

(* While no two threads were inside Hold and no update of Instances was    *)
(* overwritten, the caller whose open() created an instance has it to      *)
(* itself until it disposes of it (CDatabase.cpp:58, 77).                  *)
THEOREM DbPoolCreator == Spec => []CreatorUndisturbed
<1>1. DbPoolIInv => CreatorUndisturbed
  BY DEF DbPoolIInv
<1>2. QED
  BY <1>1, DbPoolInvariance, PTL

(* While, moreover, no push_back fell between closeAll()'s delete and its  *)
(* pop_back, the pool thread, open() and closeAll() touch no instance that *)
(* was deleted (CDatabase.cpp:53-81, 103-112).                             *)
THEOREM DbPoolSound == Spec => []PoolSound
<1>1. DbPoolIInv => PoolSound
  BY DEF DbPoolIInv
<1>2. QED
  BY <1>1, DbPoolInvariance, PTL

(* Under the same condition Instances holds each live instance once, and   *)
(* besides only the one that is being taken out (CDatabase.cpp:58-64, 96,  *)
(* 105-109).                                                               *)
THEOREM DbPoolExact == Spec => []InstancesExact
<1>1. DbPoolIInv => InstancesExact
  BY DEF DbPoolIInv
<1>2. QED
  BY <1>1, DbPoolInvariance, PTL

(* While no two threads were inside Hold and no update of Instances was    *)
(* overwritten, an open() during which nobody called setConnectionString   *)
(* returns an instance that is connected with the string it found, though  *)
(* the scan reads the element once more after its tests, while others      *)
(* push (CDatabase.cpp:77-78, 89, 93, 96).                                 *)
THEOREM DbPoolString == Spec => []StringHonoured
<1>1. DbPoolIInv => StringHonoured
  BY DEF DbPoolIInv, OriginInv, StringInv, StringHonoured, Calm
<1>2. QED
  BY <1>1, DbPoolInvariance, PTL

(* Every variable keeps its type: in particular the slots of Instances     *)
(* only ever hold instances, whatever finish a push_back, an erase or a    *)
(* pop_back works with (CDatabase.cpp:63, 96, 109).                        *)
THEOREM DbPoolTypes == Spec => []TypeOK
<1>1. DbPoolIInv => TypeOK
  BY DEF DbPoolIInv
<1>2. QED
  BY <1>1, DbPoolInvariance, PTL
=============================================================================
