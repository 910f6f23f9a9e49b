------------------------- MODULE TransactionProofs -------------------------
(***************************************************************************)
(* Theorems about Transaction, for any set of threads and any bound on     *)
(* their calls.                                                            *)
(***************************************************************************)
EXTENDS Transaction, TLAPS

(* A piece of work has the type of todo.                                   *)
LEMMA WorkType ==
  ASSUME NEW n \in Nat, NEW s \in BOOLEAN, NEW h \in BOOLEAN
  PROVE  Work(n, s, h) \in [esc : Nat, stmt : BOOLEAN, handle : BOOLEAN]
BY Zenon DEF Work

(* Every kind of call fits the type of todo.                               *)
LEMMA KindsType == Kinds \subseteq [esc : Nat, stmt : BOOLEAN, handle : BOOLEAN]
<1>1. ASSUME NEW w \in Kinds
      PROVE  \E n \in Nat, s, h \in BOOLEAN : w = Work(n, s, h)
  <2>1. 0..MaxEsc \subseteq Nat /\ 0 \in Nat /\ 1 \in Nat
    BY TransactionAssumption
  <2>2. QED
    BY <2>1, Zenon DEF Kinds
<1>2. SUFFICES ASSUME NEW w \in Kinds
               PROVE  w \in [esc : Nat, stmt : BOOLEAN, handle : BOOLEAN]
  OBVIOUS
<1>3. PICK n \in Nat, s, h \in BOOLEAN : w = Work(n, s, h)
  BY <1>1
<1>4. QED
  BY <1>3, WorkType, Zenon

(* Every step keeps the types.                                             *)
LEMMA TypeStep ==
  ASSUME TypeOK, CallInv, Next
  PROVE  TypeOK'
<1> SUFFICES ASSUME NEW t \in Threads,
                    \/ Call(t) \/ Round(t) \/ Cleanup(t) \/ DisposeTransaction(t)
                    \/ \E k \in 1..MaxCalls : DisposeHandle(t, k)
             PROVE  TypeOK'
  BY DEF Next
<1> USE TransactionAssumption
<1>1. CASE Call(t)
  BY <1>1, KindsType DEF Call, Goes, TypeOK, lockVars, handleVars, PC
<1>2. CASE Test(t)
  BY <1>2 DEF Test, Goes, TypeOK, handleVars, PC
<1>3. CASE Set(t)
  BY <1>3 DEF Set, Goes, TypeOK, handleVars, PC
<1>4. CASE Escape(t)
  <2>1. todo' \in [Threads -> [esc : Nat, stmt : BOOLEAN, handle : BOOLEAN]]
    <3>1. Nothing \in [esc : Nat, stmt : BOOLEAN, handle : BOOLEAN]
      BY WorkType DEF Nothing
    <3>2. CASE todo' = [todo EXCEPT ![t] = Nothing]
      BY <3>1, <3>2, Zenon DEF TypeOK
    <3>3. CASE todo' = [todo EXCEPT ![t] = [todo[t] EXCEPT !.esc = @ - 1]]
      <4>1. todo[t].esc - 1 \in Nat
        BY <1>4 DEF Escape, TypeOK
      <4> DEFINE d == todo[t].esc - 1
      <4>2. [todo[t] EXCEPT !.esc = d]
              \in [esc : Nat, stmt : BOOLEAN, handle : BOOLEAN]
        <5>1. todo[t] \in [esc : Nat, stmt : BOOLEAN, handle : BOOLEAN]
          BY DEF TypeOK
        <5> HIDE DEF d
        <5>2. d \in Nat
          BY <4>1 DEF d
        <5> DEFINE w == todo[t]
        <5> HIDE DEF w
        <5>3. w \in [esc : Nat, stmt : BOOLEAN, handle : BOOLEAN]
                => [w EXCEPT !.esc = d]
                     \in [esc : Nat, stmt : BOOLEAN, handle : BOOLEAN]
          BY <5>2
        <5> QED
          BY <5>1, <5>3 DEF w
      <4>3. QED
        BY <3>3, <4>2 DEF TypeOK
    <3>4. QED
      BY <1>4, <3>2, <3>3 DEF Escape, Throws
  <2>2. QED
    BY <1>4, <2>1 DEF Escape, Throws, Goes, After, TypeOK, handleVars, PC
<1>5. CASE Statement(t)
  <2>1. todo' \in [Threads -> [esc : Nat, stmt : BOOLEAN, handle : BOOLEAN]]
    <3>1. Nothing \in [esc : Nat, stmt : BOOLEAN, handle : BOOLEAN]
      BY WorkType DEF Nothing
    <3>2. CASE todo' = [todo EXCEPT ![t] = Nothing]
      BY <3>1, <3>2, Zenon DEF TypeOK
    <3>3. CASE todo' = [todo EXCEPT ![t].stmt = FALSE]
      BY <3>3 DEF TypeOK
    <3>4. QED
      BY <1>5, <3>2, <3>3 DEF Statement, Throws
  <2>2. QED
    BY <1>5, <2>1 DEF Statement, Throws, Goes, TypeOK, handleVars, PC
<1>6. CASE Keep(t)
  <2>1. calls[t] \in 1..MaxCalls
    <3>1. pc[t] = "keep"
      BY <1>6 DEF Keep, Goes
    <3>2. calls[t] >= 1 /\ calls[t] \in 0..MaxCalls
      BY <3>1 DEF TypeOK, CallInv
    <3>3. QED
      BY <3>2, TransactionAssumption
  <2>2. QED
    BY <1>6, <2>1 DEF Keep, Goes, TypeOK, lockVars, PC, HandleState
<1>7. CASE Cleanup(t)
  BY <1>7 DEF Cleanup, FreeAll, Free, TypeOK, lockVars, HandleState
<1>8. CASE DisposeTransaction(t)
  BY <1>8 DEF DisposeTransaction, FreeAll, Free, Goes, TypeOK, lockVars, PC,
              HandleState
<1>9. CASE \E k \in 1..MaxCalls : DisposeHandle(t, k)
  BY <1>9 DEF DisposeHandle, Free, TypeOK, lockVars, HandleState
<1>10. QED
  BY <1>1, <1>2, <1>3, <1>4, <1>5, <1>6, <1>7, <1>8, <1>9 DEF Round

(* Every step keeps those who did not collide alone past the test of Lock, *)
(* and Lock accounted for (CTransaction.cpp:26-30 and its copies).         *)
LEMMA LockStep ==
  ASSUME TypeOK, AloneInv, LockAccounted, Next
  PROVE  AloneInv' /\ LockAccounted'
<1> SUFFICES ASSUME NEW t \in Threads,
                    \/ Call(t) \/ Round(t) \/ Cleanup(t) \/ DisposeTransaction(t)
                    \/ \E k \in 1..MaxCalls : DisposeHandle(t, k)
             PROVE  AloneInv' /\ LockAccounted'
  BY DEF Next
<1> USE DEF TypeOK, AloneInv, LockAccounted, Inside, Goes
<1>1. CASE Call(t)
  BY <1>1 DEF Call, lockVars
<1>2. CASE Test(t)
  BY <1>2 DEF Test
<1>3. CASE Set(t)
  BY <1>3 DEF Set
<1>4. CASE Escape(t)
  BY <1>4 DEF Escape, Throws, After
<1>5. CASE Statement(t)
  BY <1>5 DEF Statement, Throws
<1>6. CASE Keep(t)
  BY <1>6 DEF Keep, lockVars
<1>7. CASE Cleanup(t)
  BY <1>7 DEF Cleanup, lockVars
<1>8. CASE DisposeTransaction(t)
  BY <1>8 DEF DisposeTransaction, lockVars
<1>9. CASE \E k \in 1..MaxCalls : DisposeHandle(t, k)
  BY <1>9 DEF DisposeHandle, lockVars
<1>10. QED
  BY <1>1, <1>2, <1>3, <1>4, <1>5, <1>6, <1>7, <1>8, <1>9 DEF Round

(* Every step keeps the list of a transaction in agreement with its        *)
(* handles (CTransaction.cpp:63, 143, 158, 207, 237-244).                  *)
LEMMA HandleStep ==
  ASSUME TypeOK, CallInv, HandleInv, DisposeFreesAll, FreedOnce, Next
  PROVE  CallInv' /\ HandleInv' /\ DisposeFreesAll' /\ FreedOnce'
<1> SUFFICES ASSUME NEW t \in Threads,
                    \/ Call(t) \/ Round(t) \/ Cleanup(t) \/ DisposeTransaction(t)
                    \/ \E k \in 1..MaxCalls : DisposeHandle(t, k)
             PROVE  CallInv' /\ HandleInv' /\ DisposeFreesAll' /\ FreedOnce'
  BY DEF Next
<1> USE TransactionAssumption
<1> USE DEF TypeOK, CallInv, HandleInv, DisposeFreesAll, FreedOnce, Goes
<1>1. CASE Call(t)
  BY <1>1 DEF Call, handleVars
<1>2. CASE Test(t)
  BY <1>2 DEF Test, handleVars
<1>3. CASE Set(t)
  BY <1>3 DEF Set, handleVars
<1>4. CASE Escape(t)
  BY <1>4 DEF Escape, Throws, After, handleVars
<1>5. CASE Statement(t)
  BY <1>5 DEF Statement, Throws, handleVars
<1>6. CASE Keep(t)
  BY <1>6 DEF Keep
<1>7. CASE Cleanup(t)
  BY <1>7 DEF Cleanup, FreeAll, Free
<1>8. CASE DisposeTransaction(t)
  BY <1>8 DEF DisposeTransaction, FreeAll, Free
<1>9. CASE \E k \in 1..MaxCalls : DisposeHandle(t, k)
  BY <1>9 DEF DisposeHandle, Free
<1>10. QED
  BY <1>1, <1>2, <1>3, <1>4, <1>5, <1>6, <1>7, <1>8, <1>9 DEF Round

(* A fresh process satisfies the invariant.                                *)
LEMMA TransactionInit == Init => TransactionIInv
<1> SUFFICES ASSUME Init
             PROVE  TransactionIInv
  OBVIOUS
<1>1. Nothing \in [esc : Nat, stmt : BOOLEAN, handle : BOOLEAN]
  BY WorkType DEF Nothing
<1>2. todo \in [Threads -> [esc : Nat, stmt : BOOLEAN, handle : BOOLEAN]]
  BY <1>1, Zenon DEF Init
<1>3. TypeOK
  <2>1. calls \in [Threads -> 0..MaxCalls]
    BY TransactionAssumption DEF Init
  <2>2. /\ Lock \in BOOLEAN /\ pc \in [Threads -> PC]
        /\ leaked \subseteq Threads /\ collided \in BOOLEAN
    BY DEF Init, PC
  <2>3. /\ Handles \in [Threads -> SUBSET (1..MaxCalls)]
        /\ disposed \in [Threads -> SUBSET (1..MaxCalls)]
    BY DEF Init
  <2>4. handle \in [Threads -> [1..MaxCalls -> HandleState]]
    BY DEF Init, HandleState
  <2>5. QED
    BY <1>2, <2>1, <2>2, <2>3, <2>4 DEF TypeOK
<1>4. AloneInv /\ LockAccounted /\ CallInv
  BY DEF Init, AloneInv, LockAccounted, CallInv
<1>5. HandleInv /\ DisposeFreesAll /\ FreedOnce
  BY DEF Init, HandleInv, DisposeFreesAll, FreedOnce
<1>6. QED
  BY <1>3, <1>4, <1>5 DEF TransactionIInv

(* The invariant is inductive.                                             *)
THEOREM TransactionInvariance == Spec => []TransactionIInv
<1>1. TransactionIInv /\ [Next]_vars => TransactionIInv'
  <2> SUFFICES ASSUME TransactionIInv, [Next]_vars
               PROVE  TransactionIInv'
    OBVIOUS
  <2>1. CASE Next
    BY <2>1, TypeStep, LockStep, HandleStep DEF TransactionIInv
  <2>2. CASE UNCHANGED vars
    BY <2>2 DEF vars, lockVars, handleVars, TransactionIInv, TypeOK, AloneInv,
                LockAccounted, Inside, CallInv, HandleInv, DisposeFreesAll,
                FreedOnce
  <2>3. QED
    BY <2>1, <2>2
<1>2. QED
  BY TransactionInit, <1>1, PTL DEF Spec

(* While no two threads collided between the test and the store of Lock,   *)
(* one statement runs at a time (CTransaction.cpp:26-30), whoever threw.   *)
THEOREM TransactionAlone == Spec => []StatementAlone
<1>1. TransactionIInv => StatementAlone
  BY DEF TransactionIInv, AloneInv, StatementAlone, Inside
<1>2. QED
  BY <1>1, TransactionInvariance, PTL

(* Lock is left set with nobody inside only by a driver that threw         *)
(* (CTransaction.cpp:141, 251).                                            *)
THEOREM TransactionLock == Spec => []LockAccounted
<1>1. TransactionIInv => LockAccounted
  BY DEF TransactionIInv
<1>2. QED
  BY <1>1, TransactionInvariance, PTL

(* A dispose()d transaction leaves no handle, and deletes none twice that  *)
(* its user did not delete (CTransaction.cpp:17-21, 237-244).              *)
THEOREM TransactionHandles == Spec => [](DisposeFreesAll /\ FreedOnce)
<1>1. TransactionIInv => DisposeFreesAll /\ FreedOnce
  BY DEF TransactionIInv
<1>2. QED
  BY <1>1, TransactionInvariance, PTL

(* A Lock left set by an exception, with nobody past the test, stays set   *)
(* and nobody gets past it again (CTransaction.cpp:248-252).               *)
THEOREM TransactionDead == Spec => DeadForEver
<1>1. TransactionIInv /\ [Next]_vars => [Dead => Dead']_vars
  <2> SUFFICES ASSUME TypeOK, Next, Dead
               PROVE  Dead'
    BY DEF TransactionIInv
  <2> USE DEF TypeOK, Dead, Goes
  <2> PICK t \in Threads :
        \/ Call(t) \/ Round(t) \/ Cleanup(t) \/ DisposeTransaction(t)
        \/ \E k \in 1..MaxCalls : DisposeHandle(t, k)
    BY DEF Next
  <2>1. CASE Call(t)
    BY <2>1 DEF Call, lockVars
  <2>2. CASE Round(t)
    BY <2>2 DEF Round, Test, Set, Escape, Throws, Statement, Keep,
                lockVars
  <2>3. CASE Cleanup(t) \/ DisposeTransaction(t)
    BY <2>3 DEF Cleanup, DisposeTransaction, lockVars
  <2>4. CASE \E k \in 1..MaxCalls : DisposeHandle(t, k)
    BY <2>4 DEF DisposeHandle, lockVars
  <2>5. QED
    BY <2>1, <2>2, <2>3, <2>4
<1>2. QED
  BY <1>1, TransactionInvariance, PTL DEF Spec, DeadForEver
=============================================================================
