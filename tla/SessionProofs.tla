---------------------------- MODULE SessionProofs ----------------------------
(***************************************************************************)
(* Theorems about Session for any node threads, any numbers of calls and   *)
(* sessions, and any counter.                                              *)
(***************************************************************************)
EXTENDS SessionInv, RawVectorProofs, SequenceTheorems

(* The steps of a thread. *)
Acts(t) ==
  \/ Enter(t) \/ Stamp(t) \/ Load(t) \/ Store(t) \/ Push(t) \/ PushDone(t)
  \/ Ask(t) \/ ScanOn(t) \/ ScanEnds(t) \/ ScanRunsOff(t)
  \/ ScanNext(t) \/ ScanMatch(t) \/ Return(t)
  \/ Erase(t) \/ EraseDone(t)
  \/ \E n \in Names, v \in Values : SetStringValue(t, n, v)
  \/ Write(t) \/ Put(t) \/ PutDone(t)

LEMMA Steps ==
  ASSUME [Next]_vars
  PROVE  (\E t \in Threads : Acts(t)) \/ UNCHANGED vars
BY Zenon DEF Next, Acts

(* No step changes what the other threads are at.                          *)
LEMMA Others ==
  ASSUME ShapeInv, NEW t \in Threads, Acts(t)
  PROVE  /\ DOMAIN pc' = Threads /\ DOMAIN my' = Threads
         /\ \A u \in Threads \ {t} :
              pc'[u] = pc[u] /\ my'[u] = my[u] /\ held'[u] = held[u]
<1> USE DEF ShapeInv, Goes, Keeps, Returns
<1>1. CASE Enter(t) \/ Stamp(t) \/ Load(t) \/ Store(t) \/ Push(t)
  BY <1>1 DEF Enter, Stamp, Load, Store, Push, Calls, vectorVars, itemVars
<1>2. CASE PushDone(t) \/ Ask(t)
  BY <1>2 DEF PushDone, Ask, Calls, itemVars
<1>3. CASE ScanOn(t) \/ ScanEnds(t) \/ ScanRunsOff(t) \/ ScanNext(t) \/ ScanMatch(t) \/ Return(t)
  BY <1>3 DEF ScanOn, ScanEnds, ScanRunsOff, ScanNext, ScanMatch, Return, Scans
<1>4. CASE Erase(t) \/ EraseDone(t)
  BY <1>4 DEF Erase, EraseDone, Erases
<1>5. CASE \E n \in Names, v \in Values : SetStringValue(t, n, v)
  BY <1>5 DEF SetStringValue, Sets, Takes, Calls
<1>6. CASE Write(t) \/ Put(t) \/ PutDone(t)
  BY <1>6 DEF Write, Put, PutDone
<1>7. QED
  BY <1>1, <1>2, <1>3, <1>4, <1>5, <1>6 DEF Acts

(* What the shape of the state says of each of its parts.                  *)
LEMMA Bounds ==
  /\ 0 \in 0..MaxSessions /\ MaxCalls \in Nat /\ MaxSessions \in Nat /\ MaxTime \in Nat
  /\ Wrap \in Nat /\ Wrap # 0 /\ Empty \notin Values /\ IsFiniteSet(Threads)
<1>1. MaxSessions \in Nat
  BY SessionAssumption
<1>2. 0 \in 0..MaxSessions
  BY <1>1
<1>3. QED
  BY <1>2, SessionAssumption

LEMMA Shape ==
  ASSUME ShapeInv
  PROVE  /\ ids \in Seq(Seq(Nat)) /\ Len(ids) \in 0..MaxSessions
         /\ Len(ids) \in Nat /\ DOMAIN ids = 1..Len(ids)
         /\ \A s \in DOMAIN ids : ids[s] \in Seq(Nat) /\ s \in 1..MaxSessions
         /\ Sessions \in [at : [1..MaxSessions -> 0..MaxSessions], fin : Nat]
         /\ Sessions.at \in [1..MaxSessions -> 0..MaxSessions]
         /\ Sessions.fin \in Nat /\ Incremental \in Nat /\ calls \in Nat
         /\ time \in Nat /\ time \in 0..MaxTime /\ calls \in 0..MaxCalls
         /\ DOMAIN pc = Threads /\ DOMAIN my = Threads /\ DOMAIN held = Threads
         /\ \A t \in Threads :
              /\ pc[t] \in PC /\ my[t] \in Locals /\ held[t] \in 0..MaxSessions
              /\ my[t].ses \in 0..MaxSessions /\ my[t].got \in 0..MaxSessions
              /\ my[t].at \in Nat /\ my[t].fin \in Nat /\ my[t].obj \in Nat
<1> USE Bounds DEF ShapeInv
<1>1. /\ ids \in Seq(Seq(Nat)) /\ Len(ids) \in Nat /\ DOMAIN ids = 1..Len(ids)
      /\ Len(ids) <= MaxSessions
  OBVIOUS
<1>2. \A s \in DOMAIN ids : ids[s] \in Seq(Nat) /\ s \in 1..MaxSessions
  BY <1>1
<1>3. /\ Sessions \in [at : [1..MaxSessions -> 0..MaxSessions], fin : Nat]
      /\ Sessions.at \in [1..MaxSessions -> 0..MaxSessions]
      /\ Sessions.fin \in Nat
  OBVIOUS
<1>4. /\ Incremental \in Nat /\ calls \in Nat /\ time \in Nat
      /\ time \in 0..MaxTime /\ calls \in 0..MaxCalls
  OBVIOUS
<1>5. DOMAIN pc = Threads /\ DOMAIN my = Threads /\ DOMAIN held = Threads
  OBVIOUS
<1>6. \A t \in Threads : pc[t] \in PC /\ my[t] \in Locals /\ held[t] \in 0..MaxSessions
  OBVIOUS
<1>7. \A t \in Threads :
        /\ my[t].ses \in 0..MaxSessions /\ my[t].got \in 0..MaxSessions
        /\ my[t].at \in Nat /\ my[t].fin \in Nat /\ my[t].obj \in Nat
  BY <1>6 DEF Locals
<1>8. QED
  BY <1>1, <1>2, <1>3, <1>4, <1>5, <1>6, <1>7

(* The locals between calls. *)
LEMMA Blank ==
  /\ NoLocals \in Locals /\ NoLocals.ses = 0 /\ NoLocals.got = 0
  /\ \A s \in 0..MaxSessions : [NoLocals EXCEPT !.ses = s] \in Locals
  /\ \A s, g \in 0..MaxSessions :
       [NoLocals EXCEPT !.ses = s, !.got = g] \in Locals
  /\ \A s \in 0..MaxSessions, d \in BOOLEAN :
       [NoLocals EXCEPT !.ses = s, !.at = 1, !.destroy = d] \in Locals
  /\ \A o \in Nat, n \in Names, v \in Values :
       [NoLocals EXCEPT !.obj = o, !.var = n, !.val = v] \in Locals
<1>1. 0 \in 0..MaxSessions /\ 0 \in Nat
  BY Bounds
<1>2. QED
  BY <1>1 DEF NoLocals, Locals

(* What each step does to the thread that takes it, and to what it shares. *)
LEMMA EnterDoes ==
  ASSUME ShapeInv, NEW t \in Threads, Enter(t)
  PROVE  /\ pc[t] \in Free /\ pc'[t] = "stamp" /\ my'[t].ses = Len(ids) + 1
         /\ my'[t].got = 0 /\ my'[t] \in Locals
         /\ Len(ids) + 1 \in 1..MaxSessions /\ DOMAIN ids' = DOMAIN ids \cup {Len(ids) + 1}
         /\ Len(ids)' = Len(ids) + 1
         /\ \A s \in DOMAIN ids : ids'[s] = ids[s]
         /\ ids'[Len(ids) + 1] = <<time'>> /\ time' \in 0..MaxTime
         /\ Incremental' = IF Incremental >= Wrap THEN 0 ELSE Incremental
         /\ calls' = calls + 1 /\ calls' \in 0..MaxCalls
         /\ UNCHANGED <<vectorVars, itemVars, held>>
<1> USE Shape, Bounds
<1>1. pc[t] \in Free /\ pc'[t] = "stamp"
  BY DEF Enter, Calls, Goes
<1>2. /\ ids' = Append(ids, <<time'>>) /\ time' \in time..MaxTime
      /\ Len(ids) + 1 <= MaxSessions
  BY DEF Enter
<1>3. time' \in 0..MaxTime /\ time' \in Nat
  BY <1>2
<1>4. <<time'>> \in Seq(Nat)
  BY <1>3
<1>5. /\ DOMAIN ids' = DOMAIN ids \cup {Len(ids) + 1}
      /\ Len(ids)' = Len(ids) + 1
      /\ \A s \in DOMAIN ids : ids'[s] = ids[s]
      /\ ids'[Len(ids) + 1] = <<time'>>
  <2>1. /\ Len(ids') = Len(ids) + 1 /\ DOMAIN ids' = 1..(Len(ids) + 1)
        /\ \A s \in 1..Len(ids) : ids'[s] = ids[s]
        /\ ids'[Len(ids) + 1] = <<time'>>
    BY <1>2, <1>4
  <2>2. QED
    BY <2>1
<1>6. Len(ids) + 1 \in 1..MaxSessions
  BY <1>2
<1>7. my'[t] = [NoLocals EXCEPT !.ses = Len(ids) + 1]
  BY DEF Enter, Keeps
<1>8. my'[t].ses = Len(ids) + 1 /\ my'[t].got = 0
  BY <1>7 DEF NoLocals
<1>9. my'[t] \in Locals
  <2>1. Len(ids) + 1 \in 0..MaxSessions
    BY <1>6
  <2>2. QED
    BY <1>7, <2>1, Blank, Zenon
<1>10. calls' = calls + 1 /\ calls' \in 0..MaxCalls
  BY DEF Enter, Calls
<1>11. Incremental' = IF Incremental >= Wrap THEN 0 ELSE Incremental
  BY DEF Enter
<1>12. UNCHANGED <<vectorVars, itemVars, held>>
  BY DEF Enter
<1>13. QED
  BY <1>1, <1>3, <1>5, <1>6, <1>8, <1>9, <1>10, <1>11, <1>12

LEMMA CtorDoes ==
  ASSUME ShapeInv, NEW t \in Threads
  PROVE  /\ Stamp(t) =>
              /\ pc[t] = "stamp" /\ pc'[t] = "load"
              /\ ids' = [ids EXCEPT ![my[t].ses] = Append(@, Incremental)]
              /\ UNCHANGED <<time, Incremental, clash, vectorVars, itemVars, my,
                             held, calls>>
         /\ Load(t) =>
              /\ pc[t] = "load" /\ pc'[t] = "store"
              /\ my'[t].ses = my[t].ses /\ my'[t].got = my[t].got
              /\ my'[t].at = Incremental /\ my'[t] \in Locals
              /\ UNCHANGED <<time, counterVars, vectorVars, itemVars, held, calls>>
         /\ Store(t) =>
              /\ pc[t] = "store" /\ pc'[t] = "push" /\ Incremental' = my[t].at + 1
              /\ UNCHANGED <<time, ids, clash, vectorVars, itemVars, my, held, calls>>
         /\ Push(t) =>
              /\ pc[t] = "push" /\ pc'[t] = "pushing"
              /\ my'[t].ses = my[t].ses /\ my'[t].got = my[t].got
              /\ my'[t].fin = Sessions.fin /\ my'[t] \in Locals
              /\ UNCHANGED <<time, counterVars, vectorVars, itemVars, held, calls>>
         /\ PushDone(t) =>
              /\ pc[t] = "pushing" /\ pc'[t] = "idle" /\ my'[t] = NoLocals
              /\ my'[t] \in Locals /\ held'[t] = my[t].ses
              /\ my'[t].ses = 0 /\ my'[t].got = 0
              /\ Sessions' = PutAt(Sessions, my[t].fin, my[t].ses)
              /\ live' = live \cup {my[t].ses} /\ torn' = (torn \/ Tears(t))
              /\ UNCHANGED <<time, counterVars, shifted, itemVars, calls>>
<1> USE Shape DEF Goes, Keeps, Returns
<1>1. my[t] \in Locals /\ Sessions.fin \in Nat /\ Incremental \in Nat
  OBVIOUS
<1>2. ASSUME Stamp(t)
      PROVE  /\ pc[t] = "stamp" /\ pc'[t] = "load"
             /\ ids' = [ids EXCEPT ![my[t].ses] = Append(@, Incremental)]
             /\ UNCHANGED <<time, Incremental, clash, vectorVars, itemVars, my,
                            held, calls>>
  BY <1>2 DEF Stamp
<1>3. ASSUME Load(t)
      PROVE  /\ pc[t] = "load" /\ pc'[t] = "store"
             /\ my'[t].ses = my[t].ses /\ my'[t].got = my[t].got
             /\ my'[t].at = Incremental /\ my'[t] \in Locals
             /\ UNCHANGED <<time, counterVars, vectorVars, itemVars, held, calls>>
  BY <1>1, <1>3 DEF Load, Locals
<1>4. ASSUME Store(t)
      PROVE  /\ pc[t] = "store" /\ pc'[t] = "push" /\ Incremental' = my[t].at + 1
             /\ UNCHANGED <<time, ids, clash, vectorVars, itemVars, my, held, calls>>
  BY <1>4 DEF Store
<1>5. ASSUME Push(t)
      PROVE  /\ pc[t] = "push" /\ pc'[t] = "pushing"
             /\ my'[t].ses = my[t].ses /\ my'[t].got = my[t].got
             /\ my'[t].fin = Sessions.fin /\ my'[t] \in Locals
             /\ UNCHANGED <<time, counterVars, vectorVars, itemVars, held, calls>>
  BY <1>1, <1>5 DEF Push, Locals
<1>6. ASSUME PushDone(t)
      PROVE  /\ pc[t] = "pushing" /\ pc'[t] = "idle" /\ my'[t] = NoLocals
             /\ my'[t] \in Locals /\ held'[t] = my[t].ses
             /\ my'[t].ses = 0 /\ my'[t].got = 0
             /\ Sessions' = PutAt(Sessions, my[t].fin, my[t].ses)
             /\ live' = live \cup {my[t].ses} /\ torn' = (torn \/ Tears(t))
             /\ UNCHANGED <<time, counterVars, shifted, itemVars, calls>>
  <2>1. pc[t] = "pushing" /\ pc'[t] = "idle" /\ my'[t] = NoLocals
    BY <1>6 DEF PushDone
  <2>2. NoLocals \in Locals /\ NoLocals.ses = 0 /\ NoLocals.got = 0
    BY Blank
  <2>3. held'[t] = my[t].ses
    BY <1>6 DEF PushDone
  <2>4. QED
    BY <1>6, <2>1, <2>2, <2>3, Zenon DEF PushDone
<1>7. QED
  BY <1>2, <1>3, <1>4, <1>5, <1>6, Zenon

(* The sessions told and those past their constructor are some of those    *)
(* made, so there are no more of them.                                     *)
LEMMA ToldSize ==
  ASSUME ShapeInv
  PROVE  /\ IsFiniteSet(Told) /\ IsFiniteSet(Passed) /\ IsFiniteSet(DOMAIN ids)
         /\ Cardinality(Told) \in Nat /\ Cardinality(Passed) \in Nat
         /\ Cardinality(Told) <= Len(ids) /\ Cardinality(Passed) <= Len(ids)
         /\ Cardinality(Told) <= MaxSessions /\ Cardinality(Passed) <= MaxSessions
         /\ Cardinality(DOMAIN ids) = Len(ids)
<1>1. /\ Len(ids) \in Nat /\ DOMAIN ids = 1..Len(ids) /\ MaxSessions \in Nat
      /\ Len(ids) <= MaxSessions
  BY Shape, Bounds
<1>2. IsFiniteSet(DOMAIN ids) /\ Cardinality(DOMAIN ids) = Len(ids)
  <2>1. IsFiniteSet(1..Len(ids)) /\ Cardinality(1..Len(ids)) = Len(ids)
    <3>1. 1 \in Int /\ Len(ids) \in Int
      BY <1>1
    <3>2. /\ IsFiniteSet(1..Len(ids))
          /\ Cardinality(1..Len(ids)) = IF 1 > Len(ids) THEN 0 ELSE Len(ids) - 1 + 1
      BY <3>1, FS_Interval
    <3>3. QED
      BY <1>1, <3>2
  <2>2. QED
    BY <1>1, <2>1
<1>3. Told \in SUBSET DOMAIN ids /\ Passed \in SUBSET DOMAIN ids
  BY DEF Told, Passed
<1>4. /\ IsFiniteSet(Told) /\ Cardinality(Told) <= Cardinality(DOMAIN ids)
      /\ IsFiniteSet(Passed) /\ Cardinality(Passed) <= Cardinality(DOMAIN ids)
  BY <1>2, <1>3, FS_Subset
<1>5. Cardinality(Told) \in Nat /\ Cardinality(Passed) \in Nat
  BY <1>4, FS_CardinalityType
<1>6. QED
  BY <1>1, <1>2, <1>4, <1>5

(* An iterator that has not passed end() is at a slot of the array.        *)
LEMMA IteratorAt ==
  ASSUME ShapeInv, SlotInv, NEW t \in Threads,
         pc[t] \in Scanning
  PROVE  /\ my[t].at >= 1 /\ Sessions.fin <= MaxSessions
         /\ pc[t] \in {"look", "return"} =>
              /\ my[t].at \in 1..MaxSessions /\ Sessions.at[my[t].at] # 0
              /\ Sessions.at[my[t].at] \in Told
              /\ Sessions.at[my[t].at] \in 0..MaxSessions
         /\ my[t].at <= Sessions.fin =>
              /\ my[t].at \in 1..MaxSessions /\ Sessions.at[my[t].at] # 0
              /\ Sessions.at[my[t].at] \in Told
              /\ Sessions.at[my[t].at] \in 0..MaxSessions
         /\ pc[t] = "erasing" => my[t].at <= my[t].fin /\ my[t].fin \in 1..MaxSessions
<1>1. /\ my[t].at >= 1 /\ Sessions.fin <= Cardinality(Told)
      /\ \A k \in 1..MaxSessions : k <= Sessions.fin => Sessions.at[k] # 0
      /\ \A k \in 1..MaxSessions : Sessions.at[k] # 0 => Sessions.at[k] \in Told
      /\ pc[t] = "erasing" => /\ my[t].at <= my[t].fin
                              /\ my[t].fin <= Cardinality(Told)
      /\ pc[t] \in {"look", "return"} =>
           my[t].at <= MaxSessions /\ Sessions.at[my[t].at] # 0
  <2>1. my[t].at \in Nat
    BY Shape
  <2>2. QED
    BY <2>1 DEF SlotInv
<1>2. /\ Sessions.at \in [1..MaxSessions -> 0..MaxSessions] /\ MaxSessions \in Nat
      /\ Cardinality(Told) \in Nat /\ Cardinality(Told) <= MaxSessions
      /\ Sessions.fin \in Nat /\ my[t].at \in Nat /\ my[t].fin \in Nat
  BY Shape, Bounds, ToldSize
<1>3. /\ Sessions.fin <= MaxSessions
      /\ my[t].at <= Sessions.fin => my[t].at \in 1..MaxSessions
      /\ pc[t] = "erasing" => my[t].fin \in 1..MaxSessions
      /\ pc[t] \in {"look", "return"} => my[t].at \in 1..MaxSessions
  BY <1>1, <1>2
<1>4. QED
  BY <1>1, <1>2, <1>3

LEMMA ScanDoes ==
  ASSUME ShapeInv, SlotInv, NEW t \in Threads
  PROVE  /\ Ask(t) =>
              /\ pc[t] \in Free /\ pc'[t] = "scan" /\ my'[t].ses \in Told
              /\ my'[t].got = 0 /\ my'[t].at = 1 /\ my'[t] \in Locals
              /\ calls' = calls + 1 /\ calls' \in 0..MaxCalls
              /\ shifted' = shifted \ {t}
              /\ UNCHANGED <<time, counterVars, Sessions, live, torn, itemVars, held>>
         /\ ScanOn(t) =>
              /\ pc[t] = "scan" /\ pc'[t] = "look" /\ my[t].at <= Sessions.fin
              /\ UNCHANGED <<time, counterVars, vectorVars, itemVars, calls, held, my>>
         /\ ScanEnds(t) =>
              /\ pc[t] = "scan" /\ pc'[t] = "none"
              /\ my[t].at = Sessions.fin + 1
              /\ my'[t].ses = my[t].ses /\ my'[t].got = 0 /\ my'[t] \in Locals
              /\ UNCHANGED <<time, counterVars, vectorVars, itemVars, calls, held>>
         /\ ScanRunsOff(t) =>
              /\ pc[t] = "scan" /\ pc'[t] = "lost"
              /\ my[t].at > Sessions.fin + 1
              /\ UNCHANGED <<time, counterVars, vectorVars, itemVars, calls, held, my>>
         /\ ScanNext(t) =>
              /\ pc[t] = "look" /\ pc'[t] = "scan"
              /\ ids[Sessions.at[my[t].at]] # ids[my[t].ses]
              /\ my'[t].ses = my[t].ses /\ my'[t].got = my[t].got
              /\ my'[t].at = my[t].at + 1 /\ my'[t] \in Locals
              /\ UNCHANGED <<time, counterVars, vectorVars, itemVars, calls, held>>
         /\ ScanMatch(t) =>
              /\ pc[t] = "look" /\ pc'[t] \in {"erase", "return"}
              /\ ids[Sessions.at[my[t].at]] = ids[my[t].ses]
              /\ my'[t].ses = my[t].ses /\ my'[t].at = my[t].at
              /\ pc'[t] = "erase" => my'[t].got = Sessions.at[my[t].at]
              /\ pc'[t] = "return" => my'[t].got = my[t].got
              /\ my'[t] \in Locals
              /\ UNCHANGED <<time, counterVars, vectorVars, itemVars, calls, held>>
         /\ Return(t) =>
              /\ pc[t] = "return" /\ pc'[t] = "found"
              /\ my'[t].ses = my[t].ses /\ my'[t].got = Sessions.at[my[t].at]
              /\ held'[t] = Sessions.at[my[t].at] /\ my'[t] \in Locals
              /\ UNCHANGED <<time, counterVars, vectorVars, itemVars, calls>>
<1> USE Shape DEF Goes, Keeps
<1>1. ASSUME Ask(t)
      PROVE  /\ pc[t] \in Free /\ pc'[t] = "scan" /\ my'[t].ses \in Told
             /\ my'[t].got = 0 /\ my'[t].at = 1 /\ my'[t] \in Locals
             /\ calls' = calls + 1 /\ calls' \in 0..MaxCalls
             /\ shifted' = shifted \ {t}
             /\ UNCHANGED <<time, counterVars, Sessions, live, torn, itemVars, held>>
  <2>1. PICK s \in Told, d \in BOOLEAN :
          my'[t] = [NoLocals EXCEPT !.ses = s, !.at = 1, !.destroy = d]
    BY <1>1 DEF Ask
  <2>2. s \in 0..MaxSessions
    BY Bounds DEF Told
  <2>3. my'[t] \in Locals
    <3> HIDE Shape
    <3>1. QED
      BY <2>1, <2>2, Blank, Zenon
  <2>4. my'[t].ses \in Told /\ my'[t].got = 0 /\ my'[t].at = 1
    BY <2>1 DEF NoLocals
  <2>5. calls' = calls + 1 /\ calls' \in 0..MaxCalls
    BY <1>1, Bounds DEF Ask, Calls
  <2>6. QED
    BY <1>1, <2>3, <2>4, <2>5 DEF Ask, Calls
<1>2. ASSUME ScanEnds(t)
      PROVE  /\ pc[t] = "scan" /\ pc'[t] = "none"
             /\ my[t].at = Sessions.fin + 1
             /\ my'[t].ses = my[t].ses /\ my'[t].got = 0 /\ my'[t] \in Locals
             /\ UNCHANGED <<time, counterVars, vectorVars, itemVars, calls, held>>
  <2>1. my'[t] = [NoLocals EXCEPT !.ses = my[t].ses, !.got = 0]
    BY <1>2 DEF ScanEnds, Returns
  <2>2. my'[t] \in Locals
    <3>1. my[t].ses \in 0..MaxSessions
      OBVIOUS
    <3> HIDE Shape
    <3>2. QED
      BY <2>1, <3>1, Blank, Bounds, Zenon
  <2>3. my'[t].ses = my[t].ses /\ my'[t].got = 0
    BY <2>1 DEF NoLocals
  <2>4. QED
    BY <1>2, <2>2, <2>3 DEF ScanEnds, Scans, Returns
<1>3. ASSUME ScanRunsOff(t)
      PROVE  /\ pc[t] = "scan" /\ pc'[t] = "lost"
             /\ my[t].at > Sessions.fin + 1
             /\ UNCHANGED <<time, counterVars, vectorVars, itemVars, calls, held, my>>
  BY <1>3 DEF ScanRunsOff, Scans
<1>7. ASSUME ScanOn(t)
      PROVE  /\ pc[t] = "scan" /\ pc'[t] = "look" /\ my[t].at <= Sessions.fin
             /\ UNCHANGED <<time, counterVars, vectorVars, itemVars, calls, held, my>>
  BY <1>7 DEF ScanOn, Scans
<1>4. ASSUME ScanNext(t)
      PROVE  /\ pc[t] = "look" /\ pc'[t] = "scan"
             /\ ids[Sessions.at[my[t].at]] # ids[my[t].ses]
             /\ my'[t].ses = my[t].ses /\ my'[t].got = my[t].got
             /\ my'[t].at = my[t].at + 1 /\ my'[t] \in Locals
             /\ UNCHANGED <<time, counterVars, vectorVars, itemVars, calls, held>>
  <2>1. my'[t] = [my[t] EXCEPT !.at = my[t].at + 1]
    BY <1>4 DEF ScanNext
  <2>2. /\ my'[t].ses = my[t].ses /\ my'[t].got = my[t].got
        /\ my'[t].at = my[t].at + 1 /\ my'[t] \in Locals
    <3>1. my[t] \in Locals /\ my[t].at + 1 \in Nat
      OBVIOUS
    <3> HIDE Shape
    <3>2. QED
      BY <2>1, <3>1 DEF Locals
  <2>3. QED
    BY <1>4, <2>1, <2>2 DEF ScanNext, Scans, SameId
<1>5. ASSUME ScanMatch(t)
      PROVE  /\ pc[t] = "look" /\ pc'[t] \in {"erase", "return"}
             /\ ids[Sessions.at[my[t].at]] = ids[my[t].ses]
             /\ my'[t].ses = my[t].ses /\ my'[t].at = my[t].at
             /\ pc'[t] = "erase" => my'[t].got = Sessions.at[my[t].at]
             /\ pc'[t] = "return" => my'[t].got = my[t].got
             /\ my'[t] \in Locals
             /\ UNCHANGED <<time, counterVars, vectorVars, itemVars, calls, held>>
  <2> DEFINE s == Sessions.at[my[t].at]
  <2>1. /\ pc[t] = "look" /\ ids[s] = ids[my[t].ses]
        /\ UNCHANGED <<time, counterVars, vectorVars, itemVars, calls, held>>
    BY <1>5 DEF ScanMatch, Scans, SameId
  <2>2. s \in 0..MaxSessions
    BY <2>1, IteratorAt DEF Scanning
  <2>3. \/ pc'[t] = "erase" /\ my'[t] = [my[t] EXCEPT !.got = s]
        \/ pc'[t] = "return" /\ my'[t] = my[t]
    BY <1>5 DEF ScanMatch
  <2> HIDE DEF s
  <2>4. ASSUME my'[t] = [my[t] EXCEPT !.got = s]
        PROVE  /\ my'[t].ses = my[t].ses /\ my'[t].got = s /\ my'[t].at = my[t].at
               /\ my'[t] \in Locals
    BY <2>2, <2>4 DEF Locals
  <2>5. QED
    BY <2>1, <2>3, <2>4 DEF s
<1>6. ASSUME Return(t)
      PROVE  /\ pc[t] = "return" /\ pc'[t] = "found"
             /\ my'[t].ses = my[t].ses /\ my'[t].got = Sessions.at[my[t].at]
             /\ held'[t] = Sessions.at[my[t].at] /\ my'[t] \in Locals
             /\ UNCHANGED <<time, counterVars, vectorVars, itemVars, calls>>
  <2> DEFINE s == Sessions.at[my[t].at]
  <2>1. /\ pc[t] = "return" /\ pc'[t] = "found" /\ held'[t] = s
        /\ UNCHANGED <<time, counterVars, vectorVars, itemVars, calls>>
    BY <1>6 DEF Return, Returns, Scans
  <2>6. my'[t] = [NoLocals EXCEPT !.ses = my[t].ses, !.got = s]
    BY <1>6 DEF Return, Returns
  <2>2. s \in 0..MaxSessions /\ my[t].ses \in 0..MaxSessions
    BY <2>1, IteratorAt DEF Scanning
  <2> HIDE DEF s
  <2>3. my'[t] \in Locals
    <3> HIDE Shape
    <3>1. QED
      BY <2>2, <2>6, Blank, Zenon
  <2>4. my'[t].ses = my[t].ses /\ my'[t].got = s
    BY <2>6 DEF NoLocals
  <2>5. QED
    BY <2>1, <2>3, <2>4 DEF s
<1>8. QED
  BY <1>1, <1>2, <1>3, <1>4, <1>5, <1>6, <1>7, Zenon

LEMMA EraseDoes ==
  ASSUME ShapeInv, SlotInv, NEW t \in Threads
  PROVE  /\ Erase(t) =>
              /\ pc[t] = "erase"
              /\ pc'[t] = IF my[t].at <= Sessions.fin THEN "erasing" ELSE "lost"
              /\ my'[t].ses = my[t].ses /\ my'[t].got = my[t].got
              /\ my'[t].at = my[t].at /\ my'[t].fin = Sessions.fin
              /\ my'[t] \in Locals
              /\ UNCHANGED <<time, counterVars, vectorVars, itemVars, held, calls>>
         /\ EraseDone(t) =>
              /\ pc[t] = "erasing" /\ pc'[t] = "found"
              /\ my'[t].ses = my[t].ses /\ my'[t].got = my[t].got
              /\ my'[t] \in Locals
              /\ Sessions' = CutAt(Sessions, my[t].at, my[t].fin)
              /\ live' = live \ {my[t].got}
              /\ torn' = (torn \/ Tears(t) \/ t \in shifted)
              /\ shifted' = shifted \cup {u \in Threads \ {t} : LeftBehind(u, my[t].at)}
              /\ UNCHANGED <<time, counterVars, itemVars, held, calls>>
<1> USE Shape DEF Goes, Keeps
<1>1. ASSUME Erase(t)
      PROVE  /\ pc[t] = "erase"
             /\ pc'[t] = IF my[t].at <= Sessions.fin THEN "erasing" ELSE "lost"
             /\ my'[t].ses = my[t].ses /\ my'[t].got = my[t].got
             /\ my'[t].at = my[t].at /\ my'[t].fin = Sessions.fin
             /\ my'[t] \in Locals
             /\ UNCHANGED <<time, counterVars, vectorVars, itemVars, held, calls>>
  <2>1. my'[t] = [my[t] EXCEPT !.fin = Sessions.fin]
    BY <1>1 DEF Erase
  <2>2. /\ my'[t].ses = my[t].ses /\ my'[t].got = my[t].got
        /\ my'[t].at = my[t].at /\ my'[t].fin = Sessions.fin
        /\ my'[t] \in Locals
    BY <2>1 DEF Locals
  <2>3. QED
    BY <1>1, <2>2 DEF Erase
<1>2. ASSUME EraseDone(t)
      PROVE  /\ pc[t] = "erasing" /\ pc'[t] = "found"
             /\ my'[t].ses = my[t].ses /\ my'[t].got = my[t].got
             /\ my'[t] \in Locals
             /\ Sessions' = CutAt(Sessions, my[t].at, my[t].fin)
             /\ live' = live \ {my[t].got}
             /\ torn' = (torn \/ Tears(t) \/ t \in shifted)
             /\ shifted' = shifted \cup {u \in Threads \ {t} : LeftBehind(u, my[t].at)}
             /\ UNCHANGED <<time, counterVars, itemVars, held, calls>>
  <2>1. my'[t] = [NoLocals EXCEPT !.ses = my[t].ses, !.got = my[t].got]
    BY <1>2 DEF EraseDone, Erases, Returns
  <2>2. my'[t] \in Locals
    <3>1. my[t].ses \in 0..MaxSessions /\ my[t].got \in 0..MaxSessions
      OBVIOUS
    <3> HIDE Shape
    <3>2. QED
      BY <2>1, <3>1, Blank, Zenon
  <2>3. my'[t].ses = my[t].ses /\ my'[t].got = my[t].got
    BY <2>1 DEF NoLocals
  <2>4. pc[t] = "erasing" /\ pc'[t] = "found"
    BY <1>2 DEF EraseDone, Erases, Returns
  <2>5. QED
    BY <1>2, <2>2, <2>3, <2>4, Zenon DEF EraseDone, Erases
<1>3. QED
  BY <1>1, <1>2, Zenon
(* The variables of a session have the types of their shape.               *)
LEMMA ItemShape ==
  ASSUME ShapeInv, NEW s \in 1..MaxSessions
  PROVE  /\ Items[s] \in [at : [1..MaxCalls -> Nat], fin : Nat]
         /\ Items[s].at \in [1..MaxCalls -> Nat] /\ Items[s].fin \in Nat
         /\ objects[s] \in Seq(Object) /\ Len(objects[s]) \in Nat
         /\ DOMAIN objects[s] = 1..Len(objects[s])
         /\ \A k \in DOMAIN objects[s] :
              /\ objects[s][k] \in Object /\ objects[s][k].Var \in Names \cup {Empty}
              /\ objects[s][k].Val \in Values \cup {Empty}
         /\ last[s] \in [Names -> Values \cup {Empty}]
         /\ DOMAIN objects = 1..MaxSessions /\ DOMAIN Items = 1..MaxSessions
         /\ DOMAIN last = 1..MaxSessions
<1>1. /\ Items[s] \in [at : [1..MaxCalls -> Nat], fin : Nat]
      /\ objects[s] \in Seq(Object) /\ DOMAIN objects = 1..MaxSessions
      /\ last[s] \in [Names -> Values \cup {Empty}]
      /\ DOMAIN Items = 1..MaxSessions /\ DOMAIN last = 1..MaxSessions
  BY DEF ShapeInv
<1>2. /\ Len(objects[s]) \in Nat /\ DOMAIN objects[s] = 1..Len(objects[s])
      /\ \A k \in DOMAIN objects[s] : objects[s][k] \in Object
  BY <1>1
<1>3. \A k \in DOMAIN objects[s] :
        /\ objects[s][k].Var \in Names \cup {Empty}
        /\ objects[s][k].Val \in Values \cup {Empty}
  BY <1>2 DEF Object
<1>4. QED
  BY <1>1, <1>2, <1>3

(* A session has room for the items of every call there is.                *)
LEMMA ItemsFit ==
  ASSUME ShapeInv, ItemsInv
  PROVE  /\ IsFiniteSet(Busy) /\ Cardinality(Busy) \in Nat
         /\ \A s \in 1..MaxSessions :
              /\ Items[s].fin \in 0..MaxCalls
              /\ \A k \in 1..Items[s].fin :
                   k \in 1..MaxCalls /\ Items[s].at[k] \in DOMAIN objects[s]
<1>1. IsFiniteSet(Busy) /\ Cardinality(Busy) \in Nat
  <2>1. Busy \in SUBSET Threads /\ IsFiniteSet(Threads)
    BY Bounds DEF Busy
  <2>2. QED
    BY <2>1, FS_Subset, FS_CardinalityType
<1>2. ASSUME NEW s \in 1..MaxSessions
      PROVE  /\ Items[s].fin \in 0..MaxCalls
             /\ \A k \in 1..Items[s].fin :
                  k \in 1..MaxCalls /\ Items[s].at[k] \in DOMAIN objects[s]
  <2>1. /\ Items[s].fin \in Nat /\ calls \in 0..MaxCalls /\ MaxCalls \in Nat
        /\ Items[s].fin + Cardinality(Busy) <= calls
        /\ \A k \in 1..MaxCalls : k <= Items[s].fin =>
             Items[s].at[k] \in DOMAIN objects[s]
    BY ItemShape, Shape, Bounds DEF ItemsInv
  <2>2. QED
    BY <1>1, <2>1
<1>3. QED
  BY <1>1, <1>2

(* get() returns the object of an item with that name, or finds none.      *)
LEMMA GetFinds ==
  ASSUME ShapeInv, ItemsInv, NEW s \in 1..MaxSessions, NEW n
  PROVE  \/ /\ Get(s, n) = 0
            /\ \A k \in 1..Items[s].fin : Item(s, k).Var # n
         \/ \E k \in 1..Items[s].fin :
              /\ Get(s, n) = Items[s].at[k] /\ Get(s, n) \in DOMAIN objects[s]
              /\ Item(s, k).Var = n /\ Get(s, n) # 0
<1> DEFINE has == {k \in 1..Items[s].fin : objects[s][Items[s].at[k]].Var = n}
<1>1. Get(s, n) = IF has = {} THEN 0
                  ELSE Items[s].at[CHOOSE k \in has : \A i \in has : k <= i]
  BY DEF Get
<1>2. has = {} => \A k \in 1..Items[s].fin : Item(s, k).Var # n
  BY DEF Item
<1>3. ASSUME has # {}
      PROVE  \E k \in has : Get(s, n) = Items[s].at[k]
  <2>1. Items[s].fin \in Nat /\ has \in SUBSET (1..Items[s].fin)
    BY ItemShape
  <2> HIDE DEF has
  <2>2. \E k \in has : \A i \in has : k <= i
    BY <1>3, <2>1, LeastSlot
  <2>3. (CHOOSE k \in has : \A i \in has : k <= i) \in has
    BY <2>2
  <2>4. QED
    BY <1>1, <1>3, <2>3
<1>4. ASSUME NEW k \in has
      PROVE  /\ k \in 1..Items[s].fin /\ Item(s, k).Var = n
             /\ Items[s].at[k] \in DOMAIN objects[s] /\ Items[s].at[k] # 0
  <2>1. k \in 1..Items[s].fin /\ Item(s, k).Var = n
    BY DEF Item
  <2>2. Items[s].at[k] \in DOMAIN objects[s]
    BY <2>1, ItemsFit
  <2>3. QED
    BY <2>1, <2>2, ItemShape
<1>5. QED
  <2> HIDE DEF has
  <2>1. QED
    BY <1>1, <1>2, <1>3, <1>4

LEMMA SetDoes ==
  ASSUME ShapeInv, ItemsInv, NEW t \in Threads, NEW n \in Names,
         NEW v \in Values, SetStringValue(t, n, v)
  PROVE  LET s == held[t] IN
         /\ pc[t] \in Free /\ pc'[t] = "write" /\ s \in 1..MaxSessions
         /\ my'[t].ses = 0 /\ my'[t].got = 0 /\ my'[t] \in Locals
         /\ my'[t].var = n /\ my'[t].val = v
         /\ objects' \in [1..MaxSessions -> Seq(Object)]
         /\ \A r \in 1..MaxSessions :
              /\ r # s => objects'[r] = objects[r]
              /\ DOMAIN objects[r] \subseteq DOMAIN objects'[r]
              /\ \A k \in DOMAIN objects[r] : objects'[r][k] = objects[r][k]
         /\ my'[t].obj \in DOMAIN objects'[s]
         /\ \/ /\ my'[t].obj \notin DOMAIN objects[s]
               /\ \A k \in 1..Items[s].fin : Item(s, k).Var # n
            \/ \E k \in 1..Items[s].fin :
                 my'[t].obj = Items[s].at[k] /\ Item(s, k).Var = n
         /\ mixed' = IF Setters(s) = {} THEN mixed ELSE mixed \cup {s}
         /\ last' = [last EXCEPT ![s][n] = v]
         /\ calls' = calls + 1 /\ calls' \in 0..MaxCalls
         /\ UNCHANGED <<time, counterVars, vectorVars, Items, held>>
<1> DEFINE s == held[t]
<1> DEFINE o == IF Get(s, n) = 0 THEN Len(objects[s]) + 1 ELSE Get(s, n)
<1>1. Sets(t, s) /\ Takes(t, s, n, v, o) /\ last' = [last EXCEPT ![s][n] = v]
  BY DEF SetStringValue
<1>2. /\ pc[t] \in Free /\ pc'[t] = "write" /\ s # 0
      /\ mixed' = IF Setters(s) = {} THEN mixed ELSE mixed \cup {s}
      /\ UNCHANGED <<time, counterVars, vectorVars, Items, held>>
      /\ calls < MaxCalls /\ calls' = calls + 1
  BY <1>1, Shape DEF Sets, Calls, Goes
<1>3. s \in 1..MaxSessions /\ calls' \in 0..MaxCalls
  <2>1. s \in 0..MaxSessions /\ calls \in Nat /\ MaxCalls \in Nat /\ MaxSessions \in Nat
    BY Shape, Bounds
  <2>2. QED
    BY <1>2, <2>1
<1>4. /\ objects[s] \in Seq(Object) /\ Len(objects[s]) \in Nat
      /\ DOMAIN objects[s] = 1..Len(objects[s])
      /\ objects \in [1..MaxSessions -> Seq(Object)]
  <2>1. objects \in [1..MaxSessions -> Seq(Object)]
    BY DEF ShapeInv
  <2>2. QED
    BY <1>3, <2>1, ItemShape
<1>5. \/ /\ o = Len(objects[s]) + 1
         /\ \A k \in 1..Items[s].fin : Item(s, k).Var # n
      \/ /\ o \in DOMAIN objects[s]
         /\ \E k \in 1..Items[s].fin :
              o = Items[s].at[k] /\ Item(s, k).Var = n
  BY <1>3, GetFinds
<1>6. /\ my'[t] = [NoLocals EXCEPT !.obj = o, !.var = n, !.val = v]
      /\ objects' = IF o <= Len(objects[s]) THEN objects
                    ELSE [objects EXCEPT ![s] =
                            Append(objects[s], [Var |-> Empty, Val |-> Empty])]
  <2> HIDE DEF o
  <2>1. QED
    BY <1>1, Shape DEF Takes, Keeps
<1> HIDE DEF o
<1>7. o \in Nat
  BY <1>4, <1>5
<1>8. /\ my'[t].ses = 0 /\ my'[t].got = 0 /\ my'[t] \in Locals
      /\ my'[t].obj = o /\ my'[t].var = n /\ my'[t].val = v
  <2>0. my'[t] = [NoLocals EXCEPT !.obj = o, !.var = n, !.val = v]
    BY <1>6
  <2>1. my'[t] \in Locals
    <3>1. [NoLocals EXCEPT !.obj = o, !.var = n, !.val = v] \in Locals
      BY <1>7, Blank
    <3>2. QED
      BY <2>0, <3>1, Zenon
  <2>2. QED
    BY <1>6, <2>1 DEF NoLocals
<1>9. /\ objects' \in [1..MaxSessions -> Seq(Object)]
      /\ \A r \in 1..MaxSessions :
           /\ r # s => objects'[r] = objects[r]
           /\ DOMAIN objects[r] \subseteq DOMAIN objects'[r]
           /\ \A k \in DOMAIN objects[r] : objects'[r][k] = objects[r][k]
      /\ o \in DOMAIN objects'[s]
  <2>1. CASE o \in DOMAIN objects[s]
    <3>1. objects' = objects
      BY <1>4, <1>6, <2>1
    <3>2. QED
      BY <1>4, <2>1, <3>1
  <2>2. CASE o = Len(objects[s]) + 1
    <3> DEFINE e == [Var |-> Empty, Val |-> Empty]
    <3>1. objects' = [objects EXCEPT ![s] = Append(objects[s], e)]
      BY <1>4, <1>6, <2>2
    <3>2. e \in Object
      BY DEF Object
    <3> HIDE DEF e
    <3>3. /\ Append(objects[s], e) \in Seq(Object)
          /\ DOMAIN Append(objects[s], e) = 1..(Len(objects[s]) + 1)
          /\ \A k \in DOMAIN objects[s] : Append(objects[s], e)[k] = objects[s][k]
      BY <1>4, <3>2
    <3>4. /\ objects'[s] = Append(objects[s], e)
          /\ objects' \in [1..MaxSessions -> Seq(Object)]
          /\ \A r \in 1..MaxSessions : r # s => objects'[r] = objects[r]
      BY <1>3, <1>4, <3>1, <3>3
    <3>5. /\ DOMAIN objects[s] \subseteq DOMAIN objects'[s]
          /\ o \in DOMAIN objects'[s]
      BY <1>4, <2>2, <3>3, <3>4
    <3>6. QED
      BY <3>3, <3>4, <3>5
  <2>3. QED
    BY <1>5, <2>1, <2>2
<1>10. \/ /\ o \notin DOMAIN objects[s]
          /\ \A k \in 1..Items[s].fin : Item(s, k).Var # n
       \/ \E k \in 1..Items[s].fin :
            o = Items[s].at[k] /\ Item(s, k).Var = n
  BY <1>4, <1>5
<1>11. QED
  BY <1>1, <1>2, <1>3, <1>8, <1>9, <1>10

LEMMA PutDoes ==
  ASSUME ShapeInv, MakeInv, ItemsInv, NEW t \in Threads
  PROVE  /\ Write(t) =>
              /\ pc[t] = "write" /\ pc'[t] = "put" /\ held[t] \in 1..MaxSessions
              /\ my[t].obj \in DOMAIN objects[held[t]]
              /\ objects' \in [1..MaxSessions -> Seq(Object)]
              /\ objects'[held[t]][my[t].obj] =
                   [Var |-> my[t].var, Val |-> my[t].val]
              /\ \A r \in 1..MaxSessions :
                   /\ DOMAIN objects'[r] = DOMAIN objects[r]
                   /\ \A k \in DOMAIN objects[r] : <<r, k>> # <<held[t], my[t].obj>>
                        => objects'[r][k] = objects[r][k]
              /\ UNCHANGED <<time, counterVars, vectorVars, Items, last, mixed,
                             my, held, calls>>
         /\ Put(t) =>
              /\ pc[t] = "put" /\ pc'[t] = "putting" /\ held[t] \in 1..MaxSessions
              /\ my'[t].ses = my[t].ses /\ my'[t].got = my[t].got
              /\ my'[t].obj = my[t].obj /\ my'[t].var = my[t].var
              /\ my'[t].val = my[t].val
              /\ my'[t].fin = Items[held[t]].fin /\ my'[t] \in Locals
              /\ UNCHANGED <<time, counterVars, vectorVars, itemVars, held, calls>>
         /\ PutDone(t) =>
              /\ pc[t] = "putting" /\ pc'[t] = "idle" /\ held[t] \in 1..MaxSessions
              /\ my'[t].ses = 0 /\ my'[t].got = 0 /\ my'[t] \in Locals
              /\ Items'[held[t]] = PutAt(Items[held[t]], my[t].fin, my[t].obj)
              /\ \A r \in 1..MaxSessions : r # held[t] => Items'[r] = Items[r]
              /\ Items' \in [1..MaxSessions -> [at : [1..MaxCalls -> Nat], fin : Nat]]
              /\ UNCHANGED <<time, counterVars, vectorVars, objects, last, mixed,
                             held, calls>>
<1>1. ASSUME pc[t] \in Setter
      PROVE  /\ held[t] \in 1..MaxSessions /\ my[t].obj \in DOMAIN objects[held[t]]
             /\ my[t].var \in Names
  <2>1. t \in Busy /\ held[t] # 0 /\ held[t] \in 0..MaxSessions /\ MaxSessions \in Nat
    BY <1>1, Shape, Bounds DEF MakeInv, Busy
  <2>2. QED
    BY <2>1 DEF ItemsInv
<1>2. ASSUME Write(t)
      PROVE  /\ pc[t] = "write" /\ pc'[t] = "put" /\ held[t] \in 1..MaxSessions
             /\ my[t].obj \in DOMAIN objects[held[t]]
             /\ objects' \in [1..MaxSessions -> Seq(Object)]
             /\ objects'[held[t]][my[t].obj] =
                  [Var |-> my[t].var, Val |-> my[t].val]
             /\ \A r \in 1..MaxSessions :
                  /\ DOMAIN objects'[r] = DOMAIN objects[r]
                  /\ \A k \in DOMAIN objects[r] : <<r, k>> # <<held[t], my[t].obj>>
                       => objects'[r][k] = objects[r][k]
             /\ UNCHANGED <<time, counterVars, vectorVars, Items, last, mixed,
                            my, held, calls>>
  <2> DEFINE s == held[t] o == my[t].obj e == [Var |-> my[t].var, Val |-> my[t].val]
  <2>1. pc[t] = "write" /\ pc'[t] = "put"
    BY <1>2, Shape DEF Write, Goes
  <2>2. s \in 1..MaxSessions /\ o \in DOMAIN objects[s]
    BY <1>1, <2>1 DEF Setter
  <2>3. objects' = [objects EXCEPT ![s][o] = e]
    BY <1>2 DEF Write
  <2>4. e \in Object
    BY Shape DEF Locals, Object
  <2>5. objects \in [1..MaxSessions -> Seq(Object)]
    BY DEF ShapeInv
  <2>6. UNCHANGED <<time, counterVars, vectorVars, Items, last, mixed, my,
                    held, calls>>
    BY <1>2 DEF Write
  <2> HIDE DEF s, o, e
  <2>7. /\ objects[s] \in Seq(Object) /\ Len(objects[s]) \in Nat
        /\ DOMAIN objects[s] = 1..Len(objects[s])
    BY <2>2, ItemShape
  <2>8. /\ [objects[s] EXCEPT ![o] = e] \in Seq(Object)
        /\ DOMAIN [objects[s] EXCEPT ![o] = e] = DOMAIN objects[s]
        /\ [objects[s] EXCEPT ![o] = e][o] = e
        /\ \A k \in DOMAIN objects[s] : k # o =>
             [objects[s] EXCEPT ![o] = e][k] = objects[s][k]
    BY <2>2, <2>4, <2>7
  <2>9. /\ objects'[s] = [objects[s] EXCEPT ![o] = e]
        /\ objects' \in [1..MaxSessions -> Seq(Object)]
        /\ \A r \in 1..MaxSessions : r # s => objects'[r] = objects[r]
    BY <2>2, <2>3, <2>5, <2>8
  <2>10. \A r \in 1..MaxSessions :
           /\ DOMAIN objects'[r] = DOMAIN objects[r]
           /\ \A k \in DOMAIN objects[r] : <<r, k>> # <<s, o>>
                => objects'[r][k] = objects[r][k]
    BY <2>8, <2>9
  <2>11. QED
    BY <2>1, <2>2, <2>6, <2>8, <2>9, <2>10 DEF s, o, e
<1>3. ASSUME Put(t)
      PROVE  /\ pc[t] = "put" /\ pc'[t] = "putting" /\ held[t] \in 1..MaxSessions
             /\ my'[t].ses = my[t].ses /\ my'[t].got = my[t].got
             /\ my'[t].obj = my[t].obj /\ my'[t].var = my[t].var
             /\ my'[t].val = my[t].val
             /\ my'[t].fin = Items[held[t]].fin /\ my'[t] \in Locals
             /\ UNCHANGED <<time, counterVars, vectorVars, itemVars, held, calls>>
  <2>1. pc[t] = "put" /\ pc'[t] = "putting"
    BY <1>3, Shape DEF Put, Goes
  <2>2. held[t] \in 1..MaxSessions
    BY <1>1, <2>1 DEF Setter
  <2>3. my'[t] = [my[t] EXCEPT !.fin = Items[held[t]].fin]
    BY <1>3, Shape DEF Put, Keeps
  <2>4. my[t] \in Locals /\ Items[held[t]].fin \in Nat
    BY <2>2, Shape, ItemShape
  <2>5. /\ my'[t].ses = my[t].ses /\ my'[t].got = my[t].got
        /\ my'[t].obj = my[t].obj /\ my'[t].var = my[t].var
        /\ my'[t].val = my[t].val
        /\ my'[t].fin = Items[held[t]].fin /\ my'[t] \in Locals
    BY <2>3, <2>4 DEF Locals
  <2>6. QED
    BY <1>3, <2>1, <2>2, <2>5 DEF Put
<1>4. ASSUME PutDone(t)
      PROVE  /\ pc[t] = "putting" /\ pc'[t] = "idle" /\ held[t] \in 1..MaxSessions
             /\ my'[t].ses = 0 /\ my'[t].got = 0 /\ my'[t] \in Locals
             /\ Items'[held[t]] = PutAt(Items[held[t]], my[t].fin, my[t].obj)
             /\ \A r \in 1..MaxSessions : r # held[t] => Items'[r] = Items[r]
             /\ Items' \in [1..MaxSessions -> [at : [1..MaxCalls -> Nat], fin : Nat]]
             /\ UNCHANGED <<time, counterVars, vectorVars, objects, last, mixed,
                            held, calls>>
  <2>1. pc[t] = "putting" /\ pc'[t] = "idle" /\ my'[t] = NoLocals
    BY <1>4, Shape DEF PutDone, Goes, Keeps, Returns
  <2>2. held[t] \in 1..MaxSessions
    BY <1>1, <2>1 DEF Setter
  <2>3. my'[t].ses = 0 /\ my'[t].got = 0 /\ my'[t] \in Locals
    BY <2>1, Blank
  <2> DEFINE w == PutAt(Items[held[t]], my[t].fin, my[t].obj)
  <2>4. Items' = [Items EXCEPT ![held[t]] = w]
    BY <1>4 DEF PutDone
  <2>5. w \in [at : [1..MaxCalls -> Nat], fin : Nat]
    <3>1. /\ Items[held[t]] \in [at : [1..MaxCalls -> Nat], fin : Nat]
          /\ my[t].fin \in Nat /\ my[t].obj \in Nat /\ MaxCalls \in Nat
      BY <2>2, ItemShape, Shape, Bounds
    <3>2. QED
      BY <3>1, PutType, Zenon
  <2>6. Items \in [1..MaxSessions -> [at : [1..MaxCalls -> Nat], fin : Nat]]
    BY DEF ShapeInv
  <2> HIDE DEF w
  <2>7. /\ Items'[held[t]] = w
        /\ \A r \in 1..MaxSessions : r # held[t] => Items'[r] = Items[r]
        /\ Items' \in [1..MaxSessions -> [at : [1..MaxCalls -> Nat], fin : Nat]]
    BY <2>2, <2>4, <2>5, <2>6
  <2>8. QED
    BY <1>4, <2>1, <2>2, <2>3, <2>7 DEF PutDone, w
<1>5. QED
  BY <1>2, <1>3, <1>4, Zenon
-----------------------------------------------------------------------------
(* How far the calls of startSession have come. *)

LEMMA MakingStep ==
  ASSUME ShapeInv, MakeInv, SlotInv, ItemsInv, NEW t \in Threads, Acts(t)
  PROVE  \/ /\ pc[t] \in Free /\ pc'[t] = "stamp" /\ my'[t].ses = Len(ids) + 1
            /\ DOMAIN ids' = DOMAIN ids \cup {Len(ids) + 1}
         \/ /\ \/ pc[t] \in {"stamp", "load"} /\ pc'[t] \in {"load", "store"}
               \/ pc[t] = "store" /\ pc'[t] = "push"
               \/ pc[t] = "push" /\ pc'[t] = "pushing"
            /\ my'[t].ses = my[t].ses /\ DOMAIN ids' = DOMAIN ids
         \/ /\ pc[t] = "pushing" /\ pc'[t] = "idle" /\ my'[t].ses = 0
            /\ DOMAIN ids' = DOMAIN ids
         \/ /\ pc[t] \notin Making /\ pc'[t] \notin Making
            /\ my'[t].ses \in {0, my[t].ses} \cup Told
            /\ DOMAIN ids' = DOMAIN ids
<1> USE DEF Making, Ctor, Free, Setter
<1>1. CASE Enter(t)
  BY <1>1, EnterDoes
<1>2. CASE Stamp(t) \/ Load(t) \/ Store(t) \/ Push(t) \/ PushDone(t)
  <2>1. ids' = ids \/ \E x : ids' = [ids EXCEPT ![my[t].ses] = x]
    BY <1>2, CtorDoes DEF counterVars
  <2>2. DOMAIN ids' = DOMAIN ids
    BY <2>1
  <2>3. QED
    BY <1>2, <2>2, CtorDoes
<1>3. CASE \/ Ask(t) \/ ScanOn(t) \/ ScanEnds(t) \/ ScanRunsOff(t) \/ ScanNext(t) \/ ScanMatch(t) \/ Return(t)
           \/ Erase(t) \/ EraseDone(t)
  <2>1. ids' = ids
    BY <1>3, ScanDoes, EraseDoes DEF counterVars
  <2>2. QED
    BY <1>3, <2>1, ScanDoes, EraseDoes
<1>4. CASE \E n \in Names, v \in Values : SetStringValue(t, n, v)
  <2>1. pc[t] \in Free /\ pc'[t] = "write" /\ my'[t].ses = 0 /\ ids' = ids
    BY <1>4, SetDoes DEF counterVars
  <2>2. QED
    BY <2>1
<1>5. CASE Write(t) \/ Put(t) \/ PutDone(t)
  <2>1. ids' = ids
    BY <1>5, PutDoes DEF counterVars
  <2>2. QED
    BY <1>5, <2>1, PutDoes
<1>6. QED
  BY <1>1, <1>2, <1>3, <1>4, <1>5 DEF Acts

(* No identifier is forgotten that was told, no constructor comes back:    *)
(* only the end of a push_back tells one more, and only the store of a     *)
(* counter lets one more pass.                                             *)
LEMMA Grows ==
  ASSUME ShapeInv, MakeInv, SlotInv, ItemsInv, NEW t \in Threads, Acts(t)
  PROVE  /\ DOMAIN ids \subseteq DOMAIN ids'
         /\ IF pc[t] = "pushing"
            THEN Told' = Told \cup {my[t].ses} /\ my[t].ses \notin Told
            ELSE Told' = Told
         /\ IF pc[t] = "store"
            THEN Passed' = Passed \cup {my[t].ses} /\ my[t].ses \notin Passed
            ELSE Passed' = Passed
         /\ Told \subseteq Passed /\ Told \subseteq DOMAIN ids
<1> DEFINE Free4 == /\ pc[t] \notin Making /\ pc'[t] \notin Making
                    /\ my'[t].ses \in {0, my[t].ses} \cup Told
                    /\ DOMAIN ids' = DOMAIN ids
<1>1. \A u \in Threads : u # t => pc'[u] = pc[u] /\ my'[u] = my[u]
  BY Others
<1>2. /\ pc[t] \in Making => my[t].ses \in DOMAIN ids
      /\ \A u \in Threads : u # t /\ pc[t] \in Making /\ pc[u] \in Making
           => my[t].ses # my[u].ses
  BY DEF MakeInv
<1>3. /\ 0 \notin DOMAIN ids /\ Len(ids) + 1 \notin DOMAIN ids
      /\ \A u \in Threads : my[u].ses = Len(ids) + 1 => pc[u] \notin Making
  <2>1. Len(ids) \in Nat /\ DOMAIN ids = 1..Len(ids)
    BY Shape
  <2>2. 0 \notin DOMAIN ids /\ Len(ids) + 1 \notin DOMAIN ids
    BY <2>1
  <2>3. QED
    BY <2>2 DEF MakeInv
<1>4. /\ Told \subseteq Passed /\ Told \subseteq DOMAIN ids
      /\ Passed \subseteq DOMAIN ids
  BY DEF Told, Passed, Ctor
<1>5. /\ \A s \in DOMAIN ids : s \in Told <=>
           \A u \in Threads : my[u].ses = s => pc[u] \notin Making
      /\ \A s \in DOMAIN ids' : s \in Told' <=>
           \A u \in Threads : my'[u].ses = s => pc'[u] \notin Making
      /\ Told' \subseteq DOMAIN ids'
  BY Zenon DEF Told, Making
<1>6. /\ \A s \in DOMAIN ids : s \in Passed <=>
           \A u \in Threads : my[u].ses = s => pc[u] \notin Ctor
      /\ \A s \in DOMAIN ids' : s \in Passed' <=>
           \A u \in Threads : my'[u].ses = s => pc'[u] \notin Ctor
      /\ Passed' \subseteq DOMAIN ids'
  BY Zenon DEF Passed
<1>7. CASE /\ pc[t] \in Free /\ pc'[t] = "stamp" /\ my'[t].ses = Len(ids) + 1
           /\ DOMAIN ids' = DOMAIN ids \cup {Len(ids) + 1}
  <2>1. /\ pc[t] \notin Making /\ pc'[t] \in Ctor /\ pc'[t] \in Making
        /\ pc[t] # "store" /\ pc[t] # "pushing"
    BY <1>7 DEF Making, Ctor, Free
  <2>2. Told' = Told
    <3>1. ASSUME NEW s \in DOMAIN ids
          PROVE  s \in Told <=> s \in Told'
      BY <1>1, <1>3, <1>5, <1>7, <2>1
    <3>2. Len(ids) + 1 \notin Told'
      BY <1>5, <1>7, <2>1
    <3>3. /\ Told' \subseteq DOMAIN ids \cup {Len(ids) + 1}
          /\ Told \subseteq DOMAIN ids
      BY <1>4, <1>5, <1>7
    <3>4. QED
      BY <3>1, <3>2, <3>3
  <2>3. \A u \in Threads : my[u].ses = Len(ids) + 1 => pc[u] \notin Ctor
    BY <1>3 DEF Making
  <2>4. Passed' = Passed
    <3>1. pc[t] \notin Ctor
      BY <2>1 DEF Making
    <3>2. ASSUME NEW s \in DOMAIN ids
          PROVE  s \in Passed <=> s \in Passed'
      BY <1>1, <1>3, <1>6, <1>7, <2>1, <3>1
    <3>3. Len(ids) + 1 \notin Passed'
      BY <1>6, <1>7, <2>1
    <3>4. QED
      BY <1>4, <1>6, <1>7, <3>2, <3>3
  <2>5. QED
    BY <1>4, <1>7, <2>1, <2>2, <2>4
<1>8. CASE /\ \/ pc[t] \in {"stamp", "load"} /\ pc'[t] \in {"load", "store"}
              \/ pc[t] = "store" /\ pc'[t] = "push"
              \/ pc[t] = "push" /\ pc'[t] = "pushing"
           /\ my'[t].ses = my[t].ses /\ DOMAIN ids' = DOMAIN ids
  <2>1. pc[t] \in Making /\ pc'[t] \in Making /\ pc[t] # "pushing"
    BY <1>8 DEF Making, Ctor
  <2>2. Told' = Told
    <3>1. ASSUME NEW s \in DOMAIN ids
          PROVE  s \in Told <=> s \in Told'
      BY <1>1, <1>5, <1>8, <2>1
    <3>2. QED
      BY <1>4, <1>5, <1>8, <3>1
  <2>3. pc[t] # "store" => (pc[t] \in Ctor <=> pc'[t] \in Ctor)
    BY <1>8 DEF Ctor
  <2>4. pc[t] = "store" => pc[t] \in Ctor /\ pc'[t] \notin Ctor
    BY <1>8 DEF Ctor
  <2>5. pc[t] # "store" => Passed' = Passed
    <3>1. ASSUME NEW s \in DOMAIN ids, pc[t] # "store"
          PROVE  s \in Passed <=> s \in Passed'
      BY <1>1, <1>6, <1>8, <2>3, <3>1
    <3>2. QED
      BY <1>4, <1>6, <1>8, <3>1
  <2>6. pc[t] = "store" => Passed' = Passed \cup {my[t].ses} /\ my[t].ses \notin Passed
    <3>1. \A u \in Threads : u # t /\ pc[t] = "store" /\ pc[u] \in Ctor
            => my[t].ses # my[u].ses
      BY <1>2, <2>1 DEF Making
    <3>2. QED
      BY <1>1, <1>2, <1>4, <1>6, <1>8, <2>1, <2>4, <3>1
  <2>7. QED
    BY <1>4, <1>8, <2>1, <2>2, <2>5, <2>6
<1>9. CASE /\ pc[t] = "pushing" /\ pc'[t] = "idle" /\ my'[t].ses = 0
           /\ DOMAIN ids' = DOMAIN ids
  <2>1. /\ pc[t] \in Making /\ pc'[t] \notin Making /\ pc[t] # "store"
        /\ pc[t] \notin Ctor /\ pc'[t] \notin Ctor
    BY <1>9 DEF Making, Ctor
  <2>2. Told' = Told \cup {my[t].ses} /\ my[t].ses \notin Told
    BY <1>1, <1>2, <1>3, <1>4, <1>5, <1>9, <2>1
  <2>3. Passed' = Passed
    <3>1. ASSUME NEW s \in DOMAIN ids
          PROVE  s \in Passed <=> s \in Passed'
      BY <1>1, <1>3, <1>4, <1>6, <1>9, <2>1
    <3>2. QED
      BY <1>4, <1>6, <1>9, <3>1
  <2>4. QED
    BY <1>4, <1>9, <2>1, <2>2, <2>3
<1>10. CASE Free4
  <2>1. /\ pc[t] \notin Ctor /\ pc'[t] \notin Ctor
        /\ pc[t] # "store" /\ pc[t] # "pushing"
    BY <1>10 DEF Making, Ctor
  <2>2. Told' = Told
    BY <1>1, <1>3, <1>4, <1>5, <1>10, <2>1
  <2>3. Passed' = Passed
    <3>1. ASSUME NEW s \in DOMAIN ids
          PROVE  s \in Passed <=> s \in Passed'
      BY <1>1, <1>3, <1>4, <1>6, <1>10, <2>1
    <3>2. QED
      BY <1>4, <1>6, <1>10, <3>1
  <2>4. QED
    BY <1>4, <1>10, <2>1, <2>2, <2>3
<1>11. QED
  BY <1>7, <1>8, <1>9, <1>10, MakingStep
-----------------------------------------------------------------------------
(* Types. *)

(* Every step keeps the shape of the state.                                *)
LEMMA ShapeStep ==
  ASSUME ShapeInv, MakeInv, SlotInv, ItemsInv, NEW t \in Threads, Acts(t)
  PROVE  ShapeInv'
<1>1. pc' \in [Threads -> PC] /\ my' \in [Threads -> Locals]
  <2>1. pc'[t] \in PC /\ my'[t] \in Locals
    <3> USE DEF PC, Free, Ctor, Setter
    <3>1. CASE Enter(t)
      BY <3>1, EnterDoes
    <3>2. CASE Stamp(t) \/ Load(t) \/ Store(t) \/ Push(t) \/ PushDone(t)
      BY <3>2, CtorDoes, Shape
    <3>3. CASE \/ Ask(t) \/ ScanOn(t) \/ ScanEnds(t) \/ ScanRunsOff(t) \/ ScanNext(t)
               \/ ScanMatch(t) \/ Return(t)
      BY <3>3, ScanDoes, Shape
    <3>4. CASE Erase(t) \/ EraseDone(t)
      BY <3>4, EraseDoes
    <3>5. CASE \E n \in Names, v \in Values : SetStringValue(t, n, v)
      BY <3>5, SetDoes
    <3>6. CASE Write(t) \/ Put(t) \/ PutDone(t)
      BY <3>6, PutDoes, Shape
    <3>7. QED
      BY <3>1, <3>2, <3>3, <3>4, <3>5, <3>6 DEF Acts
  <2>2. /\ \A u \in Threads : pc'[u] \in PC /\ my'[u] \in Locals
        /\ DOMAIN pc' = Threads /\ DOMAIN my' = Threads
    BY <2>1, Others, Shape
  <2>3. pc' = [u \in Threads |-> pc'[u]] /\ my' = [u \in Threads |-> my'[u]]
    <3>1. pc \in [Threads -> PC] /\ my \in [Threads -> Locals]
      BY DEF ShapeInv
    <3>2. /\ \/ pc' = pc
             \/ \E p : pc' = [pc EXCEPT ![t] = p]
          /\ \/ my' = my
             \/ \E l : my' = [my EXCEPT ![t] = l]
      <4> USE DEF Goes, Keeps, Returns
      <4>1. CASE Enter(t) \/ Stamp(t) \/ Load(t) \/ Store(t) \/ Push(t) \/ PushDone(t)
        BY <4>1, Zenon DEF Enter, Stamp, Load, Store, Push, PushDone
      <4>2. CASE Ask(t) \/ ScanOn(t) \/ ScanEnds(t) \/ ScanRunsOff(t) \/ ScanNext(t)
        BY <4>2 DEF Ask, ScanOn, ScanEnds, ScanRunsOff, ScanNext
      <4>3. CASE ScanMatch(t) \/ Return(t)
        BY <4>3, Zenon DEF ScanMatch, Return
      <4>4. CASE Erase(t) \/ EraseDone(t) \/ Write(t) \/ Put(t) \/ PutDone(t)
        BY <4>4, Zenon DEF Erase, EraseDone, Erases, Write, Put, PutDone
      <4>5. CASE \E n \in Names, v \in Values : SetStringValue(t, n, v)
        BY <4>5, Zenon DEF SetStringValue, Sets, Takes
      <4>6. QED
        BY <4>1, <4>2, <4>3, <4>4, <4>5 DEF Acts
    <3>3. QED
      BY <3>1, <3>2
  <2>4. QED
    BY <2>2, <2>3
<1>2. /\ ids' \in Seq(Seq(Nat)) /\ Len(ids)' <= MaxSessions
      /\ time' \in 0..MaxTime /\ Incremental' \in Nat
  <2>1. CASE Enter(t)
    <3>1. ids' = Append(ids, <<time'>>) /\ time' \in 0..MaxTime /\ MaxTime \in Nat
      BY <2>1, EnterDoes, Bounds DEF Enter
    <3>2. <<time'>> \in Seq(Nat)
      BY <3>1
    <3>3. /\ Incremental' = IF Incremental >= Wrap THEN 0 ELSE Incremental
          /\ Len(ids)' = Len(ids) + 1 /\ Len(ids) + 1 \in 1..MaxSessions
      BY <2>1, EnterDoes
    <3>4. ids \in Seq(Seq(Nat)) /\ Incremental \in Nat /\ MaxSessions \in Nat
      BY Shape, Bounds
    <3>5. QED
      BY <3>1, <3>2, <3>3, <3>4
  <2>2. CASE Stamp(t)
    <3>1. /\ ids' = [ids EXCEPT ![my[t].ses] = Append(@, Incremental)]
          /\ time' = time /\ Incremental' = Incremental /\ my[t].ses \in DOMAIN ids
      BY <2>2, CtorDoes DEF MakeInv, Making, Ctor
    <3>2. /\ Append(ids[my[t].ses], Incremental) \in Seq(Nat)
          /\ ids \in Seq(Seq(Nat)) /\ Len(ids) <= MaxSessions
          /\ time \in 0..MaxTime /\ Incremental \in Nat
      BY <3>1, Shape, Bounds
    <3>3. QED
      BY <3>1, <3>2
  <2>3. CASE Store(t)
    <3>1. /\ ids' = ids /\ time' = time /\ Incremental' = my[t].at + 1
      BY <2>3, CtorDoes
    <3>2. /\ ids \in Seq(Seq(Nat)) /\ Len(ids) <= MaxSessions
          /\ time \in 0..MaxTime /\ my[t].at \in Nat
      BY Shape, Bounds
    <3>3. QED
      BY <3>1, <3>2
  <2>4. CASE ~(Enter(t) \/ Stamp(t) \/ Store(t))
    <3>1. ids' = ids /\ time' = time /\ Incremental' = Incremental
      <4> USE DEF counterVars
      <4>1. CASE Load(t) \/ Push(t) \/ PushDone(t)
        BY <4>1, CtorDoes
      <4>2. CASE \/ Ask(t) \/ ScanOn(t) \/ ScanEnds(t) \/ ScanRunsOff(t) \/ ScanNext(t)
                 \/ ScanMatch(t) \/ Return(t) \/ Erase(t) \/ EraseDone(t)
        BY <4>2, ScanDoes, EraseDoes
      <4>3. CASE \E n \in Names, v \in Values : SetStringValue(t, n, v)
        BY <4>3, SetDoes
      <4>4. CASE Write(t) \/ Put(t) \/ PutDone(t)
        BY <4>4, PutDoes
      <4>5. QED
        BY <2>4, <4>1, <4>2, <4>3, <4>4 DEF Acts
    <3>2. QED
      BY <3>1 DEF ShapeInv
  <2>5. QED
    BY <2>1, <2>2, <2>3, <2>4
<1>3. /\ Sessions' \in [at : [1..MaxSessions -> 0..MaxSessions], fin : Nat]
      /\ torn' \in BOOLEAN /\ shifted' \subseteq Threads
  <2>1. CASE PushDone(t)
    <3>1. /\ Sessions' = PutAt(Sessions, my[t].fin, my[t].ses)
          /\ torn' = (torn \/ Tears(t)) /\ shifted' = shifted
      BY <2>1, Zenon, CtorDoes
    <3>2. /\ Sessions \in [at : [1..MaxSessions -> 0..MaxSessions], fin : Nat]
          /\ my[t].fin \in Nat /\ my[t].ses \in 0..MaxSessions /\ MaxSessions \in Nat
      BY Shape, Bounds
    <3>3. PutAt(Sessions, my[t].fin, my[t].ses)
            \in [at : [1..MaxSessions -> 0..MaxSessions], fin : Nat]
      BY <3>2, PutType, Zenon
    <3>4. torn' \in BOOLEAN
      BY <3>1, Zenon DEF ShapeInv
    <3>5. QED
      BY <3>1, <3>3, <3>4 DEF ShapeInv
  <2>2. CASE EraseDone(t)
    <3>1. /\ Sessions' = CutAt(Sessions, my[t].at, my[t].fin)
          /\ torn' = (torn \/ Tears(t) \/ t \in shifted)
          /\ shifted' = shifted \cup {u \in Threads \ {t} : LeftBehind(u, my[t].at)}
          /\ pc[t] = "erasing"
      BY <2>2, Zenon, EraseDoes
    <3>2. /\ Sessions \in [at : [1..MaxSessions -> 0..MaxSessions], fin : Nat]
          /\ my[t].at \in Nat /\ MaxSessions \in Nat
      BY Shape, Bounds
    <3>3. my[t].fin \in 1..MaxSessions
      BY <3>1, IteratorAt DEF Scanning
    <3>4. CutAt(Sessions, my[t].at, my[t].fin)
            \in [at : [1..MaxSessions -> 0..MaxSessions], fin : Nat]
      BY <3>2, <3>3, CutType, Zenon
    <3>5. torn' \in BOOLEAN
      BY <3>1, Zenon DEF ShapeInv
    <3>6. shifted' \subseteq Threads
      BY <3>1 DEF ShapeInv
    <3>7. QED
      BY <3>1, <3>4, <3>5, <3>6
  <2>3. CASE ~(PushDone(t) \/ EraseDone(t))
    <3>1. Sessions' = Sessions /\ torn' = torn /\ shifted' \subseteq shifted
      <4> USE DEF vectorVars
      <4>1. CASE Enter(t) \/ Stamp(t) \/ Load(t) \/ Store(t) \/ Push(t)
        BY <4>1, EnterDoes, CtorDoes
      <4>2. CASE \/ Ask(t) \/ ScanOn(t) \/ ScanEnds(t) \/ ScanRunsOff(t) \/ ScanNext(t)
                 \/ ScanMatch(t) \/ Return(t) \/ Erase(t)
        BY <4>2, ScanDoes, EraseDoes
      <4>3. CASE \E n \in Names, v \in Values : SetStringValue(t, n, v)
        BY <4>3, SetDoes
      <4>4. CASE Write(t) \/ Put(t) \/ PutDone(t)
        BY <4>4, PutDoes
      <4>5. QED
        BY <2>3, <4>1, <4>2, <4>3, <4>4 DEF Acts
    <3>2. QED
      BY <3>1 DEF ShapeInv
  <2>4. QED
    BY <2>1, <2>2, <2>3
<1>4. /\ Items' \in [1..MaxSessions -> [at : [1..MaxCalls -> Nat], fin : Nat]]
      /\ objects' \in [1..MaxSessions -> Seq(Object)]
      /\ last' \in [1..MaxSessions -> [Names -> Values \cup {Empty}]]
  <2>1. CASE \E n \in Names, v \in Values : SetStringValue(t, n, v)
    <3>1. PICK n \in Names, v \in Values : SetStringValue(t, n, v)
      BY <2>1
    <3>2. /\ objects' \in [1..MaxSessions -> Seq(Object)] /\ Items' = Items
          /\ last' = [last EXCEPT ![held[t]][n] = v] /\ held[t] \in 1..MaxSessions
      BY <3>1, SetDoes
    <3>3. last \in [1..MaxSessions -> [Names -> Values \cup {Empty}]]
      BY DEF ShapeInv
    <3>4. [last[held[t]] EXCEPT ![n] = v] \in [Names -> Values \cup {Empty}]
      BY <3>2, <3>3
    <3>5. last' \in [1..MaxSessions -> [Names -> Values \cup {Empty}]]
      BY <3>2, <3>3, <3>4
    <3>6. QED
      BY <3>2, <3>5 DEF ShapeInv
  <2>2. CASE Write(t) \/ PutDone(t)
    <3>1. /\ \/ Items' = Items
             \/ Items' \in [1..MaxSessions -> [at : [1..MaxCalls -> Nat], fin : Nat]]
          /\ \/ objects' = objects
             \/ objects' \in [1..MaxSessions -> Seq(Object)]
          /\ last' = last
      BY <2>2, PutDoes
    <3>2. QED
      BY <3>1 DEF ShapeInv
  <2>3. CASE /\ ~(Write(t) \/ PutDone(t))
             /\ ~(\E n \in Names, v \in Values : SetStringValue(t, n, v))
    <3>1. Items' = Items /\ objects' = objects /\ last' = last
      <4> USE DEF itemVars
      <4>1. CASE Enter(t) \/ Stamp(t) \/ Load(t) \/ Store(t) \/ Push(t) \/ PushDone(t)
        BY <4>1, EnterDoes, CtorDoes
      <4>2. CASE \/ Ask(t) \/ ScanOn(t) \/ ScanEnds(t) \/ ScanRunsOff(t) \/ ScanNext(t)
                 \/ ScanMatch(t) \/ Return(t) \/ Erase(t) \/ EraseDone(t)
        BY <4>2, ScanDoes, EraseDoes
      <4>3. CASE Put(t)
        BY <4>3, PutDoes
      <4>4. QED
        BY <2>3, <4>1, <4>2, <4>3 DEF Acts
    <3>2. QED
      BY <3>1 DEF ShapeInv
  <2>4. QED
    BY <2>1, <2>2, <2>3
<1>5. held' \in [Threads -> 0..MaxSessions] /\ calls' \in 0..MaxCalls
  <2>1. held \in [Threads -> 0..MaxSessions] /\ calls \in 0..MaxCalls
    BY DEF ShapeInv
  <2>2. CASE PushDone(t)
    <3>1. held' = [held EXCEPT ![t] = my[t].ses] /\ calls' = calls
      BY <2>2 DEF PushDone
    <3>2. QED
      BY <2>1, <3>1, Shape
  <2>3. CASE Return(t)
    <3>1. /\ held' = [held EXCEPT ![t] = Sessions.at[my[t].at]]
          /\ calls' = calls
      BY <2>3 DEF Return, Scans
    <3>2. Sessions.at[my[t].at] \in 0..MaxSessions
      BY <2>3, ScanDoes, IteratorAt DEF Scanning
    <3>3. QED
      BY <2>1, <3>1, <3>2
  <2>4. CASE ~(PushDone(t) \/ Return(t))
    <3>1. held' = held /\ (calls' = calls \/ calls' \in 0..MaxCalls)
      <4>1. CASE Enter(t) \/ Stamp(t) \/ Load(t) \/ Store(t) \/ Push(t)
        BY <4>1, EnterDoes, CtorDoes
      <4>2. CASE \/ Ask(t) \/ ScanOn(t) \/ ScanEnds(t) \/ ScanRunsOff(t) \/ ScanNext(t)
                 \/ ScanMatch(t) \/ Erase(t) \/ EraseDone(t)
        BY <4>2, ScanDoes, EraseDoes
      <4>3. CASE \E n \in Names, v \in Values : SetStringValue(t, n, v)
        BY <4>3, SetDoes
      <4>4. CASE Write(t) \/ Put(t) \/ PutDone(t)
        BY <4>4, PutDoes
      <4>5. QED
        BY <2>4, <4>1, <4>2, <4>3, <4>4 DEF Acts
    <3>2. QED
      BY <2>1, <3>1
  <2>5. QED
    BY <2>2, <2>3, <2>4
<1>6. QED
  BY <1>1, <1>2, <1>3, <1>4, <1>5 DEF ShapeInv
-----------------------------------------------------------------------------
(* Who makes what. *)

(* An identifier changes when its own constructor stamps it, and then only. *)
LEMMA IdsKept ==
  ASSUME ShapeInv, MakeInv, SlotInv, ItemsInv, NEW t \in Threads, Acts(t)
  PROVE  /\ \A s \in DOMAIN ids : pc[t] # "stamp" \/ s # my[t].ses =>
              ids'[s] = ids[s]
         /\ \A s \in Told : ids'[s] = ids[s]
<1>1. \A s \in DOMAIN ids : pc[t] # "stamp" \/ s # my[t].ses => ids'[s] = ids[s]
  <2> USE DEF counterVars
  <2>1. CASE Enter(t)
    BY <2>1, EnterDoes
  <2>2. CASE Stamp(t)
    BY <2>2, CtorDoes
  <2>3. CASE Load(t) \/ Store(t) \/ Push(t) \/ PushDone(t)
    BY <2>3, CtorDoes
  <2>4. CASE \/ Ask(t) \/ ScanOn(t) \/ ScanEnds(t) \/ ScanRunsOff(t) \/ ScanNext(t)
             \/ ScanMatch(t) \/ Return(t) \/ Erase(t) \/ EraseDone(t)
    BY <2>4, ScanDoes, EraseDoes
  <2>5. CASE \E n \in Names, v \in Values : SetStringValue(t, n, v)
    BY <2>5, SetDoes
  <2>6. CASE Write(t) \/ Put(t) \/ PutDone(t)
    BY <2>6, PutDoes
  <2>7. QED
    BY <2>1, <2>2, <2>3, <2>4, <2>5, <2>6 DEF Acts
<1>2. ASSUME NEW s \in Told
      PROVE  s \in DOMAIN ids /\ (pc[t] # "stamp" \/ s # my[t].ses)
  BY DEF Told, Ctor
<1>3. QED
  BY <1>1, <1>2

(* Of clash, live and mixed: each step adds what it may.                   *)
LEMMA HistoryKept ==
  ASSUME ShapeInv, MakeInv, SlotInv, ItemsInv, NEW t \in Threads, Acts(t)
  PROVE  /\ clash \subseteq clash' /\ (pc'[t] # "stamp" => clash' = clash)
         /\ pc'[t] = "stamp" =>
              clash' = LET with == {my[u].ses : u \in {v \in Threads : pc[v] \in Ctor}} IN
                       IF with = {} THEN clash ELSE clash \cup with \cup {my'[t].ses}
         /\ live' \subseteq IF pc[t] = "pushing" THEN live \cup {my[t].ses} ELSE live
         /\ mixed \subseteq mixed'
         /\ mixed' = IF pc'[t] = "write" /\ Setters(held[t]) # {}
                     THEN mixed \cup {held[t]} ELSE mixed
<1> USE DEF counterVars, vectorVars, itemVars
<1>1. CASE Enter(t)
  <2>1. /\ clash' = LET with == {my[u].ses : u \in {v \in Threads : pc[v] \in Ctor}} IN
                       IF with = {} THEN clash ELSE clash \cup with \cup {my'[t].ses}
        /\ pc'[t] = "stamp"
    BY <1>1, EnterDoes DEF Enter
  <2>2. live' = live /\ mixed' = mixed
    BY <1>1, EnterDoes
  <2>3. clash \subseteq clash'
    BY <2>1
  <2>4. QED
    BY <2>1, <2>2, <2>3
<1>2. CASE Stamp(t) \/ Load(t) \/ Store(t) \/ Push(t) \/ PushDone(t)
  <2>1. clash' = clash /\ mixed' = mixed /\ pc'[t] \notin {"stamp", "write"}
    BY <1>2, CtorDoes
  <2>2. live' \subseteq IF pc[t] = "pushing" THEN live \cup {my[t].ses} ELSE live
    BY <1>2, CtorDoes
  <2>3. QED
    BY <2>1, <2>2
<1>3. CASE \/ Ask(t) \/ ScanOn(t) \/ ScanEnds(t) \/ ScanRunsOff(t) \/ ScanNext(t)
           \/ ScanMatch(t) \/ Return(t) \/ Erase(t) \/ EraseDone(t)
  <2>1. clash' = clash /\ mixed' = mixed /\ pc'[t] \notin {"stamp", "write"}
    BY <1>3, ScanDoes, EraseDoes
  <2>2. live' \subseteq live /\ pc[t] # "pushing"
    BY <1>3, ScanDoes, EraseDoes DEF Free
  <2>3. QED
    BY <2>1, <2>2
<1>4. CASE \E n \in Names, v \in Values : SetStringValue(t, n, v)
  <2>1. /\ clash' = clash /\ live' = live /\ pc'[t] = "write"
        /\ mixed' = IF Setters(held[t]) = {} THEN mixed ELSE mixed \cup {held[t]}
    BY <1>4, SetDoes
  <2>2. QED
    BY <2>1
<1>5. CASE Write(t) \/ Put(t) \/ PutDone(t)
  <2>1. /\ clash' = clash /\ live' = live /\ mixed' = mixed
        /\ pc'[t] \notin {"stamp", "write"}
    BY <1>5, PutDoes
  <2>2. QED
    BY <2>1
<1>6. QED
  BY <1>1, <1>2, <1>3, <1>4, <1>5 DEF Acts

(* Of the history of the vector: only a push_back that ends and an erase   *)
(* that ends add to it, and neither forgets that it was torn.              *)
LEMMA VectorKept ==
  ASSUME ShapeInv, MakeInv, SlotInv, ItemsInv, NEW t \in Threads, Acts(t)
  PROVE  /\ torn => torn'
         /\ EraseDone(t) /\ ~torn' => t \notin shifted
         /\ ~PushDone(t) /\ ~EraseDone(t) =>
              live' = live /\ (shifted' = shifted \/ (Ask(t) /\ shifted' = shifted \ {t}))
         /\ \A u \in shifted : u \in shifted' \/ (Ask(t) /\ u = t)
<1>1. torn => torn'
  <2>1. CASE PushDone(t)
    <3>1. torn' = (torn \/ Tears(t))
      BY <2>1 DEF PushDone
    <3>2. QED
      BY <3>1, Zenon
  <2>2. CASE EraseDone(t)
    <3>1. torn' = (torn \/ Tears(t) \/ t \in shifted)
      BY <2>2 DEF EraseDone, Erases
    <3>2. QED
      BY <3>1, Zenon
  <2>3. CASE ~PushDone(t) /\ ~EraseDone(t)
    <3>1. torn' = torn
      BY <2>3, EnterDoes, CtorDoes, ScanDoes, EraseDoes, SetDoes, PutDoes
         DEF Acts, vectorVars
    <3>2. QED
      BY <3>1, Zenon
  <2>4. QED
    BY <2>1, <2>2, <2>3
<1>2. ASSUME EraseDone(t), ~torn'
      PROVE  t \notin shifted
  <2>1. torn' = (torn \/ Tears(t) \/ t \in shifted)
    BY <1>2 DEF EraseDone, Erases
  <2>2. QED
    BY <1>2, <2>1, Zenon
<1>3. ASSUME ~PushDone(t), ~EraseDone(t)
      PROVE  live' = live /\ (shifted' = shifted \/ (Ask(t) /\ shifted' = shifted \ {t}))
  BY <1>3, EnterDoes, CtorDoes, ScanDoes, EraseDoes, SetDoes, PutDoes
     DEF Acts, vectorVars
<1>4. ASSUME NEW u \in shifted
      PROVE  u \in shifted' \/ (Ask(t) /\ u = t)
  <2>1. CASE PushDone(t) \/ EraseDone(t)
    BY <2>1 DEF PushDone, EraseDone, Erases
  <2>2. CASE ~PushDone(t) /\ ~EraseDone(t)
    BY <1>3, <2>2
  <2>3. QED
    BY <2>1, <2>2
<1>5. QED
  BY <1>1, <1>2, <1>3, <1>4, Zenon

LEMMA MakeStep ==
  ASSUME ShapeInv, MakeInv, SlotInv, IteratorInv, ItemsInv,
         NEW t \in Threads, Acts(t)
  PROVE  MakeInv'
<1> DEFINE Self(u) ==
      /\ pc[u] \in Making => my[u].ses \in DOMAIN ids
      /\ pc[u] \in Seeking => my[u].ses = 0 \/ my[u].ses \in Told
      /\ pc[u] \in Scanning \cup {"none"} => my[u].ses # 0
      /\ my[u].got # 0 => /\ my[u].got \in Told /\ my[u].ses \in Told
                          /\ \/ ids[my[u].got] = ids[my[u].ses]
                             \/ torn \/ u \in shifted
      /\ pc[u] \in {"erase", "erasing"} => my[u].got # 0
      /\ held[u] # 0 => held[u] \in Told
      /\ pc[u] \in Setter => held[u] # 0
<1>1. /\ \A u \in Threads : Self(u)
      /\ \A u, v \in Threads : u # v =>
           /\ pc[u] \in Making /\ pc[v] \in Making => my[u].ses # my[v].ses
           /\ pc[u] \in Ctor /\ pc[v] \in Ctor => my[u].ses \in clash
      /\ live \subseteq Told /\ mixed \subseteq Told /\ clash \subseteq DOMAIN ids
  BY Zenon DEF MakeInv, SameId
<1>2. /\ Told \subseteq Told' /\ DOMAIN ids \subseteq DOMAIN ids'
      /\ \A s \in Told : ids'[s] = ids[s]
      /\ pc[t] = "pushing" => my[t].ses \in Told'
      /\ Told \subseteq DOMAIN ids
  BY Grows, IdsKept
<1>9. /\ torn => torn'
      /\ \A u \in shifted : u \in shifted' \/ (Ask(t) /\ u = t)
  BY VectorKept
<1>3. ASSUME NEW u \in Threads, u # t
      PROVE  Self(u)'
  <2>1. /\ Self(u) /\ pc'[u] = pc[u] /\ my'[u] = my[u] /\ held'[u] = held[u]
        /\ u \in shifted => u \in shifted'
    BY <1>1, <1>3, <1>9, Others
  <2>2. my'[u].got # 0 => /\ my'[u].got \in Told' /\ my'[u].ses \in Told'
                          /\ \/ ids'[my'[u].got] = ids'[my'[u].ses]
                             \/ torn' \/ u \in shifted'
    BY <1>2, <1>9, <2>1
  <2>3. QED
    BY <1>2, <2>1, <2>2
<1>4. Self(t)'
  <2> USE DEF Making, Ctor, Setter, Seeking, Scanning, Free
  <2>0. Self(t)
    BY <1>1
  <2>13. ASSUME ~Ask(t), my[t].got # 0
         PROVE  /\ my[t].got \in Told' /\ my[t].ses \in Told'
                /\ \/ ids'[my[t].got] = ids'[my[t].ses]
                   \/ torn' \/ t \in shifted'
    BY <1>2, <1>9, <2>0, <2>13
  <2>1. CASE Enter(t)
    BY <2>0, <1>2, <2>1, EnterDoes
  <2>2. CASE Stamp(t) \/ Store(t)
    <3>1. /\ pc[t] \in {"stamp", "store"} /\ pc'[t] \in {"load", "push"}
          /\ my'[t] = my[t] /\ held'[t] = held[t]
      BY <2>2, CtorDoes
    <3>2. ~Ask(t)
      BY <3>1 DEF Ask, Calls
    <3>3. QED
      BY <2>0, <1>2, <3>1, <2>13, <3>2
  <2>3. CASE Load(t) \/ Push(t)
    <3>1. /\ pc[t] \in {"load", "push"} /\ pc'[t] \in {"store", "pushing"}
          /\ my'[t].ses = my[t].ses /\ my'[t].got = my[t].got /\ held'[t] = held[t]
      BY <2>3, CtorDoes
    <3>2. ~Ask(t)
      BY <3>1 DEF Ask, Calls
    <3>3. QED
      BY <2>0, <1>2, <3>1, <2>13, <3>2
  <2>4. CASE PushDone(t)
    <3>1. /\ pc[t] = "pushing" /\ pc'[t] = "idle" /\ my'[t].ses = 0
          /\ my'[t].got = 0 /\ held'[t] = my[t].ses
      BY <2>4, CtorDoes
    <3>2. QED
      BY <2>0, <1>2, <3>1
  <2>5. CASE Ask(t)
    <3>1. /\ pc'[t] = "scan" /\ my'[t].ses \in Told /\ my'[t].got = 0
          /\ held'[t] = held[t]
      BY <2>5, ScanDoes
    <3>2. my'[t].ses # 0
      BY <3>1, <1>2, Shape
    <3>3. QED
      BY <2>0, <1>2, <3>1, <3>2
  <2>6. CASE ScanEnds(t)
    <3>1. /\ pc[t] = "scan" /\ pc'[t] = "none" /\ my'[t].ses = my[t].ses
          /\ my'[t].got = 0 /\ held'[t] = held[t]
      BY <2>6, ScanDoes
    <3>2. QED
      BY <2>0, <1>2, <3>1
  <2>7. CASE ScanOn(t) \/ ScanRunsOff(t) \/ ScanNext(t)
    <3>1. /\ pc[t] \in {"scan", "look"} /\ pc'[t] \in {"lost", "scan", "look"}
          /\ held'[t] = held[t]
          /\ my'[t].ses = my[t].ses /\ my'[t].got = my[t].got
      BY <2>7, ScanDoes
    <3>2. ~Ask(t)
      BY <3>1 DEF Ask, Calls
    <3>3. QED
      BY <2>0, <1>2, <3>1, <2>13, <3>2
  <2>8. CASE ScanMatch(t)
    <3> DEFINE r == Sessions.at[my[t].at]
    <3>1. /\ pc[t] = "look" /\ pc'[t] \in {"erase", "return"}
          /\ ids[r] = ids[my[t].ses] /\ my'[t].ses = my[t].ses
          /\ pc'[t] = "erase" => my'[t].got = r
          /\ pc'[t] = "return" => my'[t].got = my[t].got
          /\ held'[t] = held[t]
      BY <2>8, ScanDoes
    <3>2. r \in Told /\ r # 0
      BY <3>1, IteratorAt
    <3>4. ~Ask(t)
      BY <3>1 DEF Ask, Calls
    <3> HIDE DEF r
    <3>3. CASE pc'[t] = "erase"
      <4>1. my[t].ses \in Told
        BY <2>0, <3>1
      <4>2. QED
        BY <2>0, <1>2, <3>1, <3>2, <3>3, <4>1
    <3>5. CASE pc'[t] = "return"
      BY <2>0, <1>2, <3>1, <2>13, <3>4, <3>5
    <3>6. QED
      BY <3>1, <3>3, <3>5
  <2>14. CASE Return(t)
    <3> DEFINE r == Sessions.at[my[t].at]
    <3>1. /\ pc[t] = "return" /\ pc'[t] = "found"
          /\ my'[t].ses = my[t].ses /\ my'[t].got = r /\ held'[t] = r
      BY <2>14, ScanDoes
    <3>2. r \in Told /\ r # 0
      BY <3>1, IteratorAt
    <3>4. ~Ask(t)
      BY <3>1 DEF Ask, Calls
    <3>5. ids[r] = ids[my[t].ses] \/ torn \/ t \in shifted
      BY <3>1, Zenon DEF IteratorInv, SameId
    <3>6. my[t].ses \in Told
      BY <2>0, <3>1
    <3> HIDE DEF r
    <3>7. ids'[r] = ids'[my[t].ses] \/ torn' \/ t \in shifted'
      BY <1>2, <1>9, <3>2, <3>4, <3>5, <3>6
    <3>8. QED
      BY <2>0, <1>2, <3>1, <3>2, <3>6, <3>7
  <2>9. CASE Erase(t) \/ EraseDone(t)
    <3>1. /\ pc[t] \in {"erase", "erasing"} /\ pc'[t] \in {"erasing", "lost", "found"}
          /\ held'[t] = held[t]
          /\ my'[t].ses = my[t].ses /\ my'[t].got = my[t].got
      BY <2>9, EraseDoes
    <3>2. ~Ask(t)
      BY <3>1 DEF Ask, Calls
    <3>3. QED
      BY <2>0, <1>2, <3>1, <2>13, <3>2
  <2>10. CASE \E n \in Names, v \in Values : SetStringValue(t, n, v)
    <3>1. /\ pc'[t] = "write" /\ my'[t].ses = 0 /\ my'[t].got = 0
          /\ held'[t] = held[t] /\ held[t] \in 1..MaxSessions
      BY <2>10, SetDoes
    <3>2. held[t] # 0
      BY <3>1
    <3>3. QED
      BY <2>0, <1>2, <3>1, <3>2
  <2>11. CASE Write(t) \/ Put(t) \/ PutDone(t)
    <3>1. /\ pc[t] \in Setter /\ pc'[t] \in {"put", "putting", "idle"}
          /\ held'[t] = held[t]
          /\ \/ my'[t].ses = my[t].ses /\ my'[t].got = my[t].got
             \/ my'[t].ses = 0 /\ my'[t].got = 0
      BY <2>11, PutDoes
    <3>2. ~Ask(t)
      BY <3>1 DEF Ask, Calls
    <3>3. QED
      BY <2>0, <1>2, <3>1, <2>13, <3>2
  <2>12. QED
    BY <2>1, <2>2, <2>3, <2>4, <2>5, <2>6, <2>7, <2>8, <2>9, <2>10, <2>11, <2>14 DEF Acts
<1>5. ASSUME NEW u \in Threads, u # t
      PROVE  /\ pc'[t] \in Making /\ pc'[u] \in Making => my'[t].ses # my'[u].ses
             /\ pc'[t] \in Ctor /\ pc'[u] \in Ctor =>
                  my'[t].ses \in clash' /\ my'[u].ses \in clash'
  <2>0. pc'[u] = pc[u] /\ my'[u] = my[u]
    BY <1>5, Others
  <2>1. CASE pc'[t] = "stamp"
    <3>1. pc[t] \in Free /\ my'[t].ses = Len(ids) + 1
      BY <2>1, MakingStep DEF Making, Ctor
    <3>2. Len(ids) + 1 \notin DOMAIN ids
      BY Shape
    <3>3. pc'[u] \in Making => my'[t].ses # my'[u].ses
      BY <2>0, <3>1, <3>2, <1>1
    <3>4. ASSUME pc'[u] \in Ctor
          PROVE  my'[t].ses \in clash' /\ my'[u].ses \in clash'
      <4>1. my[u].ses \in {my[w].ses : w \in {v \in Threads : pc[v] \in Ctor}}
        BY <2>0, <3>4
      <4>2. QED
        BY <2>0, <2>1, <4>1, HistoryKept
    <3>5. QED
      BY <3>3, <3>4
  <2>2. CASE pc'[t] # "stamp" /\ pc'[t] \in Making
    <3>1. /\ pc[t] \in Making /\ my'[t].ses = my[t].ses
          /\ pc'[t] \in Ctor => pc[t] \in Ctor
      BY <2>2, MakingStep DEF Making, Ctor
    <3>2. clash' = clash
      BY <2>2, HistoryKept
    <3>3. QED
      BY <1>1, <1>5, <2>0, <3>1, <3>2
  <2>3. QED
    BY <2>1, <2>2 DEF Making
<1>6. ASSUME NEW u \in Threads, NEW v \in Threads, u # v
      PROVE  /\ pc'[u] \in Making /\ pc'[v] \in Making => my'[u].ses # my'[v].ses
             /\ pc'[u] \in Ctor /\ pc'[v] \in Ctor => my'[u].ses \in clash'
  <2>1. CASE u # t /\ v # t
    <3>1. clash \subseteq clash'
      BY HistoryKept
    <3>2. QED
      BY <1>1, <1>6, <2>1, <3>1, Others
  <2>2. CASE u = t \/ v = t
    BY <1>5, <1>6, <2>2
  <2>3. QED
    BY <2>1, <2>2
<1>7. live' \subseteq Told' /\ mixed' \subseteq Told' /\ clash' \subseteq DOMAIN ids'
  <2>1. live' \subseteq Told'
    BY <1>1, <1>2, HistoryKept
  <2>2. mixed' \subseteq Told'
    <3>1. pc'[t] = "write" => held[t] \in Told
      <4>1. ASSUME pc'[t] = "write" PROVE held[t] \in 1..MaxSessions
        <5>1. \E n \in Names, v \in Values : SetStringValue(t, n, v)
          BY <4>1, EnterDoes, CtorDoes, ScanDoes, EraseDoes, PutDoes DEF Acts
        <5>2. QED
          BY <5>1, SetDoes
      <4>2. ASSUME pc'[t] = "write" PROVE held[t] # 0
        BY <4>1, <4>2
      <4>3. QED
        BY <1>1, <4>2
    <3>2. QED
      BY <1>1, <1>2, <3>1, HistoryKept
  <2>3. clash' \subseteq DOMAIN ids'
    <3>1. CASE pc'[t] = "stamp"
      <4>1. my'[t].ses \in DOMAIN ids'
        BY <1>4, <3>1 DEF Making, Ctor
      <4>2. {my[u].ses : u \in {v \in Threads : pc[v] \in Ctor}} \subseteq DOMAIN ids
        BY <1>1 DEF Making
      <4>3. QED
        BY <1>1, <1>2, <3>1, <4>1, <4>2, HistoryKept
    <3>2. CASE pc'[t] # "stamp"
      BY <1>1, <1>2, <3>2, HistoryKept
    <3>3. QED
      BY <3>1, <3>2
  <2>4. QED
    BY <2>1, <2>2, <2>3
<1>8. QED
  <2>1. \A u \in Threads : Self(u)'
    BY <1>3, <1>4
  <2>2. QED
    BY <2>1, <1>6, <1>7, Zenon DEF MakeInv, SameId
(* A stamped identifier is its second and its count.                       *)
LEMMA StampPair ==
  ASSUME NEW i \in Nat, NEW n \in Nat
  PROVE  Append(<<i>>, n) = <<i, n>>
<1>1. <<i>> \in Seq(Nat) /\ Len(<<i>>) = 1 /\ <<i>>[1] = i
  OBVIOUS
<1>2. /\ Append(<<i>>, n) \in Seq(Nat) /\ Len(Append(<<i>>, n)) = 2
      /\ Append(<<i>>, n)[1] = i /\ Append(<<i>>, n)[2] = n
  BY <1>1
<1>3. /\ <<i, n>> \in Seq(Nat) /\ Len(<<i, n>>) = 2
      /\ <<i, n>>[1] = i /\ <<i, n>>[2] = n
  OBVIOUS
<1>4. \A k \in 1..Len(Append(<<i>>, n)) : Append(<<i>>, n)[k] = <<i, n>>[k]
  BY <1>2, <1>3
<1>5. QED
  BY <1>2, <1>3, <1>4, SeqEqual

LEMMA StampStep ==
  ASSUME ShapeInv, MakeInv, StampInv, SlotInv, CounterInv, ItemsInv,
         NEW t \in Threads, Acts(t)
  PROVE  StampInv'
<1> DEFINE Open(s) == \E u \in Threads : pc[u] = "stamp" /\ my[u].ses = s
<1>1. \A s \in DOMAIN ids :
        IF Open(s) THEN \E i \in 0..MaxTime : ids[s] = <<i>>
        ELSE \E i \in 0..MaxTime, n \in Counter : ids[s] = <<i, n>>
  BY DEF StampInv
<1>2. \A u \in Threads : u # t => pc'[u] = pc[u] /\ my'[u] = my[u]
  BY Others
<1>3. CASE pc'[t] = "stamp"
  <2>1. Enter(t)
    BY <1>3, CtorDoes, ScanDoes, EraseDoes, SetDoes, PutDoes DEF Acts
  <2>0. PICK new : new = Len(ids) + 1
    OBVIOUS
  <2>2. /\ DOMAIN ids' = DOMAIN ids \cup {new}
        /\ my'[t].ses = new /\ new \notin DOMAIN ids
        /\ ids'[new] = <<time'>> /\ time' \in 0..MaxTime
        /\ \A s \in DOMAIN ids : ids'[s] = ids[s]
        /\ pc[t] # "stamp"
    <3>1. new \notin DOMAIN ids
      <4>1. Len(ids) \in Nat /\ DOMAIN ids = 1..Len(ids)
        BY Shape
      <4>2. QED
        BY <2>0, <4>1
    <3>2. QED
      BY <2>0, <2>1, <3>1, EnterDoes DEF Free
  <2>3. ASSUME NEW s \in DOMAIN ids
        PROVE  Open(s)' <=> Open(s)
    BY <1>2, <2>2
  <2>4. Open(new)'
    BY <1>3, <2>2
  <2> HIDE DEF Open
  <2>5. ASSUME NEW s \in DOMAIN ids'
        PROVE  IF Open(s)' THEN \E i \in 0..MaxTime : ids'[s] = <<i>>
               ELSE \E i \in 0..MaxTime, n \in Counter : ids'[s] = <<i, n>>
    <3>1. CASE s \in DOMAIN ids
      BY <1>1, <2>2, <2>3, <3>1
    <3>2. CASE s = new
      <4>1. Open(s)'
        BY <2>4, <3>2
      <4>2. QED
        BY <2>2, <3>2, <4>1
    <3>3. QED
      BY <2>2, <3>1, <3>2
  <2>6. QED
    BY <2>5, Zenon DEF StampInv, Open
<1>4. CASE pc[t] = "stamp"
  <2>1. Stamp(t)
    BY <1>4, EnterDoes, CtorDoes, ScanDoes, EraseDoes, SetDoes, PutDoes
       DEF Acts, Free
  <2>0. PICK m : m = my[t].ses
    OBVIOUS
  <2>2. /\ ids' = [ids EXCEPT ![m] = Append(@, Incremental)]
        /\ my' = my /\ pc'[t] = "load"
    BY <2>0, <2>1, CtorDoes
  <2>3. /\ m \in DOMAIN ids /\ Open(m)
        /\ \A u \in Threads : u # t /\ pc[u] = "stamp" => my[u].ses # m
    BY <1>4, <2>0 DEF MakeInv, Making, Ctor
  <2>4. Incremental \in Counter
    BY ToldSize, Shape, Bounds DEF CounterInv, Counter
  <2>5. PICK i \in 0..MaxTime : ids[m] = <<i>>
    BY <1>1, <2>3
  <2>6. ids'[m] = <<i, Incremental>> /\ DOMAIN ids' = DOMAIN ids
    <3>1. ids'[m] = Append(<<i>>, Incremental)
      BY <2>2, <2>3, <2>5
    <3>2. Append(<<i>>, Incremental) = <<i, Incremental>>
      <4>1. i \in Nat /\ Incremental \in Nat
        BY Shape, Bounds
      <4>2. QED
        BY <4>1, StampPair
    <3>3. QED
      BY <2>2, <3>1, <3>2
  <2>7. \A s \in DOMAIN ids : s # m => ids'[s] = ids[s]
    BY <2>2
  <2>8. ~Open(m)'
    BY <1>2, <2>2, <2>3
  <2>9. \A s \in DOMAIN ids : s # m => (Open(s)' <=> Open(s))
    BY <1>2, <2>0, <2>2
  <2> HIDE DEF Open
  <2>10. ASSUME NEW s \in DOMAIN ids'
         PROVE  IF Open(s)' THEN \E j \in 0..MaxTime : ids'[s] = <<j>>
                ELSE \E j \in 0..MaxTime, n \in Counter : ids'[s] = <<j, n>>
    <3>1. CASE s # m
      BY <1>1, <2>6, <2>7, <2>9, <3>1
    <3>2. CASE s = m
      <4>1. ~Open(s)'
        BY <2>8, <3>2
      <4>2. ids'[s] = <<i, Incremental>>
        BY <2>6, <3>2
      <4>3. QED
        BY <2>4, <4>1, <4>2
    <3>3. QED
      BY <3>1, <3>2
  <2>11. QED
    BY <2>10, Zenon DEF StampInv, Open
<1>5. CASE pc'[t] # "stamp" /\ pc[t] # "stamp"
  <2>1. DOMAIN ids' = DOMAIN ids /\ \A s \in DOMAIN ids : ids'[s] = ids[s]
    BY <1>5, MakingStep, IdsKept
  <2>2. \A s : Open(s)' <=> Open(s)
    BY <1>2, <1>5
  <2> HIDE DEF Open
  <2>3. \A s \in DOMAIN ids' :
          IF Open(s)' THEN \E j \in 0..MaxTime : ids'[s] = <<j>>
          ELSE \E j \in 0..MaxTime, n \in Counter : ids'[s] = <<j, n>>
    BY <1>1, <2>1, <2>2
  <2>4. QED
    BY <2>3, Zenon DEF StampInv, Open
<1>6. QED
  BY <1>3, <1>4, <1>5

-----------------------------------------------------------------------------
(* The vector of sessions. *)

(* A slot that holds a session goes on holding one, that was told.         *)
LEMMA SlotsKept ==
  ASSUME ShapeInv, MakeInv, SlotInv, ItemsInv, NEW t \in Threads, Acts(t)
  PROVE  /\ \A k \in 1..MaxSessions : Sessions.at[k] # 0 => Sessions'.at[k] # 0
         /\ \A k \in 1..MaxSessions :
              Sessions'.at[k] # 0 => Sessions'.at[k] \in Told'
         /\ Cardinality(Told) <= Cardinality(Told)' /\ Cardinality(Told)' \in Nat
         /\ PushDone(t) =>
              /\ Sessions'.fin = my[t].fin + 1
              /\ Cardinality(Told)' = Cardinality(Told) + 1
              /\ \A k \in 1..MaxSessions :
                   Sessions'.at[k] = IF k = my[t].fin + 1 THEN my[t].ses
                                     ELSE Sessions.at[k]
         /\ EraseDone(t) =>
              /\ Sessions'.fin = my[t].fin - 1
              /\ \A k \in 1..MaxSessions :
                   Sessions'.at[k] = IF my[t].at <= k /\ k < my[t].fin
                                     THEN Sessions.at[k + 1] ELSE Sessions.at[k]
         /\ ~PushDone(t) /\ ~EraseDone(t) => Sessions' = Sessions
<1>1. /\ Sessions.at \in [1..MaxSessions -> 0..MaxSessions] /\ my[t].fin \in Nat
      /\ MaxSessions \in Nat /\ my[t].at \in Nat
  BY Shape, Bounds
<1>2. /\ \A k \in 1..MaxSessions : Sessions.at[k] # 0 => Sessions.at[k] \in Told
      /\ pc[t] \in {"pushing", "erasing"} =>
           \A k \in 1..MaxSessions : k <= my[t].fin => Sessions.at[k] # 0
  BY DEF SlotInv
<1>3. /\ Told \subseteq Told'
      /\ pc[t] = "pushing" => my[t].ses \in Told' /\ my[t].ses # 0
  <2>1. pc[t] = "pushing" => my[t].ses \in DOMAIN ids
    BY DEF MakeInv, Making
  <2>2. QED
    BY <2>1, Grows, Shape
<1>4. /\ Cardinality(Told) <= Cardinality(Told)' /\ Cardinality(Told)' \in Nat
      /\ pc[t] = "pushing" => Cardinality(Told)' = Cardinality(Told) + 1
  <2>1. /\ IsFiniteSet(Told) /\ Cardinality(Told) \in Nat
    BY ToldSize
  <2>2. CASE pc[t] = "pushing"
    <3>1. Told' = Told \cup {my[t].ses} /\ my[t].ses \notin Told
      BY <2>2, Grows
    <3>2. Cardinality(Told') = Cardinality(Told) + 1
      BY <2>1, <3>1, FS_AddElement
    <3>3. QED
      BY <2>1, <3>2
  <2>3. CASE pc[t] # "pushing"
    <3>1. Told' = Told
      BY <2>3, Grows
    <3>2. QED
      BY <2>1, <2>3, <3>1
  <2>4. QED
    BY <2>2, <2>3
<1>5. CASE PushDone(t)
  <2>1. pc[t] = "pushing" /\ Sessions' = PutAt(Sessions, my[t].fin, my[t].ses)
    BY <1>5, CtorDoes
  <2>2. /\ Sessions'.fin = my[t].fin + 1
        /\ \A k \in 1..MaxSessions :
             Sessions'.at[k] = IF k = my[t].fin + 1 THEN my[t].ses
                               ELSE Sessions.at[k]
    BY <1>1, <2>1 DEF PutAt
  <2>3. ~EraseDone(t)
    BY <2>1, EraseDoes
  <2>4. QED
    BY <1>2, <1>3, <1>4, <1>5, <2>1, <2>2, <2>3
<1>6. CASE EraseDone(t)
  <2>1. pc[t] = "erasing" /\ Sessions' = CutAt(Sessions, my[t].at, my[t].fin)
    BY <1>6, EraseDoes
  <2>2. /\ Sessions'.fin = my[t].fin - 1
        /\ \A k \in 1..MaxSessions :
             Sessions'.at[k] = IF my[t].at <= k /\ k < my[t].fin
                               THEN Sessions.at[k + 1] ELSE Sessions.at[k]
    BY <1>1, <2>1 DEF CutAt
  <2>3. my[t].fin \in 1..MaxSessions
    BY <2>1, IteratorAt DEF Scanning
  <2>4. ASSUME NEW k \in 1..MaxSessions, my[t].at <= k, k < my[t].fin
        PROVE  Sessions.at[k + 1] # 0 /\ Sessions.at[k + 1] \in Told
    <3>1. k + 1 \in 1..MaxSessions /\ k + 1 <= my[t].fin
      BY <1>1, <2>3, <2>4
    <3>2. QED
      BY <1>2, <2>1, <3>1
  <2>5. ~PushDone(t)
    BY <2>1, CtorDoes
  <2>6. ASSUME NEW k \in 1..MaxSessions
        PROVE  /\ Sessions.at[k] # 0 => Sessions'.at[k] # 0
               /\ Sessions'.at[k] # 0 => Sessions'.at[k] \in Told'
    BY <1>2, <1>3, <2>2, <2>4
  <2>7. QED
    BY <1>4, <1>6, <2>2, <2>5, <2>6
<1>7. CASE ~PushDone(t) /\ ~EraseDone(t)
  <2>1. Sessions' = Sessions
    <3> USE DEF vectorVars
    <3>1. CASE Enter(t) \/ Stamp(t) \/ Load(t) \/ Store(t) \/ Push(t)
      BY <3>1, EnterDoes, CtorDoes
    <3>2. CASE \/ Ask(t) \/ ScanOn(t) \/ ScanEnds(t) \/ ScanRunsOff(t) \/ ScanNext(t)
               \/ ScanMatch(t) \/ Return(t) \/ Erase(t)
      BY <3>2, ScanDoes, EraseDoes
    <3>3. CASE \E n \in Names, v \in Values : SetStringValue(t, n, v)
      BY <3>3, SetDoes
    <3>4. CASE Write(t) \/ Put(t) \/ PutDone(t)
      BY <3>4, PutDoes
    <3>5. QED
      BY <1>7, <3>1, <3>2, <3>3, <3>4 DEF Acts
  <2>2. QED
    BY <1>2, <1>3, <1>4, <1>7, <2>1
<1>8. QED
  BY <1>5, <1>6, <1>7

(* The steps that leave a thread with an iterator.                         *)
LEMMA IntoScan ==
  ASSUME ShapeInv, SlotInv, ItemsInv, MakeInv, NEW t \in Threads, Acts(t),
         pc'[t] \in Scanning
  PROVE  Ask(t) \/ ScanOn(t) \/ ScanNext(t) \/ ScanMatch(t) \/ Erase(t)
<1> USE DEF Scanning
<1>1. ~(Enter(t) \/ Stamp(t) \/ Load(t) \/ Store(t) \/ Push(t) \/ PushDone(t))
  BY EnterDoes, CtorDoes
<1>2. ~(ScanEnds(t) \/ ScanRunsOff(t) \/ Return(t))
  BY ScanDoes
<1>3. ~EraseDone(t)
  BY EraseDoes
<1>4. ~(\E n \in Names, v \in Values : SetStringValue(t, n, v))
  BY SetDoes
<1>5. ~(Write(t) \/ Put(t) \/ PutDone(t))
  BY PutDoes
<1>6. QED
  BY <1>1, <1>2, <1>3, <1>4, <1>5, Zenon DEF Acts

(* A finish a thread has loaded, and an iterator, are within the slots.    *)
LEMMA SlotStep ==
  ASSUME ShapeInv, MakeInv, SlotInv, ItemsInv, NEW t \in Threads, Acts(t)
  PROVE  SlotInv'
<1> DEFINE Filled(f) == /\ f <= Cardinality(Told)
                        /\ \A k \in 1..MaxSessions : k <= f => Sessions.at[k] # 0
<1>1. /\ \A k \in 1..MaxSessions : Sessions.at[k] # 0 => Sessions.at[k] \in Told
      /\ Filled(Sessions.fin)
      /\ \A u \in Threads :
           /\ pc[u] \in {"pushing", "erasing"} => Filled(my[u].fin)
           /\ pc[u] \in Scanning => 1 <= my[u].at
           /\ pc[u] \in {"look", "return"} =>
                my[u].at <= MaxSessions /\ Sessions.at[my[u].at] # 0
           /\ pc[u] = "erasing" => my[u].at <= my[u].fin
  BY Zenon DEF SlotInv
<1>2. /\ Cardinality(Told) \in Nat /\ Cardinality(Told)' \in Nat
      /\ Cardinality(Told) <= Cardinality(Told)'
  BY ToldSize, SlotsKept
<1>3. ASSUME NEW f \in Int, Filled(f)
      PROVE  Filled(f)'
  BY <1>2, <1>3, SlotsKept
<1>4. /\ Sessions.fin \in Nat /\ MaxSessions \in Nat
      /\ \A u \in Threads : my[u].fin \in Nat /\ my[u].at \in Nat
  BY Shape, Bounds
<1>5. Filled(Sessions.fin)'
  <2>1. CASE PushDone(t)
    <3>1. /\ Sessions'.fin = my[t].fin + 1 /\ pc[t] = "pushing"
          /\ Cardinality(Told)' = Cardinality(Told) + 1
          /\ \A k \in 1..MaxSessions :
               Sessions'.at[k] = IF k = my[t].fin + 1 THEN my[t].ses
                                 ELSE Sessions.at[k]
          /\ my[t].ses # 0
      <4>1. pc[t] = "pushing"
        BY <2>1, CtorDoes
      <4>2. my[t].ses # 0
        BY <4>1, Shape DEF MakeInv, Making
      <4>3. QED
        BY <2>1, <4>1, <4>2, SlotsKept
    <3>2. Filled(my[t].fin) /\ my[t].fin \in Nat
      BY <1>1, <1>4, <3>1
    <3>3. \A k \in 1..MaxSessions : k <= my[t].fin + 1 =>
            k <= my[t].fin \/ k = my[t].fin + 1
      BY <3>2
    <3>4. my[t].fin + 1 <= Cardinality(Told)'
      BY <1>2, <3>1, <3>2
    <3>5. \A k \in 1..MaxSessions : k <= my[t].fin + 1 => Sessions'.at[k] # 0
      BY <3>1, <3>2, <3>3
    <3>6. QED
      BY <3>1, <3>4, <3>5
  <2>2. CASE EraseDone(t)
    <3>1. Sessions'.fin = my[t].fin - 1 /\ pc[t] = "erasing"
      BY <2>2, EraseDoes, SlotsKept
    <3>2. Filled(my[t].fin) /\ my[t].fin \in Nat
      BY <1>1, <1>4, <3>1
    <3>3. Filled(my[t].fin - 1)
      BY <1>2, <3>2
    <3>4. PICK f \in Int : f = my[t].fin - 1
      BY <3>2
    <3>5. Filled(f)'
      BY <1>3, <3>3, <3>4
    <3>6. QED
      BY <3>1, <3>4, <3>5
  <2>3. CASE ~PushDone(t) /\ ~EraseDone(t)
    <3>1. PICK f \in Int : f = Sessions.fin
      BY <1>4
    <3>2. Filled(f)'
      BY <1>1, <1>3, <3>1
    <3>3. Sessions'.fin = f
      BY <2>3, <3>1, SlotsKept
    <3>4. QED
      BY <3>2, <3>3
  <2>4. QED
    BY <2>1, <2>2, <2>3
<1>6. ASSUME NEW u \in Threads
      PROVE  /\ pc'[u] \in {"pushing", "erasing"} => Filled(my[u].fin)'
             /\ pc'[u] \in Scanning => 1 <= my'[u].at
             /\ pc'[u] \in {"look", "return"} =>
                  my'[u].at <= MaxSessions /\ Sessions'.at[my'[u].at] # 0
             /\ pc'[u] = "erasing" => my'[u].at <= my'[u].fin
  <2>1. CASE u # t
    <3>1. pc'[u] = pc[u] /\ my'[u] = my[u]
      BY <2>1, Others
    <3>2. PICK f \in Int : f = my[u].fin
      BY <1>4
    <3>3. pc[u] \in {"pushing", "erasing"} => Filled(f)'
      BY <1>1, <1>3, <3>2
    <3>4. my'[u].fin = f
      BY <3>1, <3>2
    <3>5. pc'[u] \in {"pushing", "erasing"} => Filled(my[u].fin)'
      BY <3>1, <3>3, <3>4
    <3>7. ASSUME pc[u] \in {"look", "return"}
          PROVE  my[u].at <= MaxSessions /\ Sessions'.at[my[u].at] # 0
      <4>1. my[u].at \in 1..MaxSessions /\ Sessions.at[my[u].at] # 0
        BY <3>7, IteratorAt DEF Scanning
      <4>2. QED
        BY <1>4, <4>1, SlotsKept
    <3> HIDE DEF Filled
    <3>6. QED
      BY <1>1, <3>1, <3>5, <3>7
  <2>2. CASE u = t
    <3>1. pc'[t] \in {"pushing", "erasing"} =>
            /\ my'[t].fin = Sessions.fin
            /\ ~PushDone(t) /\ ~EraseDone(t)
      BY EnterDoes, CtorDoes, ScanDoes, EraseDoes, SetDoes, PutDoes DEF Acts
    <3>2. /\ pc'[t] \in Scanning => 1 <= my'[t].at
          /\ pc'[t] \in {"look", "return"} =>
               my'[t].at <= MaxSessions /\ Sessions'.at[my'[t].at] # 0
          /\ pc'[t] = "erasing" => my'[t].at <= my'[t].fin
      <4> USE DEF Scanning
      <4>1. CASE Ask(t)
        BY <4>1, ScanDoes
      <4>2. CASE ScanOn(t)
        <5>1. /\ pc[t] = "scan" /\ pc'[t] = "look" /\ my' = my
              /\ my[t].at <= Sessions.fin /\ Sessions' = Sessions
          BY <4>2, ScanDoes DEF vectorVars
        <5>2. my[t].at \in 1..MaxSessions /\ Sessions.at[my[t].at] # 0
          BY <5>1, IteratorAt
        <5>3. QED
          BY <1>4, <5>1, <5>2
      <4>3. CASE ScanNext(t)
        <5>1. pc[t] = "look" /\ pc'[t] = "scan" /\ my'[t].at = my[t].at + 1
          BY <4>3, ScanDoes
        <5>2. QED
          BY <1>4, <5>1
      <4>4. CASE ScanMatch(t)
        <5>1. /\ pc[t] = "look" /\ pc'[t] \in {"erase", "return"}
              /\ my'[t].at = my[t].at /\ Sessions' = Sessions
          BY <4>4, ScanDoes DEF vectorVars
        <5>2. /\ 1 <= my[t].at /\ my[t].at <= MaxSessions
              /\ Sessions.at[my[t].at] # 0
          BY <1>1, <5>1
        <5>3. QED
          BY <5>1, <5>2
      <4>5. CASE Erase(t)
        BY <1>1, <4>5, EraseDoes
      <4>6. CASE ~(Ask(t) \/ ScanOn(t) \/ ScanNext(t) \/ ScanMatch(t) \/ Erase(t))
        <5>1. pc'[t] \notin Scanning
          BY <4>6, IntoScan, Zenon
        <5>2. QED
          BY <5>1
      <4>7. QED
        BY <4>1, <4>2, <4>3, <4>4, <4>5, <4>6
    <3>3. ASSUME pc'[t] \in {"pushing", "erasing"}
          PROVE  Filled(my[t].fin)'
      <4>1. Sessions' = Sessions /\ my'[t].fin = Sessions'.fin
        BY <3>1, <3>3, SlotsKept
      <4>2. QED
        BY <1>5, <4>1
    <3> HIDE DEF Filled
    <3>4. QED
      BY <2>2, <3>2, <3>3
  <2>3. QED
    <3> HIDE DEF Filled
    <3>1. QED
      BY <2>1, <2>2
<1>7. \A k \in 1..MaxSessions : Sessions'.at[k] # 0 => Sessions'.at[k] \in Told'
  BY SlotsKept
<1>8. QED
  BY <1>5, <1>6, <1>7, Zenon DEF SlotInv

(* What IteratorInv says of a thread whose iterator was not left behind.   *)
Sure(u) ==
  /\ pc[u] \in {"erase", "erasing"} =>
       my[u].at <= Sessions.fin /\ Sessions.at[my[u].at] = my[u].got
  /\ pc[u] = "return" =>
       my[u].at <= Sessions.fin /\ SameId(Sessions.at[my[u].at], my[u].ses)
  /\ pc[u] = "look" => my[u].at <= Sessions.fin
  /\ pc[u] \in {"scan", "look"} =>
       /\ my[u].at <= Sessions.fin + 1
       /\ \A k \in 1..MaxSessions : k < my[u].at => Sessions.at[k] # my[u].ses

(* A thread stays where it was when another one moves, and what it is at   *)
(* does, unless an erase leaves it behind.                                 *)
LEMMA IteratorOfOther ==
  ASSUME ShapeInv, MakeInv, SlotInv, IteratorInv, ItemsInv,
         NEW t \in Threads, Acts(t), ~torn',
         NEW u \in Threads, u # t, u \notin shifted'
  PROVE  Sure(u)'
<1>1. ~torn /\ u \notin shifted
  BY VectorKept, Zenon
<1>2. Sure(u)
  BY <1>1, Zenon DEF IteratorInv, Sure
<1>3. pc'[u] = pc[u] /\ my'[u] = my[u]
  BY Others
<1>4. /\ Sessions.fin \in Nat /\ MaxSessions \in Nat
      /\ my[u].at \in Nat /\ my[t].at \in Nat /\ my[t].fin \in Nat
  BY Shape, Bounds
<1>5. ASSUME pc[u] = "return", Sessions'.at[my[u].at] = Sessions.at[my[u].at]
      PROVE  SameId(Sessions.at[my[u].at], my[u].ses)'
  <2>1. Sessions.at[my[u].at] \in Told
    BY <1>5, IteratorAt DEF Scanning
  <2>2. my[u].ses \in Told
    BY <1>5 DEF MakeInv, Seeking, Scanning
  <2>3. ids[Sessions.at[my[u].at]] = ids[my[u].ses]
    BY <1>2, <1>5 DEF Sure, SameId
  <2>4. QED
    BY <1>3, <1>5, <2>1, <2>2, <2>3, IdsKept DEF SameId
<1>6. pc[u] \in {"look", "return"} => my[u].at \in 1..MaxSessions
  BY IteratorAt DEF Scanning
<1>7. pc[u] \in {"erase", "erasing"} => my[u].at \in 1..MaxSessions
  BY <1>2, IteratorAt DEF Scanning, Sure
<1>8. CASE PushDone(t)
  <2>1. /\ Sessions'.fin = Sessions.fin + 1
        /\ \A k \in 1..MaxSessions : k <= Sessions.fin => Sessions'.at[k] = Sessions.at[k]
    <3>1. my[t].fin = Sessions.fin
      BY <1>1, <1>8, CtorDoes, Zenon DEF IteratorInv
    <3>2. QED
      BY <1>4, <1>8, <3>1, SlotsKept
  <2>2. pc[u] \in {"erase", "erasing"} =>
          my[u].at <= Sessions'.fin /\ Sessions'.at[my[u].at] = my[u].got
    BY <1>2, <1>4, <1>7, <2>1 DEF Sure
  <2>3. pc[u] = "return" =>
          my[u].at <= Sessions'.fin /\ Sessions'.at[my[u].at] = Sessions.at[my[u].at]
    BY <1>2, <1>4, <1>6, <2>1 DEF Sure
  <2>4. pc[u] = "look" => my[u].at <= Sessions'.fin
    BY <1>2, <1>4, <2>1 DEF Sure
  <2>5. ASSUME pc[u] \in {"scan", "look"}
        PROVE  /\ my[u].at <= Sessions'.fin + 1
               /\ \A k \in 1..MaxSessions : k < my[u].at => Sessions'.at[k] # my[u].ses
    <3>1. /\ my[u].at <= Sessions.fin + 1
          /\ \A k \in 1..MaxSessions : k < my[u].at => Sessions.at[k] # my[u].ses
      BY <1>2, <2>5 DEF Sure
    <3>2. QED
      BY <1>4, <2>1, <3>1
  <2>6. QED
    BY <1>3, <1>5, <2>2, <2>3, <2>4, <2>5 DEF Sure
<1>9. CASE EraseDone(t)
  <2> DEFINE e == my[t].at f == Sessions.fin
  <2>1. /\ Sessions'.fin = f - 1 /\ e >= 1 /\ e <= f /\ f <= MaxSessions
        /\ \A k \in 1..MaxSessions :
             Sessions'.at[k] = IF e <= k /\ k < f THEN Sessions.at[k + 1]
                               ELSE Sessions.at[k]
        /\ ~LeftBehind(u, e)
    <3>1. pc[t] = "erasing" /\ u \notin {w \in Threads \ {t} : LeftBehind(w, e)}
      BY <1>9, EraseDoes
    <3>2. my[t].fin = f
      BY <1>1, <3>1, Zenon DEF IteratorInv
    <3>3. e >= 1 /\ e <= f /\ f <= MaxSessions
      BY <3>1, <3>2, IteratorAt DEF Scanning
    <3>4. QED
      BY <1>9, <3>1, <3>2, <3>3, SlotsKept
  <2>2. e \in Nat /\ f \in Nat
    BY <1>4
  <2> HIDE DEF e, f
  <2>3. ASSUME pc[u] \in {"return", "erase", "erasing"}
        PROVE  my[u].at <= Sessions'.fin /\ Sessions'.at[my[u].at] = Sessions.at[my[u].at]
    <3>1. my[u].at < e
      BY <1>4, <2>1, <2>2, <2>3 DEF LeftBehind
    <3>2. my[u].at \in 1..MaxSessions
      BY <1>6, <1>7, <2>3
    <3>3. QED
      BY <1>4, <2>1, <2>2, <3>1, <3>2
  <2>4. ASSUME pc[u] \in {"scan", "look"}
        PROVE  /\ my[u].at <= Sessions'.fin + 1
               /\ pc[u] = "look" => my[u].at <= Sessions'.fin
               /\ \A k \in 1..MaxSessions : k < my[u].at => Sessions'.at[k] # my[u].ses
    <3>1. /\ my[u].at <= f + 1 /\ (pc[u] = "look" => my[u].at <= f)
          /\ \A k \in 1..MaxSessions : k < my[u].at => Sessions.at[k] # my[u].ses
      BY <1>2, <2>4 DEF Sure, f
    <3>2. /\ my[u].at # f + 1 /\ (pc[u] = "look" => my[u].at # f)
          /\ e < my[u].at => my[u].at \notin SlotsOf(Sessions, my[u].ses)
      <4>1. /\ ~(pc[u] = "scan" /\ my[u].at = Sessions.fin + 1)
            /\ ~(pc[u] = "look" /\ my[u].at = Sessions.fin)
            /\ ~(e < my[u].at /\ my[u].at \in SlotsOf(Sessions, my[u].ses))
        BY <2>1, <2>4 DEF LeftBehind
      <4>2. pc[u] = "look" => my[u].at # f + 1
        BY <1>4, <2>2, <3>1
      <4>3. QED
        BY <2>4, <4>1, <4>2 DEF f
    <3>3. my[u].at <= f /\ (pc[u] = "look" => my[u].at <= f - 1)
      BY <1>4, <2>2, <3>1, <3>2
    <3>4. e < my[u].at => Sessions.at[my[u].at] # my[u].ses
      <4>1. DOMAIN Sessions.at = 1..MaxSessions
        BY Shape
      <4>2. e < my[u].at => my[u].at \in DOMAIN Sessions.at
        BY <1>4, <2>1, <2>2, <3>3, <4>1
      <4>3. QED
        BY <3>2, <3>3, <4>2 DEF SlotsOf, f
    <3>5. ASSUME NEW k \in 1..MaxSessions, k < my[u].at
          PROVE  Sessions'.at[k] # my[u].ses
      <4>1. CASE e <= k
        <5>1. Sessions'.at[k] = Sessions.at[k + 1]
          BY <1>4, <2>1, <2>2, <3>3, <3>5, <4>1
        <5>2. CASE k + 1 = my[u].at
          BY <1>4, <2>2, <3>4, <3>5, <4>1, <5>1, <5>2
        <5>3. CASE k + 1 # my[u].at
          <6>1. k + 1 \in 1..MaxSessions /\ k + 1 < my[u].at
            BY <1>4, <2>1, <2>2, <3>3, <3>5, <5>3
          <6>2. QED
            BY <3>1, <5>1, <6>1
        <5>4. QED
          BY <5>2, <5>3
      <4>2. CASE ~(e <= k)
        BY <2>1, <3>1, <3>5, <4>2
      <4>3. QED
        BY <4>1, <4>2
    <3>6. my[u].at <= Sessions'.fin + 1 /\ (pc[u] = "look" => my[u].at <= Sessions'.fin)
      BY <1>4, <2>1, <2>2, <3>3
    <3>7. QED
      BY <3>5, <3>6
  <2>5. QED
    BY <1>2, <1>3, <1>5, <2>3, <2>4 DEF Sure
<1>10. CASE ~PushDone(t) /\ ~EraseDone(t)
  <2>1. Sessions' = Sessions
    BY <1>10, SlotsKept
  <2>2. QED
    BY <1>2, <1>3, <1>5, <2>1 DEF Sure
<1>11. QED
  BY <1>8, <1>9, <1>10

(* And a step of its own takes a thread where it may be.                   *)
LEMMA IteratorOfSelf ==
  ASSUME ShapeInv, MakeInv, SlotInv, IteratorInv, ItemsInv,
         NEW t \in Threads, Acts(t), ~torn', t \notin shifted'
  PROVE  Sure(t)'
<1>1. ~torn /\ (t \notin shifted \/ Ask(t))
  BY VectorKept, Zenon
<1>2. t \notin shifted => Sure(t)
  BY <1>1, Zenon DEF IteratorInv, Sure
<1>4. Sessions.fin \in Nat /\ MaxSessions \in Nat /\ my[t].at \in Nat
  BY Shape, Bounds
<1>5. CASE Ask(t)
  <2>1. pc'[t] = "scan" /\ my'[t].at = 1 /\ Sessions' = Sessions
    BY <1>5, ScanDoes
  <2>2. QED
    BY <1>4, <2>1 DEF Sure
<1>6. CASE ScanOn(t)
  <2>1. /\ pc[t] = "scan" /\ pc'[t] = "look" /\ my' = my /\ Sessions' = Sessions
        /\ my[t].at <= Sessions.fin
    BY <1>6, ScanDoes DEF vectorVars
  <2>2. ~Ask(t)
    BY <2>1 DEF Ask, Calls, Free
  <2>3. QED
    BY <1>1, <1>2, <1>4, <2>1, <2>2 DEF Sure
<1>7. CASE ScanNext(t)
  <2>1. /\ pc[t] = "look" /\ pc'[t] = "scan"
        /\ Sessions.at[my[t].at] # my[t].ses
        /\ my'[t].ses = my[t].ses /\ my'[t].at = my[t].at + 1
        /\ Sessions' = Sessions
    BY <1>7, ScanDoes DEF vectorVars
  <2>2. ~Ask(t)
    BY <2>1 DEF Ask, Calls, Free
  <2>3. /\ my[t].at <= Sessions.fin
        /\ \A k \in 1..MaxSessions : k < my[t].at => Sessions.at[k] # my[t].ses
    BY <1>1, <1>2, <2>1, <2>2 DEF Sure
  <2>4. \A k \in 1..MaxSessions : k < my[t].at + 1 => k < my[t].at \/ k = my[t].at
    BY <1>4
  <2>5. my[t].at + 1 <= Sessions.fin + 1
    BY <1>4, <2>3
  <2>6. QED
    BY <2>1, <2>3, <2>4, <2>5 DEF Sure
<1>8. CASE ScanMatch(t)
  <2>1. /\ pc[t] = "look" /\ pc'[t] \in {"erase", "return"}
        /\ ids[Sessions.at[my[t].at]] = ids[my[t].ses]
        /\ my'[t].ses = my[t].ses /\ my'[t].at = my[t].at
        /\ pc'[t] = "erase" => my'[t].got = Sessions.at[my[t].at]
        /\ Sessions' = Sessions /\ ids' = ids
    BY <1>8, ScanDoes DEF vectorVars, counterVars
  <2>2. ~Ask(t)
    BY <2>1 DEF Ask, Calls, Free
  <2>3. my[t].at <= Sessions.fin
    BY <1>1, <1>2, <2>1, <2>2 DEF Sure
  <2>4. QED
    BY <2>1, <2>3 DEF Sure, SameId
<1>9. CASE Erase(t)
  <2>1. /\ pc[t] = "erase" /\ pc'[t] \in {"erasing", "lost"}
        /\ my'[t].at = my[t].at /\ my'[t].got = my[t].got
        /\ Sessions' = Sessions
    BY <1>9, EraseDoes DEF vectorVars
  <2>2. ~Ask(t)
    BY <2>1 DEF Ask, Calls, Free
  <2>3. my[t].at <= Sessions.fin /\ Sessions.at[my[t].at] = my[t].got
    BY <1>1, <1>2, <2>1, <2>2 DEF Sure
  <2>4. my'[t].at <= Sessions'.fin /\ Sessions'.at[my'[t].at] = my'[t].got
    BY <2>1, <2>3
  <2>5. pc'[t] \notin {"return", "look", "scan"}
    BY <2>1
  <2>6. QED
    BY <2>4, <2>5, Zenon DEF Sure
<1>10. CASE ~(Ask(t) \/ ScanOn(t) \/ ScanNext(t) \/ ScanMatch(t) \/ Erase(t))
  <2>1. pc'[t] \notin Scanning
    BY <1>10, IntoScan, Zenon
  <2>2. QED
    BY <2>1 DEF Sure, Scanning
<1>11. QED
  BY <1>5, <1>6, <1>7, <1>8, <1>9, <1>10

LEMMA IteratorStep ==
  ASSUME ShapeInv, MakeInv, SlotInv, IteratorInv, ItemsInv,
         NEW t \in Threads, Acts(t)
  PROVE  IteratorInv'
<1> SUFFICES ASSUME ~torn', NEW u \in Threads
             PROVE  /\ pc'[u] \in {"pushing", "erasing"} => my'[u].fin = Sessions'.fin
                    /\ u \notin shifted' => Sure(u)'
  BY Zenon DEF IteratorInv, Sure
<1>1. u \notin shifted' => Sure(u)'
  BY IteratorOfOther, IteratorOfSelf
<1>2. ~torn
  BY VectorKept, Zenon
<1>3. CASE u # t
  <2>1. pc'[u] = pc[u] /\ my'[u] = my[u]
    BY <1>3, Others
  <2>2. pc[u] \in {"pushing", "erasing"} => my[u].fin = Sessions.fin
    BY <1>2, Zenon DEF IteratorInv
  <2>3. CASE PushDone(t) \/ EraseDone(t)
    <3>1. ~Tears(t)
      BY <2>3, Zenon DEF PushDone, EraseDone, Erases
    <3>2. QED
      BY <1>1, <1>3, <2>1, <3>1 DEF Tears
  <2>4. CASE ~PushDone(t) /\ ~EraseDone(t)
    BY <1>1, <2>1, <2>2, <2>4, SlotsKept
  <2>5. QED
    BY <2>3, <2>4
<1>4. CASE u = t
  <2>1. pc'[t] \in {"pushing", "erasing"} =>
          my'[t].fin = Sessions.fin /\ ~PushDone(t) /\ ~EraseDone(t)
    BY EnterDoes, CtorDoes, ScanDoes, EraseDoes, SetDoes, PutDoes DEF Acts
  <2>2. QED
    BY <1>1, <1>4, <2>1, SlotsKept
<1>5. QED
  BY <1>3, <1>4
-----------------------------------------------------------------------------
(* The counter. *)

(* A session past its constructor is stamped with a number.                *)
LEMMA PassedStamp ==
  ASSUME ShapeInv, StampInv, NEW r \in DOMAIN ids, Stamped(r)
  PROVE  /\ r \in Nat /\ ids[r][2] \in Nat
         /\ \E i \in 0..MaxTime, n \in Counter : ids[r] = <<i, n>>
<1>1. ~ \E t \in Threads : pc[t] = "stamp" /\ my[t].ses = r
  BY DEF Stamped
<1>2. PICK i \in 0..MaxTime, n \in Counter : ids[r] = <<i, n>>
  BY <1>1 DEF StampInv
<1>3. ids[r][2] = n /\ n \in Nat
  BY <1>2, Bounds DEF Counter
<1>4. QED
  BY <1>2, <1>3, Shape

(* The sessions that have passed are counted by a number that grows by one *)
(* with each store.                                                        *)
LEMMA PassedCount ==
  ASSUME ShapeInv, MakeInv, SlotInv, ItemsInv, NEW t \in Threads, Acts(t)
  PROVE  /\ Cardinality(Passed) \in Nat /\ Cardinality(Passed)' \in Nat
         /\ Cardinality(Passed)' = IF pc[t] = "store" THEN Cardinality(Passed) + 1
                                   ELSE Cardinality(Passed)
<1>1. IsFiniteSet(Passed) /\ Cardinality(Passed) \in Nat
  BY ToldSize
<1>2. CASE pc[t] = "store"
  <2>1. Passed' = Passed \cup {my[t].ses} /\ my[t].ses \notin Passed
    BY <1>2, Grows
  <2>2. Cardinality(Passed') = Cardinality(Passed) + 1
    BY <1>1, <2>1, FS_AddElement
  <2>3. QED
    BY <1>1, <1>2, <2>2
<1>3. CASE pc[t] # "store"
  <2>1. Passed' = Passed
    BY <1>3, Grows
  <2>2. QED
    BY <1>1, <1>3, <2>1
<1>4. QED
  BY <1>2, <1>3

(* A count that follows n by m sessions at most, or by a round of the      *)
(* counter, does so still when it and the sessions have grown by one, when *)
(* only the sessions have, or when it starts again from 0.                 *)
LEMMA RoundTheCounter ==
  ASSUME NEW n \in Nat, NEW m \in Int, NEW k \in Int, NEW x \in Nat,
         NEW y \in Nat, NEW w \in Nat,
         \/ n + 1 <= x /\ x <= n + 1 + m
         \/ w + x <= m + n + 1,
         \/ y = x /\ (k = m \/ k = m + 1)
         \/ y = x + 1 /\ k = m + 1
         \/ y = 0 /\ x >= w /\ k = m
  PROVE  \/ n + 1 <= y /\ y <= n + 1 + k
         \/ w + y <= k + n + 1
<1>1. CASE y = x /\ (k = m \/ k = m + 1)
  BY <1>1
<1>2. CASE y = x + 1 /\ k = m + 1
  BY <1>2
<1>3. CASE y = 0 /\ x >= w /\ k = m
  BY <1>3
<1>4. QED
  BY <1>1, <1>2, <1>3

LEMMA CounterStep ==
  ASSUME ShapeInv, MakeInv, StampInv, SlotInv, CounterInv, ItemsInv,
         NEW t \in Threads, Acts(t)
  PROVE  CounterInv'
<1> DEFINE P == Cardinality(Passed)
<1> DEFINE Alone(u) == pc[u] \in Ctor /\ my[u].ses \notin clash =>
                         /\ my[u].ses = Len(ids) /\ P = Len(ids) - 1
                         /\ pc[u] # "stamp" => Incremental = ids[my[u].ses][2]
                         /\ pc[u] = "store" => my[u].at = Incremental
<1>1. /\ Incremental <= P
      /\ \A u \in Threads : pc[u] = "store" => my[u].at <= P
      /\ \A u \in Threads : Alone(u)
      /\ \A r \in Passed \ clash :
           /\ After(r, Incremental)
           /\ \A u \in Threads : pc[u] = "store" => After(r, my[u].at)
  BY Zenon DEF CounterInv
<1>2. \A u \in Threads : u # t => pc'[u] = pc[u] /\ my'[u] = my[u]
  BY Others
<1>3. /\ P \in Nat /\ P' \in Nat /\ Incremental \in Nat /\ Wrap \in Nat
      /\ P' = IF pc[t] = "store" THEN P + 1 ELSE P
      /\ Len(ids) \in Nat /\ DOMAIN ids = 1..Len(ids)
      /\ \A u \in Threads : my[u].at \in Nat
  BY PassedCount, Shape, Bounds
<1>4. \A r \in Passed :
        /\ r \in DOMAIN ids /\ r \in Nat /\ ids[r][2] \in Nat /\ ids'[r] = ids[r]
  <2>1. ASSUME NEW r \in Passed
        PROVE  /\ r \in DOMAIN ids /\ Stamped(r)
               /\ pc[t] = "stamp" => my[t].ses # r
    BY DEF Passed, Stamped, Ctor
  <2>2. QED
    BY <2>1, PassedStamp, IdsKept
<1> HIDE DEF P
<1> DEFINE Later(r, y) == LET n == ids'[r][2] m == P' - r IN
                            \/ n + 1 <= y /\ y <= n + 1 + m
                            \/ Wrap + y <= m + n + 1
<1>5. ASSUME NEW r \in Passed, NEW x \in Nat, NEW y \in Nat, After(r, x),
             \/ y = x /\ (P' = P \/ P' = P + 1)
             \/ y = x + 1 /\ P' = P + 1
             \/ y = 0 /\ x >= Wrap /\ P' = P
      PROVE  Later(r, y)
  <2>1. PICK n \in Nat : n = ids[r][2] /\ n = ids'[r][2]
    BY <1>4
  <2>2. PICK m \in Int : m = P - r
    BY <1>3, <1>4
  <2>3. \/ n + 1 <= x /\ x <= n + 1 + m
        \/ Wrap + x <= m + n + 1
    BY <1>5, <2>1, <2>2 DEF After, P
  <2>4. PICK k \in Int : k = P' - r
    BY <1>3, <1>4
  <2>5. r \in Nat /\ P \in Nat /\ P' \in Nat /\ Wrap \in Nat
    BY <1>3, <1>4
  <2>6. \/ y = x /\ (k = m \/ k = m + 1)
        \/ y = x + 1 /\ k = m + 1
        \/ y = 0 /\ x >= Wrap /\ k = m
    <3>1. m = P - r /\ k = P' - r
      BY <2>2, <2>4
    <3>2. CASE y = x /\ (P' = P \/ P' = P + 1)
      <4>1. P' = P => k = m
        BY <3>1
      <4>2. P' = P + 1 => k = m + 1
        BY <2>5, <3>1
      <4>3. QED
        BY <3>2, <4>1, <4>2
    <3>3. CASE y = x + 1 /\ P' = P + 1
      BY <2>5, <3>1, <3>3
    <3>4. CASE y = 0 /\ x >= Wrap /\ P' = P
      BY <2>5, <3>1, <3>4
    <3>5. QED
      BY <1>5, <3>2, <3>3, <3>4
  <2>7. \/ n + 1 <= y /\ y <= n + 1 + k
        \/ Wrap + y <= k + n + 1
    BY <2>3, <2>5, <2>6, RoundTheCounter
  <2>8. QED
    BY <2>1, <2>4, <2>7
<1>51. \A r \in Passed, x \in Nat : After(r, x) => Later(r, x)
  <2>1. P' = P \/ P' = P + 1
    BY <1>3
  <2> HIDE DEF Later
  <2>2. QED
    BY <1>5, <2>1
<1>52. P' = P => \A r \in Passed : After(r, Incremental) /\ Incremental >= Wrap => Later(r, 0)
  <2> HIDE DEF Later
  <2>1. QED
    BY <1>3, <1>5
<1>53. P' = P + 1 => \A r \in Passed : After(r, my[t].at) => Later(r, my[t].at + 1)
  <2> HIDE DEF Later
  <2>1. my[t].at \in Nat /\ my[t].at + 1 \in Nat
    BY <1>3
  <2>2. QED
    BY <1>5, <2>1
<1>6. ASSUME /\ Incremental' <= P'
             /\ \A u \in Threads : pc'[u] = "store" => my'[u].at <= P'
             /\ \A u \in Threads : Alone(u)'
             /\ \A r \in Passed' \ clash' :
                  /\ Later(r, Incremental')
                  /\ \A u \in Threads : pc'[u] = "store" => Later(r, my'[u].at)
      PROVE  CounterInv'
  BY <1>6 DEF CounterInv, After, P
<1> HIDE DEF Later
<1>7. CASE Enter(t)
  <2> DEFINE with == {my[u].ses : u \in {v \in Threads : pc[v] \in Ctor}}
  <2>1. /\ pc[t] \in Free /\ pc'[t] = "stamp" /\ my'[t].ses = Len(ids) + 1
        /\ Len(ids)' = Len(ids) + 1
        /\ Incremental' = IF Incremental >= Wrap THEN 0 ELSE Incremental
        /\ clash' = IF with = {} THEN clash ELSE clash \cup with \cup {Len(ids) + 1}
    BY <1>7, EnterDoes, HistoryKept
  <2>2. P' = P /\ Passed' = Passed
    BY <1>3, <2>1, Grows DEF Free
  <2>3. Alone(t)'
    <3>1. ASSUME Len(ids) + 1 \notin clash'
          PROVE  P = Len(ids)
      <4>1. with = {}
        BY <2>1, <3>1
      <4>2. \A u \in Threads : pc[u] \notin Ctor
        BY <4>1
      <4>3. Passed = DOMAIN ids
        BY <4>2 DEF Passed
      <4>4. QED
        BY <4>3, ToldSize DEF P
    <3>2. QED
      BY <1>3, <2>1, <2>2, <3>1
  <2>4. ASSUME NEW u \in Threads, u # t
        PROVE  Alone(u)'
    <3>1. CASE pc[u] \in Ctor
      <4>1. my[u].ses \in with
        BY <3>1
      <4>2. my[u].ses \in clash'
        BY <2>1, <4>1
      <4>3. QED
        BY <1>2, <2>4, <4>2
    <3>2. CASE pc[u] \notin Ctor
      BY <1>2, <2>4, <3>2
    <3>3. QED
      BY <3>1, <3>2
  <2>5. ASSUME NEW r \in Passed' \ clash'
        PROVE  /\ Later(r, Incremental')
               /\ \A u \in Threads : pc'[u] = "store" => Later(r, my'[u].at)
    <3>1. r \in Passed \ clash
      BY <2>2, <2>5, HistoryKept
    <3>2. Later(r, Incremental')
      <4>1. After(r, Incremental)
        BY <1>1, <3>1
      <4>2. CASE Incremental >= Wrap
        BY <2>1, <2>2, <3>1, <4>1, <4>2, <1>52
      <4>3. CASE ~(Incremental >= Wrap)
        BY <1>3, <2>1, <3>1, <4>1, <4>3, <1>51
      <4>4. QED
        BY <4>2, <4>3
    <3>3. ASSUME NEW u \in Threads, pc'[u] = "store"
          PROVE  Later(r, my'[u].at)
      <4>1. u # t
        BY <2>1, <3>3
      <4>2. pc[u] = "store" /\ my'[u] = my[u]
        BY <1>2, <3>3, <4>1
      <4>3. QED
        BY <1>1, <1>3, <1>51, <2>2, <3>1, <4>2
    <3>4. QED
      BY <3>2, <3>3
  <2>6. Incremental' <= P'
    BY <1>1, <1>3, <2>1, <2>2
  <2>7. \A u \in Threads : pc'[u] = "store" => my'[u].at <= P'
    BY <1>1, <1>2, <2>1, <2>2
  <2> HIDE DEF Alone
  <2>8. QED
    BY <1>6, <2>3, <2>4, <2>5, <2>6, <2>7
<1>8. CASE Store(t)
  <2>1. /\ pc[t] = "store" /\ pc'[t] = "push" /\ Incremental' = my[t].at + 1
        /\ ids' = ids /\ clash' = clash /\ my' = my
    BY <1>8, CtorDoes
  <2>2. P' = P + 1 /\ Passed' = Passed \cup {my[t].ses}
    BY <1>3, <2>1, Grows
  <2>3. my[t].ses \in DOMAIN ids /\ pc[t] \in Ctor
    BY <2>1 DEF MakeInv, Making, Ctor
  <2>4. ASSUME NEW u \in Threads, pc'[u] \in Ctor
        PROVE  u # t /\ my[u].ses \in clash /\ my[t].ses \in clash /\ pc[u] = pc'[u]
    <3>1. u # t
      BY <2>1, <2>4 DEF Ctor
    <3>2. pc[u] \in Ctor /\ pc[u] = pc'[u]
      BY <1>2, <2>4, <3>1
    <3>3. QED
      BY <2>3, <3>1, <3>2 DEF MakeInv
  <2>5. \A u \in Threads : Alone(u)'
    BY <2>1, <2>4
  <2>6. ASSUME NEW r \in Passed' \ clash'
        PROVE  Later(r, Incremental')
    <3>1. CASE r \in Passed
      BY <1>1, <2>1, <2>2, <2>6, <3>1, <1>53
    <3>2. CASE r = my[t].ses
      <4>1. /\ r = Len(ids) /\ P = Len(ids) - 1 /\ my[t].at = Incremental
            /\ Incremental = ids[r][2]
        BY <1>1, <2>1, <2>3, <2>6, <3>2
      <4>2. PICK n \in Nat : n = ids'[r][2] /\ n = my[t].at
        BY <1>3, <2>1, <4>1
      <4>3. n + 1 <= Incremental' /\ Incremental' <= n + 1 + (P' - r)
        BY <1>3, <2>1, <2>2, <4>1, <4>2
      <4>4. QED
        BY <4>2, <4>3 DEF Later
    <3>3. QED
      BY <2>2, <2>6, <3>1, <3>2
  <2>7. ASSUME NEW r \in Passed' \ clash', NEW u \in Threads, pc'[u] = "store"
        PROVE  Later(r, my'[u].at)
    <3>1. u # t /\ my[t].ses \in clash /\ pc[u] = "store" /\ my'[u] = my[u]
      BY <2>1, <2>4, <2>7 DEF Ctor
    <3>2. r \in Passed \ clash
      BY <2>1, <2>2, <2>7, <3>1
    <3>3. QED
      BY <1>1, <1>3, <1>51, <2>2, <3>1, <3>2
  <2>8. Incremental' <= P'
    <3>1. my[t].at <= P /\ my[t].at \in Nat /\ P \in Nat
      BY <1>1, <1>3, <2>1
    <3>2. Incremental' = my[t].at + 1 /\ P' = P + 1
      BY <2>1, <2>2
    <3>3. QED
      BY <3>1, <3>2
  <2>9. \A u \in Threads : pc'[u] = "store" => my'[u].at <= P'
    <3>1. \A u \in Threads : pc'[u] = "store" => u # t
      BY <2>1
    <3>2. ASSUME NEW u \in Threads, pc'[u] = "store"
          PROVE  my'[u].at <= P'
      <4>1. my'[u] = my[u] /\ my[u].at <= P /\ my[u].at \in Nat
        BY <1>1, <1>2, <1>3, <3>1, <3>2
      <4>2. QED
        BY <1>3, <2>2, <4>1
    <3>3. QED
      BY <3>2
  <2> HIDE DEF Alone
  <2>10. QED
    BY <1>6, <2>5, <2>6, <2>7, <2>8, <2>9
<1>9. CASE Stamp(t) \/ Load(t)
  <2>1. /\ pc[t] \in {"stamp", "load"} /\ pc'[t] \in {"load", "store"}
        /\ my'[t].ses = my[t].ses /\ Incremental' = Incremental /\ clash' = clash
        /\ pc'[t] = "store" => my'[t].at = Incremental /\ pc[t] = "load"
        /\ pc'[t] = "load" => pc[t] = "stamp" /\ Stamp(t)
    BY <1>9, CtorDoes DEF counterVars
  <2>2. P' = P /\ Passed' = Passed
    BY <1>3, <2>1, Grows
  <2>3. my[t].ses \in DOMAIN ids /\ pc[t] \in Ctor
    BY <2>1 DEF MakeInv, Making, Ctor
  <2>4. DOMAIN ids' = DOMAIN ids /\ Len(ids)' = Len(ids)
    <3>1. CASE Stamp(t)
      <4>1. ids' = [ids EXCEPT ![my[t].ses] = Append(@, Incremental)]
        BY <3>1, CtorDoes
      <4>2. QED
        BY <1>3, <4>1, Shape
    <3>2. CASE Load(t)
      BY <3>2, CtorDoes DEF counterVars
    <3>3. QED
      BY <1>9, <3>1, <3>2
  <2>5. Alone(t)'
    <3>1. CASE pc'[t] = "store"
      <4>1. ids'[my[t].ses] = ids[my[t].ses]
        BY <2>1, <2>3, <3>1, IdsKept
      <4>2. QED
        BY <1>1, <2>1, <2>2, <2>3, <2>4, <3>1, <4>1
    <3>2. CASE pc'[t] = "load"
      <4>1. ids'[my[t].ses] = Append(ids[my[t].ses], Incremental) /\ pc[t] = "stamp"
        BY <2>1, <2>3, <3>2, CtorDoes
      <4>2. PICK i \in 0..MaxTime : ids[my[t].ses] = <<i>>
        BY <2>3, <4>1 DEF StampInv
      <4>3. ids'[my[t].ses][2] = Incremental
        BY <1>3, <4>1, <4>2, StampPair, Bounds
      <4>4. QED
        BY <1>1, <2>1, <2>2, <2>3, <2>4, <3>2, <4>3
    <3>3. QED
      BY <2>1, <3>1, <3>2
  <2>6. ASSUME NEW u \in Threads, u # t
        PROVE  Alone(u)'
    <3>1. ASSUME pc[u] \in Ctor
          PROVE  my[u].ses \in clash
      BY <2>3, <2>6, <3>1 DEF MakeInv
    <3>2. QED
      BY <1>2, <2>1, <2>6, <3>1
  <2>7. ASSUME NEW r \in Passed' \ clash'
        PROVE  /\ Later(r, Incremental')
               /\ \A u \in Threads : pc'[u] = "store" => Later(r, my'[u].at)
    <3>1. r \in Passed \ clash
      BY <2>1, <2>2, <2>7
    <3>2. Later(r, Incremental')
      BY <1>1, <1>3, <1>51, <2>1, <2>2, <3>1
    <3>3. ASSUME NEW u \in Threads, pc'[u] = "store"
          PROVE  Later(r, my'[u].at)
      <4>1. CASE u = t
        BY <2>1, <3>2, <3>3, <4>1
      <4>2. CASE u # t
        BY <1>1, <1>2, <1>3, <1>51, <2>2, <3>1, <3>3, <4>2
      <4>3. QED
        BY <4>1, <4>2
    <3>4. QED
      BY <3>2, <3>3
  <2>8. Incremental' <= P'
    BY <1>1, <2>1, <2>2
  <2>9. \A u \in Threads : pc'[u] = "store" => my'[u].at <= P'
    BY <1>1, <1>2, <2>1, <2>2
  <2> HIDE DEF Alone
  <2>10. QED
    BY <1>6, <2>5, <2>6, <2>7, <2>8, <2>9
<1>10. CASE ~(Enter(t) \/ Stamp(t) \/ Load(t) \/ Store(t))
  <2>1. /\ pc[t] \notin Ctor /\ pc'[t] \notin Ctor /\ ids' = ids
        /\ Incremental' = Incremental /\ clash' = clash
    BY <1>10, CtorDoes, ScanDoes, EraseDoes, SetDoes, PutDoes
       DEF Acts, counterVars, Ctor, Free
  <2>2. P' = P /\ Passed' = Passed
    BY <1>3, <2>1, Grows DEF Ctor
  <2>3. \A u \in Threads : pc'[u] \in Ctor => u # t /\ pc[u] = pc'[u] /\ my'[u] = my[u]
    BY <1>2, <2>1
  <2>4. \A u \in Threads : Alone(u)'
    BY <1>1, <2>1, <2>2, <2>3
  <2>5. \A u \in Threads : pc'[u] = "store" => pc[u] = "store" /\ my'[u] = my[u]
    BY <2>3 DEF Ctor
  <2>6. ASSUME NEW r \in Passed' \ clash'
        PROVE  /\ Later(r, Incremental')
               /\ \A u \in Threads : pc'[u] = "store" => Later(r, my'[u].at)
    BY <1>1, <1>3, <1>51, <2>1, <2>2, <2>5, <2>6
  <2>7. /\ Incremental' <= P'
        /\ \A u \in Threads : pc'[u] = "store" => my'[u].at <= P'
    BY <1>1, <2>1, <2>2, <2>5
  <2> HIDE DEF Alone
  <2>8. QED
    BY <1>6, <2>4, <2>6, <2>7
<1>11. QED
  BY <1>7, <1>8, <1>9, <1>10

LEMMA DistinctStep ==
  ASSUME ShapeInv, MakeInv, StampInv, SlotInv, CounterInv, DistinctInv, ItemsInv,
         NEW t \in Threads, Acts(t)
  PROVE  DistinctInv'
<1>1. \A r, s \in DOMAIN ids \ clash :
        r < s /\ Stamped(r) /\ Stamped(s) /\ ids[r] = ids[s] => r + Wrap <= s
  BY DEF DistinctInv
<1>2. \A u \in Threads : u # t => pc'[u] = pc[u] /\ my'[u] = my[u]
  BY Others
<1>3. /\ clash \subseteq clash' /\ Len(ids) \in Nat /\ DOMAIN ids = 1..Len(ids)
      /\ \A s \in DOMAIN ids : pc[t] # "stamp" \/ s # my[t].ses => ids'[s] = ids[s]
  BY HistoryKept, IdsKept, Shape
<1>4. \A s : Stamped(s)' <=> \A u \in Threads : my'[u].ses = s => pc'[u] # "stamp"
  BY Zenon DEF Stamped
<1>5. CASE pc[t] # "stamp"
  <2>1. ASSUME NEW s \in DOMAIN ids', Stamped(s)'
        PROVE  s \in DOMAIN ids /\ Stamped(s) /\ ids'[s] = ids[s]
    <3>1. s \in DOMAIN ids
      <4>1. CASE pc'[t] = "stamp"
        <5>1. /\ my'[t].ses = Len(ids) + 1
              /\ DOMAIN ids' = DOMAIN ids \cup {Len(ids) + 1}
          BY <4>1, <1>5, MakingStep DEF Making, Ctor
        <5>2. QED
          BY <1>4, <2>1, <4>1, <5>1
      <4>2. CASE pc'[t] # "stamp"
        <5>1. DOMAIN ids' = DOMAIN ids
          BY <4>2, <1>5, MakingStep
        <5>2. QED
          BY <2>1, <5>1
      <4>3. QED
        BY <4>1, <4>2
    <3>2. Stamped(s)
      <4>1. ASSUME NEW u \in Threads, my[u].ses = s
            PROVE  pc[u] # "stamp"
        BY <1>2, <1>4, <1>5, <2>1, <4>1
      <4>2. QED
        BY <4>1 DEF Stamped
    <3>3. QED
      BY <1>3, <1>5, <3>1, <3>2
  <2>2. ASSUME NEW r \in DOMAIN ids' \ clash', NEW s \in DOMAIN ids' \ clash',
               r < s, Stamped(r)', Stamped(s)', ids'[r] = ids'[s]
        PROVE  r + Wrap <= s
    <3>1. /\ r \in DOMAIN ids \ clash /\ Stamped(r) /\ ids'[r] = ids[r]
          /\ s \in DOMAIN ids \ clash /\ Stamped(s) /\ ids'[s] = ids[s]
      BY <1>3, <2>1, <2>2
    <3>2. QED
      BY <1>1, <2>2, <3>1
  <2>3. QED
    BY <2>2, Zenon DEF DistinctInv
<1>6. CASE pc[t] = "stamp"
  <2>1. Stamp(t)
    BY <1>6, EnterDoes, CtorDoes, ScanDoes, EraseDoes, SetDoes, PutDoes
       DEF Acts, Free
  <2>2. PICK m : m = my[t].ses
    OBVIOUS
  <2>3. /\ ids' = [ids EXCEPT ![m] = Append(@, Incremental)]
        /\ my' = my /\ clash' = clash /\ DOMAIN ids' = DOMAIN ids
        /\ m \in DOMAIN ids /\ pc[t] \in Ctor
    BY <1>6, <2>1, <2>2, CtorDoes DEF MakeInv, Making, Ctor
  <2>4. ASSUME m \notin clash, NEW r \in DOMAIN ids \ clash, r # m
        PROVE  r \in Passed /\ r < m
    <3>1. m = Len(ids)
      BY <2>2, <2>3, <2>4 DEF CounterInv
    <3>2. r < m
      BY <1>3, <2>4, <3>1
    <3>3. ASSUME NEW u \in Threads, my[u].ses = r, pc[u] \in Ctor
          PROVE  FALSE
      <4>1. u # t
        BY <2>2, <2>4, <3>3
      <4>2. my[t].ses \in clash
        BY <2>3, <3>3, <4>1 DEF MakeInv
      <4>3. QED
        BY <2>2, <2>4, <4>2
    <3>4. QED
      BY <3>2, <3>3 DEF Passed
  <2>5. ASSUME NEW r \in DOMAIN ids \ clash, r # m, m \notin clash, ids'[r] = ids'[m]
        PROVE  r + Wrap <= m
    <3>1. r \in Passed \ clash /\ r < m /\ Stamped(r)
      BY <2>4, <2>5 DEF Passed, Stamped, Ctor
    <3>2. /\ After(r, Incremental) /\ m = Len(ids)
          /\ Cardinality(Passed) = Len(ids) - 1
      BY <2>2, <2>3, <2>5, <3>1 DEF CounterInv
    <3>3. ids'[r] = ids[r] /\ r \in Nat /\ ids[r][2] \in Nat /\ Wrap \in Nat
      BY <1>3, <2>2, <2>5, <3>1, PassedStamp, Bounds
    <3>4. ids'[m][2] = Incremental
      <4>1. PICK i \in 0..MaxTime : ids[m] = <<i>>
        BY <1>6, <2>2, <2>3 DEF StampInv
      <4>2. i \in Nat /\ Incremental \in Nat
        BY Shape, Bounds
      <4>3. ids'[m] = <<i, Incremental>>
        BY <2>3, <4>1, <4>2, StampPair
      <4>4. QED
        BY <4>3
    <3>5. ids[r][2] = Incremental /\ Incremental \in Nat
      BY <2>5, <3>3, <3>4
    <3>6. Wrap + Incremental <= (m - 1 - r) + Incremental + 1
      BY <1>3, <3>2, <3>3, <3>5 DEF After
    <3>7. QED
      BY <1>3, <3>2, <3>3, <3>5, <3>6
  <2>6. ASSUME NEW r \in DOMAIN ids' \ clash', NEW s \in DOMAIN ids' \ clash',
               r < s, Stamped(r)', Stamped(s)', ids'[r] = ids'[s]
        PROVE  r + Wrap <= s
    <3>0. r # s /\ r \in Nat /\ s \in Nat
      BY <1>3, <2>3, <2>6
    <3>1. CASE s = m
      BY <2>3, <2>5, <2>6, <3>0, <3>1
    <3>2. CASE r = m
      BY <1>3, <2>3, <2>4, <2>6, <3>0, <3>2
    <3>3. CASE r # m /\ s # m
      <4>1. /\ ids'[r] = ids[r] /\ ids'[s] = ids[s]
            /\ r \in DOMAIN ids \ clash /\ s \in DOMAIN ids \ clash
        BY <2>3, <2>6, <3>3
      <4>2. \A u \in Threads : my[u].ses \in {r, s} => u # t
        BY <2>2, <3>3
      <4>3. Stamped(r) /\ Stamped(s)
        <5>1. ASSUME NEW u \in Threads, my[u].ses \in {r, s}
              PROVE  pc[u] # "stamp"
          BY <1>2, <1>4, <2>6, <4>2, <5>1
        <5>2. QED
          BY <5>1 DEF Stamped
      <4>4. QED
        BY <1>1, <2>6, <4>1, <4>3
    <3>4. QED
      BY <3>1, <3>2, <3>3
  <2>7. QED
    BY <2>6, Zenon DEF DistinctInv
<1>7. QED
  BY <1>5, <1>6
-----------------------------------------------------------------------------
(* What the vector holds. *)

(* There is a slot for the session that a push_back is to add.             *)
LEMMA RoomToPush ==
  ASSUME ShapeInv, MakeInv, SlotInv, ItemsInv, NEW t \in Threads, PushDone(t)
  PROVE  /\ Sessions.fin + 1 <= MaxSessions /\ my[t].ses \notin Told
         /\ my[t].ses \in DOMAIN ids
<1>1. my[t].ses \in DOMAIN ids /\ my[t].ses \notin Told /\ Told \subseteq DOMAIN ids
  <2>1. pc[t] = "pushing"
    BY CtorDoes
  <2>2. my[t].ses \in DOMAIN ids
    BY <2>1 DEF MakeInv, Making
  <2>3. QED
    BY <2>1, <2>2 DEF Told
<1>2. /\ IsFiniteSet(Told) /\ Cardinality(Told) \in Nat /\ IsFiniteSet(DOMAIN ids)
      /\ Cardinality(DOMAIN ids) = Len(ids) /\ Len(ids) <= MaxSessions
      /\ MaxSessions \in Nat /\ Len(ids) \in Nat
  BY ToldSize, Shape, Bounds
<1>3. Cardinality(Told \cup {my[t].ses}) = Cardinality(Told) + 1
  BY <1>1, <1>2, FS_AddElement
<1>4. Told \cup {my[t].ses} \in SUBSET DOMAIN ids
  BY <1>1
<1>5. Cardinality(Told \cup {my[t].ses}) <= Cardinality(DOMAIN ids)
  BY <1>2, <1>4, FS_Subset
<1>6. Sessions.fin <= Cardinality(Told) /\ Sessions.fin \in Nat
  BY Shape DEF SlotInv
<1>7. QED
  BY <1>1, <1>2, <1>3, <1>5, <1>6

LEMMA ExactStep ==
  ASSUME ShapeInv, MakeInv, SlotInv, IteratorInv, ItemsInv, SessionsExact,
         NEW t \in Threads, Acts(t)
  PROVE  SessionsExact'
<1> SUFFICES ASSUME ~torn'
             PROVE  HoldsExactly(Sessions, live)'
  BY Zenon DEF SessionsExact
<1>1. ~torn
  BY VectorKept, Zenon
<1>2. HoldsExactly(Sessions, live)
  BY <1>1, Zenon DEF SessionsExact
<1>3. /\ Sessions \in [at : [1..MaxSessions -> 0..MaxSessions], fin : Nat]
      /\ Sessions.fin \in Nat /\ MaxSessions \in Nat
  BY Shape, Bounds
<1>4. CASE PushDone(t)
  <2>1. /\ pc[t] = "pushing" /\ live' = live \cup {my[t].ses}
        /\ Sessions' = PutAt(Sessions, my[t].fin, my[t].ses)
    BY <1>4, Zenon, CtorDoes
  <2>2. my[t].fin = Sessions.fin
    BY <1>1, <2>1, Zenon DEF IteratorInv
  <2>3. my[t].ses \notin live /\ Sessions.fin < MaxSessions
    <3>1. Sessions.fin + 1 <= MaxSessions /\ my[t].ses \notin Told
      BY <1>4, RoomToPush
    <3>2. live \subseteq Told
      BY DEF MakeInv
    <3>3. QED
      BY <1>3, <3>1, <3>2
  <2>4. HoldsExactly(PutAt(Sessions, Sessions.fin, my[t].ses), live \cup {my[t].ses})
    BY <1>2, <1>3, <2>3, PushExact, Zenon
  <2>5. QED
    BY <2>1, <2>2, <2>4, Zenon
<1>5. CASE EraseDone(t)
  <2>1. /\ pc[t] = "erasing" /\ live' = live \ {my[t].got}
        /\ Sessions' = CutAt(Sessions, my[t].at, my[t].fin)
    BY <1>5, Zenon, EraseDoes
  <2>2. /\ my[t].fin = Sessions.fin /\ my[t].at <= Sessions.fin
        /\ Sessions.at[my[t].at] = my[t].got
    <3>1. t \notin shifted
      BY <1>5, VectorKept
    <3>2. QED
      BY <1>1, <2>1, <3>1, Zenon DEF IteratorInv
  <2>3. my[t].at \in 1..Sessions.fin /\ Sessions.fin <= MaxSessions
    <3>1. my[t].at >= 1 /\ Sessions.fin <= MaxSessions /\ my[t].at \in Nat
      BY <2>1, IteratorAt, Shape DEF Scanning
    <3>2. QED
      BY <1>3, <2>2, <3>1
  <2>4. HoldsExactly(CutAt(Sessions, my[t].at, Sessions.fin),
                     live \ {Sessions.at[my[t].at]})
    BY <1>2, <1>3, <2>3, CutExact, Zenon
  <2>5. QED
    BY <2>1, <2>2, <2>4, Zenon
<1>6. CASE ~PushDone(t) /\ ~EraseDone(t)
  <2>1. Sessions' = Sessions /\ live' = live
    BY <1>6, SlotsKept, VectorKept
  <2>2. QED
    BY <1>2, <2>1, Zenon
<1>7. QED
  BY <1>4, <1>5, <1>6

LEMMA SoundStep ==
  ASSUME ShapeInv, MakeInv, SlotInv, IteratorInv, ItemsInv, SessionsExact,
         ScanSound, NEW t \in Threads, Acts(t)
  PROVE  ScanSound'
<1> SUFFICES ASSUME ~torn', NEW u \in Threads, u \notin shifted'
             PROVE  pc'[u] # "lost" /\ (pc'[u] = "none" => my'[u].ses \notin live')
  BY Zenon DEF ScanSound
<1>1. ~torn
  BY VectorKept, Zenon
<1>2. \A w \in Threads : w \notin shifted =>
        pc[w] # "lost" /\ (pc[w] = "none" => my[w].ses \notin live)
  BY <1>1, Zenon DEF ScanSound
<1>3. CASE u # t
  <2>1. pc'[u] = pc[u] /\ my'[u] = my[u]
    BY <1>3, Others
  <2>2. u \notin shifted
    <3>1. \/ shifted \subseteq shifted'
          \/ shifted' = shifted \ {t}
      BY VectorKept, CtorDoes, EraseDoes
    <3>2. QED
      BY <1>3, <3>1
  <2>3. ASSUME pc[u] = "none"
        PROVE  my[u].ses \notin live'
    <3>1. my[u].ses \in Told
      BY <2>3 DEF MakeInv, Seeking
    <3>2. live' \subseteq IF pc[t] = "pushing" THEN live \cup {my[t].ses} ELSE live
      BY HistoryKept
    <3>3. pc[t] = "pushing" => my[t].ses \notin Told
      BY Grows
    <3>4. QED
      BY <1>2, <2>2, <2>3, <3>1, <3>2, <3>3
  <2>4. QED
    BY <1>2, <2>1, <2>2, <2>3
<1>4. CASE u = t
  <2>1. CASE ScanEnds(t)
    <3>1. /\ pc[t] = "scan" /\ pc'[t] = "none" /\ my[t].at = Sessions.fin + 1
          /\ my'[t].ses = my[t].ses /\ live' = live /\ shifted' = shifted
      BY <2>1, ScanDoes DEF vectorVars
    <3>2. \A k \in 1..MaxSessions : k < my[t].at => Sessions.at[k] # my[t].ses
      BY <1>1, <1>4, <3>1, Zenon DEF IteratorInv
    <3>3. /\ Elements(Sessions) = live /\ Sessions.fin \in Nat
          /\ DOMAIN Sessions.at = 1..MaxSessions
      <4>1. HoldsExactly(Sessions, live)
        BY <1>1, Zenon DEF SessionsExact
      <4>2. QED
        BY <4>1, Shape DEF HoldsExactly
    <3>4. \A k \in 1..MaxSessions : k <= Sessions.fin => Sessions.at[k] # my[t].ses
      BY <3>1, <3>2, <3>3
    <3>5. my[t].ses \notin Elements(Sessions)
      BY <3>3, <3>4 DEF Elements
    <3>6. QED
      BY <1>4, <3>1, <3>3, <3>5
  <2>2. CASE ScanRunsOff(t)
    <3>1. pc[t] = "scan" /\ my[t].at > Sessions.fin + 1 /\ shifted' = shifted
      BY <2>2, ScanDoes DEF vectorVars
    <3>2. my[t].at <= Sessions.fin + 1
      BY <1>1, <1>4, <3>1, Zenon DEF IteratorInv
    <3>3. QED
      BY <3>1, <3>2, Shape
  <2>3. CASE Erase(t)
    <3>1. /\ pc[t] = "erase" /\ shifted' = shifted
          /\ pc'[t] = IF my[t].at <= Sessions.fin THEN "erasing" ELSE "lost"
      BY <2>3, EraseDoes DEF vectorVars
    <3>2. my[t].at <= Sessions.fin
      BY <1>1, <1>4, <3>1, Zenon DEF IteratorInv
    <3>3. QED
      BY <1>4, <3>1, <3>2
  <2>4. CASE ~(ScanEnds(t) \/ ScanRunsOff(t) \/ Erase(t))
    <3>1. pc'[t] \notin {"none", "lost"}
      BY <2>4, EnterDoes, CtorDoes, ScanDoes, EraseDoes, SetDoes, PutDoes DEF Acts
    <3>2. QED
      BY <1>4, <3>1
  <2>5. QED
    BY <2>1, <2>2, <2>3, <2>4
<1>5. QED
  BY <1>3, <1>4
-----------------------------------------------------------------------------
(* The variables of a session. *)

(* The steps that are none of setStringValue leave them alone.             *)
LEMMA ItemsKept ==
  ASSUME ShapeInv, MakeInv, SlotInv, ItemsInv, NEW t \in Threads, Acts(t)
  PROVE  \/ \E n \in Names, v \in Values : SetStringValue(t, n, v)
         \/ Write(t) \/ Put(t) \/ PutDone(t)
         \/ /\ pc[t] \notin Setter /\ pc'[t] \notin Setter
            /\ Items' = Items /\ objects' = objects /\ last' = last
            /\ mixed' = mixed /\ calls' \in {calls, calls + 1}
<1> USE DEF itemVars, Setter, Free
<1>1. CASE Enter(t) \/ Stamp(t) \/ Load(t) \/ Store(t) \/ Push(t) \/ PushDone(t)
  BY <1>1, EnterDoes, CtorDoes
<1>2. CASE \/ Ask(t) \/ ScanOn(t) \/ ScanEnds(t) \/ ScanRunsOff(t) \/ ScanNext(t)
           \/ ScanMatch(t) \/ Return(t) \/ Erase(t) \/ EraseDone(t)
  BY <1>2, ScanDoes, EraseDoes
<1>3. QED
  BY <1>1, <1>2 DEF Acts

(* What ItemsInv asks of a session, and of a thread that sets a variable.  *)
LEMMA ItemsStep ==
  ASSUME ShapeInv, MakeInv, SlotInv, ItemsInv, NEW t \in Threads, Acts(t)
  PROVE  ItemsInv'
<1> DEFINE C == Cardinality(Busy)
<1> DEFINE Room(s) == /\ Items[s].fin + C <= calls
                      /\ \A k \in 1..MaxCalls : k <= Items[s].fin =>
                           Items[s].at[k] \in DOMAIN objects[s]
<1> DEFINE Work(u) == /\ my[u].obj \in DOMAIN objects[held[u]]
                      /\ my[u].var \in Names
                      /\ pc[u] = "putting" =>
                           /\ my[u].fin + C <= calls
                           /\ \A k \in 1..MaxCalls : k <= my[u].fin =>
                                Items[held[u]].at[k] \in DOMAIN objects[held[u]]
<1>1. (\A s \in 1..MaxSessions : Room(s)) /\ (\A u \in Busy : Work(u))
  BY Zenon DEF ItemsInv
<1>2. \A u \in Threads : u # t =>
        pc'[u] = pc[u] /\ my'[u] = my[u] /\ held'[u] = held[u]
  BY Others
<1>3. /\ IsFiniteSet(Busy) /\ C \in Nat /\ calls \in Nat /\ MaxCalls \in Nat
      /\ \A u \in Threads : my[u].fin \in Nat
      /\ \A s \in 1..MaxSessions : Items[s].fin \in Nat
  BY ItemsFit, Shape, Bounds, ItemShape
<1>4. \A u \in Busy : u \in Threads /\ pc[u] \in Setter /\ held[u] \in 1..MaxSessions
  <2>1. \A u \in Busy : u \in Threads /\ pc[u] \in Setter /\ held[u] # 0
    BY DEF Busy, MakeInv
  <2>2. QED
    BY <2>1, Shape, Bounds
<1>5. \A u : u \in Busy' <=> u \in Threads /\ pc'[u] \in Setter
  BY DEF Busy
<1>6. \A u : u \in Busy <=> u \in Threads /\ pc[u] \in Setter
  BY DEF Busy
<1>7. CASE /\ pc[t] \notin Setter /\ pc'[t] \notin Setter
           /\ Items' = Items /\ objects' = objects
           /\ calls' \in {calls, calls + 1}
  <2>1. Busy' = Busy
    BY <1>2, <1>5, <1>6, <1>7
  <2>2. C' = C
    BY <2>1
  <2>3. \A u \in Busy : u # t
    BY <1>6, <1>7
  <2> HIDE DEF C
  <2>4. ASSUME NEW s \in 1..MaxSessions
        PROVE  Room(s)'
    <3>1. Items[s].fin + C <= calls => Items[s].fin + C <= calls'
      BY <1>3, <1>7
    <3>2. QED
      BY <1>1, <1>7, <2>2, <3>1
  <2>5. ASSUME NEW u \in Busy'
        PROVE  Work(u)'
    <3>1. u \in Busy /\ pc'[u] = pc[u] /\ my'[u] = my[u] /\ held'[u] = held[u]
      BY <1>2, <1>4, <2>1, <2>3, <2>5
    <3>2. my[u].fin + C <= calls => my[u].fin + C <= calls'
      BY <1>3, <1>4, <1>7, <3>1
    <3>3. QED
      BY <1>1, <1>7, <2>2, <3>1, <3>2
  <2>6. QED
    <3> HIDE DEF Room, Work
    <3>1. (\A s \in 1..MaxSessions : Room(s)') /\ (\A u \in Busy' : Work(u)')
      BY <2>4, <2>5
    <3>2. QED
      BY <3>1, Zenon DEF ItemsInv, Room, Work, C
<1>8. CASE \E n \in Names, v \in Values : SetStringValue(t, n, v)
  <2>1. /\ pc[t] \in Free /\ pc'[t] = "write" /\ held'[t] = held[t]
        /\ held[t] \in 1..MaxSessions /\ my'[t].obj \in DOMAIN objects'[held[t]]
        /\ my'[t].var \in Names /\ calls' = calls + 1 /\ Items' = Items
        /\ \A r \in 1..MaxSessions : DOMAIN objects[r] \subseteq DOMAIN objects'[r]
    BY <1>8, SetDoes
  <2>2. t \notin Busy /\ Busy' = Busy \cup {t}
    BY <1>2, <1>5, <1>6, <2>1 DEF Free, Setter
  <2>3. C' = C + 1
    <3>1. Cardinality(Busy') = Cardinality(Busy) + 1
      BY <1>3, <2>2, FS_AddElement
    <3>2. QED
      BY <3>1
  <2> HIDE DEF C
  <2>4. ASSUME NEW s \in 1..MaxSessions
        PROVE  Room(s)'
    <3>1. Items'[s].fin + C' <= calls'
      BY <1>1, <1>3, <2>1, <2>3
    <3>2. QED
      BY <1>1, <2>1, <3>1
  <2>5. ASSUME NEW u \in Busy'
        PROVE  Work(u)'
    <3>1. CASE u = t
      BY <2>1, <3>1
    <3>2. CASE u # t
      <4>1. /\ u \in Busy /\ pc'[u] = pc[u] /\ my'[u] = my[u] /\ held'[u] = held[u]
            /\ held[u] \in 1..MaxSessions
        BY <1>2, <1>4, <2>2, <2>5, <3>2
      <4>2. ASSUME pc[u] = "putting"
            PROVE  my[u].fin + C' <= calls'
        <5>1. my[u].fin + C <= calls /\ my[u].fin \in Nat
          BY <1>1, <1>3, <1>4, <4>1, <4>2
        <5>2. QED
          BY <1>3, <2>1, <2>3, <5>1
      <4>3. QED
        BY <1>1, <2>1, <4>1, <4>2
    <3>3. QED
      BY <3>1, <3>2
  <2>6. QED
    <3> HIDE DEF Room, Work
    <3>1. (\A s \in 1..MaxSessions : Room(s)') /\ (\A u \in Busy' : Work(u)')
      BY <2>4, <2>5
    <3>2. QED
      BY <3>1, Zenon DEF ItemsInv, Room, Work, C
<1>9. CASE Write(t) \/ Put(t)
  <2>1. /\ pc[t] \in {"write", "put"} /\ pc'[t] \in {"put", "putting"}
        /\ held' = held /\ Items' = Items /\ calls' = calls
        /\ my'[t].obj = my[t].obj /\ my'[t].var = my[t].var
        /\ pc'[t] = "putting" => my'[t].fin = Items[held[t]].fin
        /\ \A r \in 1..MaxSessions : DOMAIN objects'[r] = DOMAIN objects[r]
    BY <1>9, PutDoes DEF itemVars
  <2>2. Busy' = Busy /\ t \in Busy
    BY <1>2, <1>5, <1>6, <2>1 DEF Setter
  <2>3. C' = C
    BY <2>2
  <2> HIDE DEF C
  <2>4. \A s \in 1..MaxSessions : Room(s)'
    BY <1>1, <2>1, <2>3
  <2>5. ASSUME NEW u \in Busy'
        PROVE  Work(u)'
    <3>1. CASE u = t
      BY <1>1, <1>4, <2>1, <2>2, <2>3, <3>1
    <3>2. CASE u # t
      <4>1. /\ u \in Busy /\ pc'[u] = pc[u] /\ my'[u] = my[u] /\ held'[u] = held[u]
            /\ held[u] \in 1..MaxSessions
        BY <1>2, <1>4, <2>2, <2>5, <3>2
      <4>2. QED
        BY <1>1, <2>1, <2>3, <4>1
    <3>3. QED
      BY <3>1, <3>2
  <2>6. QED
    <3> HIDE DEF Room, Work
    <3>1. (\A s \in 1..MaxSessions : Room(s)') /\ (\A u \in Busy' : Work(u)')
      BY <2>4, <2>5
    <3>2. QED
      BY <3>1, Zenon DEF ItemsInv, Room, Work, C
<1>10. CASE PutDone(t)
  <2> DEFINE h == held[t]
  <2>1. /\ pc[t] = "putting" /\ pc'[t] = "idle" /\ h \in 1..MaxSessions
        /\ Items'[h] = PutAt(Items[h], my[t].fin, my[t].obj)
        /\ \A r \in 1..MaxSessions : r # h => Items'[r] = Items[r]
        /\ objects' = objects /\ calls' = calls /\ held' = held
    BY <1>10, PutDoes
  <2>2. t \in Busy /\ Busy' = Busy \ {t}
    BY <1>2, <1>5, <1>6, <2>1 DEF Setter
  <2>3. C' = C - 1
    <3>1. Cardinality(Busy \ {t}) = Cardinality(Busy) - 1
      BY <1>3, <2>2, FS_RemoveElement
    <3>2. QED
      BY <2>2, <3>1
  <2> HIDE DEF C
  <2>4. /\ my[t].fin + C <= calls /\ my[t].fin \in Nat
        /\ \A k \in 1..MaxCalls : k <= my[t].fin => Items[h].at[k] \in DOMAIN objects[h]
        /\ my[t].obj \in DOMAIN objects[h]
    BY <1>1, <1>3, <2>1, <2>2
  <2>5. /\ Items'[h].fin = my[t].fin + 1
        /\ \A k \in 1..MaxCalls :
             Items'[h].at[k] = IF k = my[t].fin + 1 THEN my[t].obj
                               ELSE Items[h].at[k]
    <3>1. Items[h].at \in [1..MaxCalls -> Nat]
      BY <2>1, ItemShape
    <3> DEFINE a == [Items[h].at EXCEPT ![my[t].fin + 1] = my[t].obj]
    <3>2. Items'[h] = [at |-> a, fin |-> my[t].fin + 1]
      BY <2>1 DEF PutAt
    <3>3. \A k \in 1..MaxCalls :
            a[k] = IF k = my[t].fin + 1 THEN my[t].obj ELSE Items[h].at[k]
      BY <3>1
    <3> HIDE DEF a
    <3>4. QED
      BY <3>2, <3>3
  <2> HIDE DEF h
  <2>6. ASSUME NEW s \in 1..MaxSessions
        PROVE  Room(s)'
    <3>1. CASE s = h
      <4>1. Items'[s].fin + C' <= calls'
        BY <1>3, <2>1, <2>3, <2>4, <2>5, <3>1
      <4>2. \A k \in 1..MaxCalls : k <= my[t].fin + 1 =>
              k <= my[t].fin \/ k = my[t].fin + 1
        BY <2>4
      <4>3. QED
        BY <2>1, <2>4, <2>5, <3>1, <4>1, <4>2
    <3>2. CASE s # h
      <4>1. Items'[s].fin + C' <= calls'
        BY <1>1, <1>3, <2>1, <2>3, <3>2
      <4>2. QED
        BY <1>1, <2>1, <3>2, <4>1
    <3>3. QED
      BY <3>1, <3>2
  <2>7. ASSUME NEW u \in Busy'
        PROVE  Work(u)'
    <3>1. /\ u \in Busy /\ u # t /\ pc'[u] = pc[u] /\ my'[u] = my[u]
          /\ held'[u] = held[u] /\ held[u] \in 1..MaxSessions
      BY <1>2, <1>4, <2>2, <2>7
    <3>2. ASSUME pc[u] = "putting"
          PROVE  my[u].fin + C' <= calls'
      <4>1. my[u].fin + C <= calls /\ my[u].fin \in Nat
        BY <1>1, <1>3, <1>4, <3>1, <3>2
      <4>2. QED
        BY <1>3, <2>1, <2>3, <4>1
    <3>3. ASSUME pc[u] = "putting", NEW k \in 1..MaxCalls, k <= my[u].fin
          PROVE  Items'[held[u]].at[k] \in DOMAIN objects[held[u]]
      <4>1. CASE held[u] = h
        BY <1>1, <2>4, <2>5, <3>1, <3>3, <4>1
      <4>2. CASE held[u] # h
        BY <1>1, <2>1, <3>1, <3>3, <4>2
      <4>3. QED
        BY <4>1, <4>2
    <3>4. QED
      BY <1>1, <2>1, <3>1, <3>2, <3>3
  <2>8. QED
    <3> HIDE DEF Room, Work
    <3>1. (\A s \in 1..MaxSessions : Room(s)') /\ (\A u \in Busy' : Work(u)')
      BY <2>6, <2>7
    <3>2. QED
      BY <3>1, Zenon DEF ItemsInv, Room, Work, C
<1>11. QED
  BY <1>7, <1>8, <1>9, <1>10, ItemsKept
(* A session whose variables a step leaves alone, with those who set them. *)
LEMMA VarFrame ==
  ASSUME NEW s, VarsRight(s),
         Setters(s)' = Setters(s),
         \A u \in Setters(s) :
           /\ pc'[u] = pc[u] /\ my'[u] = my[u]
           /\ objects'[s][my[u].obj] = objects[s][my[u].obj],
         Items'[s] = Items[s],
         \A k \in 1..Items[s].fin : Item(s, k)' = Item(s, k),
         last'[s] = last[s]
  PROVE  VarsRight(s)'
<1>1. \A t, u \in Setters(s) : t = u
  BY DEF VarsRight
<1>2. \A i, k \in 1..Items[s].fin :
        Item(s, i).Var = Item(s, k).Var => Items[s].at[i] = Items[s].at[k]
  BY DEF VarsRight
<1>3. \A n \in Names : (\A t \in Setters(s) : my[t].var # n) =>
        /\ \A k \in 1..Items[s].fin : Item(s, k).Var = n => Item(s, k).Val = last[s][n]
        /\ (\A k \in 1..Items[s].fin : Item(s, k).Var # n) => last[s][n] = Empty
  BY Zenon DEF VarsRight
<1>4. \A t \in Setters(s) :
        /\ last[s][my[t].var] = my[t].val
        /\ \A k \in 1..Items[s].fin :
             Item(s, k).Var = my[t].var => Items[s].at[k] = my[t].obj
        /\ pc[t] = "write" =>
             \A k \in 1..Items[s].fin :
               Items[s].at[k] = my[t].obj => Item(s, k).Var = my[t].var
        /\ pc[t] # "write" =>
             objects[s][my[t].obj] = [Var |-> my[t].var, Val |-> my[t].val]
        /\ pc[t] = "putting" => my[t].fin = Items[s].fin
  BY Zenon DEF VarsRight
<1>5. \A i, k \in 1..Items'[s].fin :
        Item(s, i)'.Var = Item(s, k)'.Var => Items'[s].at[i] = Items'[s].at[k]
  BY <1>2
<1>6. \A n \in Names : (\A t \in Setters(s)' : my'[t].var # n) =>
        /\ \A k \in 1..Items'[s].fin :
             Item(s, k)'.Var = n => Item(s, k)'.Val = last'[s][n]
        /\ (\A k \in 1..Items'[s].fin : Item(s, k)'.Var # n) => last'[s][n] = Empty
  BY <1>3
<1>7. \A t \in Setters(s)' :
        /\ last'[s][my'[t].var] = my'[t].val
        /\ \A k \in 1..Items'[s].fin :
             Item(s, k)'.Var = my'[t].var => Items'[s].at[k] = my'[t].obj
        /\ pc'[t] = "write" =>
             \A k \in 1..Items'[s].fin :
               Items'[s].at[k] = my'[t].obj => Item(s, k)'.Var = my'[t].var
        /\ pc'[t] # "write" =>
             objects'[s][my'[t].obj] = [Var |-> my'[t].var, Val |-> my'[t].val]
        /\ pc'[t] = "putting" => my'[t].fin = Items'[s].fin
  BY <1>4
<1>8. QED
  BY <1>1, <1>5, <1>6, <1>7, Zenon DEF VarsRight

LEMMA VarStep ==
  ASSUME ShapeInv, MakeInv, SlotInv, ItemsInv, VarInv,
         NEW t \in Threads, Acts(t)
  PROVE  VarInv'
<1> SUFFICES ASSUME NEW s \in (1..MaxSessions) \ mixed'
             PROVE  VarsRight(s)'
  BY Zenon DEF VarInv
<1>1. VarsRight(s) /\ s \in 1..MaxSessions
  BY HistoryKept DEF VarInv
<1>2. \A u \in Threads : u # t =>
        pc'[u] = pc[u] /\ my'[u] = my[u] /\ held'[u] = held[u]
  BY Others
<1>3. /\ Items[s].fin \in Nat
      /\ \A k \in 1..Items[s].fin :
           k \in 1..MaxCalls /\ Items[s].at[k] \in DOMAIN objects[s]
  BY <1>1, ItemsFit
<1>4. /\ \A u : u \in Setters(s) <=> u \in Threads /\ pc[u] \in Setter /\ held[u] = s
      /\ \A u : u \in Setters(s)' <=> u \in Threads /\ pc'[u] \in Setter /\ held'[u] = s
  BY DEF Setters
<1>5. \A u \in Setters(s) :
        my[u].obj \in DOMAIN objects[s] /\ my[u].var \in Names
  BY <1>4 DEF ItemsInv, Busy
<1>6. /\ \A u, v \in Setters(s) : u = v
      /\ \A i, k \in 1..Items[s].fin :
           Item(s, i).Var = Item(s, k).Var => Items[s].at[i] = Items[s].at[k]
      /\ \A n \in Names : (\A u \in Setters(s) : my[u].var # n) =>
           /\ \A k \in 1..Items[s].fin : Item(s, k).Var = n => Item(s, k).Val = last[s][n]
           /\ (\A k \in 1..Items[s].fin : Item(s, k).Var # n) => last[s][n] = Empty
      /\ \A u \in Setters(s) :
           /\ last[s][my[u].var] = my[u].val
           /\ \A k \in 1..Items[s].fin :
                Item(s, k).Var = my[u].var => Items[s].at[k] = my[u].obj
           /\ pc[u] = "write" =>
                \A k \in 1..Items[s].fin :
                  Items[s].at[k] = my[u].obj => Item(s, k).Var = my[u].var
           /\ pc[u] # "write" =>
                objects[s][my[u].obj] = [Var |-> my[u].var, Val |-> my[u].val]
           /\ pc[u] = "putting" => my[u].fin = Items[s].fin
  BY <1>1, Zenon DEF VarsRight
<1>7. \A k : Item(s, k) = objects[s][Items[s].at[k]] /\
             Item(s, k)' = objects'[s][Items'[s].at[k]]
  BY DEF Item
<1>8. ASSUME Items'[s] = Items[s], last'[s] = last[s],
             \A k \in DOMAIN objects[s] : objects'[s][k] = objects[s][k],
             pc[t] \in Setter => held[t] # s,
             pc'[t] \in Setter => held'[t] # s
      PROVE  VarsRight(s)'
  <2>1. \A u \in Threads : u \in Setters(s) <=> u \in Setters(s)'
    BY <1>2, <1>4, <1>8
  <2>2. Setters(s)' = Setters(s)
    BY <1>4, <2>1
  <2>3. \A u \in Setters(s) : /\ pc'[u] = pc[u] /\ my'[u] = my[u]
                              /\ objects'[s][my[u].obj] = objects[s][my[u].obj]
    BY <1>2, <1>4, <1>5, <1>8
  <2>4. \A k \in 1..Items[s].fin : Item(s, k)' = Item(s, k)
    BY <1>3, <1>7, <1>8
  <2>5. QED
    BY <1>1, <1>8, <2>2, <2>3, <2>4, VarFrame
<1>9. CASE /\ pc[t] \notin Setter /\ pc'[t] \notin Setter
           /\ Items' = Items /\ objects' = objects /\ last' = last
  BY <1>8, <1>9
<1>10. CASE \E n \in Names, v \in Values : SetStringValue(t, n, v)
  <2>1. PICK n \in Names, v \in Values : SetStringValue(t, n, v)
    BY <1>10
  <2>2. /\ pc[t] \in Free /\ pc'[t] = "write" /\ held' = held /\ Items' = Items
        /\ held[t] \in 1..MaxSessions
        /\ last' = [last EXCEPT ![held[t]][n] = v]
        /\ \A r \in 1..MaxSessions :
             \A k \in DOMAIN objects[r] : objects'[r][k] = objects[r][k]
        /\ my'[t].var = n /\ my'[t].val = v
        /\ mixed' = IF Setters(held[t]) = {} THEN mixed ELSE mixed \cup {held[t]}
        /\ \/ /\ my'[t].obj \notin DOMAIN objects[held[t]]
              /\ \A k \in 1..Items[held[t]].fin : Item(held[t], k).Var # n
           \/ \E k \in 1..Items[held[t]].fin :
                my'[t].obj = Items[held[t]].at[k] /\ Item(held[t], k).Var = n
    <3>1. held' = held /\ Items' = Items
      BY <2>1, SetDoes
    <3>2. /\ pc[t] \in Free /\ pc'[t] = "write" /\ held[t] \in 1..MaxSessions
          /\ last' = [last EXCEPT ![held[t]][n] = v]
          /\ my'[t].var = n /\ my'[t].val = v
          /\ mixed' = IF Setters(held[t]) = {} THEN mixed ELSE mixed \cup {held[t]}
      <4>1. /\ pc[t] \in Free /\ pc'[t] = "write" /\ held[t] \in 1..MaxSessions
            /\ my'[t].var = n /\ my'[t].val = v
        <5>1. pc[t] \in Free /\ pc'[t] = "write" /\ held[t] \in 1..MaxSessions
          BY <2>1, SetDoes
        <5>2. my'[t].var = n /\ my'[t].val = v
          <6>1. \E o : Takes(t, held[t], n, v, o)
            BY <2>1, Zenon DEF SetStringValue
          <6>2. QED
            BY <6>1, Shape DEF Takes, Keeps, NoLocals
        <5>3. QED
          BY <5>1, <5>2
      <4>2. last' = [last EXCEPT ![held[t]][n] = v]
        BY <2>1 DEF SetStringValue
      <4>3. mixed' = IF Setters(held[t]) = {} THEN mixed ELSE mixed \cup {held[t]}
        BY <2>1 DEF SetStringValue, Sets
      <4>4. QED
        BY <4>1, <4>2, <4>3, Zenon
    <3>3. \A r \in 1..MaxSessions :
             \A k \in DOMAIN objects[r] : objects'[r][k] = objects[r][k]
      BY <2>1, SetDoes, Zenon
    <3>4. \/ /\ my'[t].obj \notin DOMAIN objects[held[t]]
             /\ \A k \in 1..Items[held[t]].fin : Item(held[t], k).Var # n
          \/ \E k \in 1..Items[held[t]].fin :
                my'[t].obj = Items[held[t]].at[k] /\ Item(held[t], k).Var = n
      BY <2>1, SetDoes, Zenon
    <3>5. QED
      BY <3>1, <3>2, <3>3, <3>4, Zenon
  <2>3. pc[t] \notin Setter
    BY <2>2 DEF Free, Setter
  <2>4. CASE held[t] # s
    <3>1. last'[s] = last[s]
      BY <1>1, <2>2, <2>4, ItemShape
    <3>2. QED
      BY <1>1, <1>8, <2>2, <2>3, <2>4, <3>1
  <2>5. CASE held[t] = s
    <3>1. Setters(s) = {}
      BY <2>2, <2>5
    <3>2. \A u : u \in Setters(s)' <=> u = t
      BY <1>2, <1>4, <2>2, <2>5, <3>1 DEF Setter
    <3>3. \A k \in 1..Items[s].fin : Item(s, k)' = Item(s, k)
      BY <1>1, <1>3, <1>7, <2>2
    <3>4. /\ last'[s][n] = v
          /\ \A m \in Names : m # n => last'[s][m] = last[s][m]
      BY <1>1, <2>2, <2>5, ItemShape
    <3>5. \A k \in 1..Items[s].fin :
            /\ Item(s, k).Var = n => Items[s].at[k] = my'[t].obj
            /\ Items[s].at[k] = my'[t].obj => Item(s, k).Var = n
      <4>1. CASE /\ my'[t].obj \notin DOMAIN objects[s]
                 /\ \A k \in 1..Items[s].fin : Item(s, k).Var # n
        BY <1>3, <4>1
      <4>2. CASE \E k \in 1..Items[s].fin :
                   my'[t].obj = Items[s].at[k] /\ Item(s, k).Var = n
        BY <1>6, <1>7, <4>2
      <4>3. QED
        BY <2>2, <2>5, <4>1, <4>2
    <3>6. \A i, k \in 1..Items'[s].fin :
            Item(s, i)'.Var = Item(s, k)'.Var => Items'[s].at[i] = Items'[s].at[k]
      BY <1>6, <2>2, <3>3
    <3>7. ASSUME NEW m \in Names, \A u \in Setters(s)' : my'[u].var # m
          PROVE  /\ \A k \in 1..Items'[s].fin :
                      Item(s, k)'.Var = m => Item(s, k)'.Val = last'[s][m]
                 /\ (\A k \in 1..Items'[s].fin : Item(s, k)'.Var # m) =>
                      last'[s][m] = Empty
      <4>1. m # n
        BY <2>2, <3>2, <3>7
      <4>2. QED
        BY <1>6, <2>2, <3>1, <3>3, <3>4, <4>1
    <3>8. \A u \in Setters(s)' :
            /\ last'[s][my'[u].var] = my'[u].val
            /\ \A k \in 1..Items'[s].fin :
                 Item(s, k)'.Var = my'[u].var => Items'[s].at[k] = my'[u].obj
            /\ pc'[u] = "write" =>
                 \A k \in 1..Items'[s].fin :
                   Items'[s].at[k] = my'[u].obj => Item(s, k)'.Var = my'[u].var
            /\ pc'[u] # "write" =>
                 objects'[s][my'[u].obj] = [Var |-> my'[u].var, Val |-> my'[u].val]
            /\ pc'[u] = "putting" => my'[u].fin = Items'[s].fin
      BY <2>2, <3>2, <3>3, <3>4, <3>5
    <3>9. \A u, w \in Setters(s)' : u = w
      BY <3>2
    <3>10. QED
      BY <3>6, <3>7, <3>8, <3>9, Zenon DEF VarsRight
  <2>6. QED
    BY <2>4, <2>5
<1>11. CASE Write(t)
  <2>1. /\ pc[t] = "write" /\ pc'[t] = "put" /\ held' = held /\ Items' = Items
        /\ last' = last /\ my' = my /\ held[t] \in 1..MaxSessions
        /\ objects'[held[t]][my[t].obj] = [Var |-> my[t].var, Val |-> my[t].val]
        /\ \A r \in 1..MaxSessions :
             \A k \in DOMAIN objects[r] : <<r, k>> # <<held[t], my[t].obj>>
               => objects'[r][k] = objects[r][k]
    BY <1>11, PutDoes
  <2>2. CASE held[t] # s
    <3>1. \A k \in DOMAIN objects[s] : objects'[s][k] = objects[s][k]
      BY <1>1, <2>1, <2>2
    <3>2. QED
      BY <1>8, <2>1, <2>2, <3>1
  <2>3. CASE held[t] = s
    <3> DEFINE e == [Var |-> my[t].var, Val |-> my[t].val]
    <3>1. t \in Setters(s) /\ \A u \in Setters(s) : u = t
      BY <1>4, <1>6, <2>1, <2>3 DEF Setter
    <3>2. \A u : u \in Setters(s)' <=> u = t
      BY <1>2, <1>4, <2>1, <2>3, <3>1 DEF Setter
    <3>3. \A k \in 1..Items[s].fin :
            /\ Items[s].at[k] = my[t].obj => Item(s, k)' = e /\ Item(s, k).Var = my[t].var
            /\ Items[s].at[k] # my[t].obj => Item(s, k)' = Item(s, k)
      <4>1. ASSUME NEW k \in 1..Items[s].fin, Items[s].at[k] = my[t].obj
            PROVE  Item(s, k)' = e /\ Item(s, k).Var = my[t].var
        BY <1>6, <1>7, <2>1, <2>3, <3>1, <4>1
      <4>2. ASSUME NEW k \in 1..Items[s].fin, Items[s].at[k] # my[t].obj
            PROVE  Item(s, k)' = Item(s, k)
        BY <1>1, <1>3, <1>7, <2>1, <4>2
      <4>3. QED
        BY <4>1, <4>2
    <3>4. e.Var = my[t].var /\ e.Val = my[t].val
      OBVIOUS
    <3>5. \A k \in 1..Items[s].fin : Item(s, k)'.Var = Item(s, k).Var
      BY <3>3, <3>4
    <3> HIDE DEF e
    <3>6. \A i, k \in 1..Items'[s].fin :
            Item(s, i)'.Var = Item(s, k)'.Var => Items'[s].at[i] = Items'[s].at[k]
      BY <1>6, <2>1, <3>5
    <3>7. ASSUME NEW m \in Names, \A u \in Setters(s)' : my'[u].var # m
          PROVE  /\ \A k \in 1..Items'[s].fin :
                      Item(s, k)'.Var = m => Item(s, k)'.Val = last'[s][m]
                 /\ (\A k \in 1..Items'[s].fin : Item(s, k)'.Var # m) =>
                      last'[s][m] = Empty
      <4>1. m # my[t].var /\ \A u \in Setters(s) : my[u].var # m
        BY <2>1, <3>1, <3>2, <3>7
      <4>2. \A k \in 1..Items[s].fin : Item(s, k).Var = m => Item(s, k)' = Item(s, k)
        BY <3>3, <4>1
      <4>3. QED
        BY <1>6, <2>1, <3>5, <4>1, <4>2
    <3>8. \A u \in Setters(s)' :
            /\ last'[s][my'[u].var] = my'[u].val
            /\ \A k \in 1..Items'[s].fin :
                 Item(s, k)'.Var = my'[u].var => Items'[s].at[k] = my'[u].obj
            /\ pc'[u] = "write" =>
                 \A k \in 1..Items'[s].fin :
                   Items'[s].at[k] = my'[u].obj => Item(s, k)'.Var = my'[u].var
            /\ pc'[u] # "write" =>
                 objects'[s][my'[u].obj] = [Var |-> my'[u].var, Val |-> my'[u].val]
            /\ pc'[u] = "putting" => my'[u].fin = Items'[s].fin
      BY <1>6, <2>1, <2>3, <3>1, <3>2, <3>5
    <3>9. \A u, w \in Setters(s)' : u = w
      BY <3>2
    <3>10. QED
      BY <3>6, <3>7, <3>8, <3>9, Zenon DEF VarsRight
  <2>4. QED
    BY <2>2, <2>3
<1>12. CASE Put(t)
  <2>1. /\ pc[t] = "put" /\ pc'[t] = "putting" /\ held' = held /\ Items' = Items
        /\ last' = last /\ objects' = objects /\ held[t] \in 1..MaxSessions
        /\ my'[t].obj = my[t].obj /\ my'[t].var = my[t].var
        /\ my'[t].val = my[t].val /\ my'[t].fin = Items[held[t]].fin
    BY <1>12, PutDoes DEF itemVars
  <2>2. CASE held[t] # s
    BY <1>8, <2>1, <2>2
  <2>3. CASE held[t] = s
    <3>1. t \in Setters(s) /\ \A u \in Setters(s) : u = t
      BY <1>4, <1>6, <2>1, <2>3 DEF Setter
    <3>2. \A u : u \in Setters(s)' <=> u = t
      BY <1>2, <1>4, <2>1, <2>3, <3>1 DEF Setter
    <3>3. \A k : Item(s, k)' = Item(s, k)
      BY <1>7, <2>1
    <3>4. \A m \in Names : (\A u \in Setters(s)' : my'[u].var # m) =>
            /\ \A k \in 1..Items'[s].fin :
                 Item(s, k)'.Var = m => Item(s, k)'.Val = last'[s][m]
            /\ (\A k \in 1..Items'[s].fin : Item(s, k)'.Var # m) => last'[s][m] = Empty
      BY <1>6, <2>1, <3>1, <3>2, <3>3
    <3>5. \A u \in Setters(s)' :
            /\ last'[s][my'[u].var] = my'[u].val
            /\ \A k \in 1..Items'[s].fin :
                 Item(s, k)'.Var = my'[u].var => Items'[s].at[k] = my'[u].obj
            /\ pc'[u] = "write" =>
                 \A k \in 1..Items'[s].fin :
                   Items'[s].at[k] = my'[u].obj => Item(s, k)'.Var = my'[u].var
            /\ pc'[u] # "write" =>
                 objects'[s][my'[u].obj] = [Var |-> my'[u].var, Val |-> my'[u].val]
            /\ pc'[u] = "putting" => my'[u].fin = Items'[s].fin
      BY <1>6, <2>1, <2>3, <3>1, <3>2, <3>3
    <3>6. /\ \A u, w \in Setters(s)' : u = w
          /\ \A i, k \in 1..Items'[s].fin :
               Item(s, i)'.Var = Item(s, k)'.Var => Items'[s].at[i] = Items'[s].at[k]
      BY <1>6, <2>1, <3>2, <3>3
    <3>7. QED
      BY <3>4, <3>5, <3>6, Zenon DEF VarsRight
  <2>4. QED
    BY <2>2, <2>3
<1>13. CASE PutDone(t)
  <2>1. /\ pc[t] = "putting" /\ pc'[t] = "idle" /\ held' = held
        /\ last' = last /\ objects' = objects /\ held[t] \in 1..MaxSessions
        /\ \A r \in 1..MaxSessions : r # held[t] => Items'[r] = Items[r]
        /\ Items'[held[t]] = PutAt(Items[held[t]], my[t].fin, my[t].obj)
    BY <1>13, PutDoes
  <2>2. CASE held[t] # s
    BY <1>1, <1>8, <2>1, <2>2
  <2>3. CASE held[t] = s
    <3>1. t \in Setters(s) /\ \A u \in Setters(s) : u = t
      BY <1>4, <1>6, <2>1, <2>3 DEF Setter
    <3>2. \A u : u \notin Setters(s)'
      BY <1>2, <1>4, <2>1, <2>3, <3>1 DEF Setter
    <3>3. /\ my[t].fin = Items[s].fin
          /\ objects[s][my[t].obj] = [Var |-> my[t].var, Val |-> my[t].val]
          /\ last[s][my[t].var] = my[t].val /\ my[t].var \in Names
          /\ \A k \in 1..Items[s].fin :
               Item(s, k).Var = my[t].var => Items[s].at[k] = my[t].obj
      BY <1>5, <1>6, <2>1, <3>1
    <3> DEFINE a == [Items[s].at EXCEPT ![Items[s].fin + 1] = my[t].obj]
    <3>4. Items'[s] = [at |-> a, fin |-> Items[s].fin + 1]
      BY <2>1, <2>3, <3>3 DEF PutAt
    <3>5. PICK f \in Nat, g \in 1..MaxCalls : f = Items[s].fin /\ g = f + 1
      <4>1. /\ my[t].fin + Cardinality(Busy) <= calls /\ calls \in 0..MaxCalls
            /\ MaxCalls \in Nat
        BY <2>1, Shape, Bounds DEF ItemsInv, Busy, Setter
      <4>2. Cardinality(Busy) \in Nat /\ Cardinality(Busy) # 0
        <5>1. t \in Busy /\ IsFiniteSet(Busy)
          BY <2>1, ItemsFit DEF Busy, Setter
        <5>2. QED
          BY <5>1, FS_EmptySet, FS_CardinalityType
      <4>3. Items[s].fin \in Nat /\ Items[s].fin + 1 \in 1..MaxCalls
        BY <1>3, <3>3, <4>1, <4>2
      <4>4. QED
        BY <4>3, Zenon
    <3>6. \A k \in 1..MaxCalls : a[k] = IF k = g THEN my[t].obj ELSE Items[s].at[k]
      BY <1>1, <3>5, ItemShape
    <3> HIDE DEF a
    <3>7. /\ Items'[s].fin = g
          /\ \A k \in 1..MaxCalls :
               Items'[s].at[k] = IF k = g THEN my[t].obj ELSE Items[s].at[k]
      BY <3>4, <3>5, <3>6
    <3>8. \A k \in 1..g : k = g \/ (k \in 1..f /\ k # g)
      BY <3>5
    <3>9. /\ Item(s, g)'.Var = my[t].var /\ Item(s, g)'.Val = my[t].val
          /\ Items'[s].at[g] = my[t].obj /\ g \in 1..g
          /\ \A k \in 1..f : Item(s, k)' = Item(s, k) /\ Items'[s].at[k] = Items[s].at[k]
      <4>1. Items'[s].at[g] = my[t].obj /\ g \in 1..g
        BY <3>5, <3>7
      <4>2. Item(s, g)' = objects[s][my[t].obj]
        BY <1>7, <2>1, <4>1
      <4>3. \A k \in 1..f : Items'[s].at[k] = Items[s].at[k]
        BY <1>3, <3>5, <3>7
      <4>4. \A k \in 1..f : Item(s, k)' = Item(s, k)
        BY <1>7, <2>1, <4>3
      <4>5. QED
        BY <3>3, <4>1, <4>2, <4>3, <4>4
    <3>10. \A i, k \in 1..g :
             Item(s, i)'.Var = Item(s, k)'.Var => Items'[s].at[i] = Items'[s].at[k]
      <4>1. \A k \in 1..g : Item(s, k)'.Var = my[t].var => Items'[s].at[k] = my[t].obj
        BY <3>3, <3>5, <3>8, <3>9
      <4>2. \A i, k \in 1..f :
              Item(s, i)'.Var = Item(s, k)'.Var => Items'[s].at[i] = Items'[s].at[k]
        BY <1>6, <3>5, <3>9
      <4>3. QED
        BY <3>8, <3>9, <4>1, <4>2
    <3>11. ASSUME NEW m \in Names
           PROVE  /\ \A k \in 1..g : Item(s, k)'.Var = m => Item(s, k)'.Val = last'[s][m]
                  /\ (\A k \in 1..g : Item(s, k)'.Var # m) => last'[s][m] = Empty
      <4>1. CASE m = my[t].var
        <5>1. \A k \in 1..f : Item(s, k).Var = m => Item(s, k).Val = my[t].val
          BY <1>7, <3>3, <3>5, <4>1
        <5>2. QED
          BY <2>1, <3>3, <3>8, <3>9, <4>1, <5>1
      <4>2. CASE m # my[t].var
        <5>1. /\ \A k \in 1..f : Item(s, k).Var = m => Item(s, k).Val = last[s][m]
              /\ (\A k \in 1..f : Item(s, k).Var # m) => last[s][m] = Empty
          BY <1>6, <3>1, <3>5, <4>2
        <5>2. 1..f \subseteq 1..g
          BY <3>5
        <5>3. QED
          BY <2>1, <3>8, <3>9, <4>2, <5>1, <5>2
      <4>3. QED
        BY <4>1, <4>2
    <3>12. QED
      BY <3>2, <3>7, <3>10, <3>11, Zenon DEF VarsRight
  <2>4. QED
    BY <2>2, <2>3
<1>14. QED
  BY <1>9, <1>10, <1>11, <1>12, <1>13, ItemsKept

(* A step of nobody keeps the invariant.                                   *)
LEMMA SessionStutter ==
  ASSUME SessionIInv, UNCHANGED vars
  PROVE  SessionIInv'
<1>1. /\ time' = time /\ Incremental' = Incremental /\ ids' = ids
      /\ clash' = clash /\ Sessions' = Sessions /\ live' = live /\ torn' = torn
      /\ shifted' = shifted /\ Items' = Items /\ objects' = objects
      /\ last' = last /\ mixed' = mixed /\ pc' = pc /\ my' = my
      /\ held' = held /\ calls' = calls
  BY DEF vars, counterVars, vectorVars, itemVars
<1>2. /\ Told' = Told /\ Passed' = Passed /\ Busy' = Busy
      /\ \A s : Setters(s)' = Setters(s)
      /\ \A s, k : Item(s, k)' = Item(s, k)
      /\ \A r : Stamped(r)' = Stamped(r)
      /\ \A s, r : SameId(s, r)' = SameId(s, r)
  BY <1>1 DEF Told, Passed, Busy, Setters, Item, Stamped, SameId
<1>3. \A r, x : After(r, x)' = After(r, x)
  BY <1>1, <1>2 DEF After
<1>4. ShapeInv'
  BY <1>1 DEF SessionIInv, ShapeInv
<1>5. MakeInv'
  BY <1>1, <1>2 DEF SessionIInv, MakeInv
<1>6. StampInv'
  BY <1>1 DEF SessionIInv, StampInv
<1>7. SlotInv'
  BY <1>1, <1>2 DEF SessionIInv, SlotInv
<1>8. IteratorInv'
  BY <1>1, <1>2 DEF SessionIInv, IteratorInv
<1>9. CounterInv'
  BY <1>1, <1>2, <1>3 DEF SessionIInv, CounterInv
<1>10. DistinctInv'
  BY <1>1, <1>2 DEF SessionIInv, DistinctInv
<1>11. ItemsInv'
  BY <1>1, <1>2 DEF SessionIInv, ItemsInv
<1>12. VarInv'
  BY <1>1, <1>2 DEF SessionIInv, VarInv, VarsRight
<1>13. SessionsExact' /\ ScanSound'
  BY <1>1 DEF SessionIInv, SessionsExact, ScanSound, HoldsExactly, Elements
<1>14. QED
  BY <1>4, <1>5, <1>6, <1>7, <1>8, <1>9, <1>10, <1>11, <1>12, <1>13, Zenon
     DEF SessionIInv

(* At the start there is no session, and nobody calls.                     *)
LEMMA SessionInit ==
  ASSUME Init
  PROVE  SessionIInv
<1>1. /\ time = 0 /\ Incremental = 0 /\ ids = <<>>
      /\ Sessions = EmptyVec(MaxSessions, 0)
      /\ Items = [s \in 1..MaxSessions |-> EmptyVec(MaxCalls, 0)]
      /\ objects = [s \in 1..MaxSessions |-> <<>>]
      /\ pc = [t \in Threads |-> "idle"] /\ my = [t \in Threads |-> NoLocals]
      /\ held = [t \in Threads |-> 0] /\ calls = 0
      /\ clash = {} /\ live = {} /\ torn = FALSE /\ shifted = {} /\ mixed = {}
      /\ last = [s \in 1..MaxSessions |-> [n \in Names |-> Empty]]
  BY DEF Init
<1>2. /\ \A t \in Threads : pc[t] = "idle" /\ my[t] = NoLocals /\ held[t] = 0
      /\ \A t \in Threads : my[t].got = 0 /\ my[t].ses = 0
      /\ DOMAIN ids = {} /\ Len(ids) = 0
  BY <1>1 DEF NoLocals
<1>3. /\ Told = {} /\ Passed = {} /\ Busy = {}
      /\ \A s : Setters(s) = {}
      /\ Cardinality(Told) = 0 /\ Cardinality(Passed) = 0 /\ Cardinality(Busy) = 0
  <2>1. Told = {} /\ Passed = {} /\ Busy = {} /\ \A s : Setters(s) = {}
    BY <1>2 DEF Told, Passed, Busy, Setters, Setter
  <2>2. QED
    BY <2>1, FS_EmptySet
<1>4. /\ Sessions = [at |-> [i \in 1..MaxSessions |-> 0], fin |-> 0]
      /\ \A s \in 1..MaxSessions :
           /\ Items[s] = [at |-> [i \in 1..MaxCalls |-> 0], fin |-> 0]
           /\ Items[s].fin = 0
  BY <1>1 DEF EmptyVec
<1>5. ShapeInv
  <2>1. NoLocals \in Locals
    BY Bounds DEF NoLocals, Locals
  <2>2. [i \in 1..MaxCalls |-> 0] \in [1..MaxCalls -> Nat]
    OBVIOUS
  <2>3. Items \in [1..MaxSessions -> [at : [1..MaxCalls -> Nat], fin : Nat]]
    BY <1>1, <2>2 DEF EmptyVec
  <2>4. /\ objects \in [1..MaxSessions -> Seq(Object)]
        /\ last \in [1..MaxSessions -> [Names -> Values \cup {Empty}]]
    BY <1>1
  <2>5. Sessions \in [at : [1..MaxSessions -> 0..MaxSessions], fin : Nat]
    BY <1>4, Bounds
  <2>6. pc \in [Threads -> PC] /\ my \in [Threads -> Locals]
        /\ held \in [Threads -> 0..MaxSessions]
    BY <1>1, <2>1, Bounds DEF PC, Free
  <2>7. /\ ids \in Seq(Seq(Nat)) /\ Len(ids) <= MaxSessions
        /\ calls \in 0..MaxCalls /\ time \in 0..MaxTime /\ Incremental \in Nat
        /\ torn \in BOOLEAN /\ shifted \subseteq Threads
    <3>1. calls \in 0..MaxCalls /\ time \in 0..MaxTime /\ Incremental \in Nat
      BY <1>1, Bounds
    <3>2. ids \in Seq(Seq(Nat)) /\ Len(ids) <= MaxSessions
      BY <1>1, <1>2, Bounds
    <3>3. torn \in BOOLEAN /\ shifted \subseteq Threads
      BY <1>1
    <3>4. QED
      BY <3>1, <3>2, <3>3
  <2>8. QED
    BY <2>3, <2>4, <2>5, <2>6, <2>7, Zenon DEF ShapeInv
<1>6. MakeInv
  BY <1>1, <1>2 DEF MakeInv, Making, Seeking, Scanning, Ctor, Setter
<1>7. StampInv /\ DistinctInv
  BY <1>2 DEF StampInv, DistinctInv
<1>8. SlotInv
  BY <1>2, <1>3, <1>4 DEF SlotInv, Scanning
<1>9. IteratorInv
  BY <1>2 DEF IteratorInv
<1>10. CounterInv
  BY <1>1, <1>2, <1>3 DEF CounterInv, Ctor
<1>11. ItemsInv
  <2>1. \A s \in 1..MaxSessions :
          /\ Items[s].fin + Cardinality(Busy) <= calls
          /\ \A k \in 1..MaxCalls : ~(k <= Items[s].fin)
    BY <1>1, <1>3, <1>4
  <2>2. QED
    BY <1>3, <2>1 DEF ItemsInv
<1>12. VarInv
  BY <1>1, <1>3, <1>4 DEF VarInv, VarsRight
<1>13. SessionsExact /\ ScanSound
  <2>1. Elements(Sessions) = {}
    <3>1. Sessions.fin = 0 /\ DOMAIN Sessions.at = 1..MaxSessions
      BY <1>4
    <3>2. QED
      BY <3>1 DEF Elements
  <2>2. HoldsExactly(Sessions, live)
    <3>1. Sessions.fin = 0 /\ \A k \in DOMAIN Sessions.at : ~(k <= 0)
      BY <1>4
    <3>2. QED
      BY <1>1, <2>1, <3>1 DEF HoldsExactly
  <2>3. QED
    BY <1>2, <2>2 DEF SessionsExact, ScanSound
<1>14. QED
  BY <1>5, <1>6, <1>7, <1>8, <1>9, <1>10, <1>11, <1>12, <1>13, Zenon
     DEF SessionIInv

(* The inductive invariant holds at every point of every interleaving of   *)
(* startSession, getSession, destroySession and setStringValue             *)
(* (CServer.cpp:431-458, CSession.cpp:5-51).                               *)
THEOREM SessionInvariance == Spec => []SessionIInv
<1>1. SessionIInv /\ [Next]_vars => SessionIInv'
  <2> SUFFICES ASSUME SessionIInv, [Next]_vars
               PROVE  SessionIInv'
    OBVIOUS
  <2>1. CASE UNCHANGED vars
    BY <2>1, SessionStutter
  <2>2. ASSUME NEW t \in Threads, Acts(t)
        PROVE  SessionIInv'
    <3>1. /\ ShapeInv /\ MakeInv /\ StampInv /\ SlotInv /\ IteratorInv
          /\ CounterInv /\ DistinctInv /\ ItemsInv /\ VarInv
          /\ SessionsExact /\ ScanSound
      BY Zenon DEF SessionIInv
    <3>2. ShapeInv' /\ MakeInv' /\ StampInv' /\ SlotInv'
      BY <2>2, <3>1, ShapeStep, MakeStep, StampStep, SlotStep, Zenon
    <3>3. IteratorInv' /\ CounterInv' /\ DistinctInv'
      BY <2>2, <3>1, IteratorStep, CounterStep, DistinctStep, Zenon
    <3>4. ItemsInv' /\ VarInv' /\ SessionsExact' /\ ScanSound'
      BY <2>2, <3>1, ItemsStep, VarStep, ExactStep, SoundStep, Zenon
    <3>5. QED
      BY <3>2, <3>3, <3>4, Zenon DEF SessionIInv
  <2>3. QED
    BY <2>1, <2>2, Steps, Zenon
<1>2. QED
  BY <1>1, SessionInit, PTL DEF Spec

(* Every variable keeps its type: in particular each slot of Sessions up   *)
(* to finish holds a session that was made, and each slot of Items an      *)
(* object, however stale the finish it was stored with                     *)
(* (CServer.cpp:431-458, CSession.cpp:25-51).                              *)
THEOREM SessionTypes == Spec => []TypeOK
<1>1. SessionIInv => TypeOK
  <2> SUFFICES ASSUME SessionIInv
               PROVE  TypeOK
    OBVIOUS
  <2>1. /\ ShapeInv /\ MakeInv /\ StampInv /\ SlotInv /\ CounterInv /\ ItemsInv
    BY Zenon DEF SessionIInv
  <2>2. time \in 0..MaxTime /\ calls \in 0..MaxCalls /\ Len(ids) <= MaxSessions
    BY <2>1, Shape, Zenon DEF ShapeInv
  <2>3. Incremental \in Counter
    <3>1. /\ Incremental \in Nat /\ Cardinality(Passed) \in Nat
          /\ Incremental <= Cardinality(Passed)
          /\ Cardinality(Passed) <= MaxSessions /\ MaxSessions \in Nat
      BY <2>1, Shape, ToldSize, Bounds DEF CounterInv
    <3>2. QED
      BY <3>1 DEF Counter
  <2>4. \A s \in DOMAIN ids : ids[s] \in {<<i>> : i \in 0..MaxTime}
                                          \cup (0..MaxTime) \X Counter
    <3>1. ASSUME NEW s \in DOMAIN ids
          PROVE  \/ \E i \in 0..MaxTime : ids[s] = <<i>>
                 \/ \E i \in 0..MaxTime, n \in Counter : ids[s] = <<i, n>>
      BY <2>1, Zenon DEF StampInv
    <3>2. \A i \in 0..MaxTime, n \in Counter : <<i, n>> \in (0..MaxTime) \X Counter
      OBVIOUS
    <3>3. QED
      BY <3>1, <3>2
  <2>5. Elements(Sessions) \subseteq DOMAIN ids
    <3>1. DOMAIN Sessions.at = 1..MaxSessions
      BY <2>1, Shape
    <3>2. \A k \in 1..MaxSessions : k <= Sessions.fin => Sessions.at[k] \in Told
      BY <2>1 DEF SlotInv
    <3>3. QED
      BY <3>1, <3>2 DEF Elements, Told
  <2>6. \A s \in 1..MaxSessions : Elements(Items[s]) \subseteq DOMAIN objects[s]
    <3>1. ASSUME NEW s \in 1..MaxSessions
          PROVE  Elements(Items[s]) \subseteq DOMAIN objects[s]
      <4>1. DOMAIN Items[s].at = 1..MaxCalls
        BY <2>1, ItemShape
      <4>2. \A k \in 1..MaxCalls : k <= Items[s].fin =>
              Items[s].at[k] \in DOMAIN objects[s]
        BY <2>1 DEF ItemsInv
      <4>3. QED
        BY <4>1, <4>2 DEF Elements
    <3>2. QED
      BY <3>1
  <2>7. /\ pc \in [Threads -> PC] /\ held \in [Threads -> 0..MaxSessions]
        /\ torn \in BOOLEAN /\ shifted \subseteq Threads
    BY <2>1, Zenon DEF ShapeInv
  <2>8. clash \cup live \cup mixed \subseteq DOMAIN ids
    BY <2>1 DEF MakeInv, Told
  <2>9. QED
    BY <2>2, <2>3, <2>4, <2>5, <2>6, <2>7, <2>8, Zenon DEF TypeOK
<1>2. QED
  BY <1>1, SessionInvariance, PTL

(* However the threads interleave, whoever asks for a session by its       *)
(* identifier, or destroys it, meets that session and not another          *)
(* visitor's, unless the constructor of one of the two overlapped another, *)
(* the counter went round between them, or another thread changed the      *)
(* vector under its iterator (CSession.cpp:7-14, CServer.cpp:431-458).     *)
THEOREM SessionOwn == Spec => []OwnSession
<1>1. SessionIInv => OwnSession
  <2> SUFFICES ASSUME SessionIInv, NEW t \in Threads,
                      my[t].got # 0, my[t].got # my[t].ses,
                      my[t].got \notin clash, my[t].ses \notin clash,
                      ~torn, t \notin shifted
               PROVE  \/ my[t].got >= my[t].ses + Wrap
                      \/ my[t].ses >= my[t].got + Wrap
    BY Zenon DEF OwnSession
  <2>1. ShapeInv /\ MakeInv /\ DistinctInv
    BY Zenon DEF SessionIInv
  <2>2. PICK r \in Nat, s \in Nat : r = my[t].got /\ s = my[t].ses
    BY <2>1, Shape
  <2>3. r \in Told /\ s \in Told /\ ids[r] = ids[s]
    BY <2>1, <2>2 DEF MakeInv, SameId
  <2>4. \A x \in Told : x \in DOMAIN ids /\ Stamped(x)
    BY DEF Told, Stamped, Ctor
  <2>5. /\ r < s => r + Wrap <= s
        /\ s < r => s + Wrap <= r
    BY <2>1, <2>2, <2>3, <2>4 DEF DistinctInv
  <2>6. QED
    BY <2>2, <2>5, Bounds
<1>2. QED
  BY <1>1, SessionInvariance, PTL

(* Sessions holds the sessions started and not destroyed, each once, unless *)
(* two threads changed it at once or another erase moved what an erase was *)
(* to take (CServer.cpp:434, 448-458).                                     *)
THEOREM SessionExact == Spec => []SessionsExact
<1>1. SessionIInv => SessionsExact
  BY Zenon DEF SessionIInv
<1>2. QED
  BY <1>1, SessionInvariance, PTL

(* A session that is there is found and no scan leaves the vector, unless  *)
(* an erase left its iterator behind (CServer.cpp:438-458).                *)
THEOREM SessionScan == Spec => []ScanSound
<1>1. SessionIInv => ScanSound
  BY Zenon DEF SessionIInv
<1>2. QED
  BY <1>1, SessionInvariance, PTL

(* Between two calls of setStringValue, getStringValue returns what was    *)
(* set last, although the object is pushed again each time, unless two     *)
(* threads set variables of the session at once (CSession.cpp:25-51).      *)
THEOREM SessionReads == Spec => []ReadsLast
<1>1. SessionIInv => ReadsLast
  <2> SUFFICES ASSUME SessionIInv, NEW s \in DOMAIN ids \ mixed,
                      Setters(s) = {}, NEW n \in Names
               PROVE  GetStringValue(s, n) = last[s][n]
    BY Zenon DEF ReadsLast
  <2>1. ShapeInv /\ ItemsInv /\ VarInv
    BY Zenon DEF SessionIInv
  <2>2. s \in (1..MaxSessions) \ mixed
    BY <2>1, Shape
  <2>3. VarsRight(s)
    BY <2>1, <2>2, Zenon DEF VarInv
  <2>4. /\ \A k \in 1..Items[s].fin : Item(s, k).Var = n => Item(s, k).Val = last[s][n]
        /\ (\A k \in 1..Items[s].fin : Item(s, k).Var # n) => last[s][n] = Empty
    BY <2>3 DEF VarsRight
  <2>5. \/ /\ Get(s, n) = 0
           /\ \A k \in 1..Items[s].fin : Item(s, k).Var # n
        \/ \E k \in 1..Items[s].fin :
             /\ Get(s, n) = Items[s].at[k] /\ Item(s, k).Var = n /\ Get(s, n) # 0
    <3>1. s \in 1..MaxSessions
      BY <2>2
    <3>2. QED
      BY <2>1, <3>1, GetFinds
  <2>6. QED
    BY <2>4, <2>5 DEF GetStringValue, Item
<1>2. QED
  BY <1>1, SessionInvariance, PTL
=============================================================================
