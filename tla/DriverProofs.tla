---------------------------- MODULE DriverProofs ----------------------------
(***************************************************************************)
(* Theorems about Driver, for any connections, transactions and number of  *)
(* statements: its inductive invariant, and that it implements AtomicTx.   *)
(***************************************************************************)
EXTENDS Driver, TLAPS

(* A call answers something a log can hold.                                *)
LEMMA AnswerType ==
  ASSUME NEW call \in Calls, NEW heard \in BOOLEAN
  PROVE  Answers(call, heard) \subseteq Answer
BY DEF Answers, Answer, Calls

(* A call makes the log of its transaction longer by one entry, within the *)
(* bound, and leaves the other logs alone.                                 *)
LEMMA CalledLog ==
  ASSUME TypeOK, NEW t \in Txs, NEW c \in Conns, NEW call \in Calls,
         NEW done \in BOOLEAN, NEW heard \in BOOLEAN,
         Called(t, c, call, done, heard)
  PROVE  /\ log' \in [Txs -> Seq(Entry)]
         /\ Len(log[t]) \in Nat /\ Len(log[t]) + 1 \in 1..MaxStmts
         /\ Len(log'[t]) = Len(log[t]) + 1
         /\ \A u \in Txs : u # t => log'[u] = log[u]
         /\ \A u \in Txs : Len(log[u]) \in Nat /\ Len(log'[u]) <= MaxStmts
<1>1. PICK a \in Answers(call, heard) :
        log' = [log EXCEPT ![t] = Append(@, [answer |-> a, done |-> done])]
  BY DEF Called
<1> DEFINE e == [answer |-> a, done |-> done]
<1>2. e \in Entry
  BY AnswerType DEF Entry
<1>3. log \in [Txs -> Seq(Entry)] /\ log[t] \in Seq(Entry)
  BY DEF TypeOK
<1> HIDE DEF e
<1>4. log' = [log EXCEPT ![t] = Append(log[t], e)]
  BY <1>1 DEF e
<1>5. Append(log[t], e) \in Seq(Entry) /\ Len(Append(log[t], e)) = Len(log[t]) + 1
  BY <1>2, <1>3
<1>6. log' \in [Txs -> Seq(Entry)] /\ log'[t] = Append(log[t], e)
  BY <1>3, <1>4, <1>5
<1>7. Len(log[t]) \in Nat /\ Len(log[t]) + 1 \in 1..MaxStmts
  BY <1>3, DriverAssumption DEF Called
<1>8. \A u \in Txs : u # t => log'[u] = log[u]
  BY <1>3, <1>4
<1>9. \A u \in Txs : Len(log[u]) \in Nat /\ Len(log'[u]) <= MaxStmts
  <2>1. \A u \in Txs : Len(log[u]) \in Nat /\ Len(log[u]) <= MaxStmts
    BY <1>3 DEF TypeOK
  <2>2. QED
    BY <2>1, <1>5, <1>6, <1>7, <1>8, DriverAssumption
<1>10. QED
  BY <1>5, <1>6, <1>7, <1>8, <1>9

(* The log of a transaction only grows: what it says of earlier calls      *)
(* stays, and the new entry is what the call was answered.                 *)
LEMMA CalledEntry ==
  ASSUME TypeOK, NEW t \in Txs, NEW c \in Conns, NEW call \in Calls,
         NEW done \in BOOLEAN, NEW heard \in BOOLEAN,
         Called(t, c, call, done, heard)
  PROVE  /\ \A u \in Txs : \A n \in 1..Len(log[u]) :
              n \in 1..Len(log'[u]) /\ log'[u][n] = log[u][n]
         /\ log'[t][Len(log[t]) + 1].done = done
         /\ log'[t][Len(log[t]) + 1].answer \in Answers(call, heard)
         /\ \A n \in 1..Len(log'[t]) :
              n \in 1..Len(log[t]) \/ n = Len(log[t]) + 1
<1>1. PICK a \in Answers(call, heard) :
        log' = [log EXCEPT ![t] = Append(@, [answer |-> a, done |-> done])]
  BY DEF Called
<1> DEFINE e == [answer |-> a, done |-> done]
<1>2. e \in Entry /\ e.done = done /\ e.answer = a
  BY AnswerType DEF Entry
<1>3. log \in [Txs -> Seq(Entry)] /\ log[t] \in Seq(Entry) /\ Len(log[t]) \in Nat
  BY DEF TypeOK
<1> HIDE DEF e
<1>4. log'[t] = Append(log[t], e)
  BY <1>1, <1>3 DEF e
<1>5. /\ Len(log'[t]) = Len(log[t]) + 1 /\ log'[t][Len(log[t]) + 1] = e
      /\ \A n \in 1..Len(log[t]) : log'[t][n] = log[t][n]
  BY <1>2, <1>3, <1>4
<1>6. \A u \in Txs \ {t} : log'[u] = log[u]
  BY <1>1, <1>3
<1>7. QED
  BY <1>1, <1>2, <1>3, <1>5, <1>6

(* The shape of a step: what a proof by cases over Next has to consider.   *)
LEMMA Steps ==
  ASSUME Next
  PROVE  \/ \E c \in Conns : Open(c) \/ Lose(c) \/ Close(c)
         \/ \E t \in Txs, c \in Conns :
              \/ BeginWork(t, c) \/ BeginThrows(t, c) \/ BeginPlain(t, c)
              \/ Commit(t, c) \/ CommitAborted(t, c) \/ CommitIdle(t, c)
              \/ DisposeWork(t, c)
         \/ \E t \in Txs : DisposePlain(t)
         \/ \E t \in Txs, c \in Conns, call \in Calls :
              \/ Refuse(t, c, call) \/ TakeRead(t, c, call)
              \/ TakeInside(t, c, call) \/ TakeAlone(t, c, call)
              \/ LoseAnswer(t, c, call)
BY DEF Next, Statement

(* Every step keeps the types.                                             *)
LEMMA TypeStep ==
  ASSUME TypeOK, OwnerInv, Next
  PROVE  TypeOK'
<1> USE DriverAssumption
<1>1. ASSUME NEW c \in Conns, Open(c) \/ Lose(c) \/ Close(c)
      PROVE  TypeOK'
  <2>1. CASE Open(c)
    BY <2>1 DEF Open, TypeOK, txVars, history
  <2>2. CASE Lose(c) \/ Close(c)
    <3>1. cut' \subseteq Txs
      BY <2>2 DEF Lose, Close, CutOff, TypeOK, OwnerInv
    <3>2. QED
      BY <2>2, <3>1 DEF Lose, Close, RollBack, TypeOK, txVars
  <2>3. QED
    BY <1>1, <2>1, <2>2
<1>2. ASSUME NEW t \in Txs, NEW c \in Conns,
             BeginWork(t, c) \/ BeginThrows(t, c) \/ BeginPlain(t, c)
      PROVE  TypeOK'
  <2>1. CASE BeginWork(t, c)
    BY <2>1 DEF BeginWork, Begun, TypeOK, history
  <2>2. CASE BeginThrows(t, c)
    BY <2>2 DEF BeginThrows, Begun, TypeOK, connVars, history
  <2>3. CASE BeginPlain(t, c)
    BY <2>3 DEF BeginPlain, Begun, TypeOK, connVars, history
  <2>4. QED
    BY <1>2, <2>1, <2>2, <2>3
<1>3. ASSUME NEW t \in Txs, NEW c \in Conns,
             Commit(t, c) \/ CommitAborted(t, c) \/ CommitIdle(t, c)
      PROVE  TypeOK'
  <2>1. asked' \in [Txs -> Nat]
    <3>1. Len(log[t]) + 1 \in Nat
      BY DEF TypeOK
    <3>2. QED
      BY <1>3, <3>1 DEF Commit, CommitAborted, CommitIdle, Committing, TypeOK
  <2>2. durable' \subseteq Txs \X (1..MaxStmts)
    BY <1>3 DEF Commit, CommitAborted, CommitIdle, TypeOK
  <2>3. QED
    BY <1>3, <2>1, <2>2 DEF Commit, CommitAborted, CommitIdle, Committing, Leave,
                            TypeOK, txVars
<1>4. ASSUME NEW t \in Txs, NEW c \in Conns, DisposeWork(t, c)
      PROVE  TypeOK'
  BY <1>4 DEF DisposeWork, Leave, TypeOK, history
<1>5. ASSUME NEW t \in Txs, DisposePlain(t)
      PROVE  TypeOK'
  BY <1>5 DEF DisposePlain, TypeOK, connVars, history
<1>6. ASSUME NEW t \in Txs, NEW c \in Conns, NEW call \in Calls, Refuse(t, c, call)
      PROVE  TypeOK'
  <2>1. Called(t, c, call, FALSE, FALSE)
    BY <1>6 DEF Refuse
  <2>2. log' \in [Txs -> Seq(Entry)] /\ \A u \in Txs : Len(log'[u]) <= MaxStmts
    BY <2>1, CalledLog
  <2>3. QED
    BY <1>6, <2>2 DEF Refuse, RollBack, TypeOK, txVars
<1>7. ASSUME NEW t \in Txs, NEW c \in Conns, NEW call \in Calls,
             \/ TakeRead(t, c, call) \/ TakeInside(t, c, call)
             \/ TakeAlone(t, c, call)
      PROVE  TypeOK'
  <2>1. Takes(t, c, call)
    BY <1>7 DEF TakeRead, TakeInside, TakeAlone
  <2>2. Called(t, c, call, TRUE, TRUE)
    BY <2>1 DEF Takes
  <2>3. /\ Len(log[t]) + 1 \in 1..MaxStmts /\ log' \in [Txs -> Seq(Entry)]
        /\ \A u \in Txs : Len(log'[u]) <= MaxStmts
    BY <2>2, CalledLog
  <2>4. Fresh(t) \subseteq Txs \X (1..MaxStmts)
    BY <2>3 DEF Fresh
  <2>5. pending' \in [Conns -> SUBSET (Txs \X (1..MaxStmts))]
    BY <1>7, <2>4 DEF TakeRead, TakeInside, TakeAlone, TypeOK
  <2>6. inside' \in [Txs -> SUBSET (Txs \X (1..MaxStmts))]
    BY <1>7, <2>4 DEF TakeRead, TakeInside, TakeAlone, TypeOK
  <2>7. durable' \subseteq Txs \X (1..MaxStmts)
    BY <1>7, <2>4 DEF TakeRead, TakeInside, TakeAlone, TypeOK
  <2>8. QED
    BY <2>1, <2>3, <2>5, <2>6, <2>7 DEF Takes, TypeOK, txVars
<1>8. ASSUME NEW t \in Txs, NEW c \in Conns, NEW call \in Calls,
             LoseAnswer(t, c, call)
      PROVE  TypeOK'
  <2>1. Called(t, c, call, TRUE, FALSE)
    BY <1>8 DEF LoseAnswer
  <2>2. /\ Len(log[t]) + 1 \in 1..MaxStmts /\ log' \in [Txs -> Seq(Entry)]
        /\ \A u \in Txs : Len(log'[u]) <= MaxStmts
    BY <2>1, CalledLog
  <2>3. durable' \subseteq Txs \X (1..MaxStmts)
    BY <1>8, <2>2 DEF LoseAnswer, Fresh, TypeOK
  <2>4. cut' \subseteq Txs
    BY <1>8 DEF LoseAnswer, CutOff, TypeOK, OwnerInv
  <2>5. QED
    BY <1>8, <2>2, <2>3, <2>4 DEF LoseAnswer, RollBack, TypeOK, txVars
<1>9. QED
  BY <1>1, <1>2, <1>3, <1>4, <1>5, <1>6, <1>7, <1>8, Steps

(* Every step keeps the registered works in agreement with the open        *)
(* transactions.                                                           *)
LEMMA OwnerStep ==
  ASSUME TypeOK, OwnerInv, Next
  PROVE  OwnerInv'
<1> USE DriverAssumption
<1>1. ASSUME NEW c \in Conns, Open(c) \/ Lose(c) \/ Close(c)
      PROVE  OwnerInv'
  <2>1. CASE Open(c)
    <3>1. UNCHANGED <<driver, session, owner, tx, on>>
      BY <2>1 DEF Open, txVars
    <3>2. \A d \in Conns : conn[d] \in {"up", "lost", "closed"}
                            => conn'[d] = conn[d]
      BY <2>1 DEF Open, TypeOK
    <3>3. QED
      BY <3>1, <3>2 DEF OwnerInv
  <2>2. CASE Lose(c) \/ Close(c)
    <3>1. /\ conn[c] \in {"up", "lost"} /\ UNCHANGED <<driver, owner, tx, on>>
          /\ conn' = [conn EXCEPT ![c] = conn'[c]]
          /\ conn'[c] \in {"lost", "closed"}
      BY <2>2 DEF Lose, Close, TypeOK, txVars
    <3>2. \A d \in Conns : session[d] = "idle" => session'[d] = "idle"
      BY <2>2 DEF Lose, Close, RollBack, TypeOK
    <3>3. \A d \in Conns : conn[d] \in {"up", "lost", "closed"}
                            => conn'[d] \in {"up", "lost", "closed"}
      BY <3>1 DEF TypeOK
    <3>4. QED
      BY <3>1, <3>2, <3>3 DEF OwnerInv
  <2>3. QED
    BY <1>1, <2>1, <2>2
<1>2. ASSUME NEW t \in Txs, NEW c \in Conns,
             BeginWork(t, c) \/ BeginThrows(t, c) \/ BeginPlain(t, c)
      PROVE  OwnerInv'
  <2>1. CASE BeginWork(t, c)
    BY <2>1 DEF BeginWork, Begun, TypeOK, OwnerInv, history
  <2>2. CASE BeginThrows(t, c)
    BY <2>2 DEF BeginThrows, Begun, TypeOK, OwnerInv, connVars, history
  <2>3. CASE BeginPlain(t, c)
    BY <2>3 DEF BeginPlain, Begun, TypeOK, OwnerInv, connVars, history
  <2>4. QED
    BY <1>2, <2>1, <2>2, <2>3
<1>3. ASSUME NEW t \in Txs, NEW c \in Conns,
             Commit(t, c) \/ CommitAborted(t, c) \/ CommitIdle(t, c)
      PROVE  OwnerInv'
  <2>1. CASE Commit(t, c) \/ CommitAborted(t, c)
    BY <2>1 DEF Commit, CommitAborted, Committing, Leave, TypeOK, OwnerInv, txVars
  <2>2. CASE CommitIdle(t, c)
    BY <2>2 DEF CommitIdle, Committing, TypeOK, OwnerInv, txVars
  <2>3. QED
    BY <1>3, <2>1, <2>2
<1>4. ASSUME NEW t \in Txs, NEW c \in Conns, DisposeWork(t, c)
      PROVE  OwnerInv'
  BY <1>4 DEF DisposeWork, Leave, TypeOK, OwnerInv, history
<1>5. ASSUME NEW t \in Txs, DisposePlain(t)
      PROVE  OwnerInv'
  BY <1>5 DEF DisposePlain, TypeOK, OwnerInv, connVars, history
<1>6. ASSUME NEW t \in Txs, NEW c \in Conns, NEW call \in Calls, Refuse(t, c, call)
      PROVE  OwnerInv'
  BY <1>6 DEF Refuse, Called, RollBack, TypeOK, OwnerInv, txVars
<1>7. ASSUME NEW t \in Txs, NEW c \in Conns, NEW call \in Calls,
             \/ TakeRead(t, c, call) \/ TakeInside(t, c, call)
             \/ TakeAlone(t, c, call)
      PROVE  OwnerInv'
  <2>1. UNCHANGED <<driver, conn, session, owner, tx, on>>
    BY <1>7 DEF TakeRead, TakeInside, TakeAlone, Takes, txVars
  <2>2. QED
    BY <2>1 DEF OwnerInv
<1>8. ASSUME NEW t \in Txs, NEW c \in Conns, NEW call \in Calls,
             LoseAnswer(t, c, call)
      PROVE  OwnerInv'
  BY <1>8 DEF LoseAnswer, Called, RollBack, TypeOK, OwnerInv, txVars
<1>9. QED
  BY <1>1, <1>2, <1>3, <1>4, <1>5, <1>6, <1>7, <1>8, Steps

(* Every step keeps what the server holds of a connection equal to what    *)
(* the transaction that is open there has made.                            *)
LEMMA HeldStep ==
  ASSUME TypeOK, OwnerInv, HeldInv, MadeInv, Next
  PROVE  HeldInv'
<1> USE DriverAssumption
<1>1. ASSUME NEW c \in Conns, Open(c)
      PROVE  HeldInv'
  <2>1. /\ UNCHANGED <<session, pending, inside, owner>>
        /\ \A d \in Conns : conn[d] = "up" => conn'[d] = "up"
    BY <1>1 DEF Open, TypeOK, history
  <2>2. QED
    BY <2>1 DEF HeldInv
<1>2. ASSUME NEW c \in Conns, Lose(c) \/ Close(c)
      PROVE  HeldInv'
  <2>1. /\ UNCHANGED <<inside, owner>>
        /\ session'[c] # "active" /\ pending'[c] = {}
        /\ \A d \in Conns \ {c} : /\ session'[d] = session[d]
                                   /\ pending'[d] = pending[d]
                                   /\ conn'[d] = conn[d]
    BY <1>2 DEF Lose, Close, RollBack, TypeOK
  <2>2. QED
    BY <2>1 DEF HeldInv
<1>3. ASSUME NEW t \in Txs, NEW c \in Conns, BeginWork(t, c)
      PROVE  HeldInv'
  <2>1. /\ UNCHANGED <<inside, pending>>
        /\ session'[c] = "active" /\ conn'[c] = "up" /\ owner'[c] = t
        /\ inside[t] = {} /\ session[c] = "idle"
        /\ \A d \in Conns \ {c} : /\ session'[d] = session[d]
                                   /\ owner'[d] = owner[d]
                                   /\ conn'[d] = conn[d]
    BY <1>3 DEF BeginWork, TypeOK, OwnerInv, MadeInv, history
  <2>2. QED
    BY <2>1 DEF HeldInv
<1>4. ASSUME UNCHANGED <<conn, session, pending, owner, inside>>
      PROVE  HeldInv'
  BY <1>4 DEF HeldInv
<1>5. ASSUME NEW t \in Txs, NEW c \in Conns, BeginThrows(t, c) \/ BeginPlain(t, c)
      PROVE  HeldInv'
  BY <1>4, <1>5 DEF BeginThrows, BeginPlain, connVars, history
<1>6. ASSUME NEW t \in Txs, DisposePlain(t)
      PROVE  HeldInv'
  BY <1>4, <1>6 DEF DisposePlain, connVars, history
<1>7. ASSUME NEW t \in Txs, NEW c \in Conns, CommitIdle(t, c)
      PROVE  HeldInv'
  BY <1>4, <1>7 DEF CommitIdle, Committing
<1>8. ASSUME NEW t \in Txs, NEW c \in Conns,
             Commit(t, c) \/ CommitAborted(t, c) \/ DisposeWork(t, c)
      PROVE  HeldInv'
  <2>1. /\ UNCHANGED <<conn, inside>>
        /\ session'[c] = "idle" /\ pending'[c] = {}
        /\ \A d \in Conns \ {c} : /\ session'[d] = session[d]
                                   /\ pending'[d] = pending[d]
                                   /\ owner'[d] = owner[d]
    BY <1>8 DEF Commit, CommitAborted, DisposeWork, Committing, Leave, TypeOK,
                history
  <2>2. QED
    BY <2>1 DEF HeldInv
<1>9. ASSUME NEW t \in Txs, NEW c \in Conns, NEW call \in Calls, Refuse(t, c, call)
      PROVE  HeldInv'
  <2>1. /\ UNCHANGED <<conn, inside, owner>>
        /\ session'[c] # "active" /\ pending'[c] = {}
        /\ \A d \in Conns \ {c} : /\ session'[d] = session[d]
                                   /\ pending'[d] = pending[d]
    BY <1>9 DEF Refuse, RollBack, TypeOK
  <2>2. QED
    BY <2>1 DEF HeldInv
<1>10. ASSUME NEW t \in Txs, NEW c \in Conns, NEW call \in Calls,
              TakeRead(t, c, call) \/ TakeAlone(t, c, call)
       PROVE  HeldInv'
  BY <1>4, <1>10 DEF TakeRead, TakeAlone, Takes
<1>11. ASSUME NEW t \in Txs, NEW c \in Conns, NEW call \in Calls,
              TakeInside(t, c, call)
       PROVE  HeldInv'
  <2>1. session[c] = "active" /\ tx[t] = "open" /\ on[t] = c
    BY <1>11 DEF TakeInside, Takes, Called
  <2>2. owner[c] = t /\ \A d \in Conns \ {c} : owner[d] # t
    BY <2>1 DEF OwnerInv, TypeOK
  <2> DEFINE new == Fresh(t)
  <2>3. /\ UNCHANGED <<conn, session, owner>>
        /\ pending' = [pending EXCEPT ![c] = @ \cup new]
        /\ inside' = [inside EXCEPT ![t] = @ \cup new]
    BY <1>11 DEF TakeInside, Takes
  <2> HIDE DEF new
  <2>4. /\ pending'[c] = pending[c] \cup new /\ inside'[t] = inside[t] \cup new
        /\ \A d \in Conns \ {c} : pending'[d] = pending[d]
        /\ \A u \in Txs \ {t} : inside'[u] = inside[u]
    BY <2>3 DEF TypeOK
  <2>5. ASSUME NEW d \in Conns \ {c}, session[d] = "active"
        PROVE  inside'[owner[d]] = inside[owner[d]]
    BY <2>2, <2>4, <2>5 DEF TypeOK, OwnerInv
  <2>6. pending'[c] = inside'[owner[c]]
    BY <2>1, <2>2, <2>4 DEF HeldInv
  <2>7. ASSUME NEW d \in Conns
        PROVE  pending'[d] = IF session[d] = "active" THEN inside'[owner[d]] ELSE {}
    BY <2>1, <2>4, <2>5, <2>6 DEF HeldInv
  <2>8. \A d \in Conns : session[d] = "active" => conn[d] = "up"
    BY DEF HeldInv
  <2>9. session' = session /\ conn' = conn /\ owner' = owner
    BY <2>3
  <2>10. QED
    BY <2>7, <2>8, <2>9 DEF HeldInv
<1>12. ASSUME NEW t \in Txs, NEW c \in Conns, NEW call \in Calls,
              LoseAnswer(t, c, call)
       PROVE  HeldInv'
  <2>1. /\ UNCHANGED <<inside, owner>>
        /\ session'[c] # "active" /\ pending'[c] = {}
        /\ \A d \in Conns \ {c} : /\ session'[d] = session[d]
                                   /\ pending'[d] = pending[d]
                                   /\ conn'[d] = conn[d]
    BY <1>12 DEF LoseAnswer, RollBack, TypeOK
  <2>2. QED
    BY <2>1 DEF HeldInv
<1>13. QED
  BY <1>1, <1>2, <1>3, <1>5, <1>6, <1>7, <1>8, <1>9, <1>10, <1>11, <1>12, Steps

(* Every step keeps a transaction that has committed outside of the        *)
(* server's transactions while its connection is up.                       *)
LEMMA LeftStep ==
  ASSUME TypeOK, OwnerInv, LeftInv, MadeInv, Next
  PROVE  LeftInv'
<1> USE DriverAssumption
<1>1. ASSUME NEW c \in Conns, Open(c)
      PROVE  LeftInv'
  <2>1. /\ UNCHANGED <<session, asked, owner>>
        /\ \A d \in Conns \ {c} : conn'[d] = conn[d]
    BY <1>1 DEF Open, TypeOK, history
  <2>2. session[c] = "idle"
    BY <1>1 DEF Open, OwnerInv
  <2>3. QED
    BY <2>1, <2>2 DEF LeftInv
<1>2. ASSUME NEW c \in Conns, Lose(c) \/ Close(c)
      PROVE  LeftInv'
  <2>1. /\ UNCHANGED <<asked, owner>> /\ conn'[c] # "up"
        /\ \A d \in Conns \ {c} : /\ session'[d] = session[d]
                                   /\ conn'[d] = conn[d]
    BY <1>2 DEF Lose, Close, RollBack, TypeOK
  <2>2. QED
    BY <2>1 DEF LeftInv
<1>3. ASSUME NEW t \in Txs, NEW c \in Conns, BeginWork(t, c)
      PROVE  LeftInv'
  <2>1. /\ UNCHANGED asked /\ asked[t] = 0 /\ owner'[c] = t
        /\ \A d \in Conns \ {c} : /\ session'[d] = session[d]
                                   /\ owner'[d] = owner[d]
                                   /\ conn'[d] = conn[d]
    BY <1>3 DEF BeginWork, TypeOK, MadeInv, history
  <2>2. QED
    BY <2>1 DEF LeftInv
<1>4. ASSUME UNCHANGED <<conn, session, owner, asked>>
      PROVE  LeftInv'
  BY <1>4 DEF LeftInv
<1>5. ASSUME NEW t \in Txs, NEW c \in Conns, BeginThrows(t, c) \/ BeginPlain(t, c)
      PROVE  LeftInv'
  BY <1>4, <1>5 DEF BeginThrows, BeginPlain, connVars, history
<1>6. ASSUME NEW t \in Txs, DisposePlain(t)
      PROVE  LeftInv'
  BY <1>4, <1>6 DEF DisposePlain, connVars, history
<1>7. ASSUME NEW t \in Txs, NEW c \in Conns,
             Commit(t, c) \/ CommitAborted(t, c) \/ CommitIdle(t, c)
      PROVE  LeftInv'
  <2>1. /\ UNCHANGED <<conn, owner>> /\ tx[t] = "open" /\ on[t] = c
        /\ \A u \in Txs \ {t} : asked'[u] = asked[u]
        /\ \A d \in Conns \ {c} : session'[d] = session[d]
        /\ conn[c] # "up" \/ session'[c] = "idle"
    BY <1>7 DEF Commit, CommitAborted, CommitIdle, Committing, Leave, TypeOK
  <2>2. ASSUME NEW d \in Conns \ {c}, session[d] # "idle"
        PROVE  owner[d] \in Txs \ {t}
    BY <2>1, <2>2 DEF OwnerInv, TypeOK
  <2>3. QED
    BY <2>1, <2>2 DEF LeftInv
<1>8. ASSUME NEW t \in Txs, NEW c \in Conns, DisposeWork(t, c)
      PROVE  LeftInv'
  <2>1. /\ UNCHANGED <<conn, asked>> /\ session'[c] = "idle"
        /\ \A d \in Conns \ {c} : /\ session'[d] = session[d]
                                   /\ owner'[d] = owner[d]
    BY <1>8 DEF DisposeWork, Leave, TypeOK, history
  <2>2. QED
    BY <2>1 DEF LeftInv
<1>9. ASSUME NEW t \in Txs, NEW c \in Conns, NEW call \in Calls, Refuse(t, c, call)
      PROVE  LeftInv'
  <2>1. /\ UNCHANGED <<conn, owner, asked>>
        /\ \A d \in Conns : session[d] = "idle" => session'[d] = "idle"
    BY <1>9 DEF Refuse, RollBack, TypeOK
  <2>2. QED
    BY <2>1 DEF LeftInv
<1>10. ASSUME NEW t \in Txs, NEW c \in Conns, NEW call \in Calls,
              \/ TakeRead(t, c, call) \/ TakeInside(t, c, call)
              \/ TakeAlone(t, c, call)
       PROVE  LeftInv'
  BY <1>4, <1>10 DEF TakeRead, TakeInside, TakeAlone, Takes
<1>11. ASSUME NEW t \in Txs, NEW c \in Conns, NEW call \in Calls,
              LoseAnswer(t, c, call)
       PROVE  LeftInv'
  <2>1. /\ UNCHANGED <<asked, owner>> /\ conn'[c] # "up"
        /\ \A d \in Conns \ {c} : /\ session'[d] = session[d]
                                   /\ conn'[d] = conn[d]
    BY <1>11 DEF LoseAnswer, RollBack, TypeOK
  <2>2. QED
    BY <2>1 DEF LeftInv
<1>12. QED
  BY <1>1, <1>2, <1>3, <1>5, <1>6, <1>7, <1>8, <1>9, <1>10, <1>11, Steps

(* A statement a transaction is about to make is none of those it made.    *)
LEMMA FreshIsNew ==
  ASSUME TypeOK, MadeInv, NEW t \in Txs
  PROVE  /\ <<t, Len(log[t]) + 1>> \notin durable
         /\ \A u \in Txs : <<t, Len(log[t]) + 1>> \notin inside[u]
<1>1. Len(log[t]) \in Nat
  BY DEF TypeOK
<1>2. QED
  BY <1>1 DEF MadeInv

(* Every step keeps the statements of a transaction within those that it   *)
(* has logged.                                                             *)
LEMMA MadeStep ==
  ASSUME TypeOK, MadeInv, OwnerInv, HeldInv, Next
  PROVE  MadeInv'
<1> USE DriverAssumption
<1>1. ASSUME NEW c \in Conns, Open(c) \/ Lose(c) \/ Close(c)
      PROVE  MadeInv'
  BY <1>1 DEF Open, Lose, Close, MadeInv, txVars, history
<1>2. ASSUME NEW t \in Txs, NEW c \in Conns,
             BeginWork(t, c) \/ BeginThrows(t, c) \/ BeginPlain(t, c)
      PROVE  MadeInv'
  <2>1. /\ UNCHANGED <<durable, log, inside, asked>>
        /\ \A u \in Txs : tx'[u] = "none" => tx[u] = "none"
    BY <1>2 DEF BeginWork, BeginThrows, BeginPlain, Begun, TypeOK, history
  <2>2. QED
    BY <2>1 DEF MadeInv
<1>3. ASSUME NEW t \in Txs, NEW c \in Conns,
             Commit(t, c) \/ CommitAborted(t, c) \/ CommitIdle(t, c)
      PROVE  MadeInv'
  <2>1. /\ UNCHANGED <<log, inside, tx>> /\ tx[t] = "open"
        /\ \A u \in Txs \ {t} : asked'[u] = asked[u]
    BY <1>3 DEF Commit, CommitAborted, CommitIdle, Committing, TypeOK, txVars
  <2>2. ASSUME NEW u \in Txs, NEW p \in durable', p[1] = u
        PROVE  p[2] <= Len(log[u])
    <3>1. p \in durable \/ p \in pending[c]
      BY <1>3 DEF Commit, CommitAborted, CommitIdle
    <3>2. p \in durable \/ \E v \in Txs : p \in inside[v]
      <4>1. session[c] = "active" => owner[c] \in Txs
        BY DEF OwnerInv, TypeOK
      <4>2. pending[c] = IF session[c] = "active" THEN inside[owner[c]] ELSE {}
        BY DEF HeldInv
      <4>3. QED
        BY <3>1, <4>1, <4>2
    <3>3. QED
      BY <2>2, <3>2 DEF MadeInv
  <2>3. QED
    BY <2>1, <2>2 DEF MadeInv
<1>4. ASSUME NEW t \in Txs,
             DisposePlain(t) \/ \E c \in Conns : DisposeWork(t, c)
      PROVE  MadeInv'
  <2>1. /\ UNCHANGED <<durable, log, inside, asked>>
        /\ \A u \in Txs : tx'[u] = "none" => tx[u] = "none"
    BY <1>4 DEF DisposePlain, DisposeWork, TypeOK, history
  <2>2. QED
    BY <2>1 DEF MadeInv
<1>5. ASSUME NEW t \in Txs, NEW c \in Conns, NEW call \in Calls,
             NEW done \in BOOLEAN, NEW heard \in BOOLEAN,
             Called(t, c, call, done, heard), UNCHANGED <<tx, asked>>,
             durable' \subseteq durable \cup Fresh(t),
             \A p \in inside'[t] : p \in inside[t] \cup Fresh(t),
             \A u \in Txs \ {t} : inside'[u] = inside[u]
      PROVE  MadeInv'
  <2>1. /\ Len(log[t]) \in Nat /\ Len(log'[t]) = Len(log[t]) + 1
        /\ \A u \in Txs : u # t => log'[u] = log[u]
    BY <1>5, CalledLog
  <2>2. tx[t] = "open"
    BY <1>5 DEF Called
  <2>3. \A p \in Fresh(t) : p[1] = t /\ p[2] = Len(log[t]) + 1
    BY DEF Fresh
  <2>4. /\ \A p \in inside[t] \cup Fresh(t) : p[1] = t /\ p[2] <= Len(log[t]) + 1
        /\ \A p \in durable \cup Fresh(t) : p[1] = t => p[2] <= Len(log[t]) + 1
    <3>1. inside[t] \cup durable \subseteq Txs \X (1..MaxStmts)
      BY DEF TypeOK
    <3>2. \A p \in inside[t] \cup durable : p[2] \in Nat
      BY <3>1
    <3>3. /\ \A p \in inside[t] : p[1] = t /\ p[2] <= Len(log[t])
          /\ \A p \in durable : p[1] = t => p[2] <= Len(log[t])
      BY DEF MadeInv
    <3>4. QED
      BY <2>1, <2>3, <3>2, <3>3
  <2>5. \A p \in durable' : \A u \in Txs \ {t} : p[1] = u => p[2] <= Len(log[u])
    BY <1>5, <2>3 DEF MadeInv
  <2>6. QED
    BY <1>5, <2>1, <2>2, <2>4, <2>5 DEF MadeInv
<1>6. ASSUME NEW t \in Txs, NEW c \in Conns, NEW call \in Calls, Refuse(t, c, call)
      PROVE  MadeInv'
  <2>1. Called(t, c, call, FALSE, FALSE) /\ UNCHANGED <<tx, asked, durable, inside>>
    BY <1>6 DEF Refuse, txVars
  <2>2. QED
    BY <1>5, <2>1
<1>7. ASSUME NEW t \in Txs, NEW c \in Conns, NEW call \in Calls,
             \/ TakeRead(t, c, call) \/ TakeInside(t, c, call)
             \/ TakeAlone(t, c, call)
      PROVE  MadeInv'
  <2>1. Called(t, c, call, TRUE, TRUE) /\ UNCHANGED <<tx, asked>>
    BY <1>7 DEF TakeRead, TakeInside, TakeAlone, Takes, txVars
  <2> DEFINE new == Fresh(t)
  <2>2. /\ durable' \subseteq durable \cup new
        /\ inside' = inside \/ inside' = [inside EXCEPT ![t] = @ \cup new]
    BY <1>7 DEF TakeRead, TakeInside, TakeAlone
  <2> HIDE DEF new
  <2>3. /\ \A p \in inside'[t] : p \in inside[t] \cup new
        /\ \A u \in Txs \ {t} : inside'[u] = inside[u]
    BY <2>2 DEF TypeOK
  <2>4. QED
    BY <1>5, <2>1, <2>2, <2>3 DEF new
<1>8. ASSUME NEW t \in Txs, NEW c \in Conns, NEW call \in Calls,
             LoseAnswer(t, c, call)
      PROVE  MadeInv'
  <2>1. /\ Called(t, c, call, TRUE, FALSE) /\ UNCHANGED <<tx, asked, inside>>
        /\ durable' \subseteq durable \cup Fresh(t)
    BY <1>8 DEF LoseAnswer, txVars
  <2>2. QED
    BY <1>5, <2>1
<1>9. QED
  BY <1>1, <1>2, <1>3, <1>4, <1>6, <1>7, <1>8, Steps

(* Every step keeps the statements of a transaction before its commit all  *)
(* durable or all lost, and none durable while the server holds them.      *)
LEMMA FateStep ==
  ASSUME TypeOK, OwnerInv, HeldInv, MadeInv, FateInv, Next
  PROVE  FateInv'
<1> USE DriverAssumption
<1>1. ASSUME UNCHANGED <<durable, inside>>,
             \A c \in Conns : session'[c] # "idle" =>
               session[c] # "idle" /\ owner'[c] = owner[c]
      PROVE  FateInv'
  BY <1>1 DEF FateInv, AllOrNothing
<1>2. ASSUME NEW c \in Conns, Open(c) \/ Lose(c) \/ Close(c)
      PROVE  FateInv'
  <2>1. /\ UNCHANGED <<durable, inside, owner>>
        /\ \A d \in Conns : session'[d] # "idle" => session[d] # "idle"
    BY <1>2 DEF Open, Lose, Close, RollBack, TypeOK, history
  <2>2. QED
    BY <1>1, <2>1
<1>3. ASSUME NEW t \in Txs, NEW c \in Conns, BeginWork(t, c)
      PROVE  FateInv'
  <2>1. /\ UNCHANGED <<durable, inside>> /\ owner'[c] = t /\ inside[t] = {}
        /\ \A d \in Conns \ {c} : /\ session'[d] = session[d]
                                   /\ owner'[d] = owner[d]
    BY <1>3 DEF BeginWork, TypeOK, MadeInv, history
  <2>2. QED
    BY <2>1 DEF FateInv, AllOrNothing
<1>4. ASSUME NEW t \in Txs, NEW c \in Conns, BeginThrows(t, c) \/ BeginPlain(t, c)
      PROVE  FateInv'
  BY <1>1, <1>4 DEF BeginThrows, BeginPlain, connVars, history
<1>5. ASSUME NEW t \in Txs, DisposePlain(t)
      PROVE  FateInv'
  BY <1>1, <1>5 DEF DisposePlain, connVars, history
<1>6. ASSUME NEW t \in Txs, NEW c \in Conns,
             CommitIdle(t, c) \/ CommitAborted(t, c) \/ DisposeWork(t, c)
      PROVE  FateInv'
  <2>1. /\ UNCHANGED <<durable, inside>>
        /\ \A d \in Conns : session'[d] # "idle" =>
              session[d] # "idle" /\ owner'[d] = owner[d]
    BY <1>6 DEF CommitIdle, CommitAborted, Committing, DisposeWork, Leave, TypeOK,
                history
  <2>2. QED
    BY <1>1, <2>1
<1>7. ASSUME NEW t \in Txs, NEW c \in Conns, NEW call \in Calls,
             Refuse(t, c, call) \/ TakeRead(t, c, call)
      PROVE  FateInv'
  <2>1. /\ UNCHANGED <<durable, inside, owner>>
        /\ \A d \in Conns : session'[d] # "idle" => session[d] # "idle"
    BY <1>7 DEF Refuse, RollBack, TakeRead, Takes, TypeOK
  <2>2. QED
    BY <1>1, <2>1
<1>8. ASSUME NEW t \in Txs, NEW c \in Conns, Commit(t, c)
      PROVE  FateInv'
  <2>1. session[c] = "active" /\ tx[t] = "open" /\ on[t] = c /\ UNCHANGED inside
    BY <1>8 DEF Commit, Committing
  <2>2. owner[c] = t
    BY <2>1 DEF OwnerInv, TypeOK
  <2>3. pending[c] = inside[t] /\ inside[t] \cap durable = {}
    BY <2>1, <2>2 DEF HeldInv, FateInv
  <2>4. durable' = durable \/ durable' = durable \cup inside[t]
    BY <1>8, <2>3 DEF Commit
  <2>5. \A u \in Txs \ {t} : inside[u] \cap inside[t] = {}
    BY DEF MadeInv
  <2>6. AllOrNothing'
    BY <2>1, <2>3, <2>4, <2>5 DEF FateInv, AllOrNothing
  <2>7. /\ owner' = owner /\ session'[c] = "idle"
        /\ \A d \in Conns \ {c} : session'[d] = session[d]
    BY <1>8 DEF Commit, Committing, Leave, TypeOK
  <2>8. \A d \in Conns \ {c} : session[d] # "idle" => owner[d] \in Txs \ {t}
    BY <2>1 DEF OwnerInv, TypeOK
  <2>9. QED
    BY <2>1, <2>4, <2>5, <2>6, <2>7, <2>8 DEF FateInv
<1>9. ASSUME NEW t \in Txs, NEW c \in Conns, NEW call \in Calls,
             TakeInside(t, c, call)
      PROVE  FateInv'
  <2>1. /\ session[c] = "active" /\ tx[t] = "open" /\ on[t] = c
        /\ UNCHANGED <<session, owner, durable>>
    BY <1>9 DEF TakeInside, Takes, Called
  <2>2. owner[c] = t
    BY <2>1 DEF OwnerInv, TypeOK
  <2>3. inside[t] \cap durable = {}
    BY <2>1, <2>2 DEF FateInv
  <2> DEFINE new == Fresh(t)
  <2>4. new \cap durable = {}
    BY FreshIsNew DEF Fresh
  <2>5. inside' = [inside EXCEPT ![t] = @ \cup new]
    BY <1>9 DEF TakeInside
  <2> HIDE DEF new
  <2>6. inside'[t] \cap durable = {} /\ \A u \in Txs \ {t} : inside'[u] = inside[u]
    BY <2>3, <2>4, <2>5 DEF TypeOK
  <2>7. \A d \in Conns : session[d] # "idle" => owner[d] \in Txs
    BY DEF OwnerInv, TypeOK
  <2>8. QED
    BY <2>1, <2>6, <2>7 DEF FateInv, AllOrNothing
<1>10. ASSUME NEW t \in Txs, NEW c \in Conns, NEW call \in Calls,
             TakeAlone(t, c, call)
      PROVE  FateInv'
  <2> DEFINE new == Fresh(t)
  <2>1. UNCHANGED <<session, owner, inside>> /\ durable' = durable \cup new
    BY <1>10 DEF TakeAlone, Takes
  <2>2. \A u \in Txs : new \cap inside[u] = {}
    BY FreshIsNew DEF Fresh
  <2>3. \A d \in Conns : session[d] # "idle" => owner[d] \in Txs
    BY DEF OwnerInv, TypeOK
  <2> HIDE DEF new
  <2>4. QED
    BY <2>1, <2>2, <2>3 DEF FateInv, AllOrNothing
<1>11. ASSUME NEW t \in Txs, NEW c \in Conns, NEW call \in Calls,
              LoseAnswer(t, c, call)
       PROVE  FateInv'
  <2> DEFINE new == Fresh(t)
  <2>1. /\ UNCHANGED <<owner, inside>>
        /\ durable' = durable \/ durable' = durable \cup new
        /\ \A d \in Conns : session'[d] # "idle" => session[d] # "idle"
    BY <1>11 DEF LoseAnswer, RollBack, TypeOK
  <2>2. \A u \in Txs : new \cap inside[u] = {}
    BY FreshIsNew DEF Fresh
  <2>3. \A d \in Conns : session[d] # "idle" => owner[d] \in Txs
    BY DEF OwnerInv, TypeOK
  <2> HIDE DEF new
  <2>4. QED
    BY <2>1, <2>2, <2>3 DEF FateInv, AllOrNothing
<1>12. QED
  BY <1>2, <1>3, <1>4, <1>5, <1>6, <1>7, <1>8, <1>9, <1>10, <1>11, Steps

(* What the server holds are statements whose answers reached the driver.  *)
LEMMA AnswerStep ==
  ASSUME TypeOK, OwnerInv, MadeInv, AnswerInv, Next
  PROVE  AnswerInv'
<1>1. \A u \in Txs : \A p \in inside[u] : p[1] = u /\ p[2] \in 1..Len(log[u])
  <2>1. \A u \in Txs : \A p \in inside[u] : p[1] = u /\ p[2] <= Len(log[u])
    BY DEF MadeInv
  <2>2. \A u \in Txs : \A p \in inside[u] : p[2] \in 1..MaxStmts
    BY DEF TypeOK
  <2>3. \A u \in Txs : Len(log[u]) \in Nat
    BY DEF TypeOK
  <2>4. QED
    BY <2>1, <2>2, <2>3, DriverAssumption
<1>2. CASE /\ UNCHANGED <<driver, log, inside>>
           /\ \A u \in Txs : tx'[u] = "none" => tx[u] = "none"
           /\ \A u \in Txs : tx'[u] = "open" => tx[u] = "open" \/ driver # "empty"
  BY <1>2 DEF AnswerInv
<1>3. ASSUME NEW c \in Conns, Open(c) \/ Lose(c) \/ Close(c)
      PROVE  AnswerInv'
  BY <1>2, <1>3 DEF Open, Lose, Close, txVars, history
<1>4. ASSUME NEW t \in Txs, NEW c \in Conns,
             BeginWork(t, c) \/ BeginThrows(t, c) \/ BeginPlain(t, c)
      PROVE  AnswerInv'
  BY <1>2, <1>4 DEF BeginWork, BeginThrows, BeginPlain, Begun, TypeOK, history
<1>5. ASSUME NEW t \in Txs,
             DisposePlain(t) \/ \E c \in Conns : DisposeWork(t, c)
      PROVE  AnswerInv'
  BY <1>2, <1>5 DEF DisposePlain, DisposeWork, TypeOK, history
<1>6. ASSUME NEW t \in Txs, NEW c \in Conns,
             Commit(t, c) \/ CommitAborted(t, c) \/ CommitIdle(t, c)
      PROVE  AnswerInv'
  BY <1>2, <1>6 DEF Commit, CommitAborted, CommitIdle, Committing, txVars
<1>7. ASSUME NEW t \in Txs, NEW c \in Conns, NEW call \in Calls,
             NEW done \in BOOLEAN, NEW heard \in BOOLEAN,
             Called(t, c, call, done, heard), UNCHANGED <<tx, driver>>,
             \A p \in inside'[t] :
               p \in inside[t] \/ (heard /\ driver = "pqxx" /\ p \in Fresh(t)),
             \A u \in Txs \ {t} : inside'[u] = inside[u]
      PROVE  AnswerInv'
  <2> DEFINE n == Len(log[t]) + 1
             Bad == {"error", "false"}
  <2>1. /\ \A u \in Txs : \A m \in 1..Len(log[u]) : log'[u][m] = log[u][m]
        /\ log'[t][n].answer \in Answers(call, heard)
    BY <1>7, CalledEntry
  <2>2. \A u \in Txs \ {t} : log'[u] = log[u]
    BY <1>7, CalledLog
  <2>3. tx[t] = "open"
    BY <1>7 DEF Called
  <2>4. heard /\ driver = "pqxx" => log'[t][n].answer \notin Bad
    <3>1. heard /\ driver = "pqxx" => Answers(call, heard) \subseteq {"ok", "noid"}
      BY DEF Answers, Calls
    <3>2. QED
      BY <2>1, <3>1
  <2>5. \A p \in Fresh(t) : p[1] = t /\ p[2] = n
    BY DEF Fresh
  <2> HIDE DEF n, Bad
  <2>6. \A u \in Txs : \A p \in inside[u] : log'[u][p[2]].answer \notin Bad
    BY <1>1, <2>1 DEF AnswerInv, Bad
  <2>7. \A u \in Txs : \A p \in inside'[u] : log'[u][p[2]].answer \notin Bad
    BY <1>7, <2>4, <2>5, <2>6
  <2>8. \A u \in Txs : /\ tx'[u] = "none" => log'[u] = <<>>
                       /\ tx'[u] = "open" => driver' # "empty"
    BY <1>7, <2>2, <2>3 DEF AnswerInv
  <2>9. QED
    BY <2>7, <2>8 DEF AnswerInv, Bad
<1>8. ASSUME NEW t \in Txs, NEW c \in Conns, NEW call \in Calls,
             Refuse(t, c, call) \/ LoseAnswer(t, c, call)
      PROVE  AnswerInv'
  <2>1. UNCHANGED <<tx, driver, inside>>
    BY <1>8 DEF Refuse, LoseAnswer, txVars
  <2>2. \E done \in BOOLEAN : Called(t, c, call, done, FALSE)
    BY <1>8 DEF Refuse, LoseAnswer
  <2>3. QED
    BY <1>7, <2>1, <2>2
<1>9. ASSUME NEW t \in Txs, NEW c \in Conns, NEW call \in Calls,
             \/ TakeRead(t, c, call) \/ TakeInside(t, c, call)
             \/ TakeAlone(t, c, call)
      PROVE  AnswerInv'
  <2>1. Called(t, c, call, TRUE, TRUE) /\ UNCHANGED <<tx, driver>>
    BY <1>9 DEF TakeRead, TakeInside, TakeAlone, Takes, txVars
  <2> DEFINE new == Fresh(t)
  <2>2. \/ inside' = inside
        \/ driver = "pqxx" /\ inside' = [inside EXCEPT ![t] = @ \cup new]
    <3>1. session[c] = "active" => driver = "pqxx"
      BY DEF OwnerInv
    <3>2. QED
      BY <1>9, <3>1 DEF TakeRead, TakeInside, TakeAlone
  <2> HIDE DEF new
  <2>3. /\ \A p \in inside'[t] : p \in inside[t] \/ (driver = "pqxx" /\ p \in new)
        /\ \A u \in Txs \ {t} : inside'[u] = inside[u]
    BY <2>2 DEF TypeOK
  <2>4. QED
    BY <1>7, <2>1, <2>3 DEF new
<1>10. QED
  BY <1>3, <1>4, <1>5, <1>6, <1>8, <1>9, Steps

(* Until its commit a libpqxx transaction is inside one of the server, so  *)
(* what is durable of what it did by then was published by the commit.     *)
LEMMA EarlyStep ==
  ASSUME TypeOK, OwnerInv, HeldInv, MadeInv, VerdictInv, EarlyInv, Next
  PROVE  EarlyInv'
<1>1. CASE /\ UNCHANGED <<driver, durable, asked>>
           /\ \A u \in Txs : inside[u] \subseteq inside'[u]
  <2>1. \A p \in durable : p[1] \in Txs
    BY DEF TypeOK
  <2>2. QED
    BY <1>1, <2>1 DEF EarlyInv, Early
<1>2. ASSUME NEW c \in Conns, Open(c) \/ Lose(c) \/ Close(c)
      PROVE  EarlyInv'
  BY <1>1, <1>2 DEF Open, Lose, Close, history
<1>3. ASSUME NEW t \in Txs, NEW c \in Conns,
             BeginWork(t, c) \/ BeginThrows(t, c) \/ BeginPlain(t, c)
      PROVE  EarlyInv'
  BY <1>1, <1>3 DEF BeginWork, BeginThrows, BeginPlain, history
<1>4. ASSUME NEW t \in Txs,
             DisposePlain(t) \/ \E c \in Conns : DisposeWork(t, c)
      PROVE  EarlyInv'
  BY <1>1, <1>4 DEF DisposePlain, DisposeWork, history
<1>5. ASSUME NEW t \in Txs, NEW c \in Conns,
             Commit(t, c) \/ CommitAborted(t, c) \/ CommitIdle(t, c)
      PROVE  EarlyInv'
  <2>1. /\ UNCHANGED <<driver, inside>> /\ tx[t] = "open" /\ on[t] = c
        /\ asked' = [asked EXCEPT ![t] = IF @ = 0 THEN Len(log[t]) + 1 ELSE @]
    BY <1>5 DEF Commit, CommitAborted, CommitIdle, Committing
  <2>2. \A p \in durable' : p \in durable \/ p \in inside[t]
    <3>1. \A p \in durable' :
            p \in durable \/ (session[c] = "active" /\ p \in pending[c])
      BY <1>5 DEF Commit, CommitAborted, CommitIdle
    <3>2. session[c] = "active" => owner[c] = t
      BY <2>1 DEF OwnerInv, TypeOK
    <3>3. session[c] = "active" => pending[c] = inside[owner[c]]
      BY DEF HeldInv
    <3>4. QED
      BY <3>1, <3>2, <3>3
  <2>3. /\ \A u \in Txs : asked'[u] = asked[u] \/ asked[u] = 0
        /\ \A p \in durable : p[1] \in Txs
        /\ \A p \in inside[t] : p[1] = t
    BY <2>1 DEF TypeOK, MadeInv
  <2>4. \A p \in durable : Early(p[1], p[2])' => Early(p[1], p[2])
    BY <2>3 DEF Early
  <2>5. QED
    BY <2>1, <2>2, <2>3, <2>4 DEF EarlyInv
<1>6. ASSUME NEW t \in Txs, NEW c \in Conns, NEW call \in Calls,
             \/ Refuse(t, c, call) \/ TakeRead(t, c, call)
             \/ TakeInside(t, c, call)
      PROVE  EarlyInv'
  <2> DEFINE new == Fresh(t)
  <2>1. /\ UNCHANGED <<driver, durable, asked>>
        /\ inside' = inside \/ inside' = [inside EXCEPT ![t] = @ \cup new]
    BY <1>6 DEF Refuse, TakeRead, TakeInside, Takes
  <2> HIDE DEF new
  <2>2. \A u \in Txs : inside[u] \subseteq inside'[u]
    BY <2>1 DEF TypeOK
  <2>3. QED
    BY <1>1, <2>1, <2>2
<1>7. ASSUME NEW t \in Txs, NEW c \in Conns, NEW call \in Calls,
             TakeAlone(t, c, call) \/ LoseAnswer(t, c, call)
      PROVE  EarlyInv'
  <2>1. /\ UNCHANGED <<driver, asked, inside>> /\ tx[t] = "open" /\ on[t] = c
        /\ \/ durable' = durable
           \/ session[c] = "idle" /\ durable' = durable \cup Fresh(t)
    BY <1>7 DEF TakeAlone, Takes, LoseAnswer, Called
  <2>2. driver = "pqxx" /\ session[c] = "idle" => ~Early(t, Len(log[t]) + 1)
    <3>1. /\ asked[t] <= Len(log[t]) + 1
          /\ driver = "pqxx" /\ asked[t] = 0 => session[c] # "idle"
      BY <2>1 DEF VerdictInv
    <3>2. asked[t] \in Nat /\ Len(log[t]) \in Nat
      BY DEF TypeOK
    <3>3. QED
      BY <3>1, <3>2 DEF Early
  <2>3. \A p \in Fresh(t) : p[1] = t /\ p[2] = Len(log[t]) + 1
    BY DEF Fresh
  <2>4. \A u, n : Early(u, n)' <=> Early(u, n)
    BY <2>1 DEF Early
  <2>5. \A p \in Fresh(t) : driver = "pqxx" /\ session[c] = "idle"
                                => ~Early(p[1], p[2])
    BY <2>2, <2>3
  <2>6. QED
    BY <2>1, <2>4, <2>5 DEF EarlyInv
<1>8. QED
  BY <1>2, <1>3, <1>4, <1>5, <1>6, <1>7, Steps

(* The log says, until the commit, whether the server still has the        *)
(* transaction open; so it says what the commit did.                       *)
LEMMA VerdictStep ==
  ASSUME TypeOK, OwnerInv, HeldInv, LeftInv, MadeInv, FateInv, AnswerInv,
         VerdictInv, Next
  PROVE  VerdictInv'
<1> DEFINE V(t) == asked[t] > 0 /\ driver = "pqxx" =>
                     IF \A n \in 1..asked[t] - 1 : log[t][n].done
                       THEN inside[t] \subseteq durable
                       ELSE inside[t] \cap durable = {}
           N(t) == driver = "pqxx" /\ tx[t] = "open" /\ asked[t] = 0 =>
                     session[on[t]] # "idle"
           S(c) == /\ session[c] = "active" => AllDone(owner[c], Len(log[owner[c]]))
                   /\ session[c] = "failed" /\ owner[c] \notin cut =>
                        ~AllDone(owner[c], Len(log[owner[c]]))
<1>1. /\ \A t \in Txs \ cut : V(t)
      /\ \A t \in Txs : asked[t] <= Len(log[t]) + 1 /\ N(t)
      /\ \A c \in Conns : S(c)
  BY DEF VerdictInv, CommitVerdict
<1>2. /\ \A t \in Txs : Len(log[t]) \in Nat /\ asked[t] \in Nat /\ on[t] \in Conns
      /\ NoTx \notin Txs
  BY DriverAssumption DEF TypeOK
<1>3. SUFFICES /\ \A t \in Txs \ cut' : V(t)'
               /\ \A t \in Txs : asked'[t] <= Len(log'[t]) + 1 /\ N(t)'
               /\ \A c \in Conns : S(c)'
  BY DEF VerdictInv, CommitVerdict
<1>4. /\ \A c \in Conns : session[c] # "idle" =>
           /\ driver = "pqxx" /\ owner[c] \in Txs
           /\ tx[owner[c]] = "open" /\ on[owner[c]] = c
      /\ \A t \in Txs : driver = "pqxx" /\ tx[t] = "open" => owner[on[t]] = t
  BY DEF OwnerInv, TypeOK
(* connections, begin() and dispose() *)
<1>5. ASSUME NEW c \in Conns, Open(c)
      PROVE  /\ \A t \in Txs \ cut' : V(t)'
             /\ \A t \in Txs : asked'[t] <= Len(log'[t]) + 1 /\ N(t)'
             /\ \A d \in Conns : S(d)'
  BY <1>1, <1>5 DEF Open, txVars, history, AllDone
<1>6. ASSUME NEW c \in Conns, Lose(c) \/ Close(c)
      PROVE  /\ \A t \in Txs \ cut' : V(t)'
             /\ \A t \in Txs : asked'[t] <= Len(log'[t]) + 1 /\ N(t)'
             /\ \A d \in Conns : S(d)'
  <2>1. /\ UNCHANGED <<driver, owner, tx, on, durable, log, inside, asked>>
        /\ cut \subseteq cut'
        /\ session[c] = "active" => owner[c] \in cut'
        /\ \A d \in Conns : \/ session'[d] = session[d]
                            \/ /\ d = c /\ session[c] = "active"
                               /\ session'[c] = "failed"
    BY <1>6 DEF Lose, Close, RollBack, CutOff, txVars, TypeOK
  <2>2. \A t \in Txs \ cut' : V(t)'
    BY <1>1, <2>1
  <2>3. \A t \in Txs : asked'[t] <= Len(log'[t]) + 1 /\ N(t)'
    BY <1>1, <1>2, <2>1
  <2>4. \A d \in Conns : S(d)'
    BY <1>1, <2>1 DEF AllDone
  <2>5. QED
    BY <2>2, <2>3, <2>4
<1>7. ASSUME NEW t \in Txs, NEW c \in Conns, BeginWork(t, c)
      PROVE  /\ \A u \in Txs \ cut' : V(u)'
             /\ \A u \in Txs : asked'[u] <= Len(log'[u]) + 1 /\ N(u)'
             /\ \A d \in Conns : S(d)'
  <2>1. /\ UNCHANGED <<driver, durable, log, inside, asked, cut>>
        /\ driver = "pqxx" /\ tx[t] = "none" /\ owner[c] = NoTx
        /\ owner'[c] = t /\ session'[c] = "active" /\ on'[t] = c
        /\ \A u \in Txs \ {t} : tx'[u] = tx[u] /\ on'[u] = on[u]
        /\ \A d \in Conns \ {c} : owner'[d] = owner[d] /\ session'[d] = session[d]
    BY <1>7 DEF BeginWork, Begun, TypeOK, history
  <2>2. \A u \in Txs \ cut' : V(u)'
    BY <1>1, <2>1
  <2>3. \A u \in Txs : asked'[u] <= Len(log'[u]) + 1 /\ N(u)'
    <3>1. ASSUME NEW u \in Txs \ {t}
          PROVE  N(u)'
      <4>1. tx[u] = "open" => on[u] # c
        BY <1>2, <1>4, <2>1
      <4>2. QED
        BY <1>1, <1>2, <2>1, <4>1
    <3>2. N(t)'
      BY <2>1
    <3>3. QED
      BY <1>1, <2>1, <3>1, <3>2
  <2>4. \A d \in Conns : S(d)'
    <3>1. Len(log[t]) = 0
      BY <2>1 DEF AnswerInv
    <3>2. S(c)'
      BY <2>1, <3>1 DEF AllDone
    <3>3. \A d \in Conns \ {c} : S(d)'
      BY <1>1, <2>1 DEF AllDone
    <3>4. QED
      BY <3>2, <3>3
  <2>5. QED
    BY <2>2, <2>3, <2>4
<1>8. ASSUME NEW t \in Txs, NEW c \in Conns,
             BeginThrows(t, c) \/ BeginPlain(t, c) \/ DisposePlain(t)
      PROVE  /\ \A u \in Txs \ cut' : V(u)'
             /\ \A u \in Txs : asked'[u] <= Len(log'[u]) + 1 /\ N(u)'
             /\ \A d \in Conns : S(d)'
  <2>1. /\ UNCHANGED <<driver, durable, log, inside, asked, cut, session, owner>>
        /\ driver = "pqxx" => tx'[t] # "open"
        /\ \A u \in Txs \ {t} : tx'[u] = tx[u] /\ on'[u] = on[u]
    BY <1>8 DEF BeginThrows, BeginPlain, DisposePlain, Begun, connVars, history,
       TypeOK
  <2>2. \A u \in Txs : N(u)'
    BY <1>1, <2>1
  <2>3. QED
    BY <1>1, <2>1, <2>2 DEF AllDone
<1>9. ASSUME NEW t \in Txs, NEW c \in Conns, DisposeWork(t, c)
      PROVE  /\ \A u \in Txs \ cut' : V(u)'
             /\ \A u \in Txs : asked'[u] <= Len(log'[u]) + 1 /\ N(u)'
             /\ \A d \in Conns : S(d)'
  <2>1. /\ UNCHANGED <<driver, durable, log, inside, asked, cut, on>>
        /\ driver = "pqxx" /\ tx[t] = "open" /\ on[t] = c
        /\ session'[c] = "idle" /\ tx'[t] # "open"
        /\ \A u \in Txs \ {t} : tx'[u] = tx[u]
        /\ \A d \in Conns \ {c} : owner'[d] = owner[d] /\ session'[d] = session[d]
    BY <1>9 DEF DisposeWork, Leave, TypeOK, history
  <2>2. \A u \in Txs \ {t} : tx[u] = "open" => on[u] # c
    BY <1>4, <2>1
  <2>3. \A u \in Txs : N(u)'
    BY <1>1, <1>2, <2>1, <2>2
  <2>4. \A d \in Conns : S(d)'
    BY <1>1, <2>1 DEF AllDone
  <2>5. QED
    BY <1>1, <2>1, <2>3, <2>4
(* the first commit() decides, a later one changes nothing *)
<1>10. ASSUME NEW t \in Txs, NEW c \in Conns,
              Commit(t, c) \/ CommitAborted(t, c) \/ CommitIdle(t, c)
       PROVE  /\ \A u \in Txs \ cut' : V(u)'
              /\ \A u \in Txs : asked'[u] <= Len(log'[u]) + 1 /\ N(u)'
              /\ \A d \in Conns : S(d)'
  <2>1. /\ UNCHANGED <<driver, owner, tx, on, log, inside>>
        /\ tx[t] = "open" /\ on[t] = c /\ cut \subseteq cut'
        /\ asked' = [asked EXCEPT ![t] = IF @ = 0 THEN Len(log[t]) + 1 ELSE @]
        /\ \A d \in Conns : \/ session'[d] = session[d]
                            \/ d = c /\ session'[d] = "idle"
    BY <1>10 DEF Commit, CommitAborted, CommitIdle, Committing, Leave, txVars,
       TypeOK
  <2>2. /\ asked'[t] = IF asked[t] = 0 THEN Len(log[t]) + 1 ELSE asked[t]
        /\ \A u \in Txs \ {t} : asked'[u] = asked[u]
    BY <2>1 DEF TypeOK
  <2>3. session[c] # "idle" => owner[c] = t
    BY <1>4, <2>1
  <2>4. CASE Commit(t, c)
    <3>1. /\ session[c] = "active" /\ pending[c] = inside[t]
          /\ \/ durable' = durable \cup pending[c]
             \/ durable' = durable /\ t \in cut'
      BY <1>10, <2>3, <2>4 DEF Commit, HeldInv
    <3>2. asked[t] = 0 /\ AllDone(t, Len(log[t]))
      BY <1>1, <2>3, <3>1 DEF HeldInv, LeftInv
    <3>3. t \notin cut' => V(t)'
      BY <1>2, <2>1, <2>2, <3>1, <3>2 DEF AllDone
    <3>4. ASSUME NEW u \in Txs \ {t}, u \notin cut'
          PROVE  V(u)'
      <4>1. inside[u] \cap inside[t] = {}
        BY DEF MadeInv
      <4>2. inside[u] \cap durable' = inside[u] \cap durable
        BY <3>1, <4>1
      <4>3. V(u)
        BY <1>1, <2>1, <3>4
      <4>4. inside[u] \subseteq durable => inside[u] \subseteq durable'
        BY <3>1
      <4>5. QED
        BY <2>1, <2>2, <4>2, <4>3, <4>4
    <3>5. \A u \in Txs \ cut' : V(u)'
      BY <3>3, <3>4
    <3>6. \A u \in Txs : asked'[u] <= Len(log'[u]) + 1 /\ N(u)'
      BY <1>1, <1>2, <1>4, <2>1, <2>2
    <3>7. \A d \in Conns : S(d)'
      <4>1. session'[c] = "idle"
        BY <2>4 DEF Commit, Leave, TypeOK
      <4>2. QED
        BY <1>1, <2>1, <4>1 DEF AllDone
    <3>8. QED
      BY <3>5, <3>6, <3>7
  <2>5. CASE CommitAborted(t, c) \/ CommitIdle(t, c)
    <3>1. UNCHANGED <<durable, cut>>
      BY <2>5 DEF CommitAborted, CommitIdle
    <3>2. asked[t] = 0 /\ driver = "pqxx" => session[c] = "failed"
      <4>1. session[c] = "active" => conn[c] = "up"
        BY DEF HeldInv
      <4>2. asked[t] = 0 /\ driver = "pqxx" => session[c] # "idle"
        BY <1>1, <2>1
      <4>3. CASE CommitAborted(t, c)
        BY <4>3 DEF CommitAborted
      <4>4. CASE CommitIdle(t, c)
        BY <4>1, <4>2, <4>4 DEF CommitIdle, TypeOK
      <4>5. QED
        BY <2>5, <4>3, <4>4
    <3>3. ASSUME t \notin cut
          PROVE  V(t)'
      <4>1. CASE asked[t] = 0 /\ driver = "pqxx"
        <5>1. /\ ~AllDone(t, Len(log[t])) /\ inside[t] \cap durable = {}
          BY <1>1, <2>3, <3>2, <3>3, <4>1 DEF FateInv
        <5>2. asked'[t] - 1 = Len(log[t])
          BY <1>2, <2>2, <4>1
        <5>3. QED
          BY <2>1, <3>1, <5>1, <5>2 DEF AllDone
      <4>2. CASE asked[t] # 0 \/ driver # "pqxx"
        BY <1>1, <2>1, <2>2, <3>1, <3>3, <4>2
      <4>3. QED
        BY <4>1, <4>2
    <3>4. \A u \in Txs \ {t} : u \notin cut => V(u)'
      BY <1>1, <2>1, <2>2, <3>1
    <3>5. \A u \in Txs : asked'[u] <= Len(log'[u]) + 1 /\ N(u)'
      BY <1>1, <1>2, <1>4, <2>1, <2>2
    <3>6. \A d \in Conns : S(d)'
      BY <1>1, <2>1, <3>1 DEF AllDone
    <3>7. QED
      BY <3>1, <3>3, <3>4, <3>5, <3>6
  <2>6. QED
    BY <1>10, <2>4, <2>5
(* statements *)
<1>11. ASSUME NEW t \in Txs, NEW c \in Conns, NEW call \in Calls,
              NEW done \in BOOLEAN, NEW heard \in BOOLEAN,
              Called(t, c, call, done, heard),
              UNCHANGED <<driver, owner, tx, on, asked>>, cut \subseteq cut',
              \A u \in Txs : inside[u] \cap durable' = inside[u] \cap durable,
              durable \subseteq durable',
              \A u \in Txs : inside'[u] = inside[u] \/ (u = t /\ session[c] = "active"),
              \A d \in Conns \ {c} : session'[d] = session[d],
              session[c] = "idle" => session'[c] = "idle",
              \/ done /\ session'[c] = session[c] /\ session[c] # "failed"
              \/ ~done /\ session'[c] \in {"idle", "failed"}
              \/ session'[c] \in {"idle", "failed"} /\ (session[c] # "idle" => t \in cut'),
              session[c] # "idle" => session'[c] # "idle"
       PROVE  /\ \A u \in Txs \ cut' : V(u)'
              /\ \A u \in Txs : asked'[u] <= Len(log'[u]) + 1 /\ N(u)'
              /\ \A d \in Conns : S(d)'
  <2>1. /\ \A u \in Txs : \A n \in 1..Len(log[u]) : log'[u][n] = log[u][n]
        /\ log'[t][Len(log[t]) + 1].done = done
        /\ Len(log'[t]) = Len(log[t]) + 1
        /\ \A u \in Txs \ {t} : log'[u] = log[u]
    BY <1>11, CalledEntry, CalledLog
  <2>2. tx[t] = "open" /\ on[t] = c
    BY <1>11 DEF Called
  <2>3. session[c] # "idle" => owner[c] = t
    BY <1>4, <2>2
  <2>4. session[c] = "active" => asked[t] = 0
    BY <2>3 DEF HeldInv, LeftInv
  <2>5. \A u \in Txs : /\ asked'[u] <= Len(log'[u]) + 1
                       /\ \A n \in 1..asked[u] - 1 : log'[u][n] = log[u][n]
    <3>1. \A u \in Txs : asked[u] <= Len(log[u]) + 1
      BY <1>1
    <3>2. \A u \in Txs : \A n \in 1..asked[u] - 1 : n \in 1..Len(log[u])
      BY <1>2, <3>1
    <3>3. QED
      BY <1>2, <1>11, <2>1, <3>1, <3>2
  <2>6. \A u \in Txs \ cut' : V(u)'
    <3>1. ASSUME NEW u \in Txs, u \notin cut, asked[u] > 0
          PROVE  V(u)'
      <4>1. inside'[u] = inside[u]
        BY <1>11, <2>4, <3>1
      <4>2. V(u)
        BY <1>1, <3>1
      <4>3. (\A n \in 1..asked[u] - 1 : log'[u][n].done) <=>
            (\A n \in 1..asked[u] - 1 : log[u][n].done)
        BY <2>5
      <4>4. QED
        BY <1>11, <4>1, <4>2, <4>3
    <3>2. QED
      BY <1>11, <3>1
  <2>7. \A u \in Txs : N(u)'
    <3>1. \A d \in Conns : session[d] # "idle" => session'[d] # "idle"
      BY <1>11
    <3>2. QED
      BY <1>1, <1>2, <1>11, <3>1
  <2>8. \A d \in Conns \ {c} : S(d)'
    <3>1. \A d \in Conns \ {c} : session[d] # "idle" => owner[d] \in Txs \ {t}
      BY <1>4, <2>2
    <3>2. QED
      BY <1>1, <1>11, <2>1, <3>1 DEF AllDone
  <2>9. S(c)'
    <3>1. CASE session[c] = "idle"
      BY <1>11, <3>1
    <3>2. CASE session[c] = "active" /\ done /\ session'[c] = session[c]
      <4>1. AllDone(t, Len(log[t])) /\ session'[c] = "active" /\ owner'[c] = t
        BY <1>1, <1>11, <2>3, <3>2 DEF TypeOK
      <4>2. \A n \in 1..Len(log[t]) + 1 : n \in 1..Len(log[t]) \/ n = Len(log[t]) + 1
        BY <1>2
      <4>3. \A n \in 1..Len(log[t]) + 1 : log'[t][n].done
        BY <2>1, <3>2, <4>1, <4>2 DEF AllDone
      <4>4. QED
        BY <2>1, <4>1, <4>3 DEF AllDone
    <3>3. CASE session[c] # "idle" /\ ~done
      <4>1. session'[c] = "failed" /\ owner'[c] = t
        BY <1>11, <2>3, <3>3
      <4>2. Len(log[t]) + 1 \in 1..Len(log'[t])
        BY <1>2, <2>1
      <4>3. ~ log'[t][Len(log[t]) + 1].done
        BY <2>1, <3>3
      <4>4. QED
        BY <4>1, <4>2, <4>3 DEF AllDone
    <3>4. CASE session[c] # "idle" /\ session'[c] # "active" /\ t \in cut'
      BY <1>11, <2>3, <3>4
    <3>5. QED
      BY <1>11, <3>1, <3>2, <3>3, <3>4
  <2>10. QED
    BY <2>5, <2>6, <2>7, <2>8, <2>9
<1>12. ASSUME NEW t \in Txs, NEW c \in Conns, NEW call \in Calls, Refuse(t, c, call)
       PROVE  /\ \A u \in Txs \ cut' : V(u)'
              /\ \A u \in Txs : asked'[u] <= Len(log'[u]) + 1 /\ N(u)'
              /\ \A d \in Conns : S(d)'
  <2>1. /\ Called(t, c, call, FALSE, FALSE)
        /\ UNCHANGED <<driver, owner, tx, on, asked, cut, durable, inside>>
        /\ session'[c] = IF session[c] = "idle" THEN "idle" ELSE "failed"
        /\ \A d \in Conns \ {c} : session'[d] = session[d]
    BY <1>12 DEF Refuse, RollBack, txVars, TypeOK
  <2>2. QED
    BY <1>11, <2>1
<1>13. ASSUME NEW t \in Txs, NEW c \in Conns, NEW call \in Calls,
              \/ TakeRead(t, c, call) \/ TakeInside(t, c, call)
              \/ TakeAlone(t, c, call)
       PROVE  /\ \A u \in Txs \ cut' : V(u)'
              /\ \A u \in Txs : asked'[u] <= Len(log'[u]) + 1 /\ N(u)'
              /\ \A d \in Conns : S(d)'
  <2>1. /\ Called(t, c, call, TRUE, TRUE) /\ session[c] # "failed"
        /\ UNCHANGED <<driver, session, owner, tx, on, asked, cut>>
    BY <1>13 DEF TakeRead, TakeInside, TakeAlone, Takes, Ready, txVars
  <2> DEFINE new == Fresh(t)
  <2>2. \A u \in Txs : inside[u] \cap new = {}
    BY FreshIsNew DEF Fresh
  <2>3. /\ durable' = durable \/ durable' = durable \cup new
        /\ \/ inside' = inside
           \/ session[c] = "active" /\ inside' = [inside EXCEPT ![t] = @ \cup new]
    BY <1>13 DEF TakeRead, TakeInside, TakeAlone
  <2> HIDE DEF new
  <2>4. /\ \A u \in Txs : inside[u] \cap durable' = inside[u] \cap durable
        /\ durable \subseteq durable'
        /\ \A u \in Txs : inside'[u] = inside[u] \/ (u = t /\ session[c] = "active")
    BY <2>2, <2>3 DEF TypeOK
  <2>5. QED
    BY <1>11, <2>1, <2>4
<1>14. ASSUME NEW t \in Txs, NEW c \in Conns, NEW call \in Calls,
              LoseAnswer(t, c, call)
       PROVE  /\ \A u \in Txs \ cut' : V(u)'
              /\ \A u \in Txs : asked'[u] <= Len(log'[u]) + 1 /\ N(u)'
              /\ \A d \in Conns : S(d)'
  <2> DEFINE new == Fresh(t)
  <2>1. /\ Called(t, c, call, TRUE, FALSE) /\ session[c] # "failed"
        /\ UNCHANGED <<driver, owner, tx, on, asked, inside>>
        /\ durable' = durable \/ durable' = durable \cup new
        /\ tx[t] = "open" /\ on[t] = c
    BY <1>14 DEF LoseAnswer, Ready, Called, txVars
  <2>2. /\ session'[c] = IF session[c] = "idle" THEN "idle" ELSE "failed"
        /\ \A d \in Conns \ {c} : session'[d] = session[d]
    BY <1>14, <2>1 DEF LoseAnswer, RollBack, TypeOK
  <2>3. cut \subseteq cut' /\ (session[c] # "idle" => t \in cut')
    <3>1. session[c] # "idle" => owner[c] = t /\ session[c] = "active"
      BY <1>4, <2>1 DEF TypeOK
    <3>2. QED
      BY <1>14, <3>1 DEF LoseAnswer, CutOff
  <2>4. \A u \in Txs : inside[u] \cap new = {}
    BY FreshIsNew DEF Fresh
  <2> HIDE DEF new
  <2>5. /\ \A u \in Txs : inside[u] \cap durable' = inside[u] \cap durable
        /\ durable \subseteq durable'
    BY <2>1, <2>4
  <2>6. QED
    BY <1>11, <2>1, <2>2, <2>3, <2>5
<1>15. \A t \in Txs : DisposePlain(t) => \E c \in Conns : TRUE
  BY <1>2
<1>16. QED
  <2> HIDE DEF V, N, S
  <2>1. QED
    BY <1>5, <1>6, <1>7, <1>8, <1>9, <1>10, <1>12, <1>13, <1>14, <1>15, Steps

(* A fresh process satisfies the invariant.                                *)
LEMMA DriverInit == Init => DriverIInv
<1> SUFFICES ASSUME Init
             PROVE  DriverIInv
  OBVIOUS
<1>1. TypeOK
  BY DriverAssumption DEF Init, TypeOK
<1>2. OwnerInv /\ HeldInv /\ LeftInv
  BY DEF Init, OwnerInv, HeldInv, LeftInv
<1>3. MadeInv /\ FateInv
  BY DEF Init, MadeInv, FateInv, AllOrNothing
<1>4. AnswerInv
  <2>1. \A t \in Txs : log[t] = <<>> /\ inside[t] = {} /\ tx[t] = "none"
    BY DEF Init
  <2>2. QED
    BY <2>1 DEF Init, AnswerInv
<1>5. VerdictInv /\ EarlyInv
  BY DEF Init, VerdictInv, CommitVerdict, EarlyInv
<1>6. QED
  BY <1>1, <1>2, <1>3, <1>4, <1>5 DEF DriverIInv

(* The invariant is inductive.                                             *)
THEOREM DriverInvariance == Spec => []DriverIInv
<1>1. DriverIInv /\ [Next]_vars => DriverIInv'
  <2> SUFFICES ASSUME DriverIInv, [Next]_vars
               PROVE  DriverIInv'
    OBVIOUS
  <2>1. CASE Next
    BY <2>1, TypeStep, OwnerStep, HeldStep, LeftStep, MadeStep, FateStep,
       AnswerStep, VerdictStep, EarlyStep DEF DriverIInv
  <2>2. CASE UNCHANGED vars
    <3> USE <2>2 DEF vars, connVars, txVars, history, DriverIInv
    <3>1. TypeOK'
      BY DEF TypeOK
    <3>2. OwnerInv' /\ HeldInv' /\ LeftInv'
      BY DEF OwnerInv, HeldInv, LeftInv
    <3>3. MadeInv' /\ FateInv'
      BY DEF MadeInv, FateInv, AllOrNothing
    <3>4. AnswerInv'
      BY DEF AnswerInv
    <3>5. VerdictInv' /\ EarlyInv'
      BY DEF VerdictInv, CommitVerdict, AllDone, EarlyInv, Early
    <3>6. QED
      BY <3>1, <3>2, <3>3, <3>4, <3>5
  <2>3. QED
    BY <2>1, <2>2
<1>2. QED
  BY DriverInit, <1>1, PTL DEF Spec

(* The statements of a transaction up to its commit() are all durable or   *)
(* none is (CTransaction.cpp:227-235, CDatabaseHandler_pqxx.cpp:65-101).   *)
THEOREM DriverAllOrNothing == Spec => []AllOrNothing
<1>1. DriverIInv => AllOrNothing
  BY DEF DriverIInv, FateInv
<1>2. QED
  BY <1>1, DriverInvariance, PTL

(* A transaction that has committed, or that MySQL runs, is outside of the *)
(* server's transactions (CTransaction.cpp:229-233).                       *)
THEOREM DriverNoWayBack == Spec => []NoWayBack
<1>1. DriverIInv => NoWayBack
  <2> SUFFICES ASSUME DriverIInv, NEW t \in Txs, tx[t] = "open",
                      conn[on[t]] = "up", driver = "mysql" \/ asked[t] > 0
               PROVE  session[on[t]] = "idle"
    BY DEF NoWayBack
  <2>1. on[t] \in Conns /\ driver \in Drivers /\ asked[t] \in Nat
    BY DEF DriverIInv, TypeOK
  <2>2. CASE owner[on[t]] = NoTx
    BY <2>1, <2>2 DEF DriverIInv, OwnerInv
  <2>3. CASE owner[on[t]] # NoTx
    <3>1. owner[on[t]] = t /\ driver = "pqxx"
      BY <2>1, <2>3 DEF DriverIInv, OwnerInv
    <3>2. QED
      BY <2>1, <3>1 DEF DriverIInv, LeftInv
  <2>4. QED
    BY <2>2, <2>3
<1>2. QED
  BY <1>1, DriverInvariance, PTL

(* What the first commit() did is decided by whether every call before it  *)
(* was executed, unless the connection broke or the server refused         *)
(* (CTransaction.cpp:227-235).                                             *)
THEOREM DriverCommitVerdict == Spec => []CommitVerdict
<1>1. DriverIInv => CommitVerdict
  BY DEF DriverIInv, VerdictInv
<1>2. QED
  BY <1>1, DriverInvariance, PTL

(* Until a libpqxx transaction commits, a call of it that reported an      *)
(* error has nothing in the database, then or later, although its answer   *)
(* may have been lost after it was executed, but for an insert() whose id  *)
(* was NULL (CDatabaseHandler_pqxx.cpp:71-127).                            *)
THEOREM DriverErrorLeavesNothing == Spec => []ErrorLeavesNothing
<1>1. DriverIInv => ErrorLeavesNothing
  <2> SUFFICES ASSUME DriverIInv, driver = "pqxx", NEW t \in Txs,
                      NEW n \in 1..Len(log[t]), Early(t, n), <<t, n>> \in durable
               PROVE  log[t][n].answer \notin {"error", "false"}
    BY DEF ErrorLeavesNothing
  <2> DEFINE p == <<t, n>>
  <2>1. p[1] = t /\ p[2] = n /\ p \in durable
    OBVIOUS
  <2> HIDE DEF p
  <2>2. p \in inside[t]
    BY <2>1 DEF DriverIInv, EarlyInv
  <2>3. QED
    BY <2>1, <2>2 DEF DriverIInv, AnswerInv
<1>2. QED
  BY <1>1, DriverInvariance, PTL

(***************************************************************************)
(* Driver implements AtomicTx.                                             *)
(***************************************************************************)

(* A transaction none of whose own state changes is the same to AtomicTx.  *)
LEMMA Same ==
  ASSUME NEW u \in Txs, tx'[u] = tx[u],
         tx[u] = "open" => /\ on'[u] = on[u]
                           /\ owner'[on[u]] = u <=> owner[on[u]] = u,
         Has(u) => session'[on[u]] = session[on[u]] /\ pending'[on[u]] = pending[on[u]]
  PROVE  Progress(u)' = Progress(u) /\ Collected(u)' = Collected(u)
BY DEF Progress, Collected, Has

(* When all are the same but t, only t's part of the abstract state moves. *)
LEMMA OnlyOne ==
  ASSUME NEW t \in Txs,
         \A u \in Txs \ {t} : Progress(u)' = Progress(u) /\ Collected(u)' = Collected(u)
  PROVE  /\ absMode' = [absMode EXCEPT ![t] = Progress(t)']
         /\ absBuffer' = [absBuffer EXCEPT ![t] = Collected(t)']
BY DEF absMode, absBuffer

(* When all are the same, the abstract state does not move.                *)
LEMMA NoOne ==
  ASSUME \A u \in Txs : Progress(u)' = Progress(u) /\ Collected(u)' = Collected(u)
  PROVE  UNCHANGED <<absMode, absBuffer>>
BY DEF absMode, absBuffer

(* Who has a work on a connection, and what that is to AtomicTx.           *)
LEMMA WhoHas ==
  ASSUME DriverIInv, NEW c \in Conns
  PROVE  /\ \A u \in Txs : Has(u) /\ on[u] = c => owner[c] = u
         /\ session[c] # "idle" => /\ owner[c] \in Txs /\ Has(owner[c])
                                   /\ on[owner[c]] = c
         /\ session[c] # "active" => pending[c] = {}
         /\ \A u \in Txs : tx[u] = "open" /\ ~Has(u) => driver # "pqxx"
         /\ \A u \in Txs : Has(u) => driver = "pqxx"
<1>1. \A u \in Txs : u # NoTx /\ on[u] \in Conns
  BY DriverAssumption DEF DriverIInv, TypeOK
<1>2. session[c] # "idle" => /\ owner[c] \in Txs /\ Has(owner[c])
                            /\ on[owner[c]] = c
  BY DEF DriverIInv, TypeOK, OwnerInv, Has
<1>3. session[c] # "active" => pending[c] = {}
  BY DEF DriverIInv, HeldInv
<1>4. \A u \in Txs : Has(u) => driver = "pqxx"
  BY <1>1 DEF DriverIInv, OwnerInv, Has
<1>5. \A u \in Txs : tx[u] = "open" /\ ~Has(u) => driver # "pqxx"
  BY DEF DriverIInv, OwnerInv, Has
<1>6. QED
  BY <1>2, <1>3, <1>4, <1>5 DEF Has

(* Every begin() is an abstract start, as a transaction, as single         *)
(* statements, or refused.                                                 *)
LEMMA BeginAbs ==
  ASSUME DriverIInv, NEW t \in Txs, NEW c \in Conns,
         BeginWork(t, c) \/ BeginThrows(t, c) \/ BeginPlain(t, c)
  PROVE  Abs!Start(t)
<1>1. tx[t] = "none" /\ UNCHANGED <<durable, inside>>
  BY DEF BeginWork, BeginThrows, BeginPlain, history
<1>2. Progress(t) = "new" /\ Collected(t) = {}
  BY <1>1 DEF Progress, Collected, Has
<1>3. CASE BeginWork(t, c)
  <2>1. /\ owner[c] = NoTx /\ UNCHANGED pending
        /\ tx'[t] = "open" /\ on'[t] = c /\ owner'[c] = t /\ session'[c] = "active"
        /\ \A u \in Txs \ {t} : tx'[u] = tx[u] /\ on'[u] = on[u]
        /\ \A d \in Conns \ {c} : owner'[d] = owner[d] /\ session'[d] = session[d]
    BY <1>3 DEF BeginWork, Begun, DriverIInv, TypeOK
  <2>2. pending[c] = {}
    BY <2>1 DEF DriverIInv, OwnerInv, HeldInv
  <2>3. Progress(t)' = "tx" /\ Collected(t)' = {}
    BY <2>1, <2>2 DEF Progress, Collected, Has
  <2>4. ASSUME NEW u \in Txs \ {t}
        PROVE  Progress(u)' = Progress(u) /\ Collected(u)' = Collected(u)
    <3>1. on[u] \in Conns
      BY DEF DriverIInv, TypeOK
    <3>2. u # NoTx
      BY DriverAssumption
    <3>3. QED
      BY <2>1, <3>1, <3>2, Same DEF Has
  <2>5. /\ absMode' = [absMode EXCEPT ![t] = "tx"]
        /\ absBuffer' = [absBuffer EXCEPT ![t] = {}]
    BY <2>3, <2>4, OnlyOne
  <2>6. QED
    BY <1>1, <1>2, <2>5 DEF Abs!Start, Abs!Goes, absMode, absBuffer
<1>4. CASE BeginThrows(t, c) \/ BeginPlain(t, c)
  <2>1. /\ UNCHANGED <<owner, session, pending, driver>> /\ on'[t] = c
        /\ \A u \in Txs \ {t} : tx'[u] = tx[u] /\ on'[u] = on[u]
        /\ tx'[t] = "refused" \/ (tx'[t] = "open" /\ driver = "mysql")
    BY <1>4 DEF BeginThrows, BeginPlain, Begun, connVars, DriverIInv, TypeOK
  <2>2. driver = "mysql" => \A d \in Conns : owner[d] = NoTx
    BY DEF DriverIInv, OwnerInv
  <2>3. Progress(t)' \in {"end", "auto"} /\ Collected(t)' = {}
    BY <2>1, <2>2, DriverAssumption DEF Progress, Collected, Has
  <2>4. ASSUME NEW u \in Txs \ {t}
        PROVE  Progress(u)' = Progress(u) /\ Collected(u)' = Collected(u)
    BY <2>1, Same
  <2>5. /\ absMode' = [absMode EXCEPT ![t] = Progress(t)']
        /\ absBuffer' = [absBuffer EXCEPT ![t] = {}]
    BY <2>3, <2>4, OnlyOne
  <2>6. QED
    BY <1>1, <1>2, <2>3, <2>5 DEF Abs!Start, Abs!Goes, absMode, absBuffer
<1>5. QED
  BY <1>3, <1>4

(* A statement that fails, and a connection that breaks or is closed, doom *)
(* the transaction that is open on it, if there is one.                    *)
LEMMA DoomAbs ==
  ASSUME DriverIInv, NEW c \in Conns, RollBack(c, "failed"),
         UNCHANGED <<owner, tx, on, durable, inside>>
  PROVE  \/ \E t \in Txs : Abs!Doom(t)
         \/ UNCHANGED <<absMode, absBuffer>>
<1>1. session[c] # "active" => pending[c] = {}
  BY WhoHas
<1>2. \A d \in Conns \ {c} : session'[d] = session[d] /\ pending'[d] = pending[d]
  BY DEF RollBack, DriverIInv, TypeOK
<1>3. pending'[c] = {}
  BY DEF RollBack, DriverIInv, TypeOK
<1>4. CASE session[c] # "active"
  <2>1. session' = session /\ pending' = pending
    BY <1>1, <1>2, <1>3, <1>4 DEF RollBack, DriverIInv, TypeOK
  <2>2. \A u \in Txs : Progress(u)' = Progress(u) /\ Collected(u)' = Collected(u)
    BY <2>1, Same
  <2>3. QED
    BY <2>2, NoOne
<1>5. CASE session[c] = "active"
  <2>1. session'[c] = "failed"
    BY <1>5 DEF RollBack, DriverIInv, TypeOK
  <2>2. PICK t \in Txs : t = owner[c] /\ Has(t) /\ on[t] = c
    BY <1>5, WhoHas
  <2>3. Progress(t) = "tx" /\ Progress(t)' = "dead" /\ Collected(t)' = {}
    BY <1>3, <1>5, <2>1, <2>2 DEF Progress, Collected, Has
  <2>4. ASSUME NEW u \in Txs \ {t}
        PROVE  Progress(u)' = Progress(u) /\ Collected(u)' = Collected(u)
    <3>1. on[u] \in Conns
      BY DEF DriverIInv, TypeOK
    <3>2. Has(u) => on[u] # c
      BY <2>2, WhoHas
    <3>3. QED
      BY <1>2, <3>1, <3>2, Same
  <2>5. /\ absMode' = [absMode EXCEPT ![t] = "dead"]
        /\ absBuffer' = [absBuffer EXCEPT ![t] = {}]
    BY <2>3, <2>4, OnlyOne
  <2>6. Abs!Doom(t)
    BY <2>3, <2>5 DEF Abs!Doom, Abs!Goes, Abs!Drop, absMode
  <2>7. QED
    BY <2>6
<1>6. QED
  BY <1>4, <1>5

(* dispose() is the abstract end, with either driver.                      *)
LEMMA DisposeAbs ==
  ASSUME DriverIInv, NEW t \in Txs,
         DisposePlain(t) \/ \E c \in Conns : DisposeWork(t, c)
  PROVE  Abs!End(t)
<1>1. /\ tx[t] = "open" /\ tx'[t] = "gone" /\ UNCHANGED <<on, durable, inside>>
      /\ \A u \in Txs \ {t} : tx'[u] = tx[u]
  BY DEF DisposePlain, DisposeWork, history, DriverIInv, TypeOK
<1>2. Progress(t) \in {"tx", "dead", "auto"}
  BY <1>1 DEF Progress
<1>3. Progress(t)' = "end" /\ Collected(t)' = {}
  BY <1>1 DEF Progress, Collected, Has
<1>4. ASSUME NEW u \in Txs \ {t}
      PROVE  Progress(u)' = Progress(u) /\ Collected(u)' = Collected(u)
  <2>1. CASE DisposePlain(t)
    BY <1>1, <2>1, Same DEF DisposePlain, connVars
  <2>2. ASSUME NEW c \in Conns, DisposeWork(t, c)
        PROVE  Progress(u)' = Progress(u) /\ Collected(u)' = Collected(u)
    <3>1. /\ driver = "pqxx" /\ on[t] = c /\ owner'[c] = NoTx
          /\ \A d \in Conns \ {c} : /\ owner'[d] = owner[d]
                                     /\ session'[d] = session[d]
                                     /\ pending'[d] = pending[d]
      BY <2>2 DEF DisposeWork, Leave, DriverIInv, TypeOK
    <3>2. owner[c] = t
      BY <1>1, <3>1 DEF DriverIInv, OwnerInv
    <3>3. on[u] \in Conns /\ u # NoTx
      BY DriverAssumption DEF DriverIInv, TypeOK
    <3>4. QED
      BY <1>1, <3>1, <3>2, <3>3, Same DEF Has
  <2>3. QED
    BY <2>1, <2>2
<1>5. /\ absMode' = [absMode EXCEPT ![t] = "end"]
      /\ absBuffer' = [absBuffer EXCEPT ![t] = {}]
  BY <1>3, <1>4, OnlyOne
<1>6. QED
  BY <1>1, <1>2, <1>5 DEF Abs!End, Abs!Goes, Abs!Drop, absMode

(* commit() is the abstract commit the first time, and nothing after that. *)
LEMMA CommitAbs ==
  ASSUME DriverIInv, NEW t \in Txs, NEW c \in Conns,
         Commit(t, c) \/ CommitAborted(t, c)
  PROVE  Abs!Commit(t)
<1>1. /\ tx[t] = "open" /\ on[t] = c /\ session[c] # "idle"
      /\ UNCHANGED <<owner, tx, on, inside>>
  BY DEF Commit, CommitAborted, Committing, txVars
<1>2. owner[c] = t /\ Has(t)
  BY <1>1, WhoHas DEF DriverIInv, OwnerInv, Has
<1>3. /\ session'[c] = "idle" /\ pending'[c] = {}
      /\ \A d \in Conns \ {c} : session'[d] = session[d] /\ pending'[d] = pending[d]
  BY DEF Commit, CommitAborted, Leave, DriverIInv, TypeOK
<1>4. Progress(t) \in {"tx", "dead"} /\ Collected(t) = pending[c]
  BY <1>1, <1>2 DEF Progress, Collected, Has, DriverIInv, TypeOK
<1>5. Progress(t)' = "auto" /\ Collected(t)' = {}
  BY <1>1, <1>2, <1>3 DEF Progress, Collected, Has
<1>6. ASSUME NEW u \in Txs \ {t}
      PROVE  Progress(u)' = Progress(u) /\ Collected(u)' = Collected(u)
  <2>1. on[u] \in Conns /\ (Has(u) => on[u] # c)
    BY <1>2, WhoHas DEF DriverIInv, TypeOK
  <2>2. QED
    BY <1>1, <1>3, <2>1, Same
<1>7. /\ absMode' = [absMode EXCEPT ![t] = "auto"]
      /\ absBuffer' = [absBuffer EXCEPT ![t] = {}]
  BY <1>5, <1>6, OnlyOne
<1>8. durable' \in {durable, durable \cup pending[c]}
  BY DEF Commit, CommitAborted
<1>9. QED
  BY <1>1, <1>4, <1>7, <1>8 DEF Abs!Commit, Abs!Goes, Abs!Drop, absMode, absBuffer

(* A statement that is taken is collected or published.                    *)
LEMMA TakeAbs ==
  ASSUME DriverIInv, NEW t \in Txs, NEW c \in Conns, NEW call \in Calls,
         TakeInside(t, c, call) \/ TakeAlone(t, c, call)
  PROVE  \E n \in 1..MaxStmts : Abs!Collect(t, n) \/ Abs!Publish(t, n)
<1> DEFINE n == Len(log[t]) + 1
<1>1. /\ tx[t] = "open" /\ on[t] = c /\ Called(t, c, call, TRUE, TRUE)
      /\ UNCHANGED <<session, owner, tx, on>>
  BY DEF TakeInside, TakeAlone, Takes, Called, txVars
<1>2. n \in 1..MaxStmts
  BY <1>1, CalledLog DEF DriverIInv
<1>3. <<t, n>> \notin durable \cup inside[t]
  BY FreshIsNew DEF DriverIInv
<1>4. Fresh(t) = {<<t, n>>}
  BY DEF Fresh
<1> HIDE DEF n
<1>5. CASE TakeInside(t, c, call)
  <2>1. /\ session[c] = "active" /\ UNCHANGED durable
        /\ pending' = [pending EXCEPT ![c] = @ \cup {<<t, n>>}]
        /\ inside' = [inside EXCEPT ![t] = @ \cup {<<t, n>>}]
    BY <1>4, <1>5 DEF TakeInside
  <2>2. Has(t) /\ owner[c] = t
    BY <1>1, <2>1, WhoHas DEF DriverIInv, OwnerInv, Has
  <2>3. Progress(t) = "tx" /\ Progress(t)' = "tx"
    BY <1>1, <2>1, <2>2 DEF Progress, Has
  <2>4. Collected(t)' = Collected(t) \cup {<<t, n>>}
    BY <1>1, <2>1, <2>2 DEF Collected, Has, DriverIInv, TypeOK
  <2>5. ASSUME NEW u \in Txs \ {t}
        PROVE  Progress(u)' = Progress(u) /\ Collected(u)' = Collected(u)
    <3>1. on[u] \in Conns /\ (Has(u) => on[u] # c)
      BY <2>2, WhoHas DEF DriverIInv, TypeOK
    <3>2. \A d \in Conns \ {c} : pending'[d] = pending[d]
      BY <2>1 DEF DriverIInv, TypeOK
    <3>3. QED
      BY <1>1, <3>1, <3>2, Same
  <2>6. /\ absMode' = absMode
        /\ absBuffer' = [absBuffer EXCEPT ![t] = @ \cup {<<t, n>>}]
    BY <2>3, <2>4, <2>5, OnlyOne DEF absMode, absBuffer
  <2>7. Abs!Collect(t, n)
    BY <1>3, <2>1, <2>3, <2>6 DEF Abs!Collect, absMode
  <2>8. QED
    BY <1>2, <2>7
<1>6. CASE TakeAlone(t, c, call)
  <2>1. /\ session[c] = "idle" /\ UNCHANGED <<pending, inside>>
        /\ durable' = durable \cup {<<t, n>>}
    BY <1>4, <1>6 DEF TakeAlone
  <2>2. Progress(t) = "auto"
    BY <1>1, <2>1 DEF Progress
  <2>3. \A u \in Txs : Progress(u)' = Progress(u) /\ Collected(u)' = Collected(u)
    BY <1>1, <2>1, Same
  <2>4. UNCHANGED <<absMode, absBuffer>>
    BY <2>3, NoOne
  <2>5. Abs!Publish(t, n)
    BY <1>3, <2>1, <2>2, <2>4 DEF Abs!Publish, absMode
  <2>6. QED
    BY <1>2, <2>5
<1>7. QED
  BY <1>5, <1>6

(* A statement whose answer is lost dooms its transaction with the         *)
(* connection, or, outside of one, is published though it is told as       *)
(* failed.                                                                 *)
LEMMA LostAbs ==
  ASSUME DriverIInv, NEW t \in Txs, NEW c \in Conns, NEW call \in Calls,
         LoseAnswer(t, c, call)
  PROVE  \/ \E u \in Txs : Abs!Doom(u)
         \/ \E n \in 1..MaxStmts : Abs!Publish(t, n)
         \/ UNCHANGED <<durable, absBuffer, inside, absMode>>
<1>1. /\ RollBack(c, "failed") /\ UNCHANGED <<owner, tx, on, inside>>
      /\ tx[t] = "open" /\ on[t] = c /\ Called(t, c, call, TRUE, FALSE)
  BY DEF LoseAnswer, Called, txVars
<1>2. CASE durable' = durable
  BY <1>1, <1>2, DoomAbs
<1>3. CASE durable' # durable
  <2> DEFINE n == Len(log[t]) + 1
  <2>1. session[c] = "idle" /\ durable' = durable \cup {<<t, n>>}
    BY <1>3 DEF LoseAnswer, Fresh
  <2>2. n \in 1..MaxStmts
    BY <1>1, CalledLog DEF DriverIInv
  <2>3. <<t, n>> \notin durable \cup inside[t]
    BY FreshIsNew DEF DriverIInv
  <2> HIDE DEF n
  <2>4. session' = session /\ pending' = pending
    <3>1. pending[c] = {}
      BY <2>1, WhoHas
    <3>2. QED
      BY <1>1, <2>1, <3>1 DEF RollBack, DriverIInv, TypeOK
  <2>5. Progress(t) = "auto"
    BY <1>1, <2>1 DEF Progress
  <2>6. \A u \in Txs : Progress(u)' = Progress(u) /\ Collected(u)' = Collected(u)
    BY <1>1, <2>4, Same
  <2>7. UNCHANGED <<absMode, absBuffer>>
    BY <2>6, NoOne
  <2>8. Abs!Publish(t, n)
    BY <1>1, <2>1, <2>3, <2>5, <2>7 DEF Abs!Publish, absMode
  <2>9. QED
    BY <2>2, <2>8
<1>4. QED
  BY <1>2, <1>3

(* Every step of a driver is a step of AtomicTx or none.                   *)
LEMMA StepAbs ==
  ASSUME DriverIInv, Next
  PROVE  Abs!Next \/ UNCHANGED <<durable, absBuffer, inside, absMode>>
<1>1. ASSUME NEW c \in Conns, Open(c)
      PROVE  UNCHANGED <<durable, absBuffer, inside, absMode>>
  <2>1. /\ UNCHANGED <<durable, inside>>
        /\ \A u \in Txs : Progress(u)' = Progress(u) /\ Collected(u)' = Collected(u)
    BY <1>1, Same DEF Open, txVars, history
  <2>2. QED
    BY <2>1, NoOne
<1>2. ASSUME NEW c \in Conns, Lose(c) \/ Close(c)
      PROVE  Abs!Next \/ UNCHANGED <<durable, absBuffer, inside, absMode>>
  <2>1. RollBack(c, "failed") /\ UNCHANGED <<owner, tx, on, durable, inside>>
    BY <1>2 DEF Lose, Close, txVars
  <2>2. QED
    BY <2>1, DoomAbs DEF Abs!Next
<1>3. ASSUME NEW t \in Txs, NEW c \in Conns,
             BeginWork(t, c) \/ BeginThrows(t, c) \/ BeginPlain(t, c)
      PROVE  Abs!Next
  BY <1>3, BeginAbs DEF Abs!Next
<1>4. ASSUME NEW t \in Txs, NEW c \in Conns, Commit(t, c) \/ CommitAborted(t, c)
      PROVE  Abs!Next
  BY <1>4, CommitAbs DEF Abs!Next
<1>5. ASSUME NEW t \in Txs,
             DisposePlain(t) \/ \E c \in Conns : DisposeWork(t, c)
      PROVE  Abs!Next
  BY <1>5, DisposeAbs DEF Abs!Next
<1>6. ASSUME NEW t \in Txs, NEW c \in Conns, NEW call \in Calls, Refuse(t, c, call)
      PROVE  Abs!Next \/ UNCHANGED <<durable, absBuffer, inside, absMode>>
  <2>1. RollBack(c, "failed") /\ UNCHANGED <<owner, tx, on, durable, inside>>
    BY <1>6 DEF Refuse, txVars
  <2>2. QED
    BY <2>1, DoomAbs DEF Abs!Next
<1>7. ASSUME NEW t \in Txs, NEW c \in Conns, NEW call \in Calls,
             TakeInside(t, c, call) \/ TakeAlone(t, c, call)
      PROVE  Abs!Next
  BY <1>7, TakeAbs DEF Abs!Next
<1>8. ASSUME UNCHANGED <<durable, inside, session, pending, owner, tx, on>>
      PROVE  UNCHANGED <<durable, absBuffer, inside, absMode>>
  <2>1. \A u \in Txs : Progress(u)' = Progress(u) /\ Collected(u)' = Collected(u)
    BY <1>8, Same
  <2>2. QED
    BY <1>8, <2>1, NoOne
<1>9. ASSUME NEW t \in Txs, NEW c \in Conns, CommitIdle(t, c)
      PROVE  UNCHANGED <<durable, absBuffer, inside, absMode>>
  BY <1>8, <1>9 DEF CommitIdle, Committing, txVars
<1>10. ASSUME NEW t \in Txs, NEW c \in Conns, NEW call \in Calls, TakeRead(t, c, call)
       PROVE  UNCHANGED <<durable, absBuffer, inside, absMode>>
  BY <1>8, <1>10 DEF TakeRead, Takes, txVars
<1>11. ASSUME NEW t \in Txs, NEW c \in Conns, NEW call \in Calls,
              LoseAnswer(t, c, call)
       PROVE  Abs!Next \/ UNCHANGED <<durable, absBuffer, inside, absMode>>
  BY <1>11, LostAbs DEF Abs!Next
<1>12. QED
  BY <1>1, <1>2, <1>3, <1>4, <1>5, <1>6, <1>7, <1>9, <1>10, <1>11, Steps

(* The drivers implement AtomicTx: whichever is compiled in, and however   *)
(* transactions share, lose or are refused connections and statements      *)
(* (CTransaction.cpp:227-235, CDatabaseHandler_pqxx.cpp:26-34, 65-154,     *)
(* CDatabaseHandler_mysql.cpp:97-204).                                     *)
THEOREM DriverRefinesAtomicTx == Spec => ImplementsAtomicTx
<1>1. Init => Abs!Init
  BY DEF Init, Abs!Init, absBuffer, absMode, Progress, Collected, Has
<1>2. DriverIInv /\ [Next]_vars => [Abs!Next]_(Abs!vars)
  <2> SUFFICES ASSUME DriverIInv, [Next]_vars
               PROVE  [Abs!Next]_(Abs!vars)
    OBVIOUS
  <2>1. CASE Next
    BY <2>1, StepAbs DEF Abs!vars
  <2>2. CASE UNCHANGED vars
    <3>1. UNCHANGED <<session, pending, owner, tx, on, durable, inside>>
      BY <2>2 DEF vars, connVars, txVars, history
    <3>2. \A u \in Txs : Progress(u)' = Progress(u) /\ Collected(u)' = Collected(u)
      BY <3>1, Same
    <3>3. QED
      BY <3>1, <3>2, NoOne DEF Abs!vars
  <2>3. QED
    BY <2>1, <2>2
<1>3. QED
  BY <1>1, <1>2, DriverInvariance, PTL DEF Spec, Abs!Spec, ImplementsAtomicTx
=============================================================================
