---------------------------- MODULE ConfigProofs ----------------------------
(***************************************************************************)
(* The tree of config_parse is the outline of its file, for every file.    *)
(* The invariant says which entry each call on the stack would give to a   *)
(* line of a given indentation; the lemmas say how that set of entries     *)
(* changes when a line is taken off the text.  And the recursion goes no   *)
(* deeper than there are indentations; and config_get finds what is first. *)
(***************************************************************************)
EXTENDS Config, FiniteSetTheorems, WellFoundedInduction, TLAPS

(* ------------------------- the outline --------------------------------- *)

LEMMA Indents ==
  ASSUME NEW f \in Seq(Line)
  PROVE  \A i \in 1..Len(f) : f[i].indent \in 0..MaxIndent /\ f[i].indent \in Nat
<1> SUFFICES ASSUME NEW i \in 1..Len(f)
             PROVE  f[i].indent \in 0..MaxIndent /\ f[i].indent \in Nat
  OBVIOUS
<1>1. f[i] \in Line
  OBVIOUS
<1> QED BY <1>1 DEF Line

(* The line that was taken, an entry, is the last one above any deeper one.*)
LEMMA EntryIsLatest ==
  ASSUME NEW f \in Seq(Line), NEW p \in 1..Len(f), f[p].name # NoName,
         NEW d \in Nat, NEW e \in Nat, f[p].indent < d, f[p].indent <= e
  PROVE  Latest(Above(f, p + 1, d, e), p)
<1>1. f[p].indent \in Nat
  BY Indents
<1>2. p \in Above(f, p + 1, d, e)
  BY <1>1 DEF Above
<1>3. \A j \in Above(f, p + 1, d, e) : j <= p
  BY DEF Above
<1> QED BY <1>2, <1>3 DEF Latest

(* Any other line leaves the deeper ones to who had them at its own level. *)
LEMMA OtherKeeps ==
  ASSUME NEW f \in Seq(Line), NEW p \in 1..Len(f), f[p].name = NoName,
         NEW d \in Nat, NEW e \in Nat, f[p].indent < d, f[p].indent <= e
  PROVE  Above(f, p + 1, d, e) = Above(f, p, d, f[p].indent)
<1>1. \A i \in 1..Len(f) : f[i].indent \in Nat
  BY Indents
<1>2. ASSUME NEW j \in Above(f, p + 1, d, e)
      PROVE  j \in Above(f, p, d, f[p].indent)
  <2>1. j \in 1..p /\ j # p
    BY DEF Above
  <2>2. f[p].indent >= f[j].indent
    BY <2>1, <1>1 DEF Above
  <2> QED BY <2>1, <2>2, <1>1 DEF Above
<1>3. ASSUME NEW j \in Above(f, p, d, f[p].indent)
      PROVE  j \in Above(f, p + 1, d, e)
  <2>1. j \in 1..p - 1 /\ f[j].indent <= f[p].indent
    BY DEF Above
  <2>2. \A m \in j + 1..(p + 1) - 1 : f[m].indent >= f[j].indent
    BY <2>1, <1>1 DEF Above
  <2> QED BY <2>1, <2>2, <1>1 DEF Above
<1> QED BY <1>2, <1>3

(* No line changes what is above the lines that are indented no more.      *)
LEMMA LevelKeeps ==
  ASSUME NEW f \in Seq(Line), NEW p \in 1..Len(f), NEW d \in Nat,
         d <= f[p].indent
  PROVE  Above(f, p + 1, d, d) = Above(f, p, d, d)
<1>1. \A i \in 1..Len(f) : f[i].indent \in Nat
  BY Indents
<1>2. ASSUME NEW j \in Above(f, p + 1, d, d) PROVE j \in Above(f, p, d, d)
  <2>1. j \in 1..p /\ j # p
    BY <1>1 DEF Above
  <2> QED BY <2>1, <1>1 DEF Above
<1>3. ASSUME NEW j \in Above(f, p, d, d) PROVE j \in Above(f, p + 1, d, d)
  <2>1. j \in 1..p - 1 /\ f[j].indent < d
    BY DEF Above
  <2>2. \A m \in j + 1..(p + 1) - 1 : f[m].indent >= f[j].indent
    BY <2>1, <1>1 DEF Above
  <2> QED BY <2>1, <2>2, <1>1 DEF Above
<1> QED BY <1>2, <1>3

(* Who is the last one above indentation c, and indented no more than e,   *)
(* is the last one of those up to e, for c and for any d when e is less    *)
(* than c.                                                                 *)
LEMMA UpTo ==
  ASSUME NEW f \in Seq(Line), NEW p \in 1..Len(f) + 1, NEW c \in Nat,
         NEW d \in Nat, NEW e \in Nat, d = c \/ (e < c /\ c <= d),
         NEW o \in Nat, Latest(Above(f, p, c, c), o), 
         o # 0 => f[o].indent <= e
  PROVE  Latest(Above(f, p, d, e), o)
<1>1. \A i \in 1..Len(f) : f[i].indent \in Nat
  BY Indents
<1>2. ASSUME NEW j \in Above(f, p, d, e) PROVE j \in Above(f, p, c, c)
  <2>1. /\ j \in 1..p - 1 /\ f[j].name # NoName
        /\ f[j].indent < d /\ f[j].indent <= e
        /\ \A m \in j + 1..p - 1 : f[m].indent >= f[j].indent
    BY DEF Above
  <2>2. f[j].indent \in Nat
    BY <2>1, <1>1
  <2>3. f[j].indent < c /\ f[j].indent <= c
    BY <2>1, <2>2
  <2> QED BY <2>1, <2>3 DEF Above
<1>3. ASSUME NEW j \in Above(f, p, c, c), f[j].indent <= e
      PROVE  j \in Above(f, p, d, e)
  <2>1. /\ j \in 1..p - 1 /\ f[j].name # NoName /\ f[j].indent < c
        /\ \A m \in j + 1..p - 1 : f[m].indent >= f[j].indent
    BY DEF Above
  <2>2. f[j].indent \in Nat
    BY <2>1, <1>1
  <2>3. f[j].indent < d
    BY <2>1, <2>2
  <2> QED BY <1>3, <2>1, <2>3 DEF Above
<1>4. 0 \notin Above(f, p, c, c)
  BY DEF Above
<1> QED BY <1>2, <1>3, <1>4 DEF Latest

LEMMA UpToMore ==
  ASSUME NEW f, NEW p, NEW d \in Nat, NEW e \in Nat, d <= e,
         \A i \in 1..p - 1 : f[i].indent \in Nat
  PROVE  Above(f, p, d, e) = Above(f, p, d, d)
BY DEF Above

LEMMA OwnerIsLatest ==
  ASSUME NEW i, NEW o, Latest(Owners(i), o), Owners(i) \subseteq Nat
  PROVE  Owner(i) = o
<1>1. CASE Owners(i) = {}
  BY <1>1 DEF Owner, Latest
<1>2. CASE Owners(i) # {}
  <2>1. o \in Owners(i) /\ \A j \in Owners(i) : o >= j
    BY <1>2 DEF Latest
  <2>2. \A x \in Owners(i) : (\A y \in Owners(i) : x >= y) => x = o
    BY <2>1
  <2> QED BY <1>2, <2>1, <2>2 DEF Owner, Max
<1> QED BY <1>1, <1>2

LEMMA AtMost ==
  ASSUME NEW x \in Nat, NEW y \in Nat, NEW z \in Nat, x <= y, y <= z \/ y < z
  PROVE  x <= z
OBVIOUS

(* ------------------------- the invariant ------------------------------- *)

LEMMA OutlineInit == Init => OutlineInv
<1> SUFFICES ASSUME Init PROVE OutlineInv
  OBVIOUS
<1> USE ConfigAssumption DEF ConfigAssumption
<1>1. PICK n \in 0..MaxLines : file \in [1..n -> Line]
  BY DEF Init
<1>2. file \in Seq(Line) /\ Len(file) = n /\ DOMAIN file = 1..n
  BY <1>1
<1>3. stack = <<[parent |-> 0, shift |-> 0, lastNode |-> 0]>> /\ at = 1
  BY DEF Init
<1>4. stack \in Seq(Frame) /\ Len(stack) = 1 /\ DOMAIN stack = {1}
  BY <1>3 DEF Frame
<1>5. TypeOK
  BY <1>2, <1>4, <1>3 DEF Init, TypeOK
<1>6. FrameInv
  BY <1>3, <1>4 DEF FrameInv
<1>7. OuterInv
  BY <1>4 DEF OuterInv
<1>8. InnerInv
  <2>1. \A d, e : Above(file, 1, d, e) = {}
    BY DEF Above
  <2> QED BY <2>1, <1>3 DEF InnerInv, Latest, Top, Last
<1>9. TreeIsOutline
  BY <1>2, <1>3, <1>4 DEF Init, TreeIsOutline
<1> QED BY <1>5, <1>6, <1>7, <1>8, <1>9 DEF OutlineInv

(* What every step has: the call on top of the stack, and the line.        *)
LEMMA TopFacts ==
  ASSUME TypeOK, FrameInv, stack # <<>>
  PROVE  /\ Len(stack) \in Nat \ {0} /\ DOMAIN stack = 1..Len(stack)
         /\ \A k \in 1..Len(stack) : stack[k] \in Frame
         /\ Top = stack[Len(stack)] /\ Top \in Frame
         /\ Top.parent \in Nat /\ Top.lastNode \in Nat
         /\ Top.shift \in Nat /\ Top.shift <= MaxIndent
         /\ \A k \in 1..Len(stack) : /\ stack[k].shift \in Nat
                                     /\ stack[k].lastNode \in Nat
         /\ Len(file) \in Nat /\ at \in Nat /\ DOMAIN file = 1..Len(file)
<1> USE ConfigAssumption DEF ConfigAssumption
<1>1. Len(stack) \in Nat \ {0} /\ DOMAIN stack = 1..Len(stack)
  BY DEF TypeOK
<1>2. \A k \in 1..Len(stack) : stack[k] \in Frame
  BY DEF TypeOK
<1>3. Top = stack[Len(stack)] /\ Top \in Frame
  BY <1>1, <1>2 DEF Top, Last
<1> QED BY <1>1, <1>2, <1>3 DEF Frame, TypeOK

LEMMA TopIsDeepest ==
  ASSUME TypeOK, FrameInv, stack # <<>>
  PROVE  \A k \in 1..Len(stack) : stack[k].shift <= Top.shift
<1> DEFINE n == Len(stack)
<1>1. /\ n \in Nat \ {0} /\ Top = stack[n] /\ DOMAIN stack = 1..n
      /\ \A k \in 1..n : stack[k].shift \in Nat
  BY TopFacts
<1>3. \A k \in 1..n - 1 : stack[k].shift < stack[n].shift
  <2>1. n = 1 \/ n \in DOMAIN stack
    BY <1>1
  <2>2. n = 1 => 1..n - 1 = {}
    BY <1>1
  <2> QED BY <2>1, <2>2, <1>1 DEF FrameInv
<1> TAKE k \in 1..n
<1>4. CASE k = n
  BY <1>4, <1>1
<1>5. CASE k # n
  <2>1. k \in 1..n - 1 /\ n \in 1..n
    <3>1. n \in Nat \ {0}
      BY <1>1
    <3> HIDE DEF n
    <3> QED BY <1>5, <3>1
  <2> QED BY <2>1, <1>1, <1>3
<1> QED BY <1>4, <1>5

LEMMA LineFacts ==
  ASSUME TypeOK, at \in Readable
  PROVE  /\ at \in 1..Len(file) /\ file[at].indent \in 0..MaxIndent
         /\ file[at].indent \in Nat
         /\ \A i \in 1..Len(file) : file[i].indent \in Nat
<1>1. Len(file) \in Nat /\ DOMAIN file = 1..Len(file) /\ file \in Seq(Line)
  BY DEF TypeOK
<1>2. at \in 1..Len(file)
  BY <1>1 DEF Readable
<1> QED BY <1>1, <1>2, Indents

(* The parent that the innermost call gives is the owner of the line.      *)
LEMMA ParentIsOwner ==
  ASSUME OutlineInv, stack # <<>>, at \in Readable, file[at].indent = Top.shift
  PROVE  Owner(at) = Top.parent
<1> DEFINE n == Len(stack)
<1>0. TypeOK /\ FrameInv /\ OuterInv
  BY DEF OutlineInv
<1>1. n \in Nat \ {0} /\ Top = stack[n] /\ DOMAIN stack = 1..n /\ Top.shift \in 0..MaxIndent
  BY <1>0, TopFacts, ConfigAssumption DEF ConfigAssumption
<1>2. at \in 1..Len(file) /\ file[at].indent \in Nat
  BY <1>0, LineFacts
<1>3. Owners(at) \subseteq Nat
  BY <1>2 DEF Owners, Above
<1>4. CASE n = 1
  <2>1. Top.parent = 0 /\ Top.shift = 0
    BY <1>0, <1>1, <1>4 DEF FrameInv
  <2>2. \A i \in 1..Len(file) : file[i].indent \in Nat
    BY <1>0, LineFacts
  <2>3. Owners(at) = {}
    BY <2>1, <2>2, <1>2 DEF Owners, Above
  <2> QED BY <2>1, <2>3, <1>3, OwnerIsLatest DEF Latest
<1>5. CASE n # 1
  <2>1. n - 1 \in 1..n - 1 /\ n \in DOMAIN stack /\ (n - 1) + 1 = n
    BY <1>1, <1>5
  <2>2. Top.parent = stack[n - 1].lastNode /\ Top.shift > stack[n - 1].shift
    BY <2>1, <1>0, <1>1, <1>5 DEF FrameInv
  <2>3. Latest(Above(file, at, Top.shift, Top.shift), stack[n - 1].lastNode)
    BY <2>1, <2>2, <1>0, <1>1 DEF OuterInv
  <2> QED BY <2>2, <2>3, <1>3, OwnerIsLatest DEF Owners
<1> QED BY <1>4, <1>5

LEMMA DeeperStep == OutlineInv /\ Deeper => OutlineInv'
<1> SUFFICES ASSUME OutlineInv, Deeper PROVE OutlineInv'
  OBVIOUS
<1> DEFINE n == Len(stack)
<1> DEFINE new == [parent |-> Top.lastNode, shift |-> file[at].indent,
                   lastNode |-> Top.lastNode]
<1>0. /\ TypeOK /\ FrameInv /\ OuterInv /\ InnerInv /\ TreeIsOutline
      /\ stack # <<>> /\ at \in Readable /\ file[at].indent > Top.shift
      /\ stack' = Append(stack, new)
      /\ file' = file /\ ended' = ended /\ at' = at /\ Parent' = Parent
  BY DEF OutlineInv, Deeper, Step
<1>1. /\ n \in Nat \ {0} /\ Top = stack[n] /\ DOMAIN stack = 1..n
      /\ Top.shift \in Nat /\ Top.lastNode \in Nat
  BY <1>0, TopFacts
<1>2. /\ at \in 1..Len(file) /\ file[at].indent \in 0..MaxIndent
      /\ file[at].indent \in Nat
      /\ \A i \in 1..Len(file) : file[i].indent \in Nat
  BY <1>0, LineFacts
<1>3. new \in Frame /\ stack \in Seq(Frame)
  BY <1>0, <1>1, <1>2 DEF Frame, TypeOK
<1>4. /\ Len(stack') = n + 1 /\ stack' \in Seq(Frame) /\ DOMAIN stack' = 1..n + 1
      /\ \A k \in 1..n : stack'[k] = stack[k]
      /\ stack'[n + 1] = new
  BY <1>0, <1>1, <1>3
<1>5. Readable' = Readable /\ stack' # <<>> /\ Top' = new
  BY <1>0, <1>1, <1>4 DEF Readable, Top, Last
<1>6. TypeOK'
  BY <1>0, <1>4 DEF TypeOK
<1>7. FrameInv'
  <2> SUFFICES ASSUME NEW k \in 1..n + 1
               PROVE  /\ IF k = 1 THEN stack'[k].parent = 0 /\ stack'[k].shift = 0
                         ELSE /\ stack'[k].parent = stack'[k - 1].lastNode
                              /\ \A j \in 1..k - 1 : stack'[j].shift < stack'[k].shift
                      /\ stack'[k].lastNode # 0 =>
                           /\ stack'[k].lastNode \in 1..at - 1
                           /\ file[stack'[k].lastNode].indent <= stack'[k].shift
    BY <1>0, <1>4 DEF FrameInv
  <2>1. CASE k \in 1..n
    <3>1. stack'[k] = stack[k] /\ (k # 1 => stack'[k - 1] = stack[k - 1])
      BY <2>1, <1>4, <1>1
    <3>2. \A j \in 1..k - 1 : stack'[j] = stack[j]
      BY <2>1, <1>4, <1>1
    <3>3. /\ IF k = 1 THEN stack[k].parent = 0 /\ stack[k].shift = 0
             ELSE /\ stack[k].parent = stack[k - 1].lastNode
                  /\ \A j \in 1..k - 1 : stack[j].shift < stack[k].shift
          /\ stack[k].lastNode # 0 =>
               /\ stack[k].lastNode \in 1..at - 1
               /\ file[stack[k].lastNode].indent <= stack[k].shift
      BY <2>1, <1>0, <1>1 DEF FrameInv
    <3> QED BY <3>1, <3>2, <3>3
  <2>2. CASE k = n + 1
    <3>1. k # 1 /\ stack'[k] = new /\ stack'[k - 1] = Top
      BY <2>2, <1>4, <1>1
    <3>2. Top.lastNode # 0 => /\ Top.lastNode \in 1..at - 1
                              /\ file[Top.lastNode].indent <= Top.shift
      BY <1>0, <1>1 DEF FrameInv
    <3>3. Top.lastNode # 0 => file[Top.lastNode].indent <= file[at].indent
      <4>1. Top.lastNode # 0 => file[Top.lastNode].indent \in Nat
        BY <3>2, <1>2
      <4>2. Top.shift < file[at].indent
        BY <1>0, <1>1, <1>2
      <4> QED BY <3>2, <4>1, <4>2, <1>1, <1>2, AtMost
    <3>4. \A j \in 1..k - 1 : stack'[j].shift < new.shift
      <4> TAKE j \in 1..k - 1
      <4>1. j \in 1..n /\ stack'[j] = stack[j]
        BY <2>2, <1>1, <1>4
      <4>2. stack[j].shift \in Nat /\ stack[j].shift <= Top.shift
        BY <4>1, <1>0, TopFacts, TopIsDeepest
      <4> QED BY <4>1, <4>2, <1>0, <1>1, <1>2
    <3> QED BY <3>1, <3>2, <3>3, <3>4, <1>0
  <2> QED BY <2>1, <2>2
<1>8. OuterInv'
  <2> SUFFICES ASSUME NEW k \in 1..n, NEW d \in 0..MaxIndent,
                      stack'[k].shift < d, d <= stack'[k + 1].shift
               PROVE  Latest(Above(file, at, d, d), stack'[k].lastNode)
    BY <1>0, <1>4, <1>1 DEF OuterInv
  <2>1. CASE k = n
    <3>1. stack'[k] = Top /\ stack'[k + 1] = new
      BY <2>1, <1>4, <1>1
    <3>2. Latest(Above(file, at, d, file[at].indent), Top.lastNode)
      BY <3>1, <1>0, <1>1, <1>2 DEF InnerInv
    <3>3. \A i \in 1..at - 1 : file[i].indent \in Nat
      BY <1>2
    <3>4. d \in Nat /\ d <= file[at].indent
      BY <3>1, ConfigAssumption DEF ConfigAssumption
    <3>5. Above(file, at, d, file[at].indent) = Above(file, at, d, d)
      BY <3>3, <3>4, <1>2, UpToMore
    <3> QED BY <3>1, <3>2, <3>5
  <2>2. CASE k # n
    <3>0. k \in 1..n - 1 /\ k + 1 \in 1..n
      <4>1. n \in Nat /\ k \in 1..n /\ k # n
        BY <2>2, <1>1
      <4> HIDE DEF n
      <4> QED BY <4>1
    <3>1. k \in 1..n - 1 /\ stack'[k] = stack[k] /\ stack'[k + 1] = stack[k + 1]
      BY <3>0, <1>4
    <3> QED BY <3>1, <1>0 DEF OuterInv
  <2> QED BY <2>1, <2>2
<1>9. InnerInv'
  <2> SUFFICES ASSUME NEW d \in 0..MaxIndent, d > file[at].indent
               PROVE  Latest(Above(file, at, d, file[at].indent), Top.lastNode)
    BY <1>0, <1>5 DEF InnerInv
  <2>1. d > Top.shift
    BY <1>0, <1>1, <1>2, ConfigAssumption DEF ConfigAssumption
  <2>2. file[at].indent >= Top.shift
    BY <1>0, <1>1, <1>2
  <2> QED BY <2>1, <2>2, <1>0 DEF InnerInv
<1>10. TreeIsOutline'
  BY <1>0, <1>5 DEF TreeIsOutline, Owner, Owners, IsEntry, Readable
<1> QED BY <1>6, <1>7, <1>8, <1>9, <1>10 DEF OutlineInv

LEMMA ReturnStep == OutlineInv /\ Return => OutlineInv'
<1> SUFFICES ASSUME OutlineInv, Return PROVE OutlineInv'
  OBVIOUS
<1> USE ConfigAssumption DEF ConfigAssumption
<1> DEFINE n == Len(stack)
<1>0. /\ TypeOK /\ FrameInv /\ OuterInv /\ InnerInv /\ TreeIsOutline
      /\ stack # <<>> /\ (at \in Readable => file[at].indent < Top.shift)
      /\ stack' = Front(stack)
      /\ file' = file /\ ended' = ended /\ at' = at /\ Parent' = Parent
  BY DEF OutlineInv, Return, Step
<1>1. /\ n \in Nat \ {0} /\ Top = stack[n] /\ DOMAIN stack = 1..n
      /\ Top.shift \in Nat /\ Top.lastNode \in Nat
      /\ \A k \in 1..n : stack[k] \in Frame /\ stack[k].shift \in Nat
                         /\ stack[k].lastNode \in Nat
  BY <1>0, TopFacts
<1>2. stack' = [k \in 1..n - 1 |-> stack[k]]
  BY <1>0, <1>1 DEF Front
<1>3. stack' \in Seq(Frame) /\ Len(stack') = n - 1 /\ DOMAIN stack' = 1..n - 1
  BY <1>1, <1>2
<1>4. \A k \in 1..n - 1 : stack'[k] = stack[k]
  BY <1>2
<1>5. Readable' = Readable
  BY <1>0 DEF Readable
<1>6. TypeOK'
  BY <1>0, <1>3 DEF TypeOK
<1>7. FrameInv'
  <2> SUFFICES ASSUME NEW k \in 1..n - 1
               PROVE  /\ IF k = 1 THEN stack'[k].parent = 0 /\ stack'[k].shift = 0
                         ELSE /\ stack'[k].parent = stack'[k - 1].lastNode
                              /\ \A j \in 1..k - 1 : stack'[j].shift < stack'[k].shift
                      /\ stack'[k].lastNode # 0 =>
                           /\ stack'[k].lastNode \in 1..at - 1
                           /\ file[stack'[k].lastNode].indent <= stack'[k].shift
    BY <1>0, <1>3 DEF FrameInv
  <2>1. k \in 1..n /\ stack'[k] = stack[k] /\ (k # 1 => stack'[k - 1] = stack[k - 1])
    BY <1>4, <1>1
  <2>2. \A j \in 1..k - 1 : stack'[j] = stack[j]
    BY <1>4, <1>1
  <2>3. /\ IF k = 1 THEN stack[k].parent = 0 /\ stack[k].shift = 0
           ELSE /\ stack[k].parent = stack[k - 1].lastNode
                /\ \A j \in 1..k - 1 : stack[j].shift < stack[k].shift
        /\ stack[k].lastNode # 0 =>
             /\ stack[k].lastNode \in 1..at - 1
             /\ file[stack[k].lastNode].indent <= stack[k].shift
    BY <2>1, <1>0, <1>1 DEF FrameInv
  <2> QED BY <2>1, <2>2, <2>3
<1>8. OuterInv'
  <2> SUFFICES ASSUME NEW k \in 1..(n - 1) - 1, NEW d \in 0..MaxIndent,
                      stack'[k].shift < d, d <= stack'[k + 1].shift
               PROVE  Latest(Above(file, at, d, d), stack'[k].lastNode)
    BY <1>0, <1>3, <1>1 DEF OuterInv
  <2>1. k \in 1..n - 1 /\ stack'[k] = stack[k] /\ stack'[k + 1] = stack[k + 1]
    BY <1>4, <1>1
  <2> QED BY <2>1, <1>0 DEF OuterInv
<1>9. InnerInv'
  <2> SUFFICES ASSUME stack' # <<>>, at \in Readable,
                      file[at].indent >= Top'.shift,
                      NEW d \in 0..MaxIndent, d > Top'.shift
               PROVE  Latest(Above(file, at, d, file[at].indent), Top'.lastNode)
    BY <1>0, <1>5 DEF InnerInv
  <2> DEFINE e == file[at].indent
             m == n - 1
             c == IF d <= stack[n].shift THEN d ELSE stack[n].shift
  <2>1. m \in 1..n - 1 /\ m + 1 = n /\ m \in 1..n /\ n \in 1..n
    BY <1>1, <1>3
  <2>2. Top' = stack[m]
    BY <2>1, <1>3, <1>4 DEF Top, Last
  <2>3. at \in 1..Len(file) + 1 /\ e \in Nat /\ d \in Nat /\ Len(file) \in Nat
    BY <1>0, LineFacts, TopFacts
  <2>4. /\ stack[m].shift \in Nat /\ stack[n].shift \in 0..MaxIndent
        /\ stack[m].lastNode \in Nat
    BY <2>1, <1>1 DEF Frame
  <2>5. e < stack[n].shift /\ stack[m].shift <= e /\ stack[m].shift < d
    BY <1>0, <1>1, <2>2, <2>3, <2>4
  <2>6. c \in 0..MaxIndent /\ stack[m].shift < c /\ c <= stack[n].shift
    BY <2>3, <2>4, <2>5
  <2>7. Latest(Above(file, at, c, c), stack[m].lastNode)
    BY <2>6, <2>1, <1>0 DEF OuterInv
  <2>8. d = c \/ (e < c /\ c <= d)
    BY <2>3, <2>4, <2>5
  <2>9. stack[m].lastNode # 0 => file[stack[m].lastNode].indent <= e
    <3> SUFFICES ASSUME stack[m].lastNode # 0
                 PROVE  file[stack[m].lastNode].indent <= e
      OBVIOUS
    <3>1. /\ stack[m].lastNode \in 1..at - 1
          /\ file[stack[m].lastNode].indent <= stack[m].shift
      BY <2>1, <1>0, <1>1 DEF FrameInv
    <3>2. file[stack[m].lastNode].indent \in Nat
      BY <3>1, <1>0, LineFacts
    <3>3. stack[m].shift \in Nat /\ e \in Nat /\ stack[m].shift <= e
      BY <2>3, <2>4, <2>5
    <3> HIDE DEF m, e
    <3> QED BY <3>1, <3>2, <3>3, AtMost
  <2>10. file \in Seq(Line) /\ c \in Nat
    BY <1>0, <2>6 DEF TypeOK
  <2> HIDE DEF c, e, m
  <2> QED BY <2>2, <2>3, <2>4, <2>7, <2>8, <2>9, <2>10, UpTo DEF e
<1>10. TreeIsOutline'
  <2>1. stack' = <<>> => at \notin Readable
    <3> SUFFICES ASSUME stack' = <<>>, at \in Readable PROVE FALSE
      OBVIOUS
    <3>1. n = 1
      <4>1. Len(stack') = 0
        OBVIOUS
      <4>2. n \in Nat /\ n - 1 = 0
        BY <4>1, <1>1, <1>3
      <4> HIDE DEF n
      <4> QED BY <4>2
    <3>2. Top.shift = 0
      BY <3>1, <1>0, <1>1 DEF FrameInv
    <3> QED BY <3>2, <1>0, LineFacts
  <2> QED BY <2>1, <1>0, <1>5 DEF TreeIsOutline, Owner, Owners, IsEntry, Readable
<1> QED BY <1>6, <1>7, <1>8, <1>9, <1>10 DEF OutlineInv

(* A line of the innermost level is taken off: what the outer calls would  *)
(* give to the lines between their levels stays as it is.                  *)
LEMMA LevelStep ==
  ASSUME OutlineInv, stack # <<>>, at \in Readable, file[at].indent = Top.shift,
         file' = file, at' = at + 1, Len(stack') = Len(stack),
         \A k \in 1..Len(stack) : stack'[k].shift = stack[k].shift,
         \A k \in 1..Len(stack) - 1 : stack'[k] = stack[k]
  PROVE  OuterInv'
<1> DEFINE n == Len(stack)
<1>0. TypeOK /\ FrameInv /\ OuterInv
  BY DEF OutlineInv
<1>1. /\ n \in Nat \ {0} /\ Top = stack[n] /\ DOMAIN stack = 1..n
      /\ \A k \in 1..n : stack[k].shift \in Nat
  BY <1>0, TopFacts
<1>2. at \in 1..Len(file) /\ file[at].indent \in Nat /\ file \in Seq(Line)
  BY <1>0, LineFacts DEF TypeOK
<1>4. \A k \in 1..n : stack[k].shift <= stack[n].shift
  BY <1>0, <1>1, TopIsDeepest
<1> SUFFICES ASSUME NEW k \in 1..n - 1, NEW d \in 0..MaxIndent,
                    stack[k].shift < d, d <= stack[k + 1].shift
             PROVE  Latest(Above(file, at + 1, d, d), stack[k].lastNode)
  <2>1. n \in Nat /\ Len(stack') = n
    BY <1>1
  <2>2. \A k \in 1..n - 1 : k \in 1..n /\ k + 1 \in 1..n
    BY <2>1
  <2> QED BY <2>1, <2>2 DEF OuterInv
<1>5. k + 1 \in 1..n
  BY <1>1
<1>6. d \in Nat /\ d <= file[at].indent
  <2>1. d \in Nat
    BY ConfigAssumption DEF ConfigAssumption
  <2>2. stack[k + 1].shift <= stack[n].shift /\ stack[k + 1].shift \in Nat
    BY <1>4, <1>5, <1>1
  <2>3. stack[n].shift = file[at].indent
    BY <1>1
  <2> QED BY <2>1, <2>2, <2>3, <1>2, AtMost
<1>7. Latest(Above(file, at, d, d), stack[k].lastNode)
  BY <1>0 DEF OuterInv
<1>8. Above(file, at + 1, d, d) = Above(file, at, d, d)
  BY <1>2, <1>6, LevelKeeps
<1> QED BY <1>7, <1>8

LEMMA EntryStep == OutlineInv /\ Entry => OutlineInv'
<1> SUFFICES ASSUME OutlineInv, Entry PROVE OutlineInv'
  OBVIOUS
<1> USE ConfigAssumption DEF ConfigAssumption
<1> DEFINE n == Len(stack)
<1>0. /\ TypeOK /\ FrameInv /\ OuterInv /\ InnerInv /\ TreeIsOutline
      /\ stack # <<>> /\ at \in Readable /\ file[at].indent = Top.shift
      /\ file[at].name # NoName
      /\ Parent' = [Parent EXCEPT ![at] = Top.parent]
      /\ stack' = [stack EXCEPT ![n].lastNode = at]
      /\ file' = file /\ ended' = ended /\ at' = at + 1
  BY DEF OutlineInv, Entry, Step
<1>1. /\ n \in Nat \ {0} /\ Top = stack[n] /\ Top \in Frame
      /\ DOMAIN stack = 1..n /\ Top.shift \in Nat /\ Top.parent \in Nat
      /\ \A k \in 1..n : stack[k] \in Frame
      /\ Len(file) \in Nat /\ DOMAIN file = 1..Len(file)
  BY <1>0, TopFacts
<1>2. /\ at \in 1..Len(file) /\ file[at].indent \in 0..MaxIndent
      /\ file[at].indent \in Nat
      /\ \A i \in 1..Len(file) : file[i].indent \in Nat
  BY <1>0, LineFacts
<1> DEFINE new == [parent |-> Top.parent, shift |-> Top.shift, lastNode |-> at]
<1>3. /\ stack' = [stack EXCEPT ![n] = new] /\ new \in Frame
      /\ stack \in Seq(Frame)
  <2>1. stack \in Seq(Frame) /\ new \in Frame
    BY <1>0, <1>1, <1>2 DEF Frame, TypeOK
  <2>2. [Top EXCEPT !.lastNode = at] = new
    BY <1>1 DEF Frame
  <2> QED BY <1>0, <1>1, <2>1, <2>2
<1>4. /\ Len(stack') = n /\ stack' \in Seq(Frame) /\ DOMAIN stack' = 1..n
      /\ \A k \in 1..n - 1 : stack'[k] = stack[k]
      /\ stack'[n] = new /\ stack' # <<>>
  BY <1>1, <1>3
<1>5. Readable' = Readable /\ Top' = new
  BY <1>0, <1>1, <1>4 DEF Readable, Top, Last
<1>6. TypeOK'
  <2>1. at' \in 1..Len(file') + 1
    BY <1>0, <1>1, <1>2
  <2>2. Top.parent \in 0..MaxLines
    <3>1. CASE n = 1
      BY <3>1, <1>0, <1>1 DEF FrameInv
    <3>2. CASE n # 1
      <4>1. n - 1 \in 1..n /\ n \in 1..n
        BY <3>2, <1>1
      <4>2. Top.parent = stack[n - 1].lastNode
        BY <4>1, <3>2, <1>0, <1>1 DEF FrameInv
      <4>3. Top.parent = 0 \/ Top.parent \in 1..at - 1
        BY <4>1, <4>2, <1>0, <1>1 DEF FrameInv
      <4>4. Len(file) <= MaxLines
        BY <1>0 DEF TypeOK
      <4> QED BY <4>3, <4>4, <1>1, <1>2
    <3> QED BY <3>1, <3>2
  <2>3. Parent' \in [DOMAIN file' -> 0..MaxLines \cup {NoNode}]
    BY <1>0, <2>2 DEF TypeOK
  <2> QED BY <1>0, <1>4, <2>1, <2>3 DEF TypeOK
<1>7. FrameInv'
  <2> SUFFICES ASSUME NEW k \in 1..n
               PROVE  /\ IF k = 1 THEN stack'[k].parent = 0 /\ stack'[k].shift = 0
                         ELSE /\ stack'[k].parent = stack'[k - 1].lastNode
                              /\ \A j \in 1..k - 1 : stack'[j].shift < stack'[k].shift
                      /\ stack'[k].lastNode # 0 =>
                           /\ stack'[k].lastNode \in 1..(at + 1) - 1
                           /\ file[stack'[k].lastNode].indent <= stack'[k].shift
    BY <1>0, <1>4 DEF FrameInv
  <2>1. stack'[k].parent = stack[k].parent /\ stack'[k].shift = stack[k].shift
    BY <1>1, <1>4
  <2>2. k # 1 => k - 1 \in 1..n - 1 /\ stack'[k - 1] = stack[k - 1]
    BY <1>1, <1>4
  <2>3. IF k = 1 THEN stack[k].parent = 0 /\ stack[k].shift = 0
        ELSE /\ stack[k].parent = stack[k - 1].lastNode
             /\ \A j \in 1..k - 1 : stack[j].shift < stack[k].shift
    BY <1>0, <1>1 DEF FrameInv
  <2>4. CASE k = n
    <3>1. \A j \in 1..k - 1 : stack'[j] = stack[j]
      BY <2>4, <1>4
    <3>2. stack'[k].lastNode = at /\ stack'[k].shift = file[at].indent
      BY <2>4, <1>0, <1>1, <1>4
    <3>3. at \in 1..(at + 1) - 1 /\ file[at].indent <= file[at].indent
      BY <1>2
    <3> QED BY <2>1, <2>2, <2>3, <3>1, <3>2, <3>3
  <2>5. CASE k # n
    <3>0. k \in 1..n - 1
      <4>1. n \in Nat
        BY <1>1
      <4> HIDE DEF n
      <4> QED BY <2>5, <4>1
    <3>1. k \in 1..n - 1 /\ stack'[k] = stack[k]
      BY <3>0, <1>4
    <3>2. stack[k].lastNode # 0 =>
            /\ stack[k].lastNode \in 1..at - 1
            /\ file[stack[k].lastNode].indent <= stack[k].shift
      BY <1>0, <1>1 DEF FrameInv
    <3>3. stack[k].lastNode # 0 => stack[k].lastNode \in 1..(at + 1) - 1
      BY <3>2, <1>2
    <3>4. \A j \in 1..k - 1 : stack'[j] = stack[j]
      BY <3>1, <1>1, <1>4
    <3> QED BY <3>1, <3>2, <3>3, <3>4, <2>2, <2>3
  <2> QED BY <2>4, <2>5
<1>8. OuterInv'
  <2>1. \A k \in 1..n : stack'[k].shift = stack[k].shift
    <3> TAKE k \in 1..n
    <3>1. k = n \/ k \in 1..n - 1
      <4>1. n \in Nat
        BY <1>1
      <4> HIDE DEF n
      <4> QED BY <4>1
    <3>2. new.shift = Top.shift
      OBVIOUS
    <3> HIDE DEF new
    <3> QED BY <3>1, <3>2, <1>1, <1>4
  <2> HIDE DEF new
  <2> QED BY <1>0, <1>4, <2>1, LevelStep
<1>9. InnerInv'
  <2> SUFFICES ASSUME at + 1 \in Readable, file[at + 1].indent >= Top.shift,
                      NEW d \in 0..MaxIndent, d > Top.shift
               PROVE  Latest(Above(file, at + 1, d, file[at + 1].indent), at)
    BY <1>0, <1>5 DEF InnerInv
  <2>1. file \in Seq(Line)
    BY <1>0 DEF TypeOK
  <2>2. at + 1 \in 1..Len(file)
    BY <1>1 DEF Readable
  <2>3. file[at + 1].indent \in Nat /\ d \in Nat
    BY <2>2, <1>2
  <2>4. file[at].indent < d /\ file[at].indent <= file[at + 1].indent
    BY <1>0, <2>3, <1>1
  <2> QED BY <2>1, <2>3, <2>4, <1>0, <1>2, EntryIsLatest
<1>10. TreeIsOutline'
  <2>1. Owner(at) = Top.parent
    BY <1>0, ParentIsOwner
  <2>2. \A i : Owner(i)' = Owner(i)
    BY <1>0 DEF Owner, Owners
  <2>3. \A i : IsEntry(i)' = IsEntry(i)
    BY <1>0, <1>5 DEF IsEntry
  <2> SUFFICES ASSUME NEW i \in 1..Len(file)
               PROVE  Parent'[i] = IF IsEntry(i) /\ i < at + 1
                                   THEN Owner(i) ELSE NoNode
    BY <1>0, <1>1, <1>4, <2>2, <2>3 DEF TreeIsOutline
  <2>4. CASE i = at
    <3>1. Parent'[i] = Top.parent
      BY <2>4, <1>0, <1>1 DEF TypeOK
    <3>2. IsEntry(i) /\ i < at + 1
      BY <2>4, <1>0, <1>2 DEF IsEntry
    <3> QED BY <2>1, <2>4, <3>1, <3>2
  <2>5. CASE i # at
    <3>1. Parent'[i] = Parent[i]
      BY <2>5, <1>0, <1>1 DEF TypeOK
    <3>2. i < at + 1 <=> i < at
      BY <2>5, <1>1, <1>2
    <3>3. Parent[i] = IF IsEntry(i) /\ i < at THEN Owner(i) ELSE NoNode
      BY <1>0, <1>1 DEF TreeIsOutline
    <3> QED BY <3>1, <3>2, <3>3
  <2> QED BY <2>4, <2>5
<1> QED BY <1>6, <1>7, <1>8, <1>9, <1>10 DEF OutlineInv

LEMMA OtherStep == OutlineInv /\ Other => OutlineInv'
<1> SUFFICES ASSUME OutlineInv, Other PROVE OutlineInv'
  OBVIOUS
<1> USE ConfigAssumption DEF ConfigAssumption
<1> DEFINE n == Len(stack)
<1>0. /\ TypeOK /\ FrameInv /\ OuterInv /\ InnerInv /\ TreeIsOutline
      /\ stack # <<>> /\ at \in Readable /\ file[at].indent = Top.shift
      /\ file[at].name = NoName
      /\ Parent' = Parent /\ stack' = stack
      /\ file' = file /\ ended' = ended /\ at' = at + 1
  BY DEF OutlineInv, Other, Step
<1>1. /\ n \in Nat \ {0} /\ Top = stack[n] /\ DOMAIN stack = 1..n
      /\ Top.shift \in Nat /\ Top.lastNode \in Nat
      /\ Len(file) \in Nat /\ DOMAIN file = 1..Len(file)
  BY <1>0, TopFacts
<1>2. /\ at \in 1..Len(file) /\ file[at].indent \in 0..MaxIndent
      /\ file[at].indent \in Nat
      /\ \A i \in 1..Len(file) : file[i].indent \in Nat
  BY <1>0, LineFacts
<1>5. Readable' = Readable /\ Top' = Top
  BY <1>0 DEF Readable, Top
<1>6. TypeOK'
  <2>1. at' \in 1..Len(file') + 1
    BY <1>0, <1>1, <1>2
  <2> QED BY <1>0, <2>1 DEF TypeOK
<1>7. FrameInv'
  <2>1. \A j : j \in 1..at - 1 => j \in 1..(at + 1) - 1
    BY <1>2
  <2> QED BY <2>1, <1>0 DEF FrameInv
<1>8. OuterInv'
  BY <1>0, LevelStep
<1>9. InnerInv'
  <2> SUFFICES ASSUME at + 1 \in Readable, file[at + 1].indent >= Top.shift,
                      NEW d \in 0..MaxIndent, d > Top.shift
               PROVE  Latest(Above(file, at + 1, d, file[at + 1].indent),
                             Top.lastNode)
    BY <1>0, <1>5 DEF InnerInv
  <2>1. file \in Seq(Line)
    BY <1>0 DEF TypeOK
  <2>2. at + 1 \in 1..Len(file)
    BY <1>1 DEF Readable
  <2>3. file[at + 1].indent \in Nat /\ d \in Nat
    BY <2>2, <1>2
  <2>4. file[at].indent < d /\ file[at].indent <= file[at + 1].indent
    BY <1>0, <2>3, <1>1
  <2>5. Above(file, at + 1, d, file[at + 1].indent)
          = Above(file, at, d, file[at].indent)
    BY <2>1, <2>3, <2>4, <1>0, <1>2, OtherKeeps
  <2>6. Latest(Above(file, at, d, file[at].indent), Top.lastNode)
    BY <1>0, <1>1 DEF InnerInv
  <2> QED BY <2>5, <2>6
<1>10. TreeIsOutline'
  <2>1. \A i : Owner(i)' = Owner(i)
    BY <1>0 DEF Owner, Owners
  <2>2. \A i : IsEntry(i)' = IsEntry(i)
    BY <1>0, <1>5 DEF IsEntry
  <2>3. ~IsEntry(at)
    BY <1>0 DEF IsEntry
  <2>4. \A i \in 1..Len(file) : i # at => (i < at + 1 <=> i < at)
    BY <1>2
  <2> QED BY <1>0, <1>1, <2>1, <2>2, <2>3, <2>4 DEF TreeIsOutline
<1> QED BY <1>6, <1>7, <1>8, <1>9, <1>10 DEF OutlineInv

LEMMA OutlineStep == OutlineInv /\ [Next]_vars => OutlineInv'
<1> SUFFICES ASSUME OutlineInv, [Next]_vars PROVE OutlineInv'
  OBVIOUS
<1>1. CASE Deeper
  BY <1>1, DeeperStep
<1>2. CASE Return
  BY <1>2, ReturnStep
<1>3. CASE Entry
  BY <1>3, EntryStep
<1>4. CASE Other
  BY <1>4, OtherStep
<1>5. CASE UNCHANGED vars
  BY <1>5 DEF vars, OutlineInv, TypeOK, FrameInv, OuterInv, InnerInv,
              TreeIsOutline, Top, Readable, Owner, Owners, IsEntry
<1> QED BY <1>1, <1>2, <1>3, <1>4, <1>5 DEF Next

(* ------------------------- the depth ----------------------------------- *)

LEMMA LevelsInit == Init => LevelsInv
<1> SUFFICES ASSUME Init PROVE LevelsInv
  OBVIOUS
<1>1. stack = <<[parent |-> 0, shift |-> 0, lastNode |-> 0]>>
  BY DEF Init
<1>2. DOMAIN stack = {1}
  BY <1>1
<1> QED BY <1>2 DEF LevelsInv

LEMMA LevelsStep == OutlineInv /\ LevelsInv /\ [Next]_vars => LevelsInv'
<1> SUFFICES ASSUME OutlineInv, LevelsInv, [Next]_vars PROVE LevelsInv'
  OBVIOUS
<1> DEFINE n == Len(stack)
<1>0. TypeOK /\ FrameInv /\ stack \in Seq(Frame)
  BY DEF OutlineInv, TypeOK
<1>1. CASE UNCHANGED vars
  BY <1>1 DEF vars, LevelsInv, Levels, Readable
<1>2. CASE Next
  <2>1. stack # <<>> /\ file' = file /\ Readable' = Readable
    BY <1>2 DEF Next, Deeper, Return, Entry, Other, Step, Readable
  <2>2. Levels' = Levels
    BY <2>1 DEF Levels
  <2>3. /\ n \in Nat \ {0} /\ DOMAIN stack = 1..n /\ Top \in Frame
        /\ Top.shift \in Nat
    BY <1>0, <2>1, TopFacts
  <2>4. \A k \in 1..n : k # 1 => stack[k].shift \in Levels
    BY <2>3 DEF LevelsInv
  <2>5. CASE Deeper
    <3>1. PICK new : /\ new \in Frame /\ new.shift = file[at].indent
                     /\ stack' = Append(stack, new)
      <4>1. file[at].indent \in 0..MaxIndent /\ Top.lastNode \in Nat
        BY <2>1, <2>5, <1>0, LineFacts, TopFacts DEF Deeper
      <4> QED BY <2>5, <4>1 DEF Deeper, Frame
    <3>2. /\ DOMAIN stack' = 1..n + 1 /\ stack'[n + 1] = new
          /\ \A k \in 1..n : stack'[k] = stack[k]
      BY <3>1, <1>0
    <3>3. file[at].indent \in Levels
      <4>1. at \in Readable /\ file[at].indent > Top.shift
        BY <2>5 DEF Deeper
      <4>2. file[at].indent # 0
        BY <4>1, <2>3
      <4> QED BY <4>1, <4>2 DEF Levels
    <3>4. \A k \in 1..n + 1 : k = n + 1 \/ k \in 1..n
      BY <2>3
    <3>5. \A k \in 1..n + 1 : k # 1 => stack'[k].shift \in Levels
      BY <3>1, <3>2, <3>3, <3>4, <2>4, Zenon
    <3> QED BY <2>2, <3>2, <3>5, Zenon DEF LevelsInv
  <2>6. CASE Return
    <3>1. DOMAIN stack' = 1..n - 1 /\ \A k \in 1..n - 1 : stack'[k] = stack[k]
      BY <2>3, <2>6, <1>0 DEF Return, Front
    <3>2. \A k \in 1..n - 1 : k \in 1..n
      BY <2>3
    <3> QED BY <2>2, <2>4, <3>1, <3>2 DEF LevelsInv
  <2>7. CASE Entry
    <3>1. stack' = [stack EXCEPT ![n].lastNode = at]
      BY <2>7 DEF Entry
    <3>2. DOMAIN stack' = 1..n /\ \A k \in 1..n : stack'[k].shift = stack[k].shift
      BY <3>1, <2>3
    <3> QED BY <2>2, <2>4, <3>2 DEF LevelsInv
  <2>8. CASE Other
    BY <2>8, <2>2 DEF Other, LevelsInv
  <2> QED BY <1>2, <2>5, <2>6, <2>7, <2>8 DEF Next
<1> QED BY <1>1, <1>2

(* The calls but the first have different indentations, all of them of     *)
(* lines, so there are at most as many of them.                            *)
LEMMA DepthIsBounded ==
  ASSUME TypeOK, FrameInv, LevelsInv
  PROVE  DepthBounded
<1> DEFINE n == Len(stack)
           f == [k \in 2..n |-> stack[k].shift]
<1>1. IsFiniteSet(Levels) /\ Cardinality(Levels) \in Nat
  <2>1. Levels \subseteq 0..MaxIndent
    BY Indents DEF TypeOK, Levels, Readable
  <2>2. IsFiniteSet(0..MaxIndent)
    BY FS_Interval, ConfigAssumption DEF ConfigAssumption
  <2> QED BY <2>1, <2>2, FS_Subset, FS_CardinalityType
<1>2. n \in Nat /\ DOMAIN stack = 1..n
  BY DEF TypeOK
<1>3. CASE n <= 1
  BY <1>1, <1>2, <1>3 DEF DepthBounded
<1>4. CASE n > 1
  <2>0. stack # <<>>
    BY <1>4
  <2>1. \A k \in 2..n : /\ k \in 1..n /\ k # 1 /\ stack[k].shift \in Nat
                       /\ stack[k].shift \in Levels
    BY <1>2, <2>0, TopFacts DEF LevelsInv
  <2>2. \A k, l \in 2..n : k < l => stack[k].shift < stack[l].shift
    <3> SUFFICES ASSUME NEW k \in 2..n, NEW l \in 2..n, k < l
                 PROVE  stack[k].shift < stack[l].shift
      OBVIOUS
    <3>1. k \in 1..l - 1 /\ l \in DOMAIN stack /\ l # 1
      BY <1>2
    <3> QED BY <3>1 DEF FrameInv
  <2>3. \A k, l \in 2..n : stack[k].shift = stack[l].shift => k = l
    <3> SUFFICES ASSUME NEW k \in 2..n, NEW l \in 2..n,
                        stack[k].shift = stack[l].shift, k # l
                 PROVE  FALSE
      OBVIOUS
    <3>1. k < l \/ l < k
      OBVIOUS
    <3> QED BY <3>1, <2>1, <2>2
  <2>4. f \in Injection(2..n, Levels)
    BY <2>1, <2>3 DEF Injection, IsInjective
  <2>5. Cardinality(2..n) <= Cardinality(Levels)
    <3> HIDE DEF f
    <3> QED BY <2>4, <1>1, FS_Injection
  <2>6. Cardinality(2..n) = n - 1
    <3>1. 2 \in Int /\ n \in Int /\ ~(2 > n)
      BY <1>2, <1>4
    <3>2. Cardinality(2..n) = n - 2 + 1
      BY <3>1, FS_Interval
    <3> QED BY <3>2, <1>2
  <2>7. Len(stack) <= 1 + Cardinality(Levels)
    BY <2>5, <2>6, <1>1, <1>2
  <2> QED BY <2>7 DEF DepthBounded
<1> QED BY <1>2, <1>3, <1>4

(* ------------------------- the look-up --------------------------------- *)

(* A set of numbers has a least one; induction is the descent to it, since *)
(* a set can be given to a lemma where a predicate cannot.                 *)
LEMMA LeastOf ==
  ASSUME NEW S, S \subseteq Nat, S # {}
  PROVE  \E x \in S : \A y \in S : x <= y
<1> DEFINE R == OpToRel(<, Nat)
<1>1. IsWellFoundedOn(R, Nat)
  BY NatLessThanWellFounded
<1>2. \A x, y \in Nat : y < x => <<y, x>> \in R
  BY DEF OpToRel
<1> HIDE DEF R
<1>3. PICK x \in S : \A y \in S : ~(<<y, x>> \in R)
  BY <1>1, WFMin
<1>4. \A y \in S : ~(y < x)
  BY <1>2, <1>3
<1> QED
  BY <1>4

LEMMA LeastIsMin ==
  ASSUME NEW S, S \subseteq Nat, S # {}
  PROVE  Min(S) \in S /\ \A y \in S : Min(S) <= y
<1>1. \E x \in S : \A y \in S : x <= y
  BY LeastOf
<1> QED
  BY <1>1 DEF Min

LEMMA GreatestIsMax ==
  ASSUME NEW n \in Nat, NEW S, S \subseteq 0..n, S # {}
  PROVE  Max(S) \in S
<1> DEFINE T == {n - x : x \in S}
<1>1. T \subseteq Nat /\ T # {}
  <2>1. \A x \in S : n - x \in Nat
    OBVIOUS
  <2> QED
    BY <2>1
<1>2. PICK m \in T : \A y \in T : m <= y
  BY <1>1, LeastOf
<1>3. PICK x \in S : m = n - x
  BY <1>2
<1>4. \A y \in S : x >= y
  <2> TAKE y \in S
  <2>1. n - y \in T /\ x \in 0..n /\ y \in 0..n
    OBVIOUS
  <2>2. n - x <= n - y
    BY <1>2, <1>3, <2>1
  <2> HIDE DEF T
  <2> QED
    BY <2>1, <2>2
<1>5. \E z \in S : \A y \in S : z >= y
  BY <1>4
<1> HIDE DEF T
<1> QED
  BY <1>5 DEF Max

LEMMA OwnerIsBefore ==
  ASSUME file \in Seq(Line), NEW i \in 1..Len(file)
  PROVE  /\ Owner(i) \in 0..i - 1
         /\ Owner(i) # 0 => file[Owner(i)].name # NoName
<1>1. CASE Owners(i) = {}
  BY <1>1 DEF Owner
<1>2. CASE Owners(i) # {}
  <2>1. i \in Nat /\ Owners(i) \subseteq 1..i - 1
    BY DEF Owners, Above
  <2>2. Owner(i) = Max(Owners(i)) /\ Owners(i) \subseteq 0..i
    BY <1>2, <2>1 DEF Owner
  <2>3. Owner(i) \in Owners(i)
    BY <1>2, <2>1, <2>2, GreatestIsMax
  <2>4. file[Owner(i)].name # NoName
    BY <2>3 DEF Owners, Above
  <2>5. Owner(i) \in 1..i - 1
    BY <2>1, <2>3
  <2> QED
    BY <2>4, <2>5
<1> QED
  BY <1>1, <1>2

(* What holds at 0, and at i when it does at r[i], which is below i, holds *)
(* everywhere; and a function can be defined along r.                      *)
Descends(N, r) == \A i \in 1..N : r[i] \in 0..i - 1
Recurs(N, r, v0, step, f) ==
  f[0] = v0 /\ \A i \in 1..N : f[i] = step[i][f[r[i]]]

LEMMA Descent ==
  ASSUME NEW N \in Nat, NEW r, Descends(N, r),
         NEW S, 0 \in S, \A i \in 1..N : r[i] \in S => i \in S
  PROVE  \A i \in 0..N : i \in S
<1> DEFINE T == {i \in 0..N : i \notin S}
<1> SUFFICES ASSUME T # {} PROVE FALSE
  OBVIOUS
<1>1. T \subseteq Nat
  OBVIOUS
<1>2. PICK i \in T : \A y \in T : i <= y
  <2> HIDE DEF T
  <2> QED
    BY <1>1, LeastOf
<1> USE DEF Descends
<1>3. i \in 1..N /\ i \notin S
  BY <1>2
<1>4. r[i] \in 0..N /\ ~(i <= r[i])
  BY <1>3
<1> QED
  BY <1>2, <1>3, <1>4

LEMMA Recursion ==
  ASSUME NEW N \in Nat, NEW r, Descends(N, r),
         NEW V, NEW v0 \in V,
         NEW step, \A i \in 1..N : \A v \in V : step[i][v] \in V
  PROVE  \E f \in [0..N -> V] : Recurs(N, r, v0, step, f)
<1> DEFINE Is(n, f) == /\ f \in [0..n -> V] /\ f[0] = v0
                       /\ \A i \in 1..n : f[i] = step[i][f[r[i]]]
           S  == {n \in 0..N : \E f : Is(n, f)}
           up == [n \in 1..N |-> n - 1]
<1>1. 0 \in S
  <2>1. Is(0, [i \in 0..0 |-> v0])
    OBVIOUS
  <2> HIDE DEF Is
  <2> QED
    BY <2>1
<1>2. ASSUME NEW n \in 1..N, up[n] \in S
      PROVE  n \in S
  <2>1. PICK g : Is(n - 1, g)
    BY <1>2
  <2> DEFINE f == [i \in 0..n |-> IF i < n THEN g[i] ELSE step[n][g[r[n]]]]
  <2>2. \A i \in 1..n : r[i] \in 0..n - 1
    BY DEF Descends
  <2>3. \A i \in 0..n - 1 : f[i] = g[i]
    OBVIOUS
  <2>4. f[n] = step[n][g[r[n]]] /\ f[n] \in V
    BY <2>1, <2>2
  <2>5. f \in [0..n -> V] /\ f[0] = v0
    BY <2>1, <2>3, <2>4
  <2>6. ASSUME NEW i \in 1..n
        PROVE  f[i] = step[i][f[r[i]]]
    <3>1. f[r[i]] = g[r[i]]
      BY <2>2, <2>3
    <3>2. CASE i = n
      <4> HIDE DEF f
      <4> QED
        BY <2>4, <3>1, <3>2
    <3>3. CASE i # n
      <4>1. i \in 1..n - 1 /\ i \in 0..n - 1
        BY <3>3
      <4> HIDE DEF f
      <4> QED
        BY <2>1, <2>3, <3>1, <4>1
    <3> QED
      BY <3>2, <3>3
  <2>7. Is(n, f)
    <3> HIDE DEF f
    <3> QED
      BY <2>5, <2>6
  <2>8. n \in 0..N
    OBVIOUS
  <2> HIDE DEF Is, f
  <2> QED
    BY <2>7, <2>8
<1>3. Descends(N, up)
  BY DEF Descends
<1>4. N \in S
  <2> HIDE DEF S, up
  <2>1. \A n \in 0..N : n \in S
    BY <1>1, <1>2, <1>3, Descent
  <2> QED
    BY <2>1
<1> QED
  BY <1>4 DEF Recurs

(* The line that the owner of a line is on. *)
LEMMA OwnersDescend ==
  ASSUME file \in Seq(Line)
  PROVE  \E own : /\ Descends(Len(file), own)
                  /\ \A i \in 1..Len(file) : own[i] = Owner(i)
<1> DEFINE own == [i \in 1..Len(file) |-> Owner(i)]
<1>1. \A i \in 1..Len(file) : own[i] = Owner(i) /\ Owner(i) \in 0..i - 1
  BY OwnerIsBefore
<1> HIDE DEF own
<1>2. \A i \in 1..Len(file) : own[i] = Owner(i) /\ own[i] \in 0..i - 1
  BY <1>1, Zenon
<1> QED
  BY <1>2 DEF Descends

(* The names that lines have. *)
AllNames == Names \cup {NoName}

(* What the recursive definitions are, one level at a time. *)
LEMMA PathOfIs ==
  ASSUME file \in Seq(Line)
  PROVE  /\ PathOf[0] = <<>>
         /\ \A i \in 1..Len(file) :
              PathOf[i] = Append(PathOf[Owner(i)], file[i].name)
         /\ \A i \in 0..Len(file) : PathOf[i] \in Seq(AllNames)
<1> DEFINE N == Len(file)
           Is(f) == f = [i \in 0..N |->
                           IF i = 0 THEN <<>>
                           ELSE Append(f[Owner(i)], file[i].name)]
           step == [i \in 1..N |->
                      [v \in Seq(AllNames) |-> Append(v, file[i].name)]]
<1>0. N \in Nat /\ \A i \in 1..N : file[i].name \in AllNames
  <2>1. \A i \in 1..N : file[i] \in Line
    OBVIOUS
  <2> QED
    BY <2>1 DEF Line, AllNames
<1>1. PICK own : Descends(N, own) /\ \A i \in 1..N : own[i] = Owner(i)
  BY OwnersDescend
<1>2. \A i \in 1..N : \A v \in Seq(AllNames) : step[i][v] \in Seq(AllNames)
  BY <1>0
<1>3. PICK f \in [0..N -> Seq(AllNames)] :
        Recurs(N, own, <<>>, step, f)
  <2> HIDE DEF step, N
  <2>1. PICK V, e : V = Seq(AllNames) /\ e = <<>>
    OBVIOUS
  <2>2. e \in V /\ \A i \in 1..N : \A v \in V : step[i][v] \in V
    BY <1>2, <2>1
  <2>4. \E f \in [0..N -> V] :
          Recurs(N, own, e, step, f)
    <3> HIDE DEF N, step
    <3> QED
      BY <1>0, <1>1, <2>2, Recursion
  <2> QED
    BY <2>1, <2>4
<1>4. \A i \in 1..N : f[i] = Append(f[Owner(i)], file[i].name)
  <2> TAKE i \in 1..N
  <2>1. own[i] = Owner(i) /\ own[i] \in 0..N
    BY <1>0, <1>1 DEF Descends
  <2> QED
    BY <1>3, <2>1 DEF Recurs
<1>5. Is(f)
  <2>1. \A i \in 0..N : f[i] = IF i = 0 THEN <<>>
                               ELSE Append(f[Owner(i)], file[i].name)
    BY <1>0, <1>3, <1>4 DEF Recurs
  <2> QED
    BY <1>3, <2>1
<1>6. PathOf = CHOOSE g : Is(g)
  BY DEF PathOf
<1>7. Is(PathOf)
  <2> HIDE DEF Is
  <2> QED
    BY <1>5, <1>6
<1>8. PathOf[0] = <<>> /\ \A i \in 1..N : PathOf[i] = Append(PathOf[Owner(i)], file[i].name)
  <2>1. PICK P : P = PathOf
    OBVIOUS
  <2>2. P = [i \in 0..N |-> IF i = 0 THEN <<>>
                            ELSE Append(P[Owner(i)], file[i].name)]
    BY <1>7, <2>1
  <2>3. 0 \in 0..N /\ \A i \in 1..N : i \in 0..N /\ i # 0
    BY <1>0
  <2>4. P[0] = <<>> /\ \A i \in 1..N : P[i] = Append(P[Owner(i)], file[i].name)
    BY <2>2, <2>3
  <2> QED
    BY <2>1, <2>4, Zenon
<1> HIDE DEF Is, step
<1> DEFINE S == {i \in 0..N : PathOf[i] \in Seq(AllNames)}
<1>9. 0 \in S
  <2>1. 0 \in 0..N /\ <<>> \in Seq(AllNames)
    BY <1>0
  <2> QED
    BY <1>8, <2>1
<1>10. ASSUME NEW i \in 1..N, own[i] \in S
       PROVE  i \in S
  <2>1. i \in 0..N /\ own[i] = Owner(i) /\ file[i].name \in AllNames
    BY <1>0, <1>1
  <2>2. PathOf[Owner(i)] \in Seq(AllNames)
    BY <1>10, <2>1
  <2>3. Append(PathOf[Owner(i)], file[i].name) \in Seq(AllNames)
    BY <2>1, <2>2
  <2> QED
    BY <1>8, <2>1, <2>3
<1>11. \A i \in 0..N : i \in S
  <2> HIDE DEF S, N
  <2> QED
    BY <1>0, <1>1, <1>9, <1>10, Descent
<1> QED
  BY <1>8, <1>11

LEMMA ForemostIs ==
  ASSUME file \in Seq(Line)
  PROVE  /\ Foremost[0]
         /\ \A i \in 1..Len(file) :
              Foremost[i] <=> Foremost[Owner(i)] /\ \A j \in 1..i - 1 : ~Twins(i, j)
<1> DEFINE N == Len(file)
           First(i) == \A j \in 1..i - 1 : ~Twins(i, j)
           Is(f) == f = [i \in 0..N |-> i = 0 \/ (f[Owner(i)] /\ First(i))]
           step == [i \in 1..N |-> [v \in BOOLEAN |-> v /\ First(i)]]
<1>0. N \in Nat
  OBVIOUS
<1>1. PICK own : Descends(N, own) /\ \A i \in 1..N : own[i] = Owner(i)
  BY OwnersDescend
<1>2. \A i \in 1..N : \A v \in BOOLEAN : step[i][v] \in BOOLEAN
  <2> HIDE DEF First
  <2> QED
    OBVIOUS
<1>3. PICK f \in [0..N -> BOOLEAN] : Recurs(N, own, TRUE, step, f)
  <2> HIDE DEF step, N
  <2> QED
    BY <1>0, <1>1, <1>2, Recursion
<1> HIDE DEF First
<1>4. \A i \in 1..N : f[i] = (f[Owner(i)] /\ First(i))
  <2> TAKE i \in 1..N
  <2>1. own[i] = Owner(i) /\ own[i] \in 0..N
    BY <1>0, <1>1 DEF Descends
  <2>2. f[i] = step[i][f[own[i]]] /\ f[own[i]] \in BOOLEAN
    BY <1>3, <2>1 DEF Recurs
  <2>3. step[i][f[own[i]]] = (f[own[i]] /\ First(i))
    BY <2>2
  <2> QED
    BY <2>1, <2>2, <2>3
<1>5. Is(f)
  <2>1. \A i \in 0..N : f[i] = (i = 0 \/ (f[Owner(i)] /\ First(i)))
    BY <1>0, <1>3, <1>4 DEF Recurs
  <2> QED
    BY <1>3, <2>1
<1>6. Foremost = CHOOSE g : Is(g)
  BY DEF Foremost, First
<1>7. Is(Foremost)
  <2> HIDE DEF Is
  <2> QED
    BY <1>5, <1>6
<1>8. PICK F : F = Foremost
  OBVIOUS
<1>9. F = [i \in 0..N |-> i = 0 \/ (F[Owner(i)] /\ First(i))]
  BY <1>7, <1>8
<1>10. 0 \in 0..N /\ \A i \in 1..N : i \in 0..N /\ i # 0
  BY <1>0
<1>11. F[0] /\ \A i \in 1..N : F[i] <=> F[Owner(i)] /\ First(i)
  BY <1>9, <1>10
<1> QED
  BY <1>8, <1>11 DEF First

(* config_get goes one level down for the last name of a path. *)
LEMMA GetByLevel ==
  ASSUME file \in Seq(Line), NEW p \in Seq(AllNames)
  PROVE  \E g : /\ g[0] = 0 /\ ConfigGet(p) = g[Len(p)]
                /\ \A k \in 1..Len(p) :
                     g[k] = IF g[k - 1] = NoNode THEN NoNode
                            ELSE Child(g[k - 1], p[k])
<1> DEFINE N == Len(p)
           V == Nat \cup {NoNode}
           Is(f) == f = [k \in 0..N |-> IF k = 0 THEN 0
                                       ELSE IF f[k - 1] = NoNode THEN NoNode
                                       ELSE Child(f[k - 1], p[k])]
           step == [k \in 1..N |-> [v \in V |-> IF v = NoNode THEN NoNode
                                                ELSE Child(v, p[k])]]
           up == [k \in 1..N |-> k - 1]
<1>0. N \in Nat
  OBVIOUS
<1>1. Descends(N, up) /\ \A k \in 1..N : up[k] = k - 1
  BY DEF Descends
<1>2. \A k \in 1..N : \A v \in V : step[k][v] \in V
  <2>1. \A n, name : Child(n, name) \in V
    <3> TAKE n, name
    <3> DEFINE C == {i \in Entries : Parent[i] = n /\ file[i].name = name}
    <3>1. C \subseteq Nat
      BY DEF Entries
    <3>2. C # {} => Min(C) \in C
      <4> HIDE DEF C
      <4> QED
        BY <3>1, LeastIsMin
    <3>3. Child(n, name) = IF C = {} THEN NoNode ELSE Min(C)
      BY DEF Child
    <3> HIDE DEF C
    <3> QED
      BY <3>1, <3>2, <3>3
  <2> QED
    BY <2>1
<1>3. PICK f \in [0..N -> V] : Recurs(N, up, 0, step, f)
  <2>1. 0 \in V
    OBVIOUS
  <2> HIDE DEF step, N, V, up
  <2> QED
    BY <1>0, <1>1, <1>2, <2>1, Recursion
<1>4. \A k \in 1..N : f[k] = IF f[k - 1] = NoNode THEN NoNode
                             ELSE Child(f[k - 1], p[k])
  <2> TAKE k \in 1..N
  <2>1. up[k] = k - 1 /\ k - 1 \in 0..N
    BY <1>0, <1>1
  <2>2. f[k] = step[k][f[k - 1]] /\ f[k - 1] \in V
    BY <1>3, <2>1 DEF Recurs
  <2> HIDE DEF V
  <2> QED
    BY <2>2
<1>5. Is(f)
  <2>1. \A k \in 0..N : f[k] = IF k = 0 THEN 0
                               ELSE IF f[k - 1] = NoNode THEN NoNode
                               ELSE Child(f[k - 1], p[k])
    BY <1>0, <1>3, <1>4 DEF Recurs
  <2> HIDE DEF V
  <2> QED
    BY <1>3, <2>1
<1>6. PICK g : g = CHOOSE h : Is(h)
  OBVIOUS
<1>7. ConfigGet(p) = g[N]
  BY <1>6 DEF ConfigGet
<1>8. Is(g)
  <2> HIDE DEF Is
  <2> QED
    BY <1>5, <1>6
<1>9. 0 \in 0..N /\ \A k \in 1..N : k \in 0..N /\ k # 0
  BY <1>0
<1>10. g[0] = 0 /\ \A k \in 1..N : g[k] = IF g[k - 1] = NoNode THEN NoNode
                                         ELSE Child(g[k - 1], p[k])
  BY <1>8, <1>9
<1> QED
  BY <1>7, <1>10

LEMMA GetIs ==
  ASSUME file \in Seq(Line), NEW p \in Seq(AllNames), NEW name \in AllNames
  PROVE  /\ ConfigGet(<<>>) = 0
         /\ ConfigGet(Append(p, name)) =
              IF ConfigGet(p) = NoNode THEN NoNode ELSE Child(ConfigGet(p), name)
<1> DEFINE N == Len(p)
           q == Append(p, name)
           Next1(g, r, k) == g[k] = IF g[k - 1] = NoNode THEN NoNode
                                    ELSE Child(g[k - 1], r[k])
<1>1. /\ N \in Nat /\ q \in Seq(AllNames) /\ Len(q) = N + 1 /\ q[N + 1] = name
      /\ \A k \in 1..N : q[k] = p[k]
  OBVIOUS
<1>2. PICK g : /\ g[0] = 0 /\ ConfigGet(p) = g[N]
               /\ \A k \in 1..N : Next1(g, p, k)
  BY GetByLevel
<1>3. PICK h : /\ h[0] = 0 /\ ConfigGet(q) = h[N + 1]
               /\ \A k \in 1..N + 1 : Next1(h, q, k)
  <2>1. \E h : /\ h[0] = 0 /\ ConfigGet(q) = h[Len(q)]
               /\ \A k \in 1..Len(q) : Next1(h, q, k)
    <3>1. q \in Seq(AllNames)
      BY <1>1
    <3> HIDE DEF q
    <3> QED
      BY <3>1, GetByLevel
  <2> QED
    BY <1>1, <2>1
<1> DEFINE S  == {k \in 0..N : g[k] = h[k]}
           up == [k \in 1..N |-> k - 1]
<1>4. Descends(N, up) /\ 0 \in S
  BY <1>1, <1>2, <1>3 DEF Descends
<1>5. ASSUME NEW k \in 1..N, up[k] \in S
      PROVE  k \in S
  <2>1. k \in 0..N /\ k \in 1..N + 1 /\ g[k - 1] = h[k - 1]
    BY <1>1, <1>5
  <2>2. q[k] = p[k]
    BY <1>1
  <2>3. Next1(g, p, k) /\ Next1(h, q, k)
    BY <1>2, <1>3, <2>1
  <2>4. g[k] = h[k]
    <3> HIDE DEF q
    <3> QED
      BY <2>1, <2>2, <2>3
  <2> QED
    BY <2>1, <2>4
<1>6. g[N] = h[N]
  <2>1. \A k \in 0..N : k \in S
    <3> HIDE DEF S, up, N
    <3> QED
      BY <1>1, <1>4, <1>5, Descent
  <2> QED
    BY <1>1, <2>1
<1>7. ConfigGet(q) = IF g[N] = NoNode THEN NoNode ELSE Child(g[N], name)
  <2>1. N + 1 \in 1..N + 1 /\ (N + 1) - 1 = N
    BY <1>1
  <2>2. Next1(h, q, N + 1)
    BY <1>3, <2>1
  <2> HIDE DEF q, N
  <2> QED
    BY <1>1, <1>3, <1>6, <2>1, <2>2
<1>8. ConfigGet(<<>>) = 0
  <2>0. <<>> \in Seq(AllNames) /\ Len(<<>>) = 0
    OBVIOUS
  <2>1. PICK r : r = <<>> /\ r \in Seq(AllNames) /\ Len(r) = 0
    BY <2>0
  <2>2. ConfigGet(r) = 0
    BY <2>1, GetByLevel
  <2> QED
    BY <2>1, <2>2
<1> QED
  BY <1>2, <1>7, <1>8

(* What the tree is once all of the file is read. *)
Kids(n, name) ==
  {i \in 1..Len(file) : IsEntry(i) /\ Owner(i) = n /\ file[i].name = name}

LEMMA ReadTree ==
  ASSUME ConfigIInv, stack = <<>>
  PROVE  /\ file \in Seq(Line) /\ Len(file) \in Nat
         /\ \A n, name : n # NoNode =>
              Child(n, name) = IF Kids(n, name) = {} THEN NoNode
                               ELSE Min(Kids(n, name))
<1>1. TypeOK /\ TreeIsOutline
  BY DEF ConfigIInv, OutlineInv
<1>2. /\ file \in Seq(Line) /\ Len(file) \in Nat /\ DOMAIN file = 1..Len(file)
      /\ at \in 1..Len(file) + 1
  BY <1>1 DEF TypeOK
<1>3. \A i \in 1..Len(file) : IsEntry(i) => i < at
  <2>1. at \notin Readable
    BY <1>1 DEF TreeIsOutline
  <2> QED
    BY <1>2, <2>1 DEF Readable, IsEntry
<1>4. \A i \in 1..Len(file) :
        Parent[i] = IF IsEntry(i) THEN Owner(i) ELSE NoNode
  BY <1>1, <1>2, <1>3 DEF TreeIsOutline
<1>5. \A n \in Nat : n # NoNode
  BY ConfigAssumption DEF ConfigAssumption
<1>6. \A i \in 1..Len(file) : Owner(i) \in Nat
  BY <1>2, OwnerIsBefore
<1>7. ASSUME NEW n, n # NoNode, NEW name
      PROVE  {i \in Entries : Parent[i] = n /\ file[i].name = name}
               = Kids(n, name)
  BY <1>2, <1>4, <1>5, <1>6, <1>7 DEF Entries, Kids
<1> QED
  BY <1>2, <1>7 DEF Child

(* The owner of an entry is one, or the root. *)
LEMMA OwnerIsEntry ==
  ASSUME file \in Seq(Line), NEW i \in 1..Len(file), IsEntry(i), Owner(i) # 0
  PROVE  Owner(i) \in 1..Len(file) /\ IsEntry(Owner(i))
<1>1. Owner(i) \in 0..i - 1 /\ file[Owner(i)].name # NoName
  BY OwnerIsBefore
<1>2. DOMAIN file = 1..Len(file) /\ Len(file) \in Nat
  OBVIOUS
<1> QED
  BY <1>1, <1>2 DEF IsEntry, Readable

(* By descent through the owners: what is found by the path of i is the     *)
(* first child of that name of what is found by the path of its owner.      *)
LEMMA GetFinds ==
  ASSUME ConfigIInv
  PROVE  GetIsFirst
<1> SUFFICES ASSUME stack = <<>> PROVE GetIsFirst
  BY DEF GetIsFirst
<1> DEFINE N == Len(file)
           Found(i) == ConfigGet(PathOf[i]) = i <=> Foremost[i]
           S == {i \in 0..N : i = 0 \/ IsEntry(i) => Found(i)}
<1>1. file \in Seq(Line) /\ N \in Nat
  BY ReadTree
<1>2. \A n, name : n # NoNode =>
        Child(n, name) = IF Kids(n, name) = {} THEN NoNode ELSE Min(Kids(n, name))
  BY ReadTree
<1>3. PICK own : Descends(N, own) /\ \A i \in 1..N : own[i] = Owner(i)
  BY <1>1, OwnersDescend
<1>4. 0 \in S
  <2>1. PathOf[0] = <<>> /\ Foremost[0]
    BY <1>1, PathOfIs, ForemostIs
  <2>2. ConfigGet(<<>>) = 0
    <3>1. <<>> \in Seq(AllNames) /\ NoName \in AllNames
      BY DEF AllNames
    <3> QED
      BY <1>1, <3>1, GetIs
  <2> QED
    BY <1>1, <2>1, <2>2
<1>5. ASSUME NEW i \in 1..N, own[i] \in S, IsEntry(i)
      PROVE  Found(i)
  <2> DEFINE o == Owner(i)
             g == ConfigGet(PathOf[o])
             name == file[i].name
  <2>1. o \in 0..i - 1 /\ own[i] = o /\ o \in Nat
    BY <1>1, <1>3, OwnerIsBefore
  <2>2. g = o <=> Foremost[o]
    <3>1. o = 0 \/ IsEntry(o)
      BY <1>1, <1>5, OwnerIsEntry
    <3> QED
      BY <1>5, <2>1, <3>1
  <2>3. ConfigGet(PathOf[i]) = IF g = NoNode THEN NoNode ELSE Child(g, name)
    <3>1. PathOf[i] = Append(PathOf[o], name) /\ PathOf[o] \in Seq(AllNames)
      <4>1. o \in 0..N
        BY <1>1, <2>1
      <4>2. PathOf[i] = Append(PathOf[o], name)
        BY <1>1, PathOfIs
      <4>3. \A k \in 0..N : PathOf[k] \in Seq(AllNames)
        BY <1>1, PathOfIs
      <4> HIDE DEF o
      <4> QED
        BY <4>1, <4>2, <4>3
    <3>2. name \in AllNames
      <4>1. file[i] \in Line
        BY <1>1
      <4> QED
        BY <4>1 DEF Line, AllNames
    <3> HIDE DEF o, name
    <3> QED
      BY <1>1, <3>1, <3>2, GetIs
  <2>4. Foremost[i] <=> Foremost[o] /\ \A j \in 1..i - 1 : ~Twins(i, j)
    BY <1>1, ForemostIs
  <2>5. /\ i \in Kids(o, name)
        /\ \A j \in Kids(o, name) : j < i => j \in 1..i - 1 /\ Twins(i, j)
        /\ \A j \in 1..i - 1 : Twins(i, j) => j \in Kids(o, name)
    BY <1>1, <1>5 DEF Twins, Kids
  <2>6. Kids(o, name) \subseteq Nat /\ i \in Nat /\ NoNode \notin Nat
    BY ConfigAssumption DEF ConfigAssumption, Kids
  <2>7. Min(Kids(o, name)) \in Kids(o, name)
        /\ \A j \in Kids(o, name) : Min(Kids(o, name)) <= j
    <3>1. PICK K : K = Kids(o, name)
      OBVIOUS
    <3>2. K \subseteq Nat /\ K # {}
      BY <2>5, <2>6, <3>1
    <3> QED
      BY <3>1, <3>2, LeastIsMin
  <2>8. Child(o, name) = Min(Kids(o, name))
    BY <1>2, <2>1, <2>5, <2>6
  <2>9. Child(o, name) = i <=> \A j \in 1..i - 1 : ~Twins(i, j)
    <3> HIDE DEF o, name
    <3>1. PICK m \in Nat : m = Min(Kids(o, name))
      BY <2>6, <2>7
    <3> QED
      BY <2>5, <2>6, <2>7, <2>8, <3>1
  <2>10. ASSUME ConfigGet(PathOf[i]) = i
         PROVE  g = o
    <3>1. g # NoNode /\ Child(g, name) = i
      BY <2>3, <2>6, <2>10
    <3>2. Kids(g, name) \subseteq Nat /\ \A j \in Kids(g, name) : Owner(j) = g
      BY DEF Kids
    <3> HIDE DEF g, name
    <3>3. Kids(g, name) # {} /\ i = Min(Kids(g, name))
      BY <1>2, <2>6, <3>1
    <3>4. i \in Kids(g, name)
      BY <3>2, <3>3, LeastIsMin
    <3> QED
      BY <3>2, <3>4
  <2>11. ASSUME g = o
         PROVE  ConfigGet(PathOf[i]) = Child(o, name)
    BY <2>3, <2>6, <2>1, <2>11
  <2> HIDE DEF o, g, name
  <2> QED
    BY <2>2, <2>4, <2>9, <2>10, <2>11
<1>6. \A i \in 1..N : own[i] \in S => i \in S
  BY <1>1, <1>5
<1>7. \A i \in 0..N : i \in S
  <2> HIDE DEF S, N
  <2> QED
    BY <1>1, <1>3, <1>4, <1>6, Descent
<1>8. \A i \in 1..N : IsEntry(i) => Found(i)
  BY <1>1, <1>7
<1> QED
  BY <1>1, <1>8 DEF GetIsFirst

(* Every state of the parser is one of ConfigIInv: what each call on the   *)
(* stack holds is what the lines read so far say (CConfig.cpp:64-118).     *)
THEOREM ConfigInvariance == Spec => []ConfigIInv
<1>1. Init => ConfigIInv
  BY OutlineInit, LevelsInit DEF ConfigIInv
<1>2. ConfigIInv /\ [Next]_vars => ConfigIInv'
  BY OutlineStep, LevelsStep DEF ConfigIInv
<1> QED BY <1>1, <1>2, PTL DEF Spec

(* The tree is the outline of the file, for every number of lines, every   *)
(* indentation and every set of names (CConfig.cpp:64-118).                *)
THEOREM ConfigTree == Spec => []TreeIsOutline
<1>1. ConfigIInv => TreeIsOutline
  BY DEF ConfigIInv, OutlineInv
<1> QED BY <1>1, ConfigInvariance, PTL

(* config_parse calls itself no deeper than there are indentations in the  *)
(* file, since each call on the stack was made for another one of them     *)
(* (CConfig.cpp:82).                                                       *)
THEOREM ConfigDepth == Spec => []DepthBounded
<1>1. ConfigIInv => DepthBounded
  BY DepthIsBounded DEF ConfigIInv, OutlineInv
<1> QED BY <1>1, ConfigInvariance, PTL

(* The look-up is exact: an entry is found by its path if and only if it   *)
(* and all that it is in come first among their name's, for every file     *)
(* (CConfig.cpp:150-176).                                                  *)
THEOREM ConfigGetFirst == Spec => []GetIsFirst
<1>1. ConfigIInv => GetIsFirst
  BY GetFinds
<1> QED BY <1>1, ConfigInvariance, PTL
=============================================================================
