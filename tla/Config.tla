------------------------------- MODULE Config -------------------------------
(***************************************************************************)
(* The configuration file of CServer, in the version of CConfig that does  *)
(* without yaml-cpp: config_parse turns the lines of a file into a tree of *)
(* entries, and config_get looks up a path in it.                          *)
(*                                                                         *)
(* A line is its indentation and the name of its entry; a line without a   *)
(* colon (a blank one, a comment) has no entry.  Values are left out: they *)
(* go with the entry.  A node of the tree is the number of its line, and   *)
(* the root is 0; siblings are pushed in the order of their lines.  The    *)
(* recursion of config_parse, which takes lines off a text shared by all   *)
(* its calls, is an explicit stack of calls.                               *)
(***************************************************************************)
EXTENDS Naturals, SequencesExt

CONSTANTS
  MaxLines,       (* bound: lines of a file                                *)
  MaxIndent,      (* bound: their indentation                              *)
  Names,          (* names of entries                                      *)
  NoName,         (* the name of a line that is no entry                   *)
  NoNode          (* a null CNode pointer                                  *)

ASSUME ConfigAssumption ==
  /\ MaxLines \in Nat /\ MaxIndent \in Nat
  /\ NoName \notin Names /\ NoNode \notin Nat

VARIABLES
  file,           (* the lines                                             *)
  ended,          (* whether the last one ends with a newline              *)
  at,             (* the first line that is left in body                   *)
  stack,          (* the calls of config_parse, the innermost last         *)
  Parent          (* CNode::Parent, by line                                *)

vars == <<file, ended, at, stack, Parent>>

Line == [indent : 0..MaxIndent, name : Names \cup {NoName}]

Init ==
  /\ file \in UNION {[1..n -> Line] : n \in 0..MaxLines} /\ ended \in BOOLEAN
  /\ at = 1
  /\ stack = <<[parent |-> 0, shift |-> 0, lastNode |-> 0]>>
  /\ Parent = [i \in DOMAIN file |-> NoNode]

Top  == Last(stack)
Step == stack # <<>> /\ UNCHANGED <<file, ended>>

(* The last line is read only when it ends with a newline. *)
Readable == IF ended THEN DOMAIN file ELSE 1..Len(file) - 1

(* mutant of Deeper: the block becomes part of the one it is in *)
Deeper_Flat ==
  /\ Step /\ at \in Readable /\ file[at].indent > Top.shift
  /\ stack' = Append(stack, [parent |-> Top.parent, shift |-> file[at].indent,
                             lastNode |-> Top.parent])
  /\ UNCHANGED <<at, Parent>>

(* mutant of Deeper: the inner call keeps the indentation of the outer *)
Deeper_Again ==
  /\ Step /\ at \in Readable /\ file[at].indent > Top.shift
  /\ stack' = Append(stack, [parent |-> Top.lastNode, shift |-> Top.shift,
                             lastNode |-> Top.lastNode])
  /\ UNCHANGED <<at, Parent>>

(* A line that is indented more: its block belongs to the last node. *)
Deeper ==
  /\ Step /\ at \in Readable /\ file[at].indent > Top.shift
  /\ stack' = Append(stack, [parent |-> Top.lastNode, shift |-> file[at].indent,
                             lastNode |-> Top.lastNode])
  /\ UNCHANGED <<at, Parent>>

(* Indented less, or no line is left: the call returns. *)
Return ==
  /\ Step /\ (at \in Readable => file[at].indent < Top.shift)
  /\ stack' = Front(stack)
  /\ UNCHANGED <<at, Parent>>

(* At this level: an entry becomes a node. *)
Entry ==
  /\ Step /\ at \in Readable /\ file[at].indent = Top.shift
  /\ file[at].name # NoName
  /\ Parent' = [Parent EXCEPT ![at] = Top.parent]
  /\ stack' = [stack EXCEPT ![Len(stack)].lastNode = at]
  /\ at' = at + 1

(* mutant of Other: only an entry is taken off the text *)
Other_Stays ==
  /\ Step /\ at \in Readable /\ file[at].indent = Top.shift
  /\ file[at].name = NoName
  /\ UNCHANGED <<at, stack, Parent>>

(* Any other line is dropped. *)
Other ==
  /\ Step /\ at \in Readable /\ file[at].indent = Top.shift
  /\ file[at].name = NoName
  /\ at' = at + 1
  /\ UNCHANGED <<stack, Parent>>

Next == Deeper \/ Return \/ Entry \/ Other

(* The parser is a loop of one thread. *)
Spec == Init /\ [][Next]_vars /\ WF_vars(Next)

-----------------------------------------------------------------------------
(* The look-up. *)

Entries == {i \in DOMAIN file : Parent[i] # NoNode}

(* mutant of Child: the last one *)
Child_Last(n, name) ==
  LET C == {i \in Entries : Parent[i] = n /\ file[i].name = name}
  IN IF C = {} THEN NoNode ELSE Max(C)

(* The first child of n of that name. *)
Child(n, name) ==
  LET C == {i \in Entries : Parent[i] = n /\ file[i].name = name}
  IN IF C = {} THEN NoNode ELSE Min(C)

(* config_get: one level after the other, and never back. *)
ConfigGet(path) ==
  LET get[k \in 0..Len(path)] ==
        IF k = 0 THEN 0
        ELSE IF get[k - 1] = NoNode THEN NoNode ELSE Child(get[k - 1], path[k])
  IN get[Len(path)]

-----------------------------------------------------------------------------
(* Properties. *)

Frame == [parent : Nat, shift : 0..MaxIndent, lastNode : Nat]

TypeOK ==
  /\ file \in Seq(Line) /\ Len(file) <= MaxLines /\ ended \in BOOLEAN
  /\ at \in 1..Len(file) + 1 /\ stack \in Seq(Frame)
  /\ Parent \in [DOMAIN file -> 0..MaxLines \cup {NoNode}]

(* What the indentation says: line i belongs to the last entry before it   *)
(* that is indented less, unless a line in between, entry or not, is       *)
(* indented less than that entry and so ended its block.                   *)
Above(f, p, d, e) ==        \* entries before p indented less than d, up to e
  {j \in 1..p - 1 : /\ f[j].name # NoName /\ f[j].indent < d /\ f[j].indent <= e
                    /\ \A m \in j + 1..p - 1 : f[m].indent >= f[j].indent}
Owners(i) == Above(file, i, file[i].indent, file[i].indent)
Owner(i)  == IF Owners(i) = {} THEN 0 ELSE Max(Owners(i))

IsEntry(i) == i \in Readable /\ file[i].name # NoName

(* The nodes of the tree are the entries that were read, and each has the  *)
(* parent its indentation gives it, however the levels return and re-open  *)
(* (CConfig.cpp:64-118); the file is read to its last newline.             *)
TreeIsOutline ==
  /\ \A i \in DOMAIN file :
       Parent[i] = IF IsEntry(i) /\ i < at THEN Owner(i) ELSE NoNode
  /\ stack = <<>> => at \notin Readable

(* The inductive invariant of ConfigProofs, in named parts: how the calls  *)
(* are nested; which entry each of the outer ones would give a line of any *)
(* indentation up to the next one's; and the innermost one, unless it is   *)
(* about to return.                                                        *)
Latest(S, o) == IF S = {} THEN o = 0 ELSE o \in S /\ \A j \in S : j <= o
FrameInv ==
  \A k \in DOMAIN stack :
    /\ IF k = 1 THEN stack[k].parent = 0 /\ stack[k].shift = 0
       ELSE /\ stack[k].parent = stack[k - 1].lastNode
            /\ \A j \in 1..k - 1 : stack[j].shift < stack[k].shift
    /\ stack[k].lastNode # 0 =>
         /\ stack[k].lastNode \in 1..at - 1
         /\ file[stack[k].lastNode].indent <= stack[k].shift
OuterInv ==
  \A k \in 1..Len(stack) - 1 : \A d \in 0..MaxIndent :
    stack[k].shift < d /\ d <= stack[k + 1].shift =>
      Latest(Above(file, at, d, d), stack[k].lastNode)
InnerInv ==
  stack # <<>> /\ at \in Readable /\ file[at].indent >= Top.shift =>
    \A d \in 0..MaxIndent : d > Top.shift =>
      Latest(Above(file, at, d, file[at].indent), Top.lastNode)
OutlineInv == TypeOK /\ FrameInv /\ OuterInv /\ InnerInv /\ TreeIsOutline

(* Every call but the outermost was made for the indentation of a line.    *)
Levels    == {file[i].indent : i \in Readable} \ {0}
LevelsInv == \A k \in DOMAIN stack : k # 1 => stack[k].shift \in Levels

ConfigIInv == OutlineInv /\ LevelsInv

(* The recursion goes no deeper than the number of indentations there are, *)
(* however long the file (CConfig.cpp:82).                                 *)
DepthBounded == Len(stack) <= 1 + Cardinality(Levels)

(* The path of an entry in the outline. *)
PathOf ==
  LET path[i \in 0..Len(file)] ==
        IF i = 0 THEN <<>> ELSE Append(path[Owner(i)], file[i].name)
  IN path

Twins(i, j) == /\ IsEntry(j) /\ Owner(j) = Owner(i) /\ file[j].name = file[i].name

(* No entry of the same name comes before i, or before what it is in. *)
Foremost ==
  LET fore[i \in 0..Len(file)] ==
        i = 0 \/ (fore[Owner(i)] /\ \A j \in 1..i - 1 : ~Twins(i, j))
  IN fore

(* An entry is found by its path exactly when it and everything it is in   *)
(* come first among entries of the same name: the look-up does not go on   *)
(* to a second block of that name (CConfig.cpp:150-176).                   *)
GetIsFirst ==
  stack = <<>> =>
    \A i \in DOMAIN file : IsEntry(i) =>
      ConfigGet(PathOf[i]) = i <=> Foremost[i]

(* The constructor returns, whatever the file: each turn of the loop takes *)
(* a line off, or enters or leaves a call.                                 *)
Terminates == <>(stack = <<>>)
=============================================================================
