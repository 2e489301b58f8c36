---------------------------- MODULE ReviewProofs ----------------------------
(***************************************************************************)
(* What the commands promise that read files of evidence and write a       *)
(* decision, for contracts, files and limits of every size: the walk that  *)
(* orders a recovery or a migration, and then the decisions themselves, a  *)
(* section for each command: lemmas about its operators, its inductive     *)
(* invariant, and the theorem.                                             *)
(***************************************************************************)
EXTENDS RecoveryDrill, MigrationWave, ManagedAi, InferenceFleet, CommercialOnboarding, ChangeRollout,
        DataRelease, CostAllocation, PairedBenchmark, WorkItems, OutcomeCost, DrillEvidence,
        AgentRelease, IncidentReplay, NetworkChange, SharedLemmas

-----------------------------------------------------------------------------
(* The walk of DependencyOrder: its inductive invariant *)

Names == outcome \notin {"called", "unknown"} => \A c \in Components : deps[c] \subseteq Components

\* Calls under way: each was made by the one below it, none of them has been
\* ordered, and a dependency their loops have passed has been ordered, or is
\* the call they wait for.
Calls ==
    \A i \in DOMAIN stack :
        /\ stack[i].node \notin visited
        /\ stack[i].todo \subseteq deps[stack[i].node]
        /\ \A d \in deps[stack[i].node] \ stack[i].todo :
             d \in visited \/ (i < Len(stack) /\ d = stack[i + 1].node)
        /\ i < Len(stack) => stack[i + 1].node \in deps[stack[i].node]
        /\ \A j \in DOMAIN stack : stack[i].node = stack[j].node => i = j

Appended == visited = {order[i] : i \in DOMAIN order}

\* Every component is still to come, is being visited, or has been.
Accounted ==
    /\ Components \subseteq left \cup Visiting \cup visited
    /\ outcome = "done" => stack = <<>> /\ left = {}

Refused ==
    /\ outcome = "unknown" => \E c \in Components : ~(deps[c] \subseteq Components)
    /\ outcome = "cycle" => Cyclic

IInv ==
    TypeOK /\ Names /\ Calls /\ Appended /\ Accounted /\ Refused /\ DependenciesFirst /\ EachOnce

-----------------------------------------------------------------------------
(* Lemmas about the stack *)

\* What a frame holds.
LEMMA FrameFields ==
    ASSUME NEW f \in Frame
    PROVE  f.node \in Components /\ f.todo \subseteq Components
BY DEF Frame

LEMMA FrameOf ==
    ASSUME NEW c \in Components, NEW t \in SUBSET Components
    PROVE  [node |-> c, todo |-> t] \in Frame
BY DEF Frame

\* A stack that is not empty has an innermost call, and frames throughout.
LEMMA Innermost ==
    ASSUME NEW s \in Seq(Frame), s # <<>>
    PROVE  /\ Len(s) \in Nat /\ Len(s) # 0
           /\ DOMAIN s = 1..Len(s) /\ Len(s) \in DOMAIN s
           /\ \A i \in 1..Len(s) :
                s[i] \in Frame /\ s[i].node \in Components /\ s[i].todo \subseteq Components
<1>1. /\ Len(s) \in Nat /\ Len(s) # 0 /\ DOMAIN s = 1..Len(s) /\ Len(s) \in DOMAIN s
      /\ \A i \in 1..Len(s) : s[i] \in Frame
  OBVIOUS
<1> QED
  BY <1>1, FrameFields

\* A dependency taken off the innermost loop leaves everything else in place.
LEMMA Shrunk ==
    ASSUME stack \in Seq(Frame), stack # <<>>, NEW d
    PROVE  /\ After(d) \in Seq(Frame) /\ Len(After(d)) = Len(stack)
           /\ DOMAIN After(d) = DOMAIN stack
           /\ \A i \in DOMAIN stack :
                /\ After(d)[i].node = stack[i].node
                /\ i # Len(stack) => After(d)[i].todo = stack[i].todo
                /\ i = Len(stack) => After(d)[i].todo = stack[i].todo \ {d}
<1> DEFINE f == [node |-> Top.node, todo |-> Top.todo \ {d}]
<1>1. /\ Len(stack) \in DOMAIN stack /\ DOMAIN stack = 1..Len(stack) /\ Len(stack) \in Nat
      /\ Top \in Frame
  BY DEF Top
<1>2. f \in Frame /\ f.node = Top.node /\ f.todo = Top.todo \ {d}
  BY <1>1 DEF Frame
<1>3. After(d) = [stack EXCEPT ![Len(stack)] = f]
  BY DEF After
<1> HIDE DEF f
<1>4. After(d) \in Seq(Frame) /\ Len(After(d)) = Len(stack) /\ DOMAIN After(d) = DOMAIN stack
  BY <1>1, <1>2, <1>3
<1>5. \A i \in DOMAIN stack : After(d)[i] = IF i = Len(stack) THEN f ELSE stack[i]
  BY <1>1, <1>3
<1> QED
  BY <1>2, <1>4, <1>5 DEF Top

\* Appending a call whose component depends, by the call below it, and is
\* neither being visited nor visited, keeps the frames' types and the shape of
\* the stack.
LEMMA Pushed ==
    ASSUME NEW s \in Seq(Frame), NEW f \in Frame
    PROVE  /\ Append(s, f) \in Seq(Frame)
           /\ Len(Append(s, f)) = Len(s) + 1
           /\ DOMAIN Append(s, f) = 1..(Len(s) + 1) /\ DOMAIN s = 1..Len(s) /\ Len(s) \in Nat
           /\ Append(s, f)[Len(s) + 1] = f
           /\ \A i \in DOMAIN s : Append(s, f)[i] = s[i]
OBVIOUS

-----------------------------------------------------------------------------
(* One lemma per step *)

\* The names are looked at before anything moves.
LEMMA CheckNamesKeeps == IInv /\ CheckNames => IInv'
<1> SUFFICES ASSUME IInv, CheckNames PROVE IInv'
  OBVIOUS
<1> USE DEF CheckNames
<1>1. TypeOK'
  BY DEF IInv, TypeOK
<1>2. Names'
  BY DEF Names, UnknownNames
<1>3. Calls' /\ Appended' /\ DependenciesFirst' /\ EachOnce'
  BY DEF IInv, Calls, Appended, DependenciesFirst, EachOnce
<1>4. Accounted'
  BY DEF IInv, Accounted, Visiting
<1>5. Refused'
  BY DEF UnknownNames, Refused
<1> QED
  BY <1>1, <1>2, <1>3, <1>4, <1>5 DEF IInv

\* A call from the outer loop: the stack holds at most its frame.
LEMMA VisitNextKeeps == IInv /\ VisitNext => IInv'
<1> SUFFICES ASSUME IInv, VisitNext PROVE IInv'
  OBVIOUS
<1>1. PICK c \in left : left' = left \ {c} /\ stack' = Visited(stack, c)
  BY DEF VisitNext
<1>2. /\ outcome = "walking" /\ stack = <<>> /\ UNCHANGED <<deps, visited, order, outcome>>
      /\ c \in Components /\ deps[c] \subseteq Components
  BY DEF VisitNext, IInv, Names, TypeOK
<1>3. Names' /\ Appended' /\ DependenciesFirst' /\ EachOnce'
  BY <1>2 DEF IInv, Names, Appended, DependenciesFirst, EachOnce
<1>4. Refused'
  BY <1>2 DEF Refused
<1>5. CASE c \in visited
  <2>1. stack' = <<>>
    BY <1>1, <1>2, <1>5 DEF Visited, Seen
  <2>2. TypeOK'
    BY <1>1, <1>2, <2>1 DEF IInv, TypeOK
  <2>3. Calls'
    BY <2>1 DEF Calls
  <2>4. Accounted'
    BY <1>1, <1>2, <1>5, <2>1 DEF IInv, Accounted, Visiting
  <2> QED
    BY <1>3, <1>4, <2>2, <2>3, <2>4 DEF IInv
<1>6. CASE c \notin visited
  <2>1. stack' = <<[node |-> c, todo |-> deps[c]]>>
    BY <1>1, <1>2, <1>6 DEF Visited, Seen
  <2>2. DOMAIN stack' = {1} /\ Len(stack') = 1 /\ stack'[1].node = c /\ stack'[1].todo = deps[c]
    BY <2>1
  <2>3. TypeOK'
    <3>1. stack' \in Seq(Frame)
      BY <1>2, <2>1, FrameOf
    <3> QED
      BY <1>1, <1>2, <3>1 DEF IInv, TypeOK
  <2>4. Calls'
    BY <1>2, <1>6, <2>2 DEF Calls
  <2>5. Accounted'
    <3>1. c \in Visiting'
      BY <2>2 DEF Visiting
    <3>2. Visiting = {}
      BY <1>2 DEF Visiting
    <3> QED
      BY <1>1, <1>2, <3>1, <3>2 DEF IInv, Accounted
  <2> QED
    BY <1>3, <1>4, <2>3, <2>4, <2>5 DEF IInv
<1> QED
  BY <1>5, <1>6

\* A call from an inner loop, or one that returns at once.
LEMMA VisitDependencyKeeps == IInv /\ VisitDependency => IInv'
<1> SUFFICES ASSUME IInv, VisitDependency PROVE IInv'
  OBVIOUS
<1>1. /\ outcome = "walking" /\ stack # <<>> /\ UNCHANGED <<deps, left, visited, order, outcome>>
      /\ stack \in Seq(Frame)
      /\ deps \in [Components -> SUBSET Named] /\ visited \subseteq Components
  BY DEF VisitDependency, IInv, TypeOK
<1>n. PICK n \in Nat : n = Len(stack)
  BY <1>1
<1>s. /\ n # 0 /\ DOMAIN stack = 1..n /\ n \in 1..n
      /\ \A i \in 1..n : stack[i].node \in Components /\ stack[i].todo \subseteq Components
  BY <1>1, <1>n, Innermost
<1>c. \A i \in 1..n :
        /\ stack[i].node \notin visited
        /\ stack[i].todo \subseteq deps[stack[i].node]
        /\ \A d \in deps[stack[i].node] \ stack[i].todo :
             d \in visited \/ (i < n /\ d = stack[i + 1].node)
        /\ i < n => stack[i + 1].node \in deps[stack[i].node]
        /\ \A j \in 1..n : stack[i].node = stack[j].node => i = j
  BY <1>n, <1>s DEF IInv, Calls
<1>2. PICK d \in stack[n].todo :
        ~InCycle(d) /\ stack' = Visited(After(d), d)
  BY <1>n DEF VisitDependency, Top
<1>3. d \in Components /\ deps[d] \subseteq Components /\ d \in deps[stack[n].node]
  <2>1. d \in Components /\ d \in deps[stack[n].node]
    BY <1>s, <1>c, <1>2
  <2> QED
    BY <1>1, <2>1 DEF IInv, Names
<1> DEFINE s == After(d)
<1>4. /\ s \in Seq(Frame) /\ Len(s) = n /\ DOMAIN s = 1..n
      /\ \A i \in 1..n :
           /\ s[i].node = stack[i].node
           /\ i # n => s[i].todo = stack[i].todo
           /\ i = n => s[i].todo = stack[i].todo \ {d}
  BY <1>1, <1>n, <1>s, Shrunk
<1>5. Names' /\ Appended' /\ DependenciesFirst' /\ EachOnce'
  BY <1>1 DEF IInv, Names, Appended, DependenciesFirst, EachOnce
<1>6. Refused'
  BY <1>1 DEF Refused
<1>7. CASE d \in visited
  <2>1. stack' = s
    BY <1>2, <1>7 DEF Visited, Seen
  <2> HIDE DEF s
  <2>2. TypeOK'
    BY <1>1, <1>4, <2>1 DEF IInv, TypeOK
  <2>3. Calls'
    <3> SUFFICES ASSUME NEW i \in 1..n
                 PROVE  /\ s[i].node \notin visited
                        /\ s[i].todo \subseteq deps[s[i].node]
                        /\ \A e \in deps[s[i].node] \ s[i].todo :
                             e \in visited \/ (i < n /\ e = s[i + 1].node)
                        /\ i < n => s[i + 1].node \in deps[s[i].node]
                        /\ \A j \in 1..n : s[i].node = s[j].node => i = j
      BY <1>1, <1>4, <2>1 DEF Calls
    <3>1. \A j \in 1..n : s[i].node = s[j].node => i = j
      BY <1>c, <1>4
    <3>2. CASE i = n
      BY <1>c, <1>4, <1>7, <3>1, <3>2
    <3>3. CASE i # n
      <4>1. i < n /\ i + 1 \in 1..n /\ s[i + 1].node = stack[i + 1].node
        BY <1>4, <3>3
      <4> QED
        BY <1>c, <1>4, <3>1, <3>3, <4>1
    <3> QED
      BY <3>2, <3>3
  <2>4. Accounted'
    BY <1>1, <1>s, <1>4, <2>1 DEF IInv, Accounted, Visiting
  <2> QED
    BY <1>5, <1>6, <2>2, <2>3, <2>4 DEF IInv
<1>8. CASE d \notin visited
  <2> DEFINE f == [node |-> d, todo |-> deps[d]]
  <2>1. stack' = Append(s, f) /\ f \in Frame /\ f.node = d /\ f.todo = deps[d]
    BY <1>2, <1>3, <1>8, FrameOf DEF Visited, Seen
  <2> HIDE DEF s, f
  <2>2. /\ stack' \in Seq(Frame) /\ Len(stack') = n + 1 /\ DOMAIN stack' = 1..(n + 1)
        /\ stack'[n + 1] = f
        /\ \A i \in 1..n : stack'[i] = s[i]
    BY <1>1, <1>4, <2>1, Pushed
  <2>3. TypeOK'
    BY <1>1, <2>2 DEF IInv, TypeOK
  <2>4. /\ \A i \in 1..n : stack[i].node # d
        /\ \A i \in 1..n : stack'[i].node = stack[i].node
        /\ \A i \in 1..n : i # n => stack'[i].todo = stack[i].todo
        /\ stack'[n].todo = stack[n].todo \ {d}
        /\ stack'[n + 1].node = d /\ stack'[n + 1].todo = deps[d]
    BY <1>s, <1>2, <1>4, <2>1, <2>2 DEF InCycle, Visiting
  <2>5. Calls'
    <3> SUFFICES ASSUME NEW i \in 1..(n + 1)
                 PROVE  /\ stack'[i].node \notin visited
                        /\ stack'[i].todo \subseteq deps[stack'[i].node]
                        /\ \A e \in deps[stack'[i].node] \ stack'[i].todo :
                             e \in visited \/ (i < n + 1 /\ e = stack'[i + 1].node)
                        /\ i < n + 1 => stack'[i + 1].node \in deps[stack'[i].node]
                        /\ \A j \in 1..(n + 1) : stack'[i].node = stack'[j].node => i = j
      BY <1>1, <2>2 DEF Calls
    <3>0. \A j \in 1..(n + 1) : j \in 1..n \/ j = n + 1
      OBVIOUS
    <3>1. CASE i = n + 1
      BY <1>8, <2>4, <3>0, <3>1
    <3>2. CASE i \in 1..n
      <4>1. i < n + 1 /\ i # n + 1 /\ (i # n => i < n /\ i + 1 \in 1..n)
        BY <3>2
      <4>2. \A j \in 1..(n + 1) : stack'[i].node = stack'[j].node => i = j
        BY <1>c, <2>4, <3>0, <3>2
      <4>3. CASE i = n
        BY <1>3, <1>s, <1>c, <2>4, <4>1, <4>2, <4>3
      <4>4. CASE i # n
        <5>1. stack'[i + 1].node = stack[i + 1].node
          BY <2>4, <4>1, <4>4
        <5> QED
          BY <1>c, <2>4, <3>2, <4>1, <4>2, <4>4, <5>1
      <4> QED
        BY <4>3, <4>4
    <3> QED
      BY <3>0, <3>1, <3>2
  <2>6. Accounted'
    <3>1. Visiting \subseteq Visiting'
      <4>1. \A i \in 1..n : i \in 1..(n + 1)
        OBVIOUS
      <4> QED
        BY <1>s, <2>2, <2>4, <4>1 DEF Visiting
    <3> QED
      BY <1>1, <3>1 DEF IInv, Accounted
  <2> QED
    BY <1>5, <1>6, <2>3, <2>5, <2>6 DEF IInv
<1> QED
  BY <1>7, <1>8

\* The calls from the one of the dependency up to the innermost are a circle.
LEMMA RaiseCycleKeeps == IInv /\ RaiseCycle => IInv'
<1> SUFFICES ASSUME IInv, RaiseCycle PROVE IInv'
  OBVIOUS
<1>1. /\ outcome = "walking" /\ outcome' = "cycle" /\ UNCHANGED <<deps, left, stack, visited, order>>
      /\ stack \in Seq(Frame) /\ stack # <<>>
  BY DEF RaiseCycle, IInv, TypeOK
<1>n. PICK n \in Nat : n = Len(stack)
  BY <1>1
<1>s. /\ n # 0 /\ DOMAIN stack = 1..n /\ n \in 1..n
      /\ \A i \in 1..n : stack[i].node \in Components /\ stack[i].todo \subseteq Components
  BY <1>1, <1>n, Innermost
<1>2. PICK d \in stack[n].todo : InCycle(d)
  BY <1>n DEF RaiseCycle, Top
<1>3. PICK k \in 1..n : d = stack[k].node
  BY <1>s, <1>2 DEF InCycle, Visiting
<1> DEFINE S == {stack[i].node : i \in k..n}
<1>4. S \in SUBSET Components /\ d \in S
  <2>1. k \in k..n /\ \A i \in k..n : i \in 1..n
    OBVIOUS
  <2> QED
    BY <1>s, <1>3, <2>1
<1>5. ASSUME NEW c \in S PROVE deps[c] \cap S # {}
  <2>1. PICK i \in k..n : c = stack[i].node
    OBVIOUS
  <2>2. CASE i = n
    <3>1. d \in deps[c]
      BY <1>s, <1>2, <2>1, <2>2 DEF IInv, Calls
    <3> QED
      BY <1>4, <3>1
  <2>3. CASE i # n
    <3>1. i \in 1..n /\ i < n /\ i + 1 \in k..n
      BY <2>3
    <3>2. stack[i + 1].node \in deps[c]
      BY <1>n, <1>s, <2>1, <3>1 DEF IInv, Calls
    <3> QED
      BY <3>1, <3>2
  <2> QED
    BY <2>2, <2>3
<1>6. Cyclic
  <2> HIDE DEF S
  <2> QED
    BY <1>4, <1>5 DEF Cyclic, Circle
<1>7. Cyclic'
  BY <1>1, <1>6 DEF Cyclic, Circle, Components
<1>8. TypeOK' /\ Names'
  BY <1>1 DEF IInv, TypeOK, Names
<1>9. Calls' /\ Appended' /\ DependenciesFirst' /\ EachOnce'
  BY <1>1 DEF IInv, Calls, Appended, DependenciesFirst, EachOnce
<1>10. Accounted' /\ Refused'
  BY <1>1, <1>7 DEF IInv, Accounted, Visiting, Refused
<1> QED
  BY <1>8, <1>9, <1>10 DEF IInv

\* The innermost call ends: all it depends on has been ordered before it.
LEMMA LeaveKeeps == IInv /\ Leave => IInv'
<1> SUFFICES ASSUME IInv, Leave PROVE IInv'
  OBVIOUS
<1>1. /\ outcome = "walking" /\ stack # <<>> /\ Top.todo = {} /\ UNCHANGED <<deps, left, outcome>>
      /\ stack' = SubSeq(stack, 1, Len(stack) - 1)
      /\ visited' = visited \cup {Top.node}
      /\ order' = Append(order, Top.node)
      /\ stack \in Seq(Frame)
      /\ order \in Seq(Components)
      /\ deps \in [Components -> SUBSET Named]
  BY DEF Leave, MayLeave, IInv, TypeOK
<1>d. UNCHANGED deps
  BY <1>1
<1>n. PICK n \in Nat : n = Len(stack)
  BY <1>1
<1>s. /\ n # 0 /\ DOMAIN stack = 1..n /\ n \in 1..n
      /\ \A i \in 1..n : stack[i].node \in Components /\ stack[i].todo \subseteq Components
  BY <1>1, <1>n, Innermost
<1>c. \A i \in 1..n :
        /\ stack[i].node \notin visited
        /\ stack[i].todo \subseteq deps[stack[i].node]
        /\ \A d \in deps[stack[i].node] \ stack[i].todo :
             d \in visited \/ (i < n /\ d = stack[i + 1].node)
        /\ i < n => stack[i + 1].node \in deps[stack[i].node]
        /\ \A j \in 1..n : stack[i].node = stack[j].node => i = j
  BY <1>n, <1>s DEF IInv, Calls
<1>m. PICK m \in Nat : m = Len(order) /\ DOMAIN order = 1..m
  BY <1>1
<1>2. PICK c \in Components : c = stack[n].node
  BY <1>s
<1>t. visited' = visited \cup {c} /\ order' = Append(order, c) /\ stack[n].todo = {}
  BY <1>1, <1>n, <1>2 DEF Top
<1>3. /\ stack' \in Seq(Frame) /\ Len(stack') = n - 1 /\ DOMAIN stack' = 1..(n - 1)
      /\ \A i \in 1..(n - 1) : stack'[i] = stack[i]
  BY <1>1, <1>n, <1>s
<1>4. /\ order' \in Seq(Components) /\ DOMAIN order' = 1..(m + 1)
      /\ order'[m + 1] = c
      /\ \A i \in 1..m : order'[i] = order[i]
  BY <1>1, <1>m, <1>t
<1>5. c \notin visited /\ deps[c] \subseteq visited
  BY <1>s, <1>c, <1>t, <1>2
<1>6. visited = {order[i] : i \in 1..m}
  BY <1>m DEF IInv, Appended
<1>7. TypeOK'
  BY <1>1, <1>t, <1>3, <1>4 DEF IInv, TypeOK
<1>8. Names' /\ Refused'
  BY <1>1 DEF IInv, Names, Refused, Cyclic, Circle, Components
<1>9. Calls'
  <2> SUFFICES ASSUME NEW i \in 1..(n - 1)
               PROVE  /\ stack'[i].node \notin visited'
                      /\ stack'[i].todo \subseteq deps[stack'[i].node]
                      /\ \A d \in deps[stack'[i].node] \ stack'[i].todo :
                           d \in visited' \/ (i < n - 1 /\ d = stack'[i + 1].node)
                      /\ i < n - 1 => stack'[i + 1].node \in deps[stack'[i].node]
                      /\ \A j \in 1..(n - 1) : stack'[i].node = stack'[j].node => i = j
    BY <1>d, <1>3 DEF Calls
  <2>1. i \in 1..n /\ i < n /\ i # n /\ (i < n - 1 => i + 1 \in 1..(n - 1)) /\ (~(i < n - 1) => i + 1 = n)
    OBVIOUS
  <2>2. /\ stack[i].node \notin visited /\ stack[i].node # c
        /\ stack[i].todo \subseteq deps[stack[i].node]
        /\ \A j \in 1..n : stack[i].node = stack[j].node => i = j
        /\ \A d \in deps[stack[i].node] \ stack[i].todo : d \in visited \/ d = stack[i + 1].node
        /\ stack[i + 1].node \in deps[stack[i].node]
    BY <1>s, <1>c, <1>2, <2>1
  <2>3. i < n - 1 => stack'[i + 1] = stack[i + 1]
    BY <1>3, <2>1
  <2>4. \A j \in 1..(n - 1) : j \in 1..n
    OBVIOUS
  <2>5. \A d \in deps[stack[i].node] \ stack[i].todo :
          d \in visited \cup {c} \/ (i < n - 1 /\ d = stack'[i + 1].node)
    <3>1. CASE i < n - 1
      BY <2>2, <2>3, <3>1
    <3>2. CASE ~(i < n - 1)
      BY <1>2, <2>1, <2>2, <3>2
    <3> QED
      BY <3>1, <3>2
  <2> QED
    BY <1>t, <1>3, <2>2, <2>3, <2>4, <2>5
<1>10. Appended'
  <2>1. \A i \in 1..(m + 1) : i \in 1..m \/ i = m + 1
    OBVIOUS
  <2>2. m + 1 \in 1..(m + 1) /\ \A i \in 1..m : i \in 1..(m + 1)
    OBVIOUS
  <2> QED
    BY <1>t, <1>4, <1>6, <2>1, <2>2 DEF Appended
<1>11. Accounted'
  <2>1. Visiting \subseteq Visiting' \cup {c}
    <3>1. \A i \in 1..n : i = n \/ i \in 1..(n - 1)
      OBVIOUS
    <3> QED
      BY <1>s, <1>2, <1>3, <3>1 DEF Visiting
  <2> QED
    BY <1>1, <1>t, <2>1 DEF IInv, Accounted
<1>12. DependenciesFirst'
  <2> SUFFICES ASSUME NEW i \in 1..(m + 1), NEW d \in deps[order'[i]]
               PROVE  \E j \in 1..(i - 1) : order'[j] = d
    BY <1>1, <1>4 DEF DependenciesFirst
  <2>1. CASE i = m + 1
    BY <1>1, <1>4, <1>5, <1>6, <2>1
  <2>2. CASE i \in 1..m
    <3>1. PICK j \in 1..(i - 1) : order[j] = d
      BY <1>1, <1>m, <1>4, <2>2 DEF IInv, DependenciesFirst
    <3>2. j \in 1..m
      BY <2>2
    <3> QED
      BY <1>4, <3>1, <3>2
  <2> QED
    BY <2>1, <2>2
<1>13. EachOnce'
  <2> SUFFICES ASSUME NEW i \in 1..(m + 1), NEW j \in 1..(m + 1), order'[i] = order'[j]
               PROVE  i = j
    BY <1>4 DEF EachOnce
  <2>1. \A k \in 1..m : order'[k] # c
    BY <1>4, <1>5, <1>6
  <2>2. i = m + 1 \/ i \in 1..m
    BY <1>1
  <2>3. j = m + 1 \/ j \in 1..m
    BY <1>1
  <2> QED
    BY <1>m, <1>4, <2>1, <2>2, <2>3 DEF IInv, EachOnce
<1> QED
  BY <1>7, <1>8, <1>9, <1>10, <1>11, <1>12, <1>13 DEF IInv

-----------------------------------------------------------------------------
\* The invariant holds from the call of the function to its end.
THEOREM Inductive == Spec => []IInv
<1>1. Init => IInv
  <2> SUFFICES ASSUME Init PROVE IInv
    OBVIOUS
  <2> USE DEF Init
  <2>1. TypeOK
    BY DEF TypeOK, Frame
  <2>2. Names /\ Calls /\ Appended /\ Accounted /\ Refused
    BY DEF Names, Calls, Appended, Accounted, Refused
  <2>3. DependenciesFirst /\ EachOnce
    BY DEF DependenciesFirst, EachOnce
  <2> QED
    BY <2>1, <2>2, <2>3 DEF IInv
<1>2. IInv /\ [Next]_vars => IInv'
  <2> SUFFICES ASSUME IInv, [Next]_vars PROVE IInv'
    OBVIOUS
  <2>1. CASE Return
    <3>1. TypeOK' /\ Names'
      BY <2>1 DEF Return, IInv, TypeOK, Names
    <3>2. Calls' /\ Appended' /\ DependenciesFirst' /\ EachOnce'
      BY <2>1 DEF Return, IInv, Calls, Appended, DependenciesFirst, EachOnce
    <3>3. Accounted' /\ Refused'
      BY <2>1 DEF Return, IInv, Accounted, Visiting, Refused
    <3> QED
      BY <3>1, <3>2, <3>3 DEF IInv
  <2>2. CASE UNCHANGED vars
    <3>1. TypeOK' /\ Names' /\ Calls' /\ Appended'
      BY <2>2 DEF vars, IInv, TypeOK, Names, Calls, Appended
    <3>2. DependenciesFirst' /\ EachOnce' /\ Accounted' /\ Refused'
      BY <2>2 DEF vars, IInv, DependenciesFirst, EachOnce, Accounted, Visiting, Refused, Cyclic,
                  Circle
    <3> QED
      BY <3>1, <3>2 DEF IInv
  <2> QED
    BY <2>1, <2>2, CheckNamesKeeps, VisitNextKeeps, VisitDependencyKeeps, RaiseCycleKeeps, LeaveKeeps
       DEF Next, Ended
<1> QED
  BY <1>1, <1>2, PTL DEF Spec

\* In every order the walk builds, dependencies come first: recovery_order and
\* dependency_order, for contracts of any size and shape.
THEOREM InOrder == Spec => []DependenciesFirst
BY Inductive, PTL DEF IInv

\* No component is ordered twice, for contracts of any size and shape.
THEOREM NoneTwice == Spec => []EachOnce
BY Inductive, PTL DEF IInv

\* An order in which dependencies come first leaves no circle: its first member
\* depends on one before it.
LEMMA NoCircle ==
    ASSUME order \in Seq(Components), DependenciesFirst,
           {order[i] : i \in DOMAIN order} = Components
    PROVE  ~Cyclic
<1> SUFFICES ASSUME NEW S \in SUBSET Components, Circle(S) PROVE FALSE
  BY DEF Cyclic
<1> DEFINE T == {i \in DOMAIN order : order[i] \in S}
<1>1. DOMAIN order \subseteq Nat /\ T \subseteq Nat
  OBVIOUS
<1>2. T # {}
  BY DEF Circle
<1>3. PICK i \in T : \A j \in T : ~(<<j, i>> \in OpToRel(<, Nat))
  <2> HIDE DEF T
  <2> QED
    BY <1>1, <1>2, NatLessThanWellFounded, WFMin, Zenon
<1>4. PICK d \in deps[order[i]] : d \in S
  BY <1>3 DEF Circle
<1>5. PICK j \in 1..(i - 1) : order[j] = d
  BY <1>3, <1>4 DEF DependenciesFirst
<1>6. j \in T /\ j < i
  BY <1>1, <1>4, <1>5
<1>7. j \in Nat /\ i \in Nat
  BY <1>1, <1>3, <1>6
<1>8. <<j, i>> \in OpToRel(<, Nat)
  <2> HIDE DEF T
  <2> QED
    BY <1>6, <1>7, Zenon DEF OpToRel
<1> QED
  BY <1>3, <1>6, <1>8

\* The walk refuses exactly the contracts that have no order, and orders all
\* components of the others.
THEOREM RightAnswer == Spec => []AnswersRight
<1>1. IInv => AnswersRight
  <2> SUFFICES ASSUME IInv PROVE AnswersRight
    OBVIOUS
  <2>1. CASE outcome = "done"
    <3>1. Visiting = {} /\ left = {}
      BY <2>1 DEF IInv, Accounted, Visiting
    <3>2. {order[i] : i \in DOMAIN order} = Components
      BY <2>1, <3>1 DEF IInv, Accounted, Appended, TypeOK
    <3> QED
      BY <2>1, <3>2, NoCircle DEF IInv, TypeOK, AnswersRight
  <2>2. CASE outcome # "done"
    BY <2>2 DEF IInv, Refused, AnswersRight
  <2> QED
    BY <2>1, <2>2
<1> QED
  BY <1>1, Inductive, PTL

\* The order of a recovery or a migration is right, for every contract.
THEOREM RightOrder == Spec => []OrderIsRight
<1>1. DependenciesFirst /\ EachOnce /\ AnswersRight => OrderIsRight
  BY DEF OrderIsRight
<1>2. QED
  BY <1>1, InOrder, NoneTwice, RightAnswer, PTL

-----------------------------------------------------------------------------
(* Migration waves *)

LEMMA WavesWalk == WaveSpec => Spec
<1>1. [(Next /\ UNCHANGED waveVars) \/ WaveNext]_<<vars, waveVars>> => [Next]_vars
  BY DEF WaveNext, Rehearse, EvaluateMigration, vars
<1> QED
  BY <1>1, PTL DEF WaveSpec, Spec

\* The last of the first n rehearsals that was of this asset passed.
PassedLast(n, c) ==
    \E i \in 1..n :
        /\ rehearsals[i].asset = c /\ Rehearsed(rehearsals[i])
        /\ \A j \in (i + 1)..n : rehearsals[j].asset # c

Approved(approvals) == WaveApprovers \subseteq approvals

\* When a report is made the walk is over, and the report tells what the file
\* held by then.
WaveTells ==
    /\ rehearsals \in Seq(Evidence)
    /\ wave # NoWave =>
         /\ outcome = "done"
         /\ wave.seen \in 0..Len(rehearsals)
         /\ wave.eligible <=> /\ \A c \in Components : PassedLast(wave.seen, c)
                              /\ Approved(wave.approvals)

\* Of some places in a file, one is the last.
LEMMA OneIsLast ==
    ASSUME NEW n \in Nat, NEW S \in SUBSET (1..n), S # {}
    PROVE  Max(S) \in S /\ \A j \in S : j <= Max(S)
<1>1. IsFiniteSet(1..n)
  BY FS_Interval
<1>2. IsFiniteSet(S)
  BY <1>1, FS_Subset
<1>3. S \in SUBSET Int
  OBVIOUS
<1> QED
  BY <1>2, <1>3, Extremes

\* The dictionary of evidence holds the last rehearsal of each asset.
LEMMA LatestDecides ==
    ASSUME rehearsals \in Seq(Evidence), NEW c, NEW approvals
    PROVE  MayCutOver(Latest(c), approvals)
           <=> PassedLast(Len(rehearsals), c) /\ Approved(approvals)
<1> DEFINE n == Len(rehearsals)
           S == RehearsalsOf(c)
<1>1. n \in Nat /\ DOMAIN rehearsals = 1..n
  OBVIOUS
<1>2. S \in SUBSET (1..n) /\ \A i \in 1..n : i \in S <=> rehearsals[i].asset = c
  BY <1>1 DEF RehearsalsOf
<1>3. Latest(c) = IF S = {} THEN Missing ELSE rehearsals[Max(S)]
  BY DEF Latest
<1> HIDE DEF n, S
<1>4. CASE S = {}
  <2>1. ~PassedLast(n, c)
    BY <1>2, <1>4 DEF PassedLast
  <2> QED
    BY <1>3, <1>4, <2>1 DEF MayCutOver, n
<1>5. CASE S # {}
  <2>1. Max(S) \in S /\ \A j \in S : j <= Max(S)
    BY <1>1, <1>2, <1>5, OneIsLast
  <2> DEFINE m == Max(S)
  <2>2. m \in 1..n /\ rehearsals[m].asset = c /\ Latest(c) = rehearsals[m]
    BY <1>2, <1>3, <1>5, <2>1
  <2>3. \A j \in (m + 1)..n : rehearsals[j].asset # c
    BY <1>1, <1>2, <2>1, <2>2
  <2>4. Latest(c) # Missing
    BY <1>1, <2>2, EvidenceAssumption
  <2>5. \A i \in 1..n : rehearsals[i].asset = c => i <= m
    BY <1>2, <2>1
  <2> HIDE DEF m
  <2>6. PassedLast(n, c) <=> Rehearsed(rehearsals[m])
    <3>1. ASSUME NEW i \in 1..n, rehearsals[i].asset = c, \A j \in (i + 1)..n : rehearsals[j].asset # c
          PROVE  i = m
      <4>1. i <= m
        BY <2>5, <3>1
      <4>2. ~(i < m)
        BY <1>1, <2>2, <3>1
      <4> QED
        BY <1>1, <2>2, <4>1, <4>2
    <3> QED
      BY <2>2, <2>3, <3>1 DEF PassedLast
  <2> QED
    BY <2>2, <2>4, <2>6 DEF MayCutOver, Approved, n
<1> QED
  BY <1>4, <1>5

\* What a report of the wave says.
LEMMA ReportOfWave ==
    ASSUME OrderIsRight, WaveTells, NEW estate, NEW a, EvaluateMigration(estate, a)
    PROVE  /\ outcome = "done" /\ UNCHANGED <<vars, rehearsals>>
           /\ wave'.seen = Len(rehearsals) /\ wave'.approvals = a
           /\ wave'.eligible <=> /\ \A c \in Components : PassedLast(Len(rehearsals), c)
                                 /\ Approved(a)
<1>1. /\ outcome = "done" /\ Components # {} /\ UNCHANGED <<vars, rehearsals>>
      /\ wave'.seen = Len(rehearsals) /\ wave'.approvals = a
      /\ wave'.eligible = \A i \in DOMAIN order : MayCutOver(Latest(order[i]), a)
  BY DEF EvaluateMigration
<1>2. /\ \A c \in Components : \E i \in DOMAIN order : order[i] = c
      /\ \A i \in DOMAIN order : order[i] \in Components
  BY <1>1 DEF OrderIsRight, AnswersRight
<1>3. \A c : MayCutOver(Latest(c), a) <=> PassedLast(Len(rehearsals), c) /\ Approved(a)
  BY LatestDecides DEF WaveTells
<1>4. wave'.eligible <=> \A c \in Components : PassedLast(Len(rehearsals), c) /\ Approved(a)
  BY <1>1, <1>2, <1>3
<1> QED
  BY <1>1, <1>4

LEMMA WaveTellsAlways == WaveSpec => []WaveTells
<1>1. Init /\ WaveInit => WaveTells
  BY DEF WaveInit, WaveTells
<1>2. /\ OrderIsRight /\ WaveTells
      /\ [(Next /\ UNCHANGED waveVars) \/ WaveNext]_<<vars, waveVars>>
      => WaveTells'
  <2> SUFFICES ASSUME OrderIsRight, WaveTells,
                      [(Next /\ UNCHANGED waveVars) \/ WaveNext]_<<vars, waveVars>>
               PROVE  WaveTells'
    OBVIOUS
  <2>1. ASSUME UNCHANGED <<vars, waveVars>> PROVE WaveTells'
    BY <2>1 DEF WaveTells, PassedLast, Components, vars, waveVars
  <2>2. ASSUME Next, UNCHANGED waveVars PROVE WaveTells'
    <3>1. CASE wave = NoWave
      BY <2>2, <3>1 DEF WaveTells, waveVars
    <3>2. CASE wave # NoWave
      <4>1. outcome = "done"
        BY <3>2 DEF WaveTells
      <4>2. UNCHANGED vars
        BY <2>2, <4>1
           DEF Next, CheckNames, VisitNext, VisitDependency, RaiseCycle, Leave, Return, Ended
      <4> QED
        BY <2>1, <2>2, <4>2
    <3> QED
      BY <3>1, <3>2
  <2>3. ASSUME NEW e \in Evidence, Rehearse(e) PROVE WaveTells'
    <3>1. /\ rehearsals' = Append(rehearsals, e) /\ rehearsals \in Seq(Evidence)
          /\ UNCHANGED <<vars, wave>>
      BY <2>3 DEF Rehearse, WaveTells
    <3>2. /\ rehearsals' \in Seq(Evidence) /\ Len(rehearsals') = Len(rehearsals) + 1
          /\ Len(rehearsals) \in Nat
          /\ \A i \in 1..Len(rehearsals) : rehearsals'[i] = rehearsals[i]
      BY <3>1
    <3>3. ASSUME wave # NoWave
          PROVE  /\ outcome' = "done" /\ wave'.seen \in 0..Len(rehearsals')
                 /\ wave'.eligible <=> /\ \A c \in Components : PassedLast(wave.seen, c)'
                                       /\ Approved(wave'.approvals)
      <4>1. /\ wave.seen \in 0..Len(rehearsals) /\ outcome = "done"
            /\ wave.eligible <=> /\ \A c \in Components : PassedLast(wave.seen, c)
                                 /\ Approved(wave.approvals)
        BY <3>3 DEF WaveTells
      <4>2. \A c : PassedLast(wave.seen, c)' <=> PassedLast(wave.seen, c)
        <5>1. \A i \in 1..wave.seen : /\ rehearsals'[i] = rehearsals[i]
                                      /\ \A j \in (i + 1)..wave.seen : rehearsals'[j] = rehearsals[j]
          BY <3>2, <4>1
        <5>2. wave' = wave
          BY <3>1
        <5> QED
          BY <5>1, <5>2 DEF PassedLast, Rehearsed
      <4> QED
        BY <3>1, <3>2, <4>1, <4>2 DEF vars
    <3> QED
      BY <3>1, <3>2, <3>3 DEF WaveTells
  <2>4. ASSUME NEW estate, NEW a, EvaluateMigration(estate, a) PROVE WaveTells'
    <3>1. /\ outcome = "done" /\ outcome' = outcome /\ rehearsals' = rehearsals
          /\ wave'.seen = Len(rehearsals) /\ wave'.approvals = a
          /\ wave'.eligible <=> /\ \A c \in Components : PassedLast(Len(rehearsals), c)
                                /\ Approved(a)
      BY <2>4, ReportOfWave DEF vars
    <3>2. \A c : PassedLast(wave.seen, c)' <=> PassedLast(Len(rehearsals), c)
      BY <3>1 DEF PassedLast, Rehearsed
    <3>3. rehearsals \in Seq(Evidence) /\ Len(rehearsals) \in 0..Len(rehearsals)
      BY DEF WaveTells
    <3> QED
      BY <3>1, <3>2, <3>3 DEF WaveTells
  <2> QED
    BY <2>1, <2>2, <2>3, <2>4 DEF WaveNext
<1> QED
  BY <1>1, <1>2, WavesWalk, RightOrder, PTL DEF WaveSpec

\* For any assets and dependencies, candidates, approvers, limits and
\* rehearsals in any number and order, a wave turns from report to report for
\* cause: what failed since and was not passed again, and nothing else, blocks
\* it, and what blocked it is passed or approved before it is eligible.
THEOREM WavesTurnForCause == WaveSpec => WaveTurnsForCause
<1> DEFINE A == wave # NoWave /\ wave' # wave =>
         /\ wave.eligible /\ wave.approvals \subseteq wave'.approvals =>
              (wave'.eligible <=> \A i \in Unseen : Rehearsed(rehearsals[i]))
         /\ ~wave.eligible /\ wave'.eligible =>
              \/ \E i \in Unseen : Rehearsed(rehearsals[i])
              \/ ~(wave'.approvals \subseteq wave.approvals)
<1>1. ASSUME OrderIsRight, WaveTells, wave # NoWave,
             NEW estate, NEW a, EvaluateMigration(estate, a)
      PROVE  A
  <2> DEFINE n == wave.seen
             m == Len(rehearsals)
  <2>1. /\ n \in 0..m /\ m \in Nat
        /\ wave.eligible <=> (\A c \in Components : PassedLast(n, c)) /\ Approved(wave.approvals)
    BY <1>1 DEF WaveTells
  <2>2. /\ wave'.approvals = a
        /\ wave'.eligible <=> (\A c \in Components : PassedLast(m, c)) /\ Approved(a)
    BY <1>1, ReportOfWave
  <2>3. Unseen = {i \in (n + 1)..m : /\ rehearsals[i].asset \in Components
                                     /\ \A j \in (i + 1)..m : rehearsals[j].asset # rehearsals[i].asset}
    BY DEF Unseen
  <2> HIDE DEF n, m
  <2>4. ASSUME NEW i \in Unseen, PassedLast(m, rehearsals[i].asset) PROVE Rehearsed(rehearsals[i])
    <3>1. /\ i \in (n + 1)..m
          /\ \A j \in (i + 1)..m : rehearsals[j].asset # rehearsals[i].asset
      BY <2>3
    <3>2. PICK k \in 1..m :
             /\ rehearsals[k].asset = rehearsals[i].asset /\ Rehearsed(rehearsals[k])
             /\ \A j \in (k + 1)..m : rehearsals[j].asset # rehearsals[i].asset
      BY <2>4 DEF PassedLast
    <3>3. ~(k > i) /\ ~(i > k)
      BY <2>1, <3>1, <3>2
    <3>4. k = i
      BY <2>1, <3>1, <3>3
    <3> QED
      BY <3>2, <3>4
  <2>5. ASSUME NEW c \in Components, PassedLast(n, c), \A i \in Unseen : Rehearsed(rehearsals[i])
        PROVE  PassedLast(m, c)
    <3> DEFINE S == {i \in (n + 1)..m : rehearsals[i].asset = c}
    <3>1. CASE S = {}
      <4>1. PICK i \in 1..n :
               /\ rehearsals[i].asset = c /\ Rehearsed(rehearsals[i])
               /\ \A j \in (i + 1)..n : rehearsals[j].asset # c
        BY <2>5 DEF PassedLast
      <4>2. ASSUME NEW j \in (i + 1)..m PROVE rehearsals[j].asset # c
        <5>1. j \in (i + 1)..n \/ j \in (n + 1)..m
          BY <2>1, <4>1
        <5> QED
          BY <3>1, <4>1, <5>1
      <4>3. i \in 1..m
        BY <2>1
      <4> QED
        BY <4>1, <4>2, <4>3 DEF PassedLast
    <3>2. CASE S # {}
      <4>1. S \in SUBSET (1..m)
        BY <2>1
      <4> DEFINE i == Max(S)
      <4>2. i \in S /\ \A j \in S : j <= i
        <5> HIDE DEF S
        <5> QED
          BY <2>1, <3>2, <4>1, OneIsLast
      <4> HIDE DEF i
      <4>3. i \in (n + 1)..m /\ rehearsals[i].asset = c
        BY <4>2
      <4>4. \A j \in (i + 1)..m : rehearsals[j].asset # c
        BY <2>1, <4>2, <4>3
      <4>5. i \in Unseen
        BY <2>3, <4>3, <4>4
      <4>6. Rehearsed(rehearsals[i]) /\ i \in 1..m
        BY <2>1, <2>5, <4>3, <4>5
      <4> QED
        BY <4>3, <4>4, <4>6 DEF PassedLast
    <3> QED
      BY <3>1, <3>2
  <2>6. ASSUME NEW c \in Components, PassedLast(m, c), ~PassedLast(n, c)
        PROVE  \E i \in Unseen : Rehearsed(rehearsals[i])
    <3>1. PICK i \in 1..m :
             /\ rehearsals[i].asset = c /\ Rehearsed(rehearsals[i])
             /\ \A j \in (i + 1)..m : rehearsals[j].asset # c
      BY <2>6 DEF PassedLast
    <3>2. \A j \in (i + 1)..n : j \in (i + 1)..m
      BY <2>1, <3>1
    <3>3. i \notin 1..n
      BY <2>6, <3>1, <3>2 DEF PassedLast
    <3>4. i \in (n + 1)..m
      BY <2>1, <3>1, <3>3
    <3> QED
      BY <2>3, <3>1, <3>4
  <2>7. ASSUME wave.eligible, wave.approvals \subseteq wave'.approvals
        PROVE  wave'.eligible <=> \A i \in Unseen : Rehearsed(rehearsals[i])
    <3>1. Approved(a) /\ \A c \in Components : PassedLast(n, c)
      BY <2>1, <2>2, <2>7 DEF Approved
    <3>2. \A i \in Unseen : rehearsals[i].asset \in Components
      BY <2>3
    <3> QED
      BY <2>2, <2>4, <2>5, <3>1, <3>2
  <2>8. ASSUME ~wave.eligible, wave'.eligible, wave'.approvals \subseteq wave.approvals
        PROVE  \E i \in Unseen : Rehearsed(rehearsals[i])
    <3>1. Approved(wave.approvals) /\ \A c \in Components : PassedLast(m, c)
      BY <2>2, <2>8 DEF Approved
    <3>2. PICK c \in Components : ~PassedLast(n, c)
      BY <2>1, <2>8, <3>1
    <3> QED
      BY <2>6, <3>1, <3>2
  <2> QED
    BY <2>7, <2>8
<1>2. /\ OrderIsRight /\ WaveTells
      /\ [(Next /\ UNCHANGED waveVars) \/ WaveNext]_<<vars, waveVars>>
      => [A]_waveVars
  <2> SUFFICES ASSUME OrderIsRight, WaveTells, wave # NoWave, wave' # wave,
                      [(Next /\ UNCHANGED waveVars) \/ WaveNext]_<<vars, waveVars>>
               PROVE  A
    BY DEF waveVars
  <2> HIDE DEF A
  <2>1. \E estate \in Estates, a \in SUBSET WaveApprovers : EvaluateMigration(estate, a)
    BY DEF WaveNext, Rehearse, waveVars
  <2> QED
    BY <1>1, <2>1
<1> QED
  BY <1>2, WaveTellsAlways, WavesWalk, RightOrder, PTL DEF WaveSpec, WaveTurnsForCause

-----------------------------------------------------------------------------
(* Recovery drills *)

LEMMA DrillsWalk == DrillSpec => Spec
<1>1. [(Next /\ UNCHANGED drill) \/ DrillNext]_<<vars, drill>> => [Next]_vars
  BY DEF DrillNext, EvaluateDrill, vars
<1> QED
  BY <1>1, PTL DEF DrillSpec, Spec

\* When a report is made the walk is over; "passed" is what the report found.
PassedMeans ==
    drill # NoDrill =>
        /\ outcome = "done" /\ drill.events \in Seq(DrillEvent)
        /\ drill.passed => /\ \A c \in Components : Recovered(drill.events, c)
                           /\ ActualRto(drill.events) <= Rto /\ ActualRpo(drill.events) <= Rpo

\* The last event of a component that was tried.
LEMMA LastEvent ==
    ASSUME NEW events \in Seq(DrillEvent), NEW c, Tried(events, c) # {}
    PROVE  /\ EventOf(events, c) \in DrillEvent
           /\ \E i \in DOMAIN events : EventOf(events, c) = events[i]
<1>1. DOMAIN events = 1..Len(events) /\ Len(events) \in Nat
  OBVIOUS
<1>2. Tried(events, c) \in SUBSET Int /\ IsFiniteSet(Tried(events, c))
  <2>1. Tried(events, c) \subseteq 1..Len(events)
    BY <1>1 DEF Tried
  <2>2. IsFiniteSet(1..Len(events))
    BY <1>1, FS_Interval
  <2>3. IsFiniteSet(Tried(events, c))
    BY <2>1, <2>2, FS_Subset
  <2>4. Tried(events, c) \subseteq Int
    BY <2>1
  <2> QED
    BY <2>3, <2>4
<1>3. Max(Tried(events, c)) \in Tried(events, c)
  BY <1>2, Extremes
<1>4. Tried(events, c) \subseteq DOMAIN events
  BY DEF Tried
<1>5. \A i \in DOMAIN events : events[i] \in DrillEvent
  BY <1>1
<1> QED
  BY <1>3, <1>4, <1>5 DEF EventOf

\* In a drill that passed, what a component cannot do without was recovered when
\* it was started, at any distance: the dependencies of what was recovered by
\* then were recovered by then.
LEMMA InTime ==
    ASSUME IInv, PassedMeans, Passed,
           \A i \in DOMAIN drill.events : drill.events[i].started <= drill.events[i].completed,
           NEW c \in Components
    PROVE  \A d \in Needs(c) : EventOf(drill.events, d).completed <= EventOf(drill.events, c).started
<1> DEFINE events == drill.events
           S == {d \in Components : EventOf(events, d).completed <= EventOf(events, c).started}
<1>1. events \in Seq(DrillEvent) /\ \A x \in Components : Recovered(events, x) /\ deps[x] \subseteq Components
  BY DEF Passed, PassedMeans, IInv, Names
<1>2. \A x \in Components : /\ EventOf(events, x) \in DrillEvent
                            /\ EventOf(events, x).started <= EventOf(events, x).completed
  <2> SUFFICES ASSUME NEW x \in Components
               PROVE  /\ EventOf(events, x) \in DrillEvent
                      /\ EventOf(events, x).started <= EventOf(events, x).completed
    OBVIOUS
  <2>1. Tried(events, x) # {}
    BY <1>1 DEF Recovered
  <2>2. EventOf(events, x) \in DrillEvent /\ \E i \in DOMAIN events : EventOf(events, x) = events[i]
    <3> HIDE DEF events
    <3> QED
      BY <1>1, <2>1, LastEvent
  <2> QED
    BY <2>2
<1>3. \A x \in Components : \A y \in deps[x] :
        EventOf(events, y).completed <= EventOf(events, x).started
  <2> SUFFICES ASSUME NEW x \in Components, NEW y \in deps[x]
               PROVE  EventOf(events, y).completed <= EventOf(events, x).started
    OBVIOUS
  <2> HIDE DEF events
  <2>1. y \in Components
    BY <1>1
  <2>2. Tried(events, y) # {} /\ Recovered(events, x)
    BY <1>1, <2>1 DEF Recovered
  <2>3. EventOf(events, x).started >= EventOf(events, y).completed
    BY <2>2 DEF Recovered
  <2>4. EventOf(events, x).started \in Int /\ EventOf(events, y).completed \in Int
    BY <1>2, <2>1 DEF DrillEvent
  <2> QED
    BY <2>3, <2>4
<1> HIDE DEF events
<1>4. deps[c] \subseteq S
  BY <1>1, <1>3
<1>5. ASSUME NEW x \in S, NEW y \in deps[x] PROVE y \in S
  <2>1. x \in Components /\ y \in Components
    BY <1>1
  <2>2. /\ EventOf(events, y).completed <= EventOf(events, x).started
        /\ EventOf(events, x).started <= EventOf(events, x).completed
        /\ EventOf(events, x).completed <= EventOf(events, c).started
    BY <1>2, <1>3, <2>1
  <2>3. /\ EventOf(events, y).completed \in Int /\ EventOf(events, x).started \in Int
        /\ EventOf(events, x).completed \in Int /\ EventOf(events, c).started \in Int
    BY <1>2, <2>1 DEF DrillEvent
  <2> QED
    BY <2>1, <2>2, <2>3
<1>6. S \in SUBSET Components
  OBVIOUS
<1>7. Needs(c) \subseteq S
  <2> HIDE DEF S
  <2> QED
    BY <1>4, <1>5, <1>6 DEF Needs
<1> QED
  BY <1>7 DEF events

\* The maximum over the file bounds each of its events.
LEMMA MaximumBounds ==
    ASSUME NEW events \in Seq(DrillEvent), ActualRto(events) <= Rto, ActualRpo(events) <= Rpo,
           NEW i \in DOMAIN events
    PROVE  events[i].completed <= Rto /\ events[i].age <= Rpo
<1> DEFINE completed == [j \in DOMAIN events |-> events[j].completed]
           age == [j \in DOMAIN events |-> events[j].age]
<1>1. /\ DOMAIN events = 1..Len(events) /\ Len(events) \in Nat
      /\ \A j \in DOMAIN events : events[j] \in DrillEvent
      /\ events # <<>>
  OBVIOUS
<1>2. IsFiniteSet(DOMAIN events)
  BY <1>1, FS_Interval
<1>3. \A j \in DOMAIN events : events[j].completed \in Int /\ events[j].age \in Int
  BY <1>1 DEF DrillEvent
<1>4. ASSUME NEW f, \A j \in DOMAIN events : f[j] \in Int
      PROVE  /\ Max({f[j] : j \in DOMAIN events}) \in Int
             /\ f[i] <= Max({f[j] : j \in DOMAIN events})
  <2> DEFINE T == {f[j] : j \in DOMAIN events}
  <2>1. T \in SUBSET Int /\ T # {} /\ f[i] \in T
    BY <1>4
  <2>2. IsFiniteSet(T)
    BY <1>2, ImageIsFinite
  <2> HIDE DEF T
  <2>3. Max(T) \in T /\ f[i] <= Max(T)
    BY <2>1, <2>2, Extremes
  <2>4. Max(T) \in Int
    BY <2>1, <2>3
  <2> QED
    BY <2>3, <2>4 DEF T
<1>5. /\ {events[j].completed : j \in DOMAIN events} = {completed[j] : j \in DOMAIN events}
      /\ {events[j].age : j \in DOMAIN events} = {age[j] : j \in DOMAIN events}
  OBVIOUS
<1>6. /\ ActualRto(events) = Max({completed[j] : j \in DOMAIN events})
      /\ ActualRpo(events) = Max({age[j] : j \in DOMAIN events})
  BY <1>1, <1>5 DEF ActualRto, ActualRpo
<1>7. /\ \A j \in DOMAIN events : completed[j] \in Int /\ age[j] \in Int
      /\ completed[i] = events[i].completed /\ age[i] = events[i].age
  BY <1>3
<1> HIDE DEF completed, age
<1>8. /\ ActualRto(events) \in Int /\ completed[i] <= ActualRto(events)
      /\ ActualRpo(events) \in Int /\ age[i] <= ActualRpo(events)
  BY <1>4, <1>6, <1>7
<1> QED
  BY <1>7, <1>8, DrillAssumption

\* For contracts and event files of any size: a drill that passed kept the order
\* at any distance, and hides no try that came too late.
THEOREM DrillsAreEarned == DrillSpec => []DrillIsEarned
<1>1. Init /\ DrillInit => PassedMeans
  BY DEF DrillInit, PassedMeans
<1>2. PassedMeans /\ [(Next /\ UNCHANGED drill) \/ DrillNext]_<<vars, drill>> => PassedMeans'
  <2> SUFFICES ASSUME PassedMeans, [(Next /\ UNCHANGED drill) \/ DrillNext]_<<vars, drill>>
               PROVE  PassedMeans'
    OBVIOUS
  <2>1. ASSUME UNCHANGED <<vars, drill>> PROVE PassedMeans'
    <3>1. drill' = drill /\ deps' = deps /\ outcome' = outcome
      BY <2>1 DEF vars
    <3>2. \A c \in Components : Recovered(drill.events, c)' <=> Recovered(drill.events, c)
      BY <3>1 DEF Recovered, Tried, EventOf
    <3>3. /\ ActualRto(drill.events)' = ActualRto(drill.events)
          /\ ActualRpo(drill.events)' = ActualRpo(drill.events)
      BY <3>1 DEF ActualRto, ActualRpo
    <3> QED
      BY <3>1, <3>2, <3>3 DEF PassedMeans
  <2>2. CASE Next /\ UNCHANGED drill
    <3>1. CASE drill = NoDrill
      BY <2>2, <3>1 DEF PassedMeans
    <3>2. CASE drill # NoDrill
      <4>1. outcome = "done"
        BY <3>2 DEF PassedMeans
      <4> QED
        BY <2>1, <2>2, <4>1
           DEF Next, CheckNames, VisitNext, VisitDependency, RaiseCycle, Leave, Return, Ended
    <3> QED
      BY <3>1, <3>2
  <2>3. ASSUME NEW events \in DrillFiles, NEW i \in BOOLEAN, NEW f \in BOOLEAN,
               NEW a \in SUBSET DrillApprovers, EvaluateDrill(events, i, f, a)
        PROVE  PassedMeans'
    <3>1. outcome = "done" /\ UNCHANGED vars
      BY <2>3 DEF EvaluateDrill
    <3>2. events \in Seq(DrillEvent)
      BY DrillAssumption
    <3>3. /\ drill'.events = events
          /\ drill'.passed => /\ \A c \in Components : Recovered(events, c)
                              /\ ActualRto(events) <= Rto /\ ActualRpo(events) <= Rpo
      BY <2>3 DEF EvaluateDrill
    <3>4. \A c \in Components : Recovered(events, c) <=> Recovered(drill.events, c)'
      BY <3>1, <3>3 DEF Recovered, Tried, EventOf, vars
    <3> QED
      BY <3>1, <3>2, <3>3, <3>4 DEF PassedMeans, vars
  <2> QED
    BY <2>1, <2>2, <2>3 DEF DrillNext
<1>3. IInv /\ PassedMeans => DrillIsEarned
  <2> SUFFICES ASSUME IInv, PassedMeans PROVE DrillIsEarned
    OBVIOUS
  <2>1. PassedInOrder
    BY InTime DEF PassedInOrder
  <2>2. EveryTryInTime
    BY MaximumBounds DEF EveryTryInTime, Passed, PassedMeans
  <2> QED
    BY <2>1, <2>2 DEF DrillIsEarned
<1> QED
  BY <1>1, <1>2, <1>3, DrillsWalk, Inductive, PTL DEF DrillSpec

-----------------------------------------------------------------------------
(* Network changes *)

\* Intents that held ever since hold in what the file says of the paths as they
\* were, and an eligible plan was compared with such a file.
Protected ==
    /\ kept \subseteq Flows
    /\ kept \cap DOMAIN current \subseteq Passing(current)
    /\ clearance # NoClearance /\ clearance.eligible => kept \subseteq Passing(clearance.plan)

\* For any intents and topologies, and however the network drifts between the
\* observation, the analysis, the clearance and its deployments.
THEOREM KeptIntentsAreKept == NetworkSpec => []KeptIntentsHold
<1> DEFINE Inv == Protected /\ KeptIntentsHold
<1>1. NetworkInit => Inv
  BY TopologyAssumption DEF NetworkInit, Protected, KeptIntentsHold, Passing
<1>2. Inv /\ [NetworkNext]_networkVars => Inv'
  <2> SUFFICES ASSUME Protected, KeptIntentsHold, [NetworkNext]_networkVars
               PROVE  Protected' /\ KeptIntentsHold'
    OBVIOUS
  <2> USE DEF Protected, KeptIntentsHold
  <2>1. ASSUME NEW some \in SUBSET Flows, ObserveCurrent(some)
        PROVE  Protected' /\ KeptIntentsHold'
    <3>1. DOMAIN current' = some /\ \A f \in some : current'[f] = network[f]
      BY <2>1 DEF ObserveCurrent, Recorded
    <3>2. kept \cap some \subseteq Passing(current')
      BY <3>1 DEF Passing
    <3> QED
      BY <2>1, <3>1, <3>2 DEF ObserveCurrent, Passing
  <2>2. ASSUME NEW paths \in Topologies, NEW some \in SUBSET Flows, Analyse(paths, some)
        PROVE  Protected' /\ KeptIntentsHold'
    BY <2>2 DEF Analyse, Passing
  <2>3. ASSUME NEW paths \in Topologies, Drift(paths)
        PROVE  Protected' /\ KeptIntentsHold'
    BY <2>3 DEF Drift, Passing
  <2>4. ASSUME NEW a \in SUBSET NetworkApprovers, EvaluateNetworkChange(a)
        PROVE  Protected' /\ KeptIntentsHold'
    <3>1. clearance'.eligible => kept \subseteq Passing(clearance'.plan)
      BY <2>4 DEF EvaluateNetworkChange, Regressions
    <3> QED
      BY <2>4, <3>1 DEF EvaluateNetworkChange, Passing
  <2>5. CASE Deploy
    BY <2>5 DEF Deploy, Passing
  <2>6. CASE UNCHANGED networkVars
    BY <2>6 DEF networkVars, Passing
  <2> QED
    BY <2>1, <2>2, <2>3, <2>4, <2>5, <2>6 DEF NetworkNext
<1> QED
  BY <1>1, <1>2, PTL DEF NetworkSpec

-----------------------------------------------------------------------------
(* Drill evidence *)

\* Rounding up never makes a threshold pass.
LEMMA RoundedUp ==
    ASSUME NEW t \in Int, NEW limit \in Int, Seconds(t) <= limit
    PROVE  t <= limit * TicksPerSecond
<1> DEFINE q == (t + TicksPerSecond - 1) \div TicksPerSecond
           r == (t + TicksPerSecond - 1) % TicksPerSecond
<1>1. TicksPerSecond \in Nat /\ TicksPerSecond > 0
  BY ClockAssumption
<1>2. q \in Int /\ r \in Int /\ r <= TicksPerSecond - 1 /\ t + TicksPerSecond - 1 = TicksPerSecond * q + r
  BY <1>1
<1>3. q <= limit
  BY DEF Seconds
<1> HIDE DEF q, r
<1>4. TicksPerSecond * q <= TicksPerSecond * limit
  <2>1. limit - q \in Nat
    BY <1>2, <1>3
  <2>2. TicksPerSecond * (limit - q) \in Nat
    BY <1>1, <2>1
  <2>3. TicksPerSecond * (limit - q) = TicksPerSecond * limit - TicksPerSecond * q
    BY <1>1, <1>2
  <2>4. TicksPerSecond * limit \in Int /\ TicksPerSecond * q \in Int
    BY <1>1, <1>2
  <2> QED
    BY <2>2, <2>3, <2>4
<1> QED
  BY <1>1, <1>2, <1>4

\* Clock times are ordered, and an answer "passed" is of this drill or is as old
\* as its beginning.
Dated ==
    /\ ticks \in Nat
    /\ restore # Never =>
         /\ restore \in [point : Int, started : Int, restored : Int \cup {Never}, cleaned : Int \cup {Never}]
         /\ restore.started <= ticks
         /\ restore.restored # Never => restore.started < restore.restored
    /\ answer # Never => /\ answer.checked \in Int /\ answer.checked <= ticks
                         /\ answer.passed => \/ probed = drills
                                             \/ answer.checked <= restore.started

\* For any contract and clock, and however the files of two drills mix.
THEOREM PassesAreEarned == EvidenceSpec => PassIsEarned
<1>1. EvidenceInit => Dated
  BY DEF EvidenceInit, Dated
<1>2. Dated /\ [EvidenceNext]_drillVars => Dated'
  <2> SUFFICES ASSUME Dated, [EvidenceNext]_drillVars PROVE Dated'
    OBVIOUS
  <2>1. CASE PassTick
    BY <2>1 DEF PassTick, Dated
  <2>2. ASSUME NEW point \in 0..ticks, BeginDrill(point) PROVE Dated'
    <3>1. ticks \in Int /\ point \in Int
      BY DEF Dated
    <3> QED
      BY <2>2, <3>1 DEF BeginDrill, Dated
  <2>3. CASE FinishRestore
    <3>1. /\ restore \in [point : Int, started : Int, restored : Int \cup {Never}, cleaned : Int \cup {Never}]
          /\ restore' = [restore EXCEPT !.restored = ticks]
          /\ UNCHANGED <<ticks, answer, drills, probed>>
      BY <2>3 DEF FinishRestore, Dated
    <3>2. /\ restore' \in [point : Int, started : Int, restored : Int \cup {Never}, cleaned : Int \cup {Never}]
          /\ restore'.started = restore.started
          /\ restore'.restored # Never => restore.started < restore'.restored
      BY <2>3, <3>1 DEF FinishRestore, Dated
    <3> QED
      BY <2>3, <3>1, <3>2 DEF FinishRestore, Dated
  <2>4. ASSUME NEW passed \in BOOLEAN, ProbeApplication(passed) PROVE Dated'
    BY <2>4 DEF ProbeApplication, Dated
  <2>5. CASE CleanUp
    <3>1. /\ restore \in [point : Int, started : Int, restored : Int \cup {Never}, cleaned : Int \cup {Never}]
          /\ restore' = [restore EXCEPT !.cleaned = ticks]
          /\ UNCHANGED <<ticks, answer, drills, probed>>
      BY <2>5 DEF CleanUp, Dated, Standing
    <3>2. /\ restore' \in [point : Int, started : Int, restored : Int \cup {Never}, cleaned : Int \cup {Never}]
          /\ restore'.started = restore.started
          /\ restore'.restored # Never => restore.started < restore'.restored
      BY <2>5, <3>1 DEF CleanUp, Dated, Standing
    <3> QED
      BY <2>5, <3>1, <3>2 DEF CleanUp, Dated, Standing
  <2>6. CASE EvaluateEvidence
    BY <2>6 DEF EvaluateEvidence, Dated
  <2>7. CASE UNCHANGED drillVars
    BY <2>7 DEF drillVars, Dated
  <2> QED
    BY <2>1, <2>2, <2>3, <2>4, <2>5, <2>6, <2>7 DEF EvidenceNext
<1>3. Dated /\ [EvidenceNext]_drillVars
      => [result' # Never /\ result' # result /\ result'.passed =>
            /\ answer.checked - restore.started <= RtoSeconds * TicksPerSecond
            /\ restore.started - restore.point <= RpoSeconds * TicksPerSecond
            /\ probed = drills]_drillVars
  <2> SUFFICES ASSUME Dated, EvidenceNext, result' # Never, result' # result, result'.passed
               PROVE  /\ answer.checked - restore.started <= RtoSeconds * TicksPerSecond
                      /\ restore.started - restore.point <= RpoSeconds * TicksPerSecond
                      /\ probed = drills
    BY DEF drillVars
  <2>1. EvaluateEvidence
    BY DEF EvidenceNext, PassTick, BeginDrill, FinishRestore, ProbeApplication, CleanUp
  <2>2. /\ restore # Never /\ restore.restored # Never /\ answer # Never /\ Ordered
        /\ answer.passed
        /\ Seconds(answer.checked - restore.started) <= RtoSeconds
        /\ Seconds(restore.started - restore.point) <= RpoSeconds
    BY <2>1 DEF EvaluateEvidence
  <2>3. /\ restore.point \in Int /\ restore.started \in Int /\ answer.checked \in Int
        /\ restore.restored \in Int /\ restore.started < restore.restored
    BY <2>2 DEF Dated
  <2>4. answer.checked - restore.started <= RtoSeconds * TicksPerSecond
    BY <2>2, <2>3, RoundedUp, ClockAssumption
  <2>5. restore.started - restore.point <= RpoSeconds * TicksPerSecond
    BY <2>2, <2>3, RoundedUp, ClockAssumption
  <2>6. restore.restored <= answer.checked
    BY <2>2 DEF Ordered
  <2>7. ~(answer.checked <= restore.started)
    BY <2>3, <2>6
  <2> QED
    BY <2>2, <2>4, <2>5, <2>7 DEF Dated
<1> QED
  BY <1>1, <1>2, <1>3, PTL DEF EvidenceSpec, PassIsEarned

-----------------------------------------------------------------------------
(* Change rollouts *)

\* The last of the first n observations of a ring is within the limits.
GoodBy(obs, ring, n) ==
    \E k \in 1..n : /\ obs[k].ring = ring /\ WithinLimits(obs[k].measured)
                    /\ \A l \in (k + 1)..n : obs[l].ring # ring

\* What a verdict says of the first n observations.
Follows(v, rings, obs, n) ==
    \/ /\ v.promoted = rings /\ v.halted_at = NoRing
       /\ \A j \in DOMAIN rings : GoodBy(obs, rings[j], n)
    \/ \E i \in DOMAIN rings :
         /\ v.halted_at = rings[i] /\ v.promoted = SubSeq(rings, 1, i - 1)
         /\ ~GoodBy(obs, rings[i], n)
         /\ \A j \in 1..(i - 1) : GoodBy(obs, rings[j], n)

\* The contract the verdict was given on: validate_contract raised nothing.
Judgeable ==
    /\ IsInjective(change.rings)
    /\ change.production => change.rings[1] # "production"

\* The report follows from the observations it has seen, of a contract that is valid.
VerdictFollows ==
    /\ change.rings \in Seq(STRING)
    /\ observations \in Seq([ring : STRING, measured : RingMeasures])
    /\ judged \in 0..Len(observations)
    /\ verdict # NoVerdict => Judgeable /\ Follows(verdict, change.rings, observations, judged)

\* Observations beyond the first n do not matter to what was good by then.
LEMMA GoodIsKept ==
    ASSUME NEW a, NEW b, NEW n \in Nat, \A k \in 1..n : a[k] = b[k]
    PROVE  \A ring : GoodBy(a, ring, n) <=> GoodBy(b, ring, n)
<1>1. \A k \in 1..n : \A l \in (k + 1)..n : l \in 1..n
  OBVIOUS
<1> QED
  BY <1>1 DEF GoodBy

LEMMA PromotableIsGood ==
    ASSUME observations \in Seq([ring : STRING, measured : RingMeasures]), NEW ring
    PROVE  Promotable(ring) <=> GoodBy(observations, ring, Len(observations))
<1> DEFINE n == Len(observations)
<1>1. DOMAIN observations = 1..n /\ n \in Nat
  OBVIOUS
<1>2. \A k \in 1..n : (\A j \in Of(ring) : j <= k) <=> (\A l \in (k + 1)..n : observations[l].ring # ring)
  BY <1>1 DEF Of
<1>3. \A k : k \in Of(ring) <=> k \in 1..n /\ observations[k].ring = ring
  BY <1>1 DEF Of
<1> HIDE DEF n
<1> QED
  BY <1>2, <1>3 DEF Promotable, GoodBy, n

LEMMA VerdictFollowsAlways == ChangeSpec => []VerdictFollows
<1>1. ChangeInit => VerdictFollows
  <2> SUFFICES ASSUME ChangeInit PROVE VerdictFollows
    OBVIOUS
  <2>1. observations = <<>> /\ judged = 0 /\ verdict = NoVerdict /\ change \in Changes
    BY DEF ChangeInit
  <2> QED
    BY <2>1, RingAssumption DEF VerdictFollows
<1>2. VerdictFollows /\ [ChangeNext]_changeVars => VerdictFollows'
  <2> SUFFICES ASSUME VerdictFollows, [ChangeNext]_changeVars PROVE VerdictFollows'
    OBVIOUS
  <2>1. ASSUME NEW ring \in Rings, NEW m \in RingMeasures, Observe(ring, m) PROVE VerdictFollows'
    <3>1. /\ UNCHANGED <<change, verdict, judged>>
          /\ observations' = Append(observations, [ring |-> ring, measured |-> m])
      BY <2>1 DEF Observe
    <3>2. ring \in STRING
      BY DEF Rings, VerdictFollows
    <3>3. /\ observations' \in Seq([ring : STRING, measured : RingMeasures])
          /\ Len(observations') = Len(observations) + 1
          /\ \A k \in 1..Len(observations) : observations'[k] = observations[k]
      BY <3>1, <3>2 DEF VerdictFollows
    <3>4. judged \in Nat /\ judged' \in 0..Len(observations') /\ \A k \in 1..judged : observations'[k] = observations[k]
      BY <3>1, <3>3 DEF VerdictFollows
    <3>5. \A r : GoodBy(observations', r, judged) <=> GoodBy(observations, r, judged)
      BY <3>4, GoodIsKept
    <3>6. verdict # NoVerdict => Follows(verdict, change.rings, observations', judged)
      <4> SUFFICES ASSUME verdict # NoVerdict PROVE Follows(verdict, change.rings, observations', judged)
        OBVIOUS
      <4>1. Follows(verdict, change.rings, observations, judged)
        BY DEF VerdictFollows
      <4> QED
        BY <3>5, <4>1, Zenon DEF Follows
    <3> QED
      BY <3>1, <3>3, <3>4, <3>6 DEF VerdictFollows, Judgeable, IsInjective
  <2>2. ASSUME NEW a \in SUBSET ChangeApprovers, EvaluateRollout(a) PROVE VerdictFollows'
    <3> DEFINE n == Len(observations)
    <3>1. UNCHANGED <<change, observations>> /\ judged' = n /\ n \in 0..n
      BY <2>2 DEF EvaluateRollout, VerdictFollows
    <3>2. Judgeable
      BY <2>2 DEF EvaluateRollout, Valid, Judgeable
    <3>3. \A r : Promotable(r) <=> GoodBy(observations, r, n)
      BY PromotableIsGood DEF VerdictFollows
    <3>4. DOMAIN change.rings = 1..Len(change.rings) /\ Len(change.rings) \in Nat
      BY DEF VerdictFollows
    <3> HIDE DEF n
    <3>5. Follows(verdict', change.rings, observations, n)
      <4>1. CASE Halting = {}
        <5>1. verdict' = [halted_at |-> NoRing, promoted |-> change.rings]
          BY <2>2, <4>1 DEF EvaluateRollout
        <5>2. \A j \in DOMAIN change.rings : Promotable(change.rings[j])
          <6> DEFINE B == {j \in DOMAIN change.rings : ~Promotable(change.rings[j])}
          <6> SUFFICES ASSUME B # {} PROVE FALSE
            OBVIOUS
          <6>1. B \subseteq 1..Len(change.rings)
            BY <3>4
          <6>2. IsFiniteSet(1..Len(change.rings))
            BY <3>4, FS_Interval
          <6>3. B \in SUBSET Int /\ IsFiniteSet(B)
            BY <6>1, <6>2, FS_Subset
          <6>4. PICK k \in B : \A j \in B : k <= j
            <7> HIDE DEF B
            <7> QED
              BY <6>3, Extremes
          <6>5. k \in DOMAIN change.rings /\ ~Promotable(change.rings[k])
            OBVIOUS
          <6>6. \A j \in 1..(k - 1) : Promotable(change.rings[j])
            BY <3>4, <6>4, <6>5
          <6>7. k \in Halting
            BY <6>5, <6>6 DEF Halting
          <6> QED
            BY <4>1, <6>7
        <5> QED
          BY <3>3, <5>1, <5>2 DEF Follows
      <4>2. CASE Halting # {}
        <5> DEFINE i == CHOOSE i \in Halting : TRUE
        <5>1. i \in Halting
          BY <4>2
        <5>2. verdict' = [halted_at |-> change.rings[i], promoted |-> SubSeq(change.rings, 1, i - 1)]
          BY <2>2, <4>2 DEF EvaluateRollout
        <5> HIDE DEF i
        <5>3. /\ i \in DOMAIN change.rings /\ ~Promotable(change.rings[i])
              /\ \A j \in 1..(i - 1) : Promotable(change.rings[j])
          BY <5>1 DEF Halting
        <5> QED
          BY <3>3, <5>2, <5>3 DEF Follows
      <4> QED
        BY <4>1, <4>2
    <3> QED
      BY <3>1, <3>2, <3>5 DEF VerdictFollows, Judgeable, IsInjective, n
  <2>3. CASE UNCHANGED changeVars
    BY <2>3 DEF changeVars, VerdictFollows, Judgeable, IsInjective
  <2> QED
    BY <2>1, <2>2, <2>3 DEF ChangeNext
<1> QED
  BY <1>1, <1>2, PTL DEF ChangeSpec

\* The place of a ring of a contract that is valid.
LEMMA PlaceOf ==
    ASSUME Judgeable, NEW i \in DOMAIN change.rings
    PROVE  Place(change.rings[i]) = i
BY DEF Judgeable, IsInjective, Place

LEMMA PromotedEarned == VerdictFollows => ProductionEarned
<1> SUFFICES ASSUME VerdictFollows, verdict # NoVerdict, change.production,
                    Contains(verdict.promoted, "production")
             PROVE  /\ Place("production") > 1
                    /\ \A i \in 1..Place("production") : GoodBy(observations, change.rings[i], judged)
  BY DEF ProductionEarned, GoodBy
<1>1. /\ Judgeable /\ Follows(verdict, change.rings, observations, judged)
      /\ DOMAIN change.rings = 1..Len(change.rings) /\ Len(change.rings) \in Nat
  BY DEF VerdictFollows
<1>2. \E p \in DOMAIN change.rings :
         /\ change.rings[p] = "production"
         /\ \A j \in 1..p : GoodBy(observations, change.rings[j], judged)
  <2>1. CASE /\ verdict.promoted = change.rings
             /\ \A j \in DOMAIN change.rings : GoodBy(observations, change.rings[j], judged)
    BY <1>1, <2>1 DEF Contains
  <2>2. ASSUME NEW i \in DOMAIN change.rings,
               verdict.promoted = SubSeq(change.rings, 1, i - 1),
               \A j \in 1..(i - 1) : GoodBy(observations, change.rings[j], judged)
        PROVE  \E p \in DOMAIN change.rings :
                  /\ change.rings[p] = "production"
                  /\ \A j \in 1..p : GoodBy(observations, change.rings[j], judged)
    <3>1. /\ Len(verdict.promoted) = i - 1
          /\ \A p \in 1..(i - 1) : verdict.promoted[p] = change.rings[p]
      BY <1>1, <2>2 DEF VerdictFollows
    <3>2. PICK p \in 1..(i - 1) : change.rings[p] = "production"
      <4>1. \E p \in 1..Len(verdict.promoted) : verdict.promoted[p] = "production"
        BY DEF Contains
      <4> QED
        BY <3>1, <4>1
    <3>3. p \in DOMAIN change.rings /\ \A j \in 1..p : j \in 1..(i - 1)
      BY <1>1
    <3> QED
      BY <2>2, <3>2, <3>3
  <2> QED
    BY <1>1, <2>1, <2>2 DEF Follows
<1>3. PICK p \in DOMAIN change.rings :
         /\ change.rings[p] = "production"
         /\ \A j \in 1..p : GoodBy(observations, change.rings[j], judged)
  BY <1>2
<1>4. Place("production") = p
  BY <1>1, <1>3, PlaceOf
<1>5. p # 1
  BY <1>1, <1>3 DEF Judgeable
<1> QED
  BY <1>1, <1>3, <1>4, <1>5

\* What a ring was before an observation of it: a halt is released by an
\* observation of the ring itself or of one before it.
LEMMA HaltStands ==
    ASSUME NEW a, NEW b, NEW n \in Nat, NEW m \in Nat, n <= m, NEW ring,
           \A k \in 1..n : a[k] = b[k], \A k \in (n + 1)..m : b[k].ring # ring
    PROVE  GoodBy(a, ring, n) <=> GoodBy(b, ring, m)
<1>1. GoodBy(a, ring, n) <=> GoodBy(b, ring, n)
  BY GoodIsKept
<1>2. ASSUME GoodBy(b, ring, n) PROVE GoodBy(b, ring, m)
  <2>1. PICK k \in 1..n : /\ b[k].ring = ring /\ WithinLimits(b[k].measured)
                          /\ \A l \in (k + 1)..n : b[l].ring # ring
    BY <1>2 DEF GoodBy
  <2>2. \A l \in (k + 1)..m : l \in (k + 1)..n \/ l \in (n + 1)..m
    OBVIOUS
  <2>3. k \in 1..m
    OBVIOUS
  <2> QED
    BY <2>1, <2>2, <2>3 DEF GoodBy
<1>3. ASSUME GoodBy(b, ring, m) PROVE GoodBy(b, ring, n)
  <2>1. PICK k \in 1..m : /\ b[k].ring = ring /\ WithinLimits(b[k].measured)
                          /\ \A l \in (k + 1)..m : b[l].ring # ring
    BY <1>3 DEF GoodBy
  <2>2. k \in 1..n
    <3>1. ~(k \in (n + 1)..m)
      BY <2>1
    <3> QED
      BY <3>1
  <2>3. \A l \in (k + 1)..n : l \in (k + 1)..m
    OBVIOUS
  <2> QED
    BY <2>1, <2>2, <2>3 DEF GoodBy
<1> QED
  BY <1>1, <1>2, <1>3

\* For any contracts, rings and limits, and observations in any order.
THEOREM PromotionsAreForCause == ChangeSpec => PromotedForCause
<1>1. VerdictFollows /\ VerdictFollows' /\ [ChangeNext]_changeVars
      => [/\ ProductionEarned'
          /\ /\ verdict # NoVerdict /\ verdict'.halted_at # verdict.halted_at
             /\ verdict.halted_at # NoRing
             => \E k \in (judged + 1)..judged' :
                  Place(observations[k].ring) <= Place(verdict.halted_at)]_<<verdict, judged>>
  <2> SUFFICES ASSUME VerdictFollows, VerdictFollows', ChangeNext, ~UNCHANGED <<verdict, judged>>
               PROVE  /\ ProductionEarned'
                      /\ /\ verdict # NoVerdict /\ verdict'.halted_at # verdict.halted_at
                         /\ verdict.halted_at # NoRing
                         => \E k \in (judged + 1)..judged' :
                              Place(observations[k].ring) <= Place(verdict.halted_at)
    BY DEF changeVars
  <2>1. ProductionEarned'
    BY PromotedEarned, PTL
  <2>2. ASSUME verdict # NoVerdict, verdict'.halted_at # verdict.halted_at, verdict.halted_at # NoRing,
               \A k \in (judged + 1)..judged' : ~(Place(observations[k].ring) <= Place(verdict.halted_at))
        PROVE  FALSE
    <3>1. PICK a \in SUBSET ChangeApprovers : EvaluateRollout(a)
      BY DEF ChangeNext, Observe
    <3>2. UNCHANGED <<change, observations>> /\ judged' = Len(observations)
      BY <3>1 DEF EvaluateRollout
    <3>3. /\ Judgeable /\ Follows(verdict, change.rings, observations, judged)
          /\ DOMAIN change.rings = 1..Len(change.rings) /\ Len(change.rings) \in Nat
          /\ judged \in Nat /\ judged' \in Nat /\ judged <= judged'
      BY <2>2, <3>2 DEF VerdictFollows
    <3>4. PICK i \in DOMAIN change.rings :
             /\ verdict.halted_at = change.rings[i]
             /\ ~GoodBy(observations, change.rings[i], judged)
             /\ \A j \in 1..(i - 1) : GoodBy(observations, change.rings[j], judged)
      BY <2>2, <3>3 DEF Follows
    <3>5. Place(verdict.halted_at) = i
      BY <3>3, <3>4, PlaceOf
    <3>6. \A j \in 1..i : \A k \in (judged + 1)..judged' : observations[k].ring # change.rings[j]
      <4> SUFFICES ASSUME NEW j \in 1..i, NEW k \in (judged + 1)..judged',
                          observations[k].ring = change.rings[j]
                   PROVE  FALSE
        OBVIOUS
      <4>1. j \in DOMAIN change.rings
        BY <3>3
      <4>2. Place(observations[k].ring) = j
        BY <3>3, <4>1, PlaceOf
      <4> QED
        BY <2>2, <3>3, <3>5, <4>2
    <3>7. \A j \in 1..i : GoodBy(observations, change.rings[j], judged)
                            <=> GoodBy(observations, change.rings[j], judged')
      BY <3>3, <3>6, HaltStands
    <3>8. /\ ~GoodBy(observations, change.rings[i], judged')
          /\ \A j \in 1..(i - 1) : GoodBy(observations, change.rings[j], judged')
      BY <3>3, <3>4, <3>7
    <3>9. \A r : Promotable(r) <=> GoodBy(observations, r, judged')
      BY <3>2, PromotableIsGood DEF VerdictFollows
    <3>10. Halting = {i}
      <4>1. i \in Halting
        BY <3>8, <3>9 DEF Halting
      <4>2. ASSUME NEW j \in Halting PROVE j = i
        <5>1. /\ j \in DOMAIN change.rings /\ ~Promotable(change.rings[j])
              /\ \A h \in 1..(j - 1) : Promotable(change.rings[h])
          BY DEF Halting
        <5>2. ~(j < i)
          BY <3>3, <3>8, <3>9, <5>1
        <5>3. ~(i < j)
          BY <3>3, <3>8, <3>9, <5>1
        <5> QED
          BY <3>3, <5>1, <5>2, <5>3
      <4> QED
        BY <4>1, <4>2
    <3>11. verdict'.halted_at = change.rings[i]
      BY <3>1, <3>10 DEF EvaluateRollout
    <3> QED
      BY <2>2, <3>4, <3>11
  <2> QED
    BY <2>1, <2>2
<1> QED
  BY <1>1, VerdictFollowsAlways, PTL DEF ChangeSpec, PromotedForCause

-----------------------------------------------------------------------------
(* Incident replays *)

\* The members of a symptom among the first n signals of a file.
Among(file, n, s) == {i \in 1..n : file[i].ours /\ file[i].symptom = s}

\* What a report says of the members m of a symptom.
RowOf(file, m) ==
    [sources |-> {file[i].source : i \in m}, ids |-> {file[i].id : i \in m},
     first |-> Min({file[i].minute : i \in m}), peak |-> Max({file[i].value : i \in m}),
     threshold |-> file[Min(m)].threshold]

\* A report says of each symptom what the first n signals say of it.
Tells(report, file, n) ==
    /\ \A s : s \in DOMAIN report.symptoms <=> Among(file, n, s) # {}
    /\ \A s \in DOMAIN report.symptoms : report.symptoms[s] = RowOf(file, Among(file, n, s))

ReportTells ==
    /\ signals \in Seq(Signals)
    /\ incident # NoIncident => \E n \in 0..Len(signals) : Tells(incident, signals, n)


\* Sets of members can be compared and have a first.
LEMMA AmongIsFinite ==
    ASSUME NEW file, NEW n \in Nat, NEW s
    PROVE  Among(file, n, s) \in SUBSET Int /\ IsFiniteSet(Among(file, n, s))
<1>1. Among(file, n, s) \subseteq 1..n
  BY DEF Among
<1>2. IsFiniteSet(1..n)
  BY FS_Interval
<1>3. IsFiniteSet(Among(file, n, s))
  BY <1>1, <1>2, FS_Subset
<1> QED
  BY <1>1, <1>3

\* The file only grows at its end: what its first signals say, they say forever.
LEMMA RowIsKept ==
    ASSUME NEW a, NEW b, NEW n \in Nat, NEW s, Among(a, n, s) # {}, \A k \in 1..n : a[k] = b[k]
    PROVE  RowOf(a, Among(a, n, s)) = RowOf(b, Among(a, n, s))
<1> DEFINE M == Among(a, n, s)
<1>0. M \subseteq 1..n
  BY DEF Among
<1>1. M # {} /\ M \in SUBSET Int /\ IsFiniteSet(M)
  BY AmongIsFinite
<1> HIDE DEF M
<1>2. Min(M) \in M
  BY <1>1, Extremes
<1>3. \A i \in M : a[i] = b[i]
  BY <1>0
<1>4. /\ {a[i].source : i \in M} = {b[i].source : i \in M} /\ {a[i].id : i \in M} = {b[i].id : i \in M}
      /\ {a[i].minute : i \in M} = {b[i].minute : i \in M}
      /\ {a[i].value : i \in M} = {b[i].value : i \in M}
  BY <1>3
<1>5. a[Min(M)] = b[Min(M)]
  BY <1>2, <1>3
<1>6. RowOf(a, M) = RowOf(b, M)
  BY <1>4, <1>5 DEF RowOf
<1> QED
  BY <1>6 DEF M

LEMMA AmongIsKept ==
    ASSUME NEW a, NEW b, NEW n \in Nat, NEW m \in Nat, n <= m, \A k \in 1..n : a[k] = b[k], NEW s
    PROVE  Among(a, n, s) = {i \in Among(b, m, s) : i <= n}
BY DEF Among

\* With more members a row only widens, and its threshold stays.
LEMMA RowWidens ==
    ASSUME NEW file \in Seq(Signals), NEW m \in 0..Len(file), NEW n \in 0..m, NEW s,
           Among(file, n, s) # {}
    PROVE  LET old == RowOf(file, Among(file, n, s))
               new == RowOf(file, Among(file, m, s))
           IN  /\ old.sources \subseteq new.sources /\ old.ids \subseteq new.ids
               /\ new.first <= old.first /\ old.peak <= new.peak
               /\ new.threshold = old.threshold
<1> DEFINE M == Among(file, n, s)
           L == Among(file, m, s)
<1>1. m \in Nat /\ n \in Nat /\ n <= m
  OBVIOUS
<1>2. M = {i \in L : i <= n} /\ M # {}
  BY <1>1, AmongIsKept
<1>3. /\ M \in SUBSET Int /\ IsFiniteSet(M) /\ L \in SUBSET Int /\ IsFiniteSet(L)
      /\ L \subseteq DOMAIN file
  <2>1. M \in SUBSET Int /\ IsFiniteSet(M)
    BY <1>1, AmongIsFinite
  <2>2. L \in SUBSET Int /\ IsFiniteSet(L)
    BY <1>1, AmongIsFinite
  <2>3. L \subseteq DOMAIN file
    BY DEF Among
  <2> QED
    BY <2>1, <2>2, <2>3
<1> HIDE DEF M, L
<1>4. M \subseteq L /\ L # {}
  BY <1>2
<1>5. Min(M) = Min(L)
  <2>1. Min(M) \in M /\ \A y \in M : Min(M) <= y
    BY <1>2, <1>3, Extremes
  <2>2. Min(L) \in L /\ \A y \in L : Min(L) <= y
    BY <1>3, <1>4, Extremes
  <2>3. Min(L) <= Min(M) /\ Min(M) <= n
    BY <1>2, <1>4, <2>1, <2>2
  <2>4. Min(M) \in Int /\ Min(L) \in Int
    BY <1>3, <2>1, <2>2
  <2>5. Min(L) \in M
    BY <1>1, <1>2, <2>2, <2>3, <2>4
  <2>6. Min(M) <= Min(L)
    BY <2>1, <2>5
  <2> QED
    BY <2>3, <2>4, <2>6
<1>6. \A i \in L : file[i].minute \in Int /\ file[i].value \in Int
  BY <1>3, SignalAssumption
<1>7. ASSUME NEW f, \A i \in L : f[i] \in Int
      PROVE  /\ Min({f[i] : i \in L}) <= Min({f[i] : i \in M})
             /\ Max({f[i] : i \in M}) <= Max({f[i] : i \in L})
  <2> DEFINE A == {f[i] : i \in M}
             B == {f[i] : i \in L}
  <2>1. A \subseteq B /\ A # {} /\ B # {} /\ B \in SUBSET Int /\ A \in SUBSET Int
    BY <1>2, <1>4, <1>7
  <2>2. IsFiniteSet(A) /\ IsFiniteSet(B)
    BY <1>3, ImageIsFinite
  <2> HIDE DEF A, B
  <2>3. /\ Max(A) \in A /\ Min(A) \in A
        /\ \A y \in B : y <= Max(B) /\ Min(B) <= y
    BY <2>1, <2>2, Extremes
  <2>4. Max(A) <= Max(B) /\ Min(B) <= Min(A)
    BY <2>1, <2>3
  <2> QED
    BY <2>4 DEF A, B
<1>8. /\ Min({file[i].minute : i \in L}) <= Min({file[i].minute : i \in M})
      /\ Max({file[i].value : i \in M}) <= Max({file[i].value : i \in L})
  <2> DEFINE minute == [i \in L |-> file[i].minute]
             value == [i \in L |-> file[i].value]
  <2>1. \A i \in L : minute[i] \in Int /\ value[i] \in Int
    BY <1>6
  <2>2. /\ {file[i].minute : i \in L} = {minute[i] : i \in L}
        /\ {file[i].minute : i \in M} = {minute[i] : i \in M}
        /\ {file[i].value : i \in L} = {value[i] : i \in L}
        /\ {file[i].value : i \in M} = {value[i] : i \in M}
    BY <1>4
  <2> HIDE DEF minute, value
  <2>3. Min({minute[i] : i \in L}) <= Min({minute[i] : i \in M})
    BY <1>7, <2>1
  <2>4. Max({value[i] : i \in M}) <= Max({value[i] : i \in L})
    BY <1>7, <2>1
  <2> QED
    BY <2>2, <2>3, <2>4
<1>9. /\ {file[i].source : i \in M} \subseteq {file[i].source : i \in L}
      /\ {file[i].id : i \in M} \subseteq {file[i].id : i \in L}
  BY <1>4
<1>10. LET old == RowOf(file, M)
           new == RowOf(file, L)
       IN  /\ old.sources \subseteq new.sources /\ old.ids \subseteq new.ids
           /\ new.first <= old.first /\ old.peak <= new.peak
           /\ new.threshold = old.threshold
  BY <1>5, <1>8, <1>9 DEF RowOf
<1> QED
  BY <1>10 DEF M, L

LEMMA EvaluationTells ==
    ASSUME signals \in Seq(Signals), NEW action, NEW a, NEW r, EvaluateIncident(action, a, r)
    PROVE  Tells(incident', signals, Len(signals))
<1>1. DOMAIN signals = 1..Len(signals)
  OBVIOUS
<1>2. \A s : Members(s) = Among(signals, Len(signals), s)
  BY <1>1 DEF Members, Among
<1>3. incident'.symptoms = Correlated
  BY DEF EvaluateIncident
<1>4. DOMAIN Correlated = Symptoms
  BY DEF Correlated
<1>5. \A s : s \in Symptoms <=> Members(s) # {}
  BY DEF Symptoms, Members
<1>6. \A s \in Symptoms : Correlated[s] = RowOf(signals, Members(s))
  BY DEF Correlated, RowOf, FirstMinute
<1> QED
  BY <1>2, <1>3, <1>4, <1>5, <1>6 DEF Tells

LEMMA ReportTellsAlways == IncidentSpec => []ReportTells
<1>1. IncidentInit => ReportTells
  BY DEF IncidentInit, ReportTells
<1>2. ReportTells /\ [IncidentNext]_incidentVars => ReportTells'
  <2> SUFFICES ASSUME ReportTells, [IncidentNext]_incidentVars PROVE ReportTells'
    OBVIOUS
  <2>1. ASSUME NEW s \in Signals, Signal(s) PROVE ReportTells'
    <3>1. signals' = Append(signals, s) /\ incident' = incident
      BY <2>1 DEF Signal
    <3>2. /\ signals' \in Seq(Signals) /\ Len(signals') = Len(signals) + 1
          /\ \A k \in 1..Len(signals) : signals'[k] = signals[k]
      BY <3>1 DEF ReportTells
    <3>3. ASSUME NEW n \in 0..Len(signals), Tells(incident, signals, n)
          PROVE  n \in 0..Len(signals') /\ Tells(incident, signals', n)
      <4>1. n \in Nat /\ Len(signals) \in Nat /\ \A k \in 1..n : signals[k] = signals'[k]
        BY <3>2 DEF ReportTells
      <4>2. \A t : Among(signals, n, t) = Among(signals', n, t)
        BY <4>1 DEF Among
      <4>3. \A t \in DOMAIN incident.symptoms :
               RowOf(signals, Among(signals, n, t)) = RowOf(signals', Among(signals, n, t))
        BY <3>3, <4>1, RowIsKept DEF Tells
      <4>4. n \in 0..Len(signals')
        BY <3>2, <4>1
      <4> QED
        BY <3>3, <4>2, <4>3, <4>4 DEF Tells
    <3> QED
      BY <3>1, <3>2, <3>3 DEF ReportTells
  <2>2. ASSUME NEW action, NEW a, NEW r, EvaluateIncident(action, a, r) PROVE ReportTells'
    <3>1. signals' = signals
      BY <2>2 DEF EvaluateIncident
    <3>2. Tells(incident', signals, Len(signals)) /\ Len(signals) \in 0..Len(signals)
      BY <2>2, EvaluationTells DEF ReportTells
    <3> QED
      BY <3>1, <3>2 DEF ReportTells
  <2>3. ASSUME NEW d \in Diagnostics, Diagnose(d) PROVE ReportTells'
    BY <2>3 DEF Diagnose, ReportTells
  <2>4. CASE UNCHANGED incidentVars
    BY <2>4 DEF incidentVars, ReportTells
  <2> QED
    BY <2>1, <2>2, <2>3, <2>4 DEF IncidentNext
<1> QED
  BY <1>1, <1>2, PTL DEF IncidentSpec

\* For any signals, in any order and repeated, and any authority.
THEOREM ReportsWiden == IncidentSpec => ReportsOnlyWiden
<1> DEFINE Widens ==
      incident # NoIncident =>
         \A s \in DOMAIN incident.symptoms :
            /\ s \in DOMAIN incident'.symptoms
            /\ LET old == incident.symptoms[s]
                   new == incident'.symptoms[s]
               IN  /\ old.sources \subseteq new.sources /\ old.ids \subseteq new.ids
                   /\ new.first <= old.first /\ old.peak <= new.peak
                   /\ new.threshold = old.threshold
<1>1. ReportTells /\ [IncidentNext]_incidentVars => [Widens]_incident
  <2> SUFFICES ASSUME ReportTells, IncidentNext, incident' # incident, incident # NoIncident PROVE Widens
    BY DEF incidentVars
  <2>1. PICK action, a, r : EvaluateIncident(action, a, r)
    BY DEF IncidentNext, Signal, Diagnose
  <2>2. PICK n \in 0..Len(signals) : Tells(incident, signals, n)
    BY DEF ReportTells
  <2> DEFINE m == Len(signals)
  <2>3. signals \in Seq(Signals) /\ m \in 0..m /\ n \in 0..m
    BY DEF ReportTells
  <2>4. Tells(incident', signals, m)
    BY <2>1, <2>3, EvaluationTells
  <2> SUFFICES ASSUME NEW s \in DOMAIN incident.symptoms
               PROVE  /\ s \in DOMAIN incident'.symptoms
                      /\ LET old == incident.symptoms[s]
                             new == incident'.symptoms[s]
                         IN  /\ old.sources \subseteq new.sources /\ old.ids \subseteq new.ids
                             /\ new.first <= old.first /\ old.peak <= new.peak
                             /\ new.threshold = old.threshold
    OBVIOUS
  <2>5. Among(signals, n, s) # {} /\ incident.symptoms[s] = RowOf(signals, Among(signals, n, s))
    BY <2>2 DEF Tells
  <2>6. Among(signals, m, s) # {}
    <3>1. PICK i \in Among(signals, n, s) : TRUE
      BY <2>5
    <3>2. i \in Among(signals, m, s)
      BY <2>3 DEF Among
    <3> QED
      BY <3>2
  <2>7. s \in DOMAIN incident'.symptoms /\ incident'.symptoms[s] = RowOf(signals, Among(signals, m, s))
    BY <2>4, <2>6 DEF Tells
  <2> HIDE DEF m
  <2>8. LET old == RowOf(signals, Among(signals, n, s))
            new == RowOf(signals, Among(signals, m, s))
        IN  /\ old.sources \subseteq new.sources /\ old.ids \subseteq new.ids
            /\ new.first <= old.first /\ old.peak <= new.peak
            /\ new.threshold = old.threshold
    <3>1. m \in 0..Len(signals)
      BY <2>3 DEF m
    <3> QED
      BY <2>3, <2>5, <3>1, RowWidens
  <2> QED
    BY <2>5, <2>7, <2>8
<1> QED
  BY <1>1, ReportTellsAlways, PTL DEF IncidentSpec, ReportsOnlyWiden

-----------------------------------------------------------------------------
(* Work items *)

\* The ways an item goes: each step leads further.
Stage(s) ==
    IF s = "proposed" THEN 0
    ELSE IF s = "approved" THEN 1
    ELSE IF s = "implementing" THEN 2
    ELSE IF s = "validated" THEN 3
    ELSE 4

\* What the audit tells of an item that is on the way to being closed.
Told(s, steps, rows) ==
    /\ s = "proposed" => steps = {}
    /\ s = "approved" => \E a \in steps : steps = {a} /\ rows[a].action = "approve"
    /\ s = "implementing" =>
         \E a, b \in steps : /\ steps = {a, b} /\ a < b
                             /\ rows[a].action = "approve" /\ rows[b].action = "start"
    /\ s = "validated" =>
         \E a, b, c \in steps : /\ steps = {a, b, c} /\ a < b /\ b < c
                                /\ rows[a].action = "approve" /\ rows[b].action = "start"
                                /\ rows[c].action = "validate"
    /\ s = "closed" =>
         \E a, b, c, d \in steps : /\ steps = {a, b, c, d} /\ a < b /\ b < c /\ c < d
                                   /\ rows[a].action = "approve" /\ rows[b].action = "start"
                                   /\ rows[c].action = "validate" /\ rows[d].action = "close"

\* Events of an item among those of an audit file.
EventsFor(n, id, rows) == {k \in DOMAIN rows : rows[k].report = n /\ rows[k].item = id}

Id(n, i) == WorkItemId(reports[n].items[i])

\* What a report keeps as its items go their ways.
IdsDiffer(r) == \A i, j \in DOMAIN r.items : WorkItemId(r.items[i]) = WorkItemId(r.items[j]) => i = j

QueueIsRight(r) == Listed(r) /\ Urgent(r) /\ IdsDiffer(r)

Queued ==
    /\ DOMAIN reports = 1..Len(reports) /\ Len(reports) \in Nat
    /\ \A n \in DOMAIN reports :
         /\ reports[n] = [workloads |-> reports[n].workloads, items |-> reports[n].items,
                          status |-> reports[n].status]
         /\ DOMAIN reports[n].status = DOMAIN reports[n].items
         /\ QueueIsRight(reports[n])

AuditTells ==
    /\ DOMAIN audit = 1..Len(audit) /\ Len(audit) \in Nat
    /\ \A k \in DOMAIN audit : audit[k].customer = Customer /\ audit[k].report \in DOMAIN reports
    /\ \A j, k \in DOMAIN audit :
         j < k /\ audit[j].report = audit[k].report /\ audit[j].item = audit[k].item
           => Stage(audit[j].previous) < Stage(audit[k].previous)
    /\ \A n \in DOMAIN reports : \A i \in DOMAIN reports[n].items :
         /\ \A k \in EventsFor(n, Id(n, i), audit) : Stage(audit[k].previous) < Stage(reports[n].status[i])
         /\ Told(reports[n].status[i], EventsFor(n, Id(n, i), audit), audit)

\* What was told stays told.
LEMMA ToldOfSame ==
    ASSUME NEW s, NEW steps, NEW rows, NEW later, Told(s, steps, rows),
           \A k \in steps : later[k].action = rows[k].action
    PROVE  Told(s, steps, later)
<1>1. CASE s = "approved"
  BY <1>1 DEF Told
<1>2. CASE s = "implementing"
  BY <1>2 DEF Told
<1>3. CASE s = "validated"
  <2>1. PICK a, b, c \in steps : /\ steps = {a, b, c} /\ a < b /\ b < c
                                 /\ rows[a].action = "approve" /\ rows[b].action = "start"
                                 /\ rows[c].action = "validate"
    BY <1>3 DEF Told
  <2>2. /\ later[a].action = "approve" /\ later[b].action = "start" /\ later[c].action = "validate"
    BY <2>1
  <2> QED
    BY <1>3, <2>1, <2>2 DEF Told
<1>4. CASE s = "closed"
  <2>1. PICK a, b, c, d \in steps : /\ steps = {a, b, c, d} /\ a < b /\ b < c /\ c < d
                                    /\ rows[a].action = "approve" /\ rows[b].action = "start"
                                    /\ rows[c].action = "validate" /\ rows[d].action = "close"
    BY <1>4 DEF Told
  <2>2. /\ later[a].action = "approve" /\ later[b].action = "start"
        /\ later[c].action = "validate" /\ later[d].action = "close"
    BY <2>1
  <2> QED
    BY <1>4, <2>1, <2>2 DEF Told
<1>5. CASE s \notin {"approved", "implementing", "validated", "closed"}
  BY <1>5 DEF Told
<1> QED
  BY <1>1, <1>2, <1>3, <1>4, <1>5

LEMMA StageType == \A s : Stage(s) \in 0..4
BY DEF Stage

LEMMA StepsLeadOn == \A t \in Allowed : Stage(t[1]) < Stage(t[3])
BY DEF Allowed, Stage

\* A step of the item is told with the others.
LEMMA ToldOfStep ==
    ASSUME NEW t \in Allowed, NEW steps, NEW rows, NEW later, NEW n \in Nat,
           Told(t[1], steps, rows),
           \A k \in steps : k < n + 1 /\ later[k].action = rows[k].action,
           later[n + 1].action = t[2]
    PROVE  Told(t[3], steps \cup {n + 1}, later)
<1> DEFINE all == steps \cup {n + 1}
<1>1. CASE t[3] = "approved"
  <2>1. t[1] = "proposed" /\ t[2] = "approve"
    BY <1>1 DEF Allowed
  <2>2. steps = {}
    BY <2>1 DEF Told
  <2>3. all = {n + 1} /\ n + 1 \in all
    BY <2>2
  <2> QED
    BY <1>1, <2>1, <2>3 DEF Told
<1>2. CASE t[3] = "implementing"
  <2>1. t[1] = "approved" /\ t[2] = "start"
    BY <1>2 DEF Allowed
  <2>2. PICK x \in steps :
           /\ steps = {x}
           /\ rows[x].action = "approve"
    BY <2>1 DEF Told
  <2>3. /\ all = {x, n + 1} /\ x < n + 1
        /\ later[x].action = "approve"
        /\ later[n + 1].action = "start"
    BY <2>1, <2>2
  <2>4. x \in all /\ n + 1 \in all
    BY <2>3
  <2> QED
    BY <1>2, <2>3, <2>4 DEF Told
<1>3. CASE t[3] = "validated"
  <2>1. t[1] = "implementing" /\ t[2] = "validate"
    BY <1>3 DEF Allowed
  <2>2. PICK x, y \in steps :
           /\ steps = {x, y} /\ x < y
           /\ rows[x].action = "approve" /\ rows[y].action = "start"
    BY <2>1 DEF Told
  <2>3. /\ all = {x, y, n + 1} /\ x < y /\ y < n + 1
        /\ later[x].action = "approve" /\ later[y].action = "start"
        /\ later[n + 1].action = "validate"
    BY <2>1, <2>2
  <2>4. x \in all /\ y \in all /\ n + 1 \in all
    BY <2>3
  <2> QED
    BY <1>3, <2>3, <2>4 DEF Told
<1>4. CASE t[3] = "closed"
  <2>1. t[1] = "validated" /\ t[2] = "close"
    BY <1>4 DEF Allowed
  <2>2. PICK x, y, z \in steps :
           /\ steps = {x, y, z} /\ x < y /\ y < z
           /\ rows[x].action = "approve" /\ rows[y].action = "start" /\ rows[z].action = "validate"
    BY <2>1 DEF Told
  <2>3. /\ all = {x, y, z, n + 1} /\ x < y /\ y < z /\ z < n + 1
        /\ later[x].action = "approve" /\ later[y].action = "start" /\ later[z].action = "validate"
        /\ later[n + 1].action = "close"
    BY <2>1, <2>2
  <2>4. x \in all /\ y \in all /\ z \in all /\ n + 1 \in all
    BY <2>3
  <2> QED
    BY <1>4, <2>3, <2>4 DEF Told
<1>5. CASE t[3] \notin {"proposed", "approved", "implementing", "validated", "closed"}
  BY <1>5 DEF Told
<1>6. t[3] # "proposed"
  BY DEF Allowed
<1> QED
  BY <1>1, <1>2, <1>3, <1>4, <1>5, <1>6

\* The rows of build_workloads.
NamesIn(inventory) == {r.name : r \in inventory}
LoadRows(inventory) ==
    [id : STRING \cup {"unassigned"}, criticality : Nat, revenue : Nat,
     resources : SUBSET NamesIn(inventory)]

\* build_workloads leaves no resource out.
LEMMA NothingLeftOut ==
    ASSUME NEW inventory, NEW d \in Definitions
    PROVE  /\ BuildWorkloads(inventory, d) \in Seq(LoadRows(inventory))
           /\ \A r \in inventory : \E w \in DOMAIN BuildWorkloads(inventory, d) :
                r.name \in BuildWorkloads(inventory, d)[w].resources
<1> DEFINE Loads == BuildWorkloads(inventory, d)
           defined == [i \in DOMAIN d |->
                         [id |-> d[i].id, criticality |-> d[i].criticality,
                          revenue |-> d[i].revenue, resources |-> Tagged(inventory, d[i].id)]]
           stray == Stray(inventory, d)
           last == [id |-> "unassigned", criticality |-> 1, revenue |-> 0, resources |-> stray]
<1>1. /\ d \in Seq(WorkloadDefinition)
      /\ DOMAIN d = 1..Len(d) /\ Len(d) \in Nat
  BY DefinitionAssumption
<1>2. \A id : Tagged(inventory, id) \in SUBSET NamesIn(inventory)
  BY DEF Tagged, NamesIn
<1>3. stray \in SUBSET NamesIn(inventory)
  BY DEF Stray, NamesIn
<1>4. ASSUME NEW i \in DOMAIN d PROVE defined[i] \in LoadRows(inventory)
  <2> DEFINE tagged == Tagged(inventory, d[i].id)
  <2>1. d[i].id \in STRING /\ d[i].criticality \in Nat /\ d[i].revenue \in Nat
    <3>1. d[i] \in WorkloadDefinition
      BY <1>1
    <3> QED
      BY <3>1 DEF WorkloadDefinition
  <2>2. tagged \in SUBSET NamesIn(inventory)
    BY <1>2
  <2>3. defined[i] = [id |-> d[i].id, criticality |-> d[i].criticality,
                      revenue |-> d[i].revenue, resources |-> tagged]
    OBVIOUS
  <2> HIDE DEF tagged, defined
  <2> QED
    BY <2>1, <2>2, <2>3 DEF LoadRows
<1>5. defined \in Seq(LoadRows(inventory)) /\ Len(defined) = Len(d)
  <2>1. defined \in [1..Len(d) -> LoadRows(inventory)]
    BY <1>1, <1>4
  <2> HIDE DEF defined
  <2> QED
    BY <1>1, <2>1
<1>6. last \in LoadRows(inventory)
  <2> HIDE DEF stray
  <2> QED
    BY <1>3 DEF LoadRows
<1>7. Loads = IF stray = {} THEN defined ELSE Append(defined, last)
  BY DEF BuildWorkloads
<1>8. ASSUME NEW r \in inventory, r.workload \in KnownIds(d)
      PROVE  \E i \in DOMAIN d : r.name \in defined[i].resources
  <2>1. PICK i \in DOMAIN d : d[i].id = r.workload
    BY <1>8 DEF KnownIds
  <2>2. r.name \in Tagged(inventory, d[i].id)
    BY <2>1 DEF Tagged
  <2> QED
    BY <2>2
<1>9. ASSUME NEW r \in inventory, r.workload \notin KnownIds(d)
      PROVE  r.name \in stray
  BY <1>9 DEF Stray
<1>10. last.resources = stray
  OBVIOUS
<1> HIDE DEF Loads, defined, stray, last
<1>11. Loads \in Seq(LoadRows(inventory))
  BY <1>5, <1>6, <1>7
<1>12. ASSUME NEW r \in inventory PROVE \E w \in DOMAIN Loads : r.name \in Loads[w].resources
  <2>1. CASE stray = {}
    BY <1>1, <1>5, <1>7, <1>8, <1>9, <2>1
  <2>2. CASE stray # {}
    <3>1. /\ DOMAIN Loads = 1..(Len(d) + 1) /\ Loads[Len(d) + 1] = last
          /\ \A i \in DOMAIN d : i \in DOMAIN Loads /\ Loads[i] = defined[i]
      BY <1>1, <1>5, <1>6, <1>7, <2>2
    <3>2. Len(d) + 1 \in DOMAIN Loads
      BY <1>1, <3>1
    <3> QED
      BY <1>8, <1>9, <1>10, <3>1, <3>2
  <2> QED
    BY <2>1, <2>2
<1> QED
  BY <1>11, <1>12 DEF Loads

\* workload_by_resource gives a row that holds the resource, where one does.
LEMMA HomeHolds ==
    ASSUME NEW inventory, NEW loads \in Seq(LoadRows(inventory)), NEW name
    PROVE  /\ HomeOf(loads, name).criticality \in Nat /\ HomeOf(loads, name).revenue \in Nat
           /\ (\E w \in DOMAIN loads : name \in loads[w].resources)
              => \E w \in DOMAIN loads : HomeOf(loads, name) = loads[w] /\ name \in loads[w].resources
<1> DEFINE holding == {i \in DOMAIN loads : name \in loads[i].resources}
<1>1. DOMAIN loads = 1..Len(loads) /\ Len(loads) \in Nat
  OBVIOUS
<1>2. \A w \in DOMAIN loads : loads[w].criticality \in Nat /\ loads[w].revenue \in Nat
  <2> SUFFICES ASSUME NEW w \in DOMAIN loads
               PROVE  loads[w].criticality \in Nat /\ loads[w].revenue \in Nat
    OBVIOUS
  <2>1. loads[w] \in LoadRows(inventory)
    OBVIOUS
  <2> QED
    BY <2>1 DEF LoadRows
<1>3. CASE holding = {}
  <2>1. HomeOf(loads, name) = [id |-> "unassigned", criticality |-> 1, revenue |-> 0]
    BY <1>3 DEF HomeOf
  <2> QED
    BY <1>3, <2>1
<1>4. CASE holding # {}
  <2>1. holding \subseteq 1..Len(loads)
    BY <1>1
  <2>2. IsFiniteSet(1..Len(loads))
    BY <1>1, FS_Interval
  <2>3. holding \in SUBSET Int /\ IsFiniteSet(holding)
    BY <2>1, <2>2, FS_Subset
  <2>4. \E i \in holding : \A j \in holding : j <= i
    <3> HIDE DEF holding
    <3> QED
      BY <1>4, <2>3, Extremes
  <2> DEFINE i == CHOOSE i \in holding : \A j \in holding : j <= i
  <2>5. i \in holding
    BY <2>4
  <2>6. HomeOf(loads, name) = loads[i]
    BY <1>4 DEF HomeOf
  <2> HIDE DEF i
  <2> QED
    BY <1>2, <2>5, <2>6
<1> QED
  BY <1>3, <1>4

LEMMA ProductsGrow ==
    ASSUME NEW a \in Nat, NEW b \in Nat, NEW c \in Nat, NEW d \in Nat, a <= b, c <= d
    PROVE  a * c <= b * d
<1>1. b - a \in Nat /\ d - c \in Nat
  OBVIOUS
<1>2. (b - a) * d \in Nat /\ a * (d - c) \in Nat
  BY <1>1
<1>3. b * d - a * c = (b - a) * d + a * (d - c)
  OBVIOUS
<1>4. b * d \in Int /\ a * c \in Int
  OBVIOUS
<1> QED
  BY <1>2, <1>3, <1>4

\* Less severe, less critical and worth less is not more urgent.
LEMMA PriorityGrows ==
    ASSUME NEW s \in Nat, NEW t \in Nat, NEW x, NEW y,
           x.criticality \in Nat, y.criticality \in Nat, x.revenue \in Nat, y.revenue \in Nat,
           s <= t, x.criticality <= y.criticality, x.revenue <= y.revenue
    PROVE  Priority(s, x) <= Priority(t, y) /\ Priority(s, x) \in Int /\ Priority(t, y) \in Int
<1>1. x.revenue * s <= y.revenue * t /\ x.revenue * s \in Nat /\ y.revenue * t \in Nat
  BY ProductsGrow
<1>2. /\ x.revenue * s * x.criticality <= y.revenue * t * y.criticality
      /\ x.revenue * s * x.criticality \in Nat /\ y.revenue * t * y.criticality \in Nat
  <2> DEFINE u == x.revenue * s
             v == y.revenue * t
  <2> HIDE DEF u, v
  <2>1. u \in Nat /\ v \in Nat /\ u <= v
    BY <1>1 DEF u, v
  <2>2. u * x.criticality <= v * y.criticality /\ u * x.criticality \in Nat /\ v * y.criticality \in Nat
    BY <2>1, ProductsGrow
  <2> QED
    BY <2>2 DEF u, v
<1> DEFINE e == x.revenue * s * x.criticality
           f == y.revenue * t * y.criticality
<1>3. /\ Priority(s, x) = 1000 * s + 500 * x.criticality + (IF e < 2000 THEN e ELSE 2000)
      /\ Priority(t, y) = 1000 * t + 500 * y.criticality + (IF f < 2000 THEN f ELSE 2000)
  BY DEF Priority
<1>4. e \in Nat /\ f \in Nat /\ e <= f
  BY <1>2
<1> HIDE DEF e, f
<1> QED
  BY <1>3, <1>4

\* A report as it is made.
LEMMA ReportIsQueued ==
    ASSUME NEW inventory \in Inventories, NEW d \in Definitions,
           NEW q \in SetToSeqs({ItemFor(f, BuildWorkloads(inventory, d)) : f \in Findings(inventory)}),
           \A i, j \in DOMAIN q : i < j => Ahead(q[i], q[j]),
           NEW r, r.workloads = BuildWorkloads(inventory, d), r.items = q
    PROVE  QueueIsRight(r)
<1> DEFINE Loads == BuildWorkloads(inventory, d)
           due == {ItemFor(f, Loads) : f \in Findings(inventory)}
<1>1. r.workloads = Loads /\ r.items = q /\ q \in SetToSeqs(due)
  OBVIOUS
<1>2. Loads \in Seq(LoadRows(inventory))
  BY NothingLeftOut
<1>3. ASSUME NEW i \in DOMAIN q
      PROVE  \E f \in Findings(inventory) : q[i] = ItemFor(f, Loads)
  BY <1>3 DEF SetToSeqs
<1>4. \A f \in Findings(inventory) : f[1] \in inventory /\ f = <<f[1], f[2]>>
  BY DEF Findings
<1>5. \A f : LET home == HomeOf(Loads, f[1].name)
            IN  /\ ItemFor(f, Loads).resource = f[1].name /\ ItemFor(f, Loads).control = f[2]
                /\ ItemFor(f, Loads).workload = home.id
                /\ ItemFor(f, Loads).score = Priority(Severity(f[2]), home)
  BY DEF ItemFor
<1> HIDE DEF Loads, due
<1>6. ASSUME NEW i \in DOMAIN q
      PROVE  \E w \in DOMAIN Loads : Loads[w].id = q[i].workload /\ q[i].resource \in Loads[w].resources
  <2>1. PICK f \in Findings(inventory) : q[i] = ItemFor(f, Loads)
    BY <1>3
  <2>2. \E w \in DOMAIN Loads : f[1].name \in Loads[w].resources
    BY <1>4, NothingLeftOut DEF Loads
  <2>3. \E w \in DOMAIN Loads : HomeOf(Loads, f[1].name) = Loads[w] /\ f[1].name \in Loads[w].resources
    BY <1>2, <2>2, HomeHolds
  <2> QED
    BY <1>5, <2>1, <2>3
<1>7. ASSUME NEW i \in DOMAIN q, NEW j \in DOMAIN q, i < j, q[i].score # q[j].score
      PROVE  LET first == HomeOf(Loads, q[i].resource)
                 second == HomeOf(Loads, q[j].resource)
             IN  \/ Severity(q[i].control) > Severity(q[j].control)
                 \/ first.criticality > second.criticality
                 \/ first.revenue > second.revenue
  <2> DEFINE first == HomeOf(Loads, q[i].resource)
             second == HomeOf(Loads, q[j].resource)
             s == Severity(q[i].control)
             t == Severity(q[j].control)
  <2>1. q[i].score = Priority(s, first) /\ q[j].score = Priority(t, second)
    <3>1. PICK f \in Findings(inventory) : q[i] = ItemFor(f, Loads)
      BY <1>3
    <3>2. PICK g \in Findings(inventory) : q[j] = ItemFor(g, Loads)
      BY <1>3
    <3> QED
      BY <1>5, <3>1, <3>2
  <2>2. /\ first.criticality \in Nat /\ first.revenue \in Nat
        /\ second.criticality \in Nat /\ second.revenue \in Nat
    BY <1>2, HomeHolds
  <2>3. s \in Nat /\ t \in Nat
    BY DEF Severity
  <2>4. q[i].score >= q[j].score
    BY <1>7 DEF Ahead
  <2> SUFFICES ASSUME ~(s > t), ~(first.criticality > second.criticality), ~(first.revenue > second.revenue)
               PROVE  FALSE
    OBVIOUS
  <2> HIDE DEF first, second, s, t
  <2>5. s <= t /\ first.criticality <= second.criticality /\ first.revenue <= second.revenue
    BY <2>2, <2>3
  <2>6. /\ Priority(s, first) <= Priority(t, second)
        /\ Priority(s, first) \in Int /\ Priority(t, second) \in Int
    BY <2>2, <2>3, <2>5, PriorityGrows
  <2> QED
    BY <1>7, <2>1, <2>4, <2>6
<1>8. ASSUME NEW i \in DOMAIN q, NEW j \in DOMAIN q, WorkItemId(q[i]) = WorkItemId(q[j])
      PROVE  i = j
  <2>1. PICK f \in Findings(inventory) : q[i] = ItemFor(f, Loads)
    BY <1>3
  <2>2. PICK g \in Findings(inventory) : q[j] = ItemFor(g, Loads)
    BY <1>3
  <2>3. f[2] = g[2] /\ f[1].name = g[1].name
    BY <1>5, <1>8, <2>1, <2>2 DEF WorkItemId
  <2>4. f = g
    BY <1>4, <2>3, InventoryAssumption
  <2>5. q[i] = q[j]
    BY <2>1, <2>2, <2>4
  <2> QED
    BY <1>1, <2>5 DEF SetToSeqs
<1>9. Listed(r)
  BY <1>1, <1>6 DEF Listed
<1>10. Urgent(r)
  BY <1>1, <1>7 DEF Urgent
<1>11. IdsDiffer(r)
  BY <1>1, <1>8 DEF IdsDiffer
<1> QED
  BY <1>9, <1>10, <1>11 DEF QueueIsRight

\* What a new report adds.
LEMMA ReportAdds ==
    ASSUME Queued, NEW inventory \in Inventories, NEW d \in Definitions, MakeReport(inventory, d)
    PROVE  /\ Queued' /\ audit' = audit /\ Len(reports') = Len(reports) + 1
           /\ \A n \in DOMAIN reports : n \in DOMAIN reports' /\ reports'[n] = reports[n]
           /\ \A i \in DOMAIN reports'[Len(reports) + 1].items :
                reports'[Len(reports) + 1].status[i] = "proposed"
<1>1. PICK q \in SetToSeqs({ItemFor(f, BuildWorkloads(inventory, d)) : f \in Findings(inventory)}) :
         /\ \A i, j \in DOMAIN q : i < j => Ahead(q[i], q[j])
         /\ reports' = Append(reports, [workloads |-> BuildWorkloads(inventory, d), items |-> q,
                                        status |-> [i \in DOMAIN q |-> "proposed"]])
  BY DEF MakeReport
<1> DEFINE loads == BuildWorkloads(inventory, d)
           start == [i \in DOMAIN q |-> "proposed"]
           r == [workloads |-> loads, items |-> q, status |-> start]
<1>2. audit' = audit
  BY DEF MakeReport
<1>3. r.workloads = loads /\ r.items = q /\ r.status = start
  OBVIOUS
<1>4. QueueIsRight(r)
  BY <1>1, <1>3, ReportIsQueued
<1>5. DOMAIN start = DOMAIN q /\ \A i \in DOMAIN q : start[i] = "proposed"
  OBVIOUS
<1>6. r = [workloads |-> r.workloads, items |-> r.items, status |-> r.status]
  BY <1>3
<1>7. reports' = Append(reports, r)
  BY <1>1
<1> HIDE DEF r, loads, start
<1> DEFINE n == Len(reports)
<1>8. /\ DOMAIN reports = 1..n /\ n \in Nat /\ Len(reports') = n + 1 /\ DOMAIN reports' = 1..(n + 1)
      /\ \A m \in 1..n : reports'[m] = reports[m]
      /\ reports'[n + 1] = r
  BY <1>7 DEF Queued
<1> HIDE DEF n
<1>9. \A m \in 1..(n + 1) : m \in 1..n \/ m = n + 1
  BY <1>8
<1>10. ASSUME NEW m \in 1..(n + 1)
       PROVE  /\ reports'[m] = [workloads |-> reports'[m].workloads, items |-> reports'[m].items,
                                status |-> reports'[m].status]
              /\ DOMAIN reports'[m].status = DOMAIN reports'[m].items
              /\ QueueIsRight(reports'[m])
  <2>1. CASE m \in 1..n
    <3>1. reports'[m] = reports[m] /\ m \in DOMAIN reports
      BY <1>8, <2>1
    <3> QED
      BY <3>1 DEF Queued
  <2>2. CASE m = n + 1
    <3>1. reports'[m] = r
      BY <1>8, <2>2
    <3> QED
      BY <1>3, <1>4, <1>5, <1>6, <3>1
  <2> QED
    BY <1>9, <2>1, <2>2
<1>11. Queued'
  BY <1>8, <1>10 DEF Queued
<1>12. \A i \in DOMAIN reports'[n + 1].items : reports'[n + 1].status[i] = "proposed"
  BY <1>3, <1>5, <1>8
<1>13. \A m \in DOMAIN reports : m \in DOMAIN reports' /\ reports'[m] = reports[m]
  BY <1>8
<1> QED
  BY <1>2, <1>8, <1>11, <1>12, <1>13 DEF n

\* What a step of an item changes.
LEMMA StepOfItem ==
    ASSUME Queued, NEW n \in DOMAIN reports, NEW i \in DOMAIN reports[n].items,
           NEW c, NEW action, NEW a, Transition(n, i, c, action, a)
    PROVE  /\ Queued' /\ DOMAIN reports' = DOMAIN reports
           /\ \A m \in DOMAIN reports :
                /\ reports'[m].items = reports[m].items
                /\ \A j \in DOMAIN reports[m].items : m # n \/ j # i =>
                     reports'[m].status[j] = reports[m].status[j]
           /\ \E t \in Allowed :
                /\ t[1] = reports[n].status[i] /\ t[2] = action /\ reports'[n].status[i] = t[3]
                /\ audit' = Append(audit, [report |-> n, item |-> Id(n, i),
                                           customer |-> Customer, actor |-> a,
                                           action |-> action, previous |-> t[1], new |-> t[3]])
<1>1. PICK t \in Allowed :
         /\ t[1] = reports[n].status[i] /\ t[2] = action
         /\ reports' = [reports EXCEPT ![n].status[i] = t[3]]
         /\ audit' = Append(audit, [report |-> n, item |-> Id(n, i),
                                    customer |-> Customer, actor |-> a,
                                    action |-> action, previous |-> t[1], new |-> t[3]])
  BY DEF Transition, Id
<1> DEFINE r == reports[n]
           s == [r.status EXCEPT ![i] = t[3]]
           u == [workloads |-> r.workloads, items |-> r.items, status |-> s]
<1>2. /\ r = [workloads |-> r.workloads, items |-> r.items, status |-> r.status]
      /\ DOMAIN r.status = DOMAIN r.items /\ QueueIsRight(r)
  BY DEF Queued
<1>3. /\ DOMAIN reports' = DOMAIN reports /\ reports'[n] = u
      /\ \A m \in DOMAIN reports : m # n => reports'[m] = reports[m]
  <2>1. [r EXCEPT !.status[i] = t[3]] = u
    BY <1>2
  <2> QED
    BY <1>1, <2>1
<1>4. /\ DOMAIN s = DOMAIN r.status /\ s[i] = t[3]
      /\ \A j \in DOMAIN r.items : j # i => s[j] = r.status[j]
  BY <1>2
<1>5. u.workloads = r.workloads /\ u.items = r.items /\ u.status = s
  OBVIOUS
<1> HIDE DEF u, s
<1>6. QueueIsRight(u)
  BY <1>2, <1>5 DEF QueueIsRight, Listed, Urgent, IdsDiffer
<1>7. u = [workloads |-> u.workloads, items |-> u.items, status |-> u.status]
  BY <1>5 DEF u
<1>8. DOMAIN u.status = DOMAIN u.items
  BY <1>2, <1>4, <1>5
<1>9. Len(reports') = Len(reports)
  BY <1>1 DEF Queued
<1>10. ASSUME NEW m \in DOMAIN reports
       PROVE  /\ reports'[m] = [workloads |-> reports'[m].workloads, items |-> reports'[m].items,
                                status |-> reports'[m].status]
              /\ DOMAIN reports'[m].status = DOMAIN reports'[m].items
              /\ QueueIsRight(reports'[m])
  <2>1. CASE m # n
    <3>1. reports'[m] = reports[m]
      BY <1>3, <2>1
    <3> QED
      BY <3>1 DEF Queued
  <2>2. CASE m = n
    <3>1. reports'[m] = u
      BY <1>3, <2>2
    <3> QED
      BY <1>6, <1>7, <1>8, <3>1
  <2> QED
    BY <2>1, <2>2
<1>11. Queued'
  <2>1. DOMAIN reports' = 1..Len(reports') /\ Len(reports') \in Nat
    BY <1>3, <1>9 DEF Queued
  <2> QED
    BY <1>3, <1>10, <2>1 DEF Queued
<1>12. ASSUME NEW m \in DOMAIN reports
       PROVE  /\ reports'[m].items = reports[m].items
              /\ \A j \in DOMAIN reports[m].items : m # n \/ j # i =>
                   reports'[m].status[j] = reports[m].status[j]
  BY <1>3, <1>4, <1>5
<1>13. reports'[n].status[i] = t[3]
  BY <1>3, <1>4, <1>5
<1> QED
  BY <1>1, <1>3, <1>11, <1>12, <1>13

LEMMA AuditTellsAlways == ItemsSpec => [](Queued /\ AuditTells)
<1>1. ItemsInit => Queued /\ AuditTells
  BY DEF ItemsInit, Queued, AuditTells
<1>2. Queued /\ AuditTells /\ [ItemsNext]_itemVars => (Queued /\ AuditTells)'
  <2> SUFFICES ASSUME Queued, AuditTells, [ItemsNext]_itemVars PROVE (Queued /\ AuditTells)'
    OBVIOUS
  <2>1. ASSUME NEW inventory \in Inventories, NEW d \in Definitions, MakeReport(inventory, d)
        PROVE  (Queued /\ AuditTells)'
    <3> DEFINE l == Len(reports)
    <3>1. /\ Queued' /\ audit' = audit /\ Len(reports') = l + 1
          /\ \A n \in DOMAIN reports : n \in DOMAIN reports' /\ reports'[n] = reports[n]
          /\ \A i \in DOMAIN reports'[l + 1].items : reports'[l + 1].status[i] = "proposed"
      BY <2>1, ReportAdds
    <3>2. DOMAIN reports = 1..l /\ l \in Nat /\ DOMAIN reports' = 1..(l + 1)
      BY <3>1 DEF Queued
    <3> HIDE DEF l
    <3>3. \A k \in DOMAIN audit : audit[k].report \in DOMAIN reports
      BY DEF AuditTells
    <3>4. ASSUME NEW n \in DOMAIN reports', NEW i \in DOMAIN reports'[n].items
          PROVE  /\ \A k \in EventsFor(n, Id(n, i)', audit) :
                      Stage(audit[k].previous) < Stage(reports'[n].status[i])
                 /\ Told(reports'[n].status[i], EventsFor(n, Id(n, i)', audit), audit)
      <4>1. CASE n \in DOMAIN reports
        <5>1. reports'[n] = reports[n]
          BY <3>1, <4>1
        <5>2. Id(n, i)' = Id(n, i) /\ i \in DOMAIN reports[n].items
          BY <5>1 DEF Id
        <5> QED
          BY <4>1, <5>1, <5>2 DEF AuditTells
      <4>2. CASE n \notin DOMAIN reports
        <5>1. n = l + 1
          BY <3>2, <4>2
        <5>2. EventsFor(n, Id(n, i)', audit) = {}
          BY <3>3, <4>2 DEF EventsFor
        <5>3. reports'[n].status[i] = "proposed"
          BY <3>1, <5>1
        <5> QED
          BY <5>2, <5>3 DEF Told
      <4> QED
        BY <4>1, <4>2
    <3>5. /\ DOMAIN audit' = 1..Len(audit') /\ Len(audit') \in Nat
          /\ \A k \in DOMAIN audit' : audit'[k].customer = Customer /\ audit'[k].report \in DOMAIN reports'
          /\ \A j, k \in DOMAIN audit' :
               j < k /\ audit'[j].report = audit'[k].report /\ audit'[j].item = audit'[k].item
                 => Stage(audit'[j].previous) < Stage(audit'[k].previous)
      BY <3>1, <3>3 DEF AuditTells
    <3> QED
      BY <3>1, <3>4, <3>5 DEF AuditTells
  <2>2. ASSUME NEW o \in DOMAIN reports, NEW i \in DOMAIN reports[o].items, NEW c, NEW action, NEW a,
               Transition(o, i, c, action, a)
        PROVE  (Queued /\ AuditTells)'
    <3> DEFINE n == Len(audit)
    <3>1. /\ Queued' /\ DOMAIN reports' = DOMAIN reports
          /\ \A m \in DOMAIN reports :
               /\ reports'[m].items = reports[m].items
               /\ \A j \in DOMAIN reports[m].items : m # o \/ j # i =>
                    reports'[m].status[j] = reports[m].status[j]
      BY <2>2, StepOfItem
    <3>2. PICK t \in Allowed :
             /\ t[1] = reports[o].status[i] /\ t[2] = action /\ reports'[o].status[i] = t[3]
             /\ audit' = Append(audit, [report |-> o, item |-> Id(o, i),
                                        customer |-> Customer, actor |-> a,
                                        action |-> action, previous |-> t[1], new |-> t[3]])
      BY <2>2, StepOfItem
    <3>3. \A m \in DOMAIN reports : \A j : Id(m, j)' = Id(m, j)
      BY <3>1 DEF Id
    <3>4. /\ Len(audit') = n + 1 /\ n \in Nat /\ DOMAIN audit' = 1..(n + 1) /\ DOMAIN audit = 1..n
          /\ \A k \in 1..n : audit'[k] = audit[k]
          /\ audit'[n + 1].report = o /\ audit'[n + 1].item = Id(o, i)
          /\ audit'[n + 1].customer = Customer
          /\ audit'[n + 1].previous = t[1] /\ audit'[n + 1].action = t[2]
      BY <3>2 DEF AuditTells
    <3> HIDE DEF n
    <3>5. \A k \in 1..(n + 1) : k \in 1..n \/ k = n + 1
      BY <3>4
    <3>6. Stage(t[1]) < Stage(t[3])
      BY StepsLeadOn
    <3>7. \A m \in DOMAIN reports : \A j \in DOMAIN reports[m].items :
             Id(m, j) = Id(o, i) /\ m = o => j = i
      BY DEF Queued, QueueIsRight, IdsDiffer, Id
    <3>8. \A k \in 1..n : audit[k].customer = Customer /\ audit[k].report \in DOMAIN reports
      BY <3>4 DEF AuditTells
    <3>9. \A k \in DOMAIN audit' : audit'[k].customer = Customer /\ audit'[k].report \in DOMAIN reports'
      BY <3>1, <3>4, <3>5, <3>8
    <3>10. ASSUME NEW j \in DOMAIN audit', NEW k \in DOMAIN audit', j < k,
                  audit'[j].report = audit'[k].report, audit'[j].item = audit'[k].item
           PROVE  Stage(audit'[j].previous) < Stage(audit'[k].previous)
      <4>1. j \in 1..n
        BY <3>4, <3>10
      <4>2. CASE k = n + 1
        <5>1. j \in EventsFor(o, Id(o, i), audit)
          BY <3>4, <3>10, <4>1, <4>2 DEF EventsFor
        <5>2. Stage(audit[j].previous) < Stage(reports[o].status[i])
          BY <5>1 DEF AuditTells
        <5> QED
          BY <3>2, <3>4, <4>1, <4>2, <5>2
      <4>3. CASE k \in 1..n
        BY <3>4, <3>10, <4>1, <4>3 DEF AuditTells
      <4> QED
        BY <3>4, <3>5, <4>2, <4>3
    <3>11. ASSUME NEW m \in DOMAIN reports', NEW j \in DOMAIN reports'[m].items
           PROVE  /\ \A k \in EventsFor(m, Id(m, j)', audit') :
                       Stage(audit'[k].previous) < Stage(reports'[m].status[j])
                  /\ Told(reports'[m].status[j], EventsFor(m, Id(m, j)', audit'), audit')
      <4> DEFINE E == EventsFor(m, Id(m, j), audit)
                 F == EventsFor(m, Id(m, j)', audit')
      <4>0. m \in DOMAIN reports /\ j \in DOMAIN reports[m].items /\ Id(m, j)' = Id(m, j)
        BY <3>1, <3>3
      <4>1. /\ Told(reports[m].status[j], E, audit)
            /\ \A k \in E : Stage(audit[k].previous) < Stage(reports[m].status[j])
        BY <4>0 DEF AuditTells
      <4>2. \A k \in E : k \in 1..n /\ audit'[k] = audit[k] /\ audit'[k].action = audit[k].action
        BY <3>4 DEF EventsFor
      <4>3. CASE m # o \/ j # i
        <5>1. ~(m = o /\ Id(m, j) = Id(o, i))
          BY <3>7, <4>0, <4>3
        <5>2. F = E
          BY <3>4, <3>5, <4>0, <5>1 DEF EventsFor
        <5>3. reports'[m].status[j] = reports[m].status[j]
          BY <3>1, <4>0, <4>3
        <5> HIDE DEF E, F
        <5>4. Told(reports'[m].status[j], F, audit')
          BY <4>1, <4>2, <5>2, <5>3, ToldOfSame
        <5> QED
          BY <4>1, <4>2, <5>2, <5>3, <5>4 DEF F
      <4>4. CASE m = o /\ j = i
        <5>1. F = E \cup {n + 1}
          BY <3>4, <3>5, <4>0, <4>4 DEF EventsFor
        <5>2. \A k \in E : k < n + 1
          BY <3>4, <4>2
        <5>3. reports'[m].status[j] = t[3] /\ reports[m].status[j] = t[1] /\ audit'[n + 1].action = t[2]
          BY <3>2, <3>4, <4>4
        <5> HIDE DEF E, F
        <5>4. ASSUME NEW k \in F PROVE Stage(audit'[k].previous) < Stage(t[3])
          <6>1. CASE k = n + 1
            BY <3>4, <3>6, <6>1
          <6>2. CASE k \in E
            <7>1. Stage(audit'[k].previous) < Stage(t[1])
              BY <4>1, <4>2, <5>3, <6>2
            <7> QED
              BY <3>6, <7>1, StageType
          <6> QED
            BY <5>1, <6>1, <6>2
        <5>5. Told(t[3], F, audit')
          <6>1. Told(t[1], E, audit) /\ n \in Nat /\ audit'[n + 1].action = t[2]
            BY <3>4, <4>1, <5>3
          <6>2. \A k \in E : k < n + 1 /\ audit'[k].action = audit[k].action
            BY <4>2, <5>2
          <6>3. Told(t[3], E \cup {n + 1}, audit')
            BY <6>1, <6>2, ToldOfStep
          <6> QED
            BY <5>1, <6>3
        <5> QED
          BY <5>3, <5>4, <5>5 DEF F
      <4> QED
        BY <4>3, <4>4
    <3> QED
      BY <3>1, <3>4, <3>9, <3>10, <3>11 DEF AuditTells
  <2>3. CASE UNCHANGED itemVars
    BY <2>3 DEF itemVars, Queued, AuditTells, Id
  <2> QED
    BY <2>1, <2>2, <2>3 DEF ItemsNext
<1> QED
  BY <1>1, <1>2, PTL DEF ItemsSpec

LEMMA EventsAreTold ==
    ASSUME Queued, AuditTells
    PROVE  AuditIdsDiffer /\ ClosedIsEarned
<1>1. AuditIdsDiffer
  <2> SUFFICES ASSUME NEW i \in DOMAIN audit, NEW j \in DOMAIN audit,
                      AuditId(audit[i]) = AuditId(audit[j]), audit[i].report = audit[j].report, i # j
               PROVE  FALSE
    BY DEF AuditIdsDiffer
  <2>1. i \in Nat /\ j \in Nat /\ (i < j \/ j < i)
    BY DEF AuditTells
  <2>2. audit[i].item = audit[j].item /\ audit[i].previous = audit[j].previous
    BY DEF AuditId
  <2>3. /\ i < j => Stage(audit[i].previous) < Stage(audit[j].previous)
        /\ j < i => Stage(audit[j].previous) < Stage(audit[i].previous)
    BY <2>2 DEF AuditTells
  <2> QED
    BY <2>1, <2>2, <2>3, StageType
<1>2. ClosedIsEarned
  <2> SUFFICES ASSUME NEW n \in DOMAIN reports, NEW i \in DOMAIN reports[n].items,
                      reports[n].status[i] = "closed"
               PROVE  /\ \E a, b, c, d \in StepsOf(n, i) :
                           /\ StepsOf(n, i) = {a, b, c, d} /\ a < b /\ b < c /\ c < d
                           /\ audit[a].action = "approve" /\ audit[b].action = "start"
                           /\ audit[c].action = "validate" /\ audit[d].action = "close"
                      /\ \A k \in StepsOf(n, i) : audit[k].customer = Customer
    BY DEF ClosedIsEarned
  <2>1. StepsOf(n, i) = EventsFor(n, Id(n, i), audit)
    BY DEF StepsOf, EventsFor, Id
  <2>2. Told("closed", EventsFor(n, Id(n, i), audit), audit)
    BY DEF AuditTells
  <2>3. \A k \in StepsOf(n, i) : audit[k].customer = Customer
    BY DEF StepsOf, AuditTells
  <2> QED
    BY <2>1, <2>2, <2>3 DEF Told
<1> QED
  BY <1>1, <1>2

\* For any inventories, definitions, logins and actors, in queues of any length
\* and any number of reports on the same findings.
THEOREM QueuesAreSound == ItemsSpec => []QueueIsSound
<1>1. Queued => ItemsAreListed /\ UrgentFirst
  BY DEF Queued, QueueIsRight, ItemsAreListed, UrgentFirst
<1>2. Queued /\ AuditTells => QueueIsSound
  BY <1>1, EventsAreTold DEF QueueIsSound
<1> QED
  BY <1>2, AuditTellsAlways, PTL

-----------------------------------------------------------------------------
(* The cost of outcomes *)

\* A report is of the events that are there, and was made of these.
LedgerFollows ==
    /\ traces \in Seq(Outcomes)
    /\ ledger # NoLedger =>
         /\ Unique
         /\ ledger.cost = [w \in Workflows |-> WorkflowCost(w)]
         /\ ledger.total = TotalSpend /\ ledger.waste = Waste

LEMMA LedgerFollowsAlways == OutcomeSpec => []LedgerFollows
<1>1. OutcomeInit => LedgerFollows
  BY DEF OutcomeInit, LedgerFollows
<1>2. LedgerFollows /\ [OutcomeNext]_outcomeVars => LedgerFollows'
  <2> SUFFICES ASSUME LedgerFollows, [OutcomeNext]_outcomeVars PROVE LedgerFollows'
    OBVIOUS
  <2>1. ASSUME NEW e \in Outcomes, Export(e) PROVE LedgerFollows'
    BY <2>1 DEF Export, LedgerFollows
  <2> DEFINE report == [cost |-> [w \in Workflows |-> WorkflowCost(w)],
                        total |-> TotalSpend, waste |-> Waste]
  <2>2. ASSUME traces' = traces PROVE report' = report /\ (Unique' <=> Unique)
    BY <2>2 DEF Workflows, WorkflowCost, TotalSpend, Waste, EventCost, EventsOf, Weight, Tokens,
                TokensOf, DirectOf, Wasted, Unique
  <2>3. ASSUME NEW ks, NEW a, EvaluateValue(ks, a) PROVE LedgerFollows'
    <3>1. /\ traces' = traces /\ Unique
          /\ ledger'.cost = report.cost /\ ledger'.total = report.total /\ ledger'.waste = report.waste
      BY <2>3 DEF EvaluateValue
    <3>2. report' = report /\ Unique'
      BY <2>2, <3>1
    <3> QED
      BY <3>1, <3>2 DEF LedgerFollows
  <2>4. CASE UNCHANGED outcomeVars
    <3>1. traces' = traces /\ ledger' = ledger
      BY <2>4 DEF outcomeVars
    <3>2. report' = report /\ (Unique' <=> Unique)
      BY <2>2, <3>1
    <3> QED
      BY <3>1, <3>2 DEF LedgerFollows
  <2> QED
    BY <2>1, <2>3, <2>4 DEF OutcomeNext
<1> QED
  BY <1>1, <1>2, PTL DEF OutcomeSpec

\* Places of the file and what stands there.
LEMMA TracesType ==
    ASSUME traces \in Seq(Outcomes)
    PROVE  /\ IsFiniteSet(DOMAIN traces)
           /\ \A i \in DOMAIN traces :
                /\ TokensOf[i] \in Nat /\ DirectOf[i] \in Nat /\ traces[i].attempt \in Nat \ {0}
                /\ TokensOf[i] = traces[i].tokens /\ DirectOf[i] = traces[i].direct
<1>1. DOMAIN traces = 1..Len(traces) /\ Len(traces) \in Nat
  OBVIOUS
<1>2. IsFiniteSet(DOMAIN traces)
  BY <1>1, FS_Interval
<1>3. \A i \in DOMAIN traces : traces[i] \in Outcomes
  BY <1>1
<1> QED
  BY <1>2, <1>3, OutcomeAssumption DEF TokensOf, DirectOf

LEMMA WeightType ==
    ASSUME traces \in Seq(Outcomes)
    PROVE  Tokens \in Nat /\ Weight \in Nat \ {0}
<1> DEFINE zero == [i \in DOMAIN traces |-> 0]
           D == DOMAIN traces
<1>1. IsFiniteSet(D) /\ \A i \in D : TokensOf[i] \in Int /\ zero[i] \in Int /\ zero[i] <= TokensOf[i]
  BY TracesType
<1>2. SumOver(zero, D) = 0
  BY <1>1, SumOfNothing
<1> HIDE DEF zero, D
<1>3. SumOver(TokensOf, D) \in Int
  BY <1>1, SumType
<1>4. SumOver(zero, D) <= SumOver(TokensOf, D)
  BY <1>1, SumGrows
<1> QED
  BY <1>2, <1>3, <1>4 DEF Tokens, Weight, D

\* Where no event has tokens no event has any.
LEMMA NoTokens ==
    ASSUME traces \in Seq(Outcomes), Tokens = 0
    PROVE  \A i \in DOMAIN traces : TokensOf[i] = 0
<1> SUFFICES ASSUME NEW i \in DOMAIN traces, TokensOf[i] > 0 PROVE FALSE
  BY TracesType
<1> DEFINE D == DOMAIN traces
           one == [j \in D |-> IF j = i THEN TokensOf[i] ELSE 0]
<1>1. IsFiniteSet(D) /\ \A j \in D : TokensOf[j] \in Int /\ one[j] \in Int /\ one[j] <= TokensOf[j]
  BY TracesType
<1>2. i \in D /\ one[i] = TokensOf[i] /\ \A j \in D \ {i} : one[j] = 0
  OBVIOUS
<1> HIDE DEF one, D
<1>3. SumOver(one, D) = TokensOf[i]
  BY <1>1, <1>2, SumOfOne
<1>4. SumOver(one, D) <= SumOver(TokensOf, D)
  BY <1>1, SumGrows
<1> QED
  BY <1>1, <1>2, <1>3, <1>4 DEF Tokens, D

\* The platform is spread to the last token.
Spread == IF Tokens = 0 THEN 0 ELSE Platform

LEMMA AllIsSpread ==
    ASSUME traces \in Seq(Outcomes)
    PROVE  /\ \A i \in DOMAIN traces : EventCost[i] \in Int
           /\ SumOver(DirectOf, DOMAIN traces) \in Int
           /\ SumOver(EventCost, DOMAIN traces)
                = Weight * (SumOver(DirectOf, DOMAIN traces) + Spread)
<1> DEFINE D == DOMAIN traces
           a == [i \in D |-> Weight * DirectOf[i]]
           t == [i \in D |-> Platform * TokensOf[i]]
           h == [i \in D |-> a[i] + t[i]]
<1>1. /\ IsFiniteSet(D) /\ Weight \in Int /\ Platform \in Int /\ Tokens \in Int
      /\ \A i \in D : DirectOf[i] \in Int /\ TokensOf[i] \in Int
  BY TracesType, WeightType, OutcomeAssumption
<1>2. \A i \in D : a[i] \in Int /\ t[i] \in Int /\ h[i] = a[i] + t[i]
  BY <1>1
<1>3. ASSUME NEW i \in D PROVE EventCost[i] = h[i] /\ EventCost[i] \in Int
  <2>1. EventCost[i] = DirectOf[i] * Weight + Platform * TokensOf[i]
    BY TracesType DEF EventCost
  <2>2. h[i] = Weight * DirectOf[i] + Platform * TokensOf[i]
    OBVIOUS
  <2>3. DirectOf[i] * Weight = Weight * DirectOf[i] /\ DirectOf[i] * Weight \in Int
        /\ Platform * TokensOf[i] \in Int
    BY <1>1
  <2> HIDE DEF h
  <2> QED
    BY <2>1, <2>2, <2>3
<1>4. SumOver(a, D) = Weight * SumOver(DirectOf, D)
  <2> HIDE DEF D
  <2> QED
    BY <1>1, SumTimes
<1>5. SumOver(t, D) = Platform * SumOver(TokensOf, D)
  <2> HIDE DEF D
  <2> QED
    BY <1>1, SumTimes
<1>6. SumOver(h, D) = SumOver(a, D) + SumOver(t, D)
  <2> HIDE DEF D, a, t
  <2> QED
    BY <1>1, <1>2, SumPlus
<1>7. SumOver(EventCost, D) = SumOver(h, D)
  <2> HIDE DEF D, h
  <2> QED
    BY <1>1, <1>3, SumOfSame
<1>8. SumOver(DirectOf, D) \in Int
  <2> HIDE DEF D
  <2> QED
    BY <1>1, SumType
<1>9. Platform * Tokens = Weight * Spread
  <2>1. CASE Tokens = 0
    BY <1>1, <2>1 DEF Spread
  <2>2. CASE Tokens # 0
    BY <1>1, <2>2 DEF Spread, Weight
  <2> QED
    BY <2>1, <2>2
<1>10. Spread \in Int
  BY <1>1 DEF Spread
<1>11. SumOver(EventCost, D) = Weight * SumOver(DirectOf, D) + Weight * Spread
  BY <1>4, <1>5, <1>6, <1>7, <1>9 DEF Tokens
<1> DEFINE x == SumOver(DirectOf, D)
<1>12. Weight * (x + Spread) = Weight * x + Weight * Spread
  <2> HIDE DEF x
  <2> QED
    BY <1>1, <1>8, <1>10 DEF x
<1> QED
  BY <1>3, <1>8, <1>11, <1>12

\* Each event is of one workflow.
LEMMA WorkflowsShareAll ==
    ASSUME traces \in Seq(Outcomes)
    PROVE  /\ IsFiniteSet(Workflows)
           /\ \A w \in Workflows : SumOver(EventCost, EventsOf(w)) \in Int
           /\ SumOver([w \in Workflows |-> SumOver(EventCost, EventsOf(w))], Workflows)
                = SumOver(EventCost, DOMAIN traces)
<1> DEFINE D == DOMAIN traces
           part(w) == [i \in D |-> IF i \in EventsOf(w) THEN EventCost[i] ELSE 0]
           f == [w \in Workflows |-> part(w)]
           shares == [w \in Workflows |-> SumOver(f[w], D)]
           costs == [i \in D |-> SumOver([w \in Workflows |-> f[w][i]], Workflows)]
<1>1. IsFiniteSet(D) /\ \A i \in D : EventCost[i] \in Int
  BY TracesType, AllIsSpread
<1>2. IsFiniteSet(Workflows)
  <2> DEFINE name == [i \in D |-> traces[i].workflow]
  <2>1. Workflows = {name[i] : i \in D}
    BY DEF Workflows
  <2> HIDE DEF name, D
  <2> QED
    BY <1>1, <2>1, ImageIsFinite
<1>3. \A w : EventsOf(w) \subseteq D
  BY DEF EventsOf
<1>4. ASSUME NEW w PROVE SumOver(EventCost, EventsOf(w)) = SumOver(part(w), D) /\ SumOver(part(w), D) \in Int
  <2> DEFINE P == EventsOf(w)
  <2>1. P \subseteq D
    BY <1>3
  <2> HIDE DEF D, P
  <2>2. SumOver(EventCost, P) = SumOver([i \in D |-> IF i \in P THEN EventCost[i] ELSE 0], D)
    BY <1>1, <2>1, SumOfPart
  <2>3. SumOver(EventCost, P) \in Int
    BY <1>1, <2>1, SumType
  <2> QED
    BY <2>2, <2>3 DEF P
<1>5. \A w \in Workflows : \A i \in D :
         f[w][i] = (IF i \in EventsOf(w) THEN EventCost[i] ELSE 0) /\ f[w][i] \in Int
  BY <1>1
<1>6. SumOver(shares, Workflows) = SumOver(costs, D)
  <2> HIDE DEF f, D
  <2> QED
    BY <1>1, <1>2, <1>5, SumExchange
<1>7. ASSUME NEW i \in D PROVE costs[i] = EventCost[i]
  <2> DEFINE c == traces[i].workflow
             g == [w \in Workflows |-> f[w][i]]
  <2>1. c \in Workflows /\ i \in EventsOf(c) /\ \A w \in Workflows \ {c} : i \notin EventsOf(w)
    BY DEF Workflows, EventsOf
  <2>2. g[c] = EventCost[i] /\ \A w \in Workflows \ {c} : g[w] = 0
    BY <1>5, <2>1
  <2>3. costs[i] = SumOver(g, Workflows)
    OBVIOUS
  <2> HIDE DEF g, c, costs
  <2>4. SumOver(g, Workflows) = g[c]
    BY <1>1, <1>2, <2>1, <2>2, SumOfOne
  <2> QED
    BY <2>2, <2>3, <2>4
<1>8. SumOver(costs, D) = SumOver(EventCost, D)
  <2> HIDE DEF costs, D
  <2> QED
    BY <1>1, <1>7, SumOfSame
<1>9. [w \in Workflows |-> SumOver(EventCost, EventsOf(w))] = shares
  BY <1>4
<1> QED
  BY <1>2, <1>4, <1>6, <1>8, <1>9

\* With unique ids, the first event of an id is the event.
LEMMA OnceIsAll ==
    ASSUME traces \in Seq(Outcomes), Unique
    PROVE  SumOver([id \in Ids |-> traces[First(id)].direct], Ids) = SumOver(DirectOf, DOMAIN traces)
<1> DEFINE D == DOMAIN traces
           part(id) == [i \in D |-> IF i = First(id) THEN DirectOf[i] ELSE 0]
           f == [id \in Ids |-> part(id)]
           shares == [id \in Ids |-> SumOver(f[id], D)]
           costs == [i \in D |-> SumOver([id \in Ids |-> f[id][i]], Ids)]
<1>1. IsFiniteSet(D) /\ \A i \in D : DirectOf[i] \in Int /\ DirectOf[i] = traces[i].direct
  BY TracesType
<1>2. IsFiniteSet(Ids)
  <2> DEFINE name == [i \in D |-> traces[i].id]
  <2>1. Ids = {name[i] : i \in D}
    BY DEF Ids
  <2> HIDE DEF name, D
  <2> QED
    BY <1>1, <2>1, ImageIsFinite
<1>3. \A i \in D : traces[i].id \in Ids /\ First(traces[i].id) = i
  <2> SUFFICES ASSUME NEW i \in D PROVE First(traces[i].id) = i
    BY DEF Ids
  <2>1. D = 1..Len(traces) /\ Len(traces) \in Nat
    OBVIOUS
  <2>2. \A j \in D : traces[j].id = traces[i].id => j = i
    BY DEF Unique
  <2>3. \A j \in 1..(i - 1) : traces[j].id # traces[i].id
    BY <2>1, <2>2
  <2> QED
    BY <2>2, <2>3 DEF First
<1>4. ASSUME NEW id \in Ids
      PROVE  First(id) \in D /\ traces[First(id)].id = id
  BY <1>3 DEF Ids
<1>5. \A id \in Ids : \A i \in D :
         f[id][i] = (IF i = First(id) THEN DirectOf[i] ELSE 0) /\ f[id][i] \in Int
  BY <1>1
<1>6. SumOver(shares, Ids) = SumOver(costs, D)
  <2> HIDE DEF f, D
  <2> QED
    BY <1>1, <1>2, <1>5, SumExchange
<1>7. ASSUME NEW i \in D PROVE costs[i] = DirectOf[i]
  <2> DEFINE c == traces[i].id
             g == [id \in Ids |-> f[id][i]]
  <2>1. c \in Ids /\ i = First(c) /\ \A id \in Ids \ {c} : i # First(id)
    BY <1>3, <1>4
  <2>2. g[c] = DirectOf[i] /\ \A id \in Ids \ {c} : g[id] = 0
    BY <1>5, <2>1
  <2>3. costs[i] = SumOver(g, Ids)
    OBVIOUS
  <2> HIDE DEF g, c, costs
  <2>4. SumOver(g, Ids) = g[c]
    BY <1>1, <1>2, <2>1, <2>2, SumOfOne
  <2> QED
    BY <2>2, <2>3, <2>4
<1>8. SumOver(costs, D) = SumOver(DirectOf, D)
  <2> HIDE DEF costs, D
  <2> QED
    BY <1>1, <1>7, SumOfSame
<1>9. ASSUME NEW id \in Ids PROVE shares[id] = traces[First(id)].direct
  <2> DEFINE g == f[id]
             c == First(id)
  <2>1. c \in D /\ g[c] = DirectOf[c] /\ DirectOf[c] = traces[c].direct /\ g[c] \in Int
        /\ \A i \in D \ {c} : g[i] = 0
    BY <1>1, <1>4, <1>5
  <2>2. shares[id] = SumOver(g, D)
    OBVIOUS
  <2> HIDE DEF g, c, D, shares
  <2>3. SumOver(g, D) = g[c]
    BY <1>1, <2>1, SumOfOne
  <2> QED
    BY <2>1, <2>2, <2>3 DEF c
<1>10. [id \in Ids |-> traces[First(id)].direct] = shares
  BY <1>9
<1> QED
  BY <1>6, <1>8, <1>10

\* Waste is what is not useful.
LEMMA WasteOrUse ==
    ASSUME traces \in Seq(Outcomes)
    PROVE  LET useful == {i \in DOMAIN traces : traces[i].attempt = 1 /\ traces[i].accepted}
           IN  /\ SumOver(EventCost, Wasted) \in Int /\ SumOver(EventCost, useful) \in Int
               /\ SumOver(EventCost, DOMAIN traces)
                    = SumOver(EventCost, Wasted) + SumOver(EventCost, useful)
<1> DEFINE D == DOMAIN traces
           useful == {i \in D : traces[i].attempt = 1 /\ traces[i].accepted}
           a == [i \in D |-> IF i \in Wasted THEN EventCost[i] ELSE 0]
           b == [i \in D |-> IF i \in useful THEN EventCost[i] ELSE 0]
           h == [i \in D |-> a[i] + b[i]]
<1>1. /\ IsFiniteSet(D) /\ \A i \in D : EventCost[i] \in Int
      /\ \A i \in D : traces[i].attempt \in Nat \ {0}
  BY TracesType, AllIsSpread
<1>2. Wasted \subseteq D /\ useful \subseteq D /\ \A i \in D : i \in useful <=> i \notin Wasted
  BY <1>1 DEF Wasted
<1> HIDE DEF D, useful
<1>3. SumOver(EventCost, Wasted) = SumOver(a, D)
  BY <1>1, <1>2, SumOfPart
<1>4. SumOver(EventCost, useful) = SumOver(b, D)
  BY <1>1, <1>2, SumOfPart
<1>5. \A i \in D : a[i] \in Int /\ b[i] \in Int /\ h[i] = a[i] + b[i] /\ EventCost[i] = h[i]
  BY <1>1, <1>2
<1>6. SumOver(h, D) = SumOver(a, D) + SumOver(b, D)
  <2> HIDE DEF a, b
  <2> QED
    BY <1>1, <1>5, SumPlus
<1>7. SumOver(EventCost, D) = SumOver(h, D)
  <2> HIDE DEF h
  <2> QED
    BY <1>1, <1>5, SumOfSame
<1>8. SumOver(EventCost, Wasted) \in Int /\ SumOver(EventCost, useful) \in Int
  BY <1>1, <1>2, SumType
<1> QED
  BY <1>3, <1>4, <1>6, <1>7, <1>8 DEF D, useful

LEMMA FollowingBalances == LedgerFollows => LedgerBalances
<1> SUFFICES ASSUME LedgerFollows, ledger # NoLedger PROVE LedgerBalances
  BY DEF LedgerBalances, SpendIsOwned, WasteIsTheRest
<1> DEFINE D == DOMAIN traces
           all == SumOver(DirectOf, D)
           shares == [w \in Workflows |-> SumOver(EventCost, EventsOf(w))]
<1>1. /\ traces \in Seq(Outcomes) /\ Unique
      /\ ledger.cost = [w \in Workflows |-> WorkflowCost(w)]
      /\ ledger.total = TotalSpend /\ ledger.waste = Waste
  BY DEF LedgerFollows
<1>2. Weight \in Nat \ {0} /\ Tokens \in Nat /\ Platform \in Nat /\ Spread \in Int
  BY <1>1, WeightType, OutcomeAssumption DEF Spread
<1>3. all \in Int /\ SumOver(EventCost, D) = Weight * (all + Spread)
  BY <1>1, AllIsSpread
<1>4. SpendIsOwned
  <2> DEFINE cost == ledger.cost
             due == all + Spread
  <2>1. IsFiniteSet(Workflows)
    BY <1>1, WorkflowsShareAll
  <2>2. \A w \in Workflows : shares[w] \in Int /\ cost[w] = RoundHalfEven(shares[w], Weight)
    BY <1>1, WorkflowsShareAll DEF WorkflowCost
  <2>3. SumOver(shares, Workflows) = Weight * due
    BY <1>1, <1>3, WorkflowsShareAll
  <2>4. due \in Int
    BY <1>2, <1>3
  <2>5. DOMAIN cost = Workflows
    BY <1>1
  <2>6. SumOver([id \in Ids |-> traces[First(id)].direct], Ids) = all
    BY <1>1, OnceIsAll
  <2> HIDE DEF cost, shares
  <2>7. 2 * (SumOver(cost, Workflows) - due) \in (-Cardinality(Workflows))..Cardinality(Workflows)
    <3> HIDE DEF due
    <3> QED
      BY <1>2, <2>1, <2>2, <2>3, <2>4, RoundedSum
  <2> QED
    BY <2>5, <2>6, <2>7 DEF SpendIsOwned, Spread, cost
<1>5. WasteIsTheRest
  <2> SUFFICES ASSUME Tokens > 0
               PROVE  LET useful == {i \in D : traces[i].attempt = 1 /\ traces[i].accepted}
                          rest == SumOver(EventCost, useful)
                      IN  2 * (Weight * (ledger.total - ledger.waste) - rest) \in (-Weight)..Weight
    BY DEF WasteIsTheRest
  <2> DEFINE useful == {i \in D : traces[i].attempt = 1 /\ traces[i].accepted}
             rest == SumOver(EventCost, useful)
             lost == SumOver(EventCost, Wasted)
             waste == RoundHalfEven(lost, Weight)
             total == all + Platform
  <2>1. rest \in Int /\ lost \in Int /\ SumOver(EventCost, D) = lost + rest
    BY <1>1, WasteOrUse
  <2>2. ledger.total = total /\ ledger.waste = waste
    BY <1>1 DEF TotalSpend, Waste
  <2>3. Weight * total = lost + rest
    BY <1>2, <1>3, <2>1 DEF Spread
  <2>4. total \in Int
    BY <1>2, <1>3
  <2> HIDE DEF total, rest, lost, waste
  <2>5. waste \in Int /\ 2 * (Weight * waste - lost) \in (-Weight)..Weight
    BY <1>2, <2>1, Rounded DEF waste
  <2>6. Weight * (total - waste) = Weight * total - Weight * waste
    BY <1>2, <2>4, <2>5
  <2>7. 2 * (Weight * (total - waste) - rest) \in (-Weight)..Weight
    <3>1. Weight * (total - waste) - rest = lost - Weight * waste /\ Weight * waste \in Int
      BY <1>2, <2>1, <2>3, <2>5, <2>6
    <3> QED
      BY <1>2, <2>1, <2>5, <3>1
  <2> QED
    BY <2>2, <2>7 DEF rest
<1> QED
  BY <1>4, <1>5 DEF LedgerBalances

\* For any events, workflows and prices, and files of any length.
THEOREM LedgersBalance == OutcomeSpec => []LedgerBalances
BY LedgerFollowsAlways, FollowingBalances, PTL

-----------------------------------------------------------------------------
(* The allocation of costs *)

\* A bill is a sequence of cost records.
Billed == bill \in Seq(CostRecords)

LEMMA BilledAlways == CostSpec => []Billed
<1>1. CostInit => Billed
  BY DEF CostInit, Billed
<1>2. Billed /\ [CostNext]_bill => Billed'
  BY DEF CostNext, AddRecord, Billed
<1> QED
  BY <1>1, <1>2, PTL DEF CostSpec

LEMMA BillType ==
    ASSUME Billed
    PROVE  IsFiniteSet(DOMAIN bill) /\ \A i \in DOMAIN bill : bill[i].cost \in Nat
<1>1. DOMAIN bill = 1..Len(bill) /\ Len(bill) \in Nat
  BY DEF Billed
<1>2. IsFiniteSet(DOMAIN bill)
  BY <1>1, FS_Interval
<1>3. \A i \in DOMAIN bill : bill[i] \in CostRecords
  BY <1>1 DEF Billed
<1> QED
  BY <1>2, <1>3, CostAssumption

LEMMA TotalType ==
    ASSUME NEW d \in Usable
    PROVE  /\ d \in Drivers /\ TotalWeight(d) \in Nat \ {0} /\ \A s \in Services : Weights[d][s] \in Int
           /\ Denominator \div TotalWeight(d) \in Nat
           /\ (Denominator \div TotalWeight(d)) * TotalWeight(d) = Denominator
<1>1. d \in Drivers /\ TotalWeight(d) > 0 /\ \A s \in Services : Weights[d][s] \in Int
  BY WeightAssumption DEF Usable
<1>2. TotalWeight(d) \in Int
  <2> DEFINE w == Weights[d]
  <2>1. IsFiniteSet(Services) /\ \A s \in Services : w[s] \in Int
    BY <1>1, WeightAssumption
  <2> HIDE DEF w
  <2>2. SumOver(w, Services) \in Int
    BY <2>1, SumType
  <2> QED
    BY <2>2 DEF TotalWeight, w
<1> DEFINE t == TotalWeight(d)
<1>3. t \in Nat \ {0} /\ Denominator % t = 0 /\ Denominator \in Nat \ {0}
  BY <1>1, <1>2, DenominatorAssumption
<1> HIDE DEF t
<1>4. Denominator \div t \in Nat /\ Denominator = (t * (Denominator \div t)) + (Denominator % t)
  BY <1>3
<1>5. (Denominator \div t) * t = t * (Denominator \div t)
  BY <1>3, <1>4
<1> QED
  BY <1>1, <1>3, <1>4, <1>5 DEF t

LEMMA PartType ==
    ASSUME NEW r, r.cost \in Nat, NEW s \in Services
    PROVE  Part(r, s) \in Int
<1>1. CASE r.allocation = s
  BY <1>1, DenominatorAssumption DEF Part
<1>2. CASE r.allocation # s /\ Shared(r)
  <2> DEFINE w == Weights[r.driver][s]
             q == Denominator \div TotalWeight(r.driver)
  <2>1. w \in Int /\ q \in Int
    BY <1>2, TotalType DEF Shared
  <2>2. Part(r, s) = r.cost * w * q
    BY <1>2 DEF Part
  <2> HIDE DEF w, q
  <2> QED
    BY <2>1, <2>2
<1>3. CASE r.allocation # s /\ ~Shared(r)
  BY <1>3 DEF Part
<1> QED
  BY <1>1, <1>2, <1>3

\* A record is divided and nothing is left of it, or it is nobody's.
LEMMA RecordIsDivided ==
    ASSUME NEW r, r.cost \in Nat
    PROVE  SumOver([s \in Services |-> Part(r, s)], Services)
             = Denominator * (r.cost - (IF Lost(r) THEN r.cost ELSE 0))
<1> DEFINE p == [s \in Services |-> Part(r, s)]
<1>1. Denominator \in Nat \ {0} /\ IsFiniteSet(Services)
  BY DenominatorAssumption, WeightAssumption
<1>2. CASE r.allocation \in Services
  <2> DEFINE c == r.allocation
  <2>1. ~Lost(r) /\ ~Shared(r)
    BY <1>2 DEF Lost, Shared
  <2>2. p[c] = r.cost * Denominator /\ \A s \in Services \ {c} : p[s] = 0
    BY <1>2, <2>1 DEF Part
  <2>3. c \in Services /\ p[c] \in Int
    BY <1>1, <1>2, <2>2
  <2> HIDE DEF p, c
  <2>4. SumOver(p, Services) = p[c]
    BY <1>1, <2>2, <2>3, SumOfOne
  <2>5. Denominator * (r.cost - 0) = r.cost * Denominator
    BY <1>1
  <2> QED
    BY <2>1, <2>2, <2>4, <2>5 DEF p
<1>3. CASE Shared(r)
  <2> DEFINE w == Weights[r.driver]
             t == TotalWeight(r.driver)
             q == Denominator \div t
             k == r.cost * q
             h == [s \in Services |-> k * w[s]]
  <2>1. ~Lost(r) /\ r.allocation \notin Services /\ r.driver \in Usable
    BY <1>3 DEF Lost, Shared
  <2>2. /\ t \in Nat /\ q \in Nat /\ q * t = Denominator
        /\ \A s \in Services : w[s] \in Int
    BY <2>1, TotalType
  <2>3. t = SumOver(w, Services)
    BY DEF TotalWeight
  <2>4. \A s \in Services : p[s] = r.cost * w[s] * q
    BY <1>3, <2>1 DEF Part
  <2> HIDE DEF p, w, t, q
  <2>5. k \in Int
    BY <2>2
  <2>6. ASSUME NEW s \in Services PROVE p[s] = h[s]
    <3>1. r.cost * w[s] * q = r.cost * q * w[s]
      <4>1. w[s] \in Int /\ q \in Int /\ r.cost \in Int
        BY <2>2
      <4> QED
        BY <4>1
    <3> QED
      BY <2>4, <3>1
  <2> HIDE DEF k
  <2>7. SumOver(h, Services) = k * t
    BY <1>1, <2>2, <2>3, <2>5, SumTimes
  <2> HIDE DEF h
  <2>8. SumOver(p, Services) = SumOver(h, Services)
    BY <1>1, <2>6, SumOfSame
  <2>9. k * t = Denominator * (r.cost - 0)
    <3>1. r.cost * q * t = r.cost * (q * t)
      BY <2>2
    <3>2. r.cost * Denominator = Denominator * (r.cost - 0)
      BY <1>1
    <3> QED
      BY <2>2, <3>1, <3>2 DEF k
  <2> QED
    BY <2>1, <2>7, <2>8, <2>9 DEF p
<1>4. CASE r.allocation \notin Services /\ ~Shared(r)
  <2> DEFINE z == [s \in Services |-> 0]
  <2>1. Lost(r) /\ p = z
    BY <1>4 DEF Lost, Part
  <2>2. SumOver(z, Services) = 0
    BY <1>1, SumOfNothing
  <2>3. Denominator * (r.cost - r.cost) = 0
    BY <1>1
  <2> QED
    BY <2>1, <2>2, <2>3
<1> QED
  BY <1>2, <1>3, <1>4

LEMMA BillIsDivided ==
    ASSUME Billed
    PROVE  /\ Unallocated \in Int /\ TotalCost \in Int
           /\ \A s \in Services : OverBill(Parts(s)) \in Int
           /\ SumOver([s \in Services |-> OverBill(Parts(s))], Services)
                = Denominator * (TotalCost - Unallocated)
<1> DEFINE D == DOMAIN bill
           f == [s \in Services |-> Parts(s)]
           columns == [i \in D |-> SumOver([s \in Services |-> f[s][i]], Services)]
           borne == [i \in D |-> Costs[i] + (-1) * Nobodys[i]]
           minus == [i \in D |-> (-1) * Nobodys[i]]
           h == [i \in D |-> Denominator * borne[i]]
<1>1. IsFiniteSet(D) /\ IsFiniteSet(Services) /\ Denominator \in Int
  BY BillType, WeightAssumption, DenominatorAssumption
<1>2. \A i \in D : Costs[i] \in Int /\ Nobodys[i] \in Int
  BY BillType DEF Costs, Nobodys
<1>3. \A s \in Services : \A i \in D : f[s][i] = Part(bill[i], s) /\ f[s][i] \in Int
  BY BillType, PartType DEF Parts
<1>4. ASSUME NEW i \in D PROVE columns[i] = h[i]
  <2>1. columns[i] = SumOver([s \in Services |-> Part(bill[i], s)], Services)
    <3>1. [s \in Services |-> f[s][i]] = [s \in Services |-> Part(bill[i], s)]
      BY <1>3
    <3> QED
      BY <3>1
  <2>2. columns[i] = Denominator * (bill[i].cost - (IF Lost(bill[i]) THEN bill[i].cost ELSE 0))
    BY <2>1, BillType, RecordIsDivided
  <2>3. borne[i] = bill[i].cost - (IF Lost(bill[i]) THEN bill[i].cost ELSE 0)
    <3>1. bill[i].cost \in Int
      BY BillType
    <3> QED
      BY <3>1 DEF Costs, Nobodys
  <2> QED
    BY <2>2, <2>3
<1>5. \A i \in D : borne[i] \in Int /\ minus[i] \in Int /\ borne[i] = Costs[i] + minus[i]
  BY <1>2
<1>6. SumOver([s \in Services |-> SumOver(f[s], D)], Services) = SumOver(columns, D)
  <2> HIDE DEF f, D
  <2> QED
    BY <1>1, <1>3, SumExchange
<1>7. SumOver(columns, D) = SumOver(h, D)
  <2> HIDE DEF columns, h, D
  <2> QED
    BY <1>1, <1>4, SumOfSame
<1>8. SumOver(h, D) = Denominator * SumOver(borne, D)
  <2> HIDE DEF borne, D
  <2> QED
    BY <1>1, <1>5, SumTimes
<1>9. SumOver(minus, D) = (-1) * SumOver(Nobodys, D)
  <2> HIDE DEF D
  <2> QED
    BY <1>1, <1>2, SumTimes
<1>10. SumOver(borne, D) = SumOver(Costs, D) + SumOver(minus, D)
  <2> DEFINE g == [i \in D |-> Costs[i] + minus[i]]
  <2>1. g = borne
    BY <1>5
  <2> HIDE DEF D, borne, minus
  <2>2. SumOver(g, D) = SumOver(Costs, D) + SumOver(minus, D)
    BY <1>1, <1>2, <1>5, SumPlus
  <2> QED
    BY <2>1, <2>2
<1>11. SumOver(Costs, D) \in Int /\ SumOver(Nobodys, D) \in Int
  <2> HIDE DEF D
  <2> QED
    BY <1>1, <1>2, SumType
<1>12. ASSUME NEW s \in Services PROVE SumOver(f[s], D) \in Int /\ SumOver(f[s], D) = OverBill(Parts(s))
  <2> DEFINE g == f[s]
  <2>1. g = Parts(s) /\ \A i \in D : g[i] \in Int
    BY <1>3
  <2> HIDE DEF g, D
  <2>2. SumOver(g, D) \in Int
    BY <1>1, <2>1, SumType
  <2> QED
    BY <2>1, <2>2 DEF g, OverBill, D
<1>13. [s \in Services |-> OverBill(Parts(s))] = [s \in Services |-> SumOver(f[s], D)]
  BY <1>12
<1>14. SumOver(borne, D) = SumOver(Costs, D) - SumOver(Nobodys, D)
  <2> HIDE DEF borne, minus, D
  <2> QED
    BY <1>9, <1>10, <1>11
<1>15. Unallocated = SumOver(Nobodys, D) /\ TotalCost = SumOver(Costs, D)
  BY DEF Unallocated, TotalCost, OverBill
<1> HIDE DEF f, columns, h, borne, minus, D
<1> QED
  BY <1>6, <1>7, <1>8, <1>11, <1>12, <1>13, <1>14, <1>15

LEMMA BilledIsConserved == Billed => Conserved
<1> SUFFICES ASSUME Billed PROVE Conserved
  OBVIOUS
<1> DEFINE a == [s \in Services |-> OverBill(Parts(s))]
           c == [s \in Services |-> Allocated(s)]
           due == TotalCost - Unallocated
<1>1. /\ IsFiniteSet(Services) /\ Denominator \in Nat \ {0}
      /\ Unallocated \in Int /\ TotalCost \in Int /\ due \in Int
      /\ SumOver(a, Services) = Denominator * due
  BY BillIsDivided, WeightAssumption, DenominatorAssumption
<1>2. \A s \in Services : a[s] \in Int /\ c[s] = RoundHalfEven(a[s], Denominator)
  BY BillIsDivided DEF Allocated
<1> HIDE DEF a, c
<1>3. /\ SumOver(c, Services) \in Int
      /\ 2 * (SumOver(c, Services) - due) \in (-Cardinality(Services))..Cardinality(Services)
  <2> HIDE DEF due
  <2> QED
    BY <1>1, <1>2, RoundedSum
<1> DEFINE borne == SumOver(c, Services) + Unallocated
<1>4. borne - TotalCost = SumOver(c, Services) - due
  BY <1>1, <1>3
<1>5. 2 * (borne - TotalCost) \in (-Cardinality(Services))..Cardinality(Services)
  BY <1>3, <1>4
<1>6. borne = SumOver([s \in Services |-> Allocated(s)], Services) + Unallocated
  BY DEF c
<1> HIDE DEF borne
<1> QED
  BY <1>5, <1>6 DEF Conserved

LEMMA OwnIsBorne == Billed => OwnCostsBorne
<1> SUFFICES ASSUME Billed, NEW s \in Services, \A d \in Drivers : Weights[d][s] >= 0
             PROVE  Allocated(s) >= OverBill(Own(s))
  BY DEF OwnCostsBorne
<1> DEFINE D == DOMAIN bill
           own == Own(s)
           h == [i \in D |-> Denominator * own[i]]
           p == Parts(s)
<1>1. IsFiniteSet(D) /\ Denominator \in Nat \ {0}
  BY BillType, DenominatorAssumption
<1>2. ASSUME NEW i \in D
      PROVE  own[i] \in Int /\ h[i] \in Int /\ p[i] \in Int /\ h[i] <= p[i]
  <2> DEFINE r == bill[i]
  <2>1. r.cost \in Nat /\ p[i] = Part(r, s) /\ p[i] \in Int
    BY BillType, PartType DEF Parts
  <2>2. own[i] = (IF r.allocation = s THEN r.cost ELSE 0) /\ h[i] = Denominator * own[i]
    BY DEF Own
  <2> HIDE DEF own, h, p, r
  <2>3. own[i] \in Int /\ h[i] \in Int
    BY <1>1, <2>1, <2>2
  <2>4. CASE r.allocation = s
    BY <1>1, <2>1, <2>2, <2>3, <2>4 DEF Part
  <2>5. CASE r.allocation # s /\ Shared(r)
    <3> DEFINE w == Weights[r.driver][s]
               q == Denominator \div TotalWeight(r.driver)
    <3>1. w \in Nat /\ q \in Nat
      BY <2>5, TotalType DEF Shared
    <3>2. Part(r, s) = r.cost * w * q
      BY <2>5 DEF Part
    <3> HIDE DEF w, q
    <3>3. r.cost * w * q \in Nat
      BY <2>1, <3>1
    <3>4. h[i] = 0
      BY <1>1, <2>2, <2>5
    <3> QED
      BY <2>1, <2>3, <3>2, <3>3, <3>4
  <2>6. CASE r.allocation # s /\ ~Shared(r)
    <3>1. h[i] = 0
      BY <1>1, <2>2, <2>6
    <3> QED
      BY <2>1, <2>3, <2>6, <3>1 DEF Part
  <2> QED
    BY <2>4, <2>5, <2>6
<1> HIDE DEF D, own, p
<1>3. SumOver(h, D) = Denominator * SumOver(own, D) /\ SumOver(own, D) \in Int
  BY <1>1, <1>2, SumTimes, SumType
<1> HIDE DEF h
<1>4. SumOver(h, D) <= SumOver(p, D)
  BY <1>1, <1>2, SumGrows
<1>5. SumOver(p, D) \in Int
  BY <1>1, <1>2, SumType
<1>6. SumOver(own, D) <= RoundHalfEven(SumOver(p, D), Denominator)
       /\ RoundHalfEven(SumOver(p, D), Denominator) \in Int
  BY <1>1, <1>3, <1>4, <1>5, Rounded
<1> QED
  BY <1>3, <1>6 DEF Allocated, OverBill, D, own, p

\* For any services, drivers and weights, and bills of any length.
THEOREM BillsAreBorne == CostSpec => []BillIsBorne
<1>1. Billed => BillIsBorne
  BY BilledIsConserved, OwnIsBorne DEF BillIsBorne
<1> QED
  BY <1>1, BilledAlways, PTL

-----------------------------------------------------------------------------
(* The inference fleet *)

\* A history of revisions, each of another template.
Unlike(h) == \A i, j \in 1..Len(h) : h[i] = h[j] => i = j

\* What a plan or a Deployment holds is the model of its order.
OwnModel(w, r) == r \in Release /\ r.model = w[2]

FleetRight ==
    /\ FleetTypeOK
    /\ plan # Nothing => plan.model = plan.order[2]
    /\ \A w \in Workloads : Unlike(rollout[w]) /\ \A i \in 1..Len(rollout[w]) : rollout[w][i].model = w[2]

\* A decision says what the evidence says.
Reasoned ==
    decision # Nothing =>
        (decision.verdict = "rollback_required"
            => ~Passes(Measured[decision.against.image], Measured[decision.about.image]))

LEMMA RemovedAt ==
    ASSUME NEW S, NEW h \in Seq(S), NEW k \in 1..Len(h)
    PROVE  /\ RemoveAt(h, k) \in Seq(S) /\ Len(RemoveAt(h, k)) = Len(h) - 1
           /\ \A i \in 1..(Len(h) - 1) :
                RemoveAt(h, k)[i] = (IF i < k THEN h[i] ELSE h[i + 1])
<1> DEFINE a == SubSeq(h, 1, k - 1)
           b == SubSeq(h, k + 1, Len(h))
<1>1. Len(h) \in Nat /\ k \in Nat /\ k >= 1 /\ k <= Len(h) /\ \A i \in 1..Len(h) : h[i] \in S
  OBVIOUS
<1>2. a \in Seq(S) /\ Len(a) = k - 1 /\ \A i \in 1..(k - 1) : a[i] = h[i]
  <2>1. \A i \in 1..(k - 1) : h[i] \in S
    BY <1>1
  <2>2. /\ a \in Seq(S) /\ Len(a) = (IF 1 <= k - 1 THEN (k - 1) - 1 + 1 ELSE 0)
        /\ \A i \in 1..((k - 1) - 1 + 1) : a[i] = h[1 + i - 1]
    BY <1>1, <2>1, SubSeqProperties
  <2> HIDE DEF a
  <2> QED
    BY <1>1, <2>2
<1>3. b \in Seq(S) /\ Len(b) = Len(h) - k /\ \A i \in 1..(Len(h) - k) : b[i] = h[k + i]
  <2>1. \A i \in (k + 1)..Len(h) : h[i] \in S
    BY <1>1
  <2>2. /\ b \in Seq(S) /\ Len(b) = (IF k + 1 <= Len(h) THEN Len(h) - (k + 1) + 1 ELSE 0)
        /\ \A i \in 1..(Len(h) - (k + 1) + 1) : b[i] = h[(k + 1) + i - 1]
    BY <1>1, <2>1, SubSeqProperties
  <2> HIDE DEF b
  <2> QED
    BY <1>1, <2>2
<1>4. RemoveAt(h, k) = a \o b
  BY DEF RemoveAt
<1> HIDE DEF a, b
<1> DEFINE c == a \o b
<1>5. /\ c \in Seq(S) /\ Len(c) = Len(a) + Len(b)
      /\ \A i \in 1..(Len(a) + Len(b)) : c[i] = (IF i <= Len(a) THEN a[i] ELSE b[i - Len(a)])
  BY <1>2, <1>3, ConcatProperties
<1> HIDE DEF c
<1>6. Len(c) = Len(h) - 1
  BY <1>1, <1>2, <1>3, <1>5
<1>7. ASSUME NEW i \in 1..(Len(h) - 1)
      PROVE  c[i] = (IF i < k THEN h[i] ELSE h[i + 1])
  <2>1. c[i] = (IF i <= k - 1 THEN a[i] ELSE b[i - (k - 1)])
    BY <1>1, <1>2, <1>3, <1>5
  <2>2. CASE i < k
    BY <1>1, <1>2, <2>1, <2>2
  <2>3. CASE ~(i < k)
    <3> DEFINE j == i - (k - 1)
    <3>1. j \in 1..(Len(h) - k) /\ k + j = i + 1 /\ ~(i <= k - 1)
      BY <1>1, <2>3
    <3>2. c[i] = b[j]
      BY <2>1, <3>1
    <3> HIDE DEF j
    <3>3. b[j] = h[k + j]
      BY <1>3, <3>1
    <3> QED
      BY <2>3, <3>1, <3>2, <3>3
  <2> QED
    BY <2>2, <2>3
<1> QED
  BY <1>4, <1>5, <1>6, <1>7 DEF c

\* Of a history with one revision of each template, the others are left.
LEMMA WithoutOne ==
    ASSUME NEW S, NEW h \in Seq(S), Unlike(h), NEW r
    PROVE  /\ Without(h, r) \in Seq(S) /\ Unlike(Without(h, r))
           /\ \A i \in 1..Len(Without(h, r)) :
                Without(h, r)[i] # r /\ \E j \in 1..Len(h) : Without(h, r)[i] = h[j]
<1> DEFINE k == CHOOSE i \in 1..Len(h) : h[i] = r
           c == RemoveAt(h, k)
<1>1. CASE ~Contains(h, r)
  BY <1>1 DEF Without, Contains
<1>2. CASE Contains(h, r)
  <2>1. k \in 1..Len(h) /\ h[k] = r /\ Without(h, r) = c
    BY <1>2 DEF Contains, Without
  <2> HIDE DEF k
  <2>2. /\ c \in Seq(S) /\ Len(c) = Len(h) - 1
        /\ \A i \in 1..(Len(h) - 1) : c[i] = (IF i < k THEN h[i] ELSE h[i + 1])
    BY <2>1, RemovedAt
  <2> HIDE DEF c
  <2>3. Len(h) \in Nat /\ k \in Nat
    BY <2>1
  <2>4. ASSUME NEW i \in 1..Len(c)
        PROVE  \E j \in 1..Len(h) : j = (IF i < k THEN i ELSE i + 1) /\ j # k /\ c[i] = h[j]
    BY <2>1, <2>2, <2>3
  <2>5. Unlike(c)
    <3> SUFFICES ASSUME NEW i \in 1..Len(c), NEW j \in 1..Len(c), c[i] = c[j] PROVE i = j
      BY DEF Unlike
    <3>1. PICK x \in 1..Len(h) : x = (IF i < k THEN i ELSE i + 1) /\ c[i] = h[x]
      BY <2>4
    <3>2. PICK y \in 1..Len(h) : y = (IF j < k THEN j ELSE j + 1) /\ c[j] = h[y]
      BY <2>4
    <3>3. x = y
      BY <3>1, <3>2 DEF Unlike
    <3>4. i \in Nat /\ j \in Nat
      BY <2>2, <2>3
    <3> QED
      BY <2>3, <3>1, <3>2, <3>3, <3>4
  <2>6. ASSUME NEW i \in 1..Len(c) PROVE c[i] # r /\ \E j \in 1..Len(h) : c[i] = h[j]
    BY <2>1, <2>4 DEF Unlike
  <2> QED
    BY <2>1, <2>2, <2>5, <2>6
<1> QED
  BY <1>1, <1>2

\* What is put last was not among the others.
Renewed(h, r) == Append(Without(h, r), r)

LEMMA PutLast ==
    ASSUME NEW S, NEW h \in Seq(S), Unlike(h), NEW r \in S
    PROVE  /\ Renewed(h, r) \in Seq(S) /\ Unlike(Renewed(h, r))
           /\ Len(Renewed(h, r)) >= 1 /\ Renewed(h, r)[Len(Renewed(h, r))] = r
           /\ \A i \in 1..Len(Renewed(h, r)) :
                Renewed(h, r)[i] = r \/ \E j \in 1..Len(h) : Renewed(h, r)[i] = h[j]
<1> DEFINE c == Without(h, r)
           g == Append(c, r)
<1>1. /\ c \in Seq(S) /\ Unlike(c)
      /\ \A i \in 1..Len(c) : c[i] # r /\ \E j \in 1..Len(h) : c[i] = h[j]
  BY WithoutOne
<1> HIDE DEF c
<1>2. /\ g \in Seq(S) /\ Len(g) = Len(c) + 1 /\ Len(c) \in Nat
      /\ \A i \in 1..Len(c) : g[i] = c[i]
      /\ g[Len(c) + 1] = r
  BY <1>1, AppendProperties
<1> HIDE DEF g
<1>3. ASSUME NEW i \in 1..Len(g) PROVE i \in 1..Len(c) \/ i = Len(c) + 1
  BY <1>2
<1>4. Unlike(g)
  <2> SUFFICES ASSUME NEW i \in 1..Len(g), NEW j \in 1..Len(g), g[i] = g[j] PROVE i = j
    BY DEF Unlike
  <2> QED
    BY <1>1, <1>2, <1>3 DEF Unlike
<1>5. \A i \in 1..Len(g) : g[i] = r \/ \E j \in 1..Len(h) : g[i] = h[j]
  BY <1>1, <1>2, <1>3
<1> QED
  BY <1>2, <1>4, <1>5 DEF g, c, Renewed

LEMMA AppliedKeeps ==
    ASSUME NEW S, NEW h \in Seq(S), Unlike(h), NEW r \in S
    PROVE  /\ Applied(h, r) \in Seq(S) /\ Unlike(Applied(h, r))
           /\ \A i \in 1..Len(Applied(h, r)) :
                Applied(h, r)[i] = r \/ \E j \in 1..Len(h) : Applied(h, r)[i] = h[j]
<1> DEFINE g == Renewed(h, r)
           n == Len(g)
           m == IF n > 3 THEN n - 2 ELSE 1
           s == SubSeq(g, m, n)
<1>1. /\ g \in Seq(S) /\ Unlike(g) /\ n >= 1
      /\ \A i \in 1..n : g[i] = r \/ \E j \in 1..Len(h) : g[i] = h[j]
  BY PutLast
<1>2. Applied(h, r) = s
  BY DEF Applied, Renewed
<1> HIDE DEF g
<1>3. n \in Nat /\ m \in Nat /\ m >= 1 /\ m <= n /\ \A i \in 1..n : g[i] \in S
  BY <1>1
<1> HIDE DEF m
<1>4. /\ s \in Seq(S) /\ Len(s) = n - m + 1
      /\ \A i \in 1..(n - m + 1) : s[i] = g[m + i - 1]
  <2>1. \A i \in m..n : g[i] \in S
    BY <1>3
  <2>2. /\ s \in Seq(S) /\ Len(s) = (IF m <= n THEN n - m + 1 ELSE 0)
        /\ \A i \in 1..(n - m + 1) : s[i] = g[m + i - 1]
    BY <1>3, <2>1, SubSeqProperties
  <2> QED
    BY <1>3, <2>2
<1> HIDE DEF s, n
<1>5. ASSUME NEW i \in 1..Len(s) PROVE m + i - 1 \in 1..n /\ s[i] = g[m + i - 1] /\ i \in Nat
  BY <1>3, <1>4
<1>6. Unlike(s)
  <2> SUFFICES ASSUME NEW i \in 1..Len(s), NEW j \in 1..Len(s), s[i] = s[j] PROVE i = j
    BY DEF Unlike
  <2>1. m + i - 1 = m + j - 1
    BY <1>1, <1>5 DEF Unlike, n
  <2> QED
    BY <1>3, <1>5, <2>1
<1> QED
  BY <1>1, <1>2, <1>4, <1>5, <1>6

\* Undone, the last but one serves, and the last does not.
LEMMA UndoneTurns ==
    ASSUME NEW S, NEW h \in Seq(S), Unlike(h), Len(h) >= 2
    PROVE  /\ Undone(h) \in Seq(S) /\ Unlike(Undone(h))
           /\ \A i \in 1..Len(Undone(h)) : \E j \in 1..Len(h) : Undone(h)[i] = h[j]
           /\ Undone(h)[Len(Undone(h))] # h[Len(h)]
<1> DEFINE r == h[Len(h) - 1]
           g == Renewed(h, r)
<1>1. Len(h) - 1 \in 1..Len(h) /\ Len(h) \in 1..Len(h) /\ Len(h) - 1 # Len(h) /\ r \in S
  OBVIOUS
<1>2. r # h[Len(h)]
  BY <1>1 DEF Unlike
<1>3. \E j \in 1..Len(h) : r = h[j]
  BY <1>1
<1>4. Undone(h) = g
  BY DEF Undone, Renewed
<1> HIDE DEF r
<1>5. /\ g \in Seq(S) /\ Unlike(g) /\ g[Len(g)] = r
      /\ \A i \in 1..Len(g) : g[i] = r \/ \E j \in 1..Len(h) : g[i] = h[j]
  BY <1>1, PutLast
<1> QED
  BY <1>2, <1>3, <1>4, <1>5

LEMMA FleetRightAlways == FleetSpec => [](FleetRight /\ Reasoned)
<1>1. FleetInit => FleetRight /\ Reasoned
  BY DEF FleetInit, FleetRight, FleetTypeOK, Reasoned, Unlike
<1>2. FleetRight /\ Reasoned /\ [FleetNext]_fleetVars => FleetRight' /\ Reasoned'
  <2> SUFFICES ASSUME FleetRight, Reasoned, [FleetNext]_fleetVars PROVE FleetRight' /\ Reasoned'
    OBVIOUS
  <2> USE DEF FleetRight, FleetTypeOK
  <2>1. ASSUME NEW w \in Workloads, NEW i \in Images, WritePlan(w, i) PROVE FleetRight' /\ Reasoned'
    BY <2>1 DEF WritePlan, Plan, Reasoned
  <2>2. ASSUME NEW w \in Workloads, NEW b \in Releases(w), NEW c \in Releases(w), EvaluateRelease(w, b, c)
        PROVE  FleetRight' /\ Reasoned'
    <3>1. b \in Release /\ c \in Release
      BY DEF Releases
    <3>2. decision' \in Decision
      BY <2>2, <3>1 DEF EvaluateRelease, Decision
    <3>3. Reasoned'
      BY <2>2 DEF EvaluateRelease, Reasoned
    <3> QED
      BY <2>2, <3>2, <3>3 DEF EvaluateRelease
  <2>3. CASE ApplyPlan
    <3> DEFINE w == plan.order
               h == rollout[w]
               r == [model |-> plan.model, image |-> plan.image]
               g == Applied(h, r)
    <3>1. plan \in Plan /\ w \in Workloads /\ r \in Release /\ r.model = w[2] /\ h \in Seq(Release) /\ Unlike(h)
      BY <2>3 DEF ApplyPlan, Plan, Release
    <3>2. rollout' = [rollout EXCEPT ![w] = g] /\ UNCHANGED <<plan, decision, confirmed>>
      BY <2>3 DEF ApplyPlan, Deployment
    <3>3. \A i \in 1..Len(h) : h[i].model = w[2]
      BY <3>1
    <3> HIDE DEF w, r
    <3>4. /\ g \in Seq(Release) /\ Unlike(g)
          /\ \A i \in 1..Len(g) : g[i] = r \/ \E j \in 1..Len(h) : g[i] = h[j]
      BY <3>1, AppliedKeeps
    <3> HIDE DEF h, g
    <3>5. \A i \in 1..Len(g) : g[i].model = w[2]
      BY <3>1, <3>3, <3>4
    <3>6. rollout' \in [Workloads -> Seq(Release)] /\ rollout'[w] = g
          /\ \A v \in Workloads : v # w => rollout'[v] = rollout[v]
      BY <3>1, <3>2, <3>4
    <3>7. ASSUME NEW v \in Workloads
          PROVE  Unlike(rollout'[v]) /\ \A i \in 1..Len(rollout'[v]) : rollout'[v][i].model = v[2]
      <4>1. CASE v = w
        BY <3>4, <3>5, <3>6, <4>1
      <4>2. CASE v # w
        BY <3>6, <4>2
      <4> QED
        BY <4>1, <4>2
    <3> QED
      BY <3>2, <3>6, <3>7 DEF Reasoned
  <2>4. ASSUME NEW c \in Crew, Confirm(c) PROVE FleetRight' /\ Reasoned'
    BY <2>4 DEF Confirm, Reasoned
  <2>5. ASSUME NEW c \in Crew, Rollback(c) PROVE FleetRight' /\ Reasoned'
    <3> DEFINE w == decision.order
               h == rollout[w]
               g == IF Len(h) < 2 THEN h ELSE Undone(h)
    <3>1. decision \in Decision /\ w \in Workloads /\ h \in Seq(Release) /\ Unlike(h)
      BY <2>5 DEF Rollback, MayUndo, Decision
    <3>2. /\ rollout' = [rollout EXCEPT ![w] = g] /\ UNCHANGED <<plan, decision>>
          /\ confirmed' = [confirmed EXCEPT ![c] = Nothing]
      BY <2>5 DEF Rollback, Deployment
    <3>3. \A i \in 1..Len(h) : h[i].model = w[2]
      BY <3>1
    <3> HIDE DEF w
    <3>4. /\ g \in Seq(Release) /\ Unlike(g)
          /\ \A i \in 1..Len(g) : \E j \in 1..Len(h) : g[i] = h[j]
      <4>1. CASE Len(h) < 2
        BY <3>1, <4>1
      <4>2. CASE ~(Len(h) < 2)
        <5>1. Len(h) >= 2
          BY <3>1, <4>2
        <5> QED
          BY <3>1, <4>2, <5>1, UndoneTurns
      <4> QED
        BY <4>1, <4>2
    <3> HIDE DEF h, g
    <3>5. \A i \in 1..Len(g) : g[i].model = w[2]
      BY <3>3, <3>4
    <3>6. rollout' \in [Workloads -> Seq(Release)] /\ rollout'[w] = g
          /\ \A v \in Workloads : v # w => rollout'[v] = rollout[v]
      BY <3>1, <3>2, <3>4
    <3>7. ASSUME NEW v \in Workloads
          PROVE  Unlike(rollout'[v]) /\ \A i \in 1..Len(rollout'[v]) : rollout'[v][i].model = v[2]
      <4>1. CASE v = w
        BY <3>4, <3>5, <3>6, <4>1
      <4>2. CASE v # w
        BY <3>6, <4>2
      <4> QED
        BY <4>1, <4>2
    <3> QED
      BY <3>2, <3>6, <3>7 DEF Reasoned
  <2>6. ASSUME NEW c \in Crew, GiveUp(c) PROVE FleetRight' /\ Reasoned'
    BY <2>6 DEF GiveUp, Reasoned
  <2>7. CASE UNCHANGED fleetVars
    BY <2>7 DEF fleetVars, Reasoned
  <2> QED
    BY <2>1, <2>2, <2>3, <2>4, <2>5, <2>6, <2>7 DEF FleetNext
<1> QED
  BY <1>1, <1>2, PTL DEF FleetSpec

\* For any orders, images, measurements and operators.
THEOREM ReleasesAreUndoneForCause == FleetSpec => UndoneForCause
<1>1. FleetRight' => OrderBound'
  BY DEF FleetRight, FleetTypeOK, OrderBound, Releases
<1>2. ASSUME FleetRight, Reasoned, FleetNext,
             NEW c \in Crew, NEW w \in Workloads,
             confirmed[c] # Nothing, confirmed'[c] = Nothing,
             confirmed[c] = decision, decision.order = w,
             rollout'[w] # rollout[w], Serving(w) = decision.about
      PROVE  LET new == Measured[decision.about.image]
                 old == Measured[decision.against.image]
             IN  /\ Serving(w)' # decision.about
                 /\ \/ ~Met(new)
                    \/ new.success < old.success
                    \/ new.cost * old.tokens > old.cost * new.tokens
  <2> USE DEF FleetRight, FleetTypeOK
  <2>1. PICK d \in Crew : Rollback(d)
    BY <1>2 DEF FleetNext, WritePlan, EvaluateRelease, ApplyPlan, Confirm, GiveUp
  <2> DEFINE h == rollout[w]
             new == Measured[decision.about.image]
             old == Measured[decision.against.image]
  <2>2. /\ decision \in Decision /\ decision.verdict = "rollback_required"
        /\ rollout' = [rollout EXCEPT ![w] = IF Len(h) < 2 THEN h ELSE Undone(h)]
    BY <1>2, <2>1 DEF Rollback, MayUndo, Deployment
  <2>3. h \in Seq(Release) /\ Unlike(h) /\ Len(h) >= 2 /\ rollout'[w] = Undone(h)
    <3>1. h \in Seq(Release) /\ Unlike(h) /\ Len(h) \in Nat
      BY <1>2
    <3>2. rollout'[w] = (IF Len(h) < 2 THEN h ELSE Undone(h))
      BY <1>2, <2>2
    <3>3. ~(Len(h) < 2)
      BY <1>2, <3>2
    <3> QED
      BY <3>1, <3>2, <3>3
  <2>4. Serving(w)' # decision.about
    <3>1. Undone(h)[Len(Undone(h))] # h[Len(h)]
      BY <2>3, UndoneTurns
    <3> QED
      BY <1>2, <2>3, <3>1 DEF Serving
  <2>5. decision.about.image \in Images /\ decision.against.image \in Images
    BY <2>2 DEF Decision, Release
  <2>6. /\ new.success \in Int /\ new.cost \in Int /\ new.tokens \in Int
        /\ old.success \in Int /\ old.cost \in Int /\ old.tokens \in Int
    BY <2>5, MeasuredAssumption
  <2>7. ~Passes(old, new)
    BY <1>2, <2>2 DEF Reasoned
  <2> HIDE DEF new, old
  <2>8. Met(new) /\ new.success >= old.success => ~NoDearer(new, old)
    BY <2>7 DEF Passes
  <2>9. ~NoDearer(new, old) => new.cost * old.tokens > old.cost * new.tokens
    <3> DEFINE p == new.cost * old.tokens
               q == old.cost * new.tokens
    <3>1. p \in Int /\ q \in Int
      BY <2>6
    <3>2. NoDearer(new, old) <=> p <= q
      BY DEF NoDearer
    <3> HIDE DEF p, q
    <3>3. ~(p <= q) => p > q
      BY <3>1
    <3> QED
      BY <3>2, <3>3 DEF p, q
  <2>10. ~(new.success >= old.success) => new.success < old.success
    BY <2>6
  <2> QED
    BY <2>4, <2>8, <2>9, <2>10 DEF new, old
<1>3. FleetRight /\ Reasoned /\ FleetRight' /\ [FleetNext]_fleetVars =>
        [/\ OrderBound'
         /\ \A c \in Crew, w \in Workloads :
               /\ confirmed[c] # Nothing /\ confirmed'[c] = Nothing
               /\ confirmed[c] = decision /\ decision.order = w
               /\ rollout'[w] # rollout[w] /\ Serving(w) = decision.about
               => LET new == Measured[decision.about.image]
                      old == Measured[decision.against.image]
                  IN  /\ Serving(w)' # decision.about
                      /\ \/ ~Met(new)
                         \/ new.success < old.success
                         \/ new.cost * old.tokens > old.cost * new.tokens]_fleetVars
  BY <1>1, <1>2 DEF fleetVars
<1> QED
  BY <1>3, FleetRightAlways, PTL DEF FleetSpec, UndoneForCause

-----------------------------------------------------------------------------
(* Data releases: the search of a lineage *)

\* Downstream, of a lineage that is given.
Onward(E, n) == {e[2] : e \in {x \in E : x[1] = n}}
Below(E, n) ==
    {m \in Nodes : \A S \in SUBSET Nodes :
        Onward(E, n) \subseteq S /\ (\A k \in S : Onward(E, k) \subseteq S) => m \in S}

LEMMA DownstreamIsBelow ==
    ASSUME NEW n
    PROVE  Downstream(n) = Below(edges, n)
<1>1. \A k : Consumers(k) = Onward(edges, k)
  BY DEF Consumers, Onward
<1>2. ASSUME NEW S PROVE Leads(S) = S <=> \A k \in S : Onward(edges, k) \subseteq S
  BY DEF Leads, Onward
<1> QED
  BY <1>1, <1>2 DEF Downstream, Below

LEMMA BelowIsClosed ==
    ASSUME NEW E \in SUBSET (Nodes \X Nodes), NEW n
    PROVE  /\ Onward(E, n) \subseteq Below(E, n)
           /\ \A m \in Below(E, n) : Onward(E, m) \subseteq Below(E, n)
           /\ \A S \in SUBSET Nodes :
                Onward(E, n) \subseteq S /\ (\A k \in S : Onward(E, k) \subseteq S) => Below(E, n) \subseteq S
<1>1. \A k : Onward(E, k) \subseteq Nodes
  BY DEF Onward
<1> QED
  BY <1>1 DEF Below

\* What the queue holds, waiting or still to come back to.
Waiting == {queue[i] : i \in 1..Len(queue)}

FailedSoFar == {Products[i] : i \in {k \in 1..(turn - 1) : ~Holds(Contracts[Products[k]], seen[Products[k]])}}

\* While a product is searched, all that was reached or waits is downstream of
\* it, and what those that were reached lead to was reached or waits.
Sound ==
    searching =>
        LET n == Products[turn]
        IN  /\ release = "open" /\ turn <= Len(Products)
            /\ reached \cup Waiting \subseteq Below(edges, n)
            /\ Onward(edges, n) \subseteq reached \cup Waiting
            /\ \A m \in reached : Onward(edges, m) \subseteq reached \cup Waiting

Searched ==
    /\ edges \in SUBSET (Nodes \X Nodes)
    /\ queue \in Seq(Nodes) /\ reached \in SUBSET Nodes
    /\ turn \in 1..(Len(Products) + 1)
    /\ ~searching => queue = <<>> /\ reached = {}
    /\ failed = FailedSoFar
    /\ affected = UNION {Below(edges, p) \ {p} : p \in failed}
    /\ release # "open" => turn > Len(Products)
    /\ release \notin {"open", "blocked"} => failed = {}
    /\ Sound

LEMMA SearchedInit == ReleaseInit => Searched
<1> SUFFICES ASSUME ReleaseInit PROVE Searched
  OBVIOUS
<1> USE DEF ReleaseInit
<1>1. edges \in SUBSET (Nodes \X Nodes) /\ Len(Products) \in Nat
  BY LineageAssumption
<1>2. FailedSoFar = {}
  BY DEF FailedSoFar
<1> QED
  BY <1>1, <1>2 DEF Searched, Sound

LEMMA QueuedAll ==
    ASSUME NEW S \in SUBSET Nodes, NEW q \in SetToSeqs(S)
    PROVE  q \in Seq(Nodes) /\ {q[i] : i \in 1..Len(q)} = S
<1> DEFINE c == Cardinality(S)
<1>1. IsFiniteSet(S) /\ c \in Nat
  BY LineageAssumption, FS_Subset, FS_CardinalityType
<1>2. q \in [1..c -> S] /\ \A i, j \in 1..c : i # j => q[i] # q[j]
  BY DEF SetToSeqs
<1> HIDE DEF c
<1>3. q \in Seq(Nodes) /\ Len(q) = c
  BY <1>1, <1>2
<1>4. q \in Injection(1..c, S)
  BY <1>2 DEF Injection, IsInjective
<1>5. Cardinality(1..c) = c /\ IsFiniteSet(1..c)
  BY <1>1, FS_Interval
<1>6. Cardinality(1..c) = Cardinality(S)
  BY <1>5 DEF c
<1>7. q \in Surjection(1..c, S)
  BY <1>1, <1>4, <1>6, FS_Injection
<1> QED
  BY <1>3, <1>7 DEF Surjection

LEMMA SearchStarts == Searched /\ Search => Searched'
<1> SUFFICES ASSUME Searched, Search PROVE Searched'
  OBVIOUS
<1> USE DEF Searched
<1> DEFINE n == Products[turn]
<1>1. /\ release = "open" /\ turn <= Len(Products) /\ ~searching /\ searching' = TRUE
      /\ UNCHANGED <<edges, seen, turn, reached, failed, affected, release>>
      /\ queue' \in SetToSeqs(Consumers(n))
  BY DEF Search, Open
<1>2. Consumers(n) = Onward(edges, n) /\ Consumers(n) \in SUBSET Nodes
  BY DEF Consumers, Onward
<1>3. queue' \in Seq(Nodes) /\ Waiting' = Onward(edges, n)
  BY <1>1, <1>2, QueuedAll DEF Waiting
<1>4. Onward(edges, n) \subseteq Below(edges, n)
  BY BelowIsClosed
<1>5. FailedSoFar' = FailedSoFar
  BY <1>1 DEF FailedSoFar
<1>6. Sound'
  BY <1>1, <1>3, <1>4 DEF Sound
<1> QED
  BY <1>1, <1>3, <1>5, <1>6

LEMMA SearchExpands == Searched /\ Expand => Searched'
<1> SUFFICES ASSUME Searched, Expand PROVE Searched'
  OBVIOUS
<1> USE DEF Searched
<1> DEFINE p == Products[turn]
           n == Head(queue)
           rest == {Tail(queue)[i] : i \in 1..Len(Tail(queue))}
<1>1. /\ searching /\ queue # <<>> /\ searching' = searching
      /\ UNCHANGED <<edges, seen, turn, failed, affected, release>>
  BY DEF Expand
<1>2. /\ n \in Nodes /\ n = queue[1] /\ Tail(queue) \in Seq(Nodes) /\ Len(Tail(queue)) = Len(queue) - 1
      /\ \A i \in 1..Len(Tail(queue)) : Tail(queue)[i] = queue[i + 1]
  BY <1>1, HeadTailProperties
<1>3. Waiting = rest \cup {n}
  <2>1. Len(queue) \in Nat /\ Len(queue) >= 1
    BY <1>1, <1>2
  <2>2. ASSUME NEW i \in 1..Len(queue) PROVE queue[i] \in rest \cup {n}
    <3>1. CASE i = 1
      BY <1>2, <3>1
    <3>2. CASE i # 1
      <4>1. i - 1 \in 1..Len(Tail(queue)) /\ (i - 1) + 1 = i
        BY <1>2, <2>1, <3>2
      <4> QED
        BY <1>2, <4>1
    <3> QED
      BY <3>1, <3>2
  <2>3. ASSUME NEW i \in 1..Len(Tail(queue)) PROVE Tail(queue)[i] \in Waiting
    <3>1. i + 1 \in 1..Len(queue)
      BY <1>2, <2>1
    <3> QED
      BY <1>2, <3>1 DEF Waiting
  <2>4. n \in Waiting
    BY <1>2, <2>1 DEF Waiting
  <2> QED
    BY <2>2, <2>3, <2>4 DEF Waiting
<1>4. FailedSoFar' = FailedSoFar
  BY <1>1 DEF FailedSoFar
<1>5. CASE Known(n)
  <2>1. queue' = Tail(queue) /\ reached' = reached /\ n \in reached
    BY <1>5 DEF Expand, Known
  <2>2. Waiting' = rest
    BY <2>1 DEF Waiting
  <2> HIDE DEF rest, n
  <2>3. reached' \cup Waiting' = reached \cup Waiting
    BY <1>3, <2>1, <2>2
  <2>4. Sound'
    BY <1>1, <2>1, <2>3 DEF Sound
  <2> QED
    BY <1>1, <1>2, <1>4, <2>1, <2>4
<1>6. CASE ~Known(n)
  <2>1. PICK more \in SetToSeqs(Found(n)) : queue' = Tail(queue) \o more
    BY <1>6 DEF Expand
  <2>2. reached' = reached \cup {n}
    BY <1>6 DEF Expand
  <2>3. Found(n) = Onward(edges, n) \ (reached \cup {n}) /\ Found(n) \in SUBSET Nodes
    BY DEF Found, Consumers, Onward
  <2>4. more \in Seq(Nodes) /\ {more[i] : i \in 1..Len(more)} = Found(n)
    BY <2>3, QueuedAll
  <2>5. /\ queue' \in Seq(Nodes)
        /\ Waiting' = rest \cup Found(n)
    <3> DEFINE t == Tail(queue)
               q == t \o more
    <3>1. t \in Seq(Nodes)
      BY <1>2
    <3> HIDE DEF t
    <3>2. /\ q \in Seq(Nodes) /\ Len(q) = Len(t) + Len(more)
          /\ \A i \in 1..(Len(t) + Len(more)) : q[i] = (IF i <= Len(t) THEN t[i] ELSE more[i - Len(t)])
      BY <2>4, <3>1, ConcatProperties
    <3> HIDE DEF q
    <3>3. Len(t) \in Nat /\ Len(more) \in Nat
      BY <2>4, <3>1
    <3>4. ASSUME NEW i \in 1..Len(q)
          PROVE  q[i] \in {t[j] : j \in 1..Len(t)} \cup {more[j] : j \in 1..Len(more)}
      <4>1. CASE i <= Len(t)
        BY <3>2, <3>3, <4>1
      <4>2. CASE ~(i <= Len(t))
        <5>1. i - Len(t) \in 1..Len(more)
          BY <3>2, <3>3, <4>2
        <5> QED
          BY <3>2, <3>3, <4>2, <5>1
      <4> QED
        BY <4>1, <4>2
    <3>5. ASSUME NEW j \in 1..Len(t) PROVE t[j] \in {q[i] : i \in 1..Len(q)}
      <4>1. j \in 1..Len(q) /\ q[j] = t[j]
        BY <3>2, <3>3
      <4> QED
        BY <4>1
    <3>6. ASSUME NEW j \in 1..Len(more) PROVE more[j] \in {q[i] : i \in 1..Len(q)}
      <4>1. Len(t) + j \in 1..Len(q) /\ ~(Len(t) + j <= Len(t)) /\ (Len(t) + j) - Len(t) = j
        BY <3>2, <3>3
      <4>2. q[Len(t) + j] = more[j]
        BY <3>2, <4>1
      <4> QED
        BY <4>1, <4>2
    <3>7. {q[i] : i \in 1..Len(q)} = {t[j] : j \in 1..Len(t)} \cup {more[j] : j \in 1..Len(more)}
      BY <3>4, <3>5, <3>6
    <3>8. queue' = q
      BY <2>1 DEF q, t
    <3>9. Waiting' = {q[i] : i \in 1..Len(q)}
      BY <3>8 DEF Waiting
    <3> QED
      BY <2>4, <3>2, <3>7, <3>8, <3>9 DEF t
  <2> HIDE DEF rest, n
  <2>6. n \in Below(edges, p)
    BY <1>1, <1>3 DEF Sound
  <2>7. Onward(edges, n) \subseteq Below(edges, p)
    BY <2>6, BelowIsClosed
  <2>8. reached \cup Waiting \subseteq reached' \cup Waiting'
    BY <1>3, <2>2, <2>5
  <2>9. reached' \cup Waiting' \subseteq Below(edges, p)
    BY <1>1, <1>3, <2>2, <2>3, <2>5, <2>7 DEF Sound
  <2>10. Onward(edges, n) \subseteq reached' \cup Waiting'
    BY <2>2, <2>3, <2>5
  <2>11. Sound'
    BY <1>1, <2>2, <2>8, <2>9, <2>10 DEF Sound
  <2>12. reached' \in SUBSET Nodes
    BY <1>2, <2>2 DEF n
  <2> QED
    BY <1>1, <1>4, <2>5, <2>11, <2>12
<1> QED
  BY <1>5, <1>6

LEMMA JudgedRight == Searched /\ Judge => Searched'
<1> SUFFICES ASSUME Searched, Judge PROVE Searched'
  OBVIOUS
<1> USE DEF Searched
<1> DEFINE p == Products[turn]
           fails == ~Holds(Contracts[p], seen[p])
<1>1. /\ searching /\ queue = <<>>
      /\ failed' = (IF fails THEN failed \cup {p} ELSE failed)
      /\ affected' = (IF fails THEN affected \cup (reached \ {p}) ELSE affected)
      /\ turn' = turn + 1 /\ searching' = FALSE /\ reached' = {}
      /\ UNCHANGED <<edges, seen, queue, release>>
  BY DEF Judge, Reached
<1>2. release = "open" /\ turn <= Len(Products) /\ turn \in Nat /\ turn >= 1 /\ Len(Products) \in Nat
  BY <1>1, LineageAssumption DEF Sound
<1>3. Waiting = {}
  BY <1>1 DEF Waiting
<1>4. reached = Below(edges, p)
  BY <1>1, <1>3, BelowIsClosed DEF Sound
<1>5. FailedSoFar' = (IF fails THEN FailedSoFar \cup {p} ELSE FailedSoFar)
  <2>1. 1..(turn' - 1) = 1..(turn - 1) \cup {turn}
    BY <1>1, <1>2
  <2> DEFINE miss(k) == ~Holds(Contracts[Products[k]], seen[Products[k]])
  <2>2. FailedSoFar' = {Products[i] : i \in {k \in 1..(turn' - 1) : miss(k)}}
    BY <1>1 DEF FailedSoFar
  <2>3. FailedSoFar = {Products[i] : i \in {k \in 1..(turn - 1) : miss(k)}}
    BY DEF FailedSoFar
  <2>4. fails <=> miss(turn)
    OBVIOUS
  <2> HIDE DEF miss, fails
  <2> QED
    BY <2>1, <2>2, <2>3, <2>4
<1> HIDE DEF fails
<1>6. failed' = FailedSoFar'
  BY <1>1, <1>5
<1>7. affected' = UNION {Below(edges, x) \ {x} : x \in failed'}
  <2>1. CASE fails
    <3>1. failed' = failed \cup {p} /\ affected' = affected \cup (Below(edges, p) \ {p})
      BY <1>1, <1>4, <2>1
    <3> QED
      BY <3>1
  <2>2. CASE ~fails
    BY <1>1, <2>2
  <2> QED
    BY <2>1, <2>2
<1>8. turn' \in 1..(Len(Products) + 1)
  BY <1>1, <1>2
<1>9. Sound'
  BY <1>1 DEF Sound
<1> QED
  BY <1>1, <1>2, <1>6, <1>7, <1>8, <1>9

LEMMA DecidedRight ==
    ASSUME Searched, NEW approvals, Decide(approvals)
    PROVE  Searched'
<1> USE DEF Searched
<1>1. /\ release = "open" /\ turn > Len(Products)
      /\ UNCHANGED <<edges, seen, turn, queue, reached, searching, failed, affected>>
      /\ release' = "blocked" \/ failed = {}
      /\ release' # "open"
  BY DEF Decide
<1>2. ~searching
  <2>1. turn \in Nat /\ Len(Products) \in Nat
    BY LineageAssumption
  <2> QED
    BY <1>1, <2>1 DEF Sound
<1>3. FailedSoFar' = FailedSoFar
  BY <1>1 DEF FailedSoFar
<1>4. Sound'
  BY <1>1, <1>2 DEF Sound
<1> QED
  BY <1>1, <1>3, <1>4

LEMMA SearchedAlways == ReleaseSpec => []Searched
<1>1. Searched /\ [ReleaseNext]_releaseVars => Searched'
  <2>1. Searched /\ UNCHANGED releaseVars => Searched'
    <3> SUFFICES ASSUME Searched, UNCHANGED releaseVars PROVE Searched'
      OBVIOUS
    <3>1. UNCHANGED <<edges, seen, turn, queue, reached, searching, failed, affected, release>>
      BY DEF releaseVars
    <3>2. FailedSoFar' = FailedSoFar
      BY <3>1 DEF FailedSoFar
    <3>3. Sound'
      BY <3>1 DEF Searched, Sound, Waiting
    <3> QED
      BY <3>1, <3>2, <3>3 DEF Searched
  <2>2. ASSUME Searched, NEW approvals, Decide(approvals) PROVE Searched'
    BY <2>2, DecidedRight
  <2>3. Searched /\ (Search \/ Expand \/ Judge) => Searched'
    BY SearchStarts, SearchExpands, JudgedRight
  <2>4. ReleaseNext => Search \/ Expand \/ Judge \/ \E approvals \in SUBSET Stewards : Decide(approvals)
    BY DEF ReleaseNext
  <2> QED
    BY <2>1, <2>2, <2>3, <2>4
<1> QED
  BY <1>1, SearchedInit, PTL DEF ReleaseSpec

LEMMA DecisionIsRight == Searched => AffectedAreDownstream
<1> SUFFICES ASSUME Searched, release # "open" PROVE
        /\ affected = UNION {Downstream(p) \ {p} : p \in failed}
        /\ release # "blocked" =>
             \A p \in {Products[i] : i \in DOMAIN Products} : Holds(Contracts[p], seen[p])
  BY DEF AffectedAreDownstream
<1> USE DEF Searched
<1>1. affected = UNION {Downstream(p) \ {p} : p \in failed}
  BY DownstreamIsBelow
<1>2. ASSUME release # "blocked", NEW i \in DOMAIN Products
      PROVE  Holds(Contracts[Products[i]], seen[Products[i]])
  <2>1. DOMAIN Products = 1..Len(Products) /\ Len(Products) \in Nat
    BY LineageAssumption
  <2>2. i \in 1..(turn - 1)
    BY <2>1
  <2>3. FailedSoFar = {}
    BY <1>2
  <2> QED
    BY <2>2, <2>3 DEF FailedSoFar
<1> QED
  BY <1>1, <1>2

\* For any products, contracts and observations, and lineages of every shape.
THEOREM EveryConsumerIsFound == ReleaseSpec => FindsEveryConsumer
<1>1. Searched' => AffectedAreDownstream'
  BY DecisionIsRight, PTL
<1>2. ASSUME Searched, ReleaseNext, searching, searching'
      PROVE  \/ reached \subseteq reached' /\ reached # reached'
             \/ reached' = reached /\ Len(queue') < Len(queue)
  <2>1. Expand
    <3>1. turn <= Len(Products) /\ turn \in Int /\ Len(Products) \in Int
      BY <1>2, LineageAssumption DEF Searched, Sound
    <3>2. ~(turn > Len(Products))
      BY <3>1
    <3>3. ~Search
      BY <1>2, Zenon DEF Search
    <3>4. ~Judge
      BY <1>2, Zenon DEF Judge
    <3>5. ASSUME NEW a \in SUBSET Stewards PROVE ~Decide(a)
      BY <3>2 DEF Decide
    <3> QED
      BY <1>2, <3>3, <3>4, <3>5 DEF ReleaseNext
  <2>2. queue \in Seq(Nodes) /\ queue # <<>>
    BY <1>2, <2>1 DEF Searched, Expand
  <2>3. CASE Known(Head(queue))
    <3>1. queue' = Tail(queue) /\ reached' = reached
      BY <2>1, <2>3 DEF Expand
    <3> QED
      BY <2>2, <3>1, HeadTailProperties
  <2>4. CASE ~Known(Head(queue))
    BY <2>1, <2>4 DEF Expand, Known
  <2> QED
    BY <2>3, <2>4
<1>3. Searched /\ Searched' /\ [ReleaseNext]_releaseVars =>
        [/\ AffectedAreDownstream'
         /\ searching /\ searching' =>
              \/ reached \subseteq reached' /\ reached # reached'
              \/ reached' = reached /\ Len(queue') < Len(queue)]_releaseVars
  BY <1>1, <1>2 DEF releaseVars
<1> QED
  BY <1>3, SearchedAlways, PTL DEF ReleaseSpec, FindsEveryConsumer

-----------------------------------------------------------------------------
(* Agent releases: loops, and what they do to a rate *)

Figures ==
    [requests : Nat, completed : Nat, observed : Nat, looped : Nat, failures : Nat, value : Int]

Served ==
    /\ calls \in Seq(Tools)
    /\ served \in Figures
    /\ served.completed <= served.requests
    /\ served.looped <= served.observed
    /\ served.failures <= served.requests

LEMMA ServedAlways == AgentSpec => []Served
<1>1. AgentInit => Served
  BY DEF AgentInit, Served, Figures
<1>2. Served /\ [AgentNext]_agentVars => Served'
  <2> SUFFICES ASSUME Served, [AgentNext]_agentVars PROVE Served'
    OBVIOUS
  <2>1. ASSUME NEW tool \in Tools, CallTool(tool) PROVE Served'
    BY <2>1 DEF CallTool, Served
  <2>2. ASSUME NEW end \in {"completed", "escalated", "failed"}, NEW traced \in BOOLEAN,
               EndRequest(end, traced)
        PROVE  Served'
    <3> DEFINE a == IF end = "completed" THEN 1 ELSE 0
               b == IF traced THEN 1 ELSE 0
               c == IF traced /\ HasLoop THEN 1 ELSE 0
               d == IF end = "failed" THEN 1 ELSE 0
               v == served.value - Worth.step * Len(calls) + Gain(end)
    <3>1. /\ a \in Nat /\ a <= 1 /\ b \in Nat /\ c \in Nat /\ c <= b
          /\ d \in Nat /\ d <= 1
      OBVIOUS
    <3>2. v \in Int
      <4>1. Worth.step \in Int /\ Len(calls) \in Int /\ Gain(end) \in Int /\ served.value \in Int
        BY AgentAssumption DEF Served, Figures, Gain
      <4>2. Worth.step * Len(calls) \in Int
        BY <4>1
      <4> QED
        BY <4>1, <4>2
    <3>3. /\ calls' = <<>>
          /\ served' = [requests |-> served.requests + 1, completed |-> served.completed + a,
                        observed |-> served.observed + b, looped |-> served.looped + c,
                        failures |-> served.failures + d, value |-> v]
      BY <2>2 DEF EndRequest
    <3> HIDE DEF a, b, c, d, v
    <3>4. /\ served.requests \in Nat /\ served.completed \in Nat /\ served.observed \in Nat
          /\ served.looped \in Nat /\ served.failures \in Nat
          /\ served.completed <= served.requests /\ served.looped <= served.observed
          /\ served.failures <= served.requests
      BY DEF Served, Figures
    <3>5. served' \in Figures
      <4>1. /\ served.requests + 1 \in Nat /\ served.completed + a \in Nat
            /\ served.observed + b \in Nat /\ served.looped + c \in Nat
            /\ served.failures + d \in Nat
        BY <3>1, <3>4
      <4> QED
        BY <3>2, <3>3, <4>1 DEF Figures
    <3>6. /\ served'.completed <= served'.requests /\ served'.looped <= served'.observed
          /\ served'.failures <= served'.requests
      <4>1. /\ served.completed + a <= served.requests + 1
            /\ served.looped + c <= served.observed + b
            /\ served.failures + d <= served.requests + 1
        BY <3>1, <3>4
      <4> QED
        BY <3>3, <4>1
    <3> QED
      BY <3>3, <3>5, <3>6 DEF Served
  <2>3. ASSUME NEW x \in BOOLEAN, NEW y \in BOOLEAN, EvaluateAgents(x, y) PROVE Served'
    BY <2>3 DEF EvaluateAgents, Served
  <2>4. CASE UNCHANGED agentVars
    BY <2>4 DEF agentVars, Served
  <2> QED
    BY <2>1, <2>2, <2>3, <2>4 DEF AgentNext
<1> QED
  BY <1>1, <1>2, PTL DEF AgentSpec

\* Round a circle, the same tool comes back at every turn.
LEMMA CircleReturns ==
    ASSUME NEW s, NEW from \in Nat, NEW len \in Nat \ {0}, NEW n \in Int,
           \A i \in from..(from + len * n - 1) : s[i] = s[i + len]
    PROVE  \A k \in 0..n : s[from + len * k] = s[from]
<1> DEFINE bad == {k \in Nat : k <= n /\ s[from + len * k] # s[from]}
<1>1. bad = {}
  <2>1. SUFFICES ASSUME bad # {} PROVE FALSE
    OBVIOUS
  <2>2. PICK k \in bad : \A m \in bad : ~(<<m, k>> \in OpToRel(<, Nat))
    <3> bad \subseteq Nat
      OBVIOUS
    <3> HIDE DEF bad
    <3> QED
      BY <2>1, NatLessThanWellFounded, WFMin, Zenon
  <2>3. k \in Nat /\ k <= n /\ s[from + len * k] # s[from]
    OBVIOUS
  <2>4. k # 0
    <3>1. from + len * 0 = from
      OBVIOUS
    <3> QED
      BY <2>3, <3>1
  <2> DEFINE j == k - 1
  <2>5. j \in Nat /\ j <= n /\ j < k /\ k = j + 1 /\ n >= j + 1
    BY <2>3, <2>4
  <2>6. <<j, k>> \in OpToRel(<, Nat)
    BY <2>3, <2>5 DEF OpToRel
  <2>7. j \notin bad
    <3> HIDE DEF bad, j
    <3> QED
      BY <2>2, <2>6
  <2>8. s[from + len * j] = s[from]
    <3> HIDE DEF j
    <3> QED
      BY <2>5, <2>7
  <2> HIDE DEF j, bad
  <2>9. len * j \in Nat /\ len * n \in Int /\ len * (j + 1) <= len * n /\ len * (j + 1) = len * j + len
    BY <2>5, CancelFactor
  <2>10. from + len * j \in from..(from + len * n - 1)
    BY <2>9
  <2>11. (from + len * j) + len = from + len * k
    BY <2>5, <2>9
  <2> QED
    BY <2>3, <2>8, <2>10, <2>11
<1>2. ASSUME NEW k \in 0..n PROVE s[from + len * k] = s[from]
  <2>1. k \in Nat /\ k <= n
    OBVIOUS
  <2>2. k \notin bad
    BY <1>1
  <2> QED
    BY <2>1, <2>2
<1> QED
  BY <1>2

LEMMA CirclesFound == Served => CirclesAreCaught
<1> SUFFICES ASSUME Served, NEW from \in 1..Len(calls), NEW len \in 1..Len(calls),
                    from + len * (MaxRepetitions + 1) - 1 <= Len(calls),
                    \A i \in from..(from + len * MaxRepetitions - 1) : calls[i] = calls[i + len]
             PROVE  HasLoop
  BY DEF CirclesAreCaught
<1> DEFINE tool == calls[from]
           at == {i \in DOMAIN calls : calls[i] = tool}
           n == MaxRepetitions
<1>1. /\ calls \in Seq(Tools) /\ Len(calls) \in Nat /\ DOMAIN calls = 1..Len(calls)
      /\ from \in Nat \ {0} /\ len \in Nat \ {0} /\ n \in Int
  BY AgentAssumption DEF Served
<1>2. tool \in ToSet(calls)
  BY <1>1 DEF ToSet
<1>3. IsFiniteSet(at) /\ Cardinality(at) \in Nat
  <2>1. IsFiniteSet(1..Len(calls)) /\ at \subseteq 1..Len(calls)
    BY <1>1, FS_Interval
  <2> HIDE DEF at
  <2> QED
    BY <2>1, FS_Subset, FS_CardinalityType
<1> SUFFICES Cardinality(at) > n
  BY <1>2 DEF HasLoop, Times
<1>4. CASE n < 0
  BY <1>1, <1>3, <1>4
<1>5. CASE n >= 0
  <2> DEFINE f == [k \in 0..n |-> from + len * k]
  <2> HIDE DEF tool, n
  <2>1. ASSUME NEW k \in 0..n PROVE from + len * k \in 1..Len(calls) /\ calls[from + len * k] = tool
    <3>1. calls[from + len * k] = tool
      BY <1>1, CircleReturns DEF tool, n
    <3>2. len * k \in Nat /\ len * n \in Nat /\ len * k <= len * n /\ len * (n + 1) = len * n + len
      BY <1>1, <1>5, CancelFactor
    <3>3. from + len * (n + 1) - 1 <= Len(calls)
      BY DEF n
    <3> QED
      BY <1>1, <3>1, <3>2, <3>3
  <2>2. \A k \in 0..n : f[k] \in at
    BY <1>1, <2>1
  <2>3. ASSUME NEW j \in 0..n, NEW k \in 0..n, f[j] = f[k] PROVE j = k
    <3>1. len * j = len * k /\ len * j \in Int /\ len * k \in Int
      BY <1>1, <2>3
    <3>2. j <= k /\ k <= j
      <4>1. len * j <= len * k /\ len * k <= len * j
        BY <3>1
      <4>2. j \in Int /\ k \in Int
        BY <1>1
      <4> QED
        BY <1>1, <4>1, <4>2, CancelFactor
    <3> QED
      BY <3>2
  <2>4. f \in Injection(0..n, at)
    <3>1. f \in [0..n -> at]
      BY <2>2
    <3>2. \A j, k \in 0..n : f[j] = f[k] => j = k
      BY <2>3
    <3> HIDE DEF f, at
    <3> QED
      BY <3>1, <3>2 DEF Injection, IsInjective
  <2> HIDE DEF f, at
  <2>5. Cardinality(0..n) <= Cardinality(at)
    BY <1>3, <2>4, FS_Injection
  <2>6. Cardinality(0..n) = n + 1
    BY <1>1, <1>5, FS_Interval
  <2> QED
    BY <1>1, <1>3, <2>5, <2>6
<1>6. n < 0 \/ n >= 0
  BY <1>1
<1> QED
  BY <1>4, <1>5, <1>6

\* The shares of the same among more, and of one more of each.
LEMMA SharesMove ==
    ASSUME NEW part \in Nat, NEW all \in Nat, part <= all
    PROVE  /\ all > 0 => Percent(part, all + 1) <= Percent(part, all)
           /\ Percent(part, all) <= Percent(part + 1, all + 1)
           /\ Percent(part, all) \in Int /\ Percent(part + 1, all + 1) \in Int /\ Percent(part, all + 1) \in Int
<1>1. ASSUME NEW a \in Nat, NEW b \in Nat \ {0}
      PROVE  Percent(a, b) = RoundHalfEven(10000 * a, b) /\ Percent(a, b) \in Int
  <2>1. Percent(a, b) = RoundHalfEven(10000 * a, b)
    BY DEF Percent
  <2> QED
    BY <2>1, Rounded
<1>2. Percent(part, 0) = 0
  BY DEF Percent
<1>3. Percent(part, all) \in Int /\ Percent(part + 1, all + 1) \in Int /\ Percent(part, all + 1) \in Int
  <2>1. CASE all = 0
    BY <1>1, <1>2, <2>1
  <2>2. CASE all # 0
    BY <1>1, <2>2
  <2> QED
    BY <2>1, <2>2
<1>4. all > 0 => Percent(part, all + 1) <= Percent(part, all)
  <2> SUFFICES ASSUME all > 0 PROVE Percent(part, all + 1) <= Percent(part, all)
    OBVIOUS
  <2>1. (10000 * part) * all <= (10000 * part) * (all + 1)
    <3>1. (10000 * part) * (all + 1) = (10000 * part) * all + 10000 * part /\ (10000 * part) * all \in Int
      OBVIOUS
    <3> QED
      BY <3>1
  <2> QED
    BY <1>1, <2>1, RoundsGrow
<1>5. Percent(part, all) <= Percent(part + 1, all + 1)
  <2>1. CASE all = 0
    <3>1. Percent(part + 1, all + 1) = RoundHalfEven(10000 * (part + 1), all + 1)
      BY <1>1
    <3>2. (all + 1) * 0 <= 10000 * (part + 1)
      OBVIOUS
    <3>3. 0 <= RoundHalfEven(10000 * (part + 1), all + 1)
      BY <3>2, Rounded
    <3> QED
      BY <1>2, <2>1, <3>1, <3>3
  <2>2. CASE all # 0
    <3>1. (10000 * part) * (all + 1) <= (10000 * (part + 1)) * all
      <4>1. /\ (10000 * part) * (all + 1) = 10000 * (part * all) + 10000 * part
            /\ (10000 * (part + 1)) * all = 10000 * (part * all) + 10000 * all
            /\ part * all \in Int
        OBVIOUS
      <4> QED
        BY <4>1
    <3>2. RoundHalfEven(10000 * part, all) <= RoundHalfEven(10000 * (part + 1), all + 1)
      BY <2>2, <3>1, RoundsGrow
    <3>3. /\ Percent(part, all) = RoundHalfEven(10000 * part, all)
          /\ Percent(part + 1, all + 1) = RoundHalfEven(10000 * (part + 1), all + 1)
      BY <1>1, <2>2
    <3> QED
      BY <3>2, <3>3
  <2> QED
    BY <2>1, <2>2
<1> QED
  BY <1>3, <1>4, <1>5

\* For any tools, limits and worth, and sequences of any length.
THEOREM LoopsAreFound == AgentSpec => LoopsDoNotHelp
<1>1. Served' => CirclesAreCaught'
  BY CirclesFound, PTL
<1>2. ASSUME Served, AgentNext, served'.failures > served.failures, served'.looped > served.looped,
             served.requests > 0, Admitted(TRUE)'
      PROVE  Admitted(TRUE)
  <2>1. PICK end \in {"completed", "escalated", "failed"}, traced \in BOOLEAN : EndRequest(end, traced)
    BY <1>2 DEF AgentNext, CallTool, EvaluateAgents, Served, Figures
  <2>2. /\ served \in Figures /\ calls \in Seq(Tools)
        /\ served.completed <= served.requests
        /\ served.looped <= served.observed
        /\ served.failures <= served.requests
    BY <1>2 DEF Served
  <2>3. end = "failed" /\ traced /\ HasLoop
    BY <1>2, <2>1, <2>2 DEF EndRequest, Figures
  <2>4. /\ served'.requests = served.requests + 1 /\ served'.completed = served.completed
        /\ served'.observed = served.observed + 1 /\ served'.looped = served.looped + 1
        /\ served'.failures = served.failures + 1
        /\ served'.value = served.value - Worth.step * Len(calls) + (-Worth.escalated)
    BY <2>1, <2>2, <2>3 DEF EndRequest, Gain, Figures
  <2>5. /\ Fit
        /\ Percent(served'.completed, served'.requests) >= Floor.completion
        /\ Percent(served'.looped, served'.observed) <= Floor.loops
        /\ Percent(served'.failures, served'.requests) <= Floor.failures
        /\ served'.value >= BaselineValue
    BY <1>2 DEF Admitted, Percent
  <2>6. /\ served.requests \in Nat /\ served.completed \in Nat /\ served.observed \in Nat
        /\ served.looped \in Nat /\ served.failures \in Nat /\ served.value \in Int
    BY <2>2 DEF Figures
  <2>7. Percent(served.completed, served.requests) >= Floor.completion
    <3> DEFINE p == Percent(served.completed, served.requests)
               q == Percent(served.completed, served.requests + 1)
    <3>1. p \in Int /\ q \in Int /\ q <= p
      BY <1>2, <2>2, <2>6, SharesMove
    <3>2. q >= Floor.completion
      BY <2>4, <2>5
    <3> HIDE DEF p, q
    <3>3. p >= Floor.completion
      BY <3>1, <3>2, AgentAssumption
    <3> QED
      BY <3>3 DEF p
  <2>8. Percent(served.looped, served.observed) <= Floor.loops
    <3> DEFINE p == Percent(served.looped, served.observed)
               q == Percent(served.looped + 1, served.observed + 1)
    <3>1. p \in Int /\ q \in Int /\ p <= q
      BY <2>2, <2>6, SharesMove
    <3>2. q <= Floor.loops
      BY <2>4, <2>5
    <3> HIDE DEF p, q
    <3>3. p <= Floor.loops
      BY <3>1, <3>2, AgentAssumption
    <3> QED
      BY <3>3 DEF p
  <2>9. Percent(served.failures, served.requests) <= Floor.failures
    <3> DEFINE p == Percent(served.failures, served.requests)
               q == Percent(served.failures + 1, served.requests + 1)
    <3>1. p \in Int /\ q \in Int /\ p <= q
      BY <2>2, <2>6, SharesMove
    <3>2. q <= Floor.failures
      BY <2>4, <2>5
    <3> HIDE DEF p, q
    <3>3. p <= Floor.failures
      BY <3>1, <3>2, AgentAssumption
    <3> QED
      BY <3>3 DEF p
  <2>10. served.value >= BaselineValue
    <3>1. Worth.step * Len(calls) \in Nat /\ Worth.escalated \in Nat
      BY <2>2, AgentAssumption
    <3> QED
      BY <2>4, <2>5, <2>6, <3>1, AgentAssumption
  <2> QED
    BY <2>5, <2>7, <2>8, <2>9, <2>10 DEF Admitted
<1>3. Served /\ Served' /\ [AgentNext]_agentVars =>
        [/\ CirclesAreCaught'
         /\ served'.failures > served.failures /\ served'.looped > served.looped
              /\ served.requests > 0 /\ Admitted(TRUE)'
              => Admitted(TRUE)]_agentVars
  BY <1>1, <1>2 DEF agentVars
<1> QED
  BY <1>3, ServedAlways, PTL DEF AgentSpec, LoopsDoNotHelp

-----------------------------------------------------------------------------
(* Managed AI *)

LEMMA TalliesCount ==
    ASSUME NEW rows \in Tally(Latencies)
    PROVE  /\ rows.failed \in Nat /\ DOMAIN rows.passed = Latencies
           /\ Successes(rows) = Count(rows, Latencies)
           /\ Samples(rows) = Successes(rows) + rows.failed
           /\ Count(rows, {}) = 0
           /\ \A P \in SUBSET Latencies :
                /\ Count(rows, P) \in Nat
                /\ Count(rows, P) + Count(rows, Latencies \ P) = Count(rows, Latencies)
                /\ \A Q \in SUBSET P : Count(rows, Q) <= Count(rows, P)
<1>1. /\ rows.failed \in Nat /\ DOMAIN rows.passed = Latencies
      /\ \A l \in Latencies : rows.passed[l] \in Nat /\ rows.passed[l] \in Int
  BY DEF Tally
<1>2. IsFiniteSet(Latencies)
  BY TargetAssumption
<1>3. \A P : Count(rows, P) = SumOver(rows.passed, P)
  BY DEF Count, SumOver
<1>4. SumOver(rows.passed, {}) = 0
  <2>1. IsFiniteSet({}) /\ \A l \in {} : rows.passed[l] = 0
    BY FS_EmptySet
  <2>2. SumOver([l \in {} |-> 0], {}) = 0
    BY <2>1, SumOfNothing
  <2>3. SumOver(rows.passed, {}) = SumOver([l \in {} |-> 0], {})
    BY <2>1, SumOfSame
  <2> QED
    BY <2>2, <2>3
<1>5. ASSUME NEW P \in SUBSET Latencies
      PROVE  /\ SumOver(rows.passed, P) \in Nat
             /\ SumOver(rows.passed, Latencies) = SumOver(rows.passed, P) + SumOver(rows.passed, Latencies \ P)
             /\ \A Q \in SUBSET P : SumOver(rows.passed, Q) <= SumOver(rows.passed, P)
  <2>1. SumOver(rows.passed, P) \in Nat
    BY <1>1, <1>2, SumOfMore
  <2>2. SumOver(rows.passed, Latencies) = SumOver(rows.passed, P) + SumOver(rows.passed, Latencies \ P)
    BY <1>1, <1>2, SumOfBoth
  <2>3. IsFiniteSet(P) /\ \A l \in P : rows.passed[l] \in Nat
    BY <1>1, <1>2, FS_Subset
  <2>4. \A Q \in SUBSET P : SumOver(rows.passed, Q) <= SumOver(rows.passed, P)
    BY <2>3, SumOfMore
  <2> QED
    BY <2>1, <2>2, <2>4
<1>6. Successes(rows) = Count(rows, Latencies) /\ Samples(rows) = Successes(rows) + rows.failed
  BY <1>1 DEF Successes, Samples
<1>7. \A P \in SUBSET Latencies : Latencies \ P \in SUBSET Latencies
  OBVIOUS
<1> QED
  BY <1>1, <1>3, <1>4, <1>5, <1>6, <1>7

\* The latency at an index of the sorted ones is the least that more samples
\* do not exceed.
LEMMA RankedIsLeast ==
    ASSUME NEW rows \in Tally(Latencies), NEW k \in Nat, k < Successes(rows)
    PROVE  /\ Ranked(rows, k) \in Latencies
           /\ Count(rows, {m \in Latencies : m <= Ranked(rows, k)}) > k
           /\ \A l \in Latencies : Count(rows, {m \in Latencies : m <= l}) > k => Ranked(rows, k) <= l
<1> DEFINE above == {l \in Latencies : Count(rows, {m \in Latencies : m <= l}) > k}
<1>1. Latencies \in SUBSET Int /\ Latencies \subseteq Nat /\ IsFiniteSet(Latencies)
  BY TargetAssumption
<1>2. Ranked(rows, k) = Min(above)
  BY TalliesCount DEF Ranked
<1>3. Latencies # {}
  BY TalliesCount
<1>4. \A y \in Latencies : y <= Max(Latencies)
  BY <1>1, <1>3, Extremes
<1>5. Max(Latencies) \in Latencies
  BY <1>1, <1>3, Extremes
<1>6. {m \in Latencies : m <= Max(Latencies)} = Latencies
  BY <1>4
<1>7. Max(Latencies) \in above
  BY <1>5, <1>6, TalliesCount
<1>8. above \in SUBSET Int /\ IsFiniteSet(above) /\ above # {}
  <2>1. above \subseteq Latencies
    OBVIOUS
  <2> HIDE DEF above
  <2> QED
    BY <1>1, <1>7, <2>1, FS_Subset
<1> HIDE DEF above
<1>9. Min(above) \in above /\ \A y \in above : Min(above) <= y
  BY <1>8, Extremes
<1> QED
  BY <1>2, <1>9 DEF above

\* The interpolated value is no less than the lower of its neighbours.
LEMMA PercentileIsHigh ==
    ASSUME NEW rows \in Tally(Latencies), Successes(rows) > 0, P95(rows) <= Target.p95
    PROVE  20 * Count(rows, {l \in Latencies : l > Target.p95}) <= (Successes(rows) - 1) + 19
<1> DEFINE n == Successes(rows)
           twentieths == 19 * (n - 1)
           i == twentieths \div 20
           j == (twentieths + 19) \div 20
           r == twentieths % 20
           low == Ranked(rows, i)
           high == Ranked(rows, j)
           a == 20 * low + (high - low) * r
           within == {l \in Latencies : l <= Target.p95}
           slow == {l \in Latencies : l > Target.p95}
<1>1. n \in Nat /\ n > 0 /\ n = Count(rows, Latencies)
  BY TalliesCount
<1>2. Latencies \subseteq Nat /\ Target.p95 \in Nat
  BY TargetAssumption DEF Targets
<1>3. P95(rows) = RoundHalfEven(a, 20)
  BY DEF P95
<1>4. i \in Nat /\ j \in Nat /\ i <= j /\ j < n /\ r \in 0..19 /\ twentieths = 20 * i + r
  <2> HIDE DEF n
  <2> QED
    BY <1>1
<1> HIDE DEF i, j, r
<1>5. low \in Latencies /\ Count(rows, {m \in Latencies : m <= low}) > i
  <2>1. i \in Nat /\ i < n
    BY <1>1, <1>4
  <2> QED
    BY <2>1, RankedIsLeast
<1>6. high \in Latencies /\ low <= high
  <2>1. high \in Latencies /\ Count(rows, {m \in Latencies : m <= high}) > j
    BY <1>4, RankedIsLeast
  <2>2. Count(rows, {m \in Latencies : m <= high}) \in Nat
    BY TalliesCount
  <2>3. Count(rows, {m \in Latencies : m <= high}) > i
    BY <1>4, <2>1, <2>2
  <2>4. i < n
    BY <1>1, <1>4
  <2> QED
    BY <1>4, <2>1, <2>3, <2>4, RankedIsLeast
<1> HIDE DEF low, high
<1>7. low <= Target.p95
  <2>1. low \in Int /\ high \in Int /\ high - low \in Nat /\ (high - low) * r \in Nat
    BY <1>2, <1>4, <1>5, <1>6
  <2>2. a \in Int /\ 20 * low <= a
    BY <2>1
  <2> HIDE DEF a
  <2>3. low <= RoundHalfEven(a, 20) /\ RoundHalfEven(a, 20) \in Int
    BY <2>1, <2>2, Rounded
  <2> QED
    BY <1>2, <1>3, <2>1, <2>3
<1>8. {m \in Latencies : m <= low} \in SUBSET within /\ within \in SUBSET Latencies
  <2>1. \A m \in Latencies : m <= low => m <= Target.p95
    BY <1>2, <1>5, <1>7
  <2> QED
    BY <2>1
<1>9. Latencies \ within = slow
  <2>1. \A l \in Latencies : ~(l <= Target.p95) <=> l > Target.p95
    BY <1>2
  <2> QED
    BY <2>1
<1> HIDE DEF within, slow, n
<1>10. /\ Count(rows, within) \in Nat /\ Count(rows, slow) \in Nat
       /\ Count(rows, within) + Count(rows, slow) = Count(rows, Latencies)
       /\ Count(rows, {m \in Latencies : m <= low}) <= Count(rows, within)
       /\ Count(rows, {m \in Latencies : m <= low}) \in Nat
  <2>1. slow \in SUBSET Latencies
    BY <1>9
  <2> QED
    BY <1>8, <1>9, <2>1, TalliesCount
<1>11. 20 * Count(rows, slow) <= (n - 1) + 19
  BY <1>1, <1>4, <1>5, <1>10
<1> QED
  BY <1>11 DEF slow, n

\* The latencies of the report are those of the passed samples alone.
LEMMA FailuresTakeNoTime ==
    ASSUME NEW rows \in Tally(Latencies), NEW more \in Tally(Latencies), rows.passed = more.passed
    PROVE  Successes(rows) = Successes(more) /\ P95(rows) = P95(more)
<1>1. \A P : Count(rows, P) = Count(more, P)
  <2>1. \A P : Count(rows, P) = SumOver(rows.passed, P) /\ Count(more, P) = SumOver(more.passed, P)
    BY DEF Count, SumOver
  <2> QED
    BY <2>1
<1>2. Successes(rows) = Successes(more)
  BY <1>1 DEF Successes
<1>3. ASSUME NEW k PROVE Ranked(rows, k) = Ranked(more, k)
  <2> DEFINE at(x) == {l \in DOMAIN x.passed : Count(x, {m \in DOMAIN x.passed : m <= l}) > k}
  <2>1. at(rows) = at(more)
    BY <1>1
  <2>2. Ranked(rows, k) = Min(at(rows)) /\ Ranked(more, k) = Min(at(more))
    BY DEF Ranked
  <2> QED
    BY <2>1, <2>2
<1> QED
  BY <1>2, <1>3 DEF P95

\* "Met" is earned, in any table.
LEMMA MetTables ==
    ASSUME NEW rows \in Tally(Latencies), Status(rows, Target) = "met"
    PROVE  /\ Samples(rows) >= Target.samples
           /\ 2 * 10000 * Successes(rows) + Samples(rows) >= 2 * Target.rate * Samples(rows)
           /\ 20 * Count(rows, {l \in Latencies : l > Target.p95}) <= (Successes(rows) - 1) + 19
<1>1. Covered(rows, Target) /\ RateMet(rows, Target) /\ LatencyMet(rows, Target)
  BY DEF Status
<1>2. Successes(rows) \in Nat /\ Samples(rows) \in Nat /\ rows.failed \in Nat
  BY TalliesCount
<1>3. Target.rate \in Nat
  <2> DEFINE m == Target.rate
  <2>1. m \in 1..10000
    BY TargetAssumption DEF Targets
  <2> HIDE DEF m
  <2>2. m \in Nat
    BY <2>1
  <2> QED
    BY <2>2 DEF m
<1>4. 2 * 10000 * Successes(rows) + Samples(rows) >= 2 * Target.rate * Samples(rows)
  <2> DEFINE b == Samples(rows)
             a == 10000 * Successes(rows)
             m == Target.rate
  <2>1. a \in Int /\ b \in Nat \ {0} /\ m \in Int /\ m <= RoundHalfEven(a, b)
    BY <1>1, <1>2, <1>3 DEF RateMet, Rate
  <2>2. 2 * 10000 * Successes(rows) = 2 * a
    BY <1>2
  <2> HIDE DEF a, b, m
  <2>3. b * (2 * m - 1) <= 2 * a
    <3>1. b * (2 * m - 1) < 2 * a \/ b * (2 * m - 1) = 2 * a
      BY <2>1, RoundsAtLeast
    <3>2. b * (2 * m - 1) \in Int /\ 2 * a \in Int
      BY <2>1
    <3> QED
      BY <3>1, <3>2
  <2>4. b * (2 * m - 1) = 2 * m * b - b /\ 2 * m * b \in Int
    BY <2>1
  <2>5. 2 * a + b >= 2 * m * b
    BY <2>1, <2>3, <2>4
  <2> QED
    BY <2>2, <2>5 DEF b, m
<1>5. 20 * Count(rows, {l \in Latencies : l > Target.p95}) <= (Successes(rows) - 1) + 19
  BY <1>1, PercentileIsHigh DEF LatencyMet
<1> QED
  BY <1>1, <1>4, <1>5 DEF Covered

\* A failing service is never praised: a month is called "met" only over enough
\* samples, of a rate and with latencies that meet the targets, and a probe
\* that fails turns no month that needs attention into one.
THEOREM PraiseIsDue == ProbeSpec => PraiseIsEarned
<1>1. ProbeInit => ProbeTypeOK
  BY TargetAssumption DEF ProbeInit, ProbeTypeOK, NoProbes, Tally
<1>2. ProbeTypeOK /\ [ProbeNext]_probes => ProbeTypeOK'
  <2> SUFFICES ASSUME ProbeTypeOK, [ProbeNext]_probes PROVE ProbeTypeOK'
    OBVIOUS
  <2>1. CASE \E l \in Latencies : ProbePasses(l)
    BY <2>1 DEF ProbeTypeOK, Tally, ProbePasses
  <2>2. CASE ProbeFails
    BY <2>2 DEF ProbeTypeOK, Tally, ProbeFails
  <2>3. CASE UNCHANGED probes
    BY <2>3 DEF ProbeTypeOK
  <2> QED
    BY <2>1, <2>2, <2>3 DEF ProbeNext
<1>3. ProbeTypeOK /\ ProbeTypeOK' /\ [ProbeNext]_probes
        => [/\ MetIsEarned'
            /\ probes'.failed > probes.failed /\ Status(probes, Target) = "attention"
                 => Status(probes', Target) # "met"]_probes
  <2> SUFFICES ASSUME ProbeTypeOK, ProbeTypeOK', ProbeNext
               PROVE  /\ MetIsEarned'
                      /\ probes'.failed > probes.failed /\ Status(probes, Target) = "attention"
                           => Status(probes', Target) # "met"
    OBVIOUS
  <2>1. probes \in Tally(Latencies) /\ probes' \in Tally(Latencies)
    BY DEF ProbeTypeOK
  <2>2. MetIsEarned'
    BY <2>1, MetTables DEF MetIsEarned, Slow
  <2>3. ASSUME probes'.failed > probes.failed, Status(probes, Target) = "attention",
               Status(probes', Target) = "met"
        PROVE  FALSE
    <3>1. probes.failed \in Nat /\ probes'.failed \in Nat
      BY <2>1, TalliesCount
    <3>2. probes'.passed = probes.passed
      <4>1. CASE ProbeFails
        BY <2>1, <4>1 DEF ProbeFails, Tally
      <4>2. ASSUME NEW l \in Latencies, ProbePasses(l) PROVE FALSE
        <5>1. probes'.failed = probes.failed
          BY <2>1, <4>2 DEF ProbePasses, Tally
        <5> QED
          BY <2>3, <3>1, <5>1
      <4> QED
        BY <4>1, <4>2 DEF ProbeNext
    <3>3. Successes(probes') = Successes(probes) /\ P95(probes') = P95(probes)
      BY <2>1, <3>2, FailuresTakeNoTime
    <3>4. /\ Samples(probes) # 0 /\ Covered(probes, Target)
          /\ ~(RateMet(probes, Target) /\ LatencyMet(probes, Target))
      BY <2>3 DEF Status
    <3>5. RateMet(probes', Target) /\ LatencyMet(probes', Target)
      BY <2>3 DEF Status
    <3>6. LatencyMet(probes, Target)
      BY <3>3, <3>5 DEF LatencyMet
    <3>7. RateMet(probes, Target)
      <4> DEFINE b == Samples(probes')
                 d == Samples(probes)
                 a == 10000 * Successes(probes)
      <4>1. Successes(probes) \in Nat /\ Samples(probes) = Successes(probes) + probes.failed
        BY <2>1, TalliesCount
      <4>2. Samples(probes') = Successes(probes') + probes'.failed
        BY <2>1, TalliesCount
      <4>3. a \in Nat /\ a \in Int /\ b \in Nat \ {0} /\ d \in Nat \ {0} /\ d <= b
        BY <2>3, <3>1, <3>3, <3>4, <4>1, <4>2
      <4>4. Target.rate <= RoundHalfEven(a, b) /\ Target.rate \in Int
        <5> DEFINE m == Target.rate
        <5>1. m \in 1..10000
          BY TargetAssumption DEF Targets
        <5>2. RoundHalfEven(a, b) >= m /\ RoundHalfEven(a, b) \in Int
          BY <3>3, <3>5, <4>3, Rounded DEF RateMet, Rate
        <5> HIDE DEF m
        <5>3. m <= RoundHalfEven(a, b) /\ m \in Int
          BY <5>1, <5>2
        <5> QED
          BY <5>3 DEF m
      <4>5. Rate(probes) = RoundHalfEven(a, d) /\ (RateMet(probes, Target) <=> d > 0 /\ Rate(probes) >= Target.rate)
        BY DEF Rate, RateMet
      <4> HIDE DEF a, b, d
      <4>6. a * d <= a * b
        <5>1. a * b = a * d + a * (b - d) /\ a * (b - d) \in Nat /\ a * d \in Nat
          BY <4>3
        <5> QED
          BY <5>1
      <4>7. RoundHalfEven(a, b) <= RoundHalfEven(a, d)
        BY <4>3, <4>6, RoundsGrow
      <4>8. RoundHalfEven(a, b) \in Int /\ RoundHalfEven(a, d) \in Int
        BY <4>3, Rounded
      <4> QED
        BY <4>3, <4>4, <4>5, <4>7, <4>8
    <3> QED
      BY <3>4, <3>6, <3>7
  <2> QED
    BY <2>2, <2>3
<1> QED
  BY <1>1, <1>2, <1>3, PTL DEF ProbeSpec, PraiseIsEarned

-----------------------------------------------------------------------------
(* Commercial onboarding *)

\* The function FoldLeft is defined by, for the loop over usage events.
IsTake(events, g) ==
    g = [s \in SUBSET DOMAIN events |->
            IF s = {} THEN NothingSeen ELSE Meter(g[s \ {Max(s)}], events[Max(s)])]

IsTakeUpTo(events, n, g) ==
    g = [s \in Small(DOMAIN events, n) |->
            IF s = {} THEN NothingSeen ELSE Meter(g[s \ {Max(s)}], events[Max(s)])]

LEMMA TakenIsTake ==
    ASSUME NEW events
    PROVE  Taken(events) = (CHOOSE g : IsTake(events, g))[DOMAIN events]
BY DEF Taken, FoldLeft, MapThenFoldSet, IsTake

\* Places of a log: a set of them has a last one, and without it is smaller.
LEMMA LastOfPlaces ==
    ASSUME NEW events \in Seq(Events), NEW s \in SUBSET DOMAIN events
    PROVE  /\ IsFiniteSet(DOMAIN events) /\ IsFiniteSet(s)
           /\ s # {} => Max(s) \in s /\ (\A y \in s : y <= Max(s)) /\ s \ {Max(s)} \in SUBSET DOMAIN events
           /\ \A n \in Nat : s # {} /\ s \in Small(DOMAIN events, n + 1)
                                => s \ {Max(s)} \in Small(DOMAIN events, n)
<1>1. DOMAIN events = 1..Len(events) /\ Len(events) \in Nat
  OBVIOUS
<1>2. IsFiniteSet(DOMAIN events)
  BY <1>1, FS_Interval
<1>3. IsFiniteSet(s) /\ s \in SUBSET Int
  BY <1>1, <1>2, FS_Subset
<1>4. ASSUME s # {}
      PROVE  Max(s) \in s /\ \A y \in s : y <= Max(s)
  BY <1>3, <1>4, Extremes
<1>5. ASSUME NEW n \in Nat, s # {}, s \in Small(DOMAIN events, n + 1)
      PROVE  s \ {Max(s)} \in Small(DOMAIN events, n)
  <2> DEFINE m == Max(s)
             rest == s \ {m}
  <2>1. m \in s
    BY <1>4, <1>5
  <2> HIDE DEF m
  <2>2. Cardinality(rest) = Cardinality(s) - 1 /\ Cardinality(s) \in Nat
    BY <1>3, <2>1, FS_RemoveElement, FS_CardinalityType
  <2>3. Cardinality(s) <= n + 1
    BY <1>5 DEF Small
  <2>4. Cardinality(rest) <= n
    BY <2>2, <2>3
  <2>5. rest \in SUBSET DOMAIN events
    OBVIOUS
  <2>6. rest \in Small(DOMAIN events, n)
    BY <2>4, <2>5 DEF Small
  <2> QED
    BY <2>6 DEF m
<1> QED
  BY <1>2, <1>3, <1>4, <1>5

LEMMA TakeGrows ==
    ASSUME NEW events \in Seq(Events), NEW n \in Nat, NEW g, IsTakeUpTo(events, n, g)
    PROVE  \E h : IsTakeUpTo(events, n + 1, h)
<1> DEFINE S == DOMAIN events
           body(k, s) == IF s = {} THEN NothingSeen ELSE Meter(k[s \ {Max(s)}], events[Max(s)])
           h == [s \in Small(S, n + 1) |-> body(g, s)]
<1>1. ASSUME NEW s \in Small(S, n) PROVE h[s] = g[s]
  <2>1. s \in Small(S, n + 1)
    <3>1. IsFiniteSet(S)
      BY LastOfPlaces
    <3> QED
      BY <1>1, <3>1, SmallStep
  <2>2. g[s] = body(g, s)
    BY <1>1 DEF IsTakeUpTo
  <2> QED
    BY <2>1, <2>2
<1>2. ASSUME NEW s \in Small(S, n + 1) PROVE body(g, s) = body(h, s)
  <2>1. CASE s = {}
    BY <2>1
  <2>2. CASE s # {}
    <3>1. s \ {Max(s)} \in Small(S, n)
      <4>1. s \in SUBSET DOMAIN events
        BY <1>2 DEF Small
      <4> QED
        BY <1>2, <2>2, <4>1, LastOfPlaces
    <3>2. h[s \ {Max(s)}] = g[s \ {Max(s)}]
      BY <1>1, <3>1
    <3> QED
      BY <2>2, <3>2
  <2> QED
    BY <2>1, <2>2
<1>3. h = [s \in Small(S, n + 1) |-> body(h, s)]
  <2> HIDE DEF body
  <2> QED
    BY <1>2
<1>4. IsTakeUpTo(events, n + 1, h)
  BY <1>3 DEF IsTakeUpTo
<1> QED
  BY <1>4

\* The loop over a log is defined.
LEMMA TakeExists ==
    ASSUME NEW events \in Seq(Events)
    PROVE  \E g : IsTake(events, g)
<1> DEFINE bad == {n \in Nat : ~\E g : IsTakeUpTo(events, n, g)}
<1>0. IsFiniteSet(DOMAIN events)
  <2>1. DOMAIN events \in SUBSET DOMAIN events
    OBVIOUS
  <2> QED
    BY <2>1, LastOfPlaces
<1>1. bad = {}
  <2>1. SUFFICES ASSUME bad # {} PROVE FALSE
    OBVIOUS
  <2>2. PICK n \in bad : \A m \in bad : ~(<<m, n>> \in OpToRel(<, Nat))
    <3> bad \subseteq Nat
      OBVIOUS
    <3> HIDE DEF bad
    <3> QED
      BY <2>1, NatLessThanWellFounded, WFMin, Zenon
  <2>3. n \in Nat /\ ~\E g : IsTakeUpTo(events, n, g)
    OBVIOUS
  <2>4. n # 0
    <3> DEFINE g == [s \in {{}} |-> NothingSeen]
    <3>1. Small(DOMAIN events, 0) = {{}}
      BY <1>0, SmallStep
    <3>2. g = [s \in Small(DOMAIN events, 0) |->
                 IF s = {} THEN NothingSeen ELSE Meter(g[s \ {Max(s)}], events[Max(s)])]
      BY <3>1
    <3>3. IsTakeUpTo(events, 0, g)
      BY <3>2 DEF IsTakeUpTo
    <3> QED
      BY <2>3, <3>3
  <2>5. n - 1 \in Nat /\ n - 1 < n
    BY <2>3, <2>4
  <2>6. <<n - 1, n>> \in OpToRel(<, Nat)
    BY <2>3, <2>5 DEF OpToRel
  <2>7. n - 1 \notin bad
    <3> HIDE DEF bad
    <3> QED
      BY <2>2, <2>6
  <2>8. PICK g : IsTakeUpTo(events, n - 1, g)
    BY <2>5, <2>7
  <2>9. \E h : IsTakeUpTo(events, (n - 1) + 1, h)
    BY <2>5, <2>8, TakeGrows
  <2>10. (n - 1) + 1 = n
    BY <2>3
  <2> QED
    BY <2>3, <2>9, <2>10
<1> DEFINE n == Cardinality(DOMAIN events)
<1>2. n \in Nat
  BY <1>0, FS_CardinalityType
<1>3. PICK g : IsTakeUpTo(events, n, g)
  BY <1>1, <1>2
<1>4. Small(DOMAIN events, n) = SUBSET DOMAIN events
  BY <1>0, FS_Subset DEF Small
<1>5. IsTake(events, g)
  BY <1>3, <1>4 DEF IsTake, IsTakeUpTo
<1> QED
  BY <1>5

\* An event at the end of a log is taken after the others.
LEMMA TakenInOrder ==
    /\ Taken(<<>>) = NothingSeen
    /\ \A events \in Seq(Events) : \A e \in Events :
         Taken(Append(events, e)) = Meter(Taken(events), e)
<1>1. Taken(<<>>) = NothingSeen
  <2>1. <<>> \in Seq(Events) /\ DOMAIN <<>> = {}
    OBVIOUS
  <2> DEFINE g == CHOOSE k : IsTake(<<>>, k)
  <2>2. IsTake(<<>>, g)
    BY <2>1, TakeExists
  <2> HIDE DEF g
  <2>3. g[{}] = NothingSeen
    BY <2>1, <2>2 DEF IsTake
  <2> QED
    BY <2>1, <2>3, TakenIsTake DEF g
<1>2. ASSUME NEW events \in Seq(Events), NEW e \in Events
      PROVE  Taken(Append(events, e)) = Meter(Taken(events), e)
  <2> DEFINE more == Append(events, e)
             n == Len(events)
             g == CHOOSE k : IsTake(events, k)
             h == CHOOSE k : IsTake(more, k)
             S == DOMAIN events
  <2>1. /\ more \in Seq(Events) /\ n \in Nat /\ S = 1..n /\ DOMAIN more = 1..(n + 1)
        /\ more[n + 1] = e /\ \A i \in 1..n : more[i] = events[i]
    OBVIOUS
  <2>2. IsTake(events, g)
    BY TakeExists
  <2>3. IsTake(more, h)
    BY <2>1, TakeExists
  <2>4. Taken(events) = g[S] /\ Taken(more) = h[DOMAIN more]
    BY TakenIsTake
  <2> HIDE DEF g, h, more
  <2> DEFINE Good == {s \in SUBSET S : g[s] = h[s]}
  <2>5. ASSUME NEW s \in SUBSET S, \A x \in s : s \ {x} \in Good PROVE s \in Good
    <3>1. s \in SUBSET DOMAIN more
      BY <2>1
    <3>2. CASE s = {}
      BY <2>2, <2>3, <3>1, <3>2 DEF IsTake
    <3>3. CASE s # {}
      <4>1. Max(s) \in s /\ s \ {Max(s)} \in Good
        BY <2>5, <3>3, LastOfPlaces
      <4>2. g[s] = Meter(g[s \ {Max(s)}], events[Max(s)])
        BY <2>2, <3>3 DEF IsTake
      <4>3. h[s] = Meter(h[s \ {Max(s)}], more[Max(s)])
        BY <2>3, <3>1, <3>3 DEF IsTake
      <4>4. more[Max(s)] = events[Max(s)]
        BY <2>1, <4>1
      <4>5. g[s \ {Max(s)}] = h[s \ {Max(s)}]
        BY <4>1
      <4>6. g[s] = h[s]
        BY <4>2, <4>3, <4>4, <4>5
      <4> QED
        BY <4>6
    <3> QED
      BY <3>2, <3>3
  <2>6. IsFiniteSet(S)
    <3>1. S \in SUBSET S
      OBVIOUS
    <3> QED
      BY <3>1, LastOfPlaces
  <2>7. S \in Good
    <3>1. S \in SUBSET S
      OBVIOUS
    <3> HIDE DEF Good, S
    <3> QED
      BY <2>5, <2>6, <3>1, SetInduction
  <2>8. h[DOMAIN more] = Meter(h[S], e)
    <3> DEFINE all == DOMAIN more
               m == Max(all)
    <3>1. all \in SUBSET DOMAIN more /\ all # {} /\ n + 1 \in all
      BY <2>1
    <3>2. m \in all /\ \A y \in all : y <= m
      BY <2>1, <3>1, LastOfPlaces
    <3>3. m = n + 1
      <4> HIDE DEF m
      <4> QED
        BY <2>1, <3>1, <3>2
    <3>4. h[all] = Meter(h[all \ {Max(all)}], more[Max(all)])
      BY <2>3, <3>1 DEF IsTake
    <3>5. all \ {m} = S
      BY <2>1, <3>3
    <3> QED
      BY <2>1, <3>3, <3>4, <3>5
  <2>9. h[S] = g[S]
    BY <2>7
  <2> QED
    BY <2>4, <2>8, <2>9 DEF more
<1> QED
  BY <1>1, <1>2

\* What the loop has gathered of a log.
Gathered(events) ==
    LET acc == Taken(events)
    IN  /\ acc.accepted \in Seq(Events)
        /\ \A i, j \in DOMAIN acc.accepted :
             i # j => acc.accepted[i].id # acc.accepted[j].id /\ acc.accepted[i].key # acc.accepted[j].key
        /\ acc.ids = {acc.accepted[i].id : i \in DOMAIN acc.accepted}
        /\ acc.keys = {acc.accepted[i].key : i \in DOMAIN acc.accepted}
        /\ \A i \in DOMAIN events :
             events[i].ours => events[i].id \in acc.ids \/ events[i].key \in acc.keys

LEMMA GatheredOnce ==
    ASSUME NEW events \in Seq(Events), Gathered(events), NEW e \in Events
    PROVE  Gathered(Append(events, e))
<1> DEFINE acc == Taken(events)
           new == Meter(acc, e)
           more == Append(events, e)
<1>1. Taken(more) = new
  BY TakenInOrder
<1>2. /\ acc.accepted \in Seq(Events)
      /\ \A i, j \in DOMAIN acc.accepted :
           i # j => acc.accepted[i].id # acc.accepted[j].id /\ acc.accepted[i].key # acc.accepted[j].key
      /\ acc.ids = {acc.accepted[i].id : i \in DOMAIN acc.accepted}
      /\ acc.keys = {acc.accepted[i].key : i \in DOMAIN acc.accepted}
      /\ \A i \in DOMAIN events :
           events[i].ours => events[i].id \in acc.ids \/ events[i].key \in acc.keys
  BY DEF Gathered
<1>3. \A i \in DOMAIN more : (i \in DOMAIN events /\ more[i] = events[i]) \/ more[i] = e
  OBVIOUS
<1> HIDE DEF acc, more
<1>4. CASE ~e.ours \/ Duplicate(acc, e)
  <2>1. new = acc
    BY <1>4 DEF Meter
  <2>2. ~e.ours \/ e.id \in acc.ids \/ e.key \in acc.keys
    BY <1>4 DEF Duplicate
  <2>3. \A i \in DOMAIN more :
          more[i].ours => more[i].id \in acc.ids \/ more[i].key \in acc.keys
    BY <1>2, <1>3, <2>2
  <2>4. Gathered(more)
    BY <1>1, <1>2, <2>1, <2>3 DEF Gathered
  <2> QED
    BY <2>4 DEF more
<1>5. CASE ~(~e.ours \/ Duplicate(acc, e))
  <2> DEFINE list == Append(acc.accepted, e)
             k == Len(acc.accepted)
  <2>1. /\ new.accepted = list
        /\ new.ids = acc.ids \cup {e.id} /\ new.keys = acc.keys \cup {e.key}
    BY <1>5 DEF Meter
  <2>2. e.id \notin acc.ids /\ e.key \notin acc.keys
    BY <1>5 DEF Duplicate
  <2>3. /\ list \in Seq(Events) /\ k \in Nat /\ DOMAIN list = 1..(k + 1) /\ DOMAIN acc.accepted = 1..k
        /\ list[k + 1] = e /\ \A i \in 1..k : list[i] = acc.accepted[i]
    BY <1>2
  <2> HIDE DEF list, k, new
  <2>4. \A i \in 1..k : acc.accepted[i].id # e.id /\ acc.accepted[i].key # e.key
    BY <1>2, <2>2, <2>3
  <2>5. ASSUME NEW i \in DOMAIN list, NEW j \in DOMAIN list, i # j
        PROVE  list[i].id # list[j].id /\ list[i].key # list[j].key
    <3>1. (i \in 1..k /\ list[i] = acc.accepted[i]) \/ (i = k + 1 /\ list[i] = e)
      BY <2>3
    <3>2. (j \in 1..k /\ list[j] = acc.accepted[j]) \/ (j = k + 1 /\ list[j] = e)
      BY <2>3
    <3> QED
      BY <1>2, <2>3, <2>4, <2>5, <3>1, <3>2
  <2>6. new.ids = {list[i].id : i \in DOMAIN list} /\ new.keys = {list[i].key : i \in DOMAIN list}
    <3>1. DOMAIN list = (1..k) \cup {k + 1}
      BY <2>3
    <3>2. {list[i].id : i \in DOMAIN list} = {acc.accepted[i].id : i \in 1..k} \cup {e.id}
      BY <2>3, <3>1
    <3>3. {list[i].key : i \in DOMAIN list} = {acc.accepted[i].key : i \in 1..k} \cup {e.key}
      BY <2>3, <3>1
    <3> QED
      BY <1>2, <2>1, <2>3, <3>2, <3>3
  <2>7. ASSUME NEW i \in DOMAIN more, more[i].ours
        PROVE  more[i].id \in new.ids \/ more[i].key \in new.keys
    BY <1>2, <1>3, <2>1, <2>7
  <2>8. Taken(more) = new
    BY <1>1 DEF new
  <2>9. \A i, j \in DOMAIN new.accepted :
          i # j => new.accepted[i].id # new.accepted[j].id /\ new.accepted[i].key # new.accepted[j].key
    BY <2>1, <2>5
  <2>10. /\ new.accepted \in Seq(Events)
         /\ new.ids = {new.accepted[i].id : i \in DOMAIN new.accepted}
         /\ new.keys = {new.accepted[i].key : i \in DOMAIN new.accepted}
    BY <2>1, <2>3, <2>6
  <2>11. Gathered(more)
    BY <2>7, <2>8, <2>9, <2>10 DEF Gathered
  <2> QED
    BY <2>11 DEF more
<1> QED
  BY <1>4, <1>5

\* An event that is in the log adds nothing to what the loop counts.
LEMMA RepeatsAddNothing ==
    ASSUME NEW events \in Seq(Events), Gathered(events), NEW e \in Events, Contains(events, e)
    PROVE  Counted(Append(events, e)) = Counted(events)
<1> DEFINE acc == Taken(events)
<1>1. PICK i \in 1..Len(events) : events[i] = e
  BY DEF Contains
<1>2. ~e.ours \/ e.id \in acc.ids \/ e.key \in acc.keys
  <2>1. i \in DOMAIN events
    OBVIOUS
  <2> QED
    BY <1>1, <2>1 DEF Gathered
<1>3. Taken(Append(events, e)) = Meter(acc, e)
  BY TakenInOrder
<1>4. Meter(acc, e) = acc
  BY <1>2 DEF Meter, Duplicate
<1> QED
  BY <1>3, <1>4 DEF Counted

\* The log the meter writes, and what has been gathered of it.
LogInv == log \in Seq(Events) /\ Gathered(log)

\* The bill is of distinct events: whatever the meter repeats or contradicts,
\* no two counted events share an id or a key, one that is left out shares one
\* with a counted event, and an event that comes again costs nothing.
THEOREM EventsAreBilledOnce == CommercialSpec => BilledOnce
<1>1. CommercialInit => LogInv
  <2> SUFFICES ASSUME log = <<>> PROVE LogInv
    BY DEF CommercialInit
  <2>1. Taken(log) = NothingSeen
    BY TakenInOrder
  <2> DEFINE none == <<>>
             acc == Taken(log)
  <2>2. /\ acc.accepted = none /\ acc.ids = {} /\ acc.keys = {}
        /\ none \in Seq(Events) /\ DOMAIN none = {} /\ DOMAIN log = {} /\ log \in Seq(Events)
    BY <2>1 DEF NothingSeen
  <2> HIDE DEF none, acc
  <2>3. /\ \A i, j \in DOMAIN acc.accepted :
             i # j => acc.accepted[i].id # acc.accepted[j].id /\ acc.accepted[i].key # acc.accepted[j].key
        /\ acc.ids = {acc.accepted[i].id : i \in DOMAIN acc.accepted}
        /\ acc.keys = {acc.accepted[i].key : i \in DOMAIN acc.accepted}
        /\ \A i \in DOMAIN log : log[i].ours => log[i].id \in acc.ids \/ log[i].key \in acc.keys
    BY <2>2
  <2> QED
    BY <2>2, <2>3 DEF LogInv, Gathered, acc
<1>2. LogInv /\ [CommercialNext]_commercialVars => LogInv'
  <2> SUFFICES ASSUME LogInv, [CommercialNext]_commercialVars PROVE LogInv'
    OBVIOUS
  <2>1. ASSUME NEW e \in Events, Deliver(e) PROVE LogInv'
    <3>1. log' = Append(log, e) /\ log' \in Seq(Events)
      BY <2>1 DEF Deliver, LogInv
    <3>2. Gathered(log')
      BY <3>1, GatheredOnce DEF LogInv
    <3> QED
      BY <3>1, <3>2 DEF LogInv
  <2>2. CASE UNCHANGED log
    BY <2>2 DEF LogInv, Gathered
  <2> QED
    BY <2>1, <2>2 DEF CommercialNext, commercialVars, Onboard
<1>3. LogInv /\ LogInv' /\ [CommercialNext]_commercialVars
        => [/\ CountedOnce'
            /\ Len(log') > Len(log) /\ Contains(log, Last(log'))
                 => Metered(log') = Metered(log)]_log
  <2> SUFFICES ASSUME LogInv, LogInv', CommercialNext, log' # log
               PROVE  /\ CountedOnce'
                      /\ Len(log') > Len(log) /\ Contains(log, Last(log'))
                           => Metered(log') = Metered(log)
    BY DEF commercialVars
  <2>1. PICK e \in Events : log' = Append(log, e)
    BY DEF CommercialNext, Deliver, Onboard
  <2>2. CountedOnce'
    <3> DEFINE counted == Counted(log')
    <3>1. Gathered(log')
      BY DEF LogInv
    <3>2. counted = Taken(log').accepted
      BY DEF Counted
    <3>3. \A i, j \in DOMAIN counted :
             i # j => counted[i].id # counted[j].id /\ counted[i].key # counted[j].key
      BY <3>1, <3>2 DEF Gathered
    <3>4. \A i \in DOMAIN log' : log'[i].ours =>
             \E j \in DOMAIN counted : counted[j].id = log'[i].id \/ counted[j].key = log'[i].key
      BY <3>1, <3>2 DEF Gathered
    <3> QED
      BY <3>3, <3>4 DEF CountedOnce
  <2>3. ASSUME Contains(log, Last(log')) PROVE Metered(log') = Metered(log)
    <3>1. Last(log') = e /\ log \in Seq(Events)
      BY <2>1 DEF LogInv, Last
    <3>2. Counted(log') = Counted(log)
      BY <2>1, <2>3, <3>1, RepeatsAddNothing DEF LogInv
    <3> QED
      BY <3>2 DEF Metered
  <2> QED
    BY <2>2, <2>3
<1> QED
  BY <1>1, <1>2, <1>3, PTL DEF CommercialSpec, BilledOnce

-----------------------------------------------------------------------------
(* The paired benchmark *)

LEMMA RunsCount ==
    ASSUME NEW run \in Run
    PROVE  /\ Ok \in SUBSET Ends /\ IsFiniteSet(Ends)
           /\ \A P \in SUBSET Ends :
                /\ In(run, P) \in Nat
                /\ \A Q \in SUBSET P :
                     In(run, Q) <= In(run, P) /\ In(run, P) = In(run, Q) + In(run, P \ Q)
           /\ Cost(run) \in Nat
<1>1. IsFiniteSet(Ends) /\ \A e \in Ends : run[e] \in Nat /\ run[e] \in Int
  BY BenchmarkAssumption DEF Run
<1>2. ASSUME NEW P \in SUBSET Ends
      PROVE  /\ In(run, P) \in Nat
             /\ \A Q \in SUBSET P :
                  In(run, Q) <= In(run, P) /\ In(run, P) = In(run, Q) + In(run, P \ Q)
  <2>1. IsFiniteSet(P) /\ \A e \in P : run[e] \in Nat /\ run[e] \in Int
    BY <1>1, FS_Subset
  <2>2. SumOver(run, P) \in Nat /\ \A Q \in SUBSET P : SumOver(run, Q) <= SumOver(run, P)
    BY <2>1, SumOfMore
  <2>3. \A Q \in SUBSET P : SumOver(run, P) = SumOver(run, Q) + SumOver(run, P \ Q)
    BY <2>1, SumOfBoth
  <2> QED
    BY <2>2, <2>3 DEF In
<1>3. Cost(run) \in Nat
  <2> DEFINE f == [e \in Ends |-> run[e] * End[e].cost]
  <2>1. \A e \in Ends : f[e] \in Nat
    <3>1. \A e \in Ends : End[e].cost \in Nat
      BY BenchmarkAssumption
    <3>2. \A m, n \in Nat : m * n \in Nat
      OBVIOUS
    <3> QED
      BY <1>1, <3>1, <3>2
  <2> HIDE DEF f
  <2>2. SumOver(f, Ends) \in Nat
    BY <1>1, <2>1, SumOfMore
  <2>3. Fixed \in Nat
    BY BenchmarkAssumption
  <2>4. Cost(run) = Fixed + SumOver(f, Ends)
    BY DEF Cost, f
  <2> QED
    BY <2>2, <2>3, <2>4
<1>4. Ok \in SUBSET Ends
  BY DEF Ok
<1> QED
  BY <1>1, <1>2, <1>3, <1>4

\* The nearest rank is the latency of a successful request that enough others
\* do not exceed.
LEMMA RankIsReached ==
    ASSUME NEW run \in Run, Succeeded(run) > 0
    PROVE  \E e \in Ok : /\ NearestP95(run) = End[e].latency
                         /\ In(run, {g \in Ok : End[g].latency <= End[e].latency}) >= Rank(Succeeded(run))
<1> DEFINE n == Succeeded(run)
           upTo(f) == {g \in Ok : End[g].latency <= End[f].latency}
           enough == {f \in Ok : In(run, upTo(f)) >= Rank(n)}
           all == {End[e].latency : e \in Ok}
           values == {End[e].latency : e \in enough}
<1>1. Ok \in SUBSET Ends /\ IsFiniteSet(Ok)
  BY RunsCount, FS_Subset
<1>2. \A e \in Ends : End[e].latency \in Nat
  BY BenchmarkAssumption
<1>3. n \in Nat /\ n > 0 /\ n = In(run, Ok)
  BY <1>1, RunsCount DEF Succeeded
<1>4. Rank(n) <= n
  <2> HIDE DEF n
  <2> QED
    BY <1>3 DEF Rank
<1>5. NearestP95(run) = Min(values)
  BY DEF NearestP95
<1>6. Ok # {}
  <2>1. In(run, {}) = 0
    BY SumOfNone DEF In
  <2> QED
    BY <1>3, <2>1
<1>7. IsFiniteSet(all) /\ all \in SUBSET Int /\ all # {}
  <2>1. IsFiniteSet(all)
    <3> DEFINE f == [e \in Ok |-> End[e].latency]
    <3>1. all = {f[e] : e \in Ok}
      OBVIOUS
    <3> HIDE DEF f, all
    <3> QED
      BY <1>1, <3>1, ImageIsFinite
  <2> QED
    BY <1>1, <1>2, <1>6, <2>1
<1>8. PICK last \in Ok : \A g \in Ok : End[g].latency <= End[last].latency
  <2>1. Max(all) \in all /\ \A y \in all : y <= Max(all)
    <3> HIDE DEF all
    <3> QED
      BY <1>7, Extremes
  <2> QED
    BY <2>1
<1>9. last \in enough
  <2>1. upTo(last) = Ok
    BY <1>8
  <2> QED
    BY <1>3, <1>4, <2>1
<1>10. IsFiniteSet(values) /\ values \in SUBSET Int /\ values # {}
  <2>1. values \in SUBSET all
    OBVIOUS
  <2>2. values # {}
    BY <1>9
  <2> HIDE DEF all, values
  <2> QED
    BY <1>7, <2>1, <2>2, FS_Subset
<1>11. Min(values) \in values
  <2> HIDE DEF values
  <2> QED
    BY <1>10, Extremes
<1> QED
  BY <1>5, <1>11

\* Of the successful requests of an eligible candidate one in twenty is slow.
LEMMA EligibleIsFast ==
    ASSUME NEW run \in Run, Succeeded(run) > 0, NearestP95(run) <= Score.latency
    PROVE  20 * In(run, {e \in Ok : End[e].latency > Score.latency}) <= Succeeded(run)
<1> DEFINE n == Succeeded(run)
           within == {e \in Ok : End[e].latency <= Score.latency}
           slow == {e \in Ok : End[e].latency > Score.latency}
<1>1. PICK e \in Ok : /\ NearestP95(run) = End[e].latency
                      /\ In(run, {g \in Ok : End[g].latency <= End[e].latency}) >= Rank(n)
  BY RankIsReached
<1> DEFINE near == {g \in Ok : End[g].latency <= End[e].latency}
<1>2. Ok \in SUBSET Ends /\ n = In(run, Ok)
  BY RunsCount DEF Succeeded
<1>3. Score.latency \in Nat /\ \A g \in Ends : End[g].latency \in Nat
  BY BenchmarkAssumption
<1>4. near \in SUBSET within
  <2>1. \A g \in Ok : End[g].latency <= End[e].latency => End[g].latency <= Score.latency
    BY <1>1, <1>2, <1>3
  <2> QED
    BY <2>1
<1>5. within \in SUBSET Ok /\ Ok \ within = slow
  <2>1. \A g \in Ok : ~(End[g].latency <= Score.latency) <=> End[g].latency > Score.latency
    BY <1>2, <1>3
  <2> QED
    BY <2>1
<1>6. In(run, near) >= Rank(n)
  BY <1>1
<1> HIDE DEF within, slow, near
<1>7. /\ In(run, near) \in Nat /\ In(run, within) \in Nat /\ In(run, slow) \in Nat /\ In(run, Ok) \in Nat
      /\ In(run, near) <= In(run, within) /\ In(run, Ok) = In(run, within) + In(run, slow)
  <2>1. within \in SUBSET Ends /\ slow \in SUBSET Ends /\ near \in SUBSET Ends
    BY <1>2, <1>4, <1>5
  <2> QED
    BY <1>2, <1>4, <1>5, <2>1, RunsCount
<1>8. 100 * Rank(n) >= 95 * n /\ Rank(n) \in Int /\ n \in Nat
  <2>1. n \in Nat
    BY <1>2, <1>7
  <2> HIDE DEF n
  <2> QED
    BY <2>1 DEF Rank
<1>9. 20 * In(run, slow) <= n
  <2> HIDE DEF n
  <2> QED
    BY <1>2, <1>6, <1>7, <1>8
<1> QED
  BY <1>9 DEF slow, n

\* A request that failed counts as one, costs what it costs, and is neither a
\* success nor accepted.
LEMMA FailureCosts ==
    ASSUME NEW run \in Run, NEW more \in Run, NEW c \in Ends, c \notin Ok,
           more = [run EXCEPT ![c] = @ + 1]
    PROVE  /\ \A P \in SUBSET Ok : In(more, P) = In(run, P)
           /\ Requests(run) <= Requests(more)
           /\ AcceptedOf(more) = AcceptedOf(run) /\ Succeeded(more) = Succeeded(run)
           /\ NearestP95(more) = NearestP95(run)
           /\ Cost(run) <= Cost(more)
<1>1. /\ Ok \in SUBSET Ends /\ IsFiniteSet(Ends)
      /\ \A e \in Ends : run[e] \in Nat /\ more[e] \in Nat /\ run[e] <= more[e]
      /\ \A e \in Ok : more[e] = run[e]
  <2>1. Ok \in SUBSET Ends /\ IsFiniteSet(Ends)
    BY RunsCount
  <2>2. \A e \in Ends : run[e] \in Nat /\ more[e] \in Nat
    BY DEF Run
  <2>3. \A e \in Ends : more[e] = IF e = c THEN run[e] + 1 ELSE run[e]
    BY DEF Run
  <2> QED
    BY <2>1, <2>2, <2>3
<1>2. ASSUME NEW P \in SUBSET Ok PROVE In(more, P) = In(run, P)
  <2>1. IsFiniteSet(P) /\ \A e \in P : more[e] = run[e]
    BY <1>1, FS_Subset
  <2>2. SumOver(more, P) = SumOver(run, P)
    BY <2>1, SumOfSame
  <2> QED
    BY <2>2 DEF In
<1>3. Requests(run) <= Requests(more)
  <2>1. \A e \in Ends : run[e] \in Int /\ more[e] \in Int /\ run[e] <= more[e]
    BY <1>1
  <2>2. SumOver(run, Ends) <= SumOver(more, Ends)
    BY <1>1, <2>1, SumGrows
  <2> QED
    BY <2>2 DEF Requests, In
<1>4. AcceptedOf(more) = AcceptedOf(run) /\ Succeeded(more) = Succeeded(run)
  <2>1. {e \in Ends : End[e].accepted} \in SUBSET Ok
    BY BenchmarkAssumption DEF Ok
  <2>2. Ok \in SUBSET Ok
    OBVIOUS
  <2> QED
    BY <1>2, <2>1, <2>2 DEF AcceptedOf, Succeeded
<1>5. NearestP95(more) = NearestP95(run)
  <2> DEFINE enough(x) == {f \in Ok :
               In(x, {g \in Ok : End[g].latency <= End[f].latency}) >= Rank(Succeeded(x))}
             values(x) == {End[e].latency : e \in enough(x)}
  <2>1. \A f \in Ok : In(more, {g \in Ok : End[g].latency <= End[f].latency})
                        = In(run, {g \in Ok : End[g].latency <= End[f].latency})
    BY <1>2
  <2>2. enough(more) = enough(run)
    BY <1>4, <2>1
  <2>3. values(more) = values(run)
    BY <2>2
  <2>4. NearestP95(more) = Min(values(more)) /\ NearestP95(run) = Min(values(run))
    BY DEF NearestP95
  <2> QED
    BY <2>3, <2>4
<1>6. Cost(run) <= Cost(more)
  <2> DEFINE f == [e \in Ends |-> run[e] * End[e].cost]
             g == [e \in Ends |-> more[e] * End[e].cost]
  <2>1. \A e \in Ends : f[e] \in Int /\ g[e] \in Int /\ f[e] <= g[e]
    <3>1. ASSUME NEW e \in Ends PROVE f[e] \in Int /\ g[e] \in Int /\ f[e] <= g[e]
      <4> DEFINE x == run[e]
                 y == more[e]
                 z == End[e].cost
      <4>1. x \in Nat /\ y \in Nat /\ x <= y /\ z \in Nat
        BY <1>1, BenchmarkAssumption
      <4>2. f[e] = x * z /\ g[e] = y * z
        OBVIOUS
      <4> HIDE DEF x, y, z, f, g
      <4>3. y * z = x * z + (y - x) * z /\ (y - x) * z \in Nat /\ x * z \in Int
        BY <4>1
      <4> QED
        BY <4>2, <4>3
    <3> QED
      BY <3>1
  <2> HIDE DEF f, g
  <2>2. SumOver(f, Ends) <= SumOver(g, Ends) /\ SumOver(f, Ends) \in Int /\ SumOver(g, Ends) \in Int
    <3>1. \A e \in Ends : f[e] \in Int
      BY <2>1
    <3>2. \A e \in Ends : g[e] \in Int
      BY <2>1
    <3>3. Ends \in SUBSET Ends
      OBVIOUS
    <3> QED
      BY <1>1, <2>1, <3>1, <3>2, <3>3, SumGrows, SumType
  <2>3. Cost(run) = Fixed + SumOver(f, Ends) /\ Cost(more) = Fixed + SumOver(g, Ends)
    BY DEF Cost, f, g
  <2>4. Fixed \in Nat
    BY BenchmarkAssumption
  <2> QED
    BY <2>2, <2>3, <2>4
<1> QED
  BY <1>2, <1>3, <1>4, <1>5, <1>6

\* Two quotients no less than a third, by a product of what is divided by.
LEMMA CheaperStill ==
    ASSUME NEW c \in Nat, NEW d \in Nat, c <= d, NEW a \in Nat,
           NEW b \in Nat, NEW bb \in Nat, NEW p \in Nat, NEW pp \in Nat \ {0},
           d * pp <= bb * a, bb * p <= b * pp
    PROVE  c * p <= b * a
<1>1. c * p <= d * p
  <2>1. d * p = c * p + (d - c) * p /\ (d - c) * p \in Nat /\ c * p \in Nat
    OBVIOUS
  <2> QED
    BY <2>1
<1>2. (d * pp) * p <= (bb * a) * p
  <2>1. (bb * a) * p = (d * pp) * p + (bb * a - d * pp) * p
    OBVIOUS
  <2>2. bb * a - d * pp \in Nat
    OBVIOUS
  <2>3. (bb * a - d * pp) * p \in Nat /\ (d * pp) * p \in Nat
    BY <2>2
  <2> QED
    BY <2>1, <2>3
<1>3. (bb * p) * a <= (b * pp) * a
  <2>1. (b * pp) * a = (bb * p) * a + (b * pp - bb * p) * a
    OBVIOUS
  <2>2. b * pp - bb * p \in Nat
    OBVIOUS
  <2>3. (b * pp - bb * p) * a \in Nat /\ (bb * p) * a \in Nat
    BY <2>2
  <2> QED
    BY <2>1, <2>3
<1>4. /\ (d * pp) * p = pp * (d * p) /\ (bb * a) * p = (bb * p) * a /\ (b * pp) * a = pp * (b * a)
      /\ d * p \in Int /\ b * a \in Int /\ c * p \in Int /\ (bb * p) * a \in Int
      /\ pp * (d * p) \in Int /\ pp * (b * a) \in Int
  OBVIOUS
<1>5. pp * (d * p) <= pp * (b * a)
  BY <1>2, <1>3, <1>4
<1>6. d * p <= b * a
  BY <1>4, <1>5, CancelFactor
<1> QED
  BY <1>1, <1>4, <1>6

\* A candidate is eligible for cause: a slow one never is, and a scenario the
\* baseline serves, no dearer than its others, and the candidate fails turns no
\* hold into a candidate that may be reviewed.
THEOREM CandidatesAreEligibleForCause == BenchmarkSpec => EligibleForCause
<1>1. BenchmarkInit => BenchmarkTypeOK
  BY DEF BenchmarkInit, BenchmarkTypeOK, Run
<1>2. BenchmarkTypeOK /\ [BenchmarkNext]_runs => BenchmarkTypeOK'
  <2> SUFFICES ASSUME BenchmarkTypeOK, [BenchmarkNext]_runs PROVE BenchmarkTypeOK'
    OBVIOUS
  <2>1. ASSUME NEW b \in BaselineEnds, NEW c \in Ends, Answer(b, c) PROVE BenchmarkTypeOK'
    <3>1. b \in Ends
      BY BenchmarkAssumption
    <3>2. /\ runs'.baseline = [runs.baseline EXCEPT ![b] = @ + 1]
          /\ runs'.candidate = [runs.candidate EXCEPT ![c] = @ + 1]
          /\ runs' = [baseline |-> runs'.baseline, candidate |-> runs'.candidate]
      BY <2>1 DEF Answer, BenchmarkTypeOK
    <3>3. \A r \in Run : \A e \in Ends : [r EXCEPT ![e] = @ + 1] \in Run
      BY DEF Run
    <3>4. runs'.baseline \in Run /\ runs'.candidate \in Run
      BY <3>1, <3>2, <3>3 DEF BenchmarkTypeOK
    <3> QED
      BY <3>2, <3>4 DEF BenchmarkTypeOK
  <2>2. CASE UNCHANGED runs
    BY <2>2 DEF BenchmarkTypeOK
  <2> QED
    BY <2>1, <2>2 DEF BenchmarkNext
<1>3. BenchmarkTypeOK /\ BenchmarkTypeOK' /\ [BenchmarkNext]_runs
        => [LET b == runs.baseline
                failing == In(runs.candidate, Ok) = In(runs'.candidate, Ok)
                serves == AcceptedOf(b) > 0 /\ AcceptedOf(runs'.baseline) > AcceptedOf(b)
                            /\ Cost(runs'.baseline) * AcceptedOf(b) <= Cost(b) * AcceptedOf(runs'.baseline)
            IN  /\ SlowIsRare'
                /\ Requests(runs.candidate) >= Score.requests /\ failing /\ serves /\ IsEligible'
                     => IsEligible]_runs
  <2> SUFFICES ASSUME BenchmarkTypeOK, BenchmarkTypeOK', BenchmarkNext
               PROVE  /\ SlowIsRare'
                      /\ Requests(runs.candidate) >= Score.requests
                           /\ In(runs.candidate, Ok) = In(runs'.candidate, Ok)
                           /\ AcceptedOf(runs.baseline) > 0
                           /\ AcceptedOf(runs'.baseline) > AcceptedOf(runs.baseline)
                           /\ Cost(runs'.baseline) * AcceptedOf(runs.baseline)
                                <= Cost(runs.baseline) * AcceptedOf(runs'.baseline)
                           /\ IsEligible'
                           => IsEligible
    OBVIOUS
  <2> DEFINE b == runs.baseline
             bb == runs'.baseline
             c == runs.candidate
             cc == runs'.candidate
  <2>1. b \in Run /\ bb \in Run /\ c \in Run /\ cc \in Run
    BY DEF BenchmarkTypeOK
  <2>2. SlowIsRare'
    <3> SUFFICES ASSUME IsEligible'
                 PROVE  20 * In(cc, {e \in Ok : End[e].latency > Score.latency}) <= Succeeded(cc)
      BY DEF SlowIsRare
    <3>1. Succeeded(cc) > 0 /\ NearestP95(cc) <= Score.latency
      BY DEF IsEligible, Eligible
    <3> QED
      BY <2>1, <3>1, EligibleIsFast
  <2>3. ASSUME Requests(c) >= Score.requests, In(c, Ok) = In(cc, Ok), AcceptedOf(b) > 0,
               AcceptedOf(bb) > AcceptedOf(b), Cost(bb) * AcceptedOf(b) <= Cost(b) * AcceptedOf(bb),
               IsEligible'
        PROVE  IsEligible
    <3>1. PICK e \in Ends : cc = [c EXCEPT ![e] = @ + 1]
      BY <2>1 DEF BenchmarkNext, Answer, BenchmarkTypeOK
    <3>2. e \notin Ok
      <4> SUFFICES ASSUME e \in Ok PROVE FALSE
        OBVIOUS
      <4>1. {e} \in SUBSET Ok /\ Ok \in SUBSET Ends
        BY RunsCount, <2>1
      <4> DEFINE rest == Ok \ {e}
      <4>2. In(c, Ok) = c[e] + In(c, rest) /\ In(cc, Ok) = cc[e] + In(cc, rest)
        <5>1. IsFiniteSet(Ok) /\ Ok \in SUBSET Ok
          BY <4>1, <2>1, RunsCount, FS_Subset
        <5>2. (\A x \in Ok : c[x] \in Int) /\ (\A x \in Ok : cc[x] \in Int)
          BY <2>1, <4>1 DEF Run
        <5>3. SumOver(c, Ok) = c[e] + SumOver(c, Ok \ {e})
          BY <5>1, <5>2, SumFromAny
        <5>4. SumOver(cc, Ok) = cc[e] + SumOver(cc, Ok \ {e})
          BY <5>1, <5>2, SumFromAny
        <5> QED
          BY <5>3, <5>4 DEF In
      <4>3. In(c, rest) = In(cc, rest)
        <5>1. IsFiniteSet(rest)
          BY <4>1, <2>1, RunsCount, FS_Subset
        <5>2. \A x \in rest : c[x] = cc[x]
          BY <2>1, <3>1, <4>1 DEF Run
        <5>3. SumOver(c, rest) = SumOver(cc, rest)
          BY <5>1, <5>2, SumOfSame
        <5> QED
          BY <5>3 DEF In
      <4>4. cc[e] = c[e] + 1 /\ c[e] \in Nat
        BY <2>1, <3>1 DEF Run
      <4>5. In(c, rest) \in Nat
        BY <2>1, <4>1, RunsCount
      <4> HIDE DEF rest
      <4>6. In(c, Ok) = In(cc, Ok)
        BY <2>3
      <4>7. In(cc, Ok) = (c[e] + 1) + In(c, rest)
        BY <4>2, <4>3, <4>4
      <4> HIDE DEF c, cc
      <4> QED
        BY <4>2, <4>4, <4>5, <4>6, <4>7
    <3>3. /\ Requests(c) <= Requests(cc) /\ Cost(c) <= Cost(cc)
          /\ AcceptedOf(cc) = AcceptedOf(c) /\ Succeeded(cc) = Succeeded(c)
          /\ NearestP95(cc) = NearestP95(c)
      BY <2>1, <3>1, <3>2, FailureCosts
    <3>4. /\ 100 * Succeeded(cc) >= Score.success * Requests(cc)
          /\ 100 * AcceptedOf(cc) >= Score.acceptance * Requests(cc)
          /\ Succeeded(cc) > 0 /\ NearestP95(cc) <= Score.latency
          /\ AcceptedOf(cc) > 0 /\ Cost(cc) <= Score.cost * AcceptedOf(cc)
          /\ Cost(cc) * AcceptedOf(bb) <= Cost(bb) * AcceptedOf(cc)
          /\ AcceptedOf(cc) >= AcceptedOf(bb)
      BY <2>3 DEF IsEligible, Eligible, CostGates
    <3>5. /\ Requests(c) \in Nat /\ Requests(cc) \in Nat /\ Succeeded(c) \in Nat /\ AcceptedOf(c) \in Nat
          /\ AcceptedOf(b) \in Nat /\ AcceptedOf(bb) \in Nat
          /\ Cost(c) \in Nat /\ Cost(cc) \in Nat /\ Cost(b) \in Nat /\ Cost(bb) \in Nat
          /\ Succeeded(c) <= Requests(c)
      <4>1. Ends \in SUBSET Ends /\ {x \in Ends : End[x].accepted} \in SUBSET Ends /\ Ok \in SUBSET Ends
        BY DEF Ok
      <4>2. \A r \in Run : /\ Requests(r) \in Nat /\ Succeeded(r) \in Nat /\ AcceptedOf(r) \in Nat
                           /\ Cost(r) \in Nat /\ Succeeded(r) <= Requests(r)
        BY <4>1, RunsCount DEF Requests, Succeeded, AcceptedOf
      <4> QED
        BY <2>1, <4>2
    <3>6. Score.success \in Nat /\ Score.acceptance \in Nat /\ Score.cost \in Nat
      BY BenchmarkAssumption
    <3>7. ASSUME NEW k \in Nat PROVE k * Requests(c) <= k * Requests(cc) /\ k * Requests(c) \in Int /\ k * Requests(cc) \in Int
      <4> DEFINE x == Requests(c)
                 y == Requests(cc)
      <4>1. x \in Nat /\ y \in Nat /\ x <= y
        BY <3>3, <3>5
      <4> HIDE DEF x, y
      <4>2. k * y = k * x + k * (y - x) /\ k * (y - x) \in Nat /\ k * x \in Nat
        BY <4>1
      <4>3. k * x <= k * y /\ k * x \in Int /\ k * y \in Int
        BY <4>2
      <4> QED
        BY <4>3 DEF x, y
    <3>8. /\ 100 * Succeeded(c) >= Score.success * Requests(c)
          /\ 100 * AcceptedOf(c) >= Score.acceptance * Requests(c)
      <4>1. Score.success * Requests(c) <= Score.success * Requests(cc)
            /\ Score.success * Requests(c) \in Int /\ Score.success * Requests(cc) \in Int
        BY <3>6, <3>7
      <4>2. Score.acceptance * Requests(c) <= Score.acceptance * Requests(cc)
            /\ Score.acceptance * Requests(c) \in Int /\ Score.acceptance * Requests(cc) \in Int
        BY <3>6, <3>7
      <4> DEFINE s == Score.success * Requests(c)
                 ss == Score.success * Requests(cc)
                 a == Score.acceptance * Requests(c)
                 aa == Score.acceptance * Requests(cc)
      <4>3. /\ s <= ss /\ s \in Int /\ ss \in Int /\ a <= aa /\ a \in Int /\ aa \in Int
            /\ 100 * Succeeded(c) >= ss /\ 100 * AcceptedOf(c) >= aa
        BY <3>3, <3>4, <4>1, <4>2
      <4> HIDE DEF s, ss, a, aa
      <4>4. 100 * Succeeded(c) >= s /\ 100 * AcceptedOf(c) >= a
        BY <3>5, <4>3
      <4> QED
        BY <4>4 DEF s, a
    <3>9. Cost(c) <= Score.cost * AcceptedOf(c)
      <4> DEFINE x == Score.cost * AcceptedOf(c)
      <4>1. x \in Int
        BY <3>5, <3>6
      <4>2. Cost(cc) <= x
        BY <3>3, <3>4
      <4> HIDE DEF x
      <4>3. Cost(c) <= x
        BY <3>3, <3>5, <4>1, <4>2
      <4> QED
        BY <4>3 DEF x
    <3>10. Cost(c) * AcceptedOf(b) <= Cost(b) * AcceptedOf(c)
      <4>1. AcceptedOf(bb) \in Nat \ {0}
        BY <2>3, <3>5
      <4>2. Cost(cc) * AcceptedOf(bb) <= Cost(bb) * AcceptedOf(c)
        BY <3>3, <3>4
      <4> QED
        BY <2>3, <3>3, <3>5, <4>1, <4>2, CheaperStill
    <3>11. CostGates(b, c)
      BY <2>3, <3>3, <3>4, <3>9, <3>10 DEF CostGates
    <3>12. AcceptedOf(c) >= AcceptedOf(b)
      BY <2>3, <3>3, <3>4, <3>5
    <3>13. Requests(c) > 0
      BY <3>3, <3>4, <3>5
    <3>14. Succeeded(c) > 0 /\ NearestP95(c) <= Score.latency
      BY <3>3, <3>4
    <3>15. Eligible(b, c)
      BY <2>3, <3>8, <3>11, <3>12, <3>14 DEF Eligible
    <3> QED
      BY <3>13, <3>15 DEF IsEligible
  <2> QED
    BY <2>2, <2>3
<1> QED
  BY <1>1, <1>2, <1>3, PTL DEF BenchmarkSpec, EligibleForCause
=============================================================================
