--------------------------- MODULE WorkflowProofs ---------------------------
(***************************************************************************)
(* Workflow runs, for any definitions, owners, caps and numbers of runs,   *)
(* crashes and profile edits.                                              *)
(***************************************************************************)
EXTENDS Workflow, SequenceTheorems, FiniteSetTheorems, TLAPS

(* Chains of version transitions.                                          *)

\* The events e lead from version 0 to version v, within the cap, none overlapping.
Chain(e, v) ==
    /\ e \in Seq(Nat \X Nat) /\ e # <<>> /\ Len(e) <= MaxRunEvents
    /\ e[1][1] = 0 /\ e[Len(e)][2] = v
    /\ \A i \in 1..Len(e) : e[i][1] <= e[i][2]
    /\ \A i, j \in 1..Len(e) : i < j => e[i][2] <= e[j][1]

\* A chain never runs past its last version.
LEMMA ChainBound ==
    ASSUME NEW e, NEW v, Chain(e, v)
    PROVE  /\ v \in Nat /\ Len(e) \in Nat /\ Len(e) >= 1
           /\ \A i \in 1..Len(e) : /\ e[i] \in Nat \X Nat
                                   /\ e[i][1] \in Nat /\ e[i][2] \in Nat /\ e[i][2] <= v
<1>1. Len(e) \in Nat /\ Len(e) >= 1 /\ \A i \in 1..Len(e) : e[i] \in Nat \X Nat
  BY EmptySeq DEF Chain
<1>2. \A i \in 1..Len(e) : e[i][1] \in Nat /\ e[i][2] \in Nat
  BY <1>1
<1>3. \A i \in 1..Len(e) : e[i][2] <= v
  <2>1. ASSUME NEW i \in 1..Len(e), i # Len(e)
        PROVE  e[i][2] <= v
    <3>1. i \in 1..Len(e) /\ Len(e) \in 1..Len(e) /\ i < Len(e)
      BY <1>1, <2>1
    <3>2. e[i][2] <= e[Len(e)][1] /\ e[Len(e)][1] <= e[Len(e)][2] /\ e[Len(e)][2] = v
      BY <3>1 DEF Chain
    <3> QED
      BY <1>2, <3>1, <3>2
  <2>2. e[Len(e)][2] <= v
    BY <1>1, <1>2 DEF Chain
  <2> QED
    BY <2>1, <2>2
<1> QED
  BY <1>1, <1>2, <1>3 DEF Chain

\* What hasMonotonicVersionChain checks of neighbours follows (run-validate.ts).
LEMMA ChainAppend ==
    ASSUME NEW e, NEW v, Chain(e, v), Len(e) < MaxRunEvents
    PROVE  Chain(Append(e, <<v, v + 1>>), v + 1)
<1> DEFINE f == Append(e, <<v, v + 1>>)
<1>1. /\ v \in Nat /\ Len(e) \in Nat /\ Len(e) >= 1
      /\ \A i \in 1..Len(e) : /\ e[i] \in Nat \X Nat
                              /\ e[i][1] \in Nat /\ e[i][2] \in Nat /\ e[i][2] <= v
  BY ChainBound
<1>2. e \in Seq(Nat \X Nat)
  BY DEF Chain
<1>3. <<v, v + 1>> \in Nat \X Nat
  BY <1>1
<1>4. /\ f \in Seq(Nat \X Nat) /\ Len(f) = Len(e) + 1
      /\ \A i \in 1..Len(e) : f[i] = e[i]
      /\ f[Len(e) + 1] = <<v, v + 1>>
  BY <1>2, <1>3, AppendProperties
<1> HIDE DEF f
<1>11. f[Len(e) + 1][1] = v /\ f[Len(e) + 1][2] = v + 1
  BY <1>4
<1>5. MaxRunEvents \in Nat
  BY WorkflowAssumption
<1>6. f # <<>> /\ Len(f) <= MaxRunEvents
  BY <1>1, <1>4, <1>5, EmptySeq
<1>7. f[1][1] = 0 /\ f[Len(f)][2] = v + 1
  <2>1. 1 \in 1..Len(e) /\ e[1][1] = 0
    BY <1>1 DEF Chain
  <2>2. f[1] = e[1] /\ f[Len(f)] = f[Len(e) + 1]
    BY <1>4, <2>1
  <2> QED
    BY <1>11, <2>1, <2>2
<1>8. \A i \in 1..Len(f) : f[i][1] <= f[i][2]
  <2>1. ASSUME NEW i \in 1..Len(e)
        PROVE  f[i][1] <= f[i][2]
    BY <1>4 DEF Chain
  <2>2. ASSUME NEW i \in 1..Len(f)
        PROVE  i \in 1..Len(e) \/ i = Len(e) + 1
    BY <1>1, <1>4
  <2> QED
    BY <1>1, <1>11, <2>1, <2>2
<1>12. \A m \in Nat : \A i, j \in 1..(m + 1) : i < j /\ j # m + 1 => i \in 1..m /\ j \in 1..m
  OBVIOUS
<1>9. \A i, j \in 1..Len(f) : i < j => f[i][2] <= f[j][1]
  <2> SUFFICES ASSUME NEW i \in 1..Len(f), NEW j \in 1..Len(f), i < j
               PROVE  f[i][2] <= f[j][1]
    OBVIOUS
  <2>1. CASE j = Len(e) + 1
    <3>1. i \in 1..Len(e)
      BY <1>1, <1>4, <2>1
    <3>2. f[i][2] <= v
      <4>1. f[i] = e[i] /\ e[i][2] <= v
        BY <1>1, <1>4, <3>1
      <4> QED
        BY <4>1
    <3>3. f[j][1] = v
      BY <1>11, <2>1
    <3> QED
      BY <3>2, <3>3
  <2>2. CASE j # Len(e) + 1
    <3>1. i \in 1..Len(e) /\ j \in 1..Len(e)
      <4>1. i \in 1..(Len(e) + 1) /\ j \in 1..(Len(e) + 1)
        BY <1>4
      <4> QED
        BY <1>1, <1>12, <2>2, <4>1
    <3> QED
      BY <1>4, <3>1 DEF Chain
  <2> QED
    BY <2>1, <2>2
<1>10. Chain(f, v + 1)
  BY <1>4, <1>6, <1>7, <1>8, <1>9 DEF Chain
<1> QED
  BY <1>10 DEF f

\* The events of compactEvents.
Squeezed(e) ==
    LET t == SubSeq(e, Len(e) - (MaxRunEvents - 3) + 1, Len(e))
    IN  <<e[1], <<e[1][2], t[1][1]>>>> \o t

\* Where the events of a compacted chain come from.
LEMMA SqueezedEvents ==
    ASSUME NEW e \in Seq(Nat \X Nat), NEW n \in Nat, n >= 4, n = MaxRunEvents, Len(e) = n
    PROVE  /\ Squeezed(e) \in Seq(Nat \X Nat) /\ Len(Squeezed(e)) = n - 1
           /\ Squeezed(e)[1] = e[1] /\ Squeezed(e)[2] = <<e[1][2], e[4][1]>>
           /\ \A i \in 3..(n - 1) : Squeezed(e)[i] = e[i + 1]
<1> DEFINE t == SubSeq(e, 4, n)
           g == <<e[1], <<e[1][2], t[1][1]>>>>
<1>1. Squeezed(e) = g \o t
  <2>1. n - (n - 3) + 1 = 4
    OBVIOUS
  <2> QED
    BY <2>1 DEF Squeezed
<1>2. \A i \in 1..n : e[i] \in Nat \X Nat
  OBVIOUS
<1>3. /\ t \in Seq(Nat \X Nat) /\ Len(t) = n - 3
      /\ \A i \in 1..(n - 3) : t[i] = e[i + 3]
  <2>1. \A i \in 4..n : e[i] \in Nat \X Nat
    BY <1>2
  <2>2. 4 \in Int /\ n \in Int
    OBVIOUS
  <2>3. /\ SubSeq(e, 4, n) \in Seq(Nat \X Nat)
        /\ Len(SubSeq(e, 4, n)) = IF 4 <= n THEN n - 4 + 1 ELSE 0
        /\ \A i \in 1..(n - 4 + 1) : SubSeq(e, 4, n)[i] = e[4 + i - 1]
    BY <2>1, <2>2, SubSeqProperties
  <2> QED
    BY <2>3
<1>4. t[1] = e[4] /\ e[1] \in Nat \X Nat /\ e[4] \in Nat \X Nat
  BY <1>2, <1>3
<1> HIDE DEF t
<1>5. /\ g \in Seq(Nat \X Nat) /\ Len(g) = 2 /\ g[1] = e[1]
      /\ g[2] = <<e[1][2], e[4][1]>>
  BY <1>4
<1> HIDE DEF g
<1>6. /\ g \o t \in Seq(Nat \X Nat) /\ Len(g \o t) = Len(g) + Len(t)
      /\ \A i \in 1..(Len(g) + Len(t)) : (g \o t)[i] = IF i <= Len(g) THEN g[i] ELSE t[i - Len(g)]
  BY <1>3, <1>5, ConcatProperties
<1>7. /\ g \o t \in Seq(Nat \X Nat) /\ Len(g \o t) = n - 1
      /\ \A i \in 1..(n - 1) : (g \o t)[i] = IF i <= 2 THEN g[i] ELSE t[i - 2]
  <2> DEFINE h == g \o t
  <2>1. Len(g) = 2 /\ Len(t) = n - 3 /\ Len(h) = n - 1 /\ h \in Seq(Nat \X Nat)
    BY <1>3, <1>5, <1>6
  <2>2. \A i \in 1..(2 + (n - 3)) : h[i] = IF i <= 2 THEN g[i] ELSE t[i - 2]
    BY <1>6, <2>1
  <2> HIDE DEF h
  <2>3. 2 + (n - 3) = n - 1
    OBVIOUS
  <2>4. /\ h \in Seq(Nat \X Nat) /\ Len(h) = n - 1
        /\ \A i \in 1..(n - 1) : h[i] = IF i <= 2 THEN g[i] ELSE t[i - 2]
    BY <2>1, <2>2, <2>3
  <2> QED
    BY <2>4 DEF h
<1>8. ASSUME NEW i \in 3..(n - 1)
      PROVE  (g \o t)[i] = e[i + 1]
  <2>1. i - 2 \in 1..(n - 3) /\ (i - 2) + 3 = i + 1 /\ i \in 1..(n - 1) /\ ~(i <= 2)
    OBVIOUS
  <2> QED
    BY <1>3, <1>7, <2>1
<1>9. 1 \in 1..(n - 1) /\ 2 \in 1..(n - 1)
  OBVIOUS
<1>10. (g \o t)[1] = g[1] /\ (g \o t)[2] = g[2]
  <2>1. \A i \in 1..(n - 1) : i <= 2 => (g \o t)[i] = g[i]
    BY <1>7
  <2>2. 1 <= 2 /\ 2 <= 2
    OBVIOUS
  <2> HIDE DEF t
  <2> QED
    BY <1>9, <2>1, <2>2
<1> QED
  BY <1>1, <1>5, <1>7, <1>8, <1>10

\* A chain at its cap is still one when compacted: the marker spans what was dropped
\* (events.ts compactEvents).
LEMMA ChainCompact ==
    ASSUME NEW e, NEW v, Chain(e, v), Len(e) = MaxRunEvents
    PROVE  Chain(Squeezed(e), v) /\ Len(Squeezed(e)) < MaxRunEvents
<1>1. PICK n \in Nat : n >= 4 /\ n = MaxRunEvents /\ Len(e) = n
  BY WorkflowAssumption
<1>2. /\ v \in Nat
      /\ \A i \in 1..n : /\ e[i] \in Nat \X Nat
                         /\ e[i][1] \in Nat /\ e[i][2] \in Nat /\ e[i][2] <= v
  BY <1>1, ChainBound
<1>3. /\ e \in Seq(Nat \X Nat) /\ e[1][1] = 0 /\ e[n][2] = v
      /\ \A i \in 1..n : e[i][1] <= e[i][2]
      /\ \A i, j \in 1..n : i < j => e[i][2] <= e[j][1]
  BY <1>1 DEF Chain
<1> DEFINE f == Squeezed(e)
<1>4. /\ f \in Seq(Nat \X Nat) /\ Len(f) = n - 1
      /\ f[1] = e[1] /\ f[2] = <<e[1][2], e[4][1]>>
      /\ \A i \in 3..(n - 1) : f[i] = e[i + 1]
  BY <1>1, <1>3, SqueezedEvents
<1> HIDE DEF f
<1>5. /\ f # <<>> /\ Len(f) <= MaxRunEvents /\ Len(f) < MaxRunEvents
      /\ f[2][1] = e[1][2] /\ f[2][2] = e[4][1]
  BY <1>1, <1>4
<1>6. f[1][1] = 0 /\ f[Len(f)][2] = v
  <2>1. n - 1 \in 3..(n - 1) /\ (n - 1) + 1 = n
    BY <1>1
  <2> QED
    BY <1>3, <1>4, <2>1
<1>7. 1 \in 1..n /\ 4 \in 1..n /\ e[1][2] <= e[4][1]
  <2>1. 1 \in 1..n /\ 4 \in 1..n
    BY <1>1
  <2> QED
    BY <1>3, <2>1
<1>8. \A i \in 1..(n - 1) : f[i][1] <= f[i][2]
  <2>1. ASSUME NEW i \in 3..(n - 1)
        PROVE  f[i][1] <= f[i][2]
    <3>1. i + 1 \in 1..n
      OBVIOUS
    <3> QED
      BY <1>3, <1>4, <3>1
  <2>2. f[1][1] <= f[1][2]
    BY <1>3, <1>4, <1>7
  <2>3. f[2][1] <= f[2][2]
    BY <1>4, <1>7
  <2>4. ASSUME NEW i \in 1..(n - 1)
        PROVE  i = 1 \/ i = 2 \/ i \in 3..(n - 1)
    OBVIOUS
  <2> QED
    BY <2>1, <2>2, <2>3, <2>4
<1>9. \A i, j \in 1..(n - 1) : i < j => f[i][2] <= f[j][1]
  <2> SUFFICES ASSUME NEW i \in 1..(n - 1), NEW j \in 1..(n - 1), i < j
               PROVE  f[i][2] <= f[j][1]
    OBVIOUS
  <2>1. CASE j = 2
    <3>1. i = 1
      BY <2>1
    <3>2. f[i] = e[1] /\ f[j][1] = e[1][2] /\ e[1][2] \in Nat
      BY <1>2, <1>4, <1>5, <1>7, <2>1, <3>1
    <3> QED
      BY <3>2
  <2>2. CASE j # 2
    <3>1. j \in 3..(n - 1) /\ j + 1 \in 1..n /\ j + 1 \in 4..n
      BY <2>2
    <3>2. f[j] = e[j + 1] /\ e[j + 1][1] \in Nat
      BY <1>2, <1>4, <3>1
    <3>3. CASE i = 1
      <4>1. f[i] = e[1]
        BY <1>4, <3>3
      <4>2. e[1][2] <= e[j + 1][1]
        <5>1. 1 \in 1..n /\ j + 1 \in 1..n /\ 1 < j + 1
          BY <1>7, <3>1
        <5> QED
          BY <1>3, <5>1
      <4> QED
        BY <3>2, <4>1, <4>2
    <3>4. CASE i = 2
      <4>1. e[4][1] <= e[j + 1][1]
        <5>1. CASE j = 3
          BY <1>2, <1>7, <5>1
        <5>2. CASE j # 3
          <6>1. e[4][1] <= e[4][2] /\ e[4][2] <= e[j + 1][1]
            BY <1>3, <1>7, <3>1, <5>2
          <6> QED
            BY <1>2, <1>7, <3>1, <6>1
        <5> QED
          BY <5>1, <5>2
      <4> QED
        BY <1>5, <3>2, <3>4, <4>1
    <3>5. CASE i \in 3..(n - 1)
      <4>1. i + 1 \in 1..n /\ i + 1 < j + 1
        BY <3>5
      <4> QED
        BY <1>3, <1>4, <3>1, <3>2, <3>5, <4>1
    <3>6. i = 1 \/ i = 2 \/ i \in 3..(n - 1)
      OBVIOUS
    <3> QED
      BY <3>3, <3>4, <3>5, <3>6
  <2> QED
    BY <2>1, <2>2
<1>10. Chain(f, v)
  BY <1>4, <1>5, <1>6, <1>8, <1>9 DEF Chain
<1> QED
  BY <1>5, <1>10 DEF f

\* The two events of a tombstone.
LEMMA ChainTombstone ==
    ASSUME NEW e, NEW v, Chain(e, v)
    PROVE  Chain(<<e[1], <<v, v + 1>>>>, v + 1)
<1>1. /\ v \in Nat /\ Len(e) \in Nat /\ Len(e) >= 1 /\ 1 \in 1..Len(e)
      /\ e[1] \in Nat \X Nat /\ e[1][1] \in Nat /\ e[1][2] \in Nat /\ e[1][2] <= v
  BY ChainBound
<1>2. MaxRunEvents \in Nat /\ MaxRunEvents >= 4
  BY WorkflowAssumption
<1>3. e[1][1] = 0 /\ e[1][1] <= e[1][2]
  BY <1>1 DEF Chain
<1>4. <<v, v + 1>> \in Nat \X Nat
  BY <1>1
<1>5. <<e[1], <<v, v + 1>>>> \in Seq(Nat \X Nat)
  BY <1>1, <1>4
<1> QED
  BY <1>1, <1>2, <1>3, <1>4, <1>5 DEF Chain

\* A chain is what hasMonotonicVersionChain accepts.
LEMMA ChainAccepted ==
    ASSUME NEW x \in WorkflowRun, Chain(x.events, x.version)
    PROVE  hasMonotonicVersionChain(x) /\ Len(x.events) <= MaxRunEvents
<1>1. /\ Len(x.events) \in Nat /\ Len(x.events) >= 1
      /\ \A i \in 1..Len(x.events) : x.events[i][1] \in Nat /\ x.events[i][2] \in Nat
  BY ChainBound
<1>2. DOMAIN x.events = 1..Len(x.events)
  BY DEF Chain
<1>3. \A i \in 1..Len(x.events) : i > 1 => x.events[i - 1][2] <= x.events[i][1]
  <2>1. ASSUME NEW i \in 1..Len(x.events), i > 1
        PROVE  x.events[i - 1][2] <= x.events[i][1]
    <3>1. i - 1 \in 1..Len(x.events) /\ i - 1 < i
      BY <1>1, <2>1
    <3> QED
      BY <3>1 DEF Chain
  <2> QED
    BY <2>1
<1> QED
  BY <1>1, <1>2, <1>3 DEF Chain, hasMonotonicVersionChain

-----------------------------------------------------------------------------
(* What the functions on records keep.                                     *)

Chained(x) == Chain(x.events, x.version)

\* x with other events, leading to version v.
LEMMA Reversioned ==
    ASSUME NEW x \in WorkflowRun, NEW e \in Seq(Nat \X Nat), NEW v \in Nat
    PROVE  [x EXCEPT !.version = v, !.events = e] \in WorkflowRun
BY DEF WorkflowRun

\* An ordinary event takes the run one version further (events.ts appendRunEvent).
LEMMA Stamped ==
    ASSUME NEW x \in WorkflowRun, Chained(x), CanAppend(x)
    PROVE  /\ appendStamped(x) \in WorkflowRun /\ Chained(appendStamped(x))
           /\ appendStamped(x) = [x EXCEPT !.version = x.version + 1,
                                           !.events = appendStamped(x).events]
<1> DEFINE e == Append(x.events, <<x.version, x.version + 1>>)
<1>1. Chain(e, x.version + 1)
  BY ChainAppend DEF Chained, CanAppend
<1>2. e \in Seq(Nat \X Nat) /\ x.version + 1 \in Nat
  BY <1>1, ChainBound DEF Chain
<1>3. appendStamped(x) = [x EXCEPT !.version = x.version + 1, !.events = e]
  BY DEF appendStamped, WorkflowRun
<1> HIDE DEF e
<1>4. appendStamped(x) \in WorkflowRun
  <2>1. [x EXCEPT !.version = x.version + 1, !.events = e] \in WorkflowRun
    BY <1>2, Reversioned
  <2> QED
    BY <1>3, <2>1
<1>5. appendStamped(x).events = e /\ appendStamped(x).version = x.version + 1
  BY <1>3 DEF WorkflowRun
<1> QED
  BY <1>1, <1>3, <1>4, <1>5 DEF Chained

\* The last event of a run finds room, by compaction if it must (events.ts
\* appendTerminalEvent).
LEMMA TerminalStamped ==
    ASSUME NEW x \in WorkflowRun, Chained(x)
    PROVE  /\ appendTerminalEvent(x) \in WorkflowRun /\ Chained(appendTerminalEvent(x))
           /\ appendTerminalEvent(x) = [x EXCEPT !.version = x.version + 1,
                                                 !.events = appendTerminalEvent(x).events]
<1>1. CASE CanAppend(x)
  <2>1. appendTerminalEvent(x) = appendStamped(x)
    BY <1>1 DEF appendTerminalEvent
  <2> QED
    BY <1>1, <2>1, Stamped
<1>2. CASE ~CanAppend(x)
  <2> DEFINE y == compactEvents(x)
  <2>1. appendTerminalEvent(x) = appendStamped(y)
    BY <1>2 DEF appendTerminalEvent
  <2>2. y = [x EXCEPT !.events = Squeezed(x.events)]
    BY DEF compactEvents, Squeezed
  <2>3. Len(x.events) = MaxRunEvents
    BY <1>2, WorkflowAssumption, ChainBound DEF Chained, Chain, CanAppend
  <2>4. Chain(Squeezed(x.events), x.version) /\ Len(Squeezed(x.events)) < MaxRunEvents
    BY <2>3, ChainCompact DEF Chained
  <2>5. Squeezed(x.events) \in Seq(Nat \X Nat)
    BY <2>4 DEF Chain
  <2>6. y.events = Squeezed(x.events) /\ y.version = x.version /\ y \in WorkflowRun
    BY <2>2, <2>5 DEF WorkflowRun
  <2>7. Chained(y) /\ CanAppend(y)
    BY <2>4, <2>6 DEF Chained, CanAppend
  <2> HIDE DEF y
  <2>8. /\ appendStamped(y) \in WorkflowRun /\ Chained(appendStamped(y))
        /\ appendStamped(y) = [y EXCEPT !.version = y.version + 1,
                                        !.events = appendStamped(y).events]
    BY <2>6, <2>7, Stamped
  <2>9. y = [x EXCEPT !.events = Squeezed(x.events)]
    BY <2>2 DEF y
  <2>10. appendStamped(y) = [x EXCEPT !.version = x.version + 1,
                                      !.events = appendStamped(y).events]
    BY <2>6, <2>8, <2>9 DEF WorkflowRun
  <2> QED
    BY <2>1, <2>8, <2>10
<1> QED
  BY <1>1, <1>2

\* fitTerminalRun writes a record that is within both caps and still chains; it keeps
\* the status and drops, but never adds, what the record vouches for (store.ts).
LEMMA TerminalFits ==
    ASSUME NEW x \in WorkflowRun, Chained(x)
    PROVE  /\ fitTerminalRun(x) \in WorkflowRun /\ Chained(fitTerminalRun(x))
           /\ Fits(fitTerminalRun(x)) /\ fitTerminalRun(x).version >= x.version
           /\ fitTerminalRun(x).status = x.status /\ fitTerminalRun(x).digest = x.digest
           /\ fitTerminalRun(x).stage \in {x.stage, Nil}
           /\ fitTerminalRun(x).gates \subseteq x.gates
           /\ fitTerminalRun(x).outputs \subseteq x.outputs
<1>1. CASE Fits(x)
  BY <1>1 DEF fitTerminalRun, WorkflowRun
<1>2. CASE ~Fits(x) /\ Fits(minimizeTerminalRun(x))
  <2> DEFINE y == [x EXCEPT !.inputs = 0, !.outputs = {}]
  <2>1. fitTerminalRun(x) = appendTerminalEvent(y)
    BY <1>2 DEF fitTerminalRun, minimizeTerminalRun
  <2>2. Fits(appendTerminalEvent(y))
    BY <1>2 DEF minimizeTerminalRun
  <2>3. y \in WorkflowRun /\ y.events = x.events /\ y.version = x.version
    BY DEF WorkflowRun
  <2>4. Chained(y)
    BY <2>3 DEF Chained
  <2>5. /\ y.status = x.status /\ y.digest = x.digest /\ y.stage = x.stage
        /\ y.gates = x.gates /\ y.outputs = {} /\ x.version \in Nat
    BY DEF WorkflowRun
  <2> HIDE DEF y
  <2>6. /\ appendTerminalEvent(y) \in WorkflowRun /\ Chained(appendTerminalEvent(y))
        /\ appendTerminalEvent(y) = [y EXCEPT !.version = y.version + 1,
                                              !.events = appendTerminalEvent(y).events]
    BY <2>3, <2>4, TerminalStamped
  <2>7. /\ appendTerminalEvent(y).version = y.version + 1
        /\ appendTerminalEvent(y).status = y.status /\ appendTerminalEvent(y).digest = y.digest
        /\ appendTerminalEvent(y).stage = y.stage /\ appendTerminalEvent(y).gates = y.gates
        /\ appendTerminalEvent(y).outputs = y.outputs
    BY <2>3, <2>6 DEF WorkflowRun
  <2> QED
    BY <2>1, <2>2, <2>3, <2>5, <2>6, <2>7
<1>3. CASE ~Fits(x) /\ ~Fits(minimizeTerminalRun(x))
  <2> DEFINE e == <<x.events[1], <<x.version, x.version + 1>>>>
             y == terminalTombstone(x)
  <2>1. fitTerminalRun(x) = y
    BY <1>3 DEF fitTerminalRun
  <2>2. Chain(e, x.version + 1)
    BY ChainTombstone DEF Chained
  <2>3. e \in Seq(Nat \X Nat) /\ x.version \in Nat
    BY <2>2, ChainBound DEF Chain, WorkflowRun
  <2>4. Len(e) = 2
    OBVIOUS
  <2> HIDE DEF e
  <2>5. y = [x EXCEPT !.stage = Nil, !.log = {}, !.known = {}, !.gates = {},
                      !.inputs = 0, !.outputs = {}, !.owner = Nil, !.pending = Nil,
                      !.version = x.version + 1, !.events = e]
    BY DEF terminalTombstone, e, WorkflowRun
  <2>6. /\ y.version = x.version + 1 /\ y.events = e /\ y.inputs = 0 /\ y.outputs = {}
        /\ y.log = {} /\ y.stage = Nil /\ y.gates = {} /\ y.status = x.status
        /\ y.digest = x.digest
    BY <2>5 DEF WorkflowRun
  <2>7. y \in WorkflowRun
    <3>1. [x EXCEPT !.stage = Nil, !.log = {}, !.known = {}, !.gates = {}, !.inputs = 0,
                    !.outputs = {}, !.owner = Nil, !.pending = Nil] \in WorkflowRun
      BY DEF WorkflowRun
    <3> DEFINE z == [x EXCEPT !.stage = Nil, !.log = {}, !.known = {}, !.gates = {}, !.inputs = 0,
                              !.outputs = {}, !.owner = Nil, !.pending = Nil]
    <3>2. y = [z EXCEPT !.version = x.version + 1, !.events = e]
      BY <2>5 DEF WorkflowRun
    <3> HIDE DEF z
    <3>3. z \in WorkflowRun /\ x.version + 1 \in Nat
      BY <2>3, <3>1 DEF z
    <3>4. [z EXCEPT !.version = x.version + 1, !.events = e] \in WorkflowRun
      BY <2>3, <3>3, Reversioned
    <3> QED
      BY <3>2, <3>4
  <2> HIDE DEF y
  <2>8. Cardinality({}) = 0
    BY FS_EmptySet
  <2>9. Fits(y)
    <3>1. Bytes(y) = Len(e) + 0 + Cardinality({}) + Cardinality({})
      BY <2>6 DEF Bytes
    <3>2. Bytes(y) = 2
      BY <2>4, <2>8, <3>1
    <3> QED
      BY <3>2, WorkflowAssumption DEF Fits
  <2>10. Chained(y)
    BY <2>2, <2>6 DEF Chained
  <2> QED
    BY <2>1, <2>3, <2>6, <2>7, <2>9, <2>10
<1> QED
  BY <1>1, <1>2, <1>3

\* Marking a stage changes the log alone.
LEMMA Marked ==
    ASSUME NEW x \in WorkflowRun, NEW s, NEW st \in StageStatus
    PROVE  /\ setStageStatus(x, s, st) \in WorkflowRun
           /\ setStageStatus(x, s, st) = [x EXCEPT !.log = setStageStatus(x, s, st).log]
<1> DEFINE l == {<<e[1], IF e[1] = s THEN st ELSE e[2]>> : e \in x.log}
<1>1. l \subseteq StageIds \X StageStatus
  BY DEF WorkflowRun
<1>2. setStageStatus(x, s, st) = [x EXCEPT !.log = l]
  BY DEF setStageStatus
<1> HIDE DEF l
<1> QED
  BY <1>1, <1>2 DEF WorkflowRun

-----------------------------------------------------------------------------
(* The inductive invariant.                                                *)

\* Every record is within both caps and its events chain.
ChainsHold == \A r \in Recorded : Fits(run[r]) /\ Chained(run[r])

\* What the record x knows of the outputs that landed, count[s] times at stage s; a
\* failed stage is given up, and begins anew when its run is resumed.
Accounted(x, count) ==
    x.stage # Nil =>
        \A s \in StageIds : count[s] > 0 =>
            s \in x.outputs \cup {x.pending} \/ (s = x.stage /\ x.status = "failed")

AllAccounted == \A r \in Recorded \ lost : Accounted(run[r], landed[r])

\* An output in a record has landed.
OutputsLanded == \A r \in Recorded : \A s \in run[r].outputs : landed[r][s] > 0

\* Nothing has landed for a run that does not exist.
Fresh == \A r \in RunIds \ Recorded : \A s \in StageIds : landed[r][s] = 0

\* The record on disk is the one the session read, with its intent; what it read has
\* room for the output, which has not landed before; the grant is there.
InSession ==
    session # Idle =>
       LET r == session.id
           b == session.before
           s == session.stage
       IN  /\ r \in Recorded /\ run[r] = [b EXCEPT !.pending = s.id, !.sig = run[r].sig]
           /\ Fits(b) /\ Chained(b) /\ ~isTerminalStatus(b.status)
           /\ s.id = b.stage /\ s.id \notin b.outputs \cup {b.pending}
           /\ isTrustGate(s.gate) => session.granted
           /\ CanAppend(b) /\ Fits(projectAppliedRun(b, s.id, s.gate))
           /\ session.step = "apply" /\ r \notin lost =>
                 landed[r][s.id] = 0 /\ Accounted(b, landed[r])
           /\ session.step = "record" => landed[r][s.id] > 0

WInv == /\ WorkflowTypeOK /\ ChainsHold /\ GatesEarned /\ AllAccounted /\ OutputsLanded
        /\ Fresh /\ InSession /\ AppliedOnce

RunStep == VersionsNeverRewind /\ GenuineCompletion /\ AdaptedIsCurrent

\* The record x is a successor of the one of r: no older, leaving no stage that is not
\* done, and if it is another definition's, current under the profile in force.
Succeeds(r, x) ==
    run[r] # Nil =>
       /\ x.version >= run[r].version
       /\ x.version = run[r].version => x.events = run[r].events
       /\ \/ x.stage = run[r].stage \/ run[r].stage = Nil
          \/ x.status \notin {"running", "completed"} \/ x.digest # run[r].digest
          \/ /\ Current(r).gate # Nil => Current(r).gate \in vouched[r]
             /\ Current(r).writes => landed[r][run[r].stage] > 0
       /\ \/ x.digest = run[r].digest
          \/ isTerminalStatus(x.status)
          \/ x.digest = profile /\ stagesPreserved(x, profile)

\* Signing a record changes nothing else.
LEMMA Signed ==
    ASSUME NEW x \in WorkflowRun, NEW k \in Nat
    PROVE  /\ [x EXCEPT !.sig = k] \in WorkflowRun
           /\ Chained(x) => Chained([x EXCEPT !.sig = k])
           /\ Fits(x) => Fits([x EXCEPT !.sig = k])
<1> DEFINE y == [x EXCEPT !.sig = k]
<1>1. y \in WorkflowRun
  BY DEF WorkflowRun
<1>2. /\ y.events = x.events /\ y.version = x.version /\ y.inputs = x.inputs
      /\ y.outputs = x.outputs /\ y.log = x.log
  BY DEF WorkflowRun
<1> HIDE DEF y
<1>3. /\ Chained(x) => Chained(y)
      /\ Fits(x) => Fits(y)
  BY <1>2 DEF Chained, Fits, Bytes
<1> QED
  BY <1>1, <1>3 DEF y

\* The key a record is signed with.
LEMMA KeyMade ==
    ASSUME WorkflowTypeOK
    PROVE  /\ loadOrCreateRunKey \in [disk : Nat, minted : Nat]
           /\ loadOrCreateRunKey.disk <= loadOrCreateRunKey.minted
<1>1. key \in [disk : Nat, minted : Nat] /\ key.disk <= key.minted
  BY DEF WorkflowTypeOK
<1> QED
  BY <1>1 DEF loadOrCreateRunKey

\* What is on disk after a write.
LEMMA Written ==
    ASSUME WorkflowTypeOK, NEW r \in RunIds, NEW x \in WorkflowRun, writeRun(r, x)
    PROVE  /\ run' \in [RunIds -> WorkflowRun \cup {Nil}]
           /\ key' \in [disk : Nat, minted : Nat] /\ key'.disk <= key'.minted
           /\ \A q \in RunIds \ {r} : run'[q] = run[q]
           /\ run'[r] = [x EXCEPT !.sig = run'[r].sig] /\ run'[r].sig \in Nat
           /\ run'[r] \in WorkflowRun /\ run'[r] # Nil
           /\ Fits(x)
<1> DEFINE k == loadOrCreateRunKey.disk
<1>1. /\ run \in [RunIds -> WorkflowRun \cup {Nil}]
      /\ run' = [run EXCEPT ![r] = [x EXCEPT !.sig = k]] /\ Fits(x)
      /\ key' = loadOrCreateRunKey
  BY DEF WorkflowTypeOK, writeRun
<1>2. k \in Nat
  BY KeyMade
<1> HIDE DEF k
<1>3. [x EXCEPT !.sig = k] \in WorkflowRun
  BY <1>2, Signed
<1>4. [x EXCEPT !.sig = k].sig = k
  BY DEF WorkflowRun
<1>5. run'[r] = [x EXCEPT !.sig = k]
  BY <1>1
<1>6. run'[r] = [x EXCEPT !.sig = run'[r].sig] /\ run'[r].sig \in Nat
  BY <1>2, <1>4, <1>5
<1>7. run'[r] \in WorkflowRun /\ run'[r] # Nil
  BY <1>3, <1>5, RecordAssumption
<1>8. run' \in [RunIds -> WorkflowRun \cup {Nil}] /\ \A q \in RunIds \ {r} : run'[q] = run[q]
  BY <1>1, <1>3
<1> QED
  BY <1>1, <1>6, <1>7, <1>8, KeyMade

\* A write keeps the invariant if what it writes is vouched for and accounted for, and
\* what the session holds still describes it.
LEMMA RewriteUnder ==
    ASSUME WInv, NEW r \in RunIds, NEW x \in WorkflowRun, Chained(x), writeRun(r, x),
           profile' \in DefDigests \cup {NoDef}, troubles' \in 0..MaxTroubles,
           session' \in Submission \cup {Idle}, InSession',
           landed' \in [RunIds -> [StageIds -> Nat]],
           vouched' \in [RunIds -> SUBSET Gates],
           lost \subseteq lost', lost' \subseteq lost \cup {r},
           \A q \in RunIds \ {r} : landed'[q] = landed[q] /\ vouched'[q] = vouched[q],
           x.gates \subseteq vouched'[r],
           \A s \in x.outputs : landed'[r][s] > 0,
           r \notin lost' => Accounted(x, landed'[r]) /\ \A s \in StageIds : landed'[r][s] <= 1
    PROVE  WInv'
<1>1. /\ run' \in [RunIds -> WorkflowRun \cup {Nil}]
      /\ key' \in [disk : Nat, minted : Nat] /\ key'.disk <= key'.minted
      /\ \A q \in RunIds \ {r} : run'[q] = run[q]
      /\ run'[r] = [x EXCEPT !.sig = run'[r].sig] /\ run'[r].sig \in Nat
      /\ run'[r] \in WorkflowRun /\ run'[r] # Nil
      /\ Fits(x)
  BY Written DEF WInv
<1> DEFINE y == run'[r]
<1>2. /\ y.stage = x.stage /\ y.status = x.status /\ y.outputs = x.outputs
      /\ y.pending = x.pending /\ y.gates = x.gates
  BY <1>1 DEF WorkflowRun
<1>3. Fits(y) /\ Chained(y)
  BY <1>1, Signed
<1>4. WorkflowTypeOK'
  BY <1>1 DEF WInv, WorkflowTypeOK
<1>5. Recorded' = Recorded \cup {r}
  BY <1>1 DEF Recorded
<1>6. ChainsHold'
  BY <1>1, <1>3, <1>5 DEF WInv, ChainsHold, Recorded
<1>7. GatesEarned'
  BY <1>1, <1>2, <1>5 DEF WInv, GatesEarned, Recorded
<1>8. AllAccounted'
  <2>1. r \notin lost' => Accounted(y, landed'[r])
    BY <1>2 DEF Accounted
  <2>2. ASSUME NEW q \in RunIds, q # r, q \in Recorded' \ lost'
        PROVE  Accounted(run'[q], landed'[q])
    <3>1. q \in Recorded \ lost /\ run'[q] = run[q] /\ landed'[q] = landed[q]
      BY <1>1, <1>5, <2>2
    <3> QED
      BY <3>1 DEF WInv, AllAccounted
  <2> QED
    BY <2>1, <2>2 DEF AllAccounted, Recorded
<1>9. OutputsLanded'
  BY <1>1, <1>2, <1>5 DEF WInv, OutputsLanded, Recorded
<1>10. Fresh'
  BY <1>1, <1>5 DEF WInv, Fresh, Recorded
<1>11. AppliedOnce'
  BY DEF WInv, AppliedOnce
<1> QED
  BY <1>4, <1>6, <1>7, <1>8, <1>9, <1>10, <1>11 DEF WInv

\* A command leaves no session behind.
LEMMA Rewrite ==
    ASSUME WInv, NEW r \in RunIds, NEW x \in WorkflowRun, Chained(x), writeRun(r, x),
           profile' \in DefDigests \cup {NoDef}, troubles' \in 0..MaxTroubles,
           session' = Idle,
           landed' \in [RunIds -> [StageIds -> Nat]],
           vouched' \in [RunIds -> SUBSET Gates],
           lost \subseteq lost', lost' \subseteq lost \cup {r},
           \A q \in RunIds \ {r} : landed'[q] = landed[q] /\ vouched'[q] = vouched[q],
           x.gates \subseteq vouched'[r],
           \A s \in x.outputs : landed'[r][s] > 0,
           r \notin lost' => Accounted(x, landed'[r]) /\ \A s \in StageIds : landed'[r][s] <= 1
    PROVE  WInv'
<1>1. InSession'
  BY DEF InSession
<1> QED
  BY <1>1, RewriteUnder

\* And its step is one the runs promise if what it writes is a successor.
LEMMA RewriteSteps ==
    ASSUME WorkflowTypeOK, NEW r \in RunIds, NEW x \in WorkflowRun, writeRun(r, x),
           profile' = profile, Succeeds(r, x)
    PROVE  RunStep
<1>1. /\ \A q \in RunIds \ {r} : run'[q] = run[q]
      /\ run'[r] = [x EXCEPT !.sig = run'[r].sig] /\ run'[r] # Nil
  BY Written
<1> DEFINE y == run'[r]
<1>2. /\ y.stage = x.stage /\ y.status = x.status /\ y.digest = x.digest
      /\ y.version = x.version /\ y.events = x.events /\ y.known = x.known
  BY <1>1 DEF WorkflowRun
<1>3. VersionsNeverRewind
  <2>1. ASSUME NEW q \in Recorded
        PROVE  /\ run'[q] # Nil /\ run'[q].version >= run[q].version
               /\ run'[q].version = run[q].version => run'[q].events = run[q].events
    <3>1. CASE q = r
      BY <1>1, <1>2, <2>1, <3>1 DEF Succeeds, Recorded
    <3>2. CASE q # r
      <4>1. run'[q] = run[q] /\ run[q] \in WorkflowRun
        BY <1>1, <3>2 DEF Recorded, WorkflowTypeOK
      <4>2. run[q].version \in Nat
        BY <4>1 DEF WorkflowRun
      <4> QED
        BY <4>1, <4>2 DEF Recorded
    <3> QED
      BY <3>1, <3>2
  <2> QED
    BY <2>1 DEF VersionsNeverRewind
<1>4. GenuineCompletion
  BY <1>1, <1>2 DEF GenuineCompletion, Succeeds, Recorded
<1>5. AdaptedIsCurrent
  <2>1. ASSUME run[r] # Nil, y.digest # run[r].digest
        PROVE  classifyRun(run[r])' \in {"current", "historical"}
    <3>1. isTerminalStatus(y.status) \/ (y.digest = profile' /\ stagesPreserved(y, profile'))
      BY <1>2, <2>1 DEF Succeeds, stagesPreserved
    <3> QED
      BY <3>1 DEF classifyRun
  <2> QED
    BY <1>1, <2>1 DEF AdaptedIsCurrent, Recorded
<1> QED
  BY <1>3, <1>4, <1>5 DEF RunStep

\* A step that writes no record is one the runs promise.
LEMMA Unwritten ==
    ASSUME WorkflowTypeOK, run' = run
    PROVE  RunStep
<1>1. VersionsNeverRewind
  BY DEF VersionsNeverRewind, Recorded, WorkflowTypeOK, WorkflowRun
<1> QED
  BY <1>1 DEF RunStep, GenuineCompletion, AdaptedIsCurrent

\* A step that touches no record and no history.
LEMMA Quiet ==
    ASSUME WInv, run' = run, UNCHANGED runHistory, WorkflowTypeOK', InSession'
    PROVE  WInv' /\ RunStep
<1>1. landed' = landed /\ vouched' = vouched /\ lost' = lost
  BY DEF runHistory
<1>2. Recorded' = Recorded
  BY DEF Recorded
<1>3. ChainsHold' /\ GatesEarned'
  BY <1>1, <1>2 DEF WInv, ChainsHold, GatesEarned
<1>4. AllAccounted' /\ OutputsLanded' /\ Fresh' /\ AppliedOnce'
  BY <1>1, <1>2 DEF WInv, AllAccounted, OutputsLanded, Fresh, AppliedOnce
<1>5. WInv'
  BY <1>3, <1>4 DEF WInv
<1>6. RunStep
  BY Unwritten DEF WInv
<1> QED
  BY <1>5, <1>6

-----------------------------------------------------------------------------
(* What the commands start from.                                           *)

LEMMA Opened ==
    ASSUME WInv, NEW r \in RunIds, run[r] # Nil
    PROVE  /\ run[r] \in WorkflowRun /\ Chained(run[r]) /\ Fits(run[r])
           /\ run[r].gates \subseteq vouched[r]
           /\ \A s \in run[r].outputs : landed[r][s] > 0
           /\ r \notin lost => /\ Accounted(run[r], landed[r])
                               /\ \A s \in StageIds : landed[r][s] <= 1
           /\ landed[r] \in [StageIds -> Nat] /\ vouched[r] \subseteq Gates
<1>1. r \in Recorded /\ run[r] \in WorkflowRun
  BY DEF WInv, WorkflowTypeOK, Recorded
<1>2. landed[r] \in [StageIds -> Nat] /\ vouched[r] \subseteq Gates
  BY DEF WInv, WorkflowTypeOK
<1>3. /\ Chained(run[r]) /\ Fits(run[r]) /\ run[r].gates \subseteq vouched[r]
      /\ \A s \in run[r].outputs : landed[r][s] > 0
  BY <1>1 DEF WInv, ChainsHold, GatesEarned, OutputsLanded
<1>4. r \notin lost => Accounted(run[r], landed[r]) /\ \A s \in StageIds : landed[r][s] <= 1
  BY <1>1 DEF WInv, AllAccounted, AppliedOnce
<1> QED
  BY <1>1, <1>2, <1>3, <1>4

LEMMA Locked ==
    ASSUME NEW a, NEW r, withRunLock(a, r)
    PROVE  session = Idle /\ run[r] # Nil
BY DEF withRunLock, readRun

LEMMA StagesOf ==
    ASSUME NEW d \in DefDigests
    PROVE  /\ Defs[d] \in Seq(Stages) /\ Defs[d] # <<>> /\ 1 \in DOMAIN Defs[d]
           /\ \A i \in DOMAIN Defs[d] : Defs[d][i] \in Stages /\ Defs[d][i].id \in StageIds
           /\ IdsOf(d) \subseteq StageIds
<1>1. Defs[d] \in Seq(Stages) /\ Defs[d] # <<>>
  BY WorkflowAssumption
<1>2. \A i \in DOMAIN Defs[d] : Defs[d][i] \in Stages
  BY <1>1
<1>3. \A x \in Stages : x.id \in StageIds
  BY DEF Stages
<1>4. 1 \in DOMAIN Defs[d]
  BY <1>1
<1> QED
  BY <1>1, <1>2, <1>3, <1>4 DEF IdsOf

LEMMA StageOf ==
    ASSUME NEW d \in DefDigests, NEW s \in IdsOf(d)
    PROVE  /\ stageDefOf(d, s) \in Stages /\ stageDefOf(d, s).id = s
           /\ s \in StageIds /\ s # Nil /\ nextStageId(d, s) \in StageIds \cup {Nil}
<1>1. Defs[d] \in Seq(Stages)
  BY WorkflowAssumption
<1>2. \A i \in DOMAIN Defs[d] : Defs[d][i] \in Stages /\ Defs[d][i].id \in StageIds
  BY StagesOf
<1>3. stageDefOf(d, s) \in Stages /\ stageDefOf(d, s).id = s
  <2>1. \E x \in {Defs[d][i] : i \in DOMAIN Defs[d]} : x.id = s
    BY DEF IdsOf
  <2> QED
    BY <1>2, <2>1 DEF stageDefOf
<1>4. s \in StageIds /\ s # Nil
  BY <1>2, WorkflowAssumption DEF IdsOf
<1>5. nextStageId(d, s) \in StageIds \cup {Nil}
  <2> DEFINE i == CHOOSE i \in DOMAIN Defs[d] : Defs[d][i].id = s
  <2>1. i \in DOMAIN Defs[d]
    BY DEF IdsOf
  <2>2. nextStageId(d, s) = IF i = Len(Defs[d]) THEN Nil ELSE Defs[d][i + 1].id
    BY DEF nextStageId
  <2> HIDE DEF i
  <2>3. i # Len(Defs[d]) => i + 1 \in DOMAIN Defs[d]
    BY <1>1, <2>1
  <2> QED
    BY <1>2, <2>2, <2>3
<1> QED
  BY <1>3, <1>4, <1>5

LEMMA Resolved ==
    ASSUME WInv, NEW r \in RunIds, resolveCurrentStage(r)
    PROVE  /\ profile \in DefDigests /\ run[r].stage \in StageIds /\ run[r].stage # Nil
           /\ Current(r) \in Stages /\ Current(r).id = run[r].stage
           /\ nextStageId(profile, run[r].stage) \in StageIds \cup {Nil}
<1>1. profile \in DefDigests /\ run[r].stage \in IdsOf(profile)
  BY DEF resolveCurrentStage, WInv, WorkflowTypeOK
<1> QED
  BY <1>1, StageOf DEF Current

\* A mapped id is one of the definition's.
LEMMA Mapped ==
    ASSUME NEW d \in DefDigests, NEW s
    PROVE  mapStageId(s, d) \in IdsOf(d) \cup {Nil} /\ IdsOf(d) \subseteq StageIds
<1>1. \A i \in DOMAIN Defs[d] : Defs[d][i].id \in StageIds
  BY StagesOf
<1> DEFINE Renamed == {x \in {Defs[d][i] : i \in DOMAIN Defs[d]} : s \in x.prev}
<1>2. Renamed # {} => (CHOOSE x \in Renamed : TRUE) \in Renamed
  OBVIOUS
<1>3. \A x \in Renamed : x.id \in IdsOf(d)
  BY DEF IdsOf
<1>4. mapStageId(s, d) = IF s \in IdsOf(d) THEN s
                         ELSE IF Renamed = {} THEN Nil ELSE (CHOOSE x \in Renamed : TRUE).id
  BY DEF mapStageId
<1> HIDE DEF Renamed
<1> QED
  BY <1>1, <1>2, <1>3, <1>4 DEF IdsOf

-----------------------------------------------------------------------------
(* Commands on one record.                                                 *)

\* A command that only moves an active run on.
LEMMA MovesOn ==
    ASSUME WInv, NEW r \in RunIds, run[r] # Nil, ~isTerminalStatus(run[r].status),
           NEW x \in WorkflowRun, Chained(x), writeRun(r, x), session' = Idle,
           UNCHANGED <<profile, troubles, runHistory>>,
           x.gates \subseteq run[r].gates, x.outputs \subseteq run[r].outputs,
           x.stage # Nil => /\ run[r].stage # Nil /\ x.outputs = run[r].outputs
                            /\ x.pending = run[r].pending,
           Succeeds(r, x)
    PROVE  WInv' /\ RunStep
<1>1. /\ run[r].gates \subseteq vouched[r]
      /\ \A s \in run[r].outputs : landed[r][s] > 0
      /\ r \notin lost => /\ Accounted(run[r], landed[r])
                          /\ \A s \in StageIds : landed[r][s] <= 1
  BY Opened
<1>2. /\ profile' = profile /\ troubles' = troubles /\ landed' = landed /\ vouched' = vouched
      /\ lost' = lost
  BY DEF runHistory
<1>3. WorkflowTypeOK
  BY DEF WInv
<1>4. /\ profile' \in DefDigests \cup {NoDef} /\ troubles' \in 0..MaxTroubles
      /\ landed' \in [RunIds -> [StageIds -> Nat]] /\ vouched' \in [RunIds -> SUBSET Gates]
  BY <1>2, <1>3 DEF WorkflowTypeOK
<1>5. r \notin lost' => Accounted(x, landed'[r]) /\ \A s \in StageIds : landed'[r][s] <= 1
  BY <1>1, <1>2 DEF Accounted, isTerminalStatus
<1>6. WInv'
  BY <1>1, <1>2, <1>4, <1>5, Rewrite
<1> QED
  BY <1>2, <1>3, <1>6, RewriteSteps

\* A run is started under an id no file has, and nothing has landed for it.
LEMMA StartStep ==
    ASSUME WInv, NEW a \in Owners, NEW r \in RunIds, NEW n \in InputSizes,
           startWorkflow(a, r, n)
    PROVE  WInv' /\ RunStep
<1> DEFINE x == buildPendingRun(a, n)
<1>1. WorkflowTypeOK
  BY DEF WInv
<1>2. /\ session = Idle /\ profile # NoDef /\ mintFreshRunId(r) /\ writeRun(r, x)
      /\ UNCHANGED <<profile, session, troubles, runHistory>>
  BY DEF startWorkflow
<1>3. run[r] = Nil
  BY <1>2 DEF mintFreshRunId, readRun
<1>4. profile \in DefDigests /\ n \in Nat
  BY <1>1, <1>2, WorkflowAssumption DEF WorkflowTypeOK
<1>6. IdsOf(profile) \subseteq StageIds /\ Defs[profile][1].id \in StageIds
  BY <1>4, StagesOf
<1>7. <<<<0, 0>>>> \in Seq(Nat \X Nat) /\ "pending" \in StageStatus /\ "pending" \in RunStatus
  BY DEF StageStatus, RunStatus
<1>8. IdsOf(profile) \X {"pending"} \subseteq StageIds \X StageStatus
  BY <1>6, <1>7
<1>9. x \in WorkflowRun
  BY <1>4, <1>6, <1>7, <1>8 DEF buildPendingRun, WorkflowRun
<1>10. x.events = <<<<0, 0>>>> /\ x.version = 0 /\ x.gates = {} /\ x.outputs = {}
  BY DEF buildPendingRun
<1> HIDE DEF x
<1>11. Chained(x)
  BY <1>7, <1>10, WorkflowAssumption DEF Chained, Chain
<1>12. r \notin Recorded /\ \A s \in StageIds : landed[r][s] = 0
  BY <1>3 DEF WInv, Fresh, Recorded
<1>13. /\ profile' \in DefDigests \cup {NoDef} /\ troubles' \in 0..MaxTroubles
       /\ session' = Idle /\ landed' = landed /\ vouched' = vouched /\ lost' = lost
       /\ landed' \in [RunIds -> [StageIds -> Nat]] /\ vouched' \in [RunIds -> SUBSET Gates]
  BY <1>1, <1>2 DEF WorkflowTypeOK, runHistory
<1>14. Accounted(x, landed'[r]) /\ \A s \in StageIds : landed'[r][s] <= 1
  BY <1>12, <1>13 DEF Accounted
<1>15. WInv'
  BY <1>2, <1>9, <1>10, <1>11, <1>13, <1>14, Rewrite
<1>16. Succeeds(r, x)
  BY <1>3 DEF Succeeds
<1> QED
  BY <1>1, <1>2, <1>9, <1>15, <1>16, RewriteSteps

\* The next stage is reached from one that is done (advance.ts completeAndStep).
LEMMA CompleteStep ==
    ASSUME WInv, NEW a \in Owners, NEW r \in RunIds, completeAndStep(a, r)
    PROVE  WInv' /\ RunStep
<1> DEFINE s == run[r].stage
           n == nextStageId(profile, s)
           z == appendStamped(run[r])
           u == setStageStatus(z, s, "completed")
           w == setStageStatus(u, n, "running")
           x == IF n = Nil THEN [u EXCEPT !.stage = Nil, !.status = "completed"]
                ELSE [w EXCEPT !.stage = n, !.status = Begun(@)]
<1>1. /\ withRunLock(a, r) /\ ~isTerminalStatus(run[r].status)
      /\ resolveCurrentStage(r) /\ stageSatisfied(run[r], Current(r))
      /\ CanAppend(run[r]) /\ writeRun(r, x)
      /\ UNCHANGED <<profile, session, troubles, runHistory>>
  BY DEF completeAndStep
<1>2. session = Idle /\ run[r] # Nil
  BY <1>1, Locked
<1>3. /\ run[r] \in WorkflowRun /\ Chained(run[r]) /\ run[r].gates \subseteq vouched[r]
      /\ \A t \in run[r].outputs : landed[r][t] > 0
  BY <1>2, Opened
<1>4. /\ s \in StageIds /\ s # Nil /\ Current(r).id = s /\ n \in StageIds \cup {Nil}
      /\ Current(r) \in Stages
  BY <1>1, Resolved
<1>5. /\ z \in WorkflowRun /\ Chained(z)
      /\ z = [run[r] EXCEPT !.version = run[r].version + 1, !.events = z.events]
  BY <1>1, <1>3, Stamped
<1>6. "completed" \in StageStatus /\ "running" \in StageStatus
  BY DEF StageStatus
<1> HIDE DEF z
<1>7. u \in WorkflowRun /\ u = [z EXCEPT !.log = u.log]
  BY <1>5, <1>6, Marked
<1> HIDE DEF u
<1>8. w \in WorkflowRun /\ w = [u EXCEPT !.log = w.log]
  BY <1>6, <1>7, Marked
<1> HIDE DEF w, n
<1>9. \A v \in WorkflowRun : Begun(v.status) \in RunStatus
  BY DEF Begun, WorkflowRun, RunStatus
<1>10. x \in WorkflowRun
  <2>1. CASE n = Nil
    BY <1>7, <2>1 DEF WorkflowRun, RunStatus
  <2>2. CASE n # Nil
    BY <1>4, <1>8, <1>9, <2>2 DEF WorkflowRun
  <2> QED
    BY <2>1, <2>2
<1>11. /\ u.events = z.events /\ u.version = z.version /\ u.gates = run[r].gates
       /\ u.outputs = run[r].outputs /\ u.pending = run[r].pending /\ u.digest = run[r].digest
       /\ z.version = run[r].version + 1 /\ run[r].version \in Nat
  <2>1. /\ z.version = run[r].version + 1 /\ run[r].version \in Nat
        /\ z.gates = run[r].gates /\ z.outputs = run[r].outputs
        /\ z.pending = run[r].pending /\ z.digest = run[r].digest
    BY <1>3, <1>5 DEF WorkflowRun
  <2>2. /\ u.events = z.events /\ u.version = z.version /\ u.gates = z.gates
        /\ u.outputs = z.outputs /\ u.pending = z.pending /\ u.digest = z.digest
    BY <1>5, <1>7 DEF WorkflowRun
  <2> QED
    BY <2>1, <2>2
<1>12. /\ x.events = u.events /\ x.version = u.version /\ x.gates = u.gates
       /\ x.outputs = u.outputs /\ x.pending = u.pending /\ x.digest = u.digest
  BY <1>7, <1>8 DEF WorkflowRun
<1> HIDE DEF x
<1>13. Chained(x)
  BY <1>5, <1>11, <1>12 DEF Chained
<1>14. Succeeds(r, x)
  <2>1. /\ Current(r).gate # Nil => Current(r).gate \in vouched[r]
        /\ Current(r).writes => landed[r][s] > 0
    BY <1>1, <1>3, <1>4 DEF stageSatisfied, Stages
  <2> QED
    BY <1>11, <1>12, <2>1 DEF Succeeds
<1>15. session' = Idle /\ UNCHANGED <<profile, troubles, runHistory>>
  BY <1>1, <1>2
<1>16. /\ x.gates \subseteq run[r].gates /\ x.outputs \subseteq run[r].outputs
       /\ x.stage # Nil => /\ run[r].stage # Nil /\ x.outputs = run[r].outputs
                           /\ x.pending = run[r].pending
  BY <1>4, <1>11, <1>12
<1> QED
  BY <1>1, <1>2, <1>10, <1>13, <1>14, <1>15, <1>16, MovesOn

\* Parking marks the stage and moves nothing.
LEMMA ParkStep ==
    ASSUME WInv, NEW a \in Owners, NEW r \in RunIds, parkAwaitingGate(a, r)
    PROVE  WInv' /\ RunStep
<1> DEFINE u == setStageStatus(run[r], run[r].stage, "awaiting-gate")
           x == [u EXCEPT !.status = Begun(@)]
<1>1. /\ withRunLock(a, r) /\ ~isTerminalStatus(run[r].status) /\ resolveCurrentStage(r)
      /\ writeRun(r, x) /\ UNCHANGED <<profile, session, troubles, runHistory>>
  BY DEF parkAwaitingGate
<1>2. session = Idle /\ run[r] # Nil
  BY <1>1, Locked
<1>3. run[r] \in WorkflowRun /\ Chained(run[r])
  BY <1>2, Opened
<1>4. run[r].stage # Nil
  BY <1>1, Resolved
<1>5. u \in WorkflowRun /\ u = [run[r] EXCEPT !.log = u.log]
  BY <1>3, Marked DEF StageStatus
<1> HIDE DEF u
<1>6. Begun(u.status) \in RunStatus
  BY <1>5 DEF Begun, WorkflowRun, RunStatus
<1>7. x \in WorkflowRun
  BY <1>5, <1>6 DEF WorkflowRun
<1>8. /\ x.events = run[r].events /\ x.version = run[r].version /\ x.gates = run[r].gates
      /\ x.outputs = run[r].outputs /\ x.pending = run[r].pending
      /\ x.digest = run[r].digest /\ x.stage = run[r].stage /\ run[r].version \in Nat
  BY <1>3, <1>5 DEF WorkflowRun
<1> HIDE DEF x
<1>9. Chained(x)
  BY <1>3, <1>8 DEF Chained
<1>10. Succeeds(r, x)
  BY <1>8 DEF Succeeds
<1>11. session' = Idle /\ UNCHANGED <<profile, troubles, runHistory>>
  BY <1>1, <1>2
<1> QED
  BY <1>1, <1>2, <1>4, <1>7, <1>8, <1>9, <1>10, <1>11, MovesOn

\* A page sent to review is recorded as an event.
LEMMA StagedStep ==
    ASSUME WInv, NEW a \in Owners, NEW r \in RunIds, recordStaged(a, r)
    PROVE  WInv' /\ RunStep
<1> DEFINE x == appendStamped(run[r])
<1>1. /\ withRunLock(a, r) /\ ~isTerminalStatus(run[r].status) /\ resolveCurrentStage(r)
      /\ CanAppend(run[r]) /\ writeRun(r, x)
      /\ UNCHANGED <<profile, session, troubles, runHistory>>
  BY DEF recordStaged, submitUnderLock
<1>2. session = Idle /\ run[r] # Nil
  BY <1>1, Locked
<1>3. run[r] \in WorkflowRun /\ Chained(run[r])
  BY <1>2, Opened
<1>4. run[r].stage # Nil
  BY <1>1, Resolved
<1>5. /\ x \in WorkflowRun /\ Chained(x)
      /\ x = [run[r] EXCEPT !.version = run[r].version + 1, !.events = x.events]
  BY <1>1, <1>3, Stamped
<1> HIDE DEF x
<1>6. /\ x.version = run[r].version + 1 /\ x.gates = run[r].gates
      /\ x.outputs = run[r].outputs /\ x.pending = run[r].pending
      /\ x.digest = run[r].digest /\ x.stage = run[r].stage /\ run[r].version \in Nat
  BY <1>3, <1>5 DEF WorkflowRun
<1>7. Succeeds(r, x)
  BY <1>6 DEF Succeeds
<1>8. session' = Idle /\ UNCHANGED <<profile, troubles, runHistory>>
  BY <1>1, <1>2
<1> QED
  BY <1>1, <1>2, <1>4, <1>5, <1>6, <1>7, <1>8, MovesOn

\* A cancelled run points at no stage.
LEMMA CancelStep ==
    ASSUME WInv, NEW a \in Owners, NEW r \in RunIds, cancelWorkflow(a, r)
    PROVE  WInv' /\ RunStep
<1> DEFINE z == appendTerminalEvent(run[r])
           c == cancelledRun(run[r])
           x == fitTerminalRun(c)
<1>1. /\ withRunLock(a, r) /\ ~isTerminalStatus(run[r].status) /\ writeRun(r, x)
      /\ UNCHANGED <<profile, session, troubles, runHistory>>
  BY DEF cancelWorkflow, writeTerminalRun
<1>2. session = Idle /\ run[r] # Nil
  BY <1>1, Locked
<1>3. run[r] \in WorkflowRun /\ Chained(run[r])
  BY <1>2, Opened
<1>4. /\ z \in WorkflowRun /\ Chained(z)
      /\ z = [run[r] EXCEPT !.version = run[r].version + 1, !.events = z.events]
  BY <1>3, TerminalStamped
<1>5. c = [z EXCEPT !.status = "cancelled", !.stage = Nil]
  BY DEF cancelledRun
<1> HIDE DEF z, c
<1>6. c \in WorkflowRun
  BY <1>4, <1>5 DEF WorkflowRun, RunStatus
<1>7. /\ c.version = run[r].version + 1 /\ c.gates = run[r].gates
      /\ c.outputs = run[r].outputs /\ c.digest = run[r].digest /\ c.stage = Nil
      /\ c.status = "cancelled" /\ c.events = z.events /\ c.version = z.version
      /\ run[r].version \in Nat
  BY <1>3, <1>4, <1>5 DEF WorkflowRun
<1>8. Chained(c)
  BY <1>4, <1>7 DEF Chained
<1>9. /\ x \in WorkflowRun /\ Chained(x) /\ x.version >= c.version /\ x.status = c.status
      /\ x.digest = c.digest /\ x.stage = Nil /\ x.gates \subseteq c.gates
      /\ x.outputs \subseteq c.outputs
  BY <1>6, <1>7, <1>8, TerminalFits
<1> HIDE DEF x
<1>10. Succeeds(r, x)
  <2>1. x.version \in Nat /\ x.version > run[r].version
    BY <1>7, <1>9 DEF WorkflowRun
  <2>2. x.version >= run[r].version /\ x.version # run[r].version
    BY <1>7, <2>1
  <2> QED
    BY <1>7, <1>9, <2>2 DEF Succeeds
<1>11. session' = Idle /\ UNCHANGED <<profile, troubles, runHistory>>
  BY <1>1, <1>2
<1> QED
  BY <1>1, <1>2, <1>7, <1>9, <1>10, <1>11, MovesOn

\* A gate is added to the record as the actor that satisfies it is found to.
LEMMA ApproveStep ==
    ASSUME WInv, NEW a \in Owners, NEW r \in RunIds, NEW kind \in {"human", "agent"},
           approveGate(a, r, kind)
    PROVE  WInv' /\ RunStep
<1> DEFINE g == Current(r).gate
           z == appendStamped(run[r])
           u == setStageStatus(z, run[r].stage, "running")
           v == IF <<run[r].stage, "awaiting-gate">> \in z.log THEN u ELSE z
           x == [v EXCEPT !.gates = @ \cup {g}]
<1>1. /\ withRunLock(a, r) /\ ~isTerminalStatus(run[r].status) /\ resolveCurrentStage(r)
      /\ vouchGate(g, kind) /\ CanAppend(run[r]) /\ writeRun(r, x)
      /\ vouched' = [vouched EXCEPT ![r] = @ \cup {h \in {g} : actorSatisfies(h, kind)}]
      /\ UNCHANGED <<profile, session, troubles, landed, lost>>
  BY DEF approveGate
<1>2. session = Idle /\ run[r] # Nil
  BY <1>1, Locked
<1>3. /\ run[r] \in WorkflowRun /\ Chained(run[r]) /\ run[r].gates \subseteq vouched[r]
      /\ \A s \in run[r].outputs : landed[r][s] > 0
      /\ r \notin lost => /\ Accounted(run[r], landed[r])
                          /\ \A s \in StageIds : landed[r][s] <= 1
      /\ vouched[r] \subseteq Gates
  BY <1>2, Opened
<1>4. WorkflowTypeOK
  BY DEF WInv
<1>5. g \in Gates /\ actorSatisfies(g, kind)
  <2>1. Current(r) \in Stages
    BY <1>1, Resolved
  <2> QED
    BY <1>1, <2>1 DEF vouchGate, Stages
<1>6. vouched' = [vouched EXCEPT ![r] = @ \cup {g}]
  BY <1>1, <1>5
<1>7. /\ z \in WorkflowRun /\ Chained(z)
      /\ z = [run[r] EXCEPT !.version = run[r].version + 1, !.events = z.events]
  BY <1>1, <1>3, Stamped
<1>8. u \in WorkflowRun /\ u = [z EXCEPT !.log = u.log]
  BY <1>7, Marked DEF StageStatus
<1> HIDE DEF g, z, u
<1>9. v \in WorkflowRun /\ v = [z EXCEPT !.log = v.log]
  BY <1>7, <1>8 DEF WorkflowRun
<1> HIDE DEF v
<1>10. x \in WorkflowRun
  BY <1>5, <1>9 DEF WorkflowRun
<1>11. /\ x.version = run[r].version + 1 /\ x.gates = run[r].gates \cup {g}
       /\ x.outputs = run[r].outputs /\ x.pending = run[r].pending
       /\ x.digest = run[r].digest /\ x.stage = run[r].stage /\ run[r].version \in Nat
       /\ x.status = run[r].status /\ x.events = z.events /\ x.version = z.version
  <2>1. /\ z.version = run[r].version + 1 /\ z.gates = run[r].gates
        /\ z.outputs = run[r].outputs /\ z.pending = run[r].pending
        /\ z.digest = run[r].digest /\ z.stage = run[r].stage /\ z.status = run[r].status
        /\ run[r].version \in Nat
    BY <1>3, <1>7 DEF WorkflowRun
  <2>2. /\ v.version = z.version /\ v.gates = z.gates /\ v.outputs = z.outputs
        /\ v.pending = z.pending /\ v.digest = z.digest /\ v.stage = z.stage
        /\ v.status = z.status /\ v.events = z.events
    BY <1>7, <1>9 DEF WorkflowRun
  <2>3. /\ x.version = v.version /\ x.gates = v.gates \cup {g} /\ x.outputs = v.outputs
        /\ x.pending = v.pending /\ x.digest = v.digest /\ x.stage = v.stage
        /\ x.status = v.status /\ x.events = v.events
    BY <1>9 DEF WorkflowRun
  <2> QED
    BY <2>1, <2>2, <2>3
<1> HIDE DEF x
<1>12. Chained(x)
  BY <1>7, <1>11 DEF Chained
<1>13. Succeeds(r, x)
  BY <1>11 DEF Succeeds
<1>14. /\ profile' = profile /\ troubles' = troubles /\ landed' = landed /\ lost' = lost
       /\ session' = Idle
  BY <1>1, <1>2
<1>15. /\ profile' \in DefDigests \cup {NoDef} /\ troubles' \in 0..MaxTroubles
       /\ landed' \in [RunIds -> [StageIds -> Nat]] /\ vouched' \in [RunIds -> SUBSET Gates]
       /\ vouched'[r] = vouched[r] \cup {g} /\ \A q \in RunIds \ {r} : vouched'[q] = vouched[q]
  BY <1>3, <1>4, <1>5, <1>6, <1>14 DEF WorkflowTypeOK
<1>16. r \notin lost' => Accounted(x, landed'[r]) /\ \A s \in StageIds : landed'[r][s] <= 1
  BY <1>3, <1>11, <1>14 DEF Accounted
<1>17. x.gates \subseteq vouched'[r] /\ \A s \in x.outputs : landed'[r][s] > 0
  BY <1>3, <1>11, <1>14, <1>15
<1>18. WInv'
  BY <1>1, <1>10, <1>12, <1>14, <1>15, <1>16, <1>17, Rewrite
<1> QED
  BY <1>1, <1>4, <1>10, <1>13, <1>14, <1>18, RewriteSteps

\* A failing run keeps its stage, or keeps track of nothing: what it forgets of other
\* stages is in `lost'.
LEMMA Fails ==
    ASSUME WInv, NEW r \in RunIds, run[r] # Nil, NEW b \in WorkflowRun, Chained(b),
           ~isTerminalStatus(b.status), markRunFailedLocked(r, b), session' = Idle,
           UNCHANGED <<profile, troubles, landed, vouched>>,
           b.version = run[r].version, b.gates = run[r].gates,
           b.outputs = run[r].outputs, b.digest = run[r].digest,
           r \notin lost => Accounted(b, landed[r])
    PROVE  WInv' /\ RunStep
<1> DEFINE u == setStageStatus(b, b.stage, "failed")
           z == appendTerminalEvent(u)
           f == failedRun(b)
           x == fitTerminalRun(f)
<1>1. writeRun(r, x) /\ lost' = lost \cup Forgotten(r, b, x)
  BY DEF markRunFailedLocked, writeTerminalRun
<1>2. WorkflowTypeOK
  BY DEF WInv
<1>3. /\ run[r].gates \subseteq vouched[r] /\ \A s \in run[r].outputs : landed[r][s] > 0
      /\ r \notin lost => \A s \in StageIds : landed[r][s] <= 1
      /\ run[r] \in WorkflowRun
  BY Opened
<1>4. u \in WorkflowRun /\ u = [b EXCEPT !.log = u.log]
  BY Marked DEF StageStatus
<1> HIDE DEF u
<1>5. u.events = b.events /\ u.version = b.version
  BY <1>4 DEF WorkflowRun
<1>6. Chained(u)
  BY <1>5 DEF Chained
<1>7. /\ z \in WorkflowRun /\ Chained(z)
      /\ z = [u EXCEPT !.version = u.version + 1, !.events = z.events]
  BY <1>4, <1>6, TerminalStamped
<1>8. f = [z EXCEPT !.status = "failed"]
  BY DEF failedRun, u
<1> HIDE DEF z, f
<1>9. f \in WorkflowRun
  BY <1>7, <1>8 DEF WorkflowRun, RunStatus
<1>10. /\ f.version = b.version + 1 /\ f.gates = b.gates /\ f.outputs = b.outputs
       /\ f.digest = b.digest /\ f.stage = b.stage /\ f.status = "failed"
       /\ f.events = z.events /\ f.version = z.version /\ b.version \in Nat
  <2>1. /\ u.version = b.version /\ u.gates = b.gates /\ u.outputs = b.outputs
        /\ u.digest = b.digest /\ u.stage = b.stage /\ b.version \in Nat
    BY <1>4 DEF WorkflowRun
  <2>2. /\ z.version = u.version + 1 /\ z.gates = u.gates /\ z.outputs = u.outputs
        /\ z.digest = u.digest /\ z.stage = u.stage
    BY <1>4, <1>7 DEF WorkflowRun
  <2>3. /\ f.version = z.version /\ f.gates = z.gates /\ f.outputs = z.outputs
        /\ f.digest = z.digest /\ f.stage = z.stage /\ f.status = "failed"
        /\ f.events = z.events
    BY <1>7, <1>8 DEF WorkflowRun
  <2> QED
    BY <2>1, <2>2, <2>3
<1>11. Chained(f)
  BY <1>7, <1>10 DEF Chained
<1>12. /\ x \in WorkflowRun /\ Chained(x) /\ x.version >= f.version /\ x.status = f.status
       /\ x.digest = f.digest /\ x.stage \in {f.stage, Nil} /\ x.gates \subseteq f.gates
       /\ x.outputs \subseteq f.outputs
  BY <1>9, <1>11, TerminalFits
<1> HIDE DEF x
<1>13. Succeeds(r, x)
  <2>1. x.version \in Nat
    BY <1>12 DEF WorkflowRun
  <2>2. x.version >= run[r].version /\ x.version # run[r].version
    BY <1>10, <1>12, <2>1
  <2> QED
    BY <1>10, <1>12, <2>2 DEF Succeeds
<1>14. /\ profile' = profile /\ troubles' = troubles /\ landed' = landed /\ vouched' = vouched
       /\ profile' \in DefDigests \cup {NoDef} /\ troubles' \in 0..MaxTroubles
       /\ landed' \in [RunIds -> [StageIds -> Nat]] /\ vouched' \in [RunIds -> SUBSET Gates]
  BY <1>2 DEF WorkflowTypeOK
<1>15. lost \subseteq lost' /\ lost' \subseteq lost \cup {r}
  BY <1>1 DEF Forgotten
<1>16. ASSUME r \notin lost'
       PROVE  Accounted(x, landed'[r]) /\ \A s \in StageIds : landed'[r][s] <= 1
  <2>1. r \notin lost /\ r \notin Forgotten(r, b, x)
    BY <1>1, <1>16
  <2>2. ASSUME x.stage # Nil, NEW s \in StageIds, landed[r][s] > 0, s # x.stage
        PROVE  s \in x.outputs \cup {x.pending}
    <3>1. b.stage # Nil /\ b.stage = x.stage
      BY <1>10, <1>12, <2>2
    <3>2. s \in b.outputs \cup {b.pending}
      BY <2>1, <2>2, <3>1 DEF Accounted
    <3>3. s \in (b.outputs \cup {b.pending}) \ {b.stage, Nil}
      BY <2>2, <3>1, <3>2, WorkflowAssumption
    <3> QED
      BY <2>1, <2>2, <3>3 DEF Forgotten
  <2>3. Accounted(x, landed[r])
    BY <1>10, <1>12, <2>2 DEF Accounted
  <2> QED
    BY <1>3, <1>14, <2>1, <2>3
<1>17. x.gates \subseteq vouched'[r] /\ \A s \in x.outputs : landed'[r][s] > 0
  BY <1>3, <1>10, <1>12, <1>14
<1>18. WInv'
  BY <1>1, <1>12, <1>14, <1>15, <1>16, <1>17, Rewrite
<1> QED
  BY <1>1, <1>2, <1>12, <1>13, <1>14, <1>18, RewriteSteps

LEMMA FailStep ==
    ASSUME WInv, NEW a \in Owners, NEW r \in RunIds,
           failWorkflow(a, r) \/ dispatchOrAutoFail(a, r)
    PROVE  WInv' /\ RunStep
<1>1. /\ withRunLock(a, r) /\ ~isTerminalStatus(run[r].status)
      /\ markRunFailedLocked(r, run[r])
      /\ UNCHANGED <<profile, session, troubles, landed, vouched>>
  BY DEF failWorkflow, dispatchOrAutoFail, submitUnderLock
<1>2. session = Idle /\ run[r] # Nil
  BY <1>1, Locked
<1>3. /\ run[r] \in WorkflowRun /\ Chained(run[r])
      /\ r \notin lost => Accounted(run[r], landed[r])
  BY <1>2, Opened
<1>4. session' = Idle /\ UNCHANGED <<profile, troubles, landed, vouched>>
  BY <1>1, <1>2
<1> QED
  BY <1>1, <1>2, <1>3, <1>4, Fails

\* Resuming gives up what the failed stage had, in the record and in the history; the
\* record of a run cut down to a tombstone has no stage to give up.
LEMMA ResumeStep ==
    ASSUME WInv, NEW a \in Owners, NEW r \in RunIds, resumeWorkflow(a, r)
    PROVE  WInv' /\ RunStep
<1> DEFINE s == run[r].stage
           u == setStageStatus(run[r], s, "running")
           v == IF s = Nil THEN u ELSE clearStageForRetry(u, Current(r))
           z == appendStamped(v)
           x == [z EXCEPT !.status = "running"]
<1>1. /\ withRunLock(a, r) /\ (s = Nil \/ resolveCurrentStage(r))
      /\ CanAppend(run[r]) /\ writeRun(r, x)
      /\ landed' = IF s = Nil THEN landed ELSE [landed EXCEPT ![r][s] = 0]
      /\ vouched' = IF s = Nil THEN vouched
                    ELSE [vouched EXCEPT ![r] = @ \ {Current(r).gate}]
      /\ UNCHANGED <<profile, session, troubles, lost>>
  BY DEF resumeWorkflow
<1>2. session = Idle /\ run[r] # Nil
  BY <1>1, Locked
<1>3. /\ run[r] \in WorkflowRun /\ Chained(run[r]) /\ run[r].gates \subseteq vouched[r]
      /\ \A t \in run[r].outputs : landed[r][t] > 0
      /\ r \notin lost => /\ Accounted(run[r], landed[r])
                          /\ \A t \in StageIds : landed[r][t] <= 1
      /\ landed[r] \in [StageIds -> Nat]
  BY <1>2, Opened
<1>4. WorkflowTypeOK
  BY DEF WInv
<1>5. s # Nil => s \in StageIds /\ Current(r).id = s
  BY <1>1, Resolved
<1>6. u \in WorkflowRun /\ u = [run[r] EXCEPT !.log = u.log]
  BY <1>3, Marked DEF StageStatus
<1> HIDE DEF u
<1>7. /\ u.events = run[r].events /\ u.version = run[r].version /\ u.stage = s
      /\ u.gates = run[r].gates /\ u.outputs = run[r].outputs
      /\ u.pending = run[r].pending /\ u.digest = run[r].digest
      /\ run[r].version \in Nat
  BY <1>3, <1>6 DEF WorkflowRun
<1>8. /\ v \in WorkflowRun /\ v.events = u.events /\ v.version = u.version
      /\ v.stage = u.stage /\ v.digest = u.digest
  BY <1>6 DEF clearStageForRetry, WorkflowRun
<1>9. s # Nil => /\ v.gates = u.gates \ {Current(r).gate} /\ v.outputs = u.outputs \ {s}
                 /\ v.pending = IF u.pending = s THEN Nil ELSE u.pending
  BY <1>5, <1>6 DEF clearStageForRetry, WorkflowRun
<1>10. s = Nil => v.gates = u.gates /\ v.outputs = u.outputs
  OBVIOUS
<1> HIDE DEF v
<1>11. Chained(v) /\ CanAppend(v)
  BY <1>1, <1>3, <1>7, <1>8 DEF Chained, CanAppend
<1>12. /\ z \in WorkflowRun /\ Chained(z)
       /\ z = [v EXCEPT !.version = v.version + 1, !.events = z.events]
  BY <1>8, <1>11, Stamped
<1> HIDE DEF z
<1>13. /\ z.version = v.version + 1 /\ z.stage = v.stage /\ z.gates = v.gates
       /\ z.outputs = v.outputs /\ z.pending = v.pending /\ z.digest = v.digest
  BY <1>8, <1>12 DEF WorkflowRun
<1>14. /\ x \in WorkflowRun
       /\ x.version = z.version /\ x.events = z.events /\ x.stage = z.stage
       /\ x.gates = z.gates /\ x.outputs = z.outputs /\ x.pending = z.pending
       /\ x.digest = z.digest /\ x.status = "running"
  BY <1>12 DEF WorkflowRun, RunStatus
<1> HIDE DEF x
<1>15. Chained(x)
  BY <1>12, <1>14 DEF Chained
<1>16. Succeeds(r, x)
  BY <1>7, <1>8, <1>13, <1>14 DEF Succeeds
<1>17. /\ profile' = profile /\ troubles' = troubles /\ lost' = lost /\ session' = Idle
       /\ profile' \in DefDigests \cup {NoDef} /\ troubles' \in 0..MaxTroubles
  BY <1>1, <1>2, <1>4 DEF WorkflowTypeOK
<1>18. CASE s = Nil
  <2>1. landed' = landed /\ vouched' = vouched
    BY <1>1, <1>18
  <2>2. /\ landed' \in [RunIds -> [StageIds -> Nat]] /\ vouched' \in [RunIds -> SUBSET Gates]
    BY <1>4, <2>1 DEF WorkflowTypeOK
  <2>3. x.stage = Nil /\ x.gates = run[r].gates /\ x.outputs = run[r].outputs
    BY <1>7, <1>8, <1>10, <1>13, <1>14, <1>18
  <2>4. Accounted(x, landed'[r])
    BY <2>3 DEF Accounted
  <2>5. WInv'
    BY <1>1, <1>3, <1>14, <1>15, <1>17, <2>1, <2>2, <2>3, <2>4, Rewrite
  <2> QED
    BY <1>1, <1>4, <1>14, <1>16, <1>17, <2>5, RewriteSteps
<1>19. CASE s # Nil
  <2> DEFINE g == Current(r).gate
  <2>1. /\ landed' = [landed EXCEPT ![r][s] = 0]
        /\ vouched' = [vouched EXCEPT ![r] = @ \ {g}]
    BY <1>1, <1>19
  <2> HIDE DEF g
  <2>2. /\ landed' \in [RunIds -> [StageIds -> Nat]] /\ vouched' \in [RunIds -> SUBSET Gates]
        /\ \A q \in RunIds \ {r} : landed'[q] = landed[q] /\ vouched'[q] = vouched[q]
        /\ vouched'[r] = vouched[r] \ {g}
        /\ landed'[r][s] = 0 /\ \A t \in StageIds \ {s} : landed'[r][t] = landed[r][t]
    BY <1>4, <1>5, <1>19, <2>1 DEF WorkflowTypeOK
  <2>3. /\ x.stage = s /\ x.gates = run[r].gates \ {g} /\ x.outputs = run[r].outputs \ {s}
        /\ x.pending = IF run[r].pending = s THEN Nil ELSE run[r].pending
    BY <1>7, <1>8, <1>9, <1>13, <1>14, <1>19 DEF g
  <2>4. x.gates \subseteq vouched'[r]
    BY <1>3, <2>2, <2>3
  <2>5. \A t \in x.outputs : landed'[r][t] > 0
    <3>1. x.outputs \subseteq StageIds
      BY <1>14 DEF WorkflowRun
    <3> QED
      BY <1>3, <2>2, <2>3, <3>1
  <2>6. ASSUME r \notin lost'
        PROVE  Accounted(x, landed'[r]) /\ \A t \in StageIds : landed'[r][t] <= 1
    <3>1. Accounted(run[r], landed[r]) /\ \A t \in StageIds : landed[r][t] <= 1
      BY <1>3, <1>17, <2>6
    <3>2. ASSUME NEW t \in StageIds, landed'[r][t] > 0
          PROVE  t \in x.outputs \cup {x.pending}
      <4>1. t # s /\ landed[r][t] > 0
        BY <2>2, <3>2
      <4> QED
        BY <1>19, <2>3, <3>1, <4>1 DEF Accounted
    <3>3. ASSUME NEW t \in StageIds
          PROVE  landed'[r][t] <= 1
      BY <2>2, <3>1
    <3> QED
      BY <3>2, <3>3 DEF Accounted
  <2>7. WInv'
    BY <1>1, <1>14, <1>15, <1>17, <2>2, <2>4, <2>5, <2>6, Rewrite
  <2> QED
    BY <1>1, <1>4, <1>14, <1>16, <1>17, <2>7, RewriteSteps
<1> QED
  BY <1>18, <1>19

-----------------------------------------------------------------------------
(* submitStageOutput.                                                      *)

\* The intent is on disk before anything lands, and nothing of this attempt has.
LEMMA PersistStep ==
    ASSUME WInv, NEW a \in Owners, NEW r \in RunIds, NEW granted \in BOOLEAN,
           persistOutputIntent(a, r, granted)
    PROVE  WInv' /\ RunStep
<1> DEFINE b == run[r]
           s == Current(r)
           x == [b EXCEPT !.pending = b.stage]
<1>1. /\ withRunLock(a, r) /\ ~isTerminalStatus(b.status) /\ resolveCurrentStage(r)
      /\ b.pending # b.stage /\ b.stage \notin b.outputs
      /\ ~trustGateRequiresStaging(s.gate, granted)
      /\ CanAppend(b) /\ Fits(projectAppliedRun(b, b.stage, s.gate))
      /\ writeRun(r, x)
      /\ session' = [step |-> "apply", id |-> r, stage |-> s, before |-> b, granted |-> granted]
      /\ lost' = lost \cup Forgotten(r, b, x)
      /\ UNCHANGED <<profile, troubles, landed, vouched>>
  BY DEF persistOutputIntent, submitUnderLock, assertOutputNotApplied, preflightApplyRecord
<1>2. b # Nil
  BY <1>1, Locked
<1>3. /\ b \in WorkflowRun /\ Chained(b) /\ Fits(b) /\ b.gates \subseteq vouched[r]
      /\ \A t \in b.outputs : landed[r][t] > 0
      /\ r \notin lost => /\ Accounted(b, landed[r])
                          /\ \A t \in StageIds : landed[r][t] <= 1
      /\ landed[r] \in [StageIds -> Nat]
  BY <1>2, Opened
<1>4. WorkflowTypeOK
  BY DEF WInv
<1>5. b.stage \in StageIds /\ b.stage # Nil /\ s \in Stages /\ s.id = b.stage
  BY <1>1, Resolved
<1>6. /\ x \in WorkflowRun
      /\ x.version = b.version /\ x.events = b.events /\ x.stage = b.stage
      /\ x.gates = b.gates /\ x.outputs = b.outputs /\ x.pending = b.stage
      /\ x.digest = b.digest /\ x.status = b.status /\ b.version \in Nat
  BY <1>3, <1>5 DEF WorkflowRun
<1>7. Chained(x)
  BY <1>3, <1>6 DEF Chained
<1>8. Succeeds(r, x)
  BY <1>6 DEF Succeeds
<1>9. /\ run'[r] = [x EXCEPT !.sig = run'[r].sig] /\ run'[r] # Nil
  BY <1>1, <1>4, <1>6, Written
<1>10. run'[r] = [b EXCEPT !.pending = s.id, !.sig = run'[r].sig]
  BY <1>3, <1>5, <1>9 DEF WorkflowRun
<1> HIDE DEF x, s
<1>11. /\ profile' = profile /\ troubles' = troubles /\ landed' = landed /\ vouched' = vouched
       /\ profile' \in DefDigests \cup {NoDef} /\ troubles' \in 0..MaxTroubles
       /\ landed' \in [RunIds -> [StageIds -> Nat]] /\ vouched' \in [RunIds -> SUBSET Gates]
       /\ lost \subseteq lost' /\ lost' \subseteq lost \cup {r}
  BY <1>1, <1>4 DEF WorkflowTypeOK, Forgotten
<1>12. session' \in Submission
  BY <1>1, <1>3, <1>5 DEF Submission
<1>13. isTrustGate(s.gate) => granted
  BY <1>1 DEF trustGateRequiresStaging
<1>14. r \notin lost => landed[r][b.stage] = 0
  BY <1>1, <1>3, <1>5 DEF Accounted, isTerminalStatus
<1>15. InSession'
  <2>1. /\ session'.id = r /\ session'.before = b /\ session'.stage = s
        /\ session'.granted = granted /\ session'.step = "apply"
    BY <1>1
  <2>2. r \in Recorded'
    BY <1>9 DEF Recorded
  <2>3. r \notin lost' => landed'[r][s.id] = 0 /\ Accounted(b, landed'[r])
    BY <1>3, <1>5, <1>11, <1>14
  <2> QED
    BY <1>1, <1>3, <1>5, <1>10, <1>13, <2>1, <2>2, <2>3 DEF InSession
<1>16. ASSUME r \notin lost'
       PROVE  Accounted(x, landed'[r]) /\ \A t \in StageIds : landed'[r][t] <= 1
  <2>1. r \notin lost /\ r \notin Forgotten(r, b, x)
    BY <1>1, <1>16
  <2>2. ASSUME NEW t \in StageIds, landed[r][t] > 0
        PROVE  t \in x.outputs \cup {x.pending}
    <3>1. t \in b.outputs \cup {b.pending}
      BY <1>1, <1>3, <1>5, <2>1, <2>2 DEF Accounted, isTerminalStatus
    <3>2. CASE t = b.stage
      BY <1>6, <3>2
    <3>3. CASE t # b.stage
      <4>1. t \in (b.outputs \cup {b.pending}) \ {b.stage, Nil}
        BY <3>1, <3>3, WorkflowAssumption
      <4> QED
        BY <2>1, <2>2, <4>1 DEF Forgotten
    <3> QED
      BY <3>2, <3>3
  <2> QED
    BY <1>3, <1>11, <2>1, <2>2 DEF Accounted
<1>17. x.gates \subseteq vouched'[r] /\ \A t \in x.outputs : landed'[r][t] > 0
  BY <1>3, <1>6, <1>11
<1>18. WInv'
  BY <1>1, <1>6, <1>7, <1>11, <1>12, <1>15, <1>16, <1>17, RewriteUnder
<1> QED
  BY <1>1, <1>4, <1>6, <1>8, <1>11, <1>18, RewriteSteps

\* What a session under way says of its run.
LEMMA Underway ==
    ASSUME WInv, session # Idle
    PROVE  /\ session \in Submission /\ session.id \in RunIds /\ session.stage \in Stages
           /\ session.before \in WorkflowRun /\ session.stage.id \in StageIds
           /\ run[session.id] # Nil /\ Chained(session.before)
           /\ ~isTerminalStatus(session.before.status)
           /\ session.before.version = run[session.id].version
           /\ session.before.events = run[session.id].events
           /\ session.before.stage = run[session.id].stage
           /\ session.before.status = run[session.id].status
           /\ session.before.gates = run[session.id].gates
           /\ session.before.outputs = run[session.id].outputs
           /\ session.before.digest = run[session.id].digest
           /\ run[session.id].pending = session.stage.id
           /\ session.stage.id = session.before.stage
<1>1. session \in Submission
  BY DEF WInv, WorkflowTypeOK
<1>2. /\ session.id \in RunIds /\ session.stage \in Stages /\ session.before \in WorkflowRun
      /\ session.stage.id \in StageIds
  BY <1>1 DEF Submission, Stages
<1>3. /\ session.id \in Recorded
      /\ run[session.id] = [session.before EXCEPT !.pending = session.stage.id,
                                                  !.sig = run[session.id].sig]
      /\ Chained(session.before) /\ ~isTerminalStatus(session.before.status)
      /\ session.stage.id = session.before.stage
  BY DEF WInv, InSession
<1>4. run[session.id] # Nil
  BY <1>3 DEF Recorded
<1> DEFINE b == session.before
           y == run[session.id]
           k == run[session.id].sig
<1>5. y = [b EXCEPT !.pending = session.stage.id, !.sig = k] /\ b \in WorkflowRun
  BY <1>2, <1>3
<1> HIDE DEF b, y, k
<1>6. /\ b.version = y.version /\ b.events = y.events /\ b.stage = y.stage
      /\ b.status = y.status /\ b.gates = y.gates /\ b.outputs = y.outputs
      /\ b.digest = y.digest /\ y.pending = session.stage.id
  BY <1>5 DEF WorkflowRun
<1> QED
  BY <1>1, <1>2, <1>3, <1>4, <1>6 DEF b, y

\* An output lands where the intent says, for the first time.
LEMMA LandStep ==
    ASSUME WInv, applyLands
    PROVE  WInv' /\ RunStep
<1> DEFINE r == session.id
           s == session.stage.id
<1>1. /\ session.step = "apply" /\ session' = [session EXCEPT !.step = "record"]
      /\ landed' = [landed EXCEPT ![r][s] = @ + 1]
      /\ profile' = profile /\ run' = run /\ key' = key /\ troubles' = troubles
      /\ vouched' = vouched /\ lost' = lost
  BY DEF applyLands
<1>2. session # Idle
  BY <1>1 DEF Idle
<1>3. /\ session \in Submission /\ r \in RunIds /\ s \in StageIds /\ run[r] # Nil
      /\ run[r].pending = s
  BY <1>2, Underway
<1>4. WorkflowTypeOK
  BY DEF WInv
<1>5. /\ session' \in Submission /\ session'.id = r /\ session'.stage = session.stage
      /\ session'.before = session.before /\ session'.granted = session.granted
      /\ session'.step = "record"
  BY <1>1, <1>3 DEF Submission
<1>6. r \notin lost => landed[r][s] = 0
  BY <1>1, <1>2 DEF WInv, InSession
<1> HIDE DEF r, s
<1>7. /\ landed' \in [RunIds -> [StageIds -> Nat]]
      /\ landed'[r][s] = landed[r][s] + 1 /\ landed[r][s] \in Nat
      /\ \A q \in RunIds, t \in StageIds : q # r \/ t # s => landed'[q][t] = landed[q][t]
  BY <1>1, <1>3, <1>4 DEF WorkflowTypeOK
<1>8. WorkflowTypeOK'
  BY <1>1, <1>4, <1>5, <1>7 DEF WorkflowTypeOK
<1>9. Recorded' = Recorded /\ r \in Recorded
  BY <1>1, <1>3 DEF Recorded
<1>10. ChainsHold' /\ GatesEarned'
  BY <1>1, <1>9 DEF WInv, ChainsHold, GatesEarned
<1>11. AllAccounted'
  <2>1. ASSUME NEW q \in Recorded \ lost
        PROVE  Accounted(run[q], landed'[q])
    <3>1. Accounted(run[q], landed[q]) /\ q \in RunIds
      BY DEF WInv, AllAccounted, Recorded
    <3>2. ASSUME NEW t \in StageIds, q = r, t = s
          PROVE  t \in run[q].outputs \cup {run[q].pending}
      BY <1>3, <3>2
    <3> QED
      BY <1>7, <3>1, <3>2 DEF Accounted
  <2> QED
    BY <1>1, <1>9, <2>1 DEF AllAccounted
<1>12. OutputsLanded'
  <2>1. ASSUME NEW q \in Recorded, NEW t \in run[q].outputs
        PROVE  landed'[q][t] > 0
    <3>1. landed[q][t] > 0 /\ q \in RunIds /\ t \in StageIds
      BY <1>4, <2>1 DEF WInv, OutputsLanded, Recorded, WorkflowTypeOK, WorkflowRun
    <3> QED
      BY <1>7, <3>1
  <2> QED
    BY <1>1, <1>9, <2>1 DEF OutputsLanded
<1>13. Fresh'
  BY <1>1, <1>7, <1>9 DEF WInv, Fresh
<1>14. InSession'
  <2>1. landed'[r][s] > 0
    BY <1>7
  <2> QED
    BY <1>1, <1>2, <1>5, <1>9, <2>1 DEF WInv, InSession, r, s
<1>15. AppliedOnce'
  <2>1. ASSUME NEW q \in RunIds \ lost, NEW t \in StageIds
        PROVE  landed'[q][t] <= 1
    <3>1. landed[q][t] <= 1
      BY DEF WInv, AppliedOnce
    <3> QED
      BY <1>6, <1>7, <3>1
  <2> QED
    BY <1>1, <2>1 DEF AppliedOnce
<1>16. WInv'
  BY <1>8, <1>10, <1>11, <1>12, <1>13, <1>14, <1>15 DEF WInv
<1> QED
  BY <1>1, <1>4, <1>16, Unwritten

\* An apply that writes nothing takes the intent back or fails the run.
LEMMA ClearStep ==
    ASSUME WInv, NEW hard \in BOOLEAN, applyOrClearIntent(hard)
    PROVE  WInv' /\ RunStep
<1> DEFINE r == session.id
           b == session.before
<1>1. /\ session.step = "apply" /\ session' = Idle
      /\ UNCHANGED <<profile, troubles, landed, vouched>>
      /\ IF hard THEN markRunFailedLocked(r, b) ELSE writeRun(r, b) /\ UNCHANGED lost
  BY DEF applyOrClearIntent
<1>2. session # Idle
  BY <1>1 DEF Idle
<1>3. /\ r \in RunIds /\ b \in WorkflowRun /\ run[r] # Nil /\ Chained(b)
      /\ ~isTerminalStatus(b.status)
      /\ b.version = run[r].version /\ b.events = run[r].events /\ b.stage = run[r].stage
      /\ b.gates = run[r].gates /\ b.outputs = run[r].outputs /\ b.digest = run[r].digest
  BY <1>2, Underway
<1>4. r \notin lost => Accounted(b, landed[r])
  BY <1>1, <1>2 DEF WInv, InSession
<1> HIDE DEF r, b
<1>5. CASE hard
  BY <1>1, <1>3, <1>4, <1>5, Fails
<1>6. CASE ~hard
  <2>1. writeRun(r, b) /\ lost' = lost
    BY <1>1, <1>6
  <2>2. WorkflowTypeOK
    BY DEF WInv
  <2>3. /\ run[r].gates \subseteq vouched[r]
        /\ \A s \in run[r].outputs : landed[r][s] > 0
        /\ r \notin lost => \A s \in StageIds : landed[r][s] <= 1
    BY <1>3, Opened
  <2>4. /\ profile' = profile /\ troubles' = troubles /\ landed' = landed /\ vouched' = vouched
        /\ profile' \in DefDigests \cup {NoDef} /\ troubles' \in 0..MaxTroubles
        /\ landed' \in [RunIds -> [StageIds -> Nat]] /\ vouched' \in [RunIds -> SUBSET Gates]
    BY <1>1, <2>2 DEF WorkflowTypeOK
  <2>5. WInv'
    BY <1>1, <1>3, <1>4, <2>1, <2>3, <2>4, Rewrite
  <2>6. b.version \in Nat
    BY <1>3 DEF WorkflowRun
  <2>7. Succeeds(r, b)
    BY <1>3, <2>6 DEF Succeeds
  <2> QED
    BY <1>3, <2>1, <2>2, <2>4, <2>5, <2>7, RewriteSteps
<1> QED
  BY <1>5, <1>6

\* An apply that throws after its write leaves a write the record does not know of.
LEMMA ThrowStep ==
    ASSUME WInv, applyThrowsAfterLanding
    PROVE  WInv' /\ RunStep
<1> DEFINE r == session.id
           s == session.stage.id
           b == session.before
<1>1. /\ session.step = "apply" /\ session' = Idle
      /\ troubles < MaxTroubles /\ troubles' = troubles + 1
      /\ landed' = [landed EXCEPT ![r][s] = @ + 1] /\ writeRun(r, b)
      /\ lost' = lost \cup {r} /\ UNCHANGED <<profile, vouched>>
  BY DEF applyThrowsAfterLanding, Trouble
<1>2. session # Idle
  BY <1>1 DEF Idle
<1>3. /\ r \in RunIds /\ b \in WorkflowRun /\ run[r] # Nil /\ Chained(b) /\ s \in StageIds
      /\ b.version = run[r].version /\ b.events = run[r].events /\ b.stage = run[r].stage
      /\ b.gates = run[r].gates /\ b.outputs = run[r].outputs /\ b.digest = run[r].digest
  BY <1>2, Underway
<1> HIDE DEF r, s, b
<1>4. WorkflowTypeOK
  BY DEF WInv
<1>5. run[r].gates \subseteq vouched[r] /\ \A t \in run[r].outputs : landed[r][t] > 0
  BY <1>3, Opened
<1>6. /\ landed' \in [RunIds -> [StageIds -> Nat]]
      /\ \A q \in RunIds \ {r} : landed'[q] = landed[q]
      /\ \A t \in StageIds : landed[r][t] > 0 => landed'[r][t] > 0
  BY <1>1, <1>3, <1>4 DEF WorkflowTypeOK
<1>7. /\ profile' = profile /\ vouched' = vouched /\ profile' \in DefDigests \cup {NoDef}
      /\ vouched' \in [RunIds -> SUBSET Gates]
  BY <1>1, <1>4 DEF WorkflowTypeOK
<1>8. troubles' \in 0..MaxTroubles
  BY <1>1, <1>4, WorkflowAssumption DEF WorkflowTypeOK
<1>9. \A t \in b.outputs : landed'[r][t] > 0
  BY <1>3, <1>5, <1>6 DEF WorkflowRun
<1>10. WInv'
  BY <1>1, <1>3, <1>5, <1>6, <1>7, <1>8, <1>9, Rewrite
<1>11. Succeeds(r, b)
  BY <1>3 DEF Succeeds, WorkflowRun
<1> QED
  BY <1>1, <1>3, <1>4, <1>7, <1>10, <1>11, RewriteSteps

\* The output is recorded in the place of its intent, its trust gate with it.
LEMMA RecordStep ==
    ASSUME WInv, recordApplied
    PROVE  WInv' /\ RunStep
<1> DEFINE r == session.id
           s == session.stage.id
           g == session.stage.gate
           b == session.before
           z == appendStamped(b)
           h == {k \in {g} : isTrustGate(k)}
           x == projectAppliedRun(b, s, g)
<1>1. /\ session.step = "record" /\ session' = Idle /\ CanAppend(b) /\ writeRun(r, x)
      /\ vouched' = [vouched EXCEPT ![r] = @ \cup {k \in {g} : isTrustGate(k) /\ session.granted}]
      /\ profile' = profile /\ troubles' = troubles /\ landed' = landed /\ lost' = lost
  BY DEF recordApplied
<1>2. session # Idle
  BY <1>1 DEF Idle
<1>3. /\ r \in RunIds /\ b \in WorkflowRun /\ run[r] # Nil /\ Chained(b) /\ s \in StageIds
      /\ ~isTerminalStatus(b.status) /\ session.stage \in Stages /\ run[r].pending = s
      /\ b.version = run[r].version /\ b.events = run[r].events /\ b.stage = run[r].stage
      /\ b.gates = run[r].gates /\ b.outputs = run[r].outputs /\ b.digest = run[r].digest
      /\ b.status = run[r].status
  BY <1>2, Underway
<1>4. isTrustGate(g) => session.granted
  BY <1>2 DEF WInv, InSession
<1>5. landed[r][s] > 0
  BY <1>1, <1>2 DEF WInv, InSession
<1>6. h \subseteq Gates
  BY <1>3 DEF isTrustGate, Stages
<1>7. vouched' = [vouched EXCEPT ![r] = @ \cup h]
  BY <1>1, <1>4
<1>8. x = [z EXCEPT !.outputs = @ \cup {s}, !.pending = Nil, !.gates = @ \cup h]
  BY DEF projectAppliedRun
<1>9. /\ z \in WorkflowRun /\ Chained(z)
      /\ z = [b EXCEPT !.version = b.version + 1, !.events = z.events]
  BY <1>1, <1>3, Stamped
<1> HIDE DEF r, s, g, b, z, h, x
<1>10. /\ z.version = b.version + 1 /\ z.outputs = b.outputs /\ z.gates = b.gates
       /\ z.stage = b.stage /\ z.digest = b.digest /\ z.status = b.status /\ b.version \in Nat
  BY <1>3, <1>9 DEF WorkflowRun
<1>11. /\ x \in WorkflowRun
       /\ x.version = z.version /\ x.events = z.events /\ x.outputs = z.outputs \cup {s}
       /\ x.gates = z.gates \cup h /\ x.stage = z.stage /\ x.digest = z.digest
       /\ x.status = z.status
  BY <1>3, <1>6, <1>8, <1>9 DEF WorkflowRun
<1>12. Chained(x)
  BY <1>9, <1>11 DEF Chained
<1>13. WorkflowTypeOK
  BY DEF WInv
<1>14. /\ run[r].gates \subseteq vouched[r] /\ \A t \in run[r].outputs : landed[r][t] > 0
       /\ r \notin lost => /\ Accounted(run[r], landed[r])
                           /\ \A t \in StageIds : landed[r][t] <= 1
  BY <1>3, Opened
<1>15. /\ profile' \in DefDigests \cup {NoDef} /\ troubles' \in 0..MaxTroubles
       /\ landed' \in [RunIds -> [StageIds -> Nat]] /\ vouched' \in [RunIds -> SUBSET Gates]
       /\ vouched'[r] = vouched[r] \cup h
       /\ \A q \in RunIds \ {r} : vouched'[q] = vouched[q]
  BY <1>1, <1>3, <1>6, <1>7, <1>13 DEF WorkflowTypeOK
<1>16. x.gates \subseteq vouched'[r] /\ \A t \in x.outputs : landed'[r][t] > 0
  BY <1>1, <1>3, <1>5, <1>10, <1>11, <1>14, <1>15
<1>17. r \notin lost' => Accounted(x, landed'[r]) /\ \A t \in StageIds : landed'[r][t] <= 1
  BY <1>1, <1>3, <1>10, <1>11, <1>14 DEF Accounted, isTerminalStatus
<1>18. WInv'
  BY <1>1, <1>3, <1>11, <1>12, <1>15, <1>16, <1>17, Rewrite
<1>19. Succeeds(r, x)
  BY <1>3, <1>10, <1>11 DEF Succeeds
<1> QED
  BY <1>1, <1>3, <1>11, <1>13, <1>18, <1>19, RewriteSteps

\* The session dies; the record keeps the intent.
LEMMA DieStep ==
    ASSUME WInv, Die
    PROVE  WInv' /\ RunStep
<1>1. /\ session' = Idle /\ troubles < MaxTroubles /\ troubles' = troubles + 1
      /\ profile' = profile /\ run' = run /\ key' = key /\ UNCHANGED runHistory
  BY DEF Die, Trouble
<1>2. WorkflowTypeOK
  BY DEF WInv
<1>3. WorkflowTypeOK'
  BY <1>1, <1>2, WorkflowAssumption DEF WorkflowTypeOK, runHistory
<1>4. InSession'
  BY <1>1 DEF InSession
<1> QED
  BY <1>1, <1>3, <1>4, Quiet

\* The owner edits the profile, or the key is lost, under whatever goes on.
LEMMA OutsideStep ==
    ASSUME WInv, EditProfile \/ LoseKey
    PROVE  WInv' /\ RunStep
<1>1. /\ session' = session /\ troubles < MaxTroubles /\ troubles' = troubles + 1
      /\ run' = run /\ UNCHANGED runHistory
  BY DEF EditProfile, LoseKey, Trouble
<1>2. WorkflowTypeOK
  BY DEF WInv
<1>3. profile' \in DefDigests \cup {NoDef} /\ key' \in [disk : Nat, minted : Nat]
      /\ key'.disk <= key'.minted
  BY <1>2 DEF EditProfile, LoseKey, WorkflowTypeOK
<1>4. WorkflowTypeOK'
  BY <1>1, <1>2, <1>3, WorkflowAssumption DEF WorkflowTypeOK, runHistory
<1>5. InSession'
  BY <1>1 DEF WInv, InSession, Recorded, runHistory
<1> QED
  BY <1>1, <1>4, <1>5, Quiet

-----------------------------------------------------------------------------
(* Adapting.                                                               *)

\* Outputs, intents and what has landed move to the mapped stages together (adapt.ts).
LEMMA AdaptStep ==
    ASSUME WInv, NEW a \in Owners, NEW r \in RunIds, NEW confirm \in BOOLEAN,
           adaptApply(a, r, confirm)
    PROVE  WInv' /\ RunStep
<1> DEFINE b == run[r]
           d == profile
           z == appendStamped(b)
           To(s) == mapStageId(s, d)
           s1 == IF b.stage = Nil THEN Nil ELSE To(b.stage)
           st1 == IF b.stage # Nil /\ s1 = Nil THEN "cancelled" ELSE z.status
           log1 == {<<To(e[1]), e[2]>> : e \in {f \in z.log : To(f[1]) # Nil}}
           out1 == {To(t) : t \in z.outputs} \ {Nil}
           pend1 == remapPending(z.pending, d)
           x == remapRun(b, d)
           From(s) == {t \in StageIds : To(t) = s /\ landed[r][t] > 0}
           count == [s \in StageIds |->
                        IF From(s) = {} THEN 0 ELSE landed[r][CHOOSE t \in From(s) : TRUE]]
<1>1. /\ withRunLock(a, r) /\ ~isTerminalStatus(b.status)
      /\ d # NoDef /\ d # b.digest /\ CanAppend(b) /\ writeRun(r, x)
      /\ landed' = [landed EXCEPT ![r] = count]
      /\ UNCHANGED <<profile, session, troubles, vouched, lost>>
  BY DEF adaptApply
<1>2. session = Idle /\ b # Nil
  BY <1>1, Locked
<1>3. /\ b \in WorkflowRun /\ Chained(b) /\ b.gates \subseteq vouched[r]
      /\ \A t \in b.outputs : landed[r][t] > 0
      /\ r \notin lost => /\ Accounted(b, landed[r])
                          /\ \A t \in StageIds : landed[r][t] <= 1
      /\ landed[r] \in [StageIds -> Nat]
  BY <1>2, Opened
<1>4. WorkflowTypeOK
  BY DEF WInv
<1>5. d \in DefDigests
  BY <1>1, <1>4 DEF WorkflowTypeOK
<1>6. /\ \A s : To(s) \in IdsOf(d) \cup {Nil}
      /\ IdsOf(d) \subseteq StageIds
  BY <1>5, Mapped
<1>7. /\ z \in WorkflowRun /\ Chained(z)
      /\ z = [b EXCEPT !.version = b.version + 1, !.events = z.events]
  BY <1>1, <1>3, Stamped
<1>8. x = [z EXCEPT !.status = st1, !.stage = s1, !.log = log1, !.outputs = out1,
                    !.pending = pend1, !.known = IdsOf(d), !.digest = d]
  BY DEF remapRun
<1>9. /\ z.version = b.version + 1 /\ z.outputs = b.outputs /\ z.gates = b.gates
      /\ z.stage = b.stage /\ z.pending = b.pending /\ z.status = b.status
      /\ b.version \in Nat /\ z.outputs \subseteq StageIds
      /\ z.log \subseteq StageIds \X StageStatus /\ z.status \in RunStatus
      /\ z.pending \in StageIds \cup {Nil}
  BY <1>3, <1>7 DEF WorkflowRun
<1>10. s1 \in IdsOf(d) \cup {Nil} /\ out1 \subseteq StageIds /\ pend1 \in StageIds \cup {Nil}
  BY <1>6 DEF remapPending
<1>11. st1 \in RunStatus
  BY <1>9 DEF RunStatus
<1>12. log1 \subseteq StageIds \X StageStatus
  BY <1>6, <1>9
<1> HIDE DEF z, s1, st1, log1, out1, pend1, x, count
<1>13. x \in WorkflowRun
  BY <1>5, <1>6, <1>7, <1>8, <1>10, <1>11, <1>12 DEF WorkflowRun
<1>14. /\ x.version = z.version /\ x.events = z.events /\ x.gates = z.gates
       /\ x.stage = s1 /\ x.status = st1 /\ x.outputs = out1 /\ x.pending = pend1
       /\ x.known = IdsOf(d) /\ x.digest = d
  BY <1>7, <1>8 DEF WorkflowRun
<1>15. Chained(x)
  BY <1>7, <1>14 DEF Chained
<1>16. Succeeds(r, x)
  <2>1. stagesPreserved(x, d)
    BY <1>10, <1>14 DEF stagesPreserved
  <2> QED
    BY <1>1, <1>9, <1>14, <2>1 DEF Succeeds
<1>17. \A s \in StageIds :
          /\ count[s] \in Nat
          /\ count[s] > 0 <=> From(s) # {}
          /\ (\A t \in StageIds : landed[r][t] <= 1) => count[s] <= 1
  <2>1. ASSUME NEW s \in StageIds, From(s) = {}
        PROVE  count[s] = 0
    BY <2>1 DEF count
  <2>2. ASSUME NEW s \in StageIds, From(s) # {}
        PROVE  \E t \in From(s) : count[s] = landed[r][t]
    <3>1. (CHOOSE t \in From(s) : TRUE) \in From(s)
      BY <2>2
    <3>2. count[s] = landed[r][CHOOSE t \in From(s) : TRUE]
      BY <2>2 DEF count
    <3> QED
      BY <3>1, <3>2
  <2> QED
    BY <1>3, <2>1, <2>2
<1>18. /\ landed' \in [RunIds -> [StageIds -> Nat]] /\ landed'[r] = count
       /\ \A q \in RunIds \ {r} : landed'[q] = landed[q]
  <2>1. count \in [StageIds -> Nat]
    BY <1>17 DEF count
  <2> QED
    BY <1>1, <1>4, <2>1 DEF WorkflowTypeOK
<1>19. /\ profile' \in DefDigests \cup {NoDef} /\ troubles' \in 0..MaxTroubles
       /\ session' = Idle /\ lost' = lost /\ vouched' = vouched /\ profile' = profile
       /\ vouched' \in [RunIds -> SUBSET Gates]
  BY <1>1, <1>2, <1>4 DEF WorkflowTypeOK
<1>20. \A o \in x.outputs : landed'[r][o] > 0
  <2>1. ASSUME NEW o \in out1
        PROVE  count[o] > 0
    <3>1. PICK t \in z.outputs : o = To(t) /\ o # Nil
      BY DEF out1
    <3>2. t \in From(o)
      BY <1>3, <1>9, <3>1
    <3> QED
      BY <1>10, <1>17, <3>2
  <2> QED
    BY <1>14, <1>18, <2>1
<1>21. ASSUME r \notin lost'
       PROVE  Accounted(x, landed'[r]) /\ \A t \in StageIds : landed'[r][t] <= 1
  <2>1. Accounted(b, landed[r]) /\ \A t \in StageIds : landed[r][t] <= 1
    BY <1>3, <1>19, <1>21
  <2>2. ASSUME x.stage # Nil, NEW s \in StageIds, count[s] > 0
        PROVE  s \in x.outputs \cup {x.pending}
    <3>1. PICK t \in StageIds : To(t) = s /\ landed[r][t] > 0
      BY <1>17, <2>2
    <3>2. b.stage # Nil
      BY <1>14, <2>2 DEF s1
    <3>3. t \in b.outputs \cup {b.pending}
      BY <1>1, <2>1, <3>1, <3>2 DEF Accounted, isTerminalStatus
    <3>4. s # Nil /\ t # Nil
      BY WorkflowAssumption
    <3>5. CASE t \in b.outputs
      BY <1>9, <1>14, <3>1, <3>4, <3>5 DEF out1
    <3>6. CASE t = b.pending
      BY <1>9, <1>14, <3>1, <3>4, <3>6 DEF pend1, remapPending
    <3> QED
      BY <3>3, <3>5, <3>6
  <2>3. Accounted(x, count)
    BY <2>2 DEF Accounted
  <2> QED
    BY <1>17, <1>18, <2>1, <2>3
<1>22. x.gates \subseteq vouched'[r]
  BY <1>3, <1>9, <1>14, <1>19
<1>23. WInv'
  BY <1>1, <1>13, <1>15, <1>18, <1>19, <1>20, <1>21, <1>22, Rewrite
<1> QED
  BY <1>1, <1>4, <1>13, <1>16, <1>19, <1>23, RewriteSteps

-----------------------------------------------------------------------------
(* The theorems.                                                           *)

LEMMA WorkflowStart ==
    ASSUME WorkflowInit
    PROVE  WInv
<1>1. /\ profile \in DefDigests /\ run = [r \in RunIds |-> Nil]
      /\ key = [disk |-> 0, minted |-> 0] /\ session = Idle /\ troubles = 0
      /\ landed = [r \in RunIds |-> [s \in StageIds |-> 0]]
      /\ vouched = [r \in RunIds |-> {}] /\ lost = {}
  BY DEF WorkflowInit
<1>2. WorkflowTypeOK
  BY <1>1, WorkflowAssumption DEF WorkflowTypeOK
<1>3. Recorded = {}
  BY <1>1 DEF Recorded
<1>4. ChainsHold /\ GatesEarned /\ AllAccounted /\ OutputsLanded
  BY <1>3 DEF ChainsHold, GatesEarned, AllAccounted, OutputsLanded
<1>5. Fresh /\ InSession /\ AppliedOnce
  BY <1>1 DEF Fresh, InSession, AppliedOnce
<1> QED
  BY <1>2, <1>4, <1>5 DEF WInv

LEMMA WorkflowStep ==
    ASSUME WInv, [WorkflowNext]_workflowVars
    PROVE  WInv' /\ (RunStep \/ UNCHANGED workflowVars)
<1>1. ASSUME NEW a \in Owners, NEW r \in RunIds, Command(a, r)
      PROVE  WInv' /\ RunStep
  <2>1. CASE \E n \in InputSizes : startWorkflow(a, r, n)
    BY <2>1, StartStep
  <2>2. CASE completeAndStep(a, r)
    BY <2>2, CompleteStep
  <2>3. CASE parkAwaitingGate(a, r)
    BY <2>3, ParkStep
  <2>4. CASE \E kind \in {"human", "agent"} : approveGate(a, r, kind)
    BY <2>4, ApproveStep
  <2>5. CASE cancelWorkflow(a, r)
    BY <2>5, CancelStep
  <2>6. CASE failWorkflow(a, r) \/ dispatchOrAutoFail(a, r)
    BY <2>6, FailStep
  <2>7. CASE resumeWorkflow(a, r)
    BY <2>7, ResumeStep
  <2>8. CASE recordStaged(a, r)
    BY <2>8, StagedStep
  <2>9. CASE \E granted \in BOOLEAN : persistOutputIntent(a, r, granted)
    BY <2>9, PersistStep
  <2>10. CASE \E confirm \in BOOLEAN : adaptApply(a, r, confirm)
    BY <2>10, AdaptStep
  <2> QED
    BY <1>1, <2>1, <2>2, <2>3, <2>4, <2>5, <2>6, <2>7, <2>8, <2>9, <2>10 DEF Command
<1>2. CASE UNCHANGED workflowVars
  <2>1. /\ run' = run /\ landed' = landed /\ vouched' = vouched /\ lost' = lost
        /\ profile' = profile /\ key' = key /\ session' = session /\ troubles' = troubles
    BY <1>2 DEF workflowVars
  <2>2. WorkflowTypeOK' /\ InSession'
    BY <2>1 DEF WInv, WorkflowTypeOK, InSession, Recorded
  <2> QED
    BY <1>2, <2>1, <2>2, Quiet DEF runHistory
<1>3. CASE applyLands
  BY <1>3, LandStep
<1>4. CASE \E hard \in BOOLEAN : applyOrClearIntent(hard)
  BY <1>4, ClearStep
<1>5. CASE applyThrowsAfterLanding
  BY <1>5, ThrowStep
<1>6. CASE recordApplied
  BY <1>6, RecordStep
<1>7. CASE Die
  BY <1>7, DieStep
<1>8. CASE EditProfile \/ LoseKey
  BY <1>8, OutsideStep
<1> QED
  BY <1>1, <1>2, <1>3, <1>4, <1>5, <1>6, <1>7, <1>8 DEF WorkflowNext

LEMMA WorkflowInvariant == WorkflowSpec => []WInv
<1>1. WInv /\ [WorkflowNext]_workflowVars => WInv'
  BY WorkflowStep
<1> QED
  BY WorkflowStart, <1>1, PTL DEF WorkflowSpec

\* The owner of an active run that reads back can cancel it, at both caps: the record
\* his cancel writes always fits (store.ts fitTerminalRun).
LEMMA Endable ==
    ASSUME WInv
    PROVE  AlwaysEndable
<1>1. ASSUME NEW r \in Recorded, session = Idle, readRun(r) = "ok"
      PROVE  \E a \in Owners : /\ withRunLock(a, r)
                               /\ Fits(fitTerminalRun(cancelledRun(run[r])))
  <2> DEFINE z == appendTerminalEvent(run[r])
             c == cancelledRun(run[r])
  <2>1. run[r] \in WorkflowRun /\ Chained(run[r])
    BY Opened DEF Recorded
  <2>2. /\ z \in WorkflowRun /\ Chained(z)
    BY <2>1, TerminalStamped
  <2>3. c = [z EXCEPT !.status = "cancelled", !.stage = Nil]
    BY DEF cancelledRun
  <2> HIDE DEF z, c
  <2>4. c \in WorkflowRun /\ c.events = z.events /\ c.version = z.version
    BY <2>2, <2>3 DEF WorkflowRun, RunStatus
  <2>5. Chained(c)
    BY <2>2, <2>4 DEF Chained
  <2>6. Fits(fitTerminalRun(c))
    BY <2>4, <2>5, TerminalFits
  <2>7. run[r].owner \in Owners \cup {Nil}
    BY <2>1 DEF WorkflowRun
  <2>8. \E a \in Owners : withRunLock(a, r)
    BY <1>1, <2>7, WorkflowAssumption DEF withRunLock
  <2> QED
    BY <2>6, <2>8 DEF c
<1> QED
  BY <1>1 DEF AlwaysEndable

\* Whatever commands, crashes, lost keys and profile edits a run goes through, its record
\* stays readable, its gates are earned in the present attempt, and it can be cancelled
\* (store.ts, events.ts, gate.ts, resume.ts, cancel.ts).
THEOREM RunsAreSound == WorkflowSpec => []RunSound
<1>1. WInv => RunSound
  <2> SUFFICES ASSUME WInv
               PROVE  RunSound
    OBVIOUS
  <2>1. WorkflowTypeOK /\ GatesEarned
    BY DEF WInv
  <2>2. StaysReadable
    <3>1. ASSUME NEW r \in Recorded
          PROVE  WellFormed(run[r]) /\ Len(run[r].events) <= MaxRunEvents
      <4>1. run[r] \in WorkflowRun /\ Chained(run[r]) /\ Fits(run[r])
        BY Opened DEF Recorded
      <4> QED
        BY <4>1, ChainAccepted DEF WellFormed, Chained
    <3> QED
      BY <3>1 DEF StaysReadable
  <2> QED
    BY <2>1, <2>2, Endable DEF RunSound
<1> QED
  BY <1>1, WorkflowInvariant, PTL

\* However often a submission dies and is repeated, an attempt of a stage writes once,
\* the record knows of the write, and it has room for the output, unless the run is one
\* that lost track of a write (stage-output.ts, stage-output-internals.ts, adapt.ts).
THEOREM OutputsAreAccountedFor == WorkflowSpec => []OutputsAccounted
<1>1. WInv => OutputsAccounted
  <2> SUFFICES ASSUME WInv
               PROVE  OutputsAccounted
    OBVIOUS
  <2>1. AppliedOnce
    BY DEF WInv
  <2>2. LandedAccounted
    <3>1. ASSUME NEW r \in Recorded \ lost, ~isTerminalStatus(run[r].status),
                 run[r].stage # Nil, landed[r][run[r].stage] > 0
          PROVE  run[r].stage \in run[r].outputs \cup {run[r].pending}
      <4>1. r \in RunIds /\ run[r] # Nil
        BY DEF Recorded
      <4>2. run[r] \in WorkflowRun /\ Accounted(run[r], landed[r])
        BY <4>1, Opened
      <4>3. run[r].stage \in StageIds /\ run[r].status # "failed"
        BY <3>1, <4>2 DEF WorkflowRun, isTerminalStatus
      <4> QED
        BY <3>1, <4>2, <4>3 DEF Accounted
    <3> QED
      BY <3>1 DEF LandedAccounted
  <2>3. RoomToRecord
    <3>1. session.step = "record" => session # Idle
      BY DEF Idle
    <3> QED
      BY <3>1 DEF WInv, InSession, RoomToRecord
  <2> QED
    BY <2>1, <2>2, <2>3 DEF OutputsAccounted
<1> QED
  BY <1>1, WorkflowInvariant, PTL

\* No command replaces a record by an older one, leaves a stage whose gate was not earned
\* or whose output has not landed in this attempt, or adapts a run to anything but the
\* profile in force (advance.ts, start.ts, resume.ts, adapt.ts).
THEOREM RunsOnlyMoveOn == WorkflowSpec => RunSteps
<1>1. WInv /\ [WorkflowNext]_workflowVars
      => [VersionsNeverRewind /\ GenuineCompletion /\ AdaptedIsCurrent]_workflowVars
  BY WorkflowStep DEF RunStep
<1> QED
  BY <1>1, WorkflowInvariant, PTL DEF WorkflowSpec, RunSteps
=============================================================================
