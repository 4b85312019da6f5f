------------------------- MODULE TraceBuilder_twins -------------------------
(***************************************************************************)
(* Proofs about the two threads that stand for a parallel region, for      *)
(* every set of programs: out of the master regions they read, write, lock *)
(* and wait alike (TwinsAgree), although each is built in a state of the   *)
(* runtime model that the other, and all threads before, have left behind. *)
(*                                                                         *)
(* What a thread emits is shown to be what a machine without any shared    *)
(* state emits, which knows the summaries, the entry of the thread and     *)
(* whether it is in a teams region, and passes over master regions.  It is *)
(* deterministic, and twins start it alike.                                *)
(***************************************************************************)
EXTENDS TraceBuilder_runtime

(***************************************************************************)
(* The rank of a number in a set of numbers.                               *)
(***************************************************************************)
UpTo(S, i) == {j \in S : j <= i}

\* The ranks grow by one, at the numbers of the set.
LEMMA RankStep ==
  ASSUME NEW n \in Nat, NEW S \in SUBSET (1..n), NEW m \in Nat
  PROVE  /\ IsFiniteSet(S) /\ IsFiniteSet(UpTo(S, m))
         /\ Cardinality(S) \in Nat /\ Cardinality(UpTo(S, m)) \in Nat
         /\ Cardinality(UpTo(S, m)) <= Cardinality(S)
         /\ Cardinality(UpTo(S, m + 1)) =
              IF m + 1 \in S THEN Cardinality(UpTo(S, m)) + 1 ELSE Cardinality(UpTo(S, m))
<1>1. IsFiniteSet(1..n)
  BY FS_Interval
<1>2. IsFiniteSet(S)
  BY <1>1, FS_Subset
<1>3. UpTo(S, m) \subseteq S
  BY DEF UpTo
<1>4. IsFiniteSet(UpTo(S, m)) /\ Cardinality(UpTo(S, m)) <= Cardinality(S)
  BY <1>2, <1>3, FS_Subset
<1>5. Cardinality(S) \in Nat /\ Cardinality(UpTo(S, m)) \in Nat
  BY <1>2, <1>4, FS_CardinalityType
<1>6. CASE m + 1 \in S
  <2>1. \A j \in S : j <= m + 1 <=> j <= m \/ j = m + 1
    OBVIOUS
  <2>2. \A j : j \in UpTo(S, m + 1) <=> j \in UpTo(S, m) \/ j = m + 1
    BY <1>6, <2>1 DEF UpTo
  <2>3. UpTo(S, m + 1) = UpTo(S, m) \cup {m + 1}
    BY <2>2
  <2>4. m + 1 \notin UpTo(S, m)
    BY DEF UpTo
  <2>5. QED
    BY <1>2, <1>4, <1>5, <1>6, <2>3, <2>4, FS_AddElement
<1>7. CASE m + 1 \notin S
  <2>1. \A j \in S : j <= m + 1 <=> j <= m
    BY <1>7
  <2>2. UpTo(S, m + 1) = UpTo(S, m)
    BY <2>1 DEF UpTo
  <2>3. QED
    BY <1>2, <1>4, <1>5, <1>7, <2>2
<1>8. QED
  BY <1>6, <1>7

\* Every rank is that of one number.
LEMMA RankIs ==
  ASSUME NEW n \in Nat, NEW S \in SUBSET (1..n)
  PROVE  /\ \A i \in S : Cardinality(UpTo(S, i)) \in 1..Cardinality(S)
         /\ \A k \in 1..Cardinality(S) : \E i \in S : Cardinality(UpTo(S, i)) = k
         /\ \A i, j \in S : Cardinality(UpTo(S, i)) = Cardinality(UpTo(S, j)) => i = j
<1> DEFINE Rank(i) == Cardinality(UpTo(S, i))
<1>1. \A m \in Nat : /\ Rank(m) \in Nat /\ Rank(m) <= Cardinality(S)
                     /\ Rank(m + 1) = IF m + 1 \in S THEN Rank(m) + 1 ELSE Rank(m)
  BY RankStep
<1>2. IsFiniteSet(S) /\ Cardinality(S) \in Nat
  BY RankStep
<1>3. Rank(0) = 0
  <2>1. \A j \in S : ~(j <= 0)
    OBVIOUS
  <2>2. UpTo(S, 0) = {}
    BY <2>1 DEF UpTo
  <2>3. QED
    BY <2>2, FS_EmptySet
<1>4. Rank(n) = Cardinality(S)
  <2>1. \A j \in S : j <= n
    OBVIOUS
  <2>2. UpTo(S, n) = S
    BY <2>1 DEF UpTo
  <2>3. QED
    BY <2>2
<1>5. ASSUME NEW i \in S, NEW j \in S, i < j PROVE Rank(i) < Rank(j)
  <2>1. /\ \A k \in UpTo(S, i) : k \in UpTo(S, j)
        /\ j \in UpTo(S, j) /\ j \notin UpTo(S, i)
    BY <1>5 DEF UpTo
  <2>2. i \in Nat /\ j \in Nat
    OBVIOUS
  <2>3. IsFiniteSet(UpTo(S, j)) /\ Rank(i) \in Nat /\ Rank(j) \in Nat
    BY <2>2, RankStep
  <2>4. UpTo(S, i) \subseteq UpTo(S, j) /\ UpTo(S, i) # UpTo(S, j)
    BY <2>1
  <2>6. Rank(i) <= Rank(j) /\ Rank(i) # Rank(j)
    BY <2>3, <2>4, FS_Subset
  <2>5. QED
    BY <2>3, <2>6
<1> HIDE DEF Rank
<1>6. ASSUME NEW i \in S PROVE Rank(i) \in 1..Cardinality(S)
  <2>1. i - 1 \in Nat /\ (i - 1) + 1 = i
    OBVIOUS
  <2>2. Rank(i) = Rank(i - 1) + 1 /\ Rank(i - 1) \in Nat
    BY <1>1, <2>1
  <2>3. Rank(i) <= Cardinality(S)
    BY <1>1
  <2>4. QED
    BY <1>2, <2>2, <2>3
<1>7. ASSUME NEW k \in 1..Cardinality(S) PROVE \E i \in S : Rank(i) = k
  <2> DEFINE T == {m \in Nat : k <= Rank(m)}
  <2>1. n \in T
    BY <1>2, <1>4
  <2>2. PICK x \in T : \A y \in T : x <= y
    BY <2>1, LeastOf
  <2>3. x # 0
    BY <1>3, <2>2
  <2>4. x - 1 \in Nat /\ x - 1 \notin T /\ (x - 1) + 1 = x
    BY <2>2, <2>3
  <2>5. Rank(x - 1) < k /\ k <= Rank(x)
    BY <1>1, <1>2, <2>4
  <2>6. x \in S /\ Rank(x) = k
    BY <1>1, <1>2, <2>4, <2>5
  <2>7. QED
    BY <2>6
<1>8. ASSUME NEW i \in S, NEW j \in S, Rank(i) = Rank(j) PROVE i = j
  <2>1. ~(i < j) /\ ~(j < i)
    BY <1>1, <1>5, <1>8
  <2>2. QED
    BY <2>1
<1>9. QED
  BY <1>6, <1>7, <1>8 DEF Rank

(***************************************************************************)
(* The code of a run of events: what is in no master region, in order.     *)
(***************************************************************************)
CodeTypes == {"Read", "Write", "Lock", "Unlock", "Barrier"}

CodeAt(events) ==
  {i \in DOMAIN events : events[i].type \in CodeTypes /\ ~InMaster(events, i)}

CodeOf(events) ==
  [k \in 1..Cardinality(CodeAt(events)) |->
     events[CHOOSE i \in CodeAt(events) :
              Cardinality({j \in CodeAt(events) : j <= i}) = k].ir]

\* A master region is open after the events.
OpenIn(events) ==
  \E j \in DOMAIN events :
    /\ events[j].ir.type = "OpenMPMasterStart"
    /\ \A k \in (j + 1)..Len(events) : events[k].ir.type # "OpenMPMasterEnd"

Symbols == IRs \cup TaskJoinIRs

LEMMA TeamCodeIs ==
  ASSUME NEW t
  PROVE  TeamCode(t) = CodeOf(threads[t].events)
  BY DEF TeamCode, CodeOf, CodeAt, CodeTypes

\* The code at the rank of an event is that of the event.
LEMMA CodeByRank ==
  ASSUME NEW e \in Seq(EventRecords)
  PROVE  /\ CodeAt(e) \subseteq 1..Len(e) /\ Cardinality(CodeAt(e)) \in Nat
         /\ CodeOf(e) \in Seq(Symbols) /\ Len(CodeOf(e)) = Cardinality(CodeAt(e))
         /\ \A k \in 1..Len(CodeOf(e)) : \E i \in CodeAt(e) : Cardinality(UpTo(CodeAt(e), i)) = k
         /\ \A i \in CodeAt(e) :
              /\ Cardinality(UpTo(CodeAt(e), i)) \in 1..Len(CodeOf(e))
              /\ CodeOf(e)[Cardinality(UpTo(CodeAt(e), i))] = e[i].ir
<1> DEFINE S == CodeAt(e)
           Chosen(k) == CHOOSE i \in S : Cardinality(UpTo(S, i)) = k
<1>1. S \in SUBSET (1..Len(e)) /\ Len(e) \in Nat
  BY DEF CodeAt
<1>2. /\ \A i \in S : Cardinality(UpTo(S, i)) \in 1..Cardinality(S)
      /\ \A k \in 1..Cardinality(S) : \E i \in S : Cardinality(UpTo(S, i)) = k
      /\ \A i, j \in S : Cardinality(UpTo(S, i)) = Cardinality(UpTo(S, j)) => i = j
  BY <1>1, RankIs
<1>3. Cardinality(S) \in Nat
  BY <1>1, RankStep, 0 \in Nat
<1>4. CodeOf(e) = [k \in 1..Cardinality(S) |-> e[Chosen(k)].ir]
  BY DEF CodeOf, UpTo
<1> HIDE DEF S
<1>5. \A k \in 1..Cardinality(S) : Chosen(k) \in S /\ Cardinality(UpTo(S, Chosen(k))) = k
  BY <1>2
<1> HIDE DEF Chosen
<1>6. ASSUME NEW i \in S PROVE e[i].ir \in Symbols
  <2>1. e[i] \in EventRecords
    BY <1>1
  <2>2. QED
    BY <2>1 DEF EventRecords, Symbols
<1>7. CodeOf(e) \in Seq(Symbols) /\ Len(CodeOf(e)) = Cardinality(S)
  BY <1>3, <1>4, <1>5, <1>6
<1>8. \A i \in S : CodeOf(e)[Cardinality(UpTo(S, i))] = e[i].ir
  BY <1>2, <1>4, <1>5
<1>9. QED
  BY <1>1, <1>2, <1>3, <1>7, <1>8 DEF S

LEMMA SameCode ==
  ASSUME NEW e \in Seq(EventRecords), NEW f \in Seq(EventRecords),
         CodeAt(f) = CodeAt(e), \A i \in CodeAt(e) : f[i] = e[i]
  PROVE  CodeOf(f) = CodeOf(e)
<1>1. \A k \in 1..Len(CodeOf(e)) : CodeOf(f)[k] = CodeOf(e)[k]
  BY CodeByRank
<1>2. PICK c, d : c = CodeOf(e) /\ d = CodeOf(f)
  OBVIOUS
<1>3. c \in Seq(Symbols) /\ d \in Seq(Symbols) /\ Len(c) = Len(d)
  BY <1>2, CodeByRank
<1>4. \A k \in 1..Len(c) : c[k] = d[k]
  BY <1>1, <1>2
<1>5. c = d
  BY <1>3, <1>4
<1>6. QED
  BY <1>2, <1>5

LEMMA OneMore ==
  ASSUME NEW e \in Seq(EventRecords), NEW f \in Seq(EventRecords), Len(e) < Len(f),
         CodeAt(f) = CodeAt(e) \cup {Len(f)}, \A i \in CodeAt(e) : f[i] = e[i]
  PROVE  CodeOf(f) = Append(CodeOf(e), f[Len(f)].ir)
<1> DEFINE S == CodeAt(e)
           T == CodeAt(f)
           m == Len(f)
<1>1. S \subseteq 1..Len(e) /\ T \subseteq 1..m /\ m \in Nat /\ Len(e) \in Nat /\ m \in T
  BY CodeByRank
<1>2. \A i \in S : i < m /\ m \notin UpTo(S, i) /\ ~(m <= i)
  BY <1>1 DEF UpTo
<1>3. \A i \in S : UpTo(T, i) = UpTo(S, i)
  BY <1>2 DEF UpTo
<1>4. UpTo(T, m) = T
  BY <1>1 DEF UpTo
<1>5. IsFiniteSet(S) /\ m \notin S
  <2>1. \A i \in S : i # m
    BY <1>1, <1>2
  <2>2. IsFiniteSet(1..Len(e))
    BY <1>1, FS_Interval
  <2>3. IsFiniteSet(S)
    BY <1>1, <2>2, FS_Subset
  <2>4. QED
    BY <2>1, <2>3
<1>6. Cardinality(T) = Cardinality(S) + 1 /\ Cardinality(S) \in Nat
  BY <1>5, FS_AddElement, FS_CardinalityType
<1> HIDE DEF S, T, m
<1>7. /\ Len(CodeOf(f)) = Len(CodeOf(e)) + 1 /\ Len(CodeOf(e)) \in Nat
      /\ Len(CodeOf(e)) = Cardinality(S)
      /\ CodeOf(f) \in Seq(Symbols) /\ CodeOf(e) \in Seq(Symbols)
  BY <1>6, CodeByRank DEF S, T
<1>8. CodeOf(f)[Len(CodeOf(e)) + 1] = f[m].ir
  <2>1. m \in T /\ Cardinality(UpTo(T, m)) = Len(CodeOf(e)) + 1
    BY <1>1, <1>4, <1>6, <1>7
  <2>2. \A i \in T : CodeOf(f)[Cardinality(UpTo(T, i))] = f[i].ir
    BY CodeByRank DEF T
  <2>3. QED
    BY <2>1, <2>2
<1>9. ASSUME NEW k \in 1..Len(CodeOf(e)) PROVE CodeOf(f)[k] = CodeOf(e)[k]
  <2>1. PICK i \in S : Cardinality(UpTo(S, i)) = k
    BY CodeByRank DEF S
  <2>2. i \in T /\ Cardinality(UpTo(T, i)) = k
    BY <1>3, <2>1 DEF S, T
  <2>3. CodeOf(e)[k] = e[i].ir
    BY <2>1, CodeByRank DEF S
  <2>4. CodeOf(f)[k] = f[i].ir
    BY <2>2, CodeByRank DEF T
  <2>5. QED
    BY <2>3, <2>4 DEF S
<1>10. f[m].ir \in Symbols
  BY <1>1, <1>7, <1>8
<1>11. QED
  BY <1>7, <1>8, <1>9, <1>10 DEF m

(***************************************************************************)
(* What events that are appended do to the code: only what is on top of a  *)
(* task join or two is code, and none where a master region is open.       *)
(***************************************************************************)
Extended(e, g, f) ==
  /\ f \in Seq(EventRecords) /\ Len(f) = Len(e) + Len(g)
  /\ Len(e) \in Nat /\ Len(g) \in Nat /\ DOMAIN f = 1..Len(f) /\ DOMAIN e = 1..Len(e)
  /\ \A i \in 1..Len(e) : f[i] = e[i] /\ (InMaster(f, i) <=> InMaster(e, i))
  /\ \A i \in 1..Len(f) : i \in 1..Len(e) \/ \E k \in 1..Len(g) :
       i = Len(e) + k /\ f[i] = g[k]
  /\ \A k \in 1..Len(g) : Len(e) + k \in 1..Len(f) /\ f[Len(e) + k] = g[k]

LEMMA Appended ==
  ASSUME NEW e \in Seq(EventRecords), NEW g \in Seq(EventRecords)
  PROVE  Extended(e, g, e \o g)
<1> DEFINE f == e \o g
<1>1. /\ f \in Seq(EventRecords) /\ Len(f) = Len(e) + Len(g)
      /\ Len(e) \in Nat /\ Len(g) \in Nat
      /\ \A i \in 1..Len(e) : f[i] = e[i]
      /\ \A k \in 1..Len(g) : f[Len(e) + k] = g[k]
  BY ConcatPositions
<1>2. ASSUME NEW i \in 1..Len(e) PROVE InMaster(f, i) <=> InMaster(e, i)
  <2>1. \A j \in 1..i : f[j] = e[j]
    BY <1>1
  <2>2. \A j \in 1..(i - 1) : j \in 1..i /\ \A k \in (j + 1)..i : k \in 1..i
    OBVIOUS
  <2>3. QED
    BY <2>1, <2>2 DEF InMaster
<1>3. ASSUME NEW i \in 1..Len(f), i \notin 1..Len(e)
      PROVE  \E k \in 1..Len(g) : i = Len(e) + k /\ f[i] = g[k]
  <2>1. i - Len(e) \in 1..Len(g) /\ i = Len(e) + (i - Len(e))
    BY <1>1, <1>3
  <2>2. QED
    BY <1>1, <2>1
<1>4. \A k \in 1..Len(g) : Len(e) + k \in 1..Len(f)
  BY <1>1
<1>5. DOMAIN f = 1..Len(f) /\ DOMAIN e = 1..Len(e)
  BY <1>1
<1>6. QED
  BY <1>1, <1>2, <1>3, <1>4, <1>5 DEF Extended

\* No code is appended.
LEMMA CodeSilent ==
  ASSUME NEW e \in Seq(EventRecords), NEW g \in Seq(EventRecords), NEW f, Extended(e, g, f),
         \A k \in 1..Len(g) : g[k].type \notin CodeTypes \/ InMaster(f, Len(e) + k)
  PROVE  CodeOf(f) = CodeOf(e)
<1> DEFINE IsCode(s, i) == s[i].type \in CodeTypes /\ ~InMaster(s, i)
<1>1. ASSUME NEW i \in 1..Len(f), IsCode(f, i) PROVE i \in 1..Len(e) /\ IsCode(e, i)
  <2>1. i \in 1..Len(e)
    BY <1>1 DEF Extended
  <2>2. QED
    BY <1>1, <2>1 DEF Extended
<1>2. ASSUME NEW i \in 1..Len(e), IsCode(e, i) PROVE i \in 1..Len(f) /\ IsCode(f, i)
  <2>1. i \in 1..Len(f)
    BY DEF Extended
  <2>2. QED
    BY <1>2, <2>1 DEF Extended
<1>3. CodeAt(f) = CodeAt(e) /\ \A i \in CodeAt(e) : f[i] = e[i]
  BY <1>1, <1>2 DEF Extended, CodeAt
<1>4. f \in Seq(EventRecords)
  BY DEF Extended
<1>5. QED
  BY <1>3, <1>4, SameCode

\* A region that is open stays open until it ends, and hides what is appended.
LEMMA CodeInside ==
  ASSUME NEW e \in Seq(EventRecords), NEW g \in Seq(EventRecords), NEW f, Extended(e, g, f),
         OpenIn(e), \A k \in 1..Len(g) : g[k].ir.type # "OpenMPMasterEnd"
  PROVE  OpenIn(f) /\ CodeOf(f) = CodeOf(e)
<1>1. PICK j \in 1..Len(e) : /\ e[j].ir.type = "OpenMPMasterStart"
                             /\ \A k \in (j + 1)..Len(e) : e[k].ir.type # "OpenMPMasterEnd"
  BY DEF OpenIn
<1>2. /\ Len(f) = Len(e) + Len(g) /\ f \in Seq(EventRecords)
      /\ Len(e) \in Nat /\ Len(g) \in Nat /\ j \in 1..Len(f) /\ DOMAIN f = 1..Len(f)
      /\ f[j].ir.type = "OpenMPMasterStart"
  BY <1>1 DEF Extended
<1>3. ASSUME NEW k \in (j + 1)..Len(f) PROVE f[k].ir.type # "OpenMPMasterEnd"
  <2>1. CASE k \in 1..Len(e)
    <3>1. k \in (j + 1)..Len(e)
      BY <1>3, <2>1
    <3>2. QED
      BY <1>1, <2>1, <3>1 DEF Extended
  <2>2. CASE k \notin 1..Len(e)
    <3>1. k \in 1..Len(f)
      BY <1>2, <1>3
    <3>2. PICK l \in 1..Len(g) : f[k] = g[l]
      BY <2>2, <3>1 DEF Extended
    <3>3. QED
      BY <3>2
  <2>3. QED
    BY <2>1, <2>2
<1>4. OpenIn(f)
  BY <1>2, <1>3 DEF OpenIn
<1>5. ASSUME NEW k \in 1..Len(g) PROVE InMaster(f, Len(e) + k)
  <2>1. j \in 1..((Len(e) + k) - 1) /\ \A l \in (j + 1)..(Len(e) + k) : l \in (j + 1)..Len(f)
    BY <1>2
  <2>2. QED
    BY <1>2, <1>3, <2>1 DEF InMaster
<1>6. CodeOf(f) = CodeOf(e)
  BY <1>5, CodeSilent
<1>7. QED
  BY <1>4, <1>6

\* What has no marks neither opens nor ends a region.
LEMMA OpenUnmarked ==
  ASSUME NEW e \in Seq(EventRecords), NEW g \in Seq(EventRecords), NEW f, Extended(e, g, f),
         \A k \in 1..Len(g) : g[k].ir.type \notin MasterMarks
  PROVE  OpenIn(f) <=> OpenIn(e)
<1>1. ASSUME OpenIn(e) PROVE OpenIn(f)
  BY <1>1, CodeInside DEF MasterMarks
<1>2. ASSUME OpenIn(f) PROVE OpenIn(e)
  <2>1. PICK j \in 1..Len(f) : /\ f[j].ir.type = "OpenMPMasterStart"
                               /\ \A k \in (j + 1)..Len(f) : f[k].ir.type # "OpenMPMasterEnd"
    BY <1>2 DEF Extended, OpenIn
  <2>2. j \in 1..Len(e) /\ e[j].ir.type = "OpenMPMasterStart"
    <3>1. j \in 1..Len(e)
      BY <2>1 DEF Extended, MasterMarks
    <3>2. QED
      BY <2>1, <3>1 DEF Extended
  <2>3. ASSUME NEW k \in (j + 1)..Len(e) PROVE e[k].ir.type # "OpenMPMasterEnd"
    <3>1. k \in (j + 1)..Len(f) /\ k \in 1..Len(e)
      BY <2>2 DEF Extended
    <3>2. QED
      BY <2>1, <3>1 DEF Extended
  <2>4. QED
    BY <2>2, <2>3 DEF OpenIn
<1>3. QED
  BY <1>1, <1>2

\* A mark that is appended opens or ends a region.
LEMMA OpenMarked ==
  ASSUME NEW e \in Seq(EventRecords), NEW g \in Seq(EventRecords), NEW f, Extended(e, g, f),
         g # <<>>
  PROVE  /\ g[Len(g)].ir.type = "OpenMPMasterStart" => OpenIn(f)
         /\ g[Len(g)].ir.type = "OpenMPMasterEnd" => ~OpenIn(f)
<1>1. Len(g) \in 1..Len(g)
  OBVIOUS
<1>2. Len(f) \in 1..Len(f) /\ f[Len(f)] = g[Len(g)] /\ DOMAIN f = 1..Len(f)
  BY <1>1 DEF Extended
<1>3. Len(f) \in Nat /\ \A k : k \notin (Len(f) + 1)..Len(f)
  BY <1>2 DEF Extended
<1>4. ASSUME NEW j \in 1..Len(f), j # Len(f) PROVE Len(f) \in (j + 1)..Len(f)
  BY <1>3, <1>4
<1>5. QED
  BY <1>2, <1>3, <1>4 DEF OpenIn

\* Code on top of task joins, outside of the regions.
LEMMA CodeOutside ==
  ASSUME NEW e \in Seq(EventRecords), NEW g \in Seq(EventRecords), NEW f, Extended(e, g, f),
         ~OpenIn(e), g # <<>>, \A k \in 1..Len(g) : g[k].ir.type \notin MasterMarks,
         \A k \in 1..Len(g) : g[k].type \in CodeTypes <=> k = Len(g)
  PROVE  CodeOf(f) = Append(CodeOf(e), g[Len(g)].ir)
<1>1. Len(g) \in 1..Len(g)
  OBVIOUS
<1>2. /\ Len(f) \in 1..Len(f) /\ f[Len(f)] = g[Len(g)] /\ Len(f) = Len(e) + Len(g)
      /\ Len(e) \in Nat /\ Len(e) < Len(f) /\ f[Len(f)].type \in CodeTypes
      /\ f \in Seq(EventRecords)
  BY <1>1 DEF Extended
<1>3. ~OpenIn(f)
  BY OpenUnmarked
<1>4. ~InMaster(f, Len(f))
  <2>1. \A j \in 1..(Len(f) - 1) : j \in 1..Len(f)
    OBVIOUS
  <2>2. QED
    BY <1>3, <2>1 DEF InMaster, OpenIn, Extended
<1> DEFINE IsCode(s, i) == s[i].type \in CodeTypes /\ ~InMaster(s, i)
<1>5. ASSUME NEW i \in 1..Len(f), IsCode(f, i)
      PROVE  (i \in 1..Len(e) /\ IsCode(e, i)) \/ i = Len(f)
  <2>1. CASE i \in 1..Len(e)
    BY <1>5, <2>1 DEF Extended
  <2>2. CASE i \notin 1..Len(e)
    <3>1. PICK k \in 1..Len(g) : i = Len(e) + k /\ f[i] = g[k]
      BY <2>2 DEF Extended
    <3>2. k = Len(g)
      BY <1>5, <3>1
    <3>3. QED
      BY <1>2, <3>1, <3>2
  <2>3. QED
    BY <2>1, <2>2
<1>6. ASSUME NEW i \in 1..Len(e), IsCode(e, i) PROVE i \in 1..Len(f) /\ IsCode(f, i)
  <2>1. i \in 1..Len(f)
    BY DEF Extended
  <2>2. QED
    BY <1>6, <2>1 DEF Extended
<1>7. Len(f) \in 1..Len(f) /\ IsCode(f, Len(f))
  BY <1>2, <1>4
<1>8. /\ CodeAt(f) = {i \in 1..Len(f) : IsCode(f, i)}
      /\ CodeAt(e) = {i \in 1..Len(e) : IsCode(e, i)}
      /\ \A i \in CodeAt(e) : f[i] = e[i]
  BY DEF Extended, CodeAt
<1> HIDE DEF IsCode
<1>9. \A i : i \in CodeAt(f) <=> (i \in CodeAt(e) \/ i = Len(f))
  BY <1>5, <1>6, <1>7, <1>8
<1>10. CodeAt(f) = CodeAt(e) \cup {Len(f)}
  BY <1>9
<1>11. CodeOf(f) = Append(CodeOf(e), f[Len(f)].ir)
  BY <1>2, <1>8, <1>10, OneMore
<1>12. QED
  BY <1>2, <1>11

(***************************************************************************)
(* The machine.  A configuration is the activations of one thread, with    *)
(* the function and the position of each, and the code so far.  It moves   *)
(* at its last activation, which ends, is at a master region and passes    *)
(* over it, calls a function that is not active, or steps over its IR.     *)
(***************************************************************************)
Activations(p) == [fn : DOMAIN p.body, pos : Positions]
Configs(p) == [at : Seq(Activations(p)), code : Seq(Symbols)]

Start(entry) == [at |-> <<[fn |-> entry, pos |-> 1]>>, code |-> <<>>]

\* Of the activations n are left, and the last of these is at pos.
GoesTo(c, d, n, pos) ==
  /\ Len(d.at) = n
  /\ \A i \in 1..n : /\ d.at[i].fn = c.at[i].fn
                     /\ d.at[i].pos = IF i = n THEN pos ELSE c.at[i].pos

BodyOf(p, c) == p.body[c.at[Len(c.at)].fn]
PosOf(c) == c.at[Len(c.at)].pos
IROf(p, c) == BodyOf(p, c)[PosOf(c)]

Runs(p, c) == PosOf(c) <= Len(BodyOf(p, c))

CallsOne(p, c) ==
  /\ Kind(IROf(p, c)) = "Call" /\ IROf(p, c).callee \in DOMAIN p.body
  /\ \A i \in 1..Len(c.at) : c.at[i].fn # IROf(p, c).callee

Codes(teams, ir) == Kind(ir) \in CodeTypes /\ ~(teams /\ ir.type \in TeamSpecificTypes)

Ends(p, c, d) ==
  /\ ~Runs(p, c) /\ d.code = c.code
  /\ GoesTo(c, d, Len(c.at) - 1, c.at[Len(c.at) - 1].pos + 1)

PassesRegion(p, c, d) ==
  /\ Runs(p, c) /\ IROf(p, c).type = "OpenMPMasterStart" /\ d.code = c.code
  /\ \E e : Closes(BodyOf(p, c), PosOf(c), e) /\ GoesTo(c, d, Len(c.at), e)

Descends(p, c, d) ==
  /\ Runs(p, c) /\ IROf(p, c).type # "OpenMPMasterStart" /\ CallsOne(p, c)
  /\ d.code = c.code /\ Len(d.at) = Len(c.at) + 1
  /\ \A i \in 1..Len(c.at) : d.at[i] = c.at[i]
  /\ d.at[Len(c.at) + 1].fn = IROf(p, c).callee /\ d.at[Len(c.at) + 1].pos = 1

StepsOver(p, teams, c, d) ==
  /\ Runs(p, c) /\ IROf(p, c).type # "OpenMPMasterStart" /\ ~CallsOne(p, c)
  /\ d.code = IF Codes(teams, IROf(p, c)) THEN Append(c.code, IROf(p, c)) ELSE c.code
  /\ GoesTo(c, d, Len(c.at), PosOf(c) + 1)

Moves(p, teams, c, d) ==
  /\ c \in Configs(p) /\ d \in Configs(p) /\ c.at # <<>>
  /\ \/ Ends(p, c, d) \/ PassesRegion(p, c, d) \/ Descends(p, c, d)
     \/ StepsOver(p, teams, c, d)

\* What the machine gets to from c.
Closed(p, teams, S) == \A x, y : x \in S /\ Moves(p, teams, x, y) => y \in S

GetsTo(p, teams, c, d) == \A S : c \in S /\ Closed(p, teams, S) => d \in S

\* Configurations are known by their fields.
LEMMA SameConfig ==
  ASSUME NEW p, NEW c \in Configs(p), NEW d \in Configs(p), c.code = d.code, Len(c.at) = Len(d.at),
         \A i \in 1..Len(c.at) : c.at[i].fn = d.at[i].fn /\ c.at[i].pos = d.at[i].pos
  PROVE  c = d
<1>1. c.at \in Seq(Activations(p)) /\ d.at \in Seq(Activations(p))
  BY DEF Configs
<1>2. \A i \in 1..Len(c.at) : c.at[i] \in Activations(p) /\ d.at[i] \in Activations(p)
  BY <1>1
<1>3. \A i \in 1..Len(c.at) : c.at[i] = d.at[i]
  BY <1>2 DEF Activations
<1>4. c.at = d.at
  BY <1>1, <1>3
<1>5. QED
  BY <1>4 DEF Configs

\* The region that starts at a position closes at one.
LEMMA ClosesOnce ==
  ASSUME NEW body, DOMAIN body \subseteq Positions, NEW k, NEW e, NEW f,
         Closes(body, k, e), Closes(body, k, f)
  PROVE  e = f
<1>1. k \in Nat /\ e \in Nat /\ f \in Nat /\ k < e /\ k < f
  BY DEF Closes, Positions
<1>2. ~(e < f) /\ ~(f < e)
  <2>1. e < f => e \in (k + 1)..(f - 1)
    BY <1>1
  <2>2. f < e => f \in (k + 1)..(e - 1)
    BY <1>1
  <2>3. QED
    BY <2>1, <2>2 DEF Closes, MasterMarks
<1>3. QED
  BY <1>1, <1>2

\* The machine is deterministic.
LEMMA MovesOnce ==
  ASSUME NEW p \in Programs, NEW teams, NEW c, NEW d, NEW f,
         Moves(p, teams, c, d), Moves(p, teams, c, f)
  PROVE  d = f
<1>1. /\ c \in Configs(p) /\ d \in Configs(p) /\ f \in Configs(p) /\ c.at # <<>>
      /\ Len(c.at) \in Nat \ {0} /\ Len(d.at) \in Nat /\ Len(f.at) \in Nat
      /\ c.at[Len(c.at)].fn \in DOMAIN p.body
  <2>1. c \in Configs(p) /\ d \in Configs(p) /\ f \in Configs(p) /\ c.at # <<>>
    BY DEF Moves
  <2>2. /\ c.at \in Seq(Activations(p)) /\ d.at \in Seq(Activations(p))
        /\ f.at \in Seq(Activations(p))
    BY <2>1 DEF Configs
  <2>3. Len(c.at) \in Nat \ {0} /\ Len(c.at) \in 1..Len(c.at)
    BY <2>1, <2>2
  <2>4. c.at[Len(c.at)] \in Activations(p)
    BY <2>2, <2>3
  <2>5. Len(d.at) \in Nat /\ Len(f.at) \in Nat
    BY <2>2
  <2>6. QED
    BY <2>1, <2>3, <2>4, <2>5 DEF Activations
<1>2. CASE Ends(p, c, d)
  <2>1. Ends(p, c, f)
    BY <1>2 DEF Moves, Ends, PassesRegion, Descends, StepsOver
  <2>2. d.code = f.code /\ Len(d.at) = Len(f.at)
    BY <1>1, <1>2, <2>1 DEF Ends, GoesTo
  <2>3. \A i \in 1..Len(d.at) : d.at[i].fn = f.at[i].fn /\ d.at[i].pos = f.at[i].pos
    BY <1>1, <1>2, <2>1 DEF Ends, GoesTo
  <2>4. QED
    BY <1>1, <2>2, <2>3, SameConfig
<1>3. CASE PassesRegion(p, c, d)
  <2>1. PassesRegion(p, c, f)
    BY <1>3 DEF Moves, Ends, PassesRegion, Descends, StepsOver
  <2>2. DOMAIN BodyOf(p, c) \subseteq Positions
    BY <1>1, SummaryIR DEF BodyOf, Positions
  <2>3. PICK e : Closes(BodyOf(p, c), PosOf(c), e) /\ GoesTo(c, d, Len(c.at), e)
    BY <1>3 DEF PassesRegion
  <2>4. PICK e2 : Closes(BodyOf(p, c), PosOf(c), e2) /\ GoesTo(c, f, Len(c.at), e2)
    BY <2>1 DEF PassesRegion
  <2>5. e = e2
    BY <2>2, <2>3, <2>4, ClosesOnce
  <2>6. d.code = f.code
    BY <1>3, <2>1 DEF PassesRegion
  <2>7. QED
    BY <1>1, <2>3, <2>4, <2>5, <2>6, SameConfig DEF GoesTo
<1>4. CASE Descends(p, c, d)
  <2>1. Descends(p, c, f)
    BY <1>4 DEF Moves, Ends, PassesRegion, Descends, StepsOver
  <2>2. \A i \in 1..Len(d.at) : i \in 1..Len(c.at) \/ i = Len(c.at) + 1
    BY <1>1, <1>4 DEF Descends
  <2>3. d.code = f.code /\ Len(d.at) = Len(f.at)
    BY <1>1, <1>4, <2>1 DEF Descends
  <2>4. \A i \in 1..Len(d.at) : d.at[i].fn = f.at[i].fn /\ d.at[i].pos = f.at[i].pos
    BY <1>4, <2>1, <2>2 DEF Descends
  <2>5. QED
    BY <1>1, <2>3, <2>4, SameConfig
<1>5. CASE StepsOver(p, teams, c, d)
  <2>1. StepsOver(p, teams, c, f)
    BY <1>5 DEF Moves, Ends, PassesRegion, Descends, StepsOver
  <2>2. QED
    BY <1>1, <1>5, <2>1, SameConfig DEF StepsOver, GoesTo
<1>6. QED
  BY <1>2, <1>3, <1>4, <1>5 DEF Moves

LEMMA GetsOn ==
  ASSUME NEW p, NEW teams, NEW c
  PROVE  /\ GetsTo(p, teams, c, c)
         /\ \A d, f : GetsTo(p, teams, c, d) /\ Moves(p, teams, d, f) => GetsTo(p, teams, c, f)
  BY DEF GetsTo, Closed

\* It ends in one configuration at most.
LEMMA EndsOnce ==
  ASSUME NEW p \in Programs, NEW teams, NEW s \in Configs(p), NEW c \in Configs(p), NEW d,
         GetsTo(p, teams, s, c), GetsTo(p, teams, s, d), c.at = <<>>, d.at = <<>>
  PROVE  c = d
<1> DEFINE S == {x \in Configs(p) : GetsTo(p, teams, x, c)}
<1>1. \A f : ~Moves(p, teams, c, f) /\ ~Moves(p, teams, d, f)
  BY DEF Moves
<1>2. ASSUME NEW x \in S, NEW y, Moves(p, teams, x, y) PROVE y \in S
  <2>1. x # c /\ y \in Configs(p) /\ GetsTo(p, teams, x, c)
    BY <1>1, <1>2 DEF Moves
  <2>2. ASSUME NEW T, y \in T, Closed(p, teams, T) PROVE c \in T
    <3>1. \A f : Moves(p, teams, x, f) => f = y
      BY <1>2, MovesOnce
    <3>2. Closed(p, teams, T \cup {x})
      BY <2>2, <3>1 DEF Closed
    <3>3. c \in T \cup {x}
      BY <2>1, <3>2 DEF GetsTo
    <3>4. QED
      BY <2>1, <3>3
  <2>3. QED
    BY <2>1, <2>2 DEF GetsTo
<1>3. Closed(p, teams, S)
  BY <1>2 DEF Closed
<1>4. s \in S
  OBVIOUS
<1>5. d \in S
  BY <1>3, <1>4 DEF GetsTo
<1>6. GetsTo(p, teams, d, c)
  BY <1>5
<1>7. Closed(p, teams, {d})
  BY <1>1 DEF Closed
<1>8. c \in {d}
  BY <1>6, <1>7 DEF GetsTo
<1>9. QED
  BY <1>8

(***************************************************************************)
(* What a step does to the code of a thread.                               *)
(***************************************************************************)
\* A thread is in a master region.
Open(t) == OpenIn(threads[t].events)

LEMMA CodeThen ==
  ASSUME NEW t
  PROVE  TeamCode(t)' = CodeOf(threads'[t].events) /\ (Open(t)' <=> OpenIn(threads'[t].events))
  BY DEF TeamCode, CodeOf, CodeAt, CodeTypes, Open

\* The code and the regions stay, where neither code nor marks are appended.
LEMMA CodeStays ==
  ASSUME Inv, NEW s \in Tids, NEW evs \in Seq(EventRecords), Grows(s, evs),
         \A k \in 1..Len(evs) :
           evs[k].type \notin CodeTypes /\ evs[k].ir.type \notin MasterMarks,
         NEW t \in Tids
  PROVE  TeamCode(t)' = TeamCode(t) /\ (Open(t)' <=> Open(t))
<1>1. threads \in Seq(ThreadRecords) /\ threads[t].events \in Seq(EventRecords)
  BY ThreadTyped DEF Inv, Typed, Tids
<1>2. CASE t # s
  BY <1>2, CodeThen, TeamCodeIs DEF Grows, Open
<1>3. CASE t = s
  <2>1. threads'[t].events = threads[t].events \o evs
    BY <1>3 DEF Grows
  <2>2. Extended(threads[t].events, evs, threads'[t].events)
    BY <1>1, <2>1, Appended
  <2>3. CodeOf(threads'[t].events) = CodeOf(threads[t].events)
    BY <1>1, <2>2, CodeSilent
  <2>4. OpenIn(threads'[t].events) <=> OpenIn(threads[t].events)
    BY <1>1, <2>2, OpenUnmarked
  <2>5. QED
    BY <2>3, <2>4, CodeThen, TeamCodeIs DEF Open
<1>4. QED
  BY <1>2, <1>3

\* Calls to a summary and forks are no marks.
LEMMA NoMarks ==
  ASSUME Inv, NEW i \in 1..Len(stack), stack[i].pos <= Len(Body(i)),
         NEW ir, ir = Body(i)[stack[i].pos],
         Kind(ir) # "Call" \/ ir.callee \in DOMAIN program.body
  PROVE  ir.type \notin RegionMarks
<1>1. stack[i].pos \in 1..Len(Body(i))
  BY FrameBody DEF Positions
<1>2. QED
  BY <1>1, MarksAreCalls

LEMMA SilentCode ==
  ASSUME Inv, FrameLinks, Building, ~VisitEvent, ~VisitExternCall, NEW t \in Tids
  PROVE  TeamCode(t)' = TeamCode(t) /\ (Open(t)' <=> Open(t))
<1>1. /\ status = "building" /\ Typed /\ StackInv /\ Tid \in Tids
      /\ Len(stack) \in 1..Len(stack) /\ Len(stack) \in Nat
      /\ IRNow = Body(Len(stack))[stack[Len(stack)].pos]
  BY BuildingStays, StackMoves, TopTyped, Numbers DEF Inv
<1>2. PICK none : none = <<>>
  OBVIOUS
<1>3. none \in Seq(EventRecords) /\ \A k : k \notin 1..Len(none)
  BY <1>2
<1>4. CASE Grows(Tid, none)
  BY <1>1, <1>3, <1>4, CodeStays
<1>5. CASE threads' = Emit(<<>>)
  <2>1. Grows(Tid, none)
    BY <1>1, <1>2, <1>3, <1>5, EmitGrows
  <2>2. QED
    BY <1>4, <2>1
<1>6. CASE SkipSerial \/ SkipInTeams \/ SkipTask \/ VisitUnresolvedCall \/ VisitRecursiveFork
  BY <1>5, <1>6 DEF SkipSerial, SkipInTeams, SkipTask, VisitUnresolvedCall,
                    VisitRecursiveFork, Pass
<1>7. CASE SkipToTarget \/ SkipMasterRegion
  <2>1. threads'[t].events = threads[t].events
    <3>1. threads \in Seq(ThreadRecords) /\ DOMAIN threads = Tids
          /\ \A u \in Tids : threads[u] \in ThreadRecords
      BY <1>1 DEF Typed, Tids
    <3>2. CASE SkipToTarget
      BY <3>2 DEF SkipToTarget
    <3>3. CASE SkipMasterRegion
      <4>1. PICK region \in masterRegions :
              threads' = [threads EXCEPT ![Tid].skipUntil = region[2]]
        BY <3>3 DEF SkipMasterRegion
      <4>2. QED
        BY <3>1, <4>1 DEF ThreadRecords
    <3>4. QED
      BY <1>7, <3>2, <3>3
  <2>2. QED
    BY <2>1, CodeThen, TeamCodeIs DEF Open
<1>8. CASE VisitRecursiveCall
  <2>1. PICK evs : evs = RecursiveCallEvents
    OBVIOUS
  <2>2. HasIR /\ Kind(IRNow) = "Call" /\ IRNow.callee \in DOMAIN program.body
    BY <1>8 DEF VisitRecursiveCall, Visited, Unskipped, Reached
  <2>3. IRNow \in IRs
    BY <1>1, <2>2, IRTyped
  <2>4. IRNow.type \notin RegionMarks
    BY <1>1, <2>2, NoMarks DEF HasIR, Top, Body
  <2>5. /\ Len(evs) = 2 /\ evs[1] = NewEvent("EnterCall", IRNow)
        /\ evs[2] = NewEvent("LeaveCall", IRNow) /\ evs = <<evs[1], evs[2]>>
    BY <2>1 DEF RecursiveCallEvents
  <2>6. /\ evs[1] \in EventRecords /\ evs[1].type = "EnterCall" /\ evs[1].ir = IRNow
        /\ evs[2] \in EventRecords /\ evs[2].type = "LeaveCall" /\ evs[2].ir = IRNow
    BY <1>1, <2>3, <2>5, NewEventTyped DEF EventTypes
  <2>7. evs \in Seq(EventRecords) /\ \A k \in 1..Len(evs) : k = 1 \/ k = 2
    <3>1. PICK a, b : a = evs[1] /\ b = evs[2]
      OBVIOUS
    <3>2. a \in EventRecords /\ b \in EventRecords /\ evs = <<a, b>>
      BY <2>5, <2>6, <3>1
    <3>3. <<a, b>> \in Seq(EventRecords)
      BY <3>2
    <3>4. QED
      BY <2>5, <3>2, <3>3
  <2>8. Grows(Tid, evs)
    BY <1>1, <1>8, <2>1, <2>7, EmitGrows DEF VisitRecursiveCall
  <2>9. QED
    BY <1>1, <2>4, <2>6, <2>7, <2>8, CodeStays DEF CodeTypes, RegionMarks
<1>9. ASSUME NEW evs \in Seq(EventRecords), Grows(Tid, evs), Len(evs) = 1,
             evs[1].type \notin CodeTypes, evs[1].ir.type \notin RegionMarks
      PROVE  TeamCode(t)' = TeamCode(t) /\ (Open(t)' <=> Open(t))
  <2>1. \A k \in 1..Len(evs) : k = 1
    BY <1>9
  <2>2. QED
    BY <1>1, <1>9, <2>1, CodeStays DEF RegionMarks
<1>10. CASE VisitCall
  <2>1. PICK evs, frame : Calls(evs, frame)
    BY <1>10, VisitCallCalls
  <2>2. HasIR /\ IRNow.callee \in DOMAIN program.body
    BY <1>10 DEF VisitCall, Visited, Unskipped, Reached
  <2>3. IRNow.type \notin RegionMarks
    BY <1>1, <2>2, NoMarks DEF HasIR, Top, Body
  <2>4. QED
    BY <1>9, <2>1, <2>3 DEF Calls, CodeTypes
<1>11. CASE VisitFork
  <2>1. PICK evs, frame, new : Forks(evs, frame, new)
    BY <1>11, VisitForkForks
  <2>2. HasIR /\ Kind(IRNow) # "Call"
    BY <1>11 DEF VisitFork, Visited, Unskipped, Reached
  <2>3. IRNow.type \notin RegionMarks
    BY <1>1, <2>2, NoMarks DEF HasIR, Top, Body
  <2>4. QED
    BY <1>9, <2>1, <2>3 DEF Forks, CodeTypes
<1>12. CASE ReturnFromCall
  <2>1. PICK evs : ReturnsToCall(evs)
    BY <1>12, ReturnFromCallReturns
  <2>2. Len(stack) > 1 /\ Len(stack) - 1 \in 1..Len(stack) /\ Len(stack) - 1 # Len(stack)
    BY <1>1, <2>1 DEF ReturnsToCall, Returns
  <2>3. IRAt(Caller).type \notin RegionMarks
    BY <2>2, WaitsAtNoMark DEF Caller, IRAt, Body
  <2>4. QED
    BY <1>9, <2>1, <2>3 DEF ReturnsToCall, CodeTypes
<1>13. CASE ReturnFromThread
  <2>1. PICK parent : ReturnsToFork(parent)
    BY <1>13, ReturnFromThreadReturns
  <2>2. parent \in Tids /\ Grows(parent, none)
    BY <1>2, <2>1 DEF ReturnsToFork
  <2>3. QED
    BY <1>3, <2>2, CodeStays
<1>14. QED
  BY <1>6, <1>7, <1>8, <1>10, <1>11, <1>12, <1>13 DEF Building, Staying

\* The events of joins of tasks are neither code nor marks.
LEMMA TaskJoinsPlain ==
  ASSUME Inv, HasIR, NEW k \in 1..Len(TaskJoins)
  PROVE  TaskJoins[k].type = "Join" /\ TaskJoins[k].ir.type = "OpenMPTaskJoin"
<1>1. TaskJoins[k].type = "Join"
  BY TaskJoinsTyped
<1>2. unjoinedTasks \in Seq(PIDs) /\ DOMAIN unjoinedTasks = 1..Len(unjoinedTasks)
  BY DEF Inv, Typed
<1>3. JoinsTasks
  <2>1. CASE ~JoinsTasks
    <3>1. TaskJoins = <<>>
      BY <2>1 DEF TaskJoins
    <3>2. QED
      BY <3>1
  <2>2. QED
    BY <2>1
<1>4. TaskJoins[k].ir.type = "OpenMPTaskJoin"
  <2> DEFINE task(i) == EventAt(unjoinedTasks[i]).ir
             ir(i) == [type |-> "OpenMPTaskJoin", inst |-> task(i).inst,
                       handle |-> task(i).entry]
             join(i) == [NewEvent("Join", ir(i)) EXCEPT !.fork = unjoinedTasks[i]]
  <2>1. TaskJoins = [i \in DOMAIN unjoinedTasks |-> join(i)]
    BY <1>3 DEF TaskJoins
  <2>2. \A i : join(i).ir.type = "OpenMPTaskJoin"
    BY DEF NewEvent
  <2> HIDE DEF join
  <2>3. k \in DOMAIN unjoinedTasks
    BY <1>2, <2>1
  <2>4. QED
    BY <2>1, <2>2, <2>3
<1>5. QED
  BY <1>1, <1>4

\* What a step appends that is seen by the runtime model.
EmitsSeen(type, evs) ==
  evs = Append(TaskJoins, NewEvent(type, IRNow)) /\ threads' = Emit(evs)

AppendsSeen(type, evs) ==
  /\ Tid \in Tids /\ evs \in Seq(EventRecords) /\ evs # <<>> /\ Grows(Tid, evs)
  /\ threads[Tid].events \in Seq(EventRecords)
  /\ Extended(threads[Tid].events, evs, threads'[Tid].events)
  /\ \A k \in 1..Len(evs) :
       IF k = Len(evs) THEN evs[k].type = type /\ evs[k].ir = IRNow
       ELSE evs[k].type = "Join" /\ evs[k].ir.type = "OpenMPTaskJoin"

LEMMA SeenEvents ==
  ASSUME Inv, HasIR, NEW type \in EventTypes, type # "Fork", NEW evs, EmitsSeen(type, evs)
  PROVE  AppendsSeen(type, evs)
<1>0. evs = Append(TaskJoins, NewEvent(type, IRNow)) /\ threads' = Emit(evs)
  BY DEF EmitsSeen
<1>1. /\ status = "building" /\ Typed /\ StackInv /\ Tid \in Tids /\ IRNow \in IRs
      /\ threads[Tid].events \in Seq(EventRecords)
  BY TopTyped, IRTyped, ThreadTyped DEF Inv, HasIR, Typed, Tids
<1>2. PICK e : e = NewEvent(type, IRNow)
  OBVIOUS
<1>3. e \in EventRecords /\ e.type = type /\ e.ir = IRNow
  BY <1>1, <1>2, NewEventTyped
<1>4. TaskJoins \in Seq(EventRecords)
  BY TaskJoinsTyped
<1>5. /\ evs \in Seq(EventRecords) /\ Len(TaskJoins) \in Nat
      /\ Len(evs) = Len(TaskJoins) + 1 /\ evs[Len(TaskJoins) + 1] = e /\ evs # <<>>
      /\ \A k \in 1..Len(TaskJoins) : evs[k] = TaskJoins[k]
  BY <1>0, <1>2, <1>3, <1>4
<1>6. Grows(Tid, evs)
  BY <1>0, <1>1, <1>5, EmitGrows
<1>7. Extended(threads[Tid].events, evs, threads'[Tid].events)
  BY <1>1, <1>5, <1>6, Appended DEF Grows
<1>8. ASSUME NEW k \in 1..Len(evs), k # Len(evs)
      PROVE  evs[k].type = "Join" /\ evs[k].ir.type = "OpenMPTaskJoin"
  <2>1. k \in 1..Len(TaskJoins)
    BY <1>5, <1>8
  <2>2. QED
    BY <1>5, <2>1, TaskJoinsPlain
<1>9. QED
  BY <1>1, <1>3, <1>5, <1>6, <1>7, <1>8 DEF AppendsSeen

\* What is visited becomes code, if it is and no region is open.
LEMMA EventCode ==
  ASSUME Inv, VisitEvent, NEW t \in Tids
  PROVE  /\ Open(t)' <=> Open(t)
         /\ TeamCode(t)' = IF t = Tid /\ ~Open(t) /\ Kind(IRNow) \in CodeTypes
                           THEN Append(TeamCode(t), IRNow) ELSE TeamCode(t)
<1>1. HasIR /\ Kind(IRNow) # "Call" /\ Kind(IRNow) \in EventTypes /\ Kind(IRNow) # "Fork"
  BY KindTyped DEF VisitEvent, Visited, Unskipped, Reached
<1>2. PICK type, evs : type = Kind(IRNow) /\ EmitsSeen(type, evs)
  BY DEF VisitEvent, EmitsSeen
<1>3. AppendsSeen(type, evs)
  BY <1>1, <1>2, SeenEvents
<1>9. /\ Tid \in Tids /\ evs \in Seq(EventRecords) /\ evs # <<>> /\ Grows(Tid, evs)
      /\ threads[Tid].events \in Seq(EventRecords)
      /\ Extended(threads[Tid].events, evs, threads'[Tid].events)
      /\ \A k \in 1..Len(evs) :
           IF k = Len(evs) THEN evs[k].type = Kind(IRNow) /\ evs[k].ir = IRNow
           ELSE evs[k].type = "Join" /\ evs[k].ir.type = "OpenMPTaskJoin"
  BY <1>2, <1>3 DEF AppendsSeen
<1>4. IRNow.type \notin MasterMarks
  <2>1. /\ Building /\ Len(stack) \in 1..Len(stack) /\ IRNow = Body(Len(stack))[stack[Len(stack)].pos]
    BY StackMoves DEF Building, Staying
  <2>2. QED
    BY <1>1, <2>1, NoMarks DEF HasIR, Top, Body, RegionMarks
<1>5. \A k \in 1..Len(evs) : evs[k].ir.type \notin MasterMarks
  BY <1>9, <1>4 DEF MasterMarks
<1>6. CASE t # Tid
  BY <1>9, <1>6, CodeThen, TeamCodeIs DEF Grows, Open
<1>7. CASE t = Tid
  <2>1. Open(t)' <=> Open(t)
    BY <1>9, <1>5, <1>7, OpenUnmarked, CodeThen DEF Open
  <2>2. CASE Open(t)
    <3>1. CodeOf(threads'[t].events) = CodeOf(threads[t].events)
      BY <1>9, <1>5, <1>7, <2>2, CodeInside DEF Open, MasterMarks
    <3>2. QED
      BY <2>1, <2>2, <3>1, CodeThen, TeamCodeIs
  <2>3. CASE ~Open(t) /\ Kind(IRNow) \in CodeTypes
    <3>1. \A k \in 1..Len(evs) : evs[k].type \in CodeTypes <=> k = Len(evs)
      BY <1>9, <2>3 DEF CodeTypes
    <3>2. Len(evs) \in 1..Len(evs)
      BY <1>9
    <3>3. evs[Len(evs)].ir = IRNow
      BY <1>9, <3>2
    <3>4. CodeOf(threads'[t].events) = Append(CodeOf(threads[t].events), IRNow)
      BY <1>9, <1>5, <1>7, <2>3, <3>1, <3>3, CodeOutside DEF Open
    <3>5. QED
      BY <1>7, <2>1, <2>3, <3>4, CodeThen, TeamCodeIs
  <2>4. CASE Kind(IRNow) \notin CodeTypes
    <3>1. \A k \in 1..Len(evs) : evs[k].type \notin CodeTypes
      BY <1>9, <2>4 DEF CodeTypes
    <3>2. CodeOf(threads'[t].events) = CodeOf(threads[t].events)
      BY <1>9, <1>7, <3>1, CodeSilent
    <3>3. QED
      BY <2>1, <2>4, <3>2, CodeThen, TeamCodeIs
  <2>5. QED
    BY <2>2, <2>3, <2>4
<1>8. QED
  BY <1>6, <1>7

\* The calls of the runtime are no code; those at the marks open and end regions.
LEMMA ExternCode ==
  ASSUME Inv, VisitExternCall, NEW t \in Tids
  PROVE  /\ TeamCode(t)' = TeamCode(t)
         /\ Open(t)' <=> IF t = Tid /\ IRNow.type \in MasterMarks
                         THEN IRNow.type = "OpenMPMasterStart" ELSE Open(t)
<1>1. HasIR /\ "ExternCall" \in EventTypes /\ "ExternCall" # "Fork"
  BY DEF VisitExternCall, Visited, Unskipped, Reached, EventTypes
<1>2. PICK type, evs : type = "ExternCall" /\ EmitsSeen(type, evs)
  BY DEF VisitExternCall, EmitsSeen
<1>3. AppendsSeen(type, evs)
  BY <1>1, <1>2, SeenEvents
<1>9. /\ Tid \in Tids /\ evs \in Seq(EventRecords) /\ evs # <<>> /\ Grows(Tid, evs)
      /\ threads[Tid].events \in Seq(EventRecords)
      /\ Extended(threads[Tid].events, evs, threads'[Tid].events)
      /\ \A k \in 1..Len(evs) :
           IF k = Len(evs) THEN evs[k].type = "ExternCall" /\ evs[k].ir = IRNow
           ELSE evs[k].type = "Join" /\ evs[k].ir.type = "OpenMPTaskJoin"
  BY <1>2, <1>3 DEF AppendsSeen
<1>4. CASE t # Tid
  BY <1>9, <1>4, CodeThen, TeamCodeIs DEF Grows, Open
<1>5. CASE t = Tid
  <2>1. \A k \in 1..Len(evs) : evs[k].type \notin CodeTypes
    BY <1>9 DEF CodeTypes
  <2>2. CodeOf(threads'[t].events) = CodeOf(threads[t].events)
    BY <1>9, <1>5, <2>1, CodeSilent
  <2>3. TeamCode(t)' = TeamCode(t)
    BY <2>2, CodeThen, TeamCodeIs
  <2>4. Len(evs) \in 1..Len(evs) /\ evs[Len(evs)].ir = IRNow
    <3>1. Len(evs) \in 1..Len(evs)
      BY <1>9
    <3>2. QED
      BY <1>9, <3>1
  <2>5. CASE IRNow.type \in MasterMarks
    BY <1>9, <1>5, <2>3, <2>4, <2>5, OpenMarked, CodeThen DEF MasterMarks
  <2>6. CASE IRNow.type \notin MasterMarks
    <3>1. \A k \in 1..Len(evs) : evs[k].ir.type \notin MasterMarks
      BY <1>9, <2>6 DEF MasterMarks
    <3>2. QED
      BY <1>9, <1>5, <2>3, <2>6, <3>1, OpenUnmarked, CodeThen DEF Open
  <2>7. QED
    BY <2>5, <2>6
<1>6. QED
  BY <1>4, <1>5

(***************************************************************************)
(* The frame and the thread that a call or a fork starts.                  *)
(***************************************************************************)
LEMMA FrameOnTop ==
  ASSUME Inv, NEW t, NEW fn, NEW ctx, stack' = Append(stack, Frame(t, fn, ctx))
  PROVE  /\ Len(stack') = Len(stack) + 1 /\ Len(stack) \in Nat
         /\ \A i \in 1..Len(stack) : stack'[i] = stack[i]
         /\ stack'[Len(stack) + 1].tid = t /\ stack'[Len(stack) + 1].fn = fn
         /\ stack'[Len(stack) + 1].pos = 1
<1>1. PICK frame : frame = Frame(t, fn, ctx)
  OBVIOUS
<1>2. stack \in Seq(FrameRecords \cup {frame}) /\ stack' = Append(stack, frame)
  BY <1>1 DEF Inv, Typed
<1>3. /\ Len(stack') = Len(stack) + 1 /\ Len(stack) \in Nat
      /\ stack'[Len(stack) + 1] = frame /\ \A i \in 1..Len(stack) : stack'[i] = stack[i]
  BY <1>2
<1>4. QED
  BY <1>1, <1>3 DEF Frame

LEMMA EntryIs ==
  ASSUME Inv, NEW t \in Tids, threads[t].spawnSite # NoSpawn
  PROVE  threads[t].entry = SpawnIR(t).entry
<1>1. threads[t].spawnSite \in ForkEvents
  BY DEF Inv, SpawnInv
<1>2. PICK u \in Tids : /\ threads[u].spawnSite = threads[t].spawnSite
                        /\ threads[u].entry = EventAt(threads[t].spawnSite).ir.entry
  BY <1>1 DEF Inv, SpawnInv
<1>3. u = t
  BY <1>2 DEF Inv, SpawnInv
<1>4. QED
  BY <1>2, <1>3 DEF SpawnIR

LEMMA CallStarts ==
  ASSUME Inv, VisitCall
  PROVE  /\ HasIR /\ Visited /\ Kind(IRNow) = "Call" /\ IRNow.callee \in DOMAIN program.body
         /\ ~OnCallStack(IRNow.callee) /\ Len(threads') = Len(threads)
         /\ Len(stack') = Len(stack) + 1 /\ Len(stack) \in Nat
         /\ \A i \in 1..Len(stack) : stack'[i] = stack[i]
         /\ stack'[Len(stack) + 1].tid = Tid /\ stack'[Len(stack) + 1].fn = IRNow.callee
         /\ stack'[Len(stack) + 1].pos = 1
<1>1. /\ HasIR /\ Visited /\ Kind(IRNow) = "Call" /\ IRNow.callee \in DOMAIN program.body
      /\ ~OnCallStack(IRNow.callee)
      /\ \E ctx : stack' = Append(stack, Frame(Tid, IRNow.callee, ctx))
  BY DEF VisitCall, Visited, Unskipped, Reached
<1>2. PICK evs, frame : Calls(evs, frame)
  BY VisitCallCalls
<1>3. PICK ctx : stack' = Append(stack, Frame(Tid, IRNow.callee, ctx))
  BY <1>1
<1>4. PICK t, fn : t = Tid /\ fn = IRNow.callee
  OBVIOUS
<1>5. stack' = Append(stack, Frame(t, fn, ctx))
  BY <1>3, <1>4
<1>6. /\ Len(stack') = Len(stack) + 1 /\ Len(stack) \in Nat
      /\ \A i \in 1..Len(stack) : stack'[i] = stack[i]
      /\ stack'[Len(stack) + 1].tid = t /\ stack'[Len(stack) + 1].fn = fn
      /\ stack'[Len(stack) + 1].pos = 1
  BY <1>5, FrameOnTop
<1>7. Len(threads') = Len(threads)
  BY <1>2 DEF Calls
<1>8. QED
  BY <1>1, <1>4, <1>6, <1>7

LEMMA ForkStarts ==
  ASSUME Inv, VisitFork, NEW new, new = Len(threads) + 1
  PROVE  /\ HasIR /\ Visited /\ Kind(IRNow) = "Fork" /\ IRNow.entry \in DOMAIN program.body
         /\ Len(threads') = new /\ new \notin Tids /\ new \in Positions
         /\ \A t : t \in Tids' <=> t \in Tids \/ t = new
         /\ threads'[new].events = <<>> /\ threads'[new].entry = IRNow.entry
         /\ threads'[new].spawnSite = <<Tid, Len(threads[Tid].events) + 1>>
         /\ threads'[new].spawnSite # NoSpawn /\ SpawnIR(new)' = IRNow /\ Parent(new)' = Tid
         /\ Len(stack') = Len(stack) + 1 /\ Len(stack) \in Nat
         /\ \A i \in 1..Len(stack) : stack'[i] = stack[i]
         /\ stack'[Len(stack) + 1].tid = new /\ stack'[Len(stack) + 1].fn = IRNow.entry
         /\ stack'[Len(stack) + 1].pos = 1 /\ inParallel'
<1>1. /\ HasIR /\ Visited /\ Kind(IRNow) = "Fork" /\ inParallel' /\ status = "building"
      /\ \E ctx : stack' = Append(stack, Frame(new, IRNow.entry, ctx))
  BY DEF VisitFork, Visited, Unskipped, Reached, HasIR
<1>2. PICK evs, frame, other : Forks(evs, frame, other)
  BY VisitForkForks
<1>3. /\ other = new /\ Len(threads') = new /\ evs \in Seq(EventRecords) /\ Grows(Tid, evs)
      /\ Len(evs) = 1 /\ evs[1].ir = IRNow
      /\ threads'[new].spawnSite = <<Tid, Len(threads[Tid].events) + 1>>
      /\ threads'[new].spawnSite # NoSpawn
  BY <1>2 DEF Forks
<1>4. /\ Len(threads) \in Nat /\ new \in Positions /\ new \notin Tids
      /\ \A t : t \in Tids' <=> t \in Tids \/ t = new
  BY <1>3, Numbers DEF Tids, Positions
<1>5. IRNow.entry \in DOMAIN program.body /\ Tid \in Tids
  BY <1>1, IRTyped, TopTyped, KindTyped DEF Inv
<1>6. threads'[new].events = <<>>
  BY <1>3, <1>4 DEF Grows, Tids
<1>7. SpawnIR(new)' = IRNow
  <2>1. PICK n : n = <<Tid, Len(threads[Tid].events) + 1>>
    OBVIOUS
  <2>2. 1 \in 1..Len(evs)
    BY <1>3
  <2>3. EventAt(n)' = evs[1]
    BY <1>3, <1>5, <2>1, <2>2, EventsGrow DEF Inv
  <2>4. QED
    BY <1>3, <2>1, <2>3 DEF SpawnIR, EventAt
<1>8. threads'[new].entry = IRNow.entry
  <2>1. PICK e, n : e = IRNow.entry /\ n = ForkSite
    OBVIOUS
  <2>2. PICK ctx, emitted : /\ threads' = Append(emitted, NewThread(n, e, ctx))
                            /\ emitted = Emit(<<NewEvent("Fork", IRNow)>>)
    BY <2>1 DEF VisitFork
  <2>3. /\ DOMAIN emitted = Tids /\ Len(emitted) = Len(threads) /\ \E S : emitted \in Seq(S)
    BY <1>1, <2>2, EmitSkips
  <2>4. PICK r : r = NewThread(n, e, ctx)
    OBVIOUS
  <2>5. PICK S : emitted \in Seq(S)
    BY <2>3
  <2>6. Append(emitted, r)[Len(emitted) + 1] = r
    BY <2>5
  <2>7. threads'[new] = r
    BY <2>2, <2>3, <2>4, <2>6
  <2>8. r.entry = e
    BY <2>4 DEF NewThread
  <2>9. QED
    BY <2>1, <2>7, <2>8
<1>9. Parent(new)' = Tid
  BY <1>3 DEF Parent
<1>10. QED
  BY <1>1, <1>3, <1>4, <1>5, <1>6, <1>7, <1>8, <1>9, FrameOnTop

-----------------------------------------------------------------------------
(***************************************************************************)
(* The flag of the runtime model for teams regions is the running thread's *)
(* own: no other thread left it set, as teams regions do not nest.         *)
(***************************************************************************)
TeamsFunctions(p, F) ==
  \A fn \in DOMAIN p.body : \A ir \in ToSet(p.body[fn]) :
    /\ ir.type = "OpenMPForkTeams" => fn \notin F /\ ir.entry \in F
    /\ fn \in F /\ Kind(ir) = "Fork" => ir.entry \in F
    /\ fn \in F /\ Kind(ir) = "Call" /\ ir.callee \in DOMAIN p.body => ir.callee \in F

TeamsThreads(R) ==
  /\ R \subseteq Spawned
  /\ \A t \in Spawned : t \in R <=> SpawnIR(t).type = "OpenMPForkTeams" \/ Parent(t) \in R

FlagInv(R, F) ==
  /\ TeamsFunctions(program, F) /\ TeamsThreads(R)
  /\ status = "building" => (inTeamsRegion <=> Tid \in R)
  /\ \A i \in 1..Len(stack) : stack[i].tid \in R => stack[i].fn \in F
  /\ \A i, j \in 1..Len(stack) : i <= j /\ stack[i].tid \in R => stack[j].tid \in R

LEMMA TeamsFunctionsExist ==
  ASSUME NEW p \in Programs
  PROVE  \E F : TeamsFunctions(p, F)
  BY NestingAssumption DEF NestsNoTeams, TeamsFunctions

\* The IR that a frame is at is one of its function.
LEMMA FrameIR ==
  ASSUME Inv, NEW i \in 1..Len(stack), stack[i].pos <= Len(Body(i))
  PROVE  /\ stack[i].fn \in DOMAIN program.body
         /\ IRAt(stack[i]) \in ToSet(program.body[stack[i].fn])
         /\ IRAt(stack[i]) = Body(i)[stack[i].pos] /\ stack[i].pos \in 1..Len(Body(i))
<1>1. stack[i].pos \in 1..Len(Body(i)) /\ DOMAIN Body(i) = 1..Len(Body(i))
  BY FrameBody DEF Positions
<1>2. IRAt(stack[i]) = Body(i)[stack[i].pos]
  BY DEF IRAt, Body
<1>3. IRAt(stack[i]) \in ToSet(Body(i))
  BY <1>1, <1>2 DEF ToSet
<1>4. QED
  BY <1>1, <1>2, <1>3, FrameBody DEF Body

LEMMA TopFrame ==
  ASSUME Inv, Building
  PROVE  /\ Len(stack) \in 1..Len(stack) /\ Len(stack) \in Nat /\ Len(stack) > 0
         /\ Top = stack[Len(stack)] /\ Tid = stack[Len(stack)].tid /\ Tid \in Tids
         /\ HasIR => /\ IRNow \in ToSet(program.body[stack[Len(stack)].fn])
                     /\ stack[Len(stack)].fn \in DOMAIN program.body
<1>1. Len(stack) \in 1..Len(stack) /\ Len(stack) \in Nat /\ Len(stack) > 0
  BY StackMoves, Numbers
<1>2. Top = stack[Len(stack)] /\ Tid = stack[Len(stack)].tid
  BY DEF Top, Tid
<1>3. HasIR => /\ IRNow \in ToSet(program.body[stack[Len(stack)].fn])
               /\ stack[Len(stack)].fn \in DOMAIN program.body
  BY <1>1, <1>2, FrameIR DEF HasIR, IRNow, Body
<1>4. QED
  BY <1>1, <1>2, <1>3, FrameBody

\* A thread that was forked keeps its place.
LEMMA SpawnedStay ==
  ASSUME Inv, TreeInv, Building, NEW t \in Spawned
  PROVE  /\ t \in Tids /\ Parent(t) \in Tids /\ threads[t].spawnSite # NoSpawn
         /\ Parent(t)' = Parent(t) /\ SpawnIR(t)' = SpawnIR(t)
         /\ threads'[t].spawnSite = threads[t].spawnSite
<1>1. t \in Tids /\ threads[t].spawnSite # NoSpawn /\ Parent(t) \in Tids
  BY Numbers DEF TreeInv, SpawnTree, Spawned, Tids
<1>2. QED
  BY <1>1, SpawnIRStays DEF Parent

LEMMA TeamsThreadsStay ==
  ASSUME Inv, TreeInv, Building, Len(threads') = Len(threads), NEW R, TeamsThreads(R)
  PROVE  TeamsThreads(R)'
<1>1. Spawned' = Spawned
  BY DEF Spawned
<1>2. ASSUME NEW t \in Spawned
      PROVE  t \in R <=> SpawnIR(t)'.type = "OpenMPForkTeams" \/ Parent(t)' \in R
  BY <1>2, SpawnedStay DEF TeamsThreads
<1>3. QED
  BY <1>1, <1>2 DEF TeamsThreads

LEMMA TeamsThreadsFork ==
  ASSUME Inv, TreeInv, VisitFork, NEW R, TeamsThreads(R), NEW new, new = Len(threads) + 1
  PROVE  \E S : /\ TeamsThreads(S)' /\ \A t \in Tids : t \in S <=> t \in R
                /\ new \in S <=> IRNow.type = "OpenMPForkTeams" \/ Tid \in R
<1>1. /\ Building /\ Len(threads') = new /\ new \notin Tids /\ new \in Positions
      /\ SpawnIR(new)' = IRNow /\ Parent(new)' = Tid /\ Tid \in Tids
      /\ \A t : t \in Tids' <=> t \in Tids \/ t = new
  BY ForkStarts, TopFrame DEF Building
<1>2. PICK S : S = R \cup {t \in {new} : IRNow.type = "OpenMPForkTeams" \/ Tid \in R}
  OBVIOUS
<1>3. R \subseteq Spawned /\ Spawned \subseteq Tids /\ 1 \in Tids
  BY Numbers DEF TeamsThreads
<1>4. \A t : t \in Spawned' <=> t \in Spawned \/ t = new
  <2>1. \A t : t \in Spawned <=> t \in Tids /\ t # 1
    BY Numbers DEF Spawned, Tids, Positions
  <2>2. \A t : t \in Spawned' <=> t \in Tids' /\ t # 1
    BY <1>1, Numbers DEF Spawned, Tids, Positions
  <2>3. QED
    BY <1>1, <1>3, <2>1, <2>2
<1>5. new \notin R
  BY <1>1, <1>3
<1>6. ASSUME NEW t \in Spawned
      PROVE  t \in S <=> SpawnIR(t)'.type = "OpenMPForkTeams" \/ Parent(t)' \in S
  <2>1. /\ Parent(t)' = Parent(t) /\ SpawnIR(t)' = SpawnIR(t)
        /\ Parent(t) # new /\ t # new
    BY <1>1, <1>6, SpawnedStay
  <2>2. t \in R <=> SpawnIR(t).type = "OpenMPForkTeams" \/ Parent(t) \in R
    BY <1>6 DEF TeamsThreads
  <2>3. QED
    BY <1>2, <2>1, <2>2
<1>7. new \in S <=> SpawnIR(new)'.type = "OpenMPForkTeams" \/ Parent(new)' \in S
  BY <1>1, <1>2, <1>5
<1>8. TeamsThreads(S)'
  <2>1. S \subseteq Spawned'
    BY <1>2, <1>3, <1>4
  <2>2. \A t \in Spawned' : t \in S <=> SpawnIR(t)'.type = "OpenMPForkTeams" \/ Parent(t)' \in S
    BY <1>4, <1>6, <1>7
  <2>3. QED
    BY <2>1, <2>2 DEF TeamsThreads
<1>9. QED
  BY <1>1, <1>2, <1>5, <1>8

\* What a step does to the flag.
LEMMA FlagStep ==
  ASSUME Inv, Building
  PROVE  /\ VisitFork => (inTeamsRegion' <=> inTeamsRegion \/ IRNow.type = "OpenMPForkTeams")
         /\ ReturnFromThread =>
              (inTeamsRegion' <=> inTeamsRegion /\ IRAt(Caller).type # "OpenMPForkTeams")
         /\ ~VisitFork /\ ~ReturnFromThread =>
              \/ inTeamsRegion' <=> inTeamsRegion
              \/ VisitRecursiveFork /\ IRNow.type = "OpenMPForkTeams" /\ inTeamsRegion'
<1>1. ASSUME NEW tasks, PreVisit(tasks)
      PROVE  inTeamsRegion' <=> inTeamsRegion \/ IRNow.type = "OpenMPForkTeams"
  BY <1>1 DEF PreVisit
<1>2. ReturnFromThread =>
        (inTeamsRegion' <=> inTeamsRegion /\ IRAt(Caller).type # "OpenMPForkTeams")
  BY DEF ReturnFromThread, PostFork
<1>3. VisitFork => (inTeamsRegion' <=> inTeamsRegion \/ IRNow.type = "OpenMPForkTeams")
  <2>1. VisitFork => \E tasks : PreVisit(tasks)
    BY DEF VisitFork
  <2>2. QED
    BY <1>1, <2>1
<1>4. ASSUME SkipToTarget \/ SkipSerial \/ SkipInTeams \/ SkipTask \/ SkipMasterRegion
             \/ VisitUnresolvedCall \/ VisitRecursiveCall \/ VisitCall \/ ReturnFromCall
      PROVE  inTeamsRegion' <=> inTeamsRegion
  BY <1>4 DEF SkipToTarget, SkipSerial, SkipInTeams, SkipTask, SkipMasterRegion,
              VisitUnresolvedCall, VisitRecursiveCall, VisitCall, ReturnFromCall,
              Pass, runtimeVars
<1>5. ASSUME VisitEvent \/ VisitExternCall \/ VisitRecursiveFork
      PROVE  \/ inTeamsRegion' <=> inTeamsRegion
             \/ VisitRecursiveFork /\ IRNow.type = "OpenMPForkTeams" /\ inTeamsRegion'
  <2>1. PICK tasks : PreVisit(tasks)
    BY <1>5 DEF VisitEvent, VisitExternCall, VisitRecursiveFork
  <2>2. IRNow.type = "OpenMPForkTeams" => VisitRecursiveFork
    <3>1. IRNow.type = "OpenMPForkTeams" => Kind(IRNow) = "Fork"
      BY KindTyped DEF ForkTypes
    <3>2. QED
      BY <1>5, <3>1 DEF VisitEvent, VisitExternCall
  <2>3. QED
    BY <1>1, <2>1, <2>2
<1>6. QED
  BY <1>2, <1>3, <1>4, <1>5 DEF Building, Staying

\* A thread that forks a teams region is in none.
LEMMA RefusedIsIn ==
  ASSUME Inv, TreeInv, FrameLinks, VisitRecursiveFork, IRNow.type = "OpenMPForkTeams",
         NEW R, NEW F, FlagInv(R, F)
  PROVE  Tid \in R
<1>1. PICK i \in 2..Len(stack) : TeamsBelow(i)
  BY RefusedInTeams
<1>2. /\ Building /\ Len(stack) \in 1..Len(stack) /\ Len(stack) \in Nat
      /\ Tid = stack[Len(stack)].tid
  BY TopFrame DEF Building, Staying
<1>3. /\ stack[i].tid # stack[i - 1].tid /\ LowerIR(i).type = "OpenMPForkTeams"
      /\ LowerIR(i) = SpawnIR(stack[i].tid) /\ i \in 1..Len(stack) /\ i <= Len(stack)
  BY <1>1, <1>2 DEF TeamsBelow, FrameLinks, Link
<1>4. PICK t : t = stack[i].tid
  OBVIOUS
<1>5. t \in Tids /\ threads[t].spawnSite # NoSpawn
  BY <1>3, <1>4, OlderBelow, FrameBody
<1>6. t \in Spawned
  BY <1>5, Numbers DEF TreeInv, SpawnTree, Spawned, Tids, Positions
<1>7. t \in R
  BY <1>3, <1>4, <1>6 DEF FlagInv, TeamsThreads
<1>8. QED
  BY <1>2, <1>3, <1>4, <1>7 DEF FlagInv

\* The frames that stay keep their threads and functions.
LEMMA FlagFramesStay ==
  ASSUME NEW R, NEW F, FlagInv(R, F), NEW S, NEW m \in 0..Len(stack), Inv,
         \A i \in 1..m : stack'[i].tid = stack[i].tid /\ stack'[i].fn = stack[i].fn,
         \A t \in Tids : t \in S <=> t \in R
  PROVE  /\ \A i \in 1..m : stack'[i].tid \in S => stack'[i].fn \in F
         /\ \A i, j \in 1..m : i <= j /\ stack'[i].tid \in S => stack'[j].tid \in S
<1>1. \A i \in 1..m : i \in 1..Len(stack)
  BY Numbers
<1>2. \A i \in 1..m : stack'[i].tid \in S <=> stack[i].tid \in R
  BY <1>1, FrameBody
<1>3. QED
  BY <1>1, <1>2 DEF FlagInv

LEMMA FlagStays ==
  ASSUME Inv, TreeInv, FrameLinks, NEW R, NEW F, FlagInv(R, F),
         Staying \/ ReturnFromCall \/ ReturnFromThread
  PROVE  FlagInv(R, F)'
<1>1. /\ Building /\ Len(stack) \in 1..Len(stack) /\ Len(stack) \in Nat /\ Len(stack) > 0
      /\ Tid = stack[Len(stack)].tid /\ Tid \in Tids
      /\ status = "building" /\ program' = program
  BY TopFrame, BuildingStays DEF Building
<1>2. Len(threads') = Len(threads)
  <2>1. CASE Staying
    <3>1. PICK evs : Advances(evs)
      BY <2>1, StayingAdvances
    <3>2. QED
      BY <3>1 DEF Advances
  <2>2. CASE ReturnFromCall
    <3>1. PICK evs : ReturnsToCall(evs)
      BY <2>2, ReturnFromCallReturns
    <3>2. QED
      BY <3>1 DEF ReturnsToCall, Returns
  <2>3. CASE ReturnFromThread
    <3>1. PICK parent : ReturnsToFork(parent)
      BY <2>3, ReturnFromThreadReturns
    <3>2. QED
      BY <3>1 DEF ReturnsToFork, Returns
  <2>4. QED
    BY <2>1, <2>2, <2>3
<1>3. TeamsThreads(R)'
  BY <1>1, <1>2, TeamsThreadsStay DEF FlagInv
<1>4. PICK m \in 1..Len(stack) :
        /\ Len(stack') = m /\ m \in 0..Len(stack)
        /\ \A i \in 1..m : stack'[i].tid = stack[i].tid /\ stack'[i].fn = stack[i].fn
        /\ Tid' = stack[m].tid
        /\ IF Staying THEN m = Len(stack) ELSE m = Len(stack) - 1
  <2>1. CASE Staying
    BY <1>1, <2>1, StackMoves DEF GoesOn, Tid, Top
  <2>2. CASE ~Staying
    BY <1>1, <2>2, StackMoves DEF GoesOn, Tid, Top
  <2>3. QED
    BY <2>1, <2>2
<1>5. /\ \A i \in 1..Len(stack') : stack'[i].tid \in R => stack'[i].fn \in F
      /\ \A i, j \in 1..Len(stack') : i <= j /\ stack'[i].tid \in R => stack'[j].tid \in R
  BY <1>4, FlagFramesStay
<1>6. inTeamsRegion <=> Tid \in R
  BY <1>1 DEF FlagInv
<1>7. inTeamsRegion' <=> Tid' \in R
  <2>1. CASE ReturnFromThread
    <3>1. /\ Len(stack) > 1 /\ Caller.tid # Tid /\ Caller = stack[Len(stack) - 1] /\ ~Staying
          /\ m = Len(stack) - 1
      <4>1. Len(stack) > 1 /\ Caller.tid # Tid /\ Caller = stack[Len(stack) - 1] /\ Ended
        BY <2>1 DEF ReturnFromThread, Caller
      <4>2. ~Staying
        <5>1. Top.pos \in Nat /\ Len(program.body[Top.fn]) \in Nat
          BY <1>1, FrameBody DEF Top, Body, Positions
        <5>2. Staying => HasIR
          BY <1>1, StackMoves
        <5>3. QED
          BY <4>1, <5>1, <5>2 DEF Ended, HasIR
      <4>3. QED
        BY <1>4, <4>1, <4>2
    <3>2. /\ Len(stack) \in 2..Len(stack) /\ m < Len(stack) /\ Tid' = Caller.tid
      BY <1>1, <1>4, <3>1
    <3>3. /\ LowerIR(Len(stack)) = SpawnIR(Tid) /\ LowerIR(Len(stack)) = IRAt(Caller)
          /\ Parent(Tid) = Caller.tid
      BY <1>1, <3>1, <3>2, OlderBelow DEF FrameLinks, Link, LowerIR
    <3>4. Tid \in Spawned
      <4>1. threads[Tid].spawnSite # NoSpawn
        BY <1>1, <3>1, <3>2, OlderBelow
      <4>2. PICK t \in Tids : t = Tid
        BY <1>1
      <4>3. t # 1 /\ t \in Spawned
        BY <4>1, <4>2, Numbers DEF TreeInv, SpawnTree, Spawned, Tids, Positions
      <4>4. QED
        BY <4>2, <4>3
    <3>5. Tid \in R <=> IRAt(Caller).type = "OpenMPForkTeams" \/ Caller.tid \in R
      BY <3>3, <3>4 DEF FlagInv, TeamsThreads
    <3>6. IRAt(Caller) \in ToSet(program.body[stack[m].fn]) /\ stack[m].fn \in DOMAIN program.body
      BY <1>1, <3>1, <3>2, FrameIR, FrameBody
    <3>7. IRAt(Caller).type = "OpenMPForkTeams" => Caller.tid \notin R
      <4>1. Caller.tid \in R => stack[m].fn \in F
        BY <3>1, <3>2 DEF FlagInv
      <4>2. QED
        BY <3>6, <4>1 DEF FlagInv, TeamsFunctions
    <3>8. inTeamsRegion' <=> inTeamsRegion /\ IRAt(Caller).type # "OpenMPForkTeams"
      BY <1>1, <2>1, FlagStep
    <3>9. QED
      BY <1>6, <3>2, <3>5, <3>7, <3>8
  <2>2. CASE ~ReturnFromThread
    <3>1. Tid' = Tid
      <4>1. CASE Staying
        BY <1>1, <1>4, <4>1
      <4>2. CASE ~Staying
        <5>1. Caller.tid = Tid /\ Caller = stack[Len(stack) - 1]
          BY <2>2, <4>2 DEF ReturnFromCall, Caller
        <5>2. QED
          BY <1>4, <4>2, <5>1
      <4>3. QED
        BY <4>1, <4>2
    <3>2. ~VisitFork
      <4>1. Staying => Len(stack') = Len(stack)
        BY <1>1, StackMoves DEF GoesOn
      <4>2. VisitFork => Len(stack') = Len(stack) + 1
        BY <1>1, StackMoves
      <4>3. QED
        BY <1>1, <1>4, <4>2
    <3>3. CASE inTeamsRegion' <=> inTeamsRegion
      BY <1>6, <3>1, <3>3
    <3>4. CASE VisitRecursiveFork /\ IRNow.type = "OpenMPForkTeams" /\ inTeamsRegion'
      BY <3>1, <3>4, RefusedIsIn
    <3>5. QED
      BY <1>1, <2>2, <3>2, <3>3, <3>4, FlagStep
  <2>3. QED
    BY <2>1, <2>2
<1>8. TeamsFunctions(program, F)'
  BY <1>1 DEF FlagInv, TeamsFunctions
<1>9. QED
  BY <1>3, <1>5, <1>7, <1>8 DEF FlagInv

LEMMA FlagCalls ==
  ASSUME Inv, TreeInv, NEW R, NEW F, FlagInv(R, F), VisitCall
  PROVE  FlagInv(R, F)'
<1>1. /\ Building /\ Len(stack) \in 1..Len(stack) /\ Len(stack) \in Nat
      /\ Tid = stack[Len(stack)].tid /\ Tid \in Tids
      /\ status = "building" /\ program' = program
  BY TopFrame, BuildingStays DEF Building
<1>2. /\ HasIR /\ Kind(IRNow) = "Call" /\ IRNow.callee \in DOMAIN program.body
      /\ Len(threads') = Len(threads) /\ Len(stack') = Len(stack) + 1
      /\ \A i \in 1..Len(stack) : stack'[i] = stack[i]
      /\ stack'[Len(stack) + 1].tid = Tid /\ stack'[Len(stack) + 1].fn = IRNow.callee
  BY CallStarts
<1>3. TeamsThreads(R)'
  BY <1>1, <1>2, TeamsThreadsStay DEF FlagInv
<1>4. Tid' = Tid
  BY <1>2 DEF Top, Tid
<1>5. inTeamsRegion' <=> inTeamsRegion
  BY DEF VisitCall, runtimeVars
<1>6. /\ \A i \in 1..Len(stack) : stack'[i].tid \in R => stack'[i].fn \in F
      /\ \A i, j \in 1..Len(stack) : i <= j /\ stack'[i].tid \in R => stack'[j].tid \in R
  BY <1>2 DEF FlagInv
<1>7. Tid \in R => IRNow.callee \in F
  <2>1. Tid \in R => stack[Len(stack)].fn \in F
    BY <1>1 DEF FlagInv
  <2>2. /\ IRNow \in ToSet(program.body[stack[Len(stack)].fn])
        /\ stack[Len(stack)].fn \in DOMAIN program.body
    BY <1>1, <1>2, TopFrame
  <2>3. QED
    BY <1>2, <2>1, <2>2 DEF FlagInv, TeamsFunctions
<1>8. \A i \in 1..Len(stack') : i \in 1..Len(stack) \/ i = Len(stack) + 1
  BY <1>1, <1>2
<1>9. \A i \in 1..Len(stack) : stack'[i].tid \in R => Tid \in R
  <2>1. \A i \in 1..Len(stack) : i <= Len(stack)
    BY <1>1
  <2>2. QED
    BY <1>1, <1>2, <2>1 DEF FlagInv
<1>10. \A i \in 1..Len(stack') : stack'[i].tid \in R => stack'[i].fn \in F
  BY <1>2, <1>6, <1>7, <1>8
<1>11. \A i, j \in 1..Len(stack') : i <= j /\ stack'[i].tid \in R => stack'[j].tid \in R
  <2>1. \A i \in 1..Len(stack) : ~(Len(stack) + 1 <= i)
    BY <1>1
  <2>2. QED
    BY <1>2, <1>6, <1>8, <1>9, <2>1
<1>12. TeamsFunctions(program, F)'
  BY <1>1 DEF FlagInv, TeamsFunctions
<1>13. QED
  BY <1>1, <1>3, <1>4, <1>5, <1>10, <1>11, <1>12 DEF FlagInv

LEMMA FlagForks ==
  ASSUME Inv, TreeInv, NEW R, NEW F, FlagInv(R, F), VisitFork
  PROVE  \E S : FlagInv(S, F)' /\ \A t \in Tids : t \in S <=> t \in R
<1>1. /\ Building /\ Len(stack) \in 1..Len(stack) /\ Len(stack) \in Nat
      /\ Tid = stack[Len(stack)].tid /\ Tid \in Tids
      /\ status = "building" /\ program' = program
  BY TopFrame, BuildingStays DEF Building
<1>2. PICK new : new = Len(threads) + 1
  OBVIOUS
<1>3. /\ HasIR /\ Kind(IRNow) = "Fork" /\ Len(stack') = Len(stack) + 1
      /\ \A i \in 1..Len(stack) : stack'[i] = stack[i]
      /\ stack'[Len(stack) + 1].tid = new /\ stack'[Len(stack) + 1].fn = IRNow.entry
  BY <1>2, ForkStarts
<1>4. PICK S : /\ TeamsThreads(S)' /\ \A t \in Tids : t \in S <=> t \in R
               /\ new \in S <=> IRNow.type = "OpenMPForkTeams" \/ Tid \in R
  BY <1>2, TeamsThreadsFork DEF FlagInv
<1>5. inTeamsRegion <=> Tid \in R
  BY <1>1 DEF FlagInv
<1>6. inTeamsRegion' <=> inTeamsRegion \/ IRNow.type = "OpenMPForkTeams"
  BY <1>1, FlagStep
<1>7. Tid' = new
  BY <1>3 DEF Top, Tid
<1>8. /\ \A i \in 1..Len(stack) : stack'[i].tid \in S => stack'[i].fn \in F
      /\ \A i, j \in 1..Len(stack) : i <= j /\ stack'[i].tid \in S => stack'[j].tid \in S
  <2>1. Len(stack) \in 0..Len(stack)
    BY <1>1
  <2>2. QED
    BY <1>3, <1>4, <2>1, FlagFramesStay
<1>9. new \in S => IRNow.entry \in F
  <2>1. Tid \in R => stack[Len(stack)].fn \in F
    BY <1>1 DEF FlagInv
  <2>2. /\ IRNow \in ToSet(program.body[stack[Len(stack)].fn])
        /\ stack[Len(stack)].fn \in DOMAIN program.body
    BY <1>1, <1>3, TopFrame
  <2>3. QED
    BY <1>3, <1>4, <2>1, <2>2 DEF FlagInv, TeamsFunctions
<1>10. \A i \in 1..Len(stack') : i \in 1..Len(stack) \/ i = Len(stack) + 1
  BY <1>1, <1>3
<1>11. \A i \in 1..Len(stack) : stack'[i].tid \in S => new \in S
  <2>1. \A i \in 1..Len(stack) : i <= Len(stack)
    BY <1>1
  <2>2. QED
    BY <1>1, <1>3, <1>4, <1>8, <2>1
<1>12. \A i \in 1..Len(stack') : stack'[i].tid \in S => stack'[i].fn \in F
  BY <1>3, <1>8, <1>9, <1>10
<1>13. \A i, j \in 1..Len(stack') : i <= j /\ stack'[i].tid \in S => stack'[j].tid \in S
  <2>1. \A i \in 1..Len(stack) : ~(Len(stack) + 1 <= i)
    BY <1>1
  <2>2. QED
    BY <1>3, <1>8, <1>10, <1>11, <2>1
<1>14. TeamsFunctions(program, F)'
  BY <1>1 DEF FlagInv, TeamsFunctions
<1>15. FlagInv(S, F)'
  BY <1>4, <1>5, <1>6, <1>7, <1>12, <1>13, <1>14 DEF FlagInv
<1>16. QED
  BY <1>4, <1>15

\* Every step keeps the flag, and the threads it is set for.
LEMMA FlagNext ==
  ASSUME Inv, TreeInv, FrameLinks, NEW R, NEW F, FlagInv(R, F), [Next]_vars
  PROVE  \E S : FlagInv(S, F)' /\ \A t \in Tids : t \in S <=> t \in R
<1>1. CASE VisitFork
  BY <1>1, FlagForks
<1>2. CASE Building /\ ~VisitFork
  BY <1>2, FlagStays, FlagCalls DEF Building
<1>3. CASE ~Building
  <2>1. /\ UNCHANGED <<threads, program>> /\ UNCHANGED inTeamsRegion
        /\ stack' = stack \/ (stack' = <<>> /\ Len(stack') = 0)
    BY <1>3, OtherRuntime DEF runtimeVars
  <2>2. status' = "building" => status = "building" /\ stack' = stack
    <3>1. ReturnFromMain \/ Flatten \/ Finish \/ Abort \/ UNCHANGED vars
      BY <1>3, OtherSteps
    <3>2. QED
      BY <3>1 DEF ReturnFromMain, Flatten, Finish, Abort, vars
  <2>3. TeamsThreads(R)' /\ TeamsFunctions(program, F)'
    BY <2>1 DEF FlagInv, TeamsThreads, TeamsFunctions, Spawned, SpawnIR, EventAt, Parent
  <2>4. status' = "building" => (inTeamsRegion' <=> Tid' \in R)
    BY <2>1, <2>2 DEF FlagInv, Tid, Top
  <2>5. /\ \A i \in 1..Len(stack') : stack'[i].tid \in R => stack'[i].fn \in F
        /\ \A i, j \in 1..Len(stack') : i <= j /\ stack'[i].tid \in R => stack'[j].tid \in R
    <3>1. CASE stack' = stack
      BY <3>1 DEF FlagInv
    <3>2. CASE Len(stack') = 0
      BY <3>2
    <3>3. QED
      BY <2>1, <3>1, <3>2
  <2>6. FlagInv(R, F)'
    BY <2>3, <2>4, <2>5 DEF FlagInv
  <2>7. QED
    BY <2>6
<1>4. QED
  BY <1>1, <1>2, <1>3

LEMMA FlagInit ==
  ASSUME Init
  PROVE  \E R, F : FlagInv(R, F)
<1>1. PICK F : TeamsFunctions(program, F)
  BY TeamsFunctionsExist DEF Init
<1>2. /\ stack = <<Frame(1, program.main, InitialCtx)>> /\ ~inTeamsRegion
      /\ threads = <<NewThread(NoSpawn, program.main, InitialCtx)>>
  BY DEF Init
<1>3. Len(threads) = 1 /\ Len(stack) = 1
  BY <1>2
<1>4. Spawned = {}
  BY <1>3 DEF Spawned
<1>5. FlagInv({}, F)
  BY <1>1, <1>2, <1>4 DEF FlagInv, TeamsThreads
<1>6. QED
  BY <1>5

-----------------------------------------------------------------------------
(***************************************************************************)
(* Twins are forked for the same function.  The fork of the second one is  *)
(* next to that of the first in the code, and next to its event: between   *)
(* the two, its parent makes no other event.                               *)
(***************************************************************************)
SecondFork(ir) == ir.type = "OpenMPFork" /\ ~ir.master

SiteLast ==
  \A i \in 2..Len(stack) : stack[i].tid # stack[i - 1].tid =>
    threads[stack[i].tid].spawnSite =
      <<stack[i - 1].tid, Len(threads[stack[i - 1].tid].events)>>

\* The last event of a thread is for the entry.
ForksLast(events, entry) == Len(events) > 0 /\ events[Len(events)].ir.entry = entry

AtTwin ==
  HasIR /\ ~Skips(Tid) /\ SecondFork(IRNow) =>
    IsRecursiveThreadSpawn(IRNow.entry) \/ ForksLast(Thread.events, IRNow.entry)

Adjacent ==
  \A t \in Tids : LET events == threads[t].events IN \A k \in 1..Len(events) :
    events[k].type = "Fork" /\ SecondFork(events[k].ir) =>
      k > 1 /\ events[k - 1].ir.entry = events[k].ir.entry

TwinInv == SiteLast /\ AtTwin /\ Adjacent

LEMMA SiteKept ==
  ASSUME Inv, TreeInv, SiteLast, NEW t \in Tids, NEW evs \in Seq(EventRecords), Grows(t, evs),
         t = Tid \/ evs = <<>>,
         NEW i \in 2..Len(stack), stack'[i].tid = stack[i].tid,
         stack'[i - 1].tid = stack[i - 1].tid, stack'[i].tid # stack'[i - 1].tid
  PROVE  threads'[stack'[i].tid].spawnSite =
           <<stack'[i - 1].tid, Len(threads'[stack'[i - 1].tid].events)>>
<1>1. i \in 1..Len(stack) /\ i - 1 \in 1..Len(stack)
  BY Numbers
<1>2. PICK u \in Tids, v \in Tids : u = stack[i].tid /\ v = stack[i - 1].tid
  BY <1>1, FrameBody
<1>3. v < u /\ u <= Tid /\ Tid \in Tids
  BY <1>2, OlderBelow
<1>4. threads[u].spawnSite = <<v, Len(threads[v].events)>>
  BY <1>2 DEF SiteLast
<1>5. threads'[u].spawnSite = threads[u].spawnSite
  BY DEF Grows
<1>6. threads'[v].events = threads[v].events
  <2>1. CASE v # t
    BY <2>1 DEF Grows
  <2>2. CASE v = t
    <3>1. v # Tid
      BY <1>3, Numbers DEF Positions
    <3>2. evs = <<>> /\ threads'[v].events = threads[v].events \o evs
      BY <2>2, <3>1 DEF Grows
    <3>3. threads[v].events \in Seq(EventRecords)
      BY ThreadTyped DEF Inv, Typed, Tids
    <3>4. QED
      BY <3>2, <3>3
  <2>3. QED
    BY <2>1, <2>2
<1>7. QED
  BY <1>2, <1>4, <1>5, <1>6

LEMMA SiteLastStays ==
  ASSUME Inv, TreeInv, FrameLinks, SiteLast, Building
  PROVE  SiteLast'
<1>1. Len(stack) \in 1..Len(stack) /\ Len(stack) \in Nat /\ Tid \in Tids
  BY TopFrame
<1>2. ASSUME NEW t \in Tids, NEW evs \in Seq(EventRecords), Grows(t, evs), t = Tid \/ evs = <<>>,
             NEW m \in 1..Len(stack), Len(stack') = m,
             \A i \in 1..m : stack'[i].tid = stack[i].tid
      PROVE  SiteLast'
  <2>1. \A i \in 2..m : i \in 1..m /\ i - 1 \in 1..m /\ i \in 2..Len(stack)
    BY <1>1
  <2>2. QED
    BY <1>2, <2>1, SiteKept DEF SiteLast
<1>3. CASE Staying
  <2>1. PICK evs : evs \in Seq(EventRecords) /\ Grows(Tid, evs)
    BY <1>3, StayingAdvances DEF Advances
  <2>2. Len(stack') = Len(stack) /\ \A i \in 1..Len(stack) : stack'[i].tid = stack[i].tid
    BY <1>3, StackMoves DEF GoesOn
  <2>3. QED
    BY <1>1, <1>2, <2>1, <2>2
<1>4. CASE ReturnFromCall \/ ReturnFromThread
  <2>1. PICK m \in 1..Len(stack) :
          Len(stack') = m /\ \A i \in 1..m : stack'[i].tid = stack[i].tid
    BY <1>4, StackMoves DEF GoesOn
  <2>2. PICK t \in Tids, evs \in Seq(EventRecords) : Grows(t, evs) /\ (t = Tid \/ evs = <<>>)
    <3>1. CASE ReturnFromCall
      BY <1>1, <3>1, ReturnFromCallReturns DEF ReturnsToCall
    <3>2. CASE ReturnFromThread
      <4>1. PICK parent : ReturnsToFork(parent)
        BY <3>2, ReturnFromThreadReturns
      <4>2. PICK none : none = <<>>
        OBVIOUS
      <4>5. none \in Seq(EventRecords)
        BY <4>2
      <4>3. parent \in Tids /\ Grows(parent, none)
        BY <4>1, <4>2 DEF ReturnsToFork
      <4>4. QED
        BY <4>2, <4>3, <4>5
    <3>3. QED
      BY <1>4, <3>1, <3>2
  <2>3. QED
    BY <1>2, <2>1, <2>2
<1>5. CASE VisitCall \/ VisitFork
  <2>1. Len(stack') = Len(stack) + 1 /\ \A i \in 1..Len(stack) : stack'[i] = stack[i]
    BY <1>5, StackMoves
  <2>2. PICK evs \in Seq(EventRecords) : Grows(Tid, evs) /\ Len(evs) = 1
    BY <1>5, VisitCallCalls, VisitForkForks DEF Calls, Forks
  <2>3. ASSUME NEW i \in 2..Len(stack), stack'[i].tid # stack'[i - 1].tid
        PROVE  threads'[stack'[i].tid].spawnSite =
                 <<stack'[i - 1].tid, Len(threads'[stack'[i - 1].tid].events)>>
    <3>1. i \in 1..Len(stack) /\ i - 1 \in 1..Len(stack)
      BY <1>1
    <3>2. QED
      BY <1>1, <2>1, <2>2, <2>3, <3>1, SiteKept
  <2>4. PICK n : n = Len(stack) + 1 /\ n - 1 = Len(stack)
    BY <1>1
  <2>5. stack'[n].tid # stack'[n - 1].tid =>
          threads'[stack'[n].tid].spawnSite =
            <<stack'[n - 1].tid, Len(threads'[stack'[n - 1].tid].events)>>
    <3>1. stack'[n - 1].tid = Tid
      BY <1>1, <2>1, <2>4, TopFrame
    <3>2. CASE VisitCall
      BY <2>4, <3>1, <3>2, CallStarts
    <3>3. CASE VisitFork
      <4>1. PICK new : new = Len(threads) + 1
        OBVIOUS
      <4>2. /\ stack'[n].tid = new
            /\ threads'[new].spawnSite = <<Tid, Len(threads[Tid].events) + 1>>
        BY <2>4, <3>3, <4>1, ForkStarts
      <4>3. threads'[Tid].events = threads[Tid].events \o evs
        BY <2>2 DEF Grows
      <4>4. threads[Tid].events \in Seq(EventRecords)
        BY <1>1, ThreadTyped DEF Inv, Typed, Tids
      <4>5. Len(threads'[Tid].events) = Len(threads[Tid].events) + 1
        <5>1. Len(threads[Tid].events \o evs) = Len(threads[Tid].events) + Len(evs)
          BY <4>4, ConcatPositions
        <5>2. QED
          BY <2>2, <4>3, <5>1
      <4>6. QED
        BY <3>1, <4>2, <4>5
    <3>4. QED
      BY <1>5, <3>2, <3>3
  <2>6. \A i \in 2..Len(stack') : i \in 2..Len(stack) \/ i = n
    BY <1>1, <2>1, <2>4
  <2>7. QED
    BY <2>3, <2>5, <2>6 DEF SiteLast
<1>6. QED
  BY <1>3, <1>4, <1>5 DEF Building

LEMMA AdjacentGrows ==
  ASSUME Inv, Adjacent, NEW t \in Tids, NEW evs \in Seq(EventRecords), Grows(t, evs),
         \A k \in 1..Len(evs) : evs[k].type = "Fork" /\ SecondFork(evs[k].ir) =>
           k = 1 /\ ForksLast(threads[t].events, evs[k].ir.entry)
  PROVE  \A u \in Tids : \A k \in 1..Len(threads'[u].events) :
           threads'[u].events[k].type = "Fork" /\ SecondFork(threads'[u].events[k].ir) =>
             k > 1 /\ threads'[u].events[k - 1].ir.entry = threads'[u].events[k].ir.entry
<1>1. PICK e, f : e = threads[t].events /\ f = threads'[t].events
  OBVIOUS
<1>2. e \in Seq(EventRecords) /\ f = e \o evs
  BY <1>1, ThreadTyped DEF Inv, Typed, Tids, Grows
<1>3. Extended(e, evs, f)
  BY <1>2, Appended
<1>4. ASSUME NEW k \in 1..Len(f), f[k].type = "Fork", SecondFork(f[k].ir)
      PROVE  k > 1 /\ f[k - 1].ir.entry = f[k].ir.entry
  <2>1. CASE k \in 1..Len(e)
    <3>1. f[k] = e[k]
      BY <1>3, <2>1 DEF Extended
    <3>2. k > 1 /\ e[k - 1].ir.entry = e[k].ir.entry
      BY <1>1, <1>4, <2>1, <3>1 DEF Adjacent
    <3>3. k - 1 \in 1..Len(e)
      BY <1>3, <2>1, <3>2 DEF Extended
    <3>4. QED
      BY <1>3, <3>1, <3>2, <3>3 DEF Extended
  <2>2. CASE k \notin 1..Len(e)
    <3>1. PICK l \in 1..Len(evs) : k = Len(e) + l /\ f[k] = evs[l]
      BY <1>3, <2>2 DEF Extended
    <3>2. l = 1 /\ Len(e) > 0 /\ e[Len(e)].ir.entry = f[k].ir.entry
      BY <1>1, <1>4, <3>1 DEF ForksLast
    <3>3. Len(e) \in Nat /\ k = Len(e) + 1 /\ k - 1 = Len(e) /\ k - 1 \in 1..Len(e) /\ k > 1
      BY <1>2, <3>1, <3>2
    <3>4. f[k - 1] = e[k - 1]
      BY <1>3, <3>3 DEF Extended
    <3>5. QED
      BY <3>2, <3>3, <3>4
  <2>3. QED
    BY <2>1, <2>2
<1>5. ASSUME NEW u \in Tids, u # t PROVE threads'[u].events = threads[u].events
  BY <1>5 DEF Grows
<1>6. ASSUME NEW u \in Tids, NEW g, g = threads'[u].events, NEW k \in 1..Len(g),
             g[k].type = "Fork", SecondFork(g[k].ir)
      PROVE  k > 1 /\ g[k - 1].ir.entry = g[k].ir.entry
  <2>1. CASE u = t
    BY <1>1, <1>4, <1>6, <2>1
  <2>2. CASE u # t
    BY <1>5, <1>6, <2>2 DEF Adjacent
  <2>3. QED
    BY <2>1, <2>2
<1>7. QED
  BY <1>6

LEMMA AdjacentStays ==
  ASSUME Inv, Inv', TreeInv, FrameLinks, SkipInv, TwinInv, Building
  PROVE  Adjacent'
<1>1. /\ Len(stack) \in 1..Len(stack) /\ Tid \in Tids /\ status = "building"
      /\ threads' \in Seq(ThreadRecords)
  BY TopFrame, BuildingStays DEF Inv, Typed
<1>2. PICK t \in Tids, evs \in Seq(EventRecords) :
        /\ Grows(t, evs)
        /\ \A k \in 1..Len(evs) : evs[k].type = "Fork" /\ SecondFork(evs[k].ir) =>
             k = 1 /\ ForksLast(threads[t].events, evs[k].ir.entry)
  <2>1. CASE VisitFork
    <3>1. PICK evs, frame, new : Forks(evs, frame, new)
      BY <2>1, VisitForkForks
    <3>2. /\ evs \in Seq(EventRecords) /\ Grows(Tid, evs) /\ evs[1].ir = IRNow
          /\ Len(evs) = 1
      BY <3>1 DEF Forks
    <3>3. HasIR /\ ~IsRecursiveThreadSpawn(IRNow.entry) /\ ~Skips(Tid)
      <4>1. HasIR /\ ~IsRecursiveThreadSpawn(IRNow.entry)
        BY <2>1 DEF VisitFork, Visited, Unskipped, Reached
      <4>2. ~SkipToTarget /\ ~VisitExternCall
        <5>1. Kind(IRNow) = "Fork" /\ ~Skipping
          BY <2>1 DEF VisitFork, Visited, Unskipped, Reached
        <5>2. QED
          BY <5>1 DEF SkipToTarget, VisitExternCall
      <4>3. ~Skips(Tid)
        BY <1>1, <4>2, SkipStep
      <4>4. QED
        BY <4>1, <4>3
    <3>4. SecondFork(IRNow) => ForksLast(threads[Tid].events, IRNow.entry)
      BY <3>3 DEF TwinInv, AtTwin, Thread
    <3>5. \A k \in 1..Len(evs) : k = 1
      BY <3>2
    <3>6. QED
      BY <1>1, <3>2, <3>4, <3>5
  <2>2. CASE \E t, evs : QuietStep(t, evs)
    BY <2>2 DEF QuietStep
  <2>3. CASE \E evs : JoiningStep(evs)
    BY <2>3 DEF JoiningStep
  <2>4. QED
    BY <2>1, <2>2, <2>3, SilentStep, EventStep, CallStep DEF Building, Staying
<1>3. \A u \in Tids : \A k \in 1..Len(threads'[u].events) :
        threads'[u].events[k].type = "Fork" /\ SecondFork(threads'[u].events[k].ir) =>
          k > 1 /\ threads'[u].events[k - 1].ir.entry = threads'[u].events[k].ir.entry
  BY <1>2, AdjacentGrows DEF TwinInv
<1>4. ASSUME NEW u \in Tids', u \notin Tids PROVE \A k : k \notin 1..Len(threads'[u].events)
  <2>1. threads'[u].events = <<>>
    BY <1>2, <1>4 DEF Grows, Tids
  <2>2. QED
    BY <2>1
<1>5. QED
  BY <1>3, <1>4 DEF Adjacent

\* A thread at the second fork comes from the first.
LEMMA AtTwinStays ==
  ASSUME Inv, Inv', TreeInv, FrameLinks, TwinInv, Building
  PROVE  AtTwin'
<1> SUFFICES ASSUME HasIR', ~Skips(Tid)', SecondFork(IRNow)'
             PROVE  \/ IsRecursiveThreadSpawn(IRNow.entry)'
                    \/ ForksLast(Thread.events, IRNow.entry)'
  BY DEF AtTwin
<1>1. /\ Len(stack) \in 1..Len(stack) /\ Len(stack) \in Nat /\ Tid = stack[Len(stack)].tid
      /\ Tid \in Tids /\ status = "building" /\ program' = program
  BY TopFrame, BuildingStays
<1>2. PICK p \in Programs, fn \in DOMAIN program.body, pos \in Nat :
        /\ p = program /\ fn = stack'[Len(stack')].fn /\ pos = stack'[Len(stack')].pos
        /\ pos \in 1..Len(p.body[fn]) /\ DOMAIN p.body[fn] = 1..Len(p.body[fn])
        /\ IRNow' = p.body[fn][pos] /\ Tid' = stack'[Len(stack')].tid
  <2>1. /\ stack' \in Seq(FrameRecords) /\ program' \in Programs
        /\ stack'[Len(stack')].pos <= Len(program'.body[stack'[Len(stack')].fn])
        /\ stack' # <<>>
    BY DEF HasIR, Top, Inv, Typed, StackInv
  <2>2. Len(stack') \in 1..Len(stack')
    BY <2>1
  <2>3. stack'[Len(stack')] \in FrameRecords /\ stack'[Len(stack')].fn \in DOMAIN program'.body
    BY <2>1, <2>2 DEF Inv, StackInv
  <2>4. program'.body[stack'[Len(stack')].fn] \in Seq(IRs)
    BY <2>1, <2>3, SummaryIR
  <2>5. stack'[Len(stack')].pos \in Positions /\ stack'[Len(stack')].pos \in Nat
    BY <2>3 DEF FrameRecords, Positions
  <2>6. PICK body : body = program'.body[stack'[Len(stack')].fn]
    OBVIOUS
  <2>7. stack'[Len(stack')].pos \in 1..Len(body) /\ DOMAIN body = 1..Len(body)
    BY <2>1, <2>4, <2>5, <2>6 DEF Positions
  <2>8. IRNow' = body[stack'[Len(stack')].pos] /\ Tid' = stack'[Len(stack')].tid
    BY <2>6 DEF IRNow, IRAt, Top, Tid
  <2>9. QED
    BY <1>1, <2>1, <2>3, <2>6, <2>7, <2>8
<1>3. PICK prev : /\ prev = p.body[fn][pos - 1] /\ pos > 1
                  /\ prev.type = "OpenMPFork" /\ prev.entry = IRNow'.entry
  <2>1. PairsForks(p)
    BY RegionsAssumption
  <2>2. p.body[fn][pos].type = "OpenMPFork" /\ ~p.body[fn][pos].master
    BY <1>2 DEF SecondFork
  <2>3. PICK body : body = p.body[fn] /\ fn \in DOMAIN p.body /\ pos \in DOMAIN body
    BY <1>2
  <2>4. pos > 1 /\ body[pos - 1].type = "OpenMPFork" /\ body[pos - 1].entry = body[pos].entry
    BY <2>1, <2>2, <2>3 DEF PairsForks
  <2>5. QED
    BY <1>2, <2>3, <2>4
<1>4. Kind(prev) = "Fork"
  BY <1>3, KindTyped DEF ForkTypes
<1>5. ~VisitCall /\ ~VisitFork
  <2>1. ASSUME VisitCall \/ VisitFork PROVE FALSE
    <3>1. Len(stack') = Len(stack) + 1 /\ stack'[Len(stack) + 1].pos = 1
      BY <2>1, StackMoves
    <3>2. QED
      BY <1>2, <1>3, <3>1
  <2>2. QED
    BY <2>1
<1>6. PICK n \in 1..Len(stack) :
        /\ GoesOn(n) /\ n = IF Staying THEN Len(stack) ELSE Len(stack) - 1
        /\ prev = IRAt(stack[n]) /\ Tid' = stack[n].tid
  <2>1. PICK n \in 1..Len(stack) :
          GoesOn(n) /\ n = IF Staying THEN Len(stack) ELSE Len(stack) - 1
    BY <1>1, <1>5, StackMoves DEF Building
  <2>2. /\ fn = stack[n].fn /\ pos = stack[n].pos + 1 /\ Tid' = stack[n].tid
        /\ stack[n].pos \in Nat
    <3>1. Len(stack') = n /\ n \in 1..n
      BY <2>1 DEF GoesOn
    <3>2. /\ stack'[n].tid = stack[n].tid /\ stack'[n].fn = stack[n].fn
          /\ stack'[n].pos = stack[n].pos + 1
      BY <2>1, <3>1 DEF GoesOn
    <3>3. stack[n].pos \in Nat
      BY FrameBody DEF Positions
    <3>4. QED
      BY <1>2, <3>1, <3>2, <3>3
  <2>3. pos - 1 = stack[n].pos
    BY <2>2
  <2>4. prev = IRAt(stack[n])
    BY <1>2, <1>3, <2>2, <2>3 DEF IRAt
  <2>5. QED
    BY <2>1, <2>2, <2>4
<1>7. CASE Staying
  <2>1. n = Len(stack) /\ prev = IRNow /\ Tid' = Tid
    BY <1>1, <1>6, <1>7 DEF IRNow, Top
  <2>2. IRNow.type = "OpenMPFork" /\ Kind(IRNow) = "Fork"
    BY <1>3, <1>4, <2>1
  <2>3. ~SkipToTarget
    <3>1. SkipToTarget => Skips(Tid) /\ UNCHANGED threads
      BY DEF SkipToTarget, Skipping, Thread, Skips
    <3>2. UNCHANGED threads => (Skips(Tid)' <=> Skips(Tid))
      BY <2>1 DEF Skips
    <3>3. QED
      BY <3>1, <3>2
  <2>4. /\ ~SkipSerial /\ ~SkipInTeams /\ ~SkipTask /\ ~SkipMasterRegion /\ ~VisitEvent
        /\ ~VisitUnresolvedCall /\ ~VisitExternCall /\ ~VisitRecursiveCall
    <3>1. ~SkipSerial
      BY <2>2 DEF SkipSerial, Serial
    <3>2. ~SkipInTeams
      BY <2>2 DEF SkipInTeams, SkippedInTeams, TeamSpecificTypes
    <3>3. ~SkipTask
      BY <2>2 DEF SkipTask, SkippedTask
    <3>4. ~SkipMasterRegion
      BY <2>2 DEF SkipMasterRegion, SkippedMaster
    <3>5. ~VisitEvent /\ ~VisitUnresolvedCall /\ ~VisitExternCall /\ ~VisitRecursiveCall
      BY <2>2 DEF VisitEvent, VisitUnresolvedCall, VisitExternCall, VisitRecursiveCall
    <3>6. QED
      BY <3>1, <3>2, <3>3, <3>4, <3>5
  <2>5. VisitRecursiveFork
    BY <1>7, <2>3, <2>4 DEF Staying
  <2>6. PICK l \in 1..Len(stack) : LET above == threads[stack[l].tid] IN
          above.spawnSite # NoSpawn /\ above.entry = IRNow.entry
    <3>1. IsRecursiveThreadSpawn(IRNow.entry)
      BY <2>5 DEF VisitRecursiveFork
    <3>2. DOMAIN stack = 1..Len(stack)
      BY DEF Inv, Typed
    <3>3. QED
      BY <3>1, <3>2 DEF IsRecursiveThreadSpawn
  <2>7. PICK t \in Tids, evs \in Seq(EventRecords) : Grows(t, evs)
    BY BuildingGrows
  <2>8. PICK u \in Tids : u = stack[l].tid /\ u = stack'[l].tid /\ l \in DOMAIN stack'
    <3>1. Len(stack') = Len(stack) /\ stack'[l].tid = stack[l].tid
      BY <1>6, <2>1 DEF GoesOn
    <3>2. DOMAIN stack' = 1..Len(stack')
      BY DEF Inv, Typed
    <3>3. QED
      BY <3>1, <3>2, FrameBody
  <2>9. threads'[u].spawnSite # NoSpawn /\ threads'[u].entry = IRNow'.entry
    BY <1>3, <2>1, <2>6, <2>7, <2>8 DEF Grows
  <2>10. IsRecursiveThreadSpawn(IRNow.entry)'
    BY <2>8, <2>9 DEF IsRecursiveThreadSpawn
  <2>11. QED
    BY <2>10
<1>8. CASE ~Staying
  <2>1. /\ n = Len(stack) - 1 /\ Len(stack) \in 2..Len(stack) /\ LowerIR(Len(stack)) = prev
        /\ stack[n] = stack[Len(stack) - 1]
    BY <1>1, <1>6, <1>8 DEF LowerIR
  <2>2. stack[Len(stack)].tid # stack[Len(stack) - 1].tid
    BY <1>4, <2>1 DEF FrameLinks, Link
  <2>3. PICK u \in Tids : u = Tid' /\ u = stack[Len(stack) - 1].tid
    BY <1>6, <2>1, FrameBody
  <2>4. /\ prev = SpawnIR(Tid) /\ threads[Tid].spawnSite # NoSpawn
        /\ threads[Tid].spawnSite = <<u, Len(threads[u].events)>>
    BY <1>1, <2>1, <2>2, <2>3, OlderBelow DEF FrameLinks, Link, TwinInv, SiteLast
  <2>5. threads[u].events \in Seq(EventRecords)
    BY ThreadTyped DEF Inv, Typed, Tids
  <2>6. Len(threads[u].events) > 0 /\ prev = threads[u].events[Len(threads[u].events)].ir
    <3>1. threads[Tid].spawnSite \in EventPIDs
      BY <1>1, <2>4, SiteOfThread DEF Inv
    <3>2. Len(threads[u].events) \in DOMAIN threads[u].events
      BY <2>4, <3>1, EventPIDsAre
    <3>3. QED
      BY <2>4, <2>5, <3>2 DEF SpawnIR, EventAt
  <2>7. threads'[u].events = threads[u].events
    <3>1. ReturnFromThread
      <4>1. Caller.tid # Tid
        BY <1>1, <2>2 DEF Caller
      <4>2. QED
        BY <1>5, <1>8, <4>1 DEF Building, ReturnFromCall
    <3>2. PICK parent : ReturnsToFork(parent)
      BY <3>1, ReturnFromThreadReturns
    <3>3. PICK none : none = <<>>
      OBVIOUS
    <3>4. threads'[parent].events = threads[parent].events \o none /\ parent = u
      BY <2>3, <3>2, <3>3 DEF ReturnsToFork, Grows, Caller
    <3>5. QED
      BY <2>5, <3>3, <3>4
  <2>8. Thread'.events = threads[u].events
    BY <2>3, <2>7 DEF Thread
  <2>9. ForksLast(Thread.events, IRNow.entry)'
    BY <1>3, <2>6, <2>8 DEF ForksLast
  <2>10. QED
    BY <2>9
<1>9. QED
  BY <1>7, <1>8

LEMMA TwinNext ==
  ASSUME Inv, Inv', TreeInv, FrameLinks, SkipInv, TwinInv, [Next]_vars
  PROVE  TwinInv'
<1>1. CASE Building
  BY <1>1, SiteLastStays, AtTwinStays, AdjacentStays DEF TwinInv
<1>2. CASE ~Building
  <2>1. /\ UNCHANGED <<threads, program>>
        /\ stack' = stack \/ (stack' = <<>> /\ Len(stack') = 0)
    BY <1>2, OtherRuntime
  <2>2. status' = "building" => status = "building" /\ stack' = stack
    <3>1. ReturnFromMain \/ Flatten \/ Finish \/ Abort \/ UNCHANGED vars
      BY <1>2, OtherSteps
    <3>2. QED
      BY <3>1 DEF ReturnFromMain, Flatten, Finish, Abort, vars
  <2>3. SiteLast'
    <3>1. CASE stack' = stack
      BY <2>1, <3>1 DEF TwinInv, SiteLast
    <3>2. CASE Len(stack') = 0
      BY <3>2 DEF SiteLast
    <3>3. QED
      BY <2>1, <3>1, <3>2
  <2>4. AtTwin'
    BY <2>1, <2>2 DEF TwinInv, AtTwin, HasIR, Skips, SecondFork, IRNow, IRAt, Top, Tid, Thread,
                      IsRecursiveThreadSpawn, ForksLast
  <2>5. Adjacent'
    BY <2>1 DEF TwinInv, Adjacent, Tids
  <2>6. QED
    BY <2>3, <2>4, <2>5 DEF TwinInv
<1>3. QED
  BY <1>1, <1>2

LEMMA TwinInit ==
  ASSUME Init
  PROVE  TwinInv
<1>1. /\ stack = <<Frame(1, program.main, InitialCtx)>> /\ program \in Programs
      /\ threads = <<NewThread(NoSpawn, program.main, InitialCtx)>>
  BY DEF Init
<1>2. Len(threads) = 1 /\ Len(stack) = 1 /\ threads[1].events = <<>> /\ Top.pos = 1
      /\ Top.fn = program.main /\ Top = stack[1]
  BY <1>1 DEF NewThread, Frame, Top
<1>3. SiteLast
  BY <1>2 DEF SiteLast
<1>4. Adjacent
  <2>1. \A t \in Tids : threads[t].events = <<>>
    BY <1>2 DEF Tids
  <2>2. \A k : k \notin 1..Len(<<>>)
    OBVIOUS
  <2>3. QED
    BY <2>1, <2>2 DEF Adjacent
<1>5. AtTwin
  <2>1. ASSUME HasIR, SecondFork(IRNow) PROVE FALSE
    <3>1. Inv
      BY InitInv
    <3>2. 1 \in 1..Len(stack) /\ stack[1].pos <= Len(Body(1)) /\ IRNow = IRAt(stack[1])
      BY <1>2, <2>1 DEF HasIR, IRNow, Body
    <3>3. stack[1].fn \in DOMAIN program.body /\ IRNow = Body(1)[1] /\ 1 \in DOMAIN Body(1)
      BY <1>2, <3>1, <3>2, FrameIR, FrameBody
    <3>4. PairsForks(program)
      BY <1>1, RegionsAssumption
    <3>5. QED
      BY <2>1, <3>3, <3>4 DEF PairsForks, SecondFork, Body
  <2>2. QED
    BY <2>1 DEF AtTwin
<1>6. QED
  BY <1>3, <1>4, <1>5 DEF TwinInv

LEMMA TwinsShareEntry ==
  ASSUME Inv, TreeInv, TwinInv, NEW t \in Tids, NEW u \in Tids, Twins(t, u)
  PROVE  /\ t \in Spawned /\ u \in Spawned /\ threads[t].entry = threads[u].entry
         /\ Parent(t) = Parent(u)
         /\ SpawnIR(t).type = "OpenMPFork" /\ SpawnIR(u).type = "OpenMPFork"
<1>1. PICK m, n : m = threads[t].spawnSite /\ n = threads[u].spawnSite
  OBVIOUS
<1>2. /\ m # NoSpawn /\ n # NoSpawn /\ n = <<m[1], m[2] + 1>>
      /\ EventAt(m).ir.type = "OpenMPFork" /\ EventAt(n).ir.type = "OpenMPFork"
      /\ ~EventAt(n).ir.master
  BY <1>1 DEF Twins
<1>3. t \in Spawned /\ u \in Spawned
  <2>1. \A v \in Tids : v # 1 => v \in Spawned
    BY Numbers DEF Spawned, Tids, Positions
  <2>2. threads[1].spawnSite = NoSpawn
    BY DEF TreeInv, SpawnTree
  <2>3. QED
    BY <1>1, <1>2, <2>1, <2>2
<1>4. m \in EventPIDs /\ n \in ForkEvents /\ n \in EventPIDs
  BY <1>1, <1>2 DEF Inv, SpawnInv, ForkEvents
<1>5. PICK p \in Tids, k \in Nat, l \in Nat :
        /\ m = <<p, k>> /\ n = <<p, l>> /\ l = k + 1
        /\ k \in 1..Len(threads[p].events) /\ l \in 1..Len(threads[p].events)
  <2>1. /\ m = <<m[1], m[2]>> /\ m[1] \in DOMAIN threads /\ m[2] \in DOMAIN threads[m[1]].events
        /\ n = <<n[1], n[2]>> /\ n[1] \in DOMAIN threads /\ n[2] \in DOMAIN threads[n[1]].events
    BY <1>4, EventPIDsAre
  <2>2. n[1] = m[1] /\ n[2] = m[2] + 1
    BY <1>2
  <2>3. m[1] \in Tids
    BY <2>1 DEF Inv, Typed, Tids
  <2>4. threads[m[1]].events \in Seq(EventRecords)
    BY <2>3, ThreadTyped DEF Inv, Typed, Tids
  <2>5. QED
    BY <2>1, <2>2, <2>3, <2>4
<1>6. PICK events : /\ events = threads[p].events /\ events[k] = EventAt(m) /\ events[l] = EventAt(n)
  BY <1>5 DEF EventAt
<1>7. events[l].type = "Fork" /\ SecondFork(events[l].ir) /\ l - 1 = k
  <2>1. events[l].type = "Fork"
    BY <1>4, <1>6 DEF ForkEvents
  <2>2. QED
    BY <1>2, <1>5, <1>6, <2>1 DEF SecondFork
<1>8. events[k].ir.entry = events[l].ir.entry
  BY <1>5, <1>6, <1>7 DEF TwinInv, Adjacent
<1>9. SpawnIR(t) = events[k].ir /\ SpawnIR(u) = events[l].ir
  BY <1>1, <1>6 DEF SpawnIR
<1>10. threads[t].entry = SpawnIR(t).entry /\ threads[u].entry = SpawnIR(u).entry
  BY <1>1, <1>2, EntryIs
<1>11. Parent(t) = p /\ Parent(u) = p
  BY <1>1, <1>5 DEF Parent
<1>12. QED
  BY <1>2, <1>3, <1>6, <1>8, <1>9, <1>10, <1>11

-----------------------------------------------------------------------------
(***************************************************************************)
(* A thread stands at a configuration of the machine: its frames are the   *)
(* activations, up to the one that is in a master region if one is.  The   *)
(* last activation is at the end of the region that its frame is in or     *)
(* skips, and where its frame is otherwise.                                *)
(***************************************************************************)
Under(t, c, b) ==
  /\ b \in Nat /\ Len(c.at) > 0 /\ b + Len(c.at) <= Len(stack)
  /\ \A j \in 1..(b + Len(c.at)) : stack[j].tid = t <=> b < j
  /\ \A i \in 1..Len(c.at) : c.at[i].fn = stack[b + i].fn
  /\ \A i \in 1..(Len(c.at) - 1) : c.at[i].pos = stack[b + i].pos

LastOf(t, n) == \A j \in 1..Len(stack) : n < j => stack[j].tid # t

OutOfRegions(t) == \A j \in 1..Len(stack) : stack[j].tid = t => ~Inside(j)

StandsAt(t, n, pos) ==
  IF Open(t) THEN \E k \in Nat : OpenAt(n, k) /\ Closes(Body(n), k, pos)
  ELSE LastOf(t, n) /\ Reaches(n, pos) /\ OutOfRegions(t)

Stands(t, c) ==
  /\ c \in Configs(program) /\ c.code = TeamCode(t)
  /\ IF c.at = <<>> THEN LastOf(t, 0)
     ELSE \E b \in Nat : Under(t, c, b) /\ StandsAt(t, b + Len(c.at), PosOf(c))

LEMMA ConfigTyped ==
  ASSUME NEW p, NEW c \in Configs(p)
  PROVE  /\ c.at \in Seq(Activations(p)) /\ c.code \in Seq(Symbols) /\ Len(c.at) \in Nat
         /\ c.at # <<>> <=> Len(c.at) > 0
         /\ \A i \in 1..Len(c.at) : c.at[i].fn \in DOMAIN p.body /\ c.at[i].pos \in Positions
<1>1. c.at \in Seq(Activations(p)) /\ c.code \in Seq(Symbols)
  BY DEF Configs
<1>2. \A i \in 1..Len(c.at) : c.at[i] \in Activations(p)
  BY <1>1
<1>3. QED
  BY <1>1, <1>2 DEF Activations

\* What a configuration of the thread has on the stack.
Lies(t, c, b, n) ==
  /\ b \in Nat /\ Len(c.at) \in Nat /\ Len(c.at) \in 1..Len(c.at) /\ n \in Nat
  /\ n = b + Len(c.at)
  /\ n \in 1..Len(stack) /\ n \in 1..n /\ b < n /\ stack[n].tid = t
  /\ \A i \in 1..Len(c.at) : b + i \in 1..n /\ b + i \in 1..Len(stack) /\ stack[b + i].tid = t
  /\ \A j \in 1..n : b < j => j - b \in 1..Len(c.at) /\ b + (j - b) = j
  /\ c.at[Len(c.at)].fn = stack[n].fn /\ BodyOf(program, c) = Body(n)

LEMMA UnderFrames ==
  ASSUME Inv, NEW t, NEW c \in Configs(program), NEW b, Under(t, c, b),
         NEW n, n = b + Len(c.at)
  PROVE  Lies(t, c, b, n)
<1>1. /\ b \in Nat /\ Len(c.at) \in Nat /\ Len(c.at) > 0 /\ n <= Len(stack)
      /\ Len(stack) \in Nat
  BY Numbers, ConfigTyped DEF Under
<1>2. Len(c.at) \in 1..Len(c.at) /\ n \in 1..Len(stack) /\ n \in 1..n /\ b < n
  BY <1>1
<1>3. stack[n].tid = t
  BY <1>2 DEF Under
<1>4. ASSUME NEW i \in 1..Len(c.at)
      PROVE  b + i \in 1..n /\ b + i \in 1..Len(stack) /\ stack[b + i].tid = t
  <2>1. b + i \in 1..n /\ b + i \in 1..Len(stack) /\ b < b + i
    BY <1>1
  <2>2. QED
    BY <2>1 DEF Under
<1>5. \A j \in 1..n : b < j => j - b \in 1..Len(c.at) /\ b + (j - b) = j
  BY <1>1
<1>6. c.at[Len(c.at)].fn = stack[n].fn
  BY <1>2 DEF Under
<1>7. BodyOf(program, c) = Body(n)
  BY <1>6 DEF BodyOf, Body
<1>8. QED
  BY <1>1, <1>2, <1>3, <1>4, <1>5, <1>6, <1>7 DEF Lies

\* The frames below n stay as they are, and n is of the same activation.
Keeps(n) ==
  /\ n \in Nat /\ n <= Len(stack) /\ n <= Len(stack') /\ Len(stack') \in Nat
  /\ \A i \in 1..n : stack'[i].tid = stack[i].tid /\ stack'[i].fn = stack[i].fn
  /\ \A i \in 1..n : i # n => stack'[i] = stack[i]

LEMMA KeepsFrames ==
  ASSUME Inv, Building, NEW n \in 1..Len(stack), n <= Len(stack')
  PROVE  Keeps(n)
<1>1. Len(stack) \in Nat /\ n \in Nat
  BY Numbers
<1>2. CASE VisitCall \/ VisitFork
  <2>1. Len(stack') = Len(stack) + 1 /\ \A i \in 1..Len(stack) : stack'[i] = stack[i]
    BY <1>2, StackMoves
  <2>2. \A i \in 1..n : i \in 1..Len(stack)
    BY <1>1
  <2>3. QED
    BY <1>1, <2>1, <2>2 DEF Keeps
<1>3. CASE ~(VisitCall \/ VisitFork)
  <2>1. PICK m \in 1..Len(stack) : GoesOn(m)
    BY <1>3, StackMoves DEF Building
  <2>2. /\ Len(stack') = m /\ m \in Nat
        /\ \A i \in 1..m : stack'[i].tid = stack[i].tid /\ stack'[i].fn = stack[i].fn
        /\ \A i \in 1..m : i # m => stack'[i] = stack[i]
    BY <1>1, <2>1 DEF GoesOn
  <2>3. \A i \in 1..n : i \in 1..m /\ (i # n => i # m)
    BY <1>1, <2>2
  <2>4. QED
    BY <1>1, <2>2, <2>3 DEF Keeps
<1>4. QED
  BY <1>2, <1>3

LEMMA UnderKept ==
  ASSUME Inv, program' = program, NEW t, NEW c \in Configs(program), NEW b, Under(t, c, b),
         Keeps(b + Len(c.at))
  PROVE  Under(t, c, b)'
<1>1. PICK n : n = b + Len(c.at)
  OBVIOUS
<1>0. Lies(t, c, b, n)
  BY <1>1, UnderFrames
<1>2. /\ b \in Nat /\ Len(c.at) \in Nat /\ n \in 1..Len(stack)
      /\ \A i \in 1..Len(c.at) : b + i \in 1..n
  BY <1>0 DEF Lies
<1>3. \A j \in 1..n : stack'[j].tid = t <=> b < j
  BY <1>1 DEF Under, Keeps
<1>4. \A i \in 1..Len(c.at) : c.at[i].fn = stack'[b + i].fn
  BY <1>1, <1>2 DEF Under, Keeps
<1>5. ASSUME NEW i \in 1..(Len(c.at) - 1) PROVE c.at[i].pos = stack'[b + i].pos
  <2>1. i \in 1..Len(c.at) /\ b + i # n
    BY <1>1, <1>2
  <2>2. stack'[b + i] = stack[b + i]
    BY <1>1, <1>2, <2>1 DEF Keeps
  <2>3. QED
    BY <2>2 DEF Under
<1>6. Len(c.at) > 0 /\ n <= Len(stack')
  BY <1>1 DEF Under, Keeps
<1>7. QED
  BY <1>1, <1>2, <1>3, <1>4, <1>5, <1>6 DEF Under

\* A thread in a master region stands where it stood, whoever runs.
LEMMA OpenStands ==
  ASSUME Inv, FrameLinks, SkipInv, Building, NEW t, Open(t), Open(t)',
         TeamCode(t)' = TeamCode(t), NEW c, c.at # <<>>, Stands(t, c),
         ~(VisitExternCall /\ IRNow.type \in MasterMarks /\ MasterThread(Tid))
  PROVE  Stands(t, c)'
<1>1. c \in Configs(program) /\ c.code = TeamCode(t) /\ program' = program
  BY StackMoves DEF Stands
<1>2. PICK b \in Nat : Under(t, c, b) /\ StandsAt(t, b + Len(c.at), PosOf(c))
  BY DEF Stands
<1>3. PICK n : n = b + Len(c.at)
  OBVIOUS
<1>4. PICK k \in Nat : OpenAt(n, k) /\ Closes(Body(n), k, PosOf(c))
  BY <1>2, <1>3 DEF StandsAt
<1>0. Lies(t, c, b, n)
  BY <1>1, <1>2, <1>3, UnderFrames
<1>5. n \in 1..Len(stack) /\ status = "building"
  BY <1>0, BuildingStays DEF Lies
<1>6. MasterThread(Tid) => ~Skips(Tid)
  BY <1>5, SkipStep
<1>7. n \in 1..Len(stack') /\ OpenAt(n, k)'
  BY <1>4, <1>5, <1>6, OpenKept
<1>8. Keeps(n)
  BY <1>5, <1>7, KeepsFrames
<1>9. Under(t, c, b)'
  BY <1>1, <1>2, <1>3, <1>8, UnderKept
<1>10. Body(n)' = Body(n)
  <2>1. n \in 1..n
    BY <1>5, Numbers
  <2>2. QED
    BY <1>1, <1>8, <2>1 DEF Keeps, Body
<1>11. Closes(Body(n), k, PosOf(c))'
  BY <1>4, <1>10 DEF Closes, PosOf
<1>12. StandsAt(t, n, PosOf(c))'
  BY <1>4, <1>7, <1>11 DEF StandsAt
<1>13. QED
  BY <1>1, <1>2, <1>3, <1>9, <1>12 DEF Stands, PosOf

LEMMA RunningIs ==
  /\ Tid = stack[Len(stack)].tid
  /\ Tid' = stack'[Len(stack')].tid
  BY DEF Tid, Top

\* Who is in no region, and whose frames stay, stands where it stood.
LEMMA AwayStands ==
  ASSUME Inv, Building, NEW t, ~Open(t), ~Open(t)', TeamCode(t)' = TeamCode(t),
         ~Skips(t), ~Skips(t)',
         NEW c, c.at # <<>>, Stands(t, c),
         NEW m \in Nat, m <= Len(stack), m <= Len(stack'), Len(stack') \in Nat,
         \A i \in 1..m : stack'[i] = stack[i],
         \A i \in 1..Len(stack) : m < i => stack[i].tid # t,
         \A i \in 1..Len(stack') : m < i => stack'[i].tid # t
  PROVE  Stands(t, c)'
<1>1. c \in Configs(program) /\ c.code = TeamCode(t) /\ program' = program
  BY StackMoves DEF Stands
<1>2. PICK b \in Nat : Under(t, c, b) /\ StandsAt(t, b + Len(c.at), PosOf(c))
  BY DEF Stands
<1>3. PICK n : n = b + Len(c.at)
  OBVIOUS
<1>4. Lies(t, c, b, n)
  BY <1>1, <1>2, <1>3, UnderFrames
<1>5. /\ n \in 1..Len(stack) /\ n \in Nat /\ stack[n].tid = t /\ Len(stack) \in Nat
      /\ n \in 1..n
  BY <1>4, Numbers DEF Lies
<1>6. n \in 1..m /\ \A i \in 1..n : i \in 1..m
  <2>1. ~(m < n)
    BY <1>5
  <2>2. QED
    BY <1>5, <2>1
<1>7. Keeps(n)
  BY <1>5, <1>6 DEF Keeps
<1>8. Under(t, c, b)'
  BY <1>1, <1>2, <1>3, <1>7, UnderKept
<1>9. LastOf(t, n) /\ Reaches(n, PosOf(c)) /\ OutOfRegions(t)
  BY <1>2, <1>3 DEF StandsAt
<1>10. LastOf(t, n)'
  <2>1. ASSUME NEW j \in 1..Len(stack'), n < j PROVE stack'[j].tid # t
    <3>1. CASE m < j
      BY <3>1
    <3>2. CASE ~(m < j)
      <4>1. j \in 1..m /\ j \in 1..Len(stack)
        BY <1>5, <3>2
      <4>2. QED
        BY <1>9, <2>1, <4>1 DEF LastOf
    <3>3. QED
      BY <3>1, <3>2
  <2>2. QED
    BY <2>1 DEF LastOf
<1>11. PosOf(c) = stack'[n].pos
  <2>1. n = Len(stack) => Tid = t
    BY <1>5, RunningIs
  <2>2. PosOf(c) = stack[n].pos
    BY <1>9, <2>1 DEF Reaches
  <2>3. QED
    BY <1>6, <2>2
<1>12. Reaches(n, PosOf(c))'
  <2>1. stack'[n].tid = t
    BY <1>5, <1>6
  <2>2. n = Len(stack') => Tid' = t
    BY <2>1, RunningIs
  <2>3. n = Len(stack') => ~Skips(Tid)'
    BY <2>2 DEF Skips
  <2>4. QED
    BY <1>11, <2>3 DEF Reaches, PosOf
<1>13. OutOfRegions(t)'
  <2>1. ASSUME NEW j \in 1..Len(stack'), stack'[j].tid = t PROVE ~Inside(j)'
    <3>1. j \in 1..m /\ j \in 1..Len(stack)
      BY <2>1
    <3>2. stack'[j] = stack[j]
      BY <3>1
    <3>3. \A k : OpenAt(j, k)' <=> OpenAt(j, k)
      BY <3>1, <3>2, OpenStays
    <3>4. ~Inside(j)
      BY <1>9, <2>1, <3>1, <3>2 DEF OutOfRegions
    <3>5. QED
      BY <3>3, <3>4 DEF Inside
  <2>2. QED
    BY <2>1 DEF OutOfRegions
<1>14. StandsAt(t, n, PosOf(c))'
  BY <1>10, <1>12, <1>13 DEF StandsAt
<1>15. QED
  BY <1>1, <1>2, <1>3, <1>8, <1>14 DEF Stands, PosOf

\* Where a thread goes, there is a configuration.
LEMMA GoesStands ==
  ASSUME Inv, Inv', program' = program, NEW t \in Tids', NEW c \in Configs(program),
         NEW b, Under(t, c, b), NEW m \in 1..Len(c.at), NEW n, n = b + m, GoesOn(n),
         NEW pos \in Positions, StandsAt(t, n, pos)'
  PROVE  \E d \in Configs(program) :
           GoesTo(c, d, m, pos) /\ d.code = TeamCode(t)' /\ Stands(t, d)'
<1>1. PICK l : l = b + Len(c.at)
  OBVIOUS
<1>2. Lies(t, c, b, l)
  BY <1>1, UnderFrames
<1>3. /\ b \in Nat /\ Len(c.at) \in Nat /\ m \in Nat /\ n <= l /\ m > 0 /\ n \in Nat
      /\ Len(stack) \in Nat /\ l <= Len(stack)
  BY <1>1, <1>2, Numbers DEF Lies
<1>4. TeamCode(t)' \in Seq(Symbols)
  <2>1. threads'[t].events \in Seq(EventRecords)
    BY ThreadTyped DEF Inv, Typed, Tids
  <2>2. QED
    BY <2>1, CodeThen, CodeByRank
<1>5. \A i \in 1..Len(c.at) : c.at[i].fn \in DOMAIN program.body /\ c.at[i].pos \in Positions
  BY ConfigTyped
<1> DEFINE act(i) == [fn |-> c.at[i].fn, pos |-> IF i = m THEN pos ELSE c.at[i].pos]
<1>6. PICK at : at = [i \in 1..m |-> act(i)]
  OBVIOUS
<1>7. \A i \in 1..m : i \in 1..Len(c.at) /\ act(i) \in Activations(program)
  BY <1>3, <1>5 DEF Activations
<1>8. at \in Seq(Activations(program)) /\ Len(at) = m /\ at # <<>>
  <2>1. PICK A : A = Activations(program)
    OBVIOUS
  <2> HIDE DEF act
  <2>2. at \in [1..m -> A]
    BY <1>6, <1>7, <2>1
  <2>3. at \in Seq(A) /\ Len(at) = m
    BY <1>3, <2>2
  <2>4. QED
    BY <1>3, <2>1, <2>3
<1>9. \A i \in 1..m : at[i].fn = c.at[i].fn /\ at[i].pos = IF i = m THEN pos ELSE c.at[i].pos
  BY <1>6
<1> HIDE DEF act
<1>10. PICK d : d = [at |-> at, code |-> TeamCode(t)']
  OBVIOUS
<1>11. d \in Configs(program) /\ d.at = at /\ d.code = TeamCode(t)'
  BY <1>4, <1>8, <1>10 DEF Configs
<1>12. GoesTo(c, d, m, pos) /\ PosOf(d) = pos
  BY <1>3, <1>8, <1>9, <1>11 DEF GoesTo, PosOf
<1>13. Under(t, d, b)'
  <2>1. Len(stack') = n /\ b + Len(d.at) = n /\ Len(d.at) > 0
    BY <1>3, <1>8, <1>11 DEF GoesOn
  <2>2. ASSUME NEW j \in 1..n PROVE stack'[j].tid = t <=> b < j
    <3>1. j \in 1..(b + Len(c.at))
      BY <1>1, <1>3
    <3>2. QED
      BY <3>1 DEF GoesOn, Under
  <2>3. ASSUME NEW i \in 1..m PROVE d.at[i].fn = stack'[b + i].fn
    <3>1. b + i \in 1..n /\ i \in 1..Len(c.at)
      BY <1>3
    <3>2. QED
      BY <1>9, <1>11, <3>1 DEF GoesOn, Under
  <2>4. ASSUME NEW i \in 1..(m - 1) PROVE d.at[i].pos = stack'[b + i].pos
    <3>1. b + i \in 1..n /\ b + i # n /\ i \in 1..(Len(c.at) - 1) /\ i \in 1..m /\ i # m
      BY <1>3
    <3>2. QED
      BY <1>9, <1>11, <3>1 DEF GoesOn, Under
  <2>5. QED
    BY <1>3, <1>8, <1>11, <2>1, <2>2, <2>3, <2>4 DEF Under
<1>14. StandsAt(t, b + Len(d.at), PosOf(d))'
  BY <1>8, <1>11, <1>12 DEF PosOf
<1>15. Stands(t, d)'
  BY <1>3, <1>8, <1>11, <1>13, <1>14 DEF Stands, PosOf
<1>16. QED
  BY <1>11, <1>12, <1>15

\* Only the marks of a master thread open regions.
LEMMA OutStays ==
  ASSUME Inv, FrameLinks, SkipInv, Building,
         ~(VisitExternCall /\ IRNow.type \in MasterMarks /\ MasterThread(Tid)),
         NEW t, OutOfRegions(t)
  PROVE  OutOfRegions(t)'
<1>1. MasterThread(Tid) => ~Skips(Tid)
  BY BuildingStays, SkipStep
<1>2. ASSUME NEW i \in 1..Len(stack'), stack'[i].tid = t, NEW k, OpenAt(i, k)', k \in Nat
      PROVE  FALSE
  <2>1. i \in 1..Len(stack) /\ OpenAt(i, k)
    BY <1>1, <1>2, OpenKept
  <2>2. Keeps(i)
    BY <1>2, <2>1, KeepsFrames
  <2>3. i \in 1..i
    BY <1>2
  <2>4. stack[i].tid = t
    BY <1>2, <2>2, <2>3 DEF Keeps
  <2>5. QED
    BY <1>2, <2>1, <2>4 DEF OutOfRegions, Inside
<1>3. QED
  BY <1>2 DEF OutOfRegions, Inside

\* The running thread is at the top of the stack.
AtTop(t, c, b) ==
  /\ Under(t, c, b) /\ b + Len(c.at) = Len(stack) /\ c.at # <<>>
  /\ c \in Configs(program) /\ c.code = TeamCode(t)
  /\ Reaches(Len(stack), PosOf(c)) /\ OutOfRegions(t)

LEMMA RunningAtTop ==
  ASSUME Inv, Building, NEW t, t = Tid, ~Open(t), NEW c, Stands(t, c)
  PROVE  \E b : AtTop(t, c, b)
<1>1. Len(stack) \in 1..Len(stack) /\ Len(stack) > 0 /\ stack[Len(stack)].tid = t
  BY TopFrame
<1>2. c.at # <<>>
  BY <1>1 DEF Stands, LastOf
<1>3. PICK b \in Nat : Under(t, c, b) /\ StandsAt(t, b + Len(c.at), PosOf(c))
  BY <1>2 DEF Stands
<1>4. PICK n : n = b + Len(c.at)
  OBVIOUS
<1>5. c \in Configs(program) /\ c.code = TeamCode(t)
  BY DEF Stands
<1>6. Lies(t, c, b, n)
  BY <1>3, <1>4, <1>5, UnderFrames
<1>7. LastOf(t, n) /\ Reaches(n, PosOf(c)) /\ OutOfRegions(t)
  BY <1>3, <1>4 DEF StandsAt
<1>8. ~(n < Len(stack))
  BY <1>1, <1>7 DEF LastOf
<1>9. n = Len(stack)
  BY <1>6, <1>8 DEF Lies
<1>10. QED
  BY <1>2, <1>3, <1>4, <1>5, <1>7, <1>9 DEF AtTop

\* What the machine sees there is what the program sees.
SeesIR(c) ==
  /\ PosOf(c) = stack[Len(stack)].pos /\ BodyOf(program, c) = Body(Len(stack))
  /\ IROf(program, c) = IRNow /\ (Runs(program, c) <=> HasIR)
  /\ CallsOne(program, c) <=> /\ Kind(IRNow) = "Call" /\ IRNow.callee \in DOMAIN program.body
                              /\ ~OnCallStack(IRNow.callee)

LEMMA TopSees ==
  ASSUME Inv, Building, NEW t, t = Tid, NEW c, NEW b, AtTop(t, c, b),
         PosOf(c) = stack[Len(stack)].pos
  PROVE  SeesIR(c)
<1>1. /\ Len(stack) \in 1..Len(stack) /\ Len(stack) \in Nat /\ status = "building"
      /\ Top = stack[Len(stack)]
  BY TopFrame, BuildingStays
<1>2. PICK n : n = b + Len(c.at)
  OBVIOUS
<1>3. Lies(t, c, b, n) /\ n = Len(stack)
  BY <1>2, UnderFrames DEF AtTop
<1>4. BodyOf(program, c) = Body(Len(stack))
  BY <1>3 DEF Lies
<1>5. IROf(program, c) = IRNow
  BY <1>4, StackMoves DEF IROf
<1>6. Runs(program, c) <=> HasIR
  BY <1>1, <1>4 DEF Runs, HasIR, Body
<1>7. ASSUME NEW fn PROVE OnCallStack(fn) <=> \E i \in 1..Len(c.at) : c.at[i].fn = fn
  <2>1. DOMAIN stack = 1..Len(stack)
    BY DEF Inv, Typed
  <2>2. ASSUME NEW i \in 1..Len(stack), stack[i].tid = t
        PROVE  i - b \in 1..Len(c.at) /\ c.at[i - b].fn = stack[i].fn
    <3>1. b < i
      BY <1>2, <1>3, <2>2 DEF AtTop, Under
    <3>2. i - b \in 1..Len(c.at) /\ b + (i - b) = i
      BY <1>3, <3>1 DEF Lies
    <3>3. QED
      BY <3>2 DEF AtTop, Under
  <2>3. ASSUME NEW i \in 1..Len(c.at)
        PROVE  b + i \in 1..Len(stack) /\ stack[b + i].tid = t /\ stack[b + i].fn = c.at[i].fn
    BY <1>3 DEF Lies, AtTop, Under
  <2>4. ASSUME OnCallStack(fn) PROVE \E i \in 1..Len(c.at) : c.at[i].fn = fn
    <3>1. PICK i \in 1..Len(stack) : stack[i].tid = t /\ stack[i].fn = fn
      BY <2>1, <2>4 DEF OnCallStack
    <3>2. i - b \in 1..Len(c.at) /\ c.at[i - b].fn = fn
      BY <2>2, <3>1
    <3>3. QED
      BY <3>2
  <2>5. ASSUME NEW i \in 1..Len(c.at), c.at[i].fn = fn PROVE OnCallStack(fn)
    <3>1. PICK j : j = b + i
      OBVIOUS
    <3>2. j \in DOMAIN stack /\ stack[j].tid = Tid /\ stack[j].fn = fn
      BY <2>1, <2>3, <2>5, <3>1
    <3>3. QED
      BY <3>2 DEF OnCallStack
  <2>6. QED
    BY <2>4, <2>5
<1>8. CallsOne(program, c) <=> /\ Kind(IRNow) = "Call" /\ IRNow.callee \in DOMAIN program.body
                               /\ ~OnCallStack(IRNow.callee)
  BY <1>5, <1>7 DEF CallsOne
<1>9. QED
  BY <1>4, <1>5, <1>6, <1>8 DEF SeesIR

\* Where the code goes on behind an IR, the machine steps over it.
LEMMA OverStands ==
  ASSUME Inv, Inv', program' = program, NEW t \in Tids', NEW c \in Configs(program), c.at # <<>>,
         NEW b, Under(t, c, b), NEW n, n = b + Len(c.at), GoesOn(n),
         PosOf(c) = stack[n].pos, stack[n].pos <= Len(Body(n)),
         NEW ir, ir = Body(n)[stack[n].pos], ir.type # "OpenMPMasterStart",
         ~CallsOne(program, c), NEW teams,
         TeamCode(t)' = IF Codes(teams, ir) THEN Append(c.code, ir) ELSE c.code,
         ~Open(t)', OutOfRegions(t)', ~Skips(t)'
  PROVE  \E d : Moves(program, teams, c, d) /\ Stands(t, d)'
<1>1. Lies(t, c, b, n)
  BY UnderFrames
<1>2. n \in 1..Len(stack) /\ stack[n].tid = t /\ BodyOf(program, c) = Body(n) /\ n \in 1..n
  BY <1>1 DEF Lies
<1>3. PICK pos : pos = stack[n].pos + 1
  OBVIOUS
<1>4. pos \in Positions
  BY <1>2, <1>3, FrameBody DEF Positions
<1>5. stack'[n].pos = pos /\ stack'[n].tid = t /\ Len(stack') = n
  BY <1>2, <1>3 DEF GoesOn
<1>6. Reaches(n, pos)'
  <2>1. Tid' = t
    BY <1>5, RunningIs
  <2>2. ~Skips(Tid)'
    BY <2>1 DEF Skips
  <2>3. QED
    BY <1>5, <2>2 DEF Reaches
<1>7. LastOf(t, n)'
  <2>1. n \in Nat /\ \A j \in 1..n : ~(n < j)
    BY <1>1 DEF Lies
  <2>2. QED
    BY <1>5, <2>1 DEF LastOf
<1>8. StandsAt(t, n, pos)'
  BY <1>6, <1>7 DEF StandsAt
<1>9. PICK m : m = Len(c.at)
  OBVIOUS
<1>10. m \in 1..Len(c.at)
  BY <1>1, <1>9 DEF Lies
<1>11. PICK d \in Configs(program) : GoesTo(c, d, m, pos) /\ d.code = TeamCode(t)' /\ Stands(t, d)'
  BY <1>4, <1>8, <1>9, <1>10, GoesStands
<1>12. IROf(program, c) = ir /\ Runs(program, c)
  BY <1>2 DEF IROf, Runs
<1>13. StepsOver(program, teams, c, d)
  BY <1>3, <1>9, <1>11, <1>12 DEF StepsOver
<1>14. QED
  BY <1>11, <1>13 DEF Moves

LEMMA TopLies ==
  ASSUME Inv, Building, NEW t, t = Tid, NEW c, NEW b, AtTop(t, c, b), NEW n, n = Len(stack)
  PROVE  /\ Lies(t, c, b, n) /\ c \in Configs(program) /\ Under(t, c, b) /\ n = b + Len(c.at)
         /\ c.at # <<>> /\ t \in Tids /\ stack[n].tid = t /\ IRNow = Body(n)[stack[n].pos]
         /\ c.code = TeamCode(t)
<1>1. c \in Configs(program) /\ Under(t, c, b) /\ n = b + Len(c.at)
  BY DEF AtTop
<1>2. Lies(t, c, b, n)
  BY <1>1, UnderFrames
<1>3. QED
  BY <1>1, <1>2, TopFrame, StackMoves DEF AtTop

\* Out of regions, an IR that is no master region and no call to go into.
LEMMA TopOver ==
  ASSUME Inv, Inv', FrameLinks, SkipInv, Staying, NEW t, t = Tid, t \in Tids', NEW c, NEW b,
         AtTop(t, c, b), PosOf(c) = stack[Len(stack)].pos,
         IRNow.type # "OpenMPMasterStart",
         ~(VisitExternCall /\ IRNow.type \in MasterMarks /\ MasterThread(Tid)),
         ~CallsOne(program, c), NEW teams,
         TeamCode(t)' = IF Codes(teams, IRNow) THEN Append(TeamCode(t), IRNow) ELSE TeamCode(t),
         ~Open(t)', ~Skips(t)'
  PROVE  \E d : Moves(program, teams, c, d) /\ Stands(t, d)'
<1>1. Building /\ HasIR /\ program' = program /\ GoesOn(Len(stack))
  BY StackMoves DEF Building
<1>2. PICK n : n = Len(stack)
  OBVIOUS
<1>3. /\ Lies(t, c, b, n) /\ c \in Configs(program) /\ Under(t, c, b) /\ n = b + Len(c.at)
      /\ c.at # <<>> /\ IRNow = Body(n)[stack[n].pos] /\ c.code = TeamCode(t)
  BY <1>1, <1>2, TopLies
<1>4. PICK ir : ir = IRNow
  OBVIOUS
<1>5. stack[n].pos <= Len(Body(n))
  BY <1>1, <1>2 DEF HasIR, Top, Body
<1>6. OutOfRegions(t)'
  BY <1>1, OutStays DEF AtTop
<1>7. GoesOn(n) /\ PosOf(c) = stack[n].pos
  BY <1>1, <1>2
<1>8. TeamCode(t)' = IF Codes(teams, ir) THEN Append(c.code, ir) ELSE c.code
  BY <1>3, <1>4
<1>9. QED
  BY <1>1, <1>3, <1>4, <1>5, <1>6, <1>7, <1>8, OverStands

\* At a master region the configuration passes over it.
LEMMA PassStands ==
  ASSUME Inv, Inv', Staying, NEW t, t = Tid, t \in Tids', NEW c, NEW b,
         AtTop(t, c, b), PosOf(c) = stack[Len(stack)].pos,
         IRNow.type = "OpenMPMasterStart", TeamCode(t)' = TeamCode(t),
         NEW n, n = Len(stack), NEW e, Closes(Body(n), stack[n].pos, e),
         StandsAt(t, n, e)', NEW teams
  PROVE  \E d : Moves(program, teams, c, d) /\ Stands(t, d)'
<1>1. Building /\ HasIR /\ program' = program /\ GoesOn(Len(stack))
  BY StackMoves DEF Building
<1>3. /\ Lies(t, c, b, n) /\ c \in Configs(program) /\ Under(t, c, b) /\ n = b + Len(c.at)
      /\ c.at # <<>> /\ c.code = TeamCode(t)
  BY <1>1, TopLies
<1>4. PICK m : m = Len(c.at)
  OBVIOUS
<1>5. m \in 1..Len(c.at) /\ n = b + m /\ GoesOn(n)
  BY <1>1, <1>3, <1>4 DEF Lies
<1>6. e \in Positions
  <2>1. n \in 1..Len(stack)
    BY <1>3 DEF Lies
  <2>2. DOMAIN Body(n) = 1..Len(Body(n))
    BY <2>1, FrameBody
  <2>3. QED
    BY <2>2 DEF Closes, Positions
<1>8. PICK d \in Configs(program) : GoesTo(c, d, m, e) /\ d.code = TeamCode(t)' /\ Stands(t, d)'
  BY <1>1, <1>3, <1>5, <1>6, GoesStands
<1>9. SeesIR(c)
  BY <1>1, TopSees
<1>10. PassesRegion(program, c, d)
  BY <1>1, <1>3, <1>4, <1>8, <1>9 DEF PassesRegion, SeesIR
<1>11. QED
  BY <1>3, <1>8, <1>10 DEF Moves

\* A thread that is not the master skips to the end of the region.
LEMMA SkipStands ==
  ASSUME Inv, Inv', FrameLinks, MasterInv, SkipInv, SkipMasterRegion,
         NEW t, t = Tid, t \in Tids', NEW c, NEW b, AtTop(t, c, b),
         PosOf(c) = stack[Len(stack)].pos, ~Open(t), NEW teams
  PROVE  \E d : Moves(program, teams, c, d) /\ Stands(t, d)'
<1>1. Staying /\ Building /\ HasIR /\ program' = program /\ GoesOn(Len(stack))
  BY StackMoves DEF Building, Staying
<1>2. PICK n : n = Len(stack)
  OBVIOUS
<1>3. n \in 1..Len(stack) /\ stack[n].tid = t /\ t \in Tids /\ n \in 1..n /\ n \in Nat
  BY <1>1, <1>2, TopFrame
<1>4. PICK e : /\ Closes(Body(n), stack[n].pos, e)
               /\ threads'[t].skipUntil = Body(n)[e].inst
  BY <1>2, <1>3, SkipsRegion
<1>5. /\ e \in 1..Len(Body(n)) /\ stack[n].pos < e /\ Body(n)[e].type = "OpenMPMasterEnd"
      /\ Len(Body(n)) \in Nat /\ stack[n].pos \in Nat
  BY <1>3, <1>4, FrameBody DEF Closes, Positions
<1>6. Body(n)[e].inst # NoInst
  BY <1>3, <1>5, MarksAreCalls DEF RegionMarks, MasterMarks
<1>7. IRNow.type = "OpenMPMasterStart"
  BY DEF SkipMasterRegion, SkippedMaster
<1>8. /\ Len(stack') = n /\ stack'[n].tid = t /\ stack'[n].pos = stack[n].pos + 1
      /\ Body(n)' = Body(n)
  BY <1>1, <1>2, <1>3 DEF GoesOn, Body
<1>9. Reaches(n, e)'
  <2>1. Tid' = t /\ Skips(Tid)'
    BY <1>4, <1>6, <1>8, RunningIs DEF Skips
  <2>2. e \in (stack[n].pos + 1)..Len(Body(n))
    BY <1>5
  <2>3. SkipsTo(n, e)'
    BY <1>4, <1>5, <1>8, <2>2 DEF SkipsTo
  <2>4. QED
    BY <1>8, <2>1, <2>3 DEF Reaches
<1>10. ~VisitExternCall
  BY <1>7 DEF SkipMasterRegion, VisitExternCall, Visited
<1>11. TeamCode(t)' = TeamCode(t) /\ ~Open(t)'
  <2>1. ~VisitEvent
    BY DEF SkipMasterRegion, VisitEvent, Visited
  <2>2. QED
    BY <1>1, <1>3, <1>10, <2>1, SilentCode
<1>12. OutOfRegions(t)'
  BY <1>1, <1>10, OutStays DEF AtTop
<1>13. LastOf(t, n)'
  <2>1. \A j \in 1..n : ~(n < j)
    BY <1>3
  <2>2. QED
    BY <1>8, <2>1 DEF LastOf
<1>14. StandsAt(t, n, e)'
  BY <1>9, <1>11, <1>12, <1>13 DEF StandsAt
<1>15. QED
  BY <1>1, <1>2, <1>4, <1>7, <1>11, <1>14, PassStands

\* The master of the region enters it, and its configuration is at the end.
LEMMA EnterStands ==
  ASSUME Inv, Inv', VisitExternCall, IRNow.type = "OpenMPMasterStart",
         NEW t, t = Tid, t \in Tids', NEW c, NEW b, AtTop(t, c, b),
         PosOf(c) = stack[Len(stack)].pos, NEW teams
  PROVE  \E d : Moves(program, teams, c, d) /\ Stands(t, d)'
<1>1. Staying /\ Building /\ HasIR /\ program' = program /\ GoesOn(Len(stack))
      /\ status = "building"
  BY StackMoves, BuildingStays DEF Building, Staying
<1>2. PICK n : n = Len(stack)
  OBVIOUS
<1>3. /\ n \in 1..Len(stack) /\ stack[n].tid = t /\ t \in Tids /\ n \in 1..n
      /\ IRNow = Body(n)[stack[n].pos]
  BY <1>1, <1>2, TopFrame, StackMoves
<1>4. MasterThread(t)
  <2>1. IsOpenMPMasterThread
    BY DEF VisitExternCall, Visited, SkippedMaster
  <2>2. QED
    BY <1>1, <2>1, RunningMaster
<1>5. PICK k : k = stack[n].pos
  OBVIOUS
<1>6. k \in 1..Len(Body(n)) /\ k \in Positions /\ k \in Nat
  BY <1>1, <1>2, <1>3, <1>5, FrameBody DEF HasIR, Top, Body, Positions
<1>7. PICK e : Closes(Body(n), k, e)
  BY <1>3, <1>5, <1>6, FrameBody, StructureAssumption DEF NestsRegions, Body
<1>8. /\ stack'[n].tid = stack[n].tid /\ stack'[n].fn = stack[n].fn
      /\ stack'[n].pos = stack[n].pos + 1
  BY <1>1, <1>2, <1>3 DEF GoesOn
<1>9. OpenAt(n, k)'
  <2>1. OpenBefore(Body(n), k, stack[n].pos + 1)
    BY <1>3, <1>5, <1>6, OpenStep
  <2>2. QED
    BY <1>1, <1>3, <1>4, <1>8, <2>1, OpenGoesOn
<1>10. TeamCode(t)' = TeamCode(t) /\ Open(t)'
  BY <1>3, ExternCode DEF MasterMarks
<1>11. Body(n)' = Body(n)
  BY <1>1, <1>8 DEF Body
<1>12. Closes(Body(n), k, e)'
  BY <1>7, <1>11 DEF Closes
<1>13. StandsAt(t, n, e)'
  BY <1>6, <1>9, <1>10, <1>12 DEF StandsAt
<1>14. Closes(Body(n), stack[n].pos, e)
  BY <1>5, <1>7
<1>15. QED
  BY <1>1, <1>2, <1>10, <1>13, <1>14, PassStands

\* A master thread that is in no region is not at the end of one.
LEMMA MasterEndsInside ==
  ASSUME Inv, Building, HasIR, IRNow.type = "OpenMPMasterEnd", MasterThread(Tid),
         NEW n, n = Len(stack)
  PROVE  \E s : OpenAt(n, s) /\ Closes(Body(n), s, stack[n].pos) /\ Inside(n)
<1>1. /\ n \in 1..Len(stack) /\ stack[n].tid = Tid /\ IRNow = Body(n)[stack[n].pos]
  BY TopFrame, StackMoves
<1>2. stack[n].pos \in 1..Len(Body(n)) /\ DOMAIN Body(n) = 1..Len(Body(n))
  BY <1>1, FrameBody DEF HasIR, Top, Body, Positions
<1>3. PICK s : Closes(Body(n), s, stack[n].pos)
  BY <1>1, <1>2, FrameBody, StructureAssumption DEF NestsRegions, Body
<1>4. DOMAIN Body(n) \subseteq Positions /\ s \in Nat
  BY <1>2, <1>3 DEF Positions, Closes
<1>5. OpenBefore(Body(n), s, stack[n].pos)
  BY <1>3, <1>4, ClosedOpen
<1>6. OpenAt(n, s)
  BY <1>1, <1>5 DEF OpenAt
<1>7. QED
  BY <1>3, <1>4, <1>6 DEF Inside

\* Where a frame only goes on, or the skip ends.
LEMMA StayStands ==
  ASSUME Inv, Inv', TreeInv, FrameLinks, MasterInv, SkipInv, Staying, inParallel,
         NEW t, t = Tid, ~Open(t), NEW c, Stands(t, c), NEW R, NEW F, FlagInv(R, F),
         ~Skips(t), NEW teams \in BOOLEAN, teams <=> t \in R
  PROVE  \E d : Moves(program, teams, c, d) /\ Stands(t, d)'
<1>1. /\ Building /\ HasIR /\ program' = program /\ GoesOn(Len(stack))
      /\ status = "building"
  BY StackMoves, BuildingStays DEF Building
<1>2. PICK b : AtTop(t, c, b)
  BY <1>1, RunningAtTop
<1>3. PosOf(c) = stack[Len(stack)].pos
  BY <1>2 DEF AtTop, Reaches
<1>4. SeesIR(c)
  BY <1>1, <1>2, <1>3, TopSees
<1>5. t \in Tids /\ t \in Tids'
  <2>1. t \in Tids /\ Len(stack) \in 1..Len(stack)
    BY <1>1, TopFrame
  <2>2. Len(stack) \in 1..Len(stack') /\ stack'[Len(stack)].tid = stack[Len(stack)].tid
    BY <1>1, <2>1 DEF GoesOn
  <2>3. stack[Len(stack)].tid = t
    BY RunningIs
  <2>4. QED
    BY <2>1, <2>2, <2>3, FrameBody DEF Inv, Typed, StackInv
<1>7. inTeamsRegion <=> teams
  BY <1>1 DEF FlagInv
<1> DEFINE Goal == \E d : Moves(program, teams, c, d) /\ Stands(t, d)'
<1>0. SUFFICES Goal
  OBVIOUS
<1>8. CASE SkipMasterRegion
  BY <1>2, <1>3, <1>5, <1>8, SkipStands
<1>9. CASE VisitExternCall /\ IRNow.type = "OpenMPMasterStart"
  BY <1>2, <1>3, <1>5, <1>9, EnterStands
<1>10. ASSUME ~SkipMasterRegion, IRNow.type # "OpenMPMasterStart",
              ~(VisitExternCall /\ IRNow.type \in MasterMarks /\ MasterThread(Tid)),
              ~CallsOne(program, c), ~Open(t)',
              TeamCode(t)' = IF Codes(teams, IRNow) THEN Append(TeamCode(t), IRNow)
                             ELSE TeamCode(t)
       PROVE  Goal
  <2>1. ~Skips(t)'
    BY <1>1, <1>5, <1>10, SkipsNext
  <2>2. QED
    BY <1>2, <1>3, <1>5, <1>10, <2>1, TopOver
<1>11. CASE SkipToTarget \/ SkipSerial
  <2>1. ~SkipToTarget
    BY DEF SkipToTarget, Skipping, Skips, Thread
  <2>2. ~SkipSerial
    BY DEF SkipSerial, Serial
  <2>3. QED
    BY <1>11, <2>1, <2>2
<1>12. ASSUME ~VisitEvent, ~VisitExternCall, Kind(IRNow) # "Call" \/ IRNow.type \notin RegionMarks,
              ~CallsOne(program, c), ~SkipMasterRegion, ~Codes(teams, IRNow)
       PROVE  Goal
  <2>1. TeamCode(t)' = TeamCode(t) /\ ~Open(t)'
    BY <1>1, <1>5, <1>12, SilentCode
  <2>2. IRNow.type # "OpenMPMasterStart"
    BY <1>12 DEF RegionMarks, MasterMarks, Kind, ForkTypes, JoinTypes, LockTypes, UnlockTypes
  <2>3. QED
    BY <1>10, <1>12, <2>1, <2>2
<1>13. CASE SkipInTeams
  <2>1. teams /\ IRNow.type \in TeamSpecificTypes
    BY <1>7, <1>13 DEF SkipInTeams, SkippedInTeams
  <2>2. Kind(IRNow) # "Call"
    BY <2>1 DEF TeamSpecificTypes, Kind, ForkTypes, JoinTypes, LockTypes, UnlockTypes
  <2>3. ~VisitEvent /\ ~VisitExternCall /\ ~SkipMasterRegion
    BY <1>13 DEF SkipInTeams, VisitEvent, VisitExternCall, SkipMasterRegion, Visited, Unskipped
  <2>4. QED
    BY <1>4, <1>12, <2>1, <2>2, <2>3 DEF SeesIR, Codes
<1>14. CASE SkipTask
  <2>0. IRNow.type = "OpenMPTaskFork" /\ ~Unskipped
    BY <1>14 DEF SkipTask, SkippedTask, Unskipped
  <2>3. ~VisitEvent /\ ~VisitExternCall /\ ~SkipMasterRegion
    BY <2>0 DEF VisitEvent, VisitExternCall, SkipMasterRegion, Visited
  <2>4. Kind(IRNow) = "Fork"
    BY <2>0, KindTyped DEF ForkTypes
  <2>1. Kind(IRNow) = "Fork" /\ ~VisitEvent /\ ~VisitExternCall /\ ~SkipMasterRegion
    BY <2>3, <2>4
  <2>2. QED
    BY <1>4, <1>12, <2>1 DEF SeesIR, Codes, CodeTypes
<1>15. CASE VisitRecursiveFork
  <2>1. Kind(IRNow) = "Fork" /\ ~VisitEvent /\ ~VisitExternCall /\ ~SkipMasterRegion
    BY <1>15 DEF VisitRecursiveFork, VisitEvent, VisitExternCall, SkipMasterRegion, Visited
  <2>2. QED
    BY <1>4, <1>12, <2>1 DEF SeesIR, Codes, CodeTypes
<1>16. PICK n : n = Len(stack) /\ n \in 1..Len(stack) /\ IRNow = Body(n)[stack[n].pos]
                /\ stack[n].pos \in 1..Len(Body(n))
  <2>1. Len(stack) \in 1..Len(stack) /\ IRNow = Body(Len(stack))[stack[Len(stack)].pos]
    BY <1>1, TopFrame, StackMoves
  <2>2. QED
    BY <1>1, <2>1, FrameIR DEF HasIR, Top, Body
<1>17. IRNow.type \in RegionMarks => IRNow.callee \in program.extern \ DOMAIN program.body
  BY <1>16, MarksAreCalls
<1>18. CASE VisitUnresolvedCall \/ VisitRecursiveCall
  <2>1. /\ Kind(IRNow) = "Call" /\ ~VisitEvent /\ ~VisitExternCall /\ ~SkipMasterRegion
        /\ IRNow.callee \notin program.extern \ DOMAIN program.body
    <3>1. CASE VisitUnresolvedCall
      BY <3>1 DEF VisitUnresolvedCall, VisitEvent, VisitExternCall, SkipMasterRegion, Visited
    <3>2. CASE VisitRecursiveCall
      <4>1. program \in Programs
        BY DEF Inv, Typed
      <4>2. program.extern \cap DOMAIN program.body = {}
        BY <4>1, ProgramsAssumption DEF HasSummaries
      <4>3. QED
        BY <3>2, <4>2 DEF VisitRecursiveCall, VisitEvent, VisitExternCall, SkipMasterRegion, Visited
    <3>3. QED
      BY <1>18, <3>1, <3>2
  <2>2. ~CallsOne(program, c)
    BY <1>4, <1>18 DEF SeesIR, VisitUnresolvedCall, VisitRecursiveCall
  <2>3. QED
    BY <1>12, <1>17, <2>1, <2>2 DEF Codes, CodeTypes
<1>19. CASE VisitEvent
  <2>1. /\ Kind(IRNow) # "Call" /\ ~(teams /\ IRNow.type \in TeamSpecificTypes)
        /\ ~VisitExternCall /\ ~SkipMasterRegion
    BY <1>7, <1>19 DEF VisitEvent, VisitExternCall, SkipMasterRegion, Visited, Unskipped,
                       SkippedInTeams
  <2>2. Codes(teams, IRNow) <=> Kind(IRNow) \in CodeTypes
    BY <2>1 DEF Codes
  <2>3. /\ ~Open(t)'
        /\ TeamCode(t)' = IF Codes(teams, IRNow) THEN Append(TeamCode(t), IRNow)
                          ELSE TeamCode(t)
    BY <1>5, <1>19, <2>2, EventCode
  <2>4. IRNow.type # "OpenMPMasterStart"
    BY <2>1 DEF Kind, ForkTypes, JoinTypes, LockTypes, UnlockTypes
  <2>5. QED
    BY <1>4, <1>10, <2>1, <2>3, <2>4 DEF SeesIR
<1>20. CASE VisitExternCall /\ IRNow.type # "OpenMPMasterStart"
  <2>1. Kind(IRNow) = "Call" /\ IRNow.callee \in program.extern /\ ~SkipMasterRegion
    BY <1>20 DEF VisitExternCall, SkipMasterRegion, Visited
  <2>2. program \in Programs
    BY DEF Inv, Typed
  <2>3. ~CallsOne(program, c)
    BY <1>4, <2>1, <2>2, ProgramsAssumption DEF SeesIR, HasSummaries
  <2>4. ~(IRNow.type \in MasterMarks /\ MasterThread(Tid))
    <3>1. SUFFICES ASSUME IRNow.type = "OpenMPMasterEnd", MasterThread(Tid) PROVE FALSE
      BY <1>20 DEF MasterMarks
    <3>2. Inside(n)
      BY <1>1, <1>16, <3>1, MasterEndsInside
    <3>3. QED
      BY <1>2, <1>16, <3>2, RunningIs DEF AtTop, OutOfRegions
  <2>5. ~Open(t)' /\ TeamCode(t)' = TeamCode(t)
    BY <1>5, <1>20, ExternCode
  <2>6. QED
    BY <1>10, <1>20, <2>1, <2>3, <2>4, <2>5 DEF Codes, CodeTypes
<1> HIDE DEF Goal
<1>21. QED
  BY <1>8, <1>9, <1>11, <1>13, <1>14, <1>15, <1>18, <1>19, <1>20 DEF Staying

\* On the way to the end of a region the configuration stays, and there it goes on.
LEMMA SkipsOn ==
  ASSUME Inv, Inv', FrameLinks, SkipInv, Building, NEW t, t = Tid, ~Open(t), Skips(t),
         NEW c, Stands(t, c), NEW teams
  PROVE  \E d : (d = c \/ Moves(program, teams, c, d)) /\ Stands(t, d)'
<1>1. program' = program /\ status = "building"
  BY StackMoves, BuildingStays
<1>2. PICK n : n = Len(stack)
  OBVIOUS
<1>3. PICK b : AtTop(t, c, b)
  BY RunningAtTop
<1>4. PICK e : e = PosOf(c)
  OBVIOUS
<1>5. /\ Lies(t, c, b, n) /\ c \in Configs(program) /\ Under(t, c, b) /\ n = b + Len(c.at)
      /\ c.at # <<>> /\ t \in Tids /\ IRNow = Body(n)[stack[n].pos] /\ c.code = TeamCode(t)
  BY <1>2, <1>3, TopLies
<1>6. SkipsTo(n, e)
  BY <1>2, <1>3, <1>4 DEF AtTop, Reaches
<1>7. /\ ~MasterThread(Tid) /\ (e = stack[n].pos <=> IRNow.inst = Thread.skipUntil)
      /\ \/ SkipToTarget /\ IRNow.inst # Thread.skipUntil
         \/ /\ VisitExternCall /\ IRNow.inst = Thread.skipUntil
            /\ IRNow.type = "OpenMPMasterEnd"
  BY <1>1, <1>2, <1>6, SkipStep
<1>8. CASE SkipToTarget /\ IRNow.inst # Thread.skipUntil
  <2>1. Staying /\ GoesOn(n) /\ threads' = threads
    BY <1>2, <1>8, StackMoves DEF Staying, SkipToTarget
  <2>2. n \in 1..n /\ n \in 1..Len(stack) /\ stack[n].tid = t /\ n \in Nat
    BY <1>5 DEF Lies
  <2>3. /\ Len(stack') = n /\ stack'[n].tid = t /\ stack'[n].pos = stack[n].pos + 1
        /\ Body(n)' = Body(n)
    BY <1>1, <2>1, <2>2 DEF GoesOn, Body
  <2>4. Keeps(n)
    BY <2>2, <2>3, KeepsFrames
  <2>5. Under(t, c, b)'
    BY <1>1, <1>5, <2>4, UnderKept
  <2>6. e \in (stack[n].pos + 1)..Len(Body(n))
    <3>1. e # stack[n].pos /\ e \in stack[n].pos..Len(Body(n))
      BY <1>6, <1>7, <1>8 DEF SkipsTo
    <3>2. stack[n].pos \in Nat /\ Len(Body(n)) \in Nat
      BY <2>2, FrameBody DEF Positions
    <3>3. QED
      BY <3>1, <3>2
  <2>7. Reaches(n, e)'
    <3>1. Tid' = t /\ Skips(Tid)'
      BY <2>1, <2>3, RunningIs DEF Skips
    <3>2. SkipsTo(n, e)'
      BY <1>6, <2>1, <2>2, <2>3, <2>6 DEF SkipsTo
    <3>3. QED
      BY <2>3, <3>1, <3>2 DEF Reaches
  <2>8. ~VisitEvent /\ ~VisitExternCall
    BY <1>8 DEF SkipToTarget, VisitEvent, VisitExternCall, Visited, Unskipped, Reached
  <2>9. TeamCode(t)' = TeamCode(t) /\ ~Open(t)'
    BY <1>5, <2>8, SilentCode
  <2>10. OutOfRegions(t)'
    BY <1>3, <2>8, OutStays DEF AtTop
  <2>11. LastOf(t, n)'
    <3>1. \A j \in 1..n : ~(n < j)
      BY <2>2
    <3>2. QED
      BY <2>3, <3>1 DEF LastOf
  <2>12. StandsAt(t, n, e)'
    BY <2>7, <2>9, <2>10, <2>11 DEF StandsAt
  <2>13. Stands(t, c)'
    BY <1>1, <1>4, <1>5, <2>5, <2>9, <2>12 DEF Stands, Lies, PosOf
  <2>14. QED
    BY <2>13
<1>9. CASE /\ VisitExternCall /\ IRNow.inst = Thread.skipUntil
           /\ IRNow.type = "OpenMPMasterEnd"
  <2>1. Staying /\ HasIR /\ t \in Tids'
    <3>1. Staying
      BY <1>9 DEF Staying
    <3>2. HasIR /\ GoesOn(n)
      BY <1>2, <3>1, StackMoves
    <3>3. n \in 1..Len(stack') /\ stack'[n].tid = t
      BY <1>5, <3>2 DEF GoesOn, Lies
    <3>4. QED
      BY <3>1, <3>2, <3>3, FrameBody DEF Inv, Typed, StackInv
  <2>2. PosOf(c) = stack[Len(stack)].pos
    BY <1>2, <1>4, <1>7, <1>9
  <2>3. Kind(IRNow) = "Call" /\ IRNow.callee \in program.extern /\ program \in Programs
    BY <1>9 DEF VisitExternCall, Inv, Typed
  <2>4. SeesIR(c)
    BY <1>3, <2>2, TopSees
  <2>5. ~CallsOne(program, c)
    BY <2>3, <2>4, ProgramsAssumption DEF SeesIR, HasSummaries
  <2>6. TeamCode(t)' = TeamCode(t) /\ ~Open(t)'
    BY <1>5, <1>9, ExternCode
  <2>7. ~Skips(t)'
    BY <1>9, <2>1, VisitEndsSkip
  <2>8. \E d : Moves(program, teams, c, d) /\ Stands(t, d)'
    BY <1>3, <1>7, <1>9, <2>1, <2>2, <2>3, <2>5, <2>6, <2>7, TopOver DEF Codes, CodeTypes
  <2>9. QED
    BY <2>8
<1>10. QED
  BY <1>7, <1>8, <1>9

\* A call goes into a function.
LEMMA CallStands ==
  ASSUME Inv, Inv', FrameLinks, SkipInv, VisitCall, NEW t, t = Tid, ~Open(t), ~Skips(t),
         NEW c, Stands(t, c), NEW teams
  PROVE  \E d : Moves(program, teams, c, d) /\ Stands(t, d)'
<1>1. Building /\ program' = program
  BY StackMoves DEF Building
<1>2. PICK n : n = Len(stack)
  OBVIOUS
<1>3. PICK b : AtTop(t, c, b)
  BY <1>1, RunningAtTop
<1>4. /\ Lies(t, c, b, n) /\ c \in Configs(program) /\ Under(t, c, b) /\ n = b + Len(c.at)
      /\ c.at # <<>> /\ t \in Tids /\ IRNow = Body(n)[stack[n].pos] /\ c.code = TeamCode(t)
      /\ stack[n].tid = t
  BY <1>1, <1>2, <1>3, TopLies
<1>5. PosOf(c) = stack[n].pos /\ PosOf(c) = stack[Len(stack)].pos
  BY <1>2, <1>3 DEF AtTop, Reaches
<1>6. SeesIR(c)
  BY <1>1, <1>3, <1>5, TopSees
<1>7. PICK fn : fn = IRNow.callee
  OBVIOUS
<1>8. /\ HasIR /\ Kind(IRNow) = "Call" /\ fn \in DOMAIN program.body /\ ~OnCallStack(fn)
      /\ Len(stack') = n + 1 /\ n \in Nat /\ \A i \in 1..n : stack'[i] = stack[i]
      /\ stack'[n + 1].tid = t /\ stack'[n + 1].fn = fn /\ stack'[n + 1].pos = 1
  BY <1>2, <1>7, CallStarts
<1>9. IRNow.type # "OpenMPMasterStart"
  <2>1. n \in 1..Len(stack) /\ stack[n].pos <= Len(Body(n))
    BY <1>2, <1>4, <1>8 DEF HasIR, Top, Body, Lies
  <2>2. QED
    BY <1>4, <1>7, <1>8, <2>1, NoMarks DEF RegionMarks, MasterMarks
<1>10. CallsOne(program, c) /\ Runs(program, c) /\ IROf(program, c) = IRNow
  BY <1>6, <1>7, <1>8 DEF SeesIR
<1>11. /\ c.at \in Seq(Activations(program)) /\ c.code \in Seq(Symbols)
       /\ Len(c.at) \in Nat /\ Len(c.at) > 0
  BY <1>4, ConfigTyped
<1>12. PICK act : act = [fn |-> fn, pos |-> 1]
  OBVIOUS
<1>13. act \in Activations(program)
  BY <1>8, <1>12 DEF Activations, Positions
<1>14. PICK at : at = Append(c.at, act)
  OBVIOUS
<1>15. /\ at \in Seq(Activations(program)) /\ Len(at) = Len(c.at) + 1 /\ at # <<>>
       /\ at[Len(c.at) + 1] = act /\ \A i \in 1..Len(c.at) : at[i] = c.at[i]
  <2>1. PICK A : A = Activations(program)
    OBVIOUS
  <2>2. c.at \in Seq(A) /\ act \in A
    BY <1>11, <1>13, <2>1
  <2>3. at \in Seq(A)
    BY <1>14, <2>2
  <2>4. Len(at) = Len(c.at) + 1 /\ at[Len(c.at) + 1] = act
    BY <1>14, <2>2
  <2>5. \A i \in 1..Len(c.at) : at[i] = c.at[i]
    BY <1>14, <2>2
  <2>6. QED
    BY <1>11, <2>1, <2>3, <2>4, <2>5
<1>16. PICK d : d = [at |-> at, code |-> c.code]
  OBVIOUS
<1>17. d \in Configs(program) /\ d.at = at /\ d.code = c.code
  BY <1>11, <1>15, <1>16 DEF Configs
<1>18. Descends(program, c, d)
  BY <1>7, <1>9, <1>10, <1>12, <1>15, <1>17 DEF Descends
<1>19. Moves(program, teams, c, d)
  BY <1>4, <1>17, <1>18 DEF Moves
<1>20. PICK m : m = n + 1
  OBVIOUS
<1>21. m = b + Len(d.at) /\ Len(stack') = m /\ m \in Nat /\ PosOf(d) = 1 /\ b \in Nat
  <2>1. Len(d.at) = Len(c.at) + 1 /\ d.at[Len(d.at)].pos = 1
    BY <1>12, <1>15, <1>17
  <2>2. b \in Nat /\ Len(c.at) \in Nat /\ n = b + Len(c.at)
    BY <1>4 DEF Lies
  <2>3. m = b + Len(d.at) /\ m \in Nat
    BY <1>20, <2>1, <2>2
  <2>4. QED
    BY <1>8, <1>20, <2>1, <2>2, <2>3 DEF PosOf
<1>22. Under(t, d, b)'
  <2>1. Len(d.at) > 0
    BY <1>11, <1>15, <1>17
  <2>2. ASSUME NEW j \in 1..m PROVE stack'[j].tid = t <=> b < j
    <3>1. CASE j = m
      <4>1. b < m
        BY <1>4, <1>20, <1>21 DEF Lies
      <4>2. QED
        BY <1>8, <1>20, <3>1, <4>1
    <3>2. CASE j # m
      <4>1. j \in 1..n
        BY <1>8, <1>20, <2>2, <3>2
      <4>2. QED
        BY <1>4, <1>8, <4>1 DEF Under
    <3>3. QED
      BY <3>1, <3>2
  <2>3. ASSUME NEW i \in 1..Len(c.at) PROVE b + i \in 1..n /\ stack'[b + i] = stack[b + i]
    BY <1>4, <1>8 DEF Lies
  <2>4. ASSUME NEW i \in 1..Len(d.at) PROVE d.at[i].fn = stack'[b + i].fn
    <3>1. CASE i = Len(c.at) + 1
      <4>1. b + i = n + 1
        BY <1>4, <1>8, <1>11, <1>21, <3>1
      <4>2. QED
        BY <1>8, <1>12, <1>15, <1>17, <3>1, <4>1
    <3>2. CASE i # Len(c.at) + 1
      <4>1. i \in 1..Len(c.at)
        BY <1>11, <1>15, <1>17, <2>4, <3>2
      <4>2. QED
        BY <1>4, <1>15, <1>17, <2>3, <4>1 DEF Under
    <3>3. QED
      BY <3>1, <3>2
  <2>5. ASSUME NEW i \in 1..(Len(d.at) - 1) PROVE d.at[i].pos = stack'[b + i].pos
    <3>1. i \in 1..Len(c.at)
      BY <1>11, <1>15, <1>17, <2>5
    <3>2. CASE i = Len(c.at)
      BY <1>4, <1>5, <1>15, <1>17, <2>3, <3>1, <3>2 DEF PosOf
    <3>3. CASE i # Len(c.at)
      <4>1. i \in 1..(Len(c.at) - 1)
        BY <1>11, <3>1, <3>3
      <4>2. QED
        BY <1>4, <1>15, <1>17, <2>3, <3>1, <4>1 DEF Under
    <3>4. QED
      BY <3>2, <3>3
  <2>6. QED
    BY <1>20, <1>21, <2>1, <2>2, <2>4, <2>5 DEF Under
<1>23. StandsAt(t, m, 1)'
  <2>1. ~VisitEvent /\ ~VisitExternCall
    <3>1. program.extern \cap DOMAIN program.body = {}
      BY ProgramsAssumption DEF HasSummaries, Inv, Typed
    <3>2. QED
      BY <1>7, <1>8, <3>1 DEF VisitEvent, VisitExternCall
  <2>2. ~Open(t)'
    BY <1>1, <1>4, <2>1, SilentCode
  <2>3. OutOfRegions(t)'
    BY <1>1, <1>3, <2>1, OutStays DEF AtTop
  <2>4. LastOf(t, m)'
    <3>1. \A j \in 1..m : ~(m < j)
      BY <1>21
    <3>2. QED
      BY <1>21, <3>1 DEF LastOf
  <2>5. Reaches(m, 1)'
    <3>1. Tid' = t
      BY <1>8, <1>20, RunningIs
    <3>2. ~SkipMasterRegion
      BY <1>9 DEF SkipMasterRegion, SkippedMaster
    <3>3. ~Skips(t)'
      BY <1>1, <1>4, <3>2, SkipsNext
    <3>4. ~Skips(Tid)'
      BY <3>1, <3>3 DEF Skips
    <3>5. QED
      BY <1>8, <1>20, <3>4 DEF Reaches
  <2>6. QED
    BY <2>2, <2>3, <2>4, <2>5 DEF StandsAt
<1>24. TeamCode(t)' = TeamCode(t)
  <2>1. program.extern \cap DOMAIN program.body = {}
    BY ProgramsAssumption DEF HasSummaries, Inv, Typed
  <2>2. ~VisitEvent /\ ~VisitExternCall
    BY <1>7, <1>8, <2>1 DEF VisitEvent, VisitExternCall
  <2>3. QED
    BY <1>1, <1>4, <2>2, SilentCode
<1>25. Stands(t, d)'
  BY <1>1, <1>4, <1>15, <1>17, <1>21, <1>22, <1>23, <1>24 DEF Stands, PosOf
<1>26. QED
  BY <1>19, <1>25

\* Returns append neither code nor marks, and leave the rest of the stack.
LEMMA Returning ==
  ASSUME Inv, FrameLinks, SkipInv, ReturnFromCall \/ ReturnFromThread, NEW n, n = Len(stack)
  PROVE  /\ Building /\ ~Staying /\ Ended /\ program' = program /\ status = "building"
         /\ n \in Nat /\ n - 1 \in 1..Len(stack) /\ n \in 1..Len(stack) /\ n - 1 \in Nat
         /\ GoesOn(n - 1) /\ stack[n].tid = Tid /\ stack[n - 1] = Caller
         /\ ~VisitEvent /\ ~VisitExternCall /\ ~SkipMasterRegion /\ ~HasIR /\ ~Skips(Tid)
<1>1. Building /\ Ended /\ n - 1 \in 1..Len(stack) /\ GoesOn(n - 1) /\ program' = program
  BY StackMoves DEF Building
<1>2. n \in 1..Len(stack) /\ n \in Nat /\ stack[n].tid = Tid /\ status = "building"
  BY <1>1, TopFrame, BuildingStays
<1>3. ~HasIR
  <2>1. Top.pos \in Nat /\ Len(program.body[Top.fn]) \in Nat /\ Top.pos > Len(program.body[Top.fn])
    BY <1>1, <1>2, FrameBody DEF Ended, Top, Body, Positions
  <2>2. QED
    BY <2>1 DEF HasIR
<1>4. ~Staying /\ ~VisitEvent /\ ~VisitExternCall /\ ~SkipMasterRegion
  <2>1. ~Staying
    BY <1>1, <1>3, StackMoves
  <2>2. QED
    BY <2>1 DEF Staying
<1>5. ~Skips(Tid)
  BY <1>2, <1>3, SkipStep
<1>6. stack[n - 1] = Caller
  BY DEF Caller
<1>7. QED
  BY <1>1, <1>2, <1>3, <1>4, <1>5, <1>6

\* At the end of a function the configuration ends one, too.
LEMMA ReturnStands ==
  ASSUME Inv, Inv', FrameLinks, SkipInv, ReturnFromCall, NEW t, t = Tid, ~Open(t),
         NEW c, Stands(t, c), NEW teams
  PROVE  \E d : Moves(program, teams, c, d) /\ Stands(t, d)'
<1>1. PICK n : n = Len(stack)
  OBVIOUS
<1>2. /\ Building /\ ~Staying /\ program' = program
      /\ n \in Nat /\ n - 1 \in 1..Len(stack) /\ n \in 1..Len(stack) /\ n - 1 \in Nat
      /\ GoesOn(n - 1) /\ stack[n].tid = t /\ stack[n - 1] = Caller
      /\ ~VisitEvent /\ ~VisitExternCall /\ ~SkipMasterRegion /\ ~HasIR /\ ~Skips(Tid)
  BY <1>1, Returning
<1>3. PICK b : AtTop(t, c, b)
  BY <1>2, RunningAtTop
<1>4. /\ Lies(t, c, b, n) /\ c \in Configs(program) /\ Under(t, c, b) /\ n = b + Len(c.at)
      /\ c.at # <<>> /\ t \in Tids /\ c.code = TeamCode(t)
  BY <1>1, <1>2, <1>3, TopLies
<1>5. PosOf(c) = stack[Len(stack)].pos
  BY <1>2, <1>3 DEF AtTop, Reaches
<1>6. ~Runs(program, c)
  BY <1>2, <1>3, <1>5, TopSees DEF SeesIR
<1>7. stack[n - 1].tid = t
  BY <1>2 DEF ReturnFromCall
<1>8. n - 1 \in 1..n /\ b < n - 1
  <2>1. n - 1 \in 1..n
    BY <1>2
  <2>2. QED
    BY <1>4, <1>7, <2>1 DEF Under
<1>9. PICK m : m = Len(c.at) - 1
  OBVIOUS
<1>10. /\ m \in 1..Len(c.at) /\ n - 1 = b + m /\ m \in 1..(Len(c.at) - 1)
       /\ c.at[m].pos = stack[n - 1].pos
  <2>1. b \in Nat /\ Len(c.at) \in Nat /\ n = b + Len(c.at)
    BY <1>4 DEF Lies
  <2>2. m \in 1..Len(c.at) /\ n - 1 = b + m /\ m \in 1..(Len(c.at) - 1)
    BY <1>8, <1>9, <2>1
  <2>3. QED
    BY <1>4, <2>2 DEF Under
<1>11. PICK l : l = n - 1
  OBVIOUS
<1>12. PICK pos : pos = c.at[m].pos + 1
  OBVIOUS
<1>13. pos \in Positions /\ stack'[l].pos = pos /\ stack'[l].tid = t /\ Len(stack') = l
  <2>1. stack[l].pos \in Positions /\ l \in 1..l
    BY <1>2, <1>11, FrameBody
  <2>2. QED
    BY <1>2, <1>7, <1>10, <1>11, <1>12, <2>1 DEF GoesOn, Positions
<1>14. t \in Tids'
  <2>1. l \in 1..Len(stack')
    BY <1>2, <1>11, <1>13
  <2>2. QED
    BY <1>13, <2>1, FrameBody DEF Inv, Typed, StackInv
<1>15. TeamCode(t)' = TeamCode(t) /\ ~Open(t)'
  BY <1>2, <1>4, SilentCode
<1>16. StandsAt(t, l, pos)'
  <2>1. OutOfRegions(t)'
    BY <1>2, <1>3, OutStays DEF AtTop
  <2>2. LastOf(t, l)'
    <3>1. \A j \in 1..l : ~(l < j)
      BY <1>2, <1>11
    <3>2. QED
      BY <1>13, <3>1 DEF LastOf
  <2>3. Reaches(l, pos)'
    <3>1. Tid' = t
      BY <1>13, RunningIs
    <3>2. ~Skips(t)'
      BY <1>2, <1>4, SkipsNext
    <3>3. ~Skips(Tid)'
      BY <3>1, <3>2 DEF Skips
    <3>4. QED
      BY <1>13, <3>3 DEF Reaches
  <2>4. QED
    BY <1>15, <2>1, <2>2, <2>3 DEF StandsAt
<1>17. l = b + m /\ GoesOn(l)
  BY <1>2, <1>10, <1>11
<1>18. PICK d \in Configs(program) : GoesTo(c, d, m, pos) /\ d.code = TeamCode(t)' /\ Stands(t, d)'
  BY <1>2, <1>4, <1>10, <1>13, <1>14, <1>16, <1>17, GoesStands
<1>19. Ends(program, c, d)
  BY <1>4, <1>6, <1>9, <1>12, <1>15, <1>18 DEF Ends
<1>20. QED
  BY <1>4, <1>18, <1>19 DEF Moves

\* At the end of a thread there is nothing left of the configuration.
LEMMA ThreadEnds ==
  ASSUME Inv, Inv', FrameLinks, SkipInv, ReturnFromThread, NEW t, t = Tid, ~Open(t),
         NEW c, Stands(t, c), NEW teams
  PROVE  \E d : Moves(program, teams, c, d) /\ Stands(t, d)'
<1>1. PICK n : n = Len(stack)
  OBVIOUS
<1>2. /\ Building /\ ~Staying /\ program' = program
      /\ n \in Nat /\ n - 1 \in 1..Len(stack) /\ n \in 1..Len(stack) /\ n - 1 \in Nat
      /\ GoesOn(n - 1) /\ stack[n].tid = t /\ stack[n - 1] = Caller
      /\ ~VisitEvent /\ ~VisitExternCall /\ ~SkipMasterRegion /\ ~HasIR /\ ~Skips(Tid)
  BY <1>1, Returning
<1>3. PICK b : AtTop(t, c, b)
  BY <1>2, RunningAtTop
<1>4. /\ Lies(t, c, b, n) /\ c \in Configs(program) /\ Under(t, c, b) /\ n = b + Len(c.at)
      /\ c.at # <<>> /\ t \in Tids /\ c.code = TeamCode(t)
  BY <1>1, <1>2, <1>3, TopLies
<1>5. PosOf(c) = stack[Len(stack)].pos
  BY <1>2, <1>3 DEF AtTop, Reaches
<1>6. ~Runs(program, c)
  BY <1>2, <1>3, <1>5, TopSees DEF SeesIR
<1>7. stack[n - 1].tid # t
  BY <1>2 DEF ReturnFromThread
<1>8. n - 1 \in 1..n /\ ~(b < n - 1)
  <2>1. n - 1 \in 1..n
    BY <1>2
  <2>2. QED
    BY <1>4, <1>7, <2>1 DEF Under
<1>9. Len(c.at) = 1 /\ b = n - 1
  <2>1. b \in Nat /\ Len(c.at) \in Nat /\ b < n /\ n = b + Len(c.at)
    BY <1>4 DEF Lies
  <2>2. PICK k : k = Len(c.at)
    OBVIOUS
  <2>3. n \in Nat /\ k \in Nat /\ b \in Nat /\ b < n /\ n = b + k /\ ~(b < n - 1)
    BY <1>2, <1>8, <2>1, <2>2
  <2>4. k = 1 /\ b = n - 1
    BY <2>3
  <2>5. QED
    BY <2>2, <2>4
<1>10. PICK at : at = <<>> /\ at \in Seq(Activations(program)) /\ Len(at) = 0
  <2>1. <<>> \in Seq(Activations(program)) /\ Len(<<>>) = 0
    OBVIOUS
  <2>2. QED
    BY <2>1
<1>11. PICK d : d = [at |-> at, code |-> c.code]
  OBVIOUS
<1>12. c.code \in Seq(Symbols)
  BY <1>4, ConfigTyped
<1>13. d \in Configs(program) /\ d.at = <<>> /\ Len(d.at) = 0 /\ d.code = c.code
  BY <1>10, <1>11, <1>12 DEF Configs
<1>14. Ends(program, c, d)
  BY <1>6, <1>9, <1>13 DEF Ends, GoesTo
<1>15. TeamCode(t)' = TeamCode(t)
  BY <1>2, <1>4, SilentCode
<1>16. LastOf(t, 0)'
  <2>1. Len(stack') = n - 1
    BY <1>2 DEF GoesOn
  <2>2. ASSUME NEW j \in 1..(n - 1) PROVE stack'[j].tid # t
    <3>1. j \in 1..n /\ ~(b < j)
      BY <1>2, <1>9
    <3>2. QED
      BY <1>2, <1>4, <3>1 DEF Under, GoesOn
  <2>3. QED
    BY <2>1, <2>2 DEF LastOf
<1>17. Stands(t, d)'
  BY <1>2, <1>4, <1>13, <1>15, <1>16 DEF Stands
<1>18. QED
  BY <1>4, <1>13, <1>14, <1>17 DEF Moves

\* The thread that is returned to goes on behind its fork.
LEMMA ParentStands ==
  ASSUME Inv, Inv', FrameLinks, SkipInv, ReturnFromThread, NEW t, t = Caller.tid, ~Open(t),
         NEW c, Stands(t, c), NEW teams
  PROVE  \E d : Moves(program, teams, c, d) /\ Stands(t, d)'
<1>1. PICK l : l = Len(stack)
  OBVIOUS
<1>2. PICK n : n = l - 1
  OBVIOUS
<1>3. /\ Building /\ ~Staying /\ program' = program
      /\ l \in Nat /\ n \in 1..Len(stack) /\ l \in 1..Len(stack) /\ n \in Nat
      /\ GoesOn(n) /\ stack[l].tid = Tid /\ stack[n] = Caller
      /\ ~VisitEvent /\ ~VisitExternCall /\ ~SkipMasterRegion
  BY <1>1, <1>2, Returning
<1>4. t # Tid /\ stack[n].tid = t /\ l = n + 1 /\ n # l /\ n \in 1..n
  BY <1>2, <1>3 DEF ReturnFromThread
<1>5. c.at # <<>>
  BY <1>3, <1>4 DEF Stands, LastOf
<1>6. PICK b \in Nat : Under(t, c, b) /\ StandsAt(t, b + Len(c.at), PosOf(c))
  BY <1>5 DEF Stands
<1>7. c \in Configs(program) /\ c.code = TeamCode(t) /\ t \in Tids
  BY <1>3, <1>4, FrameBody DEF Stands
<1>8. PICK x : x = b + Len(c.at)
  OBVIOUS
<1>9. Lies(t, c, b, x)
  BY <1>6, <1>7, <1>8, UnderFrames
<1>10. LastOf(t, x) /\ Reaches(x, PosOf(c)) /\ OutOfRegions(t)
  BY <1>6, <1>8 DEF StandsAt
<1>11. x = n
  <2>1. ~(x < n)
    BY <1>3, <1>4, <1>10 DEF LastOf
  <2>2. x # l /\ x \in 1..Len(stack)
    BY <1>3, <1>4, <1>9 DEF Lies
  <2>3. QED
    BY <1>1, <1>3, <1>4, <2>1, <2>2
<1>12. PosOf(c) = stack[n].pos
  BY <1>1, <1>4, <1>10, <1>11 DEF Reaches
<1>13. Link(l) /\ l - 1 = n /\ l \in 2..Len(stack)
  <2>1. l \in 2..Len(stack) /\ l - 1 = n
    BY <1>1, <1>3, <1>4
  <2>2. QED
    BY <2>1 DEF FrameLinks
<1>14. PICK ir : ir = Body(n)[stack[n].pos]
  OBVIOUS
<1>15. Kind(ir) = "Fork" /\ ~Skips(t)
  BY <1>3, <1>4, <1>13, <1>14 DEF Link, LowerIR, IRAt, Body
<1>16. ir.type # "OpenMPMasterStart" /\ ~Codes(teams, ir)
  BY <1>15, KindTyped DEF ForkTypes, Codes, CodeTypes
<1>17. IROf(program, c) = ir /\ ~CallsOne(program, c)
  BY <1>9, <1>11, <1>12, <1>14, <1>15 DEF Lies, IROf, CallsOne
<1>18. stack[n].pos <= Len(Body(n))
  <2>1. n < Len(stack)
    BY <1>1, <1>3, <1>4
  <2>2. QED
    BY <1>3, <2>1, FrameBody
<1>19. TeamCode(t)' = TeamCode(t) /\ ~Open(t)'
  BY <1>3, <1>7, SilentCode
<1>20. ~Skips(t)'
  BY <1>3, <1>7, <1>15, SkipsNext
<1>21. OutOfRegions(t)'
  BY <1>3, <1>10, OutStays
<1>22. t \in Tids'
  <2>1. n \in 1..Len(stack') /\ stack'[n].tid = t
    BY <1>3, <1>4 DEF GoesOn
  <2>2. QED
    BY <2>1, FrameBody DEF Inv, Typed, StackInv
<1>23. n = b + Len(c.at)
  BY <1>8, <1>11
<1>24. TeamCode(t)' = IF Codes(teams, ir) THEN Append(c.code, ir) ELSE c.code
  BY <1>7, <1>16, <1>19
<1>25. QED
  BY <1>3, <1>5, <1>6, <1>7, <1>12, <1>14, <1>16, <1>17, <1>18, <1>19, <1>20, <1>21, <1>22,
     <1>23, <1>24, OverStands

\* Where a master thread marks, a thread in a region is at the end of its own.
LEMMA EndStands ==
  ASSUME Inv, Inv', MasterInv, SkipInv, VisitExternCall, IRNow.type \in MasterMarks,
         MasterThread(Tid), NEW t, Open(t), NEW c, c.at # <<>>, Stands(t, c), NEW teams
  PROVE  \E d : Moves(program, teams, c, d) /\ Stands(t, d)'
<1>1. /\ Staying /\ Building /\ HasIR /\ program' = program /\ GoesOn(Len(stack))
      /\ status = "building"
  BY StackMoves, BuildingStays DEF Building, Staying
<1>2. c \in Configs(program) /\ c.code = TeamCode(t)
  BY DEF Stands
<1>3. PICK b \in Nat : Under(t, c, b) /\ StandsAt(t, b + Len(c.at), PosOf(c))
  BY DEF Stands
<1>4. PICK n : n = b + Len(c.at)
  OBVIOUS
<1>5. Lies(t, c, b, n)
  BY <1>2, <1>3, <1>4, UnderFrames
<1>6. n \in 1..Len(stack) /\ stack[n].tid = t /\ n \in 1..n /\ BodyOf(program, c) = Body(n)
  BY <1>5 DEF Lies
<1>7. PICK k \in Nat : OpenAt(n, k) /\ Closes(Body(n), k, PosOf(c))
  BY <1>3, <1>4 DEF StandsAt
<1>8. k \in 1..Len(Body(n)) /\ Body(n)[k].inst # NoInst /\ Inside(n)
  BY <1>6, <1>7, OpenStart
<1>9. currentMasterStart = Body(n)[k].inst
  BY <1>6, <1>7 DEF MasterInv
<1>10. IsOpenMPMasterThread
  BY <1>1, RunningMaster
<1>11. IRNow.type = "OpenMPMasterEnd"
  <2>1. ~MasterMismatch
    BY DEF VisitExternCall, Visited
  <2>2. QED
    BY <1>8, <1>9, <1>10, <2>1 DEF MasterMismatch, MasterMarks
<1>12. PICK l : l = Len(stack)
  OBVIOUS
<1>13. l \in 1..Len(stack) /\ stack[l].tid = Tid /\ IRNow = Body(l)[stack[l].pos]
  BY <1>1, <1>12, TopFrame, StackMoves
<1>14. PICK s : OpenAt(l, s) /\ Closes(Body(l), s, stack[l].pos) /\ Inside(l)
  BY <1>1, <1>11, <1>12, MasterEndsInside
<1>15. n = l
  BY <1>6, <1>8, <1>13, <1>14 DEF MasterInv
<1>16. t = Tid /\ GoesOn(n) /\ t \in Tids
  BY <1>1, <1>6, <1>12, <1>13, <1>15, FrameBody
<1>17. s = k
  <2>1. s \in 1..Len(Body(n)) /\ Body(n)[s].type = "OpenMPMasterStart"
    BY <1>6, <1>14, <1>15, OpenStart DEF Closes
  <2>2. currentMasterStart = Body(n)[s].inst
    BY <1>6, <1>14, <1>15 DEF MasterInv
  <2>3. DOMAIN Body(n) = 1..Len(Body(n)) /\ Body(n) = program.body[stack[n].fn]
        /\ stack[n].fn \in DOMAIN program.body
    BY <1>6, FrameBody DEF Body
  <2>4. Body(n)[s].type \in RegionMarks
    BY <2>1 DEF RegionMarks, MasterMarks
  <2>5. \A fn \in DOMAIN program.body : \A x \in DOMAIN program.body[fn] :
          program.body[fn][x].inst = Body(n)[s].inst => fn = stack[n].fn /\ x = s
    BY <1>6, <2>1, <2>4, MarksAreCalls
  <2>6. PICK fn \in DOMAIN program.body : Body(n) = program.body[fn]
    BY <2>3
  <2>7. k \in DOMAIN program.body[fn] /\ program.body[fn][k].inst = Body(n)[s].inst
    BY <1>8, <1>9, <2>2, <2>3, <2>6
  <2>8. QED
    BY <2>5, <2>7
<1>18. PosOf(c) = stack[n].pos
  <2>1. DOMAIN Body(n) \subseteq Positions
    BY <1>6, FrameBody DEF Positions
  <2>2. QED
    BY <1>7, <1>14, <1>15, <1>17, <2>1, ClosesOnce
<1>19. PICK ir : ir = IRNow
  OBVIOUS
<1>20. /\ ir = Body(n)[stack[n].pos] /\ ir.type # "OpenMPMasterStart"
       /\ stack[n].pos <= Len(Body(n))
  BY <1>1, <1>11, <1>12, <1>13, <1>15, <1>19 DEF HasIR, Top, Body
<1>21. Kind(ir) = "Call" /\ ir.callee \in program.extern /\ IROf(program, c) = ir
  BY <1>6, <1>18, <1>19, <1>20 DEF VisitExternCall, IROf
<1>22. ~CallsOne(program, c) /\ ~Codes(teams, ir)
  <2>1. program.extern \cap DOMAIN program.body = {}
    BY ProgramsAssumption DEF HasSummaries, Inv, Typed
  <2>2. QED
    BY <1>21, <2>1 DEF CallsOne, Codes, CodeTypes
<1>23. TeamCode(t)' = TeamCode(t) /\ ~Open(t)'
  BY <1>11, <1>16, ExternCode
<1>24. Len(stack') = n /\ stack'[n].tid = t /\ n \in 1..Len(stack')
  BY <1>6, <1>16 DEF GoesOn
<1>25. t \in Tids' /\ ~Skips(t)'
  <2>1. t \in Tids'
    BY <1>24, FrameBody DEF Inv, Typed, StackInv
  <2>2. QED
    BY <2>1, VisitEndsSkip
<1>26. OutOfRegions(t)'
  <2>1. ASSUME NEW j \in 1..Len(stack'), NEW x \in Nat, OpenAt(j, x)' PROVE FALSE
    <3>1. CASE j = n
      <4>1. /\ stack'[n].tid = stack[n].tid /\ stack'[n].fn = stack[n].fn
            /\ stack'[n].pos = stack[n].pos + 1
        BY <1>6, <1>16 DEF GoesOn
      <4>2. OpenBefore(Body(n), x, stack[n].pos + 1)
        BY <1>1, <1>6, <2>1, <3>1, <4>1, OpenGoesOn
      <4>3. stack[n].pos \in Positions
        BY <1>6, FrameBody
      <4>4. QED
        BY <1>11, <1>19, <1>20, <4>2, <4>3, OpenStep
    <3>2. CASE j # n
      <4>1. j \in 1..n
        BY <1>24
      <4>2. stack'[j] = stack[j] /\ j \in 1..Len(stack)
        BY <1>6, <1>16, <3>2, <4>1 DEF GoesOn
      <4>3. OpenAt(j, x)
        BY <1>1, <2>1, <4>2, OpenStays
      <4>4. Inside(j)
        BY <4>3 DEF Inside
      <4>5. QED
        BY <1>6, <1>8, <3>2, <4>2, <4>4 DEF MasterInv
    <3>3. QED
      BY <3>1, <3>2
  <2>2. QED
    BY <2>1 DEF OutOfRegions, Inside
<1>27. TeamCode(t)' = IF Codes(teams, ir) THEN Append(c.code, ir) ELSE c.code
  BY <1>2, <1>22, <1>23
<1>28. QED
  BY <1>1, <1>2, <1>3, <1>4, <1>16, <1>18, <1>20, <1>22, <1>23, <1>25, <1>26, <1>27, OverStands

\* The frames that a step leaves or starts.
LEMMA FramesOfStep ==
  ASSUME Inv, Building, NEW j \in 1..Len(stack')
  PROVE  \/ j \in 1..Len(stack) /\ stack'[j].tid = stack[j].tid
         \/ stack'[j].tid = Tid \/ stack'[j].tid \notin Tids
<1>1. Len(stack) \in Nat
  BY Numbers
<1>2. CASE j <= Len(stack)
  <2>1. j \in 1..Len(stack) /\ j \in 1..j /\ j <= Len(stack')
    BY <1>1, <1>2
  <2>2. Keeps(j)
    BY <2>1, KeepsFrames
  <2>3. QED
    BY <2>1, <2>2 DEF Keeps
<1>3. CASE ~(j <= Len(stack))
  <2>1. VisitCall \/ VisitFork
    <3>1. SUFFICES ASSUME ~(VisitCall \/ VisitFork) PROVE FALSE
      OBVIOUS
    <3>2. PICK m \in 1..Len(stack) : GoesOn(m)
      BY <3>1, StackMoves DEF Building
    <3>3. QED
      BY <1>1, <1>3, <3>2 DEF GoesOn
  <2>2. Len(stack') = Len(stack) + 1
    BY <2>1, StackMoves
  <2>3. j = Len(stack) + 1
    BY <1>1, <1>3, <2>2
  <2>4. PICK new : new = Len(threads) + 1
    OBVIOUS
  <2>5. VisitFork => stack'[Len(stack) + 1].tid = new /\ new \notin Tids
    BY <2>4, ForkStarts
  <2>6. VisitCall => stack'[Len(stack) + 1].tid = Tid
    BY CallStarts
  <2>7. QED
    BY <2>1, <2>3, <2>5, <2>6
<1>4. QED
  BY <1>2, <1>3

\* A thread that does not run appends nothing.
LEMMA OthersCode ==
  ASSUME Inv, FrameLinks, Building, NEW t \in Tids, t # Tid
  PROVE  TeamCode(t)' = TeamCode(t) /\ (Open(t)' <=> Open(t))
<1>1. CASE VisitEvent
  BY <1>1, EventCode
<1>2. CASE VisitExternCall
  BY <1>2, ExternCode
<1>3. CASE ~VisitEvent /\ ~VisitExternCall
  BY <1>3, SilentCode
<1>4. QED
  BY <1>1, <1>2, <1>3

\* A thread that has ended does not go on.
LEMMA GoneStands ==
  ASSUME Inv, FrameLinks, Building, NEW t \in Tids, NEW c, c.at = <<>>, Stands(t, c)
  PROVE  Stands(t, c)'
<1>1. c \in Configs(program) /\ c.code = TeamCode(t) /\ LastOf(t, 0) /\ program' = program
  BY StackMoves DEF Stands
<1>2. \A j \in 1..Len(stack) : stack[j].tid # t
  BY <1>1 DEF LastOf
<1>3. t # Tid
  BY <1>2, TopFrame
<1>4. TeamCode(t)' = TeamCode(t)
  BY <1>3, OthersCode
<1>5. LastOf(t, 0)'
  <2>1. \A j \in 1..Len(stack') : stack'[j].tid # t
    BY <1>2, <1>3, FramesOfStep
  <2>2. QED
    BY <2>1 DEF LastOf
<1>6. QED
  BY <1>1, <1>4, <1>5 DEF Stands

\* Who does not run, and is not returned to, stands where it stood.
LEMMA OthersStand ==
  ASSUME Inv, FrameLinks, SkipInv, Building, NEW t \in Tids, t # Tid, ~Open(t),
         ~(ReturnFromThread /\ t = Caller.tid), NEW c, c.at # <<>>, Stands(t, c)
  PROVE  Stands(t, c)'
<1>1. TeamCode(t)' = TeamCode(t) /\ ~Open(t)'
  BY OthersCode
<1>2. ~Skips(t) /\ ~Skips(t)'
  <2>1. ~Skips(t)
    BY DEF SkipInv
  <2>2. QED
    BY <2>1, SkipsNext
<1>3. PICK n : n = Len(stack)
  OBVIOUS
<1>4. n \in 1..Len(stack) /\ n \in Nat /\ n > 0 /\ stack[n].tid = Tid
  BY <1>3, TopFrame
<1>5. CASE Staying
  <2>1. PICK m : m = n - 1
    OBVIOUS
  <2>2. GoesOn(n)
    BY <1>3, <1>5, StackMoves
  <2>3. m \in Nat /\ m <= n /\ Len(stack') = n
    BY <1>4, <2>1, <2>2 DEF GoesOn
  <2>4. ASSUME NEW i \in 1..m PROVE stack'[i] = stack[i]
    <3>1. i \in 1..n /\ i # n
      BY <1>4, <2>1, <2>3
    <3>2. QED
      BY <2>2, <3>1 DEF GoesOn
  <2>5. \A i \in 1..n : m < i => i = n
    BY <1>4, <2>1
  <2>6. stack'[n].tid = Tid
    BY <1>4, <2>2 DEF GoesOn
  <2>7. QED
    BY <1>1, <1>2, <1>3, <1>4, <2>3, <2>4, <2>5, <2>6, AwayStands
<1>6. CASE VisitCall \/ VisitFork
  <2>1. /\ Len(stack') = n + 1 /\ Len(stack') \in Nat /\ n <= Len(stack')
        /\ \A i \in 1..n : stack'[i] = stack[i]
    BY <1>3, <1>4, <1>6, StackMoves
  <2>2. stack'[n + 1].tid # t
    <3>1. PICK new : new = Len(threads) + 1
      OBVIOUS
    <3>2. VisitFork => stack'[n + 1].tid = new /\ new \notin Tids
      BY <1>3, <3>1, ForkStarts
    <3>3. VisitCall => stack'[n + 1].tid = Tid
      BY <1>3, CallStarts
    <3>4. QED
      BY <1>6, <3>2, <3>3
  <2>3. /\ \A i \in 1..Len(stack') : n < i => i = n + 1
        /\ \A i \in 1..Len(stack) : ~(n < i)
    BY <1>3, <1>4, <2>1
  <2>4. n <= Len(stack)
    BY <1>3, <1>4
  <2>5. QED
    BY <1>1, <1>2, <1>4, <2>1, <2>2, <2>3, <2>4, AwayStands
<1>7. CASE ReturnFromCall \/ ReturnFromThread
  <2>1. /\ GoesOn(n - 1) /\ n - 1 \in 1..Len(stack) /\ stack[n - 1] = Caller
    BY <1>3, <1>7, Returning
  <2>2. stack[n - 1].tid # t
    BY <1>7, <2>1 DEF ReturnFromCall
  <2>3. PICK l, m : l = n - 1 /\ m = l - 1
    OBVIOUS
  <2>4. /\ l \in Nat /\ m \in Nat /\ m <= n /\ m <= l /\ Len(stack') = l
        /\ n = l + 1 /\ l = m + 1 /\ l \in 1..l
    BY <1>4, <2>1, <2>3 DEF GoesOn
  <2>5. ASSUME NEW i \in 1..m PROVE stack'[i] = stack[i]
    <3>1. i \in 1..l /\ i # l
      BY <2>4
    <3>2. QED
      BY <2>1, <2>3, <3>1 DEF GoesOn
  <2>6. ASSUME NEW i \in 1..n, m < i PROVE stack[i].tid # t
    <3>1. i = l \/ i = n
      BY <1>4, <2>4, <2>6
    <3>2. QED
      BY <1>4, <2>2, <2>3, <3>1
  <2>7. ASSUME NEW i \in 1..l, m < i PROVE stack'[i].tid # t
    <3>1. i = l
      BY <2>4, <2>7
    <3>2. stack'[l].tid = stack[l].tid
      BY <2>1, <2>3, <2>4 DEF GoesOn
    <3>3. QED
      BY <2>2, <2>3, <3>1, <3>2
  <2>8. QED
    BY <1>1, <1>2, <1>3, <2>4, <2>5, <2>6, <2>7, AwayStands
<1>8. QED
  BY <1>5, <1>6, <1>7 DEF Building

\* A fork leaves its thread where it is.
LEMMA ForkingStands ==
  ASSUME Inv, FrameLinks, SkipInv, VisitFork, NEW t, t = Tid, ~Open(t), ~Skips(t),
         NEW c, Stands(t, c)
  PROVE  Stands(t, c)'
<1>1. Building
  BY DEF Building
<1>2. PICK n : n = Len(stack)
  OBVIOUS
<1>3. n \in Nat /\ n <= Len(stack) /\ stack[n].tid = t /\ t \in Tids /\ n \in 1..Len(stack)
  BY <1>1, <1>2, TopFrame
<1>4. c.at # <<>>
  BY <1>3 DEF Stands, LastOf
<1>5. ~VisitEvent /\ ~VisitExternCall
  BY DEF VisitFork, VisitEvent, VisitExternCall
<1>6. TeamCode(t)' = TeamCode(t) /\ ~Open(t)'
  BY <1>1, <1>3, <1>5, SilentCode
<1>7. ~Skips(t)'
  BY <1>3, ForkEndsSkip
<1>8. PICK new : new = Len(threads) + 1
  OBVIOUS
<1>9. /\ Len(stack') = n + 1 /\ stack'[n + 1].tid = new /\ new \notin Tids
      /\ \A i \in 1..n : stack'[i] = stack[i]
  BY <1>2, <1>8, ForkStarts
<1>10. /\ \A i \in 1..Len(stack') : n < i => stack'[i].tid # t
       /\ \A i \in 1..Len(stack) : n < i => stack[i].tid # t
       /\ n <= Len(stack') /\ Len(stack') \in Nat
  <2>1. \A i \in 1..(n + 1) : n < i => i = n + 1
    BY <1>3
  <2>2. \A i \in 1..Len(stack) : ~(n < i)
    BY <1>2, <1>3
  <2>3. QED
    BY <1>3, <1>9, <2>1, <2>2
<1>11. QED
  BY <1>1, <1>3, <1>4, <1>6, <1>7, <1>9, <1>10, AwayStands

\* Every step of the construction is one of the machine, or none.
LEMMA ThreadStep ==
  ASSUME Inv, Inv', TreeInv, FrameLinks, MasterInv, SkipInv, Building, inParallel,
         NEW t \in Tids, NEW c, Stands(t, c), NEW R, NEW F, FlagInv(R, F),
         NEW teams \in BOOLEAN, teams <=> t \in R
  PROVE  \E d : (d = c \/ Moves(program, teams, c, d)) /\ Stands(t, d)'
<1>1. CASE c.at = <<>>
  BY <1>1, GoneStands
<1>2. CASE c.at # <<>> /\ Open(t)
  <2>1. CASE VisitExternCall /\ IRNow.type \in MasterMarks /\ MasterThread(Tid)
    BY <1>2, <2>1, EndStands
  <2>2. CASE ~(VisitExternCall /\ IRNow.type \in MasterMarks /\ MasterThread(Tid))
    <3>1. MasterThread(t)
      <4>1. PICK b \in Nat : Under(t, c, b) /\ StandsAt(t, b + Len(c.at), PosOf(c))
        BY <1>2 DEF Stands
      <4>2. PICK n : n = b + Len(c.at)
        OBVIOUS
      <4>3. c \in Configs(program)
        BY DEF Stands
      <4>4. Lies(t, c, b, n)
        BY <4>1, <4>2, <4>3, UnderFrames
      <4>6. stack[n].tid = t
        BY <4>4 DEF Lies
      <4>5. QED
        BY <1>2, <4>1, <4>2, <4>6 DEF StandsAt, OpenAt
    <3>2. TeamCode(t)' = TeamCode(t) /\ Open(t)'
      <4>1. CASE VisitEvent
        BY <1>2, <4>1, EventCode
      <4>2. CASE VisitExternCall
        <5>1. ~(t = Tid /\ IRNow.type \in MasterMarks)
          BY <2>2, <3>1, <4>2
        <5>2. QED
          BY <1>2, <4>2, <5>1, ExternCode
      <4>3. CASE ~VisitEvent /\ ~VisitExternCall
        BY <1>2, <4>3, SilentCode
      <4>4. QED
        BY <4>1, <4>2, <4>3
    <3>3. Stands(t, c)'
      BY <1>2, <2>2, <3>2, OpenStands
    <3>4. QED
      BY <3>3
  <2>3. QED
    BY <2>1, <2>2
<1>3. CASE c.at # <<>> /\ ~Open(t) /\ t # Tid
  <2>1. CASE ReturnFromThread /\ t = Caller.tid
    BY <1>3, <2>1, ParentStands
  <2>2. CASE ~(ReturnFromThread /\ t = Caller.tid)
    BY <1>3, <2>2, OthersStand
  <2>3. QED
    BY <2>1, <2>2
<1>4. CASE ~Open(t) /\ t = Tid /\ Skips(t)
  BY <1>4, SkipsOn
<1>5. CASE ~Open(t) /\ t = Tid /\ ~Skips(t)
  <2>1. CASE Staying
    BY <1>5, <2>1, StayStands
  <2>2. CASE VisitCall
    BY <1>5, <2>2, CallStands
  <2>3. CASE VisitFork
    BY <1>5, <2>3, ForkingStands
  <2>4. CASE ReturnFromCall
    BY <1>5, <2>4, ReturnStands
  <2>5. CASE ReturnFromThread
    BY <1>5, <2>5, ThreadEnds
  <2>6. QED
    BY <2>1, <2>2, <2>3, <2>4, <2>5 DEF Building
<1>6. QED
  BY <1>1, <1>2, <1>3, <1>4, <1>5

(***************************************************************************)
(* Every thread that was forked has come to stand where the machine gets   *)
(* to from the entry of the thread.                                        *)
(***************************************************************************)
Follows(t, R) ==
  /\ Start(SpawnIR(t).entry) \in Configs(program)
  /\ \E c : /\ Stands(t, c)
            /\ \E teams \in BOOLEAN :
                 (teams <=> t \in R) /\ GetsTo(program, teams, Start(SpawnIR(t).entry), c)

SimInv(R) == (Len(threads) > 1 => inParallel) /\ \A t \in Spawned : Follows(t, R)

LEMMA StartIs ==
  ASSUME NEW p, NEW entry \in DOMAIN p.body
  PROVE  /\ Start(entry) \in Configs(p) /\ Start(entry).code = <<>>
         /\ Len(Start(entry).at) = 1 /\ Start(entry).at # <<>>
         /\ Start(entry).at[1].fn = entry /\ Start(entry).at[1].pos = 1
<1>1. PICK act : act = [fn |-> entry, pos |-> 1]
  OBVIOUS
<1>2. PICK at : at = <<act>>
  OBVIOUS
<1>3. PICK A : A = Activations(p)
  OBVIOUS
<1>4. act \in A
  BY <1>1, <1>3 DEF Activations, Positions
<1>5. at \in Seq(A) /\ Len(at) = 1 /\ at[1] = act /\ at # <<>>
  BY <1>2, <1>4
<1>6. PICK none : none = <<>> /\ none \in Seq(Symbols)
  <2>1. <<>> \in Seq(Symbols)
    OBVIOUS
  <2>2. QED
    BY <2>1
<1>7. Start(entry) = [at |-> at, code |-> none]
  BY <1>1, <1>2, <1>6 DEF Start
<1>8. [at |-> at, code |-> none] \in Configs(p)
  BY <1>3, <1>5, <1>6 DEF Configs
<1>9. QED
  BY <1>1, <1>5, <1>6, <1>7, <1>8

\* A thread stands at its start when it is forked.
LEMMA NewStands ==
  ASSUME Inv, Inv', VisitFork, NEW new, new = Len(threads) + 1,
         NEW entry, entry = IRNow.entry
  PROVE  Start(entry) \in Configs(program) /\ Stands(new, Start(entry))'
<1>1. Building /\ program' = program /\ HasIR
  BY StackMoves DEF Building
<1>2. PICK n : n = Len(stack) + 1
  OBVIOUS
<1>3. /\ entry \in DOMAIN program.body /\ new \notin Tids
      /\ new \in Tids' /\ threads'[new].events = <<>>
      /\ Len(stack') = n /\ Len(stack) \in Nat
      /\ \A i \in 1..Len(stack) : stack'[i] = stack[i]
      /\ stack'[n].tid = new /\ stack'[n].fn = entry /\ stack'[n].pos = 1
  BY <1>2, ForkStarts
<1>4. PICK c : c = Start(entry)
  OBVIOUS
<1>5. /\ c \in Configs(program) /\ c.code = <<>> /\ Len(c.at) = 1 /\ c.at # <<>>
      /\ c.at[1].fn = entry /\ c.at[1].pos = 1
  BY <1>3, <1>4, StartIs
<1>6. PICK b : b = Len(stack)
  OBVIOUS
<1>7. b \in Nat /\ n = b + 1 /\ n \in Nat /\ n \in 1..Len(stack') /\ b + Len(c.at) = n
  BY <1>2, <1>3, <1>5, <1>6
<1>8. ASSUME NEW j \in 1..n PROVE stack'[j].tid = new <=> b < j
  <2>1. CASE j = n
    BY <1>3, <1>7, <2>1
  <2>2. CASE j # n
    <3>1. j \in 1..Len(stack) /\ ~(b < j)
      BY <1>6, <1>7, <2>2
    <3>2. stack'[j].tid \in Tids
      BY <1>3, <3>1, Numbers
    <3>3. QED
      BY <1>3, <3>1, <3>2
  <2>3. QED
    BY <2>1, <2>2
<1>9. Under(new, c, b)'
  <2>1. \A i \in 1..Len(c.at) : i = 1
    BY <1>5
  <2>2. \A i \in 1..Len(c.at) : c.at[i].fn = stack'[b + i].fn
    BY <1>3, <1>5, <1>7, <2>1
  <2>3. \A i : i \notin 1..(Len(c.at) - 1)
    BY <1>5
  <2>4. b + Len(c.at) <= Len(stack') /\ Len(c.at) > 0
    BY <1>3, <1>5, <1>7
  <2>5. QED
    BY <1>7, <1>8, <2>2, <2>3, <2>4 DEF Under
<1>10. ~Open(new)' /\ TeamCode(new)' = <<>>
  <2>1. PICK none : none = <<>> /\ none \in Seq(EventRecords) /\ DOMAIN none = {} /\ Len(none) = 0
    <3>1. <<>> \in Seq(EventRecords) /\ DOMAIN <<>> = {} /\ Len(<<>>) = 0
      OBVIOUS
    <3>2. QED
      BY <3>1
  <2>2. ~OpenIn(none)
    BY <2>1 DEF OpenIn
  <2>3. CodeAt(none) = {}
    BY <2>1 DEF CodeAt
  <2>4. CodeOf(none) = <<>>
    <3>1. Len(CodeOf(none)) = 0 /\ CodeOf(none) \in Seq(Symbols)
      BY <2>1, <2>3, CodeByRank, FS_EmptySet
    <3>2. QED
      BY <3>1
  <2>5. QED
    BY <1>3, <2>1, <2>2, <2>4, CodeThen
<1>11. Reaches(n, 1)'
  <2>1. Tid' = new
    BY <1>3, RunningIs
  <2>2. ~Skips(new)'
    BY <1>1, <1>3, NewThreadSkipsNot
  <2>3. ~Skips(Tid)'
    BY <2>1, <2>2 DEF Skips
  <2>4. QED
    BY <1>3, <2>3 DEF Reaches
<1>12. LastOf(new, n)'
  <2>1. \A j \in 1..n : ~(n < j)
    BY <1>7
  <2>2. QED
    BY <1>3, <2>1 DEF LastOf
<1>13. OutOfRegions(new)'
  <2>1. ASSUME NEW j \in 1..Len(stack'), stack'[j].tid = new, NEW k, OpenAt(j, k)' PROVE FALSE
    <3>1. j = n
      BY <1>3, <1>6, <1>7, <1>8, <2>1
    <3>2. k \in 1..(1 - 1)
      BY <1>3, <2>1, <3>1 DEF OpenAt, OpenBefore
    <3>3. QED
      BY <3>2
  <2>2. QED
    BY <2>1 DEF OutOfRegions, Inside
<1>14. StandsAt(new, n, PosOf(c))'
  <2>1. PosOf(c) = 1
    BY <1>5 DEF PosOf
  <2>2. StandsAt(new, n, 1)'
    BY <1>10, <1>11, <1>12, <1>13 DEF StandsAt
  <2>3. QED
    BY <2>1, <2>2 DEF PosOf
<1>15. Stands(new, c)'
  BY <1>1, <1>5, <1>7, <1>9, <1>10, <1>14 DEF Stands, PosOf
<1>16. QED
  BY <1>2, <1>4, <1>5, <1>15

\* A thread that was forked follows the machine at every step.
LEMMA FollowsOn ==
  ASSUME Inv, Inv', TreeInv, FrameLinks, MasterInv, SkipInv, Building, inParallel,
         NEW R, NEW F, FlagInv(R, F), NEW t \in Spawned, Follows(t, R),
         NEW S, t \in S <=> t \in R
  PROVE  Follows(t, S)'
<1>1. t \in Tids /\ program' = program /\ SpawnIR(t)' = SpawnIR(t)
  BY SpawnedStay, StackMoves
<1>2. PICK s : s = Start(SpawnIR(t).entry) /\ s \in Configs(program)
  BY DEF Follows
<1>3. PICK c : /\ Stands(t, c)
               /\ \E teams \in BOOLEAN : (teams <=> t \in R) /\ GetsTo(program, teams, s, c)
  BY <1>2 DEF Follows
<1>4. PICK teams \in BOOLEAN : (teams <=> t \in R) /\ GetsTo(program, teams, s, c)
  BY <1>3
<1>5. PICK d : (d = c \/ Moves(program, teams, c, d)) /\ Stands(t, d)'
  BY <1>1, <1>3, <1>4, ThreadStep
<1>6. GetsTo(program, teams, s, d)
  BY <1>4, <1>5, GetsOn
<1>7. teams <=> t \in S
  BY <1>4
<1>8. Start(SpawnIR(t).entry)' = s
  BY <1>1, <1>2 DEF Start
<1>9. QED
  BY <1>1, <1>2, <1>5, <1>6, <1>7, <1>8 DEF Follows

\* So does the thread that is forked.
LEMMA FollowsFirst ==
  ASSUME Inv, Inv', VisitFork, NEW new, new = Len(threads) + 1, NEW S
  PROVE  Follows(new, S)'
<1>1. Building /\ program' = program /\ SpawnIR(new)' = IRNow
  BY StackMoves, ForkStarts DEF Building
<1>2. PICK entry : entry = IRNow.entry
  OBVIOUS
<1>3. PICK s : s = Start(entry)
  OBVIOUS
<1>4. s \in Configs(program) /\ Stands(new, s)'
  BY <1>2, <1>3, NewStands
<1>5. PICK teams \in BOOLEAN : teams <=> new \in S
  OBVIOUS
<1>6. GetsTo(program, teams, s, s)
  BY GetsOn
<1>7. Start(SpawnIR(new).entry)' = s
  BY <1>1, <1>2, <1>3 DEF Start
<1>8. QED
  BY <1>1, <1>4, <1>5, <1>6, <1>7 DEF Follows

\* Threads are forked by forks only.
LEMMA ThreadsOfStep ==
  ASSUME Inv, Building, ~VisitFork
  PROVE  Len(threads') = Len(threads) /\ inParallel' = inParallel
<1>1. Len(threads') = Len(threads)
  <2>1. CASE Staying
    <3>1. PICK evs : Advances(evs)
      BY <2>1, StayingAdvances
    <3>2. QED
      BY <3>1 DEF Advances
  <2>2. CASE ReturnFromCall
    <3>1. PICK evs : ReturnsToCall(evs)
      BY <2>2, ReturnFromCallReturns
    <3>2. QED
      BY <3>1 DEF ReturnsToCall, Returns
  <2>3. CASE ReturnFromThread
    <3>1. PICK parent : ReturnsToFork(parent)
      BY <2>3, ReturnFromThreadReturns
    <3>2. QED
      BY <3>1 DEF ReturnsToFork, Returns
  <2>4. CASE VisitCall
    BY <2>4, CallStarts
  <2>5. QED
    BY <2>1, <2>2, <2>3, <2>4 DEF Building
<1>2. inParallel' = inParallel
  <2>1. CASE VisitEvent \/ VisitExternCall
    BY <2>1 DEF VisitEvent, VisitExternCall, Continue
  <2>2. CASE VisitRecursiveCall \/ VisitCall \/ ReturnFromCall \/ ReturnFromThread
    BY <2>2 DEF VisitRecursiveCall, VisitCall, ReturnFromCall, ReturnFromThread, Continue
  <2>3. CASE SkipToTarget \/ SkipSerial \/ SkipInTeams \/ SkipTask
             \/ SkipMasterRegion \/ VisitUnresolvedCall \/ VisitRecursiveFork
    BY <2>3 DEF SkipToTarget, SkipSerial, SkipInTeams, SkipTask, SkipMasterRegion,
                VisitUnresolvedCall, VisitRecursiveFork, Pass, Continue
  <2>4. QED
    BY <2>1, <2>2, <2>3 DEF Building, Staying
<1>3. QED
  BY <1>1, <1>2

\* The end of the main function leaves every other thread where it stands.
LEMMA FollowsStill ==
  ASSUME Inv, FrameLinks, [Next]_vars, ~Building, NEW R, NEW t \in Spawned, Follows(t, R)
  PROVE  Follows(t, R)'
<1>1. /\ UNCHANGED runtimeVars /\ UNCHANGED <<threads, program>>
      /\ stack' = stack \/ (Len(stack) = 1 /\ Len(stack') = 0)
  BY OtherRuntime
<1>2. SpawnIR(t)' = SpawnIR(t) /\ TeamCode(t)' = TeamCode(t) /\ t # 1
  BY <1>1 DEF SpawnIR, EventAt, TeamCode, InMaster, Spawned
<1>3. PICK s : s = Start(SpawnIR(t).entry) /\ s \in Configs(program)
  BY DEF Follows
<1>4. PICK c : /\ Stands(t, c)
               /\ \E teams \in BOOLEAN : (teams <=> t \in R) /\ GetsTo(program, teams, s, c)
  BY <1>3 DEF Follows
<1>5. Stands(t, c)'
  <2>1. CASE stack' = stack
    <3>1. \A i, k : OpenAt(i, k)' <=> OpenAt(i, k)
      BY <1>1, <2>1 DEF OpenAt, MasterThread, SpawnIR, EventAt, Body
    <3>2. \A i, e : Reaches(i, e)' <=> Reaches(i, e)
      BY <1>1, <2>1 DEF Reaches, Skips, SkipsTo, Tid, Top, Body
    <3>3. (Open(t)' <=> Open(t)) /\ (OutOfRegions(t)' <=> OutOfRegions(t))
      BY <1>1, <2>1, <3>1 DEF Open, OutOfRegions, Inside
    <3>4. \A n : LastOf(t, n)' <=> LastOf(t, n)
      BY <2>1 DEF LastOf
    <3>5. ASSUME NEW n, NEW pos, StandsAt(t, n, pos) PROVE StandsAt(t, n, pos)'
      BY <1>1, <2>1, <3>1, <3>2, <3>3, <3>4, <3>5 DEF StandsAt, Body
    <3>6. ASSUME NEW b, Under(t, c, b) PROVE Under(t, c, b)'
      BY <2>1, <3>6 DEF Under
    <3>7. c \in Configs(program') /\ c.code = TeamCode(t)'
      BY <1>1, <1>2, <1>4 DEF Stands
    <3>8. CASE c.at = <<>>
      BY <1>4, <3>4, <3>7, <3>8 DEF Stands
    <3>9. CASE c.at # <<>>
      <4>1. PICK b \in Nat : Under(t, c, b) /\ StandsAt(t, b + Len(c.at), PosOf(c))
        BY <1>4, <3>9 DEF Stands
      <4>2. PICK n, pos : n = b + Len(c.at) /\ pos = PosOf(c)
        OBVIOUS
      <4>3. Under(t, c, b)' /\ StandsAt(t, n, pos)'
        BY <3>5, <3>6, <4>1, <4>2
      <4>4. QED
        BY <3>7, <3>9, <4>2, <4>3 DEF Stands, PosOf
    <3>10. QED
      BY <3>8, <3>9
  <2>2. CASE Len(stack) = 1 /\ Len(stack') = 0
    <3>1. \A j \in 1..Len(stack) : stack[j].tid # t
      BY <1>2, <2>2 DEF FrameLinks
    <3>2. c \in Configs(program) /\ c.code = TeamCode(t)
      BY <1>4 DEF Stands
    <3>3. c.at = <<>>
      <4>1. SUFFICES ASSUME c.at # <<>> PROVE FALSE
        OBVIOUS
      <4>2. PICK b \in Nat : Under(t, c, b)
        BY <1>4, <4>1 DEF Stands
      <4>3. PICK n : n = b + Len(c.at)
        OBVIOUS
      <4>4. Lies(t, c, b, n)
        BY <3>2, <4>2, <4>3, UnderFrames
      <4>5. QED
        BY <3>1, <4>4 DEF Lies
    <3>4. LastOf(t, 0)'
      BY <2>2 DEF LastOf
    <3>5. QED
      BY <1>1, <1>2, <3>2, <3>3, <3>4 DEF Stands
  <2>3. QED
    BY <1>1, <2>1, <2>2
<1>6. Start(SpawnIR(t).entry)' = s
  BY <1>2, <1>3 DEF Start
<1>7. QED
  BY <1>1, <1>3, <1>4, <1>5, <1>6 DEF Follows

LEMMA SimNext ==
  ASSUME Inv, Inv', TreeInv, FrameLinks, MasterInv, SkipInv, [Next]_vars,
         NEW R, NEW F, FlagInv(R, F), SimInv(R), NEW S, \A t \in Tids : t \in S <=> t \in R
  PROVE  SimInv(S)'
<1>1. Len(threads) \in Positions /\ Spawned \subseteq Tids
  BY Numbers
<1>2. CASE ~Building
  <2>1. UNCHANGED <<threads, program, inParallel>>
    BY <1>2, OtherTasks
  <2>2. ASSUME NEW t \in Spawned PROVE Follows(t, S)'
    <3>1. Follows(t, R)'
      BY <1>2, FollowsStill DEF SimInv
    <3>2. t \in S <=> t \in R
      BY <1>1
    <3>3. QED
      BY <3>1, <3>2 DEF Follows
  <2>3. Spawned' = Spawned
    BY <2>1 DEF Spawned
  <2>4. QED
    BY <2>1, <2>2, <2>3 DEF SimInv
<1>3. CASE Building
  <2>1. ASSUME NEW t \in Spawned PROVE Follows(t, S)'
    <3>1. inParallel
      BY <1>1 DEF SimInv, Spawned, Positions
    <3>2. Follows(t, R)
      BY DEF SimInv
    <3>3. t \in S <=> t \in R
      BY <1>1
    <3>4. QED
      BY <1>3, <3>1, <3>2, <3>3, FollowsOn
  <2>2. CASE VisitFork
    <3>1. PICK new : new = Len(threads) + 1
      OBVIOUS
    <3>2. Len(threads') = new /\ inParallel'
      BY <2>2, <3>1, ForkStarts
    <3>3. \A t : t \in Spawned' => t \in Spawned \/ t = new
      BY <1>1, <3>1, <3>2 DEF Spawned, Positions
    <3>4. Follows(new, S)'
      BY <2>2, <3>1, FollowsFirst
    <3>5. \A t \in Spawned' : Follows(t, S)'
      BY <2>1, <3>3, <3>4
    <3>6. QED
      BY <3>2, <3>5 DEF SimInv
  <2>3. CASE ~VisitFork
    <3>1. Len(threads') = Len(threads) /\ inParallel' = inParallel
      BY <1>3, <2>3, ThreadsOfStep
    <3>2. Spawned' = Spawned
      BY <3>1 DEF Spawned
    <3>3. QED
      BY <2>1, <3>1, <3>2 DEF SimInv
  <2>4. QED
    BY <2>2, <2>3
<1>4. QED
  BY <1>2, <1>3

LEMMA SimInit ==
  ASSUME Init, NEW R
  PROVE  SimInv(R)
<1>1. Len(threads) = 1
  BY DEF Init
<1>2. QED
  BY <1>1 DEF SimInv, Spawned

\* Where every thread has ended, twins have come to the same end.
LEMMA TwinsEnd ==
  ASSUME Inv, TreeInv, TwinInv, NEW R, NEW F, FlagInv(R, F), SimInv(R), status = "done"
  PROVE  \A t, u \in DOMAIN threads : Twins(t, u) => TeamCode(t) = TeamCode(u)
<1>1. stack = <<>> /\ Len(stack) = 0 /\ DOMAIN threads = Tids /\ program \in Programs
  BY DEF Inv, StackInv, Typed, Tids
<1>2. ASSUME NEW t \in Spawned
      PROVE  \E c : /\ c \in Configs(program) /\ c.code = TeamCode(t) /\ c.at = <<>>
                    /\ \E teams \in BOOLEAN : /\ teams <=> t \in R
                                              /\ GetsTo(program, teams, Start(SpawnIR(t).entry), c)
  <2>1. PICK c :
          /\ Stands(t, c)
          /\ \E teams \in BOOLEAN : /\ teams <=> t \in R
                                    /\ GetsTo(program, teams, Start(SpawnIR(t).entry), c)
    BY DEF SimInv, Follows
  <2>2. c \in Configs(program) /\ c.code = TeamCode(t)
    BY <2>1 DEF Stands
  <2>3. c.at = <<>>
    <3>1. SUFFICES ASSUME c.at # <<>> PROVE FALSE
      OBVIOUS
    <3>2. PICK b \in Nat : Under(t, c, b)
      BY <2>1, <3>1 DEF Stands
    <3>3. PICK n : n = b + Len(c.at)
      OBVIOUS
    <3>4. Lies(t, c, b, n)
      BY <2>2, <3>2, <3>3, UnderFrames
    <3>5. QED
      BY <1>1, <3>4 DEF Lies
  <2>4. QED
    BY <2>1, <2>2, <2>3
<1>3. ASSUME NEW t \in Tids, NEW u \in Tids, Twins(t, u)
      PROVE  TeamCode(t) = TeamCode(u)
  <2>1. /\ t \in Spawned /\ u \in Spawned /\ threads[t].entry = threads[u].entry
        /\ Parent(t) = Parent(u)
        /\ SpawnIR(t).type = "OpenMPFork" /\ SpawnIR(u).type = "OpenMPFork"
    BY <1>3, TwinsShareEntry
  <2>2. threads[t].spawnSite # NoSpawn /\ threads[u].spawnSite # NoSpawn
    BY <1>3 DEF Twins
  <2>3. SpawnIR(t).entry = SpawnIR(u).entry
    BY <2>1, <2>2, EntryIs
  <2>4. t \in R <=> u \in R
    BY <2>1 DEF FlagInv, TeamsThreads
  <2>5. PICK s : s = Start(SpawnIR(t).entry) /\ s = Start(SpawnIR(u).entry) /\ s \in Configs(program)
    BY <2>1, <2>3 DEF SimInv, Follows
  <2>6. PICK c :
          /\ c \in Configs(program) /\ c.code = TeamCode(t) /\ c.at = <<>>
          /\ \E teams \in BOOLEAN : (teams <=> t \in R) /\ GetsTo(program, teams, s, c)
    BY <1>2, <2>1, <2>5
  <2>7. PICK d :
          /\ d \in Configs(program) /\ d.code = TeamCode(u) /\ d.at = <<>>
          /\ \E teams \in BOOLEAN : (teams <=> u \in R) /\ GetsTo(program, teams, s, d)
    BY <1>2, <2>1, <2>5
  <2>8. PICK teams \in BOOLEAN : (teams <=> t \in R) /\ GetsTo(program, teams, s, c)
    BY <2>6
  <2>9. GetsTo(program, teams, s, d)
    <3>1. PICK teamsU \in BOOLEAN : (teamsU <=> u \in R) /\ GetsTo(program, teamsU, s, d)
      BY <2>7
    <3>2. teamsU <=> teams
      BY <2>4, <2>8, <3>1
    <3>3. teamsU = teams
      BY <3>2, Zenon
    <3>4. QED
      BY <3>1, <3>3
  <2>10. c = d
    BY <1>1, <2>5, <2>6, <2>7, <2>8, <2>9, EndsOnce
  <2>11. QED
    BY <2>6, <2>7, <2>10
<1>4. QED
  BY <1>1, <1>3

\* The two threads that stand for the team of a parallel region run the same
\* code outside of master regions: the same accesses, locks and barriers, in
\* the same order.  The flag of the runtime model for teams regions, which all
\* threads share and which decides whether locks and barriers are dropped, is
\* as it was when the second one is built.
THEOREM TwinsRunTheSameCode == Spec => []TwinsAgree
<1> DEFINE Following == /\ Inv /\ TreeInv /\ FrameLinks /\ MasterInv /\ SkipInv /\ TwinInv
                        /\ \E R, F : FlagInv(R, F) /\ SimInv(R)
<1>1. Init => Following
  BY InitInv, InitOrdered, InitLinks, InitRuntime, TwinInit, FlagInit, SimInit
<1>2. Following /\ [Next]_vars => Following'
  <2>1. SUFFICES ASSUME Following, [Next]_vars PROVE Following'
    OBVIOUS
  <2>2. status = "building" /\ MasterThread(Tid) => ~Skips(Tid)
    BY <2>1, SkipStep
  <2>3. Inv' /\ TreeInv' /\ FrameLinks' /\ MasterInv' /\ SkipInv'
    BY <2>1, <2>2, NextKeeps, TreeNext, LinksNext, MasterNext, SkippingNext
  <2>4. TwinInv'
    BY <2>1, <2>3, TwinNext
  <2>5. PICK R, F : FlagInv(R, F) /\ SimInv(R)
    BY <2>1
  <2>6. PICK S : FlagInv(S, F)' /\ \A t \in Tids : t \in S <=> t \in R
    BY <2>1, <2>5, FlagNext
  <2>7. SimInv(S)'
    BY <2>1, <2>3, <2>5, <2>6, SimNext
  <2>8. QED
    BY <2>3, <2>4, <2>6, <2>7
<1>3. Following => TwinsAgree
  BY TwinsEnd DEF TwinsAgree
<1> HIDE DEF Following
<1>4. QED
  BY <1>1, <1>2, <1>3, PTL DEF Spec
=============================================================================
