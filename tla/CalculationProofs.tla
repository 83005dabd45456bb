------------------------- MODULE CalculationProofs --------------------------
(***************************************************************************)
(* Proofs about what a run calculates, as MCCommands instantiates it:      *)
(*   - the schedule (MCSchedule), for every schedule and time: what it     *)
(*     asks for, when;                                                     *)
(*   - the statistics (Statistics), for every number of shards and every   *)
(*     sequence of metrics: what the merged report is about.               *)
(***************************************************************************)
EXTENDS MCCommands, SequenceTheorems, FiniteSetTheorems, WellFoundedInduction, TLAPS

-----------------------------------------------------------------------------
(* The schedule.  Walk and length are folds over the stages, which a       *)
(* CHOOSE over functions on sets of indices defines; both are unrolled by  *)
(* induction, in its set form, which rests on the least-number principle.  *)

\* A set of naturals that is not empty has a least member.
LEMMA LeastNumber ==
  ASSUME NEW U \in SUBSET Nat, U # {}
  PROVE  \E m \in U : \A k \in U : m <= k
  <1> DEFINE R == {ss \in Nat \X Nat : ss[1] < ss[2]}
  <1>1. IsWellFoundedOn(R, Nat)
    BY NatLessThanWellFounded DEF OpToRel
  <1> HIDE DEF R
  <1>2. PICK m \in U : \A y \in U : <<y, m>> \notin R
    BY <1>1, WFMin
  <1>3. \A k \in U : ~(k < m)
    BY <1>2 DEF R
  <1> QED
    BY <1>3

\* Induction, over a set.
LEMMA Induction ==
  ASSUME NEW T, 0 \in T, \A n \in Nat : n \in T => n + 1 \in T
  PROVE  Nat \subseteq T
  <1> SUFFICES ASSUME Nat \ T # {} PROVE FALSE
    OBVIOUS
  <1>1. PICK m \in Nat \ T : \A k \in Nat \ T : m <= k
    BY LeastNumber
  <1>2. m # 0 /\ m - 1 \in Nat /\ (m - 1) + 1 = m /\ ~(m <= m - 1)
    BY <1>1
  <1>3. m - 1 \in T
    BY <1>1, <1>2
  <1> QED
    BY <1>1, <1>2, <1>3

LEMMA MaxOf ==
  ASSUME NEW n \in Nat, NEW x \in SUBSET (1 .. n), x # {}
  PROVE  Stages!Max(x) \in x /\ Stages!Max(x) \in Nat /\ \A y \in x : y <= Stages!Max(x)
  <1> DEFINE U == {k \in Nat : \A y \in x : y <= k}
  <1>1. n \in U
    OBVIOUS
  <1>2. PICK m \in U : \A k \in U : m <= k
    BY <1>1, LeastNumber
  <1>3. m \in x
    <2>1. SUFFICES ASSUME m \notin x PROVE FALSE
      OBVIOUS
    <2>2. \A y \in x : y \in Nat /\ y >= 1 /\ y < m
      BY <1>2, <2>1
    <2>a. m \in Nat
      OBVIOUS
    <2>b. PICK y \in x : TRUE
      OBVIOUS
    <2>c. m - 1 \in Nat
      BY <2>2, <2>a, <2>b
    <2>3. m - 1 \in Nat /\ \A z \in x : z <= m - 1
      BY <2>2, <2>a, <2>c
    <2>4. m - 1 \in U /\ ~(m <= m - 1)
      BY <1>2, <2>3
    <2> QED
      BY <1>2, <2>4
  <1>4. \E z \in x : \A y \in x : z >= y
    BY <1>2, <1>3
  <1>5. Stages!Max(x) \in x /\ \A y \in x : Stages!Max(x) >= y
    BY <1>4 DEF Stages!Max
  <1>6. \A y \in x : y \in Nat
    OBVIOUS
  <1> QED
    BY <1>5, <1>6

LEMMA MaxOfPrefix ==
  ASSUME NEW k \in Nat \ {0}
  PROVE  Stages!Max(1 .. k) = k /\ (1 .. k) \ {k} = 1 .. (k - 1)
  <1>1. 1 .. k # {} /\ k \in 1 .. k /\ 1 .. k \in SUBSET (1 .. k)
    OBVIOUS
  <1>2. Stages!Max(1 .. k) \in 1 .. k /\ k <= Stages!Max(1 .. k)
    BY <1>1, MaxOf
  <1> QED
    BY <1>2

LEMMA Prefix ==
  ASSUME NEW n \in Nat, NEW k \in 1 .. n
  PROVE  /\ 1 .. k \in SUBSET (1 .. n) /\ 1 .. k # {} /\ Stages!Max(1 .. k) = k
         /\ (1 .. k) \ {k} = 1 .. (k - 1)
  <1>1. k \in Nat \ {0} /\ 1 .. k \in SUBSET (1 .. n) /\ k \in 1 .. k
    OBVIOUS
  <1> QED
    BY <1>1, MaxOfPrefix

FoldOf(it, n, base, g) ==
  it = [x \in SUBSET (1 .. n) |->
          IF x = {} THEN base ELSE g[<<it[x \ {Stages!Max(x)}], Stages!Max(x)>>]]

HasFold(k, A, base, g) == \E it \in [SUBSET (1 .. k) -> A] : FoldOf(it, k, base, g)

LEMMA FoldExists ==
  ASSUME NEW n \in Nat, NEW A, NEW base \in A, NEW g \in [A \X (1 .. n) -> A]
  PROVE  HasFold(n, A, base, g)
  <1> DEFINE T == {k \in Nat : k <= n => HasFold(k, A, base, g)}
  <1>1. HasFold(0, A, base, g)
    <2> DEFINE it == [x \in SUBSET (1 .. 0) |-> base]
    <2>1. 1 .. 0 = {}
      OBVIOUS
    <2>2. it \in [SUBSET (1 .. 0) -> A] /\ FoldOf(it, 0, base, g)
      BY <2>1 DEF FoldOf
    <2> QED
      BY <2>2 DEF HasFold
  <1>2. ASSUME NEW k \in Nat, k + 1 <= n, HasFold(k, A, base, g)
        PROVE  HasFold(k + 1, A, base, g)
    <2>1. PICK f \in [SUBSET (1 .. k) -> A] : FoldOf(f, k, base, g)
      BY <1>2 DEF HasFold
    <2> DEFINE it == [x \in SUBSET (1 .. (k + 1)) |->
                        IF k + 1 \in x THEN g[<<f[x \ {k + 1}], k + 1>>] ELSE f[x]]
    <2>2. \A x \in SUBSET (1 .. (k + 1)) : x \ {k + 1} \in SUBSET (1 .. k)
      OBVIOUS
    <2>3. k + 1 \in 1 .. n
      BY <1>2
    <2>4. it \in [SUBSET (1 .. (k + 1)) -> A]
      <3>1. ASSUME NEW x \in SUBSET (1 .. (k + 1)), k + 1 \in x
            PROVE  g[<<f[x \ {k + 1}], k + 1>>] \in A
        <4>1. f[x \ {k + 1}] \in A
          BY <2>1, <2>2
        <4> QED
          BY <2>3, <4>1
      <3>2. ASSUME NEW x \in SUBSET (1 .. (k + 1)), k + 1 \notin x
            PROVE  f[x] \in A
        <4>1. x \in SUBSET (1 .. k)
          BY <2>2, <3>2
        <4> QED
          BY <2>1, <4>1
      <3> QED
        BY <3>1, <3>2
    <2>5. ASSUME NEW x \in SUBSET (1 .. (k + 1))
          PROVE  it[x] = IF x = {} THEN base ELSE g[<<it[x \ {Stages!Max(x)}], Stages!Max(x)>>]
      <3>1. CASE k + 1 \in x
        <4>1. Stages!Max(x) = k + 1
          <5> HIDE DEF it
          <5>1. k + 1 \in Nat /\ x # {}
            BY <3>1
          <5>2. Stages!Max(x) \in x /\ \A y \in x : y <= Stages!Max(x)
            BY <5>1, MaxOf
          <5>3. Stages!Max(x) \in 1 .. (k + 1) /\ k + 1 <= Stages!Max(x)
            BY <3>1, <5>2
          <5> QED
            BY <5>3
        <4>2. /\ x \ {k + 1} \in SUBSET (1 .. (k + 1)) /\ k + 1 \notin x \ {k + 1}
              /\ x # {}
          BY <3>1
        <4>3. it[x \ {k + 1}] = f[x \ {k + 1}]
          BY <4>2
        <4>4. it[x] = g[<<f[x \ {k + 1}], k + 1>>]
          BY <3>1
        <4> HIDE DEF it
        <4> QED
          BY <4>1, <4>2, <4>3, <4>4
      <3>2. CASE k + 1 \notin x
        <4>1. x \in SUBSET (1 .. k) /\ it[x] = f[x]
          BY <2>2, <3>2
        <4>2. CASE x = {}
          BY <2>1, <4>1, <4>2 DEF FoldOf
        <4>3. CASE x # {}
          <5>1. Stages!Max(x) \in x /\ x \ {Stages!Max(x)} \in SUBSET (1 .. k)
            BY <4>1, <4>3, MaxOf
          <5>2. f[x] = g[<<f[x \ {Stages!Max(x)}], Stages!Max(x)>>]
            BY <2>1, <4>1, <4>3 DEF FoldOf
          <5>3. it[x \ {Stages!Max(x)}] = f[x \ {Stages!Max(x)}]
            BY <3>2, <5>1
          <5> QED
            BY <4>1, <4>3, <5>2, <5>3
        <4> QED
          BY <4>2, <4>3
      <3> QED
        BY <3>1, <3>2
    <2>6. FoldOf(it, k + 1, base, g)
      <3> HIDE DEF it
      <3>1. it = [x \in SUBSET (1 .. (k + 1)) |-> it[x]]
        BY <2>4
      <3> QED
        BY <2>5, <3>1 DEF FoldOf
    <2> QED
      BY <2>4, <2>6 DEF HasFold
  <1>3. 0 \in T /\ \A k \in Nat : k \in T => k + 1 \in T
    BY <1>1, <1>2
  <1> HIDE DEF T
  <1>4. n \in T
    BY <1>3, Induction
  <1> QED
    BY <1>4 DEF T

-----------------------------------------------------------------------------
(* The walk over the stages and the length of a schedule, stage by stage.  *)

StageSeq == Seq([dur : Nat, target : Nat])

WalkStart == [found |-> FALSE, used |-> 0, value |-> 0]

WalkFold(it, s, e) ==
  it = [x \in SUBSET DOMAIN s |->
          IF x = {} THEN WalkStart ELSE Stages!WalkStage(it[x \ {Stages!Max(x)}], s[Stages!Max(x)], e)]

LengthFold(it, s) ==
  it = [x \in SUBSET DOMAIN s |-> IF x = {} THEN 0 ELSE it[x \ {Stages!Max(x)}] + s[Stages!Max(x)].dur]

LEMMA LengthIsFold ==
  ASSUME NEW s PROVE Stages!ScheduleLength(s) = (CHOOSE it : LengthFold(it, s))[DOMAIN s]
  BY DEF Stages!ScheduleLength, Stages!FoldLeft, Stages!MapThenFoldSet, LengthFold

LEMMA WalkIsFold ==
  ASSUME NEW s, NEW e PROVE Stages!WalkStages(s, e) = (CHOOSE it : WalkFold(it, s, e))[DOMAIN s]
  BY DEF Stages!WalkStages, Stages!FoldLeft, Stages!MapThenFoldSet, WalkFold, Stages!WalkStage, WalkStart

LEMMA StageTypes ==
  ASSUME NEW s \in StageSeq
  PROVE  /\ Len(s) \in Nat /\ DOMAIN s = 1 .. Len(s)
         /\ \A k \in 1 .. Len(s) : s[k].dur \in Nat /\ s[k].target \in Nat
  <1> DEFINE St == [dur : Nat, target : Nat]
  <1>1. s \in Seq(St)
    BY DEF StageSeq
  <1>2. \A t \in St : t.dur \in Nat /\ t.target \in Nat
    OBVIOUS
  <1> HIDE DEF St
  <1>3. Len(s) \in Nat /\ DOMAIN s = 1 .. Len(s) /\ \A k \in 1 .. Len(s) : s[k] \in St
    BY <1>1
  <1> QED
    BY <1>2, <1>3

\* The values of a fold are those on the prefixes.
LEMMA LengthSteps ==
  ASSUME NEW s \in StageSeq
  PROVE  \E l : /\ l[0] = 0 /\ \A k \in 1 .. Len(s) : l[k] = l[k - 1] + s[k].dur
                /\ Stages!ScheduleLength(s) = l[Len(s)]
  <1> DEFINE n == Len(s)
  <1>1. n \in Nat /\ DOMAIN s = 1 .. n /\ \A k \in 1 .. n : s[k].dur \in Nat
    BY StageTypes
  <1> HIDE DEF n
  <1> DEFINE g == [p \in Nat \X (1 .. n) |-> p[1] + s[p[2]].dur]
  <1>2. g \in [Nat \X (1 .. n) -> Nat]
    BY <1>1
  <1> HIDE DEF g
  <1>3. PICK f \in [SUBSET (1 .. n) -> Nat] : FoldOf(f, n, 0, g)
    BY <1>1, <1>2, FoldExists DEF HasFold
  <1>4. ASSUME NEW x \in SUBSET (1 .. n), x # {}
        PROVE  f[x] = f[x \ {Stages!Max(x)}] + s[Stages!Max(x)].dur
    <2>1. f[x] = g[<<f[x \ {Stages!Max(x)}], Stages!Max(x)>>]
      BY <1>3, <1>4 DEF FoldOf
    <2>2. Stages!Max(x) \in 1 .. n /\ f[x \ {Stages!Max(x)}] \in Nat
      BY <1>1, <1>3, <1>4, MaxOf
    <2> QED
      BY <2>1, <2>2 DEF g
  <1>5. LengthFold(f, s)
    <2>1. f = [x \in SUBSET (1 .. n) |-> f[x]] /\ f[{}] = 0
      BY <1>3 DEF FoldOf
    <2> QED
      BY <1>1, <1>4, <2>1 DEF LengthFold
  <1>6. PICK it : LengthFold(it, s) /\ Stages!ScheduleLength(s) = it[1 .. n]
    BY <1>1, <1>5, LengthIsFold
  <1> DEFINE l == [k \in 0 .. n |-> it[1 .. k]]
  <1>7. it[{}] = 0 /\ 1 .. 0 = {}
    BY <1>1, <1>6 DEF LengthFold
  <1>8. ASSUME NEW k \in 1 .. n
        PROVE  it[1 .. k] = it[1 .. (k - 1)] + s[k].dur
    <2>1. /\ 1 .. k \in SUBSET (1 .. n) /\ 1 .. k # {} /\ Stages!Max(1 .. k) = k
          /\ (1 .. k) \ {k} = 1 .. (k - 1)
      BY <1>1, Prefix
    <2> QED
      BY <1>1, <1>6, <2>1 DEF LengthFold
  <1>9. /\ l[0] = 0 /\ \A k \in 1 .. n : l[k] = l[k - 1] + s[k].dur
        /\ Stages!ScheduleLength(s) = l[n]
    BY <1>1, <1>6, <1>7, <1>8
  <1> QED
    BY <1>9 DEF n

LEMMA WalkSteps ==
  ASSUME NEW s \in StageSeq, NEW e \in Nat
  PROVE  \E w : /\ w[0] = WalkStart
                /\ \A k \in 1 .. Len(s) : w[k] = Stages!WalkStage(w[k - 1], s[k], e)
                /\ Stages!WalkStages(s, e) = w[Len(s)]
  <1> DEFINE n == Len(s)
  <1>1. /\ n \in Nat /\ DOMAIN s = 1 .. n
        /\ \A k \in 1 .. n : s[k].dur \in Nat /\ s[k].target \in Nat
    BY StageTypes
  <1> HIDE DEF n
  <1> DEFINE V == {Stages!Interpolate(p, s[k], i) : p \in Nat, k \in 1 .. n, i \in Int}
  <1>v. \A p \in Nat, k \in 1 .. n, i \in Int : Stages!Interpolate(p, s[k], i) \in V
    OBVIOUS
  <1> HIDE DEF V
  <1> DEFINE A1 == [found : {FALSE}, used : Nat, value : Nat]
             A2 == [found : {TRUE}, used : Nat, value : V]
             A == A1 \cup A2
             g == [p \in A \X (1 .. n) |-> Stages!WalkStage(p[1], s[p[2]], e)]
  <1>2. ASSUME NEW a \in A, NEW k \in 1 .. n PROVE Stages!WalkStage(a, s[k], e) \in A
    <2>1. CASE a \in A2
      <3>1. a.found
        BY <2>1
      <3>2. Stages!WalkStage(a, s[k], e) = a
        BY <3>1 DEF Stages!WalkStage
      <3> QED
        BY <2>1, <3>2
    <2>2. CASE a \in A1
      <3> DEFINE u == a.used
                 v == a.value
      <3>1. a.found \in {FALSE} /\ u \in Nat /\ v \in Nat
        BY <2>2
      <3> HIDE DEF u, v
      <3>2. Stages!Interpolate(v, s[k], e - u) \in V
        BY <1>v, <3>1
      <3>3. CASE e < u + s[k].dur
        <4>1. Stages!WalkStage(a, s[k], e) = [found |-> TRUE, used |-> u, value |-> Stages!Interpolate(v, s[k], e - u)]
          BY <3>1, <3>3 DEF Stages!WalkStage, u, v
        <4> QED
          BY <3>1, <3>2, <4>1
      <3>4. CASE ~(e < u + s[k].dur)
        <4>1. Stages!WalkStage(a, s[k], e) = [found |-> FALSE, used |-> u + s[k].dur, value |-> s[k].target]
          BY <3>1, <3>4 DEF Stages!WalkStage, u, v
        <4>2. u + s[k].dur \in Nat /\ s[k].target \in Nat
          BY <1>1, <3>1
        <4> QED
          BY <4>1, <4>2
      <3> QED
        BY <3>3, <3>4
    <2> QED
      BY <2>1, <2>2
  <1>3. WalkStart \in A
    BY DEF WalkStart
  <1> HIDE DEF A
  <1>4. g \in [A \X (1 .. n) -> A]
    BY <1>2
  <1> HIDE DEF g
  <1>5. PICK f \in [SUBSET (1 .. n) -> A] : FoldOf(f, n, WalkStart, g)
    BY <1>1, <1>3, <1>4, FoldExists DEF HasFold
  <1>6. ASSUME NEW x \in SUBSET (1 .. n), x # {}
        PROVE  f[x] = Stages!WalkStage(f[x \ {Stages!Max(x)}], s[Stages!Max(x)], e)
    <2>1. f[x] = g[<<f[x \ {Stages!Max(x)}], Stages!Max(x)>>]
      BY <1>5, <1>6 DEF FoldOf
    <2>2. Stages!Max(x) \in 1 .. n /\ f[x \ {Stages!Max(x)}] \in A
      BY <1>1, <1>5, <1>6, MaxOf
    <2> QED
      BY <2>1, <2>2 DEF g
  <1>7. WalkFold(f, s, e)
    <2>1. f = [x \in SUBSET (1 .. n) |-> f[x]] /\ f[{}] = WalkStart
      BY <1>5 DEF FoldOf
    <2> QED
      BY <1>1, <1>6, <2>1 DEF WalkFold
  <1>8. PICK it : WalkFold(it, s, e) /\ Stages!WalkStages(s, e) = it[1 .. n]
    BY <1>1, <1>7, WalkIsFold
  <1> DEFINE w == [k \in 0 .. n |-> it[1 .. k]]
  <1>9. it[{}] = WalkStart /\ 1 .. 0 = {}
    BY <1>1, <1>8 DEF WalkFold
  <1>10. ASSUME NEW k \in 1 .. n
         PROVE  it[1 .. k] = Stages!WalkStage(it[1 .. (k - 1)], s[k], e)
    <2>1. /\ 1 .. k \in SUBSET (1 .. n) /\ 1 .. k # {} /\ Stages!Max(1 .. k) = k
          /\ (1 .. k) \ {k} = 1 .. (k - 1)
      BY <1>1, Prefix
    <2> QED
      BY <1>1, <1>8, <2>1 DEF WalkFold
  <1>11. /\ w[0] = WalkStart /\ \A k \in 1 .. n : w[k] = Stages!WalkStage(w[k - 1], s[k], e)
         /\ Stages!WalkStages(s, e) = w[n]
    BY <1>1, <1>8, <1>9, <1>10
  <1> QED
    BY <1>11 DEF n

LEMMA LengthWalk ==
  ASSUME NEW s \in StageSeq, NEW l, l[0] = 0,
         \A k \in 1 .. Len(s) : l[k] = l[k - 1] + s[k].dur
  PROVE  /\ \A k \in 0 .. Len(s) : l[k] \in Nat
         /\ \A k \in 1 .. Len(s) : l[k - 1] <= l[k]
  <1> DEFINE n == Len(s)
             T == {k \in Nat : k <= n => l[k] \in Nat}
  <1>1. n \in Nat /\ \A k \in 1 .. n : s[k].dur \in Nat
    BY StageTypes
  <1>2. ASSUME NEW k \in Nat, k <= n => l[k] \in Nat, k + 1 <= n
        PROVE  l[k + 1] \in Nat
    <2>1. k + 1 \in 1 .. n /\ (k + 1) - 1 = k /\ k <= n
      BY <1>1, <1>2
    <2>2. l[k + 1] = l[k] + s[k + 1].dur
      BY <2>1
    <2>3. l[k] \in Nat /\ s[k + 1].dur \in Nat
      BY <1>1, <1>2, <2>1
    <2> QED
      BY <2>2, <2>3
  <1>3. 0 \in T /\ \A k \in Nat : k \in T => k + 1 \in T
    BY <1>2
  <1> HIDE DEF T
  <1>4. Nat \subseteq T
    BY <1>3, Induction
  <1>5. \A k \in 0 .. n : l[k] \in Nat
    BY <1>1, <1>4 DEF T
  <1>6. ASSUME NEW k \in 1 .. n PROVE l[k - 1] <= l[k]
    <2>1. k - 1 \in 0 .. n
      BY <1>1
    <2>2. l[k - 1] \in Nat /\ s[k].dur \in Nat
      BY <1>1, <1>5, <2>1
    <2>3. l[k] = l[k - 1] + s[k].dur
      OBVIOUS
    <2> QED
      BY <2>2, <2>3
  <1> QED
    BY <1>5, <1>6

\* A prefix is as long as its stages.
LEMMA LengthOfPrefix ==
  ASSUME NEW s \in StageSeq, NEW l, l[0] = 0,
         \A k \in 1 .. Len(s) : l[k] = l[k - 1] + s[k].dur,
         NEW j \in 0 .. Len(s)
  PROVE  Stages!ScheduleLength(SubSeq(s, 1, j)) = l[j]
  <1> DEFINE p == SubSeq(s, 1, j)
             n == Len(s)
  <1>1. n \in Nat /\ \A k \in 1 .. n : s[k].dur \in Nat
    BY StageTypes
  <1>2. p \in StageSeq /\ Len(p) = j /\ \A k \in 1 .. j : p[k] = s[k]
    <2> DEFINE St == [dur : Nat, target : Nat]
    <2>1. s \in Seq(St)
      BY DEF StageSeq
    <2> HIDE DEF St
    <2>2. p \in Seq(St) /\ Len(p) = j /\ \A k \in 1 .. j : p[k] = s[k]
      BY <1>1, <2>1
    <2> QED
      BY <2>2 DEF St, StageSeq
  <1> HIDE DEF p, n
  <1>3. PICK m : /\ m[0] = 0 /\ \A k \in 1 .. j : m[k] = m[k - 1] + p[k].dur
                 /\ Stages!ScheduleLength(p) = m[j]
    BY <1>2, LengthSteps
  <1> DEFINE T == {k \in Nat : k <= j => m[k] = l[k]}
  <1>4. ASSUME NEW k \in Nat, k <= j => m[k] = l[k], k + 1 <= j
        PROVE  m[k + 1] = l[k + 1]
    <2>1. k + 1 \in 1 .. j /\ k + 1 \in 1 .. n /\ (k + 1) - 1 = k /\ k <= j
      BY <1>1, <1>4 DEF n
    <2>2. m[k + 1] = m[k] + s[k + 1].dur
      BY <1>2, <1>3, <2>1
    <2>3. l[k + 1] = l[k] + s[k + 1].dur
      BY <2>1 DEF n
    <2> QED
      BY <1>4, <2>1, <2>2, <2>3
  <1>5. 0 \in T /\ \A k \in Nat : k \in T => k + 1 \in T
    BY <1>3, <1>4
  <1> HIDE DEF T
  <1>a. j \in Nat
    BY <1>1 DEF n
  <1>b. Nat \subseteq T
    BY <1>5, Induction
  <1>6. j \in T /\ j \in Nat
    BY <1>a, <1>b
  <1> QED
    BY <1>3, <1>6 DEF T, p

TargetOf(s, k) == IF k = 0 THEN 0 ELSE s[k].target

\* The walk over the stages that are over by then.
LEMMA WalkedOver ==
  ASSUME NEW s \in StageSeq, NEW e \in Nat, NEW l, l[0] = 0,
         \A k \in 1 .. Len(s) : l[k] = l[k - 1] + s[k].dur,
         NEW w, w[0] = WalkStart,
         \A k \in 1 .. Len(s) : w[k] = Stages!WalkStage(w[k - 1], s[k], e),
         NEW j \in 0 .. Len(s), l[j] <= e
  PROVE  w[j] = [found |-> FALSE, used |-> l[j], value |-> TargetOf(s, j)]
  <1> DEFINE n == Len(s)
             At(k) == [found |-> FALSE, used |-> l[k], value |-> TargetOf(s, k)]
             T == {k \in Nat : (k <= n /\ l[k] <= e) => w[k] = At(k)}
  <1>1. /\ n \in Nat /\ \A k \in 1 .. n : s[k].dur \in Nat
        /\ \A k \in 0 .. n : l[k] \in Nat
        /\ \A k \in 1 .. n : l[k - 1] <= l[k]
    BY StageTypes, LengthWalk
  <1>2. w[0] = At(0)
    BY DEF WalkStart, TargetOf
  <1>3. ASSUME NEW k \in Nat, k \in T, k + 1 <= n, l[k + 1] <= e
        PROVE  w[k + 1] = At(k + 1)
    <2>1. k + 1 \in 1 .. n /\ k \in 0 .. n /\ k + 1 \in 0 .. n /\ (k + 1) - 1 = k /\ k + 1 # 0
      BY <1>1, <1>3
    <2>2. l[k] \in Nat /\ l[k + 1] \in Nat /\ l[k] <= l[k + 1]
      BY <1>1, <2>1
    <2>3. w[k] = At(k)
      BY <1>3, <2>1, <2>2
    <2>4. w[k + 1] = Stages!WalkStage(w[k], s[k + 1], e) /\ l[k + 1] = l[k] + s[k + 1].dur
      BY <2>1
    <2>5. ~(e < l[k] + s[k + 1].dur)
      BY <1>3, <2>2, <2>4
    <2> QED
      BY <2>1, <2>3, <2>4, <2>5 DEF Stages!WalkStage, TargetOf
  <1> HIDE DEF At, n
  <1>a. 0 \in T
    BY <1>2
  <1>b. \A k \in Nat : k \in T => k + 1 \in T
    <2> SUFFICES ASSUME NEW k \in Nat, k \in T PROVE k + 1 \in T
      OBVIOUS
    <2>1. (k + 1 <= n /\ l[k + 1] <= e) => w[k + 1] = At(k + 1)
      BY <1>3
    <2> QED
      BY <2>1
  <1> HIDE DEF T
  <1>4. Nat \subseteq T
    BY <1>a, <1>b, Induction
  <1>5. j \in Nat /\ j <= n
    BY <1>1 DEF n
  <1>6. j \in T
    BY <1>4, <1>5
  <1> QED
    BY <1>5, <1>6 DEF T, At

\* What the walk finds: the stage that contains the time, and the line in it.
LEMMA WalkFinds ==
  ASSUME NEW s \in StageSeq, NEW e \in Nat, NEW i \in 1 .. Len(s),
         Stages!ScheduleLength(SubSeq(s, 1, i - 1)) <= e,
         e < Stages!ScheduleLength(SubSeq(s, 1, i - 1)) + s[i].dur
  PROVE  LET start == Stages!ScheduleLength(SubSeq(s, 1, i - 1))
         IN  /\ start \in Nat
             /\ Stages!WalkStages(s, e) = [found |-> TRUE, used |-> start,
                                    value |-> Stages!Interpolate(TargetOf(s, i - 1), s[i], e - start)]
  <1> DEFINE n == Len(s)
             start == Stages!ScheduleLength(SubSeq(s, 1, i - 1))
             Hit == [found |-> TRUE, used |-> start,
                     value |-> Stages!Interpolate(TargetOf(s, i - 1), s[i], e - start)]
  <1>1. n \in Nat /\ \A k \in 1 .. n : s[k].dur \in Nat
    BY StageTypes
  <1>2. PICK l : l[0] = 0 /\ \A k \in 1 .. n : l[k] = l[k - 1] + s[k].dur
    BY LengthSteps
  <1>3. PICK w : /\ w[0] = WalkStart /\ \A k \in 1 .. n : w[k] = Stages!WalkStage(w[k - 1], s[k], e)
                 /\ Stages!WalkStages(s, e) = w[n]
    BY WalkSteps
  <1>4. i - 1 \in 0 .. n
    BY <1>1
  <1>5. start = l[i - 1]
    BY <1>2, <1>4, LengthOfPrefix
  <1>6. start \in Nat
    BY <1>2, <1>4, <1>5, LengthWalk
  <1>7. w[i - 1] = [found |-> FALSE, used |-> l[i - 1], value |-> TargetOf(s, i - 1)]
    BY <1>2, <1>3, <1>4, <1>5, WalkedOver
  <1> HIDE DEF start
  <1>8. w[i] = Hit
    <2>1. w[i] = Stages!WalkStage(w[i - 1], s[i], e) /\ e < start + s[i].dur
      BY <1>3 DEF start
    <2> QED
      BY <1>5, <1>7, <2>1 DEF Stages!WalkStage
  <1>9. Hit.found
    OBVIOUS
  <1> HIDE DEF Hit, n
  <1> DEFINE T == {k \in Nat : i + k <= n => w[i + k] = Hit}
  <1>10. ASSUME NEW k \in Nat, i + k <= n => w[i + k] = Hit, i + (k + 1) <= n
         PROVE  w[i + (k + 1)] = Hit
    <2>a. n \in Nat /\ i \in 1 .. n /\ i + (k + 1) <= n
      BY <1>1, <1>10 DEF n
    <2>1. i + (k + 1) \in 1 .. n /\ (i + (k + 1)) - 1 = i + k /\ i + k <= n
      BY <2>a
    <2>2. w[i + (k + 1)] = Stages!WalkStage(w[i + k], s[i + (k + 1)], e)
      BY <1>3, <2>1
    <2> QED
      BY <1>9, <1>10, <2>1, <2>2 DEF Stages!WalkStage
  <1>11. 0 \in T /\ \A k \in Nat : k \in T => k + 1 \in T
    <2>1. i + 0 = i
      BY <1>1 DEF n
    <2> QED
      BY <1>8, <1>10, <2>1
  <1> HIDE DEF T
  <1>a. n - i \in Nat /\ i + (n - i) = n
    BY <1>1 DEF n
  <1>b. Nat \subseteq T
    BY <1>11, Induction
  <1>12. n - i \in T /\ i + (n - i) = n
    BY <1>a, <1>b
  <1>13. w[n] = Hit
    BY <1>12 DEF T
  <1> QED
    BY <1>3, <1>6, <1>13 DEF start, Hit

\* While the schedule runs the walk finds a stage; after it, none.
LEMMA WalkEnds ==
  ASSUME NEW s \in StageSeq, NEW e \in Nat
  PROVE  /\ Stages!ScheduleLength(s) \in Nat
         /\ e < Stages!ScheduleLength(s) => Stages!WalkStages(s, e).found
         /\ Stages!ScheduleLength(s) <= e =>
              Stages!WalkStages(s, e) = [found |-> FALSE, used |-> Stages!ScheduleLength(s),
                                  value |-> TargetOf(s, Len(s))]
  <1> DEFINE n == Len(s)
  <1>1. n \in Nat /\ (\A k \in 1 .. n : s[k].dur \in Nat) /\ n \in 0 .. n
    BY StageTypes
  <1>2. PICK l : /\ l[0] = 0 /\ \A k \in 1 .. n : l[k] = l[k - 1] + s[k].dur
                 /\ Stages!ScheduleLength(s) = l[n]
    BY LengthSteps
  <1>3. PICK w : /\ w[0] = WalkStart /\ \A k \in 1 .. n : w[k] = Stages!WalkStage(w[k - 1], s[k], e)
                 /\ Stages!WalkStages(s, e) = w[n]
    BY WalkSteps
  <1>4. \A k \in 0 .. n : l[k] \in Nat
    BY <1>2, LengthWalk
  <1>5. ASSUME l[n] <= e
        PROVE  w[n] = [found |-> FALSE, used |-> l[n], value |-> TargetOf(s, n)]
    <2>1. n \in 0 .. Len(s)
      BY <1>1
    <2> QED
      BY <1>2, <1>3, <1>5, <2>1, WalkedOver
  <1>6. ASSUME e < l[n] PROVE Stages!WalkStages(s, e).found
    <2> DEFINE U == {k \in 0 .. n : e < l[k]}
    <2>1. n \in U /\ U \in SUBSET Nat
      BY <1>1, <1>6
    <2>2. PICK i \in U : \A k \in U : i <= k
      BY <2>1, LeastNumber
    <2>3. i \in 0 .. n /\ e < l[i] /\ i # 0
      BY <1>2, <2>2
    <2>4. i \in 1 .. n /\ i - 1 \in 0 .. n /\ ~(i <= i - 1)
      BY <1>1, <2>3
    <2>5. ~(e < l[i - 1])
      BY <2>2, <2>4
    <2> HIDE DEF U
    <2>6. l[i - 1] \in Nat /\ l[i - 1] <= e
      BY <1>4, <2>4, <2>5
    <2>7. l[i] = l[i - 1] + s[i].dur
      BY <1>2, <2>4
    <2>8. Stages!ScheduleLength(SubSeq(s, 1, i - 1)) = l[i - 1]
      BY <1>2, <2>4, LengthOfPrefix
    <2>9. /\ Stages!ScheduleLength(SubSeq(s, 1, i - 1)) <= e
          /\ e < Stages!ScheduleLength(SubSeq(s, 1, i - 1)) + s[i].dur
      BY <2>3, <2>6, <2>7, <2>8
    <2>10. Stages!WalkStages(s, e) =
             [found |-> TRUE, used |-> Stages!ScheduleLength(SubSeq(s, 1, i - 1)),
              value |-> Stages!Interpolate(TargetOf(s, i - 1), s[i],
                                    e - Stages!ScheduleLength(SubSeq(s, 1, i - 1)))]
      BY <2>4, <2>9, WalkFinds
    <2> QED
      BY <2>10
  <1> QED
    BY <1>1, <1>2, <1>3, <1>4, <1>5, <1>6

-----------------------------------------------------------------------------
(* One stage: the interpolation is the integer below the line.             *)

\* What \div gives, for a divisor the prover does not know.
LEMMA Quotient ==
  ASSUME NEW x \in Int, NEW d \in Nat \ {0}
  PROVE  /\ x \div d \in Int
         /\ (x \div d) * d <= x /\ x < (x \div d + 1) * d
  OBVIOUS

\* A product is as large as its factor says.
LEMMA Monotone ==
  ASSUME NEW a \in Int, NEW b \in Int, NEW d \in Nat \ {0}
  PROVE  /\ a * d < b * d => a < b
         /\ a * d <= b * d => a <= b
  <1>1. ASSUME NEW x \in Int, NEW y \in Int, x <= y PROVE x * d <= y * d
    <2>1. y - x \in Nat /\ (y - x) * d \in Nat
      BY <1>1
    <2>2. y * d = x * d + (y - x) * d
      OBVIOUS
    <2>3. x * d \in Int /\ y * d \in Int
      OBVIOUS
    <2> QED
      BY <2>1, <2>2, <2>3
  <1>2. ASSUME NEW x \in Int, NEW y \in Int, x < y PROVE x * d < y * d
    <2>1. (x + 1) * d <= y * d
      BY <1>1, <1>2
    <2>2. (x + 1) * d = x * d + d
      OBVIOUS
    <2>3. x * d \in Int /\ y * d \in Int
      OBVIOUS
    <2> QED
      BY <2>1, <2>2, <2>3
  <1> QED
    BY <1>1, <1>2

LEMMA StageIsOnTheLine ==
  ASSUME NEW p \in Nat, NEW st, st.dur \in Nat \ {0}, st.target \in Nat,
         NEW e \in 0 .. st.dur
  PROVE  LET line == p * (st.dur - e) + st.target * e
             v == Stages!Interpolate(p, st, e)
         IN  /\ line \in Nat /\ v \in Int
             /\ v * st.dur <= line /\ line < (v + 1) * st.dur
  <1> DEFINE d == st.dur
             t == st.target
             line == p * (d - e) + t * e
             v == Stages!Interpolate(p, st, e)
  <1>1. d \in Nat \ {0} /\ t \in Nat /\ e \in 0 .. d
    OBVIOUS
  <1>2. v = (p * d + (t - p) * e) \div d
    BY DEF Stages!Interpolate
  <1> HIDE DEF d, t, v
  <1>3. p * d \in Int /\ p * e \in Int /\ t * e \in Nat /\ p * (d - e) \in Nat
    BY <1>1
  <1>4. p * (d - e) = p * d - p * e /\ (t - p) * e = t * e - p * e
    BY <1>1
  <1>5. p * d + (t - p) * e = line /\ line \in Nat
    BY <1>3, <1>4
  <1> HIDE DEF line
  <1>6. v = line \div d
    BY <1>2, <1>5
  <1>7. v \in Int /\ v * d <= line /\ line < (v + 1) * d
    BY <1>1, <1>5, <1>6, Quotient
  <1> QED
    BY <1>5, <1>7 DEF v, line, d, t

\* The integer u below the line at e and v below it at f: the later one is not
\* behind, and neither is beyond the end of the line.
LEMMA LineMovesOneWay ==
  ASSUME NEW p \in Nat, NEW t \in Nat, NEW d \in Nat \ {0}, NEW e \in 0 .. d, NEW f \in e .. d,
         NEW u \in Int, NEW v \in Int,
         u * d <= p * (d - e) + t * e, p * (d - e) + t * e < (u + 1) * d,
         v * d <= p * (d - f) + t * f, p * (d - f) + t * f < (v + 1) * d
  PROVE  /\ p <= t => u <= v /\ v <= t
         /\ t <= p => v <= u /\ t <= v
  <1> DEFINE a == p * (d - e) + t * e
             b == p * (d - f) + t * f
  <1>1. a \in Nat /\ u * d <= a /\ a < (u + 1) * d
    OBVIOUS
  <1>2. b \in Nat /\ v * d <= b /\ b < (v + 1) * d
    OBVIOUS
  <1>3. b - a = (t - p) * (f - e) /\ b = t * d - (t - p) * (d - f)
    <2>1. /\ p * (d - e) = p * d - p * e /\ p * (d - f) = p * d - p * f
          /\ (t - p) * (f - e) = (t * f - t * e) - (p * f - p * e)
          /\ (t - p) * (d - f) = (t * d - t * f) - (p * d - p * f)
      OBVIOUS
    <2>2. /\ p * d \in Nat /\ p * e \in Nat /\ p * f \in Nat /\ t * e \in Nat /\ t * f \in Nat
          /\ t * d \in Nat
      OBVIOUS
    <2> QED
      BY <2>1, <2>2
  <1>4. p <= t => a <= b /\ b <= t * d
    <2>1. p <= t => (t - p) * (f - e) \in Nat /\ (t - p) * (d - f) \in Nat
      OBVIOUS
    <2>2. t * d \in Nat
      OBVIOUS
    <2> QED
      BY <1>1, <1>2, <1>3, <2>1, <2>2
  <1>5. t <= p => b <= a /\ t * d <= b
    <2>1. t <= p => (p - t) * (f - e) \in Nat /\ (p - t) * (d - f) \in Nat
      OBVIOUS
    <2>2. (t - p) * (f - e) = -((p - t) * (f - e)) /\ (t - p) * (d - f) = -((p - t) * (d - f))
      OBVIOUS
    <2>3. t * d \in Nat
      OBVIOUS
    <2> QED
      BY <1>1, <1>2, <1>3, <2>1, <2>2, <2>3
  <1> HIDE DEF a, b
  <1>6. u * d \in Int /\ v * d \in Int /\ (u + 1) * d \in Int /\ (v + 1) * d \in Int /\ t * d \in Int
    OBVIOUS
  <1>7. a <= b => u <= v
    <2>1. u * d < (v + 1) * d => u < v + 1
      BY Monotone
    <2> QED
      BY <1>1, <1>2, <1>6, <2>1
  <1>8. b <= a => v <= u
    <2>1. v * d < (u + 1) * d => v < u + 1
      BY Monotone
    <2> QED
      BY <1>1, <1>2, <1>6, <2>1
  <1>9. b <= t * d => v <= t
    <2>1. v * d <= t * d => v <= t
      BY Monotone
    <2> QED
      BY <1>1, <1>2, <1>6, <2>1
  <1>10. t * d <= b => t <= v
    <2>1. t * d < (v + 1) * d => t < v + 1
      BY Monotone
    <2> QED
      BY <1>1, <1>2, <1>6, <2>1
  <1> QED
    BY <1>4, <1>5, <1>7, <1>8, <1>9, <1>10

-----------------------------------------------------------------------------
(* The schedule of MCCommands.                                             *)

\* The target within a stage.
LEMMA TargetAt ==
  ASSUME NEW s \in StageSeq, NEW e \in Nat, NEW i \in 1 .. Len(s),
         Stages!ScheduleLength(SubSeq(s, 1, i - 1)) <= e,
         e < Stages!ScheduleLength(SubSeq(s, 1, i - 1)) + s[i].dur
  PROVE  LET start == Stages!ScheduleLength(SubSeq(s, 1, i - 1))
         IN  /\ start \in Nat /\ TargetOf(s, i - 1) \in Nat
             /\ s[i].dur \in Nat \ {0} /\ s[i].target \in Nat
             /\ e - start \in 0 .. s[i].dur
             /\ Stages!CalculateTarget(s, e) = Stages!Interpolate(TargetOf(s, i - 1), s[i], e - start)
  <1> DEFINE start == Stages!ScheduleLength(SubSeq(s, 1, i - 1))
  <1>1. /\ start \in Nat
        /\ Stages!WalkStages(s, e) =
             [found |-> TRUE, used |-> start,
              value |-> Stages!Interpolate(TargetOf(s, i - 1), s[i], e - start)]
    BY WalkFinds
  <1>2. start <= e /\ e < start + s[i].dur
    OBVIOUS
  <1> HIDE DEF start
  <1>3. /\ Len(s) \in Nat
        /\ \A k \in 1 .. Len(s) : s[k].dur \in Nat /\ s[k].target \in Nat
    BY StageTypes
  <1>4. TargetOf(s, i - 1) \in Nat
    <2>1. i - 1 = 0 \/ i - 1 \in 1 .. Len(s)
      BY <1>3
    <2> QED
      BY <1>3, <2>1 DEF TargetOf
  <1>5. s[i].dur \in Nat \ {0} /\ s[i].target \in Nat /\ e - start \in 0 .. s[i].dur
    BY <1>1, <1>2, <1>3
  <1> QED
    BY <1>1, <1>4, <1>5 DEF start, Stages!CalculateTarget

ScheduleInv == schedule \in StageSeq /\ schedule # <<>> /\ elapsed \in Nat

\* Where the definitions of the schedule's model look.
LEMMA CurrentStage ==
  ASSUME ScheduleInv
  PROVE  /\ DOMAIN schedule = 1 .. Len(schedule)
         /\ \A i \in 1 .. Len(schedule) :
              /\ Stages!StartOf(i) = Stages!ScheduleLength(SubSeq(schedule, 1, i - 1))
              /\ Stages!TargetBefore(i) = TargetOf(schedule, i - 1)
              /\ Stages!Current(i) => /\ Stages!StartOf(i) <= elapsed
                                      /\ elapsed < Stages!StartOf(i) + schedule[i].dur
  <1>1. Len(schedule) \in Nat /\ DOMAIN schedule = 1 .. Len(schedule)
    BY StageTypes DEF ScheduleInv
  <1> QED
    BY <1>1 DEF Stages!StartOf, Stages!TargetBefore, TargetOf, Stages!Current

LEMMA OnTheLine == ScheduleInv => Stages!TargetIsOnTheLine
  <1> SUFFICES ASSUME ScheduleInv, NEW i \in 1 .. Len(schedule), Stages!Current(i)
               PROVE  LET v == Stages!CalculateTarget(schedule, elapsed)
                          line == Stages!TargetBefore(i) * (Stages!StartOf(i) + schedule[i].dur - elapsed)
                                  + schedule[i].target * (elapsed - Stages!StartOf(i))
                      IN  v * schedule[i].dur <= line /\ line < (v + 1) * schedule[i].dur
    BY CurrentStage DEF Stages!TargetIsOnTheLine
  <1> DEFINE e == elapsed - Stages!StartOf(i)
             v == Stages!CalculateTarget(schedule, elapsed)
             p == Stages!TargetBefore(i)
  <1>1. /\ Stages!StartOf(i) \in Nat /\ p \in Nat
        /\ schedule[i].dur \in Nat \ {0} /\ schedule[i].target \in Nat
        /\ e \in 0 .. schedule[i].dur
        /\ v = Stages!Interpolate(p, schedule[i], e)
    BY CurrentStage, TargetAt DEF ScheduleInv
  <1>2. elapsed \in Nat
    BY DEF ScheduleInv
  <1> HIDE DEF v, p
  <1>3. Stages!StartOf(i) + schedule[i].dur - elapsed = schedule[i].dur - e
    <2> DEFINE a == Stages!StartOf(i)
               d == schedule[i].dur
    <2>1. a \in Nat /\ d \in Nat
      BY <1>1
    <2> HIDE DEF a, d
    <2>2. a + d - elapsed = d - (elapsed - a)
      BY <1>2, <2>1
    <2> QED
      BY <2>2 DEF a, d
  <1> HIDE DEF e
  <1>4. LET line == p * (schedule[i].dur - e) + schedule[i].target * e
        IN  v * schedule[i].dur <= line /\ line < (v + 1) * schedule[i].dur
    BY <1>1, StageIsOnTheLine
  <1> QED
    BY <1>3, <1>4 DEF e, v, p

LEMMA EndsPart == ScheduleInv => Stages!EndsDiffer
  <1> SUFFICES ASSUME ScheduleInv PROVE Stages!EndsDiffer
    OBVIOUS
  <1>1. /\ Stages!ScheduleLength(schedule) \in Nat
        /\ elapsed < Stages!ScheduleLength(schedule) => Stages!WalkStages(schedule, elapsed).found
        /\ Stages!ScheduleLength(schedule) <= elapsed =>
              Stages!WalkStages(schedule, elapsed) =
                [found |-> FALSE, used |-> Stages!ScheduleLength(schedule),
                 value |-> TargetOf(schedule, Len(schedule))]
    BY WalkEnds DEF ScheduleInv
  <1>2. TargetOf(schedule, Len(schedule)) = schedule[Len(schedule)].target
    <2> DEFINE St == [dur : Nat, target : Nat]
    <2>1. schedule \in Seq(St) /\ schedule # <<>>
      BY DEF StageSeq, ScheduleInv
    <2> HIDE DEF St
    <2>2. Len(schedule) # 0
      BY <2>1
    <2> QED
      BY <2>2 DEF TargetOf
  <1>3. CASE elapsed < Stages!ScheduleLength(schedule)
    BY <1>1, <1>3 DEF Stages!EndsDiffer, Stages!CalculateTarget, Stages!CalculateRate
  <1>4. CASE ~(elapsed < Stages!ScheduleLength(schedule))
    <2>1. Stages!WalkStages(schedule, elapsed) =
                [found |-> FALSE, used |-> Stages!ScheduleLength(schedule),
                 value |-> TargetOf(schedule, Len(schedule))]
      BY <1>1, <1>4 DEF ScheduleInv
    <2> QED
      BY <1>2, <1>4, <2>1 DEF Stages!EndsDiffer, Stages!CalculateTarget, Stages!CalculateRate
  <1> QED
    BY <1>3, <1>4

\* A tick within a stage.
LEMMA TickMovesOneWay ==
  ASSUME ScheduleInv, schedule' = schedule, elapsed' = elapsed + 1,
         NEW i \in 1 .. Len(schedule), Stages!Current(i), Stages!Current(i)'
  PROVE  LET old == Stages!CalculateTarget(schedule, elapsed)
             new == Stages!CalculateTarget(schedule, elapsed')
         IN  IF schedule[i].target >= Stages!TargetBefore(i)
             THEN old <= new /\ new <= schedule[i].target
             ELSE old >= new /\ new >= schedule[i].target
  <1> DEFINE start == Stages!ScheduleLength(SubSeq(schedule, 1, i - 1))
             p == TargetOf(schedule, i - 1)
             d == schedule[i].dur
             t == schedule[i].target
             e == elapsed - start
             f == (elapsed + 1) - start
             u == Stages!CalculateTarget(schedule, elapsed)
             v == Stages!CalculateTarget(schedule, elapsed + 1)
  <1>1. schedule \in StageSeq /\ elapsed \in Nat /\ elapsed + 1 \in Nat
    BY DEF ScheduleInv
  <1>2. /\ start <= elapsed /\ elapsed < start + d
        /\ start <= elapsed + 1 /\ elapsed + 1 < start + d
        /\ Stages!TargetBefore(i) = p
    BY CurrentStage DEF Stages!Current, Stages!StartOf
  <1>3. /\ start \in Nat /\ p \in Nat /\ d \in Nat \ {0} /\ t \in Nat
        /\ e \in 0 .. d /\ u = Stages!Interpolate(p, schedule[i], e)
    BY <1>1, <1>2, TargetAt
  <1>4. f \in 0 .. d /\ v = Stages!Interpolate(p, schedule[i], f)
    BY <1>1, <1>2, TargetAt
  <1> HIDE DEF u, v, p, start, d, t
  <1>5. e \in 0 .. d /\ f \in 0 .. d /\ f \in e .. d
    BY <1>1, <1>3, <1>4
  <1> HIDE DEF e, f
  <1>6. u \in Int /\ u * d <= p * (d - e) + t * e /\ p * (d - e) + t * e < (u + 1) * d
    BY <1>3, StageIsOnTheLine DEF d, t
  <1>7. v \in Int /\ v * d <= p * (d - f) + t * f /\ p * (d - f) + t * f < (v + 1) * d
    BY <1>3, <1>4, StageIsOnTheLine DEF d, t
  <1>a. p \in Nat /\ t \in Nat /\ d \in Nat \ {0}
    BY <1>3
  <1>8. (p <= t => u <= v /\ v <= t) /\ (t <= p => v <= u /\ t <= v)
    BY <1>5, <1>6, <1>7, <1>a, LineMovesOneWay
  <1>9. IF t >= p THEN u <= v /\ v <= t ELSE u >= v /\ v >= t
    BY <1>6, <1>7, <1>8, <1>a
  <1>b. Stages!TargetBefore(i) = p
    BY <1>2
  <1> QED
    BY <1>9, <1>b DEF u, v, t

LEMMA ScheduleInit == Stages!Init => ScheduleInv
  <1> SUFFICES ASSUME Stages!Init PROVE ScheduleInv
    OBVIOUS
  <1> DEFINE St == [dur : Nat, target : Nat]
  <1>1. PICK n \in 1 .. MaxStages : schedule \in [1 .. n -> Stages!Stage]
    BY DEF Stages!Init
  <1>2. Stages!Stage \subseteq St
    BY DEF Stages!Stage
  <1>3. elapsed = 0
    BY DEF Stages!Init
  <1> HIDE DEF St
  <1>4. n \in Nat \ {0} /\ schedule \in [1 .. n -> St]
    BY <1>1, <1>2
  <1>5. schedule \in Seq(St) /\ schedule # <<>>
    BY <1>4
  <1> QED
    BY <1>3, <1>5 DEF St, ScheduleInv, StageSeq

LEMMA ScheduleSteps ==
  [Next]_commandVars =>
    /\ part' = part
    /\ Stages!Tick \/ UNCHANGED stages
  BY DEF Next, Scheduled, Counting, MainThread, TuiThread, TuiQuits, UserAnswers, Watching, Editing,
         Recording, commandVars, stages, Stages!Next, Stages!Over, Stages!clockVars

LEMMA ScheduleInvariant == Spec => [](part = "schedule" => ScheduleInv)
  <1> DEFINE Inv == part = "schedule" => ScheduleInv
  <1>1. Init => Inv
    BY ScheduleInit DEF Init
  <1>2. Inv /\ [Next]_commandVars => Inv'
    BY ScheduleSteps DEF ScheduleInv, stages, Stages!Tick
  <1> QED
    BY <1>1, <1>2, PTL DEF Spec

\* The worker target (calculate_target of engine/mod.rs): for every schedule and
\* at every time the walk over the stages finds the stage that contains the time,
\* and the target is the largest integer on or below the line between the target
\* before it and its own.
THEOREM ScheduleIsOnTheLine == Spec => []TargetIsOnTheLine
  <1>1. (part = "schedule" => ScheduleInv) => TargetIsOnTheLine
    BY OnTheLine DEF TargetIsOnTheLine
  <1> QED
    BY <1>1, ScheduleInvariant, PTL

\* The two walks (calculate_target, calculate_rate): for every schedule, target
\* and arrival rate are the same until its end; from then on the target is 0 and
\* the rate that of the last stage.
THEOREM RateOutlivesTarget == Spec => []EndsDiffer
  <1>1. (part = "schedule" => ScheduleInv) => EndsDiffer
    BY EndsPart DEF EndsDiffer
  <1> QED
    BY <1>1, ScheduleInvariant, PTL

\* Within a stage of any schedule the target only moves towards the stage's
\* target, never back and never past it, although each value is rounded down.
THEOREM TargetMovesOneWay == Spec => MovesTowardsStageTarget
  <1> DEFINE Act == \A i \in DOMAIN schedule : (Stages!Current(i) /\ Stages!Current(i)') =>
                      LET old == Stages!CalculateTarget(schedule, elapsed)
                          new == Stages!CalculateTarget(schedule, elapsed')
                      IN  IF schedule[i].target >= Stages!TargetBefore(i)
                          THEN old <= new /\ new <= schedule[i].target
                          ELSE old >= new /\ new >= schedule[i].target
  <1>1. (part = "schedule" => ScheduleInv) /\ [Next]_commandVars => [Act]_(Stages!clockVars)
    <2> SUFFICES ASSUME part = "schedule" => ScheduleInv, [Next]_commandVars,
                        ~UNCHANGED Stages!clockVars
                 PROVE  Act
      OBVIOUS
    <2>1. part = "schedule" /\ Stages!Tick
      BY DEF Next, Scheduled, Counting, MainThread, TuiThread, TuiQuits, UserAnswers, Watching, Editing,
             Recording, commandVars, stages, Stages!Next, Stages!Over, Stages!clockVars
    <2>2. ScheduleInv /\ schedule' = schedule /\ elapsed' = elapsed + 1
      BY <2>1 DEF Stages!Tick
    <2>3. DOMAIN schedule = 1 .. Len(schedule)
      BY <2>2, CurrentStage
    <2> QED
      BY <2>2, <2>3, TickMovesOneWay
  <1> QED
    BY <1>1, ScheduleInvariant, PTL DEF Spec, MovesTowardsStageTarget, Stages!MovesTowardsStageTarget

-----------------------------------------------------------------------------
(* The statistics.  What an aggregator counts is a record of sums, and the *)
(* sums are tables, so the merge of shards is a sum as well: associative   *)
(* and commutative, with nothing as its zero.  A metric adds its unit.     *)

\* A table from names to numbers (the HashMaps of counts of stats/mod.rs).
IsTab(f) == f = [k \in DOMAIN f |-> f[k]] /\ \A k \in DOMAIN f : f[k] \in Nat

\* What a table says of any name is a number.
LEMMA AtType == ASSUME NEW f, IsTab(f), NEW k PROVE Stats!At(f, k) \in Nat
  BY DEF IsTab, Stats!At

\* Tables that say the same of the same names are the same.
LEMMA TabEq ==
  ASSUME NEW f, NEW g, IsTab(f), IsTab(g), DOMAIN f = DOMAIN g,
         \A k \in DOMAIN f : Stats!At(f, k) = Stats!At(g, k)
  PROVE  f = g
  <1>1. \A k \in DOMAIN f : f[k] = g[k]
    BY DEF Stats!At
  <1> QED
    BY <1>1 DEF IsTab

\* The sum of two tables has the names of both and adds what they say.
LEMMA PlusIs ==
  ASSUME NEW f, NEW g, IsTab(f), IsTab(g)
  PROVE  /\ IsTab(Stats!Plus(f, g)) /\ DOMAIN Stats!Plus(f, g) = DOMAIN f \cup DOMAIN g
         /\ \A k : Stats!At(Stats!Plus(f, g), k) = Stats!At(f, k) + Stats!At(g, k)
  <1> DEFINE p == Stats!Plus(f, g)
  <1>1. p = [k \in DOMAIN f \cup DOMAIN g |-> Stats!At(f, k) + Stats!At(g, k)]
    BY DEF Stats!Plus
  <1>2. \A k : Stats!At(f, k) \in Nat /\ Stats!At(g, k) \in Nat
    BY AtType
  <1> HIDE DEF p
  <1>3. DOMAIN p = DOMAIN f \cup DOMAIN g
    BY <1>1
  <1>4. \A k \in DOMAIN p : p[k] = Stats!At(f, k) + Stats!At(g, k)
    BY <1>1, <1>3
  <1>5. IsTab(p)
    <2>1. p = [k \in DOMAIN p |-> p[k]]
      BY <1>1
    <2> QED
      BY <2>1, <1>2, <1>4 DEF IsTab
  <1>6. ASSUME NEW k PROVE Stats!At(p, k) = Stats!At(f, k) + Stats!At(g, k)
    <2>1. CASE k \in DOMAIN p
      BY <2>1, <1>4 DEF Stats!At
    <2>2. CASE k \notin DOMAIN p
      BY <2>2, <1>3 DEF Stats!At
    <2> QED
      BY <2>1, <2>2
  <1> QED
    BY <1>3, <1>5, <1>6 DEF p

\* Adding up tables is associative ...
LEMMA PlusAssoc ==
  ASSUME NEW f, NEW g, NEW h, IsTab(f), IsTab(g), IsTab(h)
  PROVE  Stats!Plus(Stats!Plus(f, g), h) = Stats!Plus(f, Stats!Plus(g, h))
  <1> DEFINE p == Stats!Plus(f, g)
             q == Stats!Plus(g, h)
             r == Stats!Plus(p, h)
             s == Stats!Plus(f, q)
  <1>1. /\ IsTab(p) /\ DOMAIN p = DOMAIN f \cup DOMAIN g
        /\ \A k : Stats!At(p, k) = Stats!At(f, k) + Stats!At(g, k)
    BY PlusIs
  <1>2. /\ IsTab(q) /\ DOMAIN q = DOMAIN g \cup DOMAIN h
        /\ \A k : Stats!At(q, k) = Stats!At(g, k) + Stats!At(h, k)
    BY PlusIs
  <1> HIDE DEF p, q
  <1>3. /\ IsTab(r) /\ DOMAIN r = DOMAIN p \cup DOMAIN h
        /\ \A k : Stats!At(r, k) = Stats!At(p, k) + Stats!At(h, k)
    BY <1>1, PlusIs
  <1>4. /\ IsTab(s) /\ DOMAIN s = DOMAIN f \cup DOMAIN q
        /\ \A k : Stats!At(s, k) = Stats!At(f, k) + Stats!At(q, k)
    BY <1>2, PlusIs
  <1> HIDE DEF r, s
  <1>5. DOMAIN r = DOMAIN s
    BY <1>1, <1>2, <1>3, <1>4
  <1>6. ASSUME NEW k PROVE Stats!At(r, k) = Stats!At(s, k)
    <2>1. Stats!At(f, k) \in Nat /\ Stats!At(g, k) \in Nat /\ Stats!At(h, k) \in Nat
      BY AtType
    <2> QED
      BY <2>1, <1>1, <1>2, <1>3, <1>4
  <1>7. r = s
    BY <1>3, <1>4, <1>5, <1>6, TabEq
  <1> QED
    BY <1>7 DEF p, q, r, s

\* ... and commutative, ...
LEMMA PlusComm ==
  ASSUME NEW f, NEW g, IsTab(f), IsTab(g)
  PROVE  Stats!Plus(f, g) = Stats!Plus(g, f)
  <1> DEFINE p == Stats!Plus(f, g)
             q == Stats!Plus(g, f)
  <1>1. /\ IsTab(p) /\ DOMAIN p = DOMAIN f \cup DOMAIN g
        /\ \A k : Stats!At(p, k) = Stats!At(f, k) + Stats!At(g, k)
    BY PlusIs
  <1>2. /\ IsTab(q) /\ DOMAIN q = DOMAIN g \cup DOMAIN f
        /\ \A k : Stats!At(q, k) = Stats!At(g, k) + Stats!At(f, k)
    BY PlusIs
  <1> HIDE DEF p, q
  <1>3. ASSUME NEW k PROVE Stats!At(p, k) = Stats!At(q, k)
    <2>1. Stats!At(f, k) \in Nat /\ Stats!At(g, k) \in Nat
      BY AtType
    <2> QED
      BY <2>1, <1>1, <1>2
  <1>4. p = q
    BY <1>1, <1>2, <1>3, TabEq
  <1> QED
    BY <1>4 DEF p, q

\* The empty table and the table of one name are tables.
LEMMA SmallTabs ==
  /\ IsTab(Stats!Empty) /\ DOMAIN Stats!Empty = {}
  /\ \A k, n : n \in Nat => IsTab(Stats!One(k, n))
  BY DEF IsTab, Stats!Empty, Stats!One

\* ... and the empty table adds nothing.
LEMMA PlusEmpty ==
  ASSUME NEW f, IsTab(f)
  PROVE  Stats!Plus(f, Stats!Empty) = f /\ Stats!Plus(Stats!Empty, f) = f
  <1> DEFINE p == Stats!Plus(f, Stats!Empty)
  <1>1. /\ IsTab(p) /\ DOMAIN p = DOMAIN f
        /\ \A k : Stats!At(p, k) = Stats!At(f, k) + Stats!At(Stats!Empty, k)
    <2> DEFINE z == Stats!Empty
    <2>1. IsTab(z) /\ DOMAIN z = {}
      BY SmallTabs
    <2> HIDE DEF z
    <2>2. /\ IsTab(Stats!Plus(f, z)) /\ DOMAIN Stats!Plus(f, z) = DOMAIN f \cup DOMAIN z
          /\ \A k : Stats!At(Stats!Plus(f, z), k) = Stats!At(f, k) + Stats!At(z, k)
      BY <2>1, PlusIs
    <2> QED
      BY <2>1, <2>2 DEF z
  <1> HIDE DEF p
  <1>2. ASSUME NEW k PROVE Stats!At(p, k) = Stats!At(f, k)
    <2>1. Stats!At(f, k) \in Nat /\ Stats!At(Stats!Empty, k) = 0
      BY AtType, SmallTabs DEF Stats!At
    <2> QED
      BY <2>1, <1>1
  <1>3. p = f
    BY <1>1, <1>2, TabEq
  <1> QED
    BY <1>3, PlusComm, SmallTabs DEF p

-----------------------------------------------------------------------------
\* The larger and the smaller of two numbers.
LEMMA TwoOf ==
  ASSUME NEW a \in Nat, NEW b \in Nat
  PROVE  /\ Stats!Max({a, b}) = IF a >= b THEN a ELSE b
         /\ Stats!Min({a, b}) = IF a <= b THEN a ELSE b
  <1>1. \E x \in {a, b} : \A y \in {a, b} : x >= y
    OBVIOUS
  <1>2. \E x \in {a, b} : \A y \in {a, b} : x <= y
    OBVIOUS
  <1>3. Stats!Max({a, b}) \in {a, b} /\ \A y \in {a, b} : Stats!Max({a, b}) >= y
    BY <1>1 DEF Stats!Max
  <1>4. Stats!Min({a, b}) \in {a, b} /\ \A y \in {a, b} : Stats!Min({a, b}) <= y
    BY <1>2 DEF Stats!Min
  <1> QED
    BY <1>3, <1>4

\* The fastest request: None before the first.
Times == Nat \cup {None}

\* The faster of two: associative, commutative, None adds nothing.
LEMMA SmallerRules ==
  ASSUME None \notin Nat, NEW a \in Times, NEW b \in Times, NEW c \in Times
  PROVE  /\ Stats!Smaller(a, b) \in Times /\ Stats!Smaller(a, b) = Stats!Smaller(b, a)
         /\ Stats!Smaller(Stats!Smaller(a, b), c) = Stats!Smaller(a, Stats!Smaller(b, c))
         /\ Stats!Smaller(None, a) = a /\ Stats!Smaller(a, None) = a
  <1> DEFINE Sm(x, y) == IF x = None THEN y ELSE IF y = None THEN x ELSE IF x <= y THEN x ELSE y
  <1>1. \A x, y \in Times : Stats!Smaller(x, y) = Sm(x, y)
    BY TwoOf DEF Stats!Smaller, Times
  <1>2. \A x, y \in Times : Sm(x, y) \in Times /\ Sm(x, y) = Sm(y, x)
    BY DEF Times
  <1>3. Sm(Sm(a, b), c) = Sm(a, Sm(b, c))
    BY DEF Times
  <1>4. Sm(None, a) = a /\ Sm(a, None) = a /\ None \in Times
    BY DEF Times
  <1> HIDE DEF Sm
  <1> QED
    BY <1>1, <1>2, <1>3, <1>4

Larger(a, b) == Stats!Max({a, b})

\* The slower of two: associative, commutative, 0 adds nothing.
LEMMA LargerRules ==
  ASSUME NEW a \in Nat, NEW b \in Nat, NEW c \in Nat
  PROVE  /\ Larger(a, b) \in Nat /\ Larger(a, b) = Larger(b, a)
         /\ Larger(Larger(a, b), c) = Larger(a, Larger(b, c))
         /\ Larger(0, a) = a
  <1>1. \A x, y \in Nat : Larger(x, y) = IF x >= y THEN x ELSE y
    BY TwoOf DEF Larger
  <1>2. \A x, y \in Nat : Larger(x, y) \in Nat
    BY <1>1
  <1>3. Larger(a, b) = Larger(b, a) /\ Larger(0, a) = a
    BY <1>1
  <1>4. Larger(Larger(a, b), c) = Larger(a, Larger(b, c))
    <2> DEFINE p == Larger(a, b)
               q == Larger(b, c)
    <2>1. p \in Nat /\ q \in Nat /\ p = (IF a >= b THEN a ELSE b) /\ q = (IF b >= c THEN b ELSE c)
      BY <1>1
    <2> HIDE DEF p, q
    <2>2. Larger(p, c) = (IF p >= c THEN p ELSE c) /\ Larger(a, q) = (IF a >= q THEN a ELSE q)
      BY <1>1, <2>1
    <2>3. Larger(p, c) = Larger(a, q)
      BY <2>1, <2>2
    <2> QED
      BY <2>3 DEF p, q
  <1> QED
    BY <1>2, <1>3, <1>4

\* The latencies of requests.
IsLat(l) ==
  /\ l = [total |-> l.total, sum |-> l.sum, min |-> l.min, max |-> l.max, hist |-> l.hist,
          errors |-> l.errors]
  /\ l.total \in Nat /\ l.sum \in Nat /\ l.min \in Times /\ l.max \in Nat /\ l.errors \in Nat
  /\ IsTab(l.hist)

\* Joining the latencies of two groups of requests gives latencies, ...
LEMMA JoinIs ==
  ASSUME None \notin Nat, NEW l, NEW k, IsLat(l), IsLat(k)
  PROVE  IsLat(Stats!Join(l, k))
  <1> DEFINE j == Stats!Join(l, k)
             h == Stats!Plus(l.hist, k.hist)
             mn == Stats!Smaller(l.min, k.min)
             mx == Stats!Max({l.max, k.max})
  <1>a. Larger(l.max, k.max) \in Nat
    BY LargerRules DEF IsLat
  <1>1. IsTab(h) /\ mn \in Times /\ mx \in Nat
    BY <1>a, PlusIs, SmallerRules DEF IsLat, Larger
  <1>2. j = [total |-> l.total + k.total, sum |-> l.sum + k.sum, min |-> mn,
             max |-> mx, hist |-> h, errors |-> l.errors + k.errors]
    BY DEF Stats!Join, Stats!JoinMin
  <1> HIDE DEF j, h, mn, mx
  <1>3. l.total + k.total \in Nat /\ l.sum + k.sum \in Nat /\ l.errors + k.errors \in Nat
    BY DEF IsLat
  <1>4. IsLat(j)
    BY <1>1, <1>2, <1>3 DEF IsLat
  <1> QED
    BY <1>4 DEF j

\* ... whichever group comes first, ...
LEMMA JoinComm ==
  ASSUME None \notin Nat, NEW l, NEW k, IsLat(l), IsLat(k)
  PROVE  Stats!Join(l, k) = Stats!Join(k, l)
  <1>1. l.total + k.total = k.total + l.total /\ l.sum + k.sum = k.sum + l.sum
        /\ l.errors + k.errors = k.errors + l.errors
    BY DEF IsLat
  <1>2. Stats!Smaller(l.min, k.min) = Stats!Smaller(k.min, l.min)
    BY SmallerRules DEF IsLat
  <1>a. Larger(l.max, k.max) = Larger(k.max, l.max)
    BY LargerRules DEF IsLat
  <1>3. Stats!Max({l.max, k.max}) = Stats!Max({k.max, l.max})
    BY <1>a DEF Larger
  <1>4. Stats!Plus(l.hist, k.hist) = Stats!Plus(k.hist, l.hist)
    BY PlusComm DEF IsLat
  <1> QED
    BY <1>1, <1>2, <1>3, <1>4 DEF Stats!Join, Stats!JoinMin

\* ... however three groups are joined, ...
LEMMA JoinAssoc ==
  ASSUME None \notin Nat, NEW l, NEW k, NEW m, IsLat(l), IsLat(k), IsLat(m)
  PROVE  Stats!Join(Stats!Join(l, k), m) = Stats!Join(l, Stats!Join(k, m))
  <1>1. /\ (l.total + k.total) + m.total = l.total + (k.total + m.total)
        /\ (l.sum + k.sum) + m.sum = l.sum + (k.sum + m.sum)
        /\ (l.errors + k.errors) + m.errors = l.errors + (k.errors + m.errors)
    BY DEF IsLat
  <1>2. Stats!Smaller(Stats!Smaller(l.min, k.min), m.min) = Stats!Smaller(l.min, Stats!Smaller(k.min, m.min))
    BY SmallerRules DEF IsLat
  <1>3. Stats!Max({Stats!Max({l.max, k.max}), m.max}) = Stats!Max({l.max, Stats!Max({k.max, m.max})})
    <2>1. Larger(Larger(l.max, k.max), m.max) = Larger(l.max, Larger(k.max, m.max))
      BY LargerRules DEF IsLat
    <2> QED
      BY <2>1 DEF Larger
  <1>4. Stats!Plus(Stats!Plus(l.hist, k.hist), m.hist) = Stats!Plus(l.hist, Stats!Plus(k.hist, m.hist))
    BY PlusAssoc DEF IsLat
  <1> QED
    BY <1>1, <1>2, <1>3, <1>4 DEF Stats!Join, Stats!JoinMin

\* ... and what is known before the first request are latencies ...
LEMMA NoLatencyIs == IsLat(Stats!NoLatency)
  BY SmallTabs DEF IsLat, Stats!NoLatency, Times

\* ... that add nothing.
LEMMA JoinNothing ==
  ASSUME None \notin Nat, NEW l, IsLat(l)
  PROVE  Stats!Join(Stats!NoLatency, l) = l /\ Stats!Join(l, Stats!NoLatency) = l
  <1>1. Stats!Join(Stats!NoLatency, l) = l
    <2>1. 0 + l.total = l.total /\ 0 + l.sum = l.sum /\ 0 + l.errors = l.errors
      BY DEF IsLat
    <2>2. Stats!Smaller(None, l.min) = l.min
      BY SmallerRules DEF IsLat
    <2>a. Larger(0, l.max) = l.max
      BY LargerRules DEF IsLat
    <2>3. Stats!Max({0, l.max}) = l.max
      BY <2>a DEF Larger
    <2>4. Stats!Plus(Stats!Empty, l.hist) = l.hist
      BY PlusEmpty DEF IsLat
    <2>5. Stats!Join(Stats!NoLatency, l) =
            [total |-> l.total, sum |-> l.sum, min |-> l.min, max |-> l.max, hist |-> l.hist,
             errors |-> l.errors]
      BY <2>1, <2>2, <2>3, <2>4 DEF Stats!Join, Stats!JoinMin, Stats!NoLatency
    <2> QED
      BY <2>5 DEF IsLat
  <1> QED
    BY <1>1, JoinComm, NoLatencyIs

-----------------------------------------------------------------------------
(* Groups and custom histograms: tables of those.                          *)

IsGroups(g) == g = [n \in DOMAIN g |-> g[n]] /\ \A n \in DOMAIN g : IsLat(g[n])
IsHists(g) == g = [n \in DOMAIN g |-> g[n]] /\ \A n \in DOMAIN g : IsTab(g[n])

GroupOf(g, n) == IF n \in DOMAIN g THEN g[n] ELSE Stats!NoLatency
HistOf(g, n) == IF n \in DOMAIN g THEN g[n] ELSE Stats!Empty

JoinGroups(f, g) == [n \in DOMAIN f \cup DOMAIN g |-> Stats!Join(GroupOf(f, n), GroupOf(g, n))]
JoinHists(f, g) == [n \in DOMAIN f \cup DOMAIN g |-> Stats!Plus(HistOf(f, n), HistOf(g, n))]

\* What a table of groups says of a name: nothing yet, or latencies.
LEMMA GroupOfIs == ASSUME NEW g, IsGroups(g), NEW n PROVE IsLat(GroupOf(g, n))
  BY NoLatencyIs DEF IsGroups, GroupOf

\* What a table of histograms says of a name.
LEMMA HistOfIs == ASSUME NEW g, IsHists(g), NEW n PROVE IsTab(HistOf(g, n))
  BY SmallTabs DEF IsHists, HistOf

\* Tables of groups that say the same are the same, ...
LEMMA GroupsEq ==
  ASSUME NEW f, NEW g, IsGroups(f), IsGroups(g), DOMAIN f = DOMAIN g,
         \A n : GroupOf(f, n) = GroupOf(g, n)
  PROVE  f = g
  <1>1. \A k \in DOMAIN f : f[k] = g[k]
    BY DEF GroupOf
  <1> QED
    BY <1>1 DEF IsGroups

\* ... and so are tables of histograms.
LEMMA HistsEq ==
  ASSUME NEW f, NEW g, IsHists(f), IsHists(g), DOMAIN f = DOMAIN g,
         \A n : HistOf(f, n) = HistOf(g, n)
  PROVE  f = g
  <1>1. \A k \in DOMAIN f : f[k] = g[k]
    BY DEF HistOf
  <1> QED
    BY <1>1 DEF IsHists

\* Tables of groups are joined group by group, ...
LEMMA JoinGroupsIs ==
  ASSUME None \notin Nat, NEW f, NEW g, IsGroups(f), IsGroups(g)
  PROVE  /\ IsGroups(JoinGroups(f, g)) /\ DOMAIN JoinGroups(f, g) = DOMAIN f \cup DOMAIN g
         /\ \A n : GroupOf(JoinGroups(f, g), n) = Stats!Join(GroupOf(f, n), GroupOf(g, n))
  <1> DEFINE p == JoinGroups(f, g)
             J(n) == Stats!Join(GroupOf(f, n), GroupOf(g, n))
  <1>1. p = [n \in DOMAIN f \cup DOMAIN g |-> J(n)]
    BY DEF JoinGroups
  <1>2. \A n : IsLat(J(n))
    BY GroupOfIs, JoinIs
  <1>3. \A n : n \notin DOMAIN f \cup DOMAIN g => J(n) = Stats!NoLatency
    BY JoinNothing, NoLatencyIs DEF GroupOf
  <1> HIDE DEF p, J
  <1>4. DOMAIN p = DOMAIN f \cup DOMAIN g /\ p = [n \in DOMAIN p |-> p[n]]
    BY <1>1
  <1>5. \A n \in DOMAIN p : p[n] = J(n)
    BY <1>1, <1>4
  <1>6. IsGroups(p)
    BY <1>2, <1>4, <1>5 DEF IsGroups
  <1>7. \A n : GroupOf(p, n) = J(n)
    BY <1>3, <1>4, <1>5 DEF GroupOf
  <1> QED
    BY <1>4, <1>6, <1>7 DEF p, J

\* ... tables of histograms histogram by histogram, ...
LEMMA JoinHistsIs ==
  ASSUME NEW f, NEW g, IsHists(f), IsHists(g)
  PROVE  /\ IsHists(JoinHists(f, g)) /\ DOMAIN JoinHists(f, g) = DOMAIN f \cup DOMAIN g
         /\ \A n : HistOf(JoinHists(f, g), n) = Stats!Plus(HistOf(f, n), HistOf(g, n))
  <1> DEFINE p == JoinHists(f, g)
             J(n) == Stats!Plus(HistOf(f, n), HistOf(g, n))
  <1>1. p = [n \in DOMAIN f \cup DOMAIN g |-> J(n)]
    BY DEF JoinHists
  <1>2. \A n : IsTab(J(n))
    BY HistOfIs, PlusIs
  <1>3. \A n : n \notin DOMAIN f \cup DOMAIN g => J(n) = Stats!Empty
    BY PlusEmpty, SmallTabs DEF HistOf
  <1> HIDE DEF p, J
  <1>4. DOMAIN p = DOMAIN f \cup DOMAIN g /\ p = [n \in DOMAIN p |-> p[n]]
    BY <1>1
  <1>5. \A n \in DOMAIN p : p[n] = J(n)
    BY <1>1, <1>4
  <1>6. IsHists(p)
    BY <1>2, <1>4, <1>5 DEF IsHists
  <1>7. \A n : HistOf(p, n) = J(n)
    BY <1>3, <1>4, <1>5 DEF HistOf
  <1> QED
    BY <1>4, <1>6, <1>7 DEF p, J

\* ... in any order, ...
LEMMA GroupsComm ==
  ASSUME None \notin Nat, NEW f, NEW g, IsGroups(f), IsGroups(g)
  PROVE  JoinGroups(f, g) = JoinGroups(g, f)
  <1>1. \A n : Stats!Join(GroupOf(f, n), GroupOf(g, n)) = Stats!Join(GroupOf(g, n), GroupOf(f, n))
    BY GroupOfIs, JoinComm
  <1>2. DOMAIN f \cup DOMAIN g = DOMAIN g \cup DOMAIN f
    OBVIOUS
  <1> QED
    BY <1>1, <1>2 DEF JoinGroups

\* ... the histograms too, ...
LEMMA HistsComm ==
  ASSUME NEW f, NEW g, IsHists(f), IsHists(g)
  PROVE  JoinHists(f, g) = JoinHists(g, f)
  <1>1. \A n : Stats!Plus(HistOf(f, n), HistOf(g, n)) = Stats!Plus(HistOf(g, n), HistOf(f, n))
    BY HistOfIs, PlusComm
  <1>2. DOMAIN f \cup DOMAIN g = DOMAIN g \cup DOMAIN f
    OBVIOUS
  <1> QED
    BY <1>1, <1>2 DEF JoinHists

\* ... however three tables of groups are joined ...
LEMMA GroupsAssoc ==
  ASSUME None \notin Nat, NEW f, NEW g, NEW h, IsGroups(f), IsGroups(g), IsGroups(h)
  PROVE  JoinGroups(JoinGroups(f, g), h) = JoinGroups(f, JoinGroups(g, h))
  <1> DEFINE p == JoinGroups(f, g)
             q == JoinGroups(g, h)
             r == JoinGroups(p, h)
             s == JoinGroups(f, q)
  <1>1. /\ IsGroups(p) /\ DOMAIN p = DOMAIN f \cup DOMAIN g
        /\ \A n : GroupOf(p, n) = Stats!Join(GroupOf(f, n), GroupOf(g, n))
    BY JoinGroupsIs
  <1>2. /\ IsGroups(q) /\ DOMAIN q = DOMAIN g \cup DOMAIN h
        /\ \A n : GroupOf(q, n) = Stats!Join(GroupOf(g, n), GroupOf(h, n))
    BY JoinGroupsIs
  <1> HIDE DEF p, q
  <1>3. /\ IsGroups(r) /\ DOMAIN r = DOMAIN p \cup DOMAIN h
        /\ \A n : GroupOf(r, n) = Stats!Join(GroupOf(p, n), GroupOf(h, n))
    BY <1>1, JoinGroupsIs
  <1>4. /\ IsGroups(s) /\ DOMAIN s = DOMAIN f \cup DOMAIN q
        /\ \A n : GroupOf(s, n) = Stats!Join(GroupOf(f, n), GroupOf(q, n))
    BY <1>2, JoinGroupsIs
  <1> HIDE DEF r, s
  <1>5. DOMAIN r = DOMAIN s
    BY <1>1, <1>2, <1>3, <1>4
  <1>6. ASSUME NEW n PROVE GroupOf(r, n) = GroupOf(s, n)
    <2>1. IsLat(GroupOf(f, n)) /\ IsLat(GroupOf(g, n)) /\ IsLat(GroupOf(h, n))
      BY GroupOfIs
    <2>2. Stats!Join(Stats!Join(GroupOf(f, n), GroupOf(g, n)), GroupOf(h, n))
            = Stats!Join(GroupOf(f, n), Stats!Join(GroupOf(g, n), GroupOf(h, n)))
      BY <2>1, JoinAssoc
    <2> QED
      BY <2>2, <1>1, <1>2, <1>3, <1>4
  <1>7. r = s
    BY <1>3, <1>4, <1>5, <1>6, GroupsEq
  <1> QED
    BY <1>7 DEF p, q, r, s

\* ... or three tables of histograms.
LEMMA HistsAssoc ==
  ASSUME NEW f, NEW g, NEW h, IsHists(f), IsHists(g), IsHists(h)
  PROVE  JoinHists(JoinHists(f, g), h) = JoinHists(f, JoinHists(g, h))
  <1> DEFINE p == JoinHists(f, g)
             q == JoinHists(g, h)
             r == JoinHists(p, h)
             s == JoinHists(f, q)
  <1>1. /\ IsHists(p) /\ DOMAIN p = DOMAIN f \cup DOMAIN g
        /\ \A n : HistOf(p, n) = Stats!Plus(HistOf(f, n), HistOf(g, n))
    BY JoinHistsIs
  <1>2. /\ IsHists(q) /\ DOMAIN q = DOMAIN g \cup DOMAIN h
        /\ \A n : HistOf(q, n) = Stats!Plus(HistOf(g, n), HistOf(h, n))
    BY JoinHistsIs
  <1> HIDE DEF p, q
  <1>3. /\ IsHists(r) /\ DOMAIN r = DOMAIN p \cup DOMAIN h
        /\ \A n : HistOf(r, n) = Stats!Plus(HistOf(p, n), HistOf(h, n))
    BY <1>1, JoinHistsIs
  <1>4. /\ IsHists(s) /\ DOMAIN s = DOMAIN f \cup DOMAIN q
        /\ \A n : HistOf(s, n) = Stats!Plus(HistOf(f, n), HistOf(q, n))
    BY <1>2, JoinHistsIs
  <1> HIDE DEF r, s
  <1>5. DOMAIN r = DOMAIN s
    BY <1>1, <1>2, <1>3, <1>4
  <1>6. ASSUME NEW n PROVE HistOf(r, n) = HistOf(s, n)
    <2>1. IsTab(HistOf(f, n)) /\ IsTab(HistOf(g, n)) /\ IsTab(HistOf(h, n))
      BY HistOfIs
    <2>2. Stats!Plus(Stats!Plus(HistOf(f, n), HistOf(g, n)), HistOf(h, n))
            = Stats!Plus(HistOf(f, n), Stats!Plus(HistOf(g, n), HistOf(h, n)))
      BY <2>1, PlusAssoc
    <2> QED
      BY <2>2, <1>1, <1>2, <1>3, <1>4
  <1>7. r = s
    BY <1>3, <1>4, <1>5, <1>6, HistsEq
  <1> QED
    BY <1>7 DEF p, q, r, s

\* The counts of an aggregator: all but the gauges and the log lines, which depend on the order.
IsCore(c) ==
  /\ c = [all |-> c.all, codes |-> c.codes, errors |-> c.errors, failed |-> c.failed,
          groups |-> c.groups, checks |-> c.checks, hists |-> c.hists, sums |-> c.sums,
          rates |-> c.rates, counters |-> c.counters]
  /\ IsLat(c.all) /\ c.failed \in Nat /\ IsGroups(c.groups) /\ IsHists(c.hists)
  /\ IsTab(c.codes) /\ IsTab(c.errors) /\ IsTab(c.checks) /\ IsTab(c.sums)
  /\ IsTab(c.rates) /\ IsTab(c.counters)

\* What two aggregators counted together.
Both(a, b) ==
  [all |-> Stats!Join(a.all, b.all), codes |-> Stats!Plus(a.codes, b.codes),
   errors |-> Stats!Plus(a.errors, b.errors), failed |-> a.failed + b.failed,
   groups |-> JoinGroups(a.groups, b.groups), checks |-> Stats!Plus(a.checks, b.checks),
   hists |-> JoinHists(a.hists, b.hists), sums |-> Stats!Plus(a.sums, b.sums),
   rates |-> Stats!Plus(a.rates, b.rates), counters |-> Stats!Plus(a.counters, b.counters)]

\* The counts of two aggregators together are counts, ...
LEMMA BothIs ==
  ASSUME None \notin Nat, NEW a, NEW b, IsCore(a), IsCore(b) PROVE IsCore(Both(a, b))
  <1>1. IsLat(Stats!Join(a.all, b.all))
    BY JoinIs DEF IsCore
  <1>2. IsGroups(JoinGroups(a.groups, b.groups)) /\ IsHists(JoinHists(a.hists, b.hists))
    BY JoinGroupsIs, JoinHistsIs DEF IsCore
  <1>3. /\ IsTab(Stats!Plus(a.codes, b.codes)) /\ IsTab(Stats!Plus(a.errors, b.errors))
        /\ IsTab(Stats!Plus(a.checks, b.checks)) /\ IsTab(Stats!Plus(a.sums, b.sums))
        /\ IsTab(Stats!Plus(a.rates, b.rates)) /\ IsTab(Stats!Plus(a.counters, b.counters))
    BY PlusIs DEF IsCore
  <1>4. a.failed + b.failed \in Nat
    BY DEF IsCore
  <1> QED
    BY <1>1, <1>2, <1>3, <1>4 DEF IsCore, Both

\* ... whichever comes first, ...
LEMMA BothComm ==
  ASSUME None \notin Nat, NEW a, NEW b, IsCore(a), IsCore(b) PROVE Both(a, b) = Both(b, a)
  <1>1. Stats!Join(a.all, b.all) = Stats!Join(b.all, a.all)
    BY JoinComm DEF IsCore
  <1>2. JoinGroups(a.groups, b.groups) = JoinGroups(b.groups, a.groups)
    BY GroupsComm DEF IsCore
  <1>3. JoinHists(a.hists, b.hists) = JoinHists(b.hists, a.hists)
    BY HistsComm DEF IsCore
  <1>4. /\ Stats!Plus(a.codes, b.codes) = Stats!Plus(b.codes, a.codes)
        /\ Stats!Plus(a.errors, b.errors) = Stats!Plus(b.errors, a.errors)
        /\ Stats!Plus(a.checks, b.checks) = Stats!Plus(b.checks, a.checks)
    BY PlusComm DEF IsCore
  <1>5. /\ Stats!Plus(a.sums, b.sums) = Stats!Plus(b.sums, a.sums)
        /\ Stats!Plus(a.rates, b.rates) = Stats!Plus(b.rates, a.rates)
        /\ Stats!Plus(a.counters, b.counters) = Stats!Plus(b.counters, a.counters)
    BY PlusComm DEF IsCore
  <1>6. a.failed + b.failed = b.failed + a.failed
    BY DEF IsCore
  <1> QED
    BY <1>1, <1>2, <1>3, <1>4, <1>5, <1>6 DEF Both

\* ... however three are put together.
LEMMA BothAssoc ==
  ASSUME None \notin Nat, NEW a, NEW b, NEW c, IsCore(a), IsCore(b), IsCore(c)
  PROVE  Both(Both(a, b), c) = Both(a, Both(b, c))
  <1>1. Stats!Join(Stats!Join(a.all, b.all), c.all) = Stats!Join(a.all, Stats!Join(b.all, c.all))
    BY JoinAssoc DEF IsCore
  <1>2. JoinGroups(JoinGroups(a.groups, b.groups), c.groups)
          = JoinGroups(a.groups, JoinGroups(b.groups, c.groups))
    BY GroupsAssoc DEF IsCore
  <1>3. JoinHists(JoinHists(a.hists, b.hists), c.hists)
          = JoinHists(a.hists, JoinHists(b.hists, c.hists))
    BY HistsAssoc DEF IsCore
  <1>4. /\ Stats!Plus(Stats!Plus(a.codes, b.codes), c.codes)
             = Stats!Plus(a.codes, Stats!Plus(b.codes, c.codes))
        /\ Stats!Plus(Stats!Plus(a.errors, b.errors), c.errors)
             = Stats!Plus(a.errors, Stats!Plus(b.errors, c.errors))
        /\ Stats!Plus(Stats!Plus(a.checks, b.checks), c.checks)
             = Stats!Plus(a.checks, Stats!Plus(b.checks, c.checks))
    BY PlusAssoc DEF IsCore
  <1>5. /\ Stats!Plus(Stats!Plus(a.sums, b.sums), c.sums)
             = Stats!Plus(a.sums, Stats!Plus(b.sums, c.sums))
        /\ Stats!Plus(Stats!Plus(a.rates, b.rates), c.rates)
             = Stats!Plus(a.rates, Stats!Plus(b.rates, c.rates))
        /\ Stats!Plus(Stats!Plus(a.counters, b.counters), c.counters)
             = Stats!Plus(a.counters, Stats!Plus(b.counters, c.counters))
    BY PlusAssoc DEF IsCore
  <1>6. (a.failed + b.failed) + c.failed = a.failed + (b.failed + c.failed)
    BY DEF IsCore
  <1> QED
    BY <1>1, <1>2, <1>3, <1>4, <1>5, <1>6 DEF Both

-----------------------------------------------------------------------------
(* What an aggregator counts.                                              *)

Core(a) ==
  [all |-> a.all, codes |-> a.codes, errors |-> a.errors, failed |-> a.failed,
   groups |-> a.groups, checks |-> a.checks, hists |-> a.hists, sums |-> a.sums,
   rates |-> a.rates, counters |-> a.counters]

IsAgg(a) ==
  /\ a = [all |-> a.all, codes |-> a.codes, errors |-> a.errors, failed |-> a.failed,
          groups |-> a.groups, checks |-> a.checks, hists |-> a.hists, sums |-> a.sums,
          rates |-> a.rates, counters |-> a.counters, gauges |-> a.gauges, logs |-> a.logs]
  /\ IsCore(Core(a))

\* StatsAggregator::merge puts the counts together; a gauge is taken from the shard merged last.
LEMMA MergeIsBoth ==
  ASSUME NEW a, NEW s
  PROVE  /\ Core(Stats!MergeInto(a, s)) = Both(Core(a), Core(s))
         /\ IsCore(Both(Core(a), Core(s))) => IsAgg(Stats!MergeInto(a, s))
         /\ Stats!MergeInto(a, s).gauges
              = [n \in DOMAIN a.gauges \cup DOMAIN s.gauges |->
                   IF n \in DOMAIN s.gauges THEN s.gauges[n] ELSE a.gauges[n]]
  <1> DEFINE r == Stats!MergeInto(a, s)
             b == Both(Core(a), Core(s))
             gs == [n \in DOMAIN a.gauges \cup DOMAIN s.gauges |->
                      IF n \in DOMAIN s.gauges THEN s.gauges[n] ELSE a.gauges[n]]
             ls == a.logs \o s.logs
  <1>1. JoinGroups(a.groups, s.groups)
          = [n \in DOMAIN a.groups \cup DOMAIN s.groups |->
               Stats!Join(Stats!Group(a, n), Stats!Group(s, n))]
    BY DEF JoinGroups, GroupOf, Stats!Group
  <1>2. r = [all |-> b.all, codes |-> b.codes, errors |-> b.errors, failed |-> b.failed,
             groups |-> b.groups, checks |-> b.checks, hists |-> b.hists, sums |-> b.sums,
             rates |-> b.rates, counters |-> b.counters, gauges |-> gs, logs |-> ls]
    BY <1>1 DEF Stats!MergeInto, Both, Core, JoinHists, HistOf
  <1>3. b = [all |-> b.all, codes |-> b.codes, errors |-> b.errors, failed |-> b.failed,
             groups |-> b.groups, checks |-> b.checks, hists |-> b.hists, sums |-> b.sums,
             rates |-> b.rates, counters |-> b.counters]
    BY DEF Both
  <1> HIDE DEF r, b, gs, ls
  <1>4. Core(r) = b
    BY <1>2, <1>3 DEF Core
  <1>5. r = [all |-> r.all, codes |-> r.codes, errors |-> r.errors, failed |-> r.failed,
          groups |-> r.groups, checks |-> r.checks, hists |-> r.hists, sums |-> r.sums,
          rates |-> r.rates, counters |-> r.counters, gauges |-> r.gauges, logs |-> r.logs]
        /\ r.gauges = gs
    BY <1>2
  <1> QED
    BY <1>4, <1>5 DEF IsAgg, r, b, gs

\* A metric as the aggregator takes it.
IsMetric(m) ==
  \/ m.kind = "request" /\ m.dur \in Nat
  \/ m.kind \in {"check", "log", "gauge", "rate"}
  \/ m.kind \in {"histogram", "counter"} /\ m.value \in Nat

\* What one request is, as latencies.
Once(m) ==
  [total |-> 1, sum |-> m.dur, min |-> m.dur, max |-> m.dur,
   hist |-> Stats!Recorded(Stats!Empty, Stats!Max({m.dur, 1})),
   errors |-> IF m.error = None THEN 0 ELSE 1]

\* What one check or rate adds to its tally.
Tallied(m) ==
  [k \in {<<m.name, "total">>, <<m.name, "passes">>} |->
     IF k[2] = "total" \/ m.success THEN 1 ELSE 0]

NoCore == Core(Stats!NewAggregator)

\* What one metric adds.
RequestUnit(m) ==
  [all |-> IF Stats!IsIteration(m) THEN Stats!NoLatency ELSE Once(m),
   codes |-> IF Stats!IsIteration(m) THEN Stats!Empty ELSE Stats!One(m.status, 1),
   errors |-> IF Stats!AddsError(m) THEN Stats!One(m.error, 1) ELSE Stats!Empty,
   failed |-> IF Stats!AddsError(m) /\ Stats!IsIteration(m) THEN 1 ELSE 0,
   groups |-> [n \in {m.name} |-> Once(m)],
   checks |-> Stats!Empty, hists |-> Stats!Empty, sums |-> Stats!Empty,
   rates |-> Stats!Empty, counters |-> Stats!Empty]

Unit(m) ==
  IF m.kind = "request" THEN RequestUnit(m)
  ELSE [all |-> Stats!NoLatency, codes |-> Stats!Empty, errors |-> Stats!Empty, failed |-> 0,
        groups |-> Stats!Empty,
        checks |-> IF m.kind = "check" THEN Tallied(m) ELSE Stats!Empty,
        hists |-> IF m.kind = "histogram"
                  THEN [n \in {m.name} |-> Stats!Recorded(Stats!Empty, m.value * 1000)]
                  ELSE Stats!Empty,
        sums |-> IF m.kind = "histogram" THEN Stats!One(m.name, m.value) ELSE Stats!Empty,
        rates |-> IF m.kind = "rate" THEN Tallied(m) ELSE Stats!Empty,
        counters |-> IF m.kind = "counter" THEN Stats!One(m.name, m.value) ELSE Stats!Empty]

\* Recording a duration adds one to its bucket, or nothing beyond the histogram.
LEMMA RecordedIs ==
  ASSUME NEW h, IsTab(h), NEW v
  PROVE  /\ IsTab(Stats!Recorded(Stats!Empty, v))
         /\ Stats!Recorded(h, v) = Stats!Plus(h, Stats!Recorded(Stats!Empty, v))
  <1> DEFINE o == Stats!One(Stats!HighestEquivalent(v), 1)
             beyond == v > HistMax
  <1>1. IsTab(o) /\ IsTab(Stats!Empty)
    BY SmallTabs
  <1>2. \A g : Stats!Recorded(g, v) = IF beyond THEN g ELSE Stats!Plus(g, o)
    BY DEF Stats!Recorded
  <1> HIDE DEF o, beyond
  <1>3. Stats!Plus(Stats!Empty, o) = o /\ Stats!Plus(h, Stats!Empty) = h
    BY <1>1, PlusEmpty
  <1> QED
    BY <1>1, <1>2, <1>3

\* One request gives latencies.
LEMMA OnceIs ==
  ASSUME NEW m, m.dur \in Nat PROVE IsLat(Once(m))
  <1>1. IsTab(Stats!Recorded(Stats!Empty, Stats!Max({m.dur, 1})))
    BY RecordedIs, SmallTabs
  <1> QED
    BY <1>1 DEF Once, IsLat, Times

\* To measure a request is to join it.
LEMMA MeasuredIsJoin ==
  ASSUME None \notin Nat, NEW m, m.dur \in Nat, NEW l, IsLat(l)
  PROVE  Stats!Measured(l, m) = Stats!Join(l, Once(m))
  <1>1. Stats!Recorded(l.hist, Stats!Max({m.dur, 1}))
          = Stats!Plus(l.hist, Stats!Recorded(Stats!Empty, Stats!Max({m.dur, 1})))
    BY RecordedIs DEF IsLat
  <1> QED
    BY <1>1 DEF Stats!Measured, Stats!Micros, Stats!Join, Stats!JoinMin, Once

\* A new aggregator has counted nothing.
LEMMA NoCoreIs ==
  /\ NoCore = [all |-> Stats!NoLatency, codes |-> Stats!Empty, errors |-> Stats!Empty,
               failed |-> 0, groups |-> Stats!Empty, checks |-> Stats!Empty,
               hists |-> Stats!Empty, sums |-> Stats!Empty, rates |-> Stats!Empty,
               counters |-> Stats!Empty]
  /\ IsCore(NoCore) /\ IsAgg(Stats!NewAggregator)
  <1>1. NoCore = [all |-> Stats!NoLatency, codes |-> Stats!Empty, errors |-> Stats!Empty,
               failed |-> 0, groups |-> Stats!Empty, checks |-> Stats!Empty,
               hists |-> Stats!Empty, sums |-> Stats!Empty, rates |-> Stats!Empty,
               counters |-> Stats!Empty]
    BY DEF NoCore, Core, Stats!NewAggregator
  <1>2. IsTab(Stats!Empty) /\ IsGroups(Stats!Empty) /\ IsHists(Stats!Empty) /\ IsLat(Stats!NoLatency)
    BY SmallTabs, NoLatencyIs DEF IsTab, IsGroups, IsHists
  <1>3. IsCore(NoCore)
    BY <1>1, <1>2 DEF IsCore
  <1>4. IsAgg(Stats!NewAggregator)
    BY <1>3 DEF IsAgg, NoCore, Stats!NewAggregator
  <1> QED
    BY <1>1, <1>3, <1>4

\* A table of one group, and of one histogram.
LEMMA OneGroupIs ==
  ASSUME NEW n, NEW l, NEW g
  PROVE  /\ IsLat(l) => IsGroups([x \in {n} |-> l]) /\ DOMAIN [x \in {n} |-> l] = {n}
         /\ IsTab(g) => IsHists([x \in {n} |-> g]) /\ DOMAIN [x \in {n} |-> g] = {n}
  BY DEF IsGroups, IsHists

\* That is a table.
LEMMA TalliedIs == ASSUME NEW m PROVE IsTab(Tallied(m))
  BY DEF IsTab, Tallied

\* What a metric adds are counts.
LEMMA UnitIs ==
  ASSUME NEW m, IsMetric(m) PROVE IsCore(Unit(m))
  <1>0. /\ IsTab(Stats!Empty) /\ IsGroups(Stats!Empty) /\ IsHists(Stats!Empty)
        /\ IsLat(Stats!NoLatency)
        /\ \A k : IsTab(Stats!One(k, 1))
    BY SmallTabs, NoLatencyIs DEF IsTab, IsGroups, IsHists
  <1>1. CASE m.kind = "request"
    <2>1. IsLat(Once(m))
      BY <1>1, OnceIs DEF IsMetric
    <2>2. IsGroups([n \in {m.name} |-> Once(m)])
      BY <2>1, OneGroupIs
    <2> QED
      BY <1>0, <1>1, <2>1, <2>2 DEF IsCore, Unit, RequestUnit
  <1>2. CASE m.kind # "request"
    <2>1. m.kind \in {"histogram", "counter"} => IsTab(Stats!One(m.name, m.value))
      BY <1>2, SmallTabs DEF IsMetric
    <2>2. IsHists([n \in {m.name} |-> Stats!Recorded(Stats!Empty, m.value * 1000)])
      <3> DEFINE h == Stats!Recorded(Stats!Empty, m.value * 1000)
      <3>1. IsTab(h)
        BY RecordedIs, SmallTabs
      <3> HIDE DEF h
      <3>2. IsHists([n \in {m.name} |-> h])
        BY <3>1 DEF IsHists
      <3> QED
        BY <3>2 DEF h
    <2> DEFINE ch == IF m.kind = "check" THEN Tallied(m) ELSE Stats!Empty
               hs == IF m.kind = "histogram"
                     THEN [n \in {m.name} |-> Stats!Recorded(Stats!Empty, m.value * 1000)]
                     ELSE Stats!Empty
               sm == IF m.kind = "histogram" THEN Stats!One(m.name, m.value) ELSE Stats!Empty
               rt == IF m.kind = "rate" THEN Tallied(m) ELSE Stats!Empty
               ct == IF m.kind = "counter" THEN Stats!One(m.name, m.value) ELSE Stats!Empty
    <2>3. IsTab(ch) /\ IsHists(hs) /\ IsTab(sm) /\ IsTab(rt) /\ IsTab(ct)
      BY <1>0, <2>1, <2>2, TalliedIs
    <2>4. Unit(m) = [all |-> Stats!NoLatency, codes |-> Stats!Empty, errors |-> Stats!Empty,
                     failed |-> 0, groups |-> Stats!Empty, checks |-> ch, hists |-> hs,
                     sums |-> sm, rates |-> rt, counters |-> ct]
      BY <1>2 DEF Unit
    <2> HIDE DEF ch, hs, sm, rt, ct
    <2> QED
      BY <1>0, <2>3, <2>4 DEF IsCore
  <1> QED
    BY <1>1, <1>2

\* Adding nothing.
LEMMA BothNothing ==
  ASSUME None \notin Nat, NEW c, IsCore(c)
  PROVE  /\ Stats!Join(c.all, Stats!NoLatency) = c.all
         /\ Stats!Plus(c.codes, Stats!Empty) = c.codes
         /\ Stats!Plus(c.errors, Stats!Empty) = c.errors
         /\ c.failed + 0 = c.failed
         /\ JoinGroups(c.groups, Stats!Empty) = c.groups
         /\ Stats!Plus(c.checks, Stats!Empty) = c.checks
         /\ JoinHists(c.hists, Stats!Empty) = c.hists
         /\ Stats!Plus(c.sums, Stats!Empty) = c.sums
         /\ Stats!Plus(c.rates, Stats!Empty) = c.rates
         /\ Stats!Plus(c.counters, Stats!Empty) = c.counters
  <1>0. DOMAIN Stats!Empty = {} /\ IsGroups(Stats!Empty) /\ IsHists(Stats!Empty)
    BY SmallTabs DEF IsTab, IsGroups, IsHists
  <1>1. Stats!Join(c.all, Stats!NoLatency) = c.all
    BY JoinNothing DEF IsCore
  <1>2. JoinGroups(c.groups, Stats!Empty) = c.groups
    <2> DEFINE g == c.groups
               z == Stats!Empty
               p == JoinGroups(g, z)
    <2>1. IsGroups(g) /\ IsGroups(z) /\ DOMAIN z = {}
      BY <1>0 DEF IsCore
    <2> HIDE DEF g, z
    <2>2. /\ IsGroups(p) /\ DOMAIN p = DOMAIN g \cup DOMAIN z
          /\ \A n : GroupOf(p, n) = Stats!Join(GroupOf(g, n), GroupOf(z, n))
      BY <2>1, JoinGroupsIs
    <2> HIDE DEF p
    <2>3. \A n : GroupOf(p, n) = GroupOf(g, n)
      <3>1. \A n : IsLat(GroupOf(g, n)) /\ GroupOf(z, n) = Stats!NoLatency
        BY <2>1, GroupOfIs DEF GroupOf
      <3> QED
        BY <2>2, <3>1, JoinNothing
    <2>4. p = g
      BY <2>1, <2>2, <2>3, GroupsEq
    <2> QED
      BY <2>4 DEF p, g, z
  <1>3. JoinHists(c.hists, Stats!Empty) = c.hists
    <2> DEFINE g == c.hists
               z == Stats!Empty
               p == JoinHists(g, z)
    <2>1. IsHists(g) /\ IsHists(z) /\ DOMAIN z = {}
      BY <1>0 DEF IsCore
    <2> HIDE DEF g, z
    <2>2. /\ IsHists(p) /\ DOMAIN p = DOMAIN g \cup DOMAIN z
          /\ \A n : HistOf(p, n) = Stats!Plus(HistOf(g, n), HistOf(z, n))
      BY <2>1, JoinHistsIs
    <2> HIDE DEF p
    <2>3. \A n : HistOf(p, n) = HistOf(g, n)
      <3>1. \A n : IsTab(HistOf(g, n)) /\ HistOf(z, n) = Stats!Empty
        BY <2>1, HistOfIs DEF HistOf
      <3> QED
        BY <2>2, <3>1, PlusEmpty
    <2>4. p = g
      BY <2>1, <2>2, <2>3, HistsEq
    <2> QED
      BY <2>4 DEF p, g, z
  <1>4. /\ Stats!Plus(c.codes, Stats!Empty) = c.codes
        /\ Stats!Plus(c.errors, Stats!Empty) = c.errors
        /\ Stats!Plus(c.checks, Stats!Empty) = c.checks
        /\ Stats!Plus(c.sums, Stats!Empty) = c.sums
        /\ Stats!Plus(c.rates, Stats!Empty) = c.rates
        /\ Stats!Plus(c.counters, Stats!Empty) = c.counters
    BY PlusEmpty DEF IsCore
  <1>5. c.failed + 0 = c.failed
    BY DEF IsCore
  <1> QED
    BY <1>1, <1>2, <1>3, <1>4, <1>5

\* One more entry in a group.
Single(n, l) == [x \in {n} |-> l]
GroupsWith(g, n, l) ==
  [x \in DOMAIN g \cup {n} |-> IF x = n THEN Stats!Join(GroupOf(g, n), l) ELSE g[x]]
HistsWith(g, n, l) ==
  [x \in DOMAIN g \cup {n} |-> IF x = n THEN Stats!Plus(HistOf(g, n), l) ELSE g[x]]

\* Changing the latencies of one group is joining a table of that group.
LEMMA GroupGrows ==
  ASSUME None \notin Nat, NEW g, IsGroups(g), NEW n, NEW l, IsLat(l)
  PROVE  GroupsWith(g, n, l) = JoinGroups(g, Single(n, l))
  <1> DEFINE o == Single(n, l)
  <1>1. DOMAIN o = {n} /\ o[n] = l
    BY DEF Single
  <1>2. \A x \in DOMAIN g \cup {n} :
          (IF x = n THEN Stats!Join(GroupOf(g, n), l) ELSE g[x])
            = Stats!Join(GroupOf(g, x), GroupOf(o, x))
    <2> SUFFICES ASSUME NEW x \in DOMAIN g \cup {n}, x # n
                 PROVE  g[x] = Stats!Join(GroupOf(g, x), GroupOf(o, x))
      BY <1>1 DEF GroupOf
    <2>1. GroupOf(o, x) = Stats!NoLatency /\ GroupOf(g, x) = g[x]
      BY <1>1 DEF GroupOf
    <2> HIDE DEF o
    <2>2. IsLat(GroupOf(g, x))
      BY GroupOfIs
    <2>3. Stats!Join(GroupOf(g, x), Stats!NoLatency) = GroupOf(g, x)
      BY <2>2, JoinNothing
    <2> QED
      BY <2>1, <2>3
  <1> HIDE DEF o
  <1>3. JoinGroups(g, o) = [x \in DOMAIN g \cup {n} |-> Stats!Join(GroupOf(g, x), GroupOf(o, x))]
    BY <1>1 DEF JoinGroups
  <1> QED
    BY <1>2, <1>3 DEF o, GroupsWith

\* Changing one histogram is joining a table of that histogram.
LEMMA HistGrows ==
  ASSUME NEW g, IsHists(g), NEW n, NEW l, IsTab(l)
  PROVE  HistsWith(g, n, l) = JoinHists(g, Single(n, l))
  <1> DEFINE o == Single(n, l)
  <1>1. DOMAIN o = {n} /\ o[n] = l
    BY DEF Single
  <1>2. \A x \in DOMAIN g \cup {n} :
          (IF x = n THEN Stats!Plus(HistOf(g, n), l) ELSE g[x])
            = Stats!Plus(HistOf(g, x), HistOf(o, x))
    <2> SUFFICES ASSUME NEW x \in DOMAIN g \cup {n}, x # n
                 PROVE  g[x] = Stats!Plus(HistOf(g, x), HistOf(o, x))
      BY <1>1 DEF HistOf
    <2>1. HistOf(o, x) = Stats!Empty /\ HistOf(g, x) = g[x]
      BY <1>1 DEF HistOf
    <2> HIDE DEF o
    <2>2. IsTab(HistOf(g, x))
      BY HistOfIs
    <2>3. Stats!Plus(HistOf(g, x), Stats!Empty) = HistOf(g, x)
      BY <2>2, PlusEmpty
    <2> QED
      BY <2>1, <2>3
  <1> HIDE DEF o
  <1>3. JoinHists(g, o) = [x \in DOMAIN g \cup {n} |-> Stats!Plus(HistOf(g, x), HistOf(o, x))]
    BY <1>1 DEF JoinHists
  <1> QED
    BY <1>2, <1>3 DEF o, HistsWith

\* An aggregator, field by field.
Fields(al, co, er, fa, gr, ch, hi, su, ra, cn, ga, lo) ==
  [all |-> al, codes |-> co, errors |-> er, failed |-> fa, groups |-> gr, checks |-> ch,
   hists |-> hi, sums |-> su, rates |-> ra, counters |-> cn, gauges |-> ga, logs |-> lo]

Requested(a, al, co, er, fa, gr) ==
  [a EXCEPT !.all = al, !.codes = co, !.errors = er, !.failed = fa, !.groups = gr]

\* The fields a request changes.
LEMMA FiveFields ==
  ASSUME NEW a, IsAgg(a), NEW al, NEW co, NEW er, NEW fa, NEW gr
  PROVE  Requested(a, al, co, er, fa, gr)
           = Fields(al, co, er, fa, gr, a.checks, a.hists, a.sums, a.rates, a.counters,
                    a.gauges, a.logs)
  <1> DEFINE a1 == [a EXCEPT !.all = al]
             a2 == [a1 EXCEPT !.codes = co]
             a3 == [a2 EXCEPT !.errors = er]
             a4 == [a3 EXCEPT !.failed = fa]
             a5 == [a4 EXCEPT !.groups = gr]
  <1>1. Requested(a, al, co, er, fa, gr) = a5
    BY DEF Requested
  <1> HIDE DEF a1, a2, a3, a4, a5
  <1>2. a = Fields(a.all, a.codes, a.errors, a.failed, a.groups, a.checks, a.hists, a.sums,
                   a.rates, a.counters, a.gauges, a.logs)
    BY DEF IsAgg, Fields
  <1>3. a1 = Fields(al, a.codes, a.errors, a.failed, a.groups, a.checks, a.hists, a.sums,
                    a.rates, a.counters, a.gauges, a.logs)
    BY <1>2 DEF a1, Fields
  <1>4. a2 = Fields(al, co, a.errors, a.failed, a.groups, a.checks, a.hists, a.sums,
                    a.rates, a.counters, a.gauges, a.logs)
    BY <1>3 DEF a2, Fields
  <1>5. a3 = Fields(al, co, er, a.failed, a.groups, a.checks, a.hists, a.sums,
                    a.rates, a.counters, a.gauges, a.logs)
    BY <1>4 DEF a3, Fields
  <1>6. a4 = Fields(al, co, er, fa, a.groups, a.checks, a.hists, a.sums,
                    a.rates, a.counters, a.gauges, a.logs)
    BY <1>5 DEF a4, Fields
  <1>7. a5 = Fields(al, co, er, fa, gr, a.checks, a.hists, a.sums,
                    a.rates, a.counters, a.gauges, a.logs)
    BY <1>6 DEF a5, Fields
  <1> QED
    BY <1>1, <1>7

\* StatsAggregator::add of a request counts what the request adds.
LEMMA AddRequestIs ==
  ASSUME None \notin Nat, NEW a, IsAgg(a), NEW m, IsMetric(m), m.kind = "request"
  PROVE  /\ Core(Stats!Add(a, m)) = Both(Core(a), Unit(m)) /\ IsAgg(Stats!Add(a, m))
         /\ Stats!Add(a, m).gauges = a.gauges
  <1> DEFINE c == Core(a)
             b == Both(c, Unit(m))
             o == Once(m)
             iter == Stats!IsIteration(m)
             err == Stats!AddsError(m)
  <1>1. IsCore(c) /\ IsLat(o) /\ m.dur \in Nat
    BY OnceIs DEF IsAgg, IsMetric
  <1>2. /\ c.all = a.all /\ c.codes = a.codes /\ c.errors = a.errors /\ c.failed = a.failed
        /\ c.groups = a.groups /\ c.checks = a.checks /\ c.hists = a.hists /\ c.sums = a.sums
        /\ c.rates = a.rates /\ c.counters = a.counters
    BY DEF Core
  <1>3. IsLat(a.all) /\ IsGroups(a.groups)
    BY <1>1, <1>2 DEF IsCore
  <1>4. /\ Unit(m) = RequestUnit(m)
        /\ Unit(m).all = (IF iter THEN Stats!NoLatency ELSE o)
        /\ Unit(m).codes = (IF iter THEN Stats!Empty ELSE Stats!One(m.status, 1))
        /\ Unit(m).errors = (IF err THEN Stats!One(m.error, 1) ELSE Stats!Empty)
        /\ Unit(m).failed = (IF err /\ iter THEN 1 ELSE 0)
        /\ Unit(m).groups = [n \in {m.name} |-> o]
        /\ Unit(m).checks = Stats!Empty /\ Unit(m).hists = Stats!Empty
        /\ Unit(m).sums = Stats!Empty /\ Unit(m).rates = Stats!Empty
        /\ Unit(m).counters = Stats!Empty
    BY DEF Unit, RequestUnit
  <1>5. IsCore(b)
    BY <1>1, UnitIs, BothIs
  <1> DEFINE al == IF iter THEN a.all ELSE Stats!Measured(a.all, m)
             co == IF iter THEN a.codes ELSE Stats!Plus(a.codes, Stats!One(m.status, 1))
             er == IF err THEN Stats!Plus(a.errors, Stats!One(m.error, 1)) ELSE a.errors
             fa == IF err /\ iter THEN a.failed + 1 ELSE a.failed
             gr == [n \in DOMAIN a.groups \cup {m.name} |->
                      IF n = m.name THEN Stats!Measured(Stats!Group(a, n), m) ELSE a.groups[n]]
  <1>6. Stats!Add(a, m) =
          [all |-> al, codes |-> co, errors |-> er, failed |-> fa, groups |-> gr,
           checks |-> a.checks, hists |-> a.hists, sums |-> a.sums, rates |-> a.rates,
           counters |-> a.counters, gauges |-> a.gauges, logs |-> a.logs]
    <2>1. Stats!Add(a, m) = Stats!AddRequest(a, m)
      BY DEF Stats!Add
    <2>2. Stats!AddRequest(a, m) =
            Requested(a, al, co, er, fa, gr)
      BY DEF Stats!AddRequest, Requested
    <2> HIDE DEF al, co, er, fa, gr
    <2> QED
      BY <2>1, <2>2, FiveFields DEF Fields
  <1>7. al = Stats!Join(c.all, Unit(m).all)
    <2>1. Stats!Measured(a.all, m) = Stats!Join(a.all, o)
      BY <1>1, <1>3, MeasuredIsJoin
    <2>2. Stats!Join(a.all, Stats!NoLatency) = a.all
      BY <1>3, JoinNothing
    <2> HIDE DEF iter, o
    <2> QED
      BY <1>2, <1>4, <2>1, <2>2
  <1>8. gr = JoinGroups(c.groups, Unit(m).groups)
    <2>1. IsLat(GroupOf(a.groups, m.name)) /\ Stats!Group(a, m.name) = GroupOf(a.groups, m.name)
      BY <1>3, GroupOfIs DEF GroupOf, Stats!Group
    <2>2. Stats!Measured(GroupOf(a.groups, m.name), m) = Stats!Join(GroupOf(a.groups, m.name), o)
      BY <1>1, <2>1, MeasuredIsJoin
    <2>3. gr = [n \in DOMAIN a.groups \cup {m.name} |->
                  IF n = m.name THEN Stats!Join(GroupOf(a.groups, m.name), o) ELSE a.groups[n]]
      BY <2>1, <2>2
    <2> HIDE DEF gr, o
    <2>4. gr = JoinGroups(a.groups, [x \in {m.name} |-> o])
      <3>1. gr = GroupsWith(a.groups, m.name, o)
        BY <2>3 DEF GroupsWith
      <3>2. GroupsWith(a.groups, m.name, o) = JoinGroups(a.groups, Single(m.name, o))
        BY <1>1, <1>3, GroupGrows
      <3> QED
        BY <3>1, <3>2 DEF Single
    <2> QED
      BY <1>2, <1>4, <2>4
  <1>9. /\ Stats!Plus(c.codes, Stats!Empty) = c.codes /\ Stats!Plus(c.errors, Stats!Empty) = c.errors
        /\ Stats!Plus(c.checks, Stats!Empty) = c.checks /\ JoinHists(c.hists, Stats!Empty) = c.hists
        /\ Stats!Plus(c.sums, Stats!Empty) = c.sums /\ Stats!Plus(c.rates, Stats!Empty) = c.rates
        /\ Stats!Plus(c.counters, Stats!Empty) = c.counters /\ c.failed + 0 = c.failed
    BY <1>1, BothNothing
  <1>10. co = Stats!Plus(c.codes, Unit(m).codes) /\ er = Stats!Plus(c.errors, Unit(m).errors)
         /\ fa = c.failed + Unit(m).failed
    <2> HIDE DEF iter, err, c
    <2> QED
      BY <1>2, <1>4, <1>9
  <1>11. b = [all |-> al, codes |-> co, errors |-> er, failed |-> fa, groups |-> gr,
              checks |-> a.checks, hists |-> a.hists, sums |-> a.sums, rates |-> a.rates,
              counters |-> a.counters]
    <2> HIDE DEF al, co, er, fa, gr, c
    <2> QED
      BY <1>2, <1>4, <1>7, <1>8, <1>9, <1>10 DEF Both
  <1> HIDE DEF al, co, er, fa, gr, b, c
  <1>12. Core(Stats!Add(a, m)) = b
    BY <1>6, <1>11 DEF Core
  <1>13. IsAgg(Stats!Add(a, m)) /\ Stats!Add(a, m).gauges = a.gauges
    BY <1>5, <1>6, <1>12 DEF IsAgg
  <1> QED
    BY <1>12, <1>13 DEF b, c

\* The gauges after a metric: a gauge has the value that was sent last.
GaugesWith(a, m) ==
  IF m.kind = "gauge"
  THEN [n \in DOMAIN a.gauges \cup {m.name} |-> IF n = m.name THEN m.value ELSE a.gauges[n]]
  ELSE a.gauges

\* The custom histograms after a metric.
HistsRecorded(a, m) ==
  IF m.kind = "histogram"
  THEN [n \in DOMAIN a.hists \cup {m.name} |->
          IF n = m.name THEN Stats!Recorded(HistOf(a.hists, n), m.value * 1000) ELSE a.hists[n]]
  ELSE a.hists

\* Adding a metric that is no request: the fields it changes.
LEMMA AddOtherFields ==
  ASSUME NEW a, IsAgg(a), NEW m, IsMetric(m), m.kind # "request"
  PROVE  \E ga, lo :
         /\ Stats!Add(a, m) =
              Fields(a.all, a.codes, a.errors, a.failed, a.groups,
                     IF m.kind = "check" THEN Stats!Tally(a.checks, m) ELSE a.checks,
                     HistsRecorded(a, m),
                     IF m.kind = "histogram" THEN Stats!Plus(a.sums, Stats!One(m.name, m.value))
                     ELSE a.sums,
                     IF m.kind = "rate" THEN Stats!Tally(a.rates, m) ELSE a.rates,
                     IF m.kind = "counter" THEN Stats!Plus(a.counters, Stats!One(m.name, m.value))
                     ELSE a.counters,
                     ga, lo)
         /\ ga = GaugesWith(a, m)
  <1>0. a = Fields(a.all, a.codes, a.errors, a.failed, a.groups, a.checks, a.hists, a.sums,
                   a.rates, a.counters, a.gauges, a.logs)
    BY DEF IsAgg, Fields
  <1>1. CASE m.kind = "check"
    <2> DEFINE x == Stats!Tally(a.checks, m)
    <2>1. Stats!Add(a, m) = [a EXCEPT !.checks = x]
      BY <1>1 DEF Stats!Add
    <2> HIDE DEF x
    <2>2. Stats!Add(a, m) = Fields(a.all, a.codes, a.errors, a.failed, a.groups, x, a.hists,
                                   a.sums, a.rates, a.counters, a.gauges, a.logs)
      BY <1>0, <2>1 DEF Fields
    <2> QED
      BY <1>1, <2>2 DEF x, HistsRecorded, GaugesWith
  <1>2. CASE m.kind = "log"
    <2> DEFINE x == Stats!TrimLogs(Append(a.logs, m.name))
    <2>1. Stats!Add(a, m) = [a EXCEPT !.logs = x]
      BY <1>2 DEF Stats!Add
    <2> HIDE DEF x
    <2>2. Stats!Add(a, m) = Fields(a.all, a.codes, a.errors, a.failed, a.groups, a.checks,
                                   a.hists, a.sums, a.rates, a.counters, a.gauges, x)
      BY <1>0, <2>1 DEF Fields
    <2> QED
      BY <1>2, <2>2 DEF HistsRecorded, GaugesWith
  <1>3. CASE m.kind = "histogram"
    <2> DEFINE x == [n \in DOMAIN a.hists \cup {m.name} |->
                             IF n = m.name
                             THEN Stats!Recorded(HistOf(a.hists, n), m.value * 1000)
                             ELSE a.hists[n]]
               y == Stats!Plus(a.sums, Stats!One(m.name, m.value))
               a1 == [a EXCEPT !.hists = x]
               a2 == [a1 EXCEPT !.sums = y]
    <2>0. x = [n \in DOMAIN a.hists \cup {m.name} |->
                 IF n = m.name
                 THEN Stats!Recorded(IF n \in DOMAIN a.hists THEN a.hists[n] ELSE Stats!Empty,
                                     m.value * 1000)
                 ELSE a.hists[n]]
      BY DEF HistOf
    <2>1. Stats!Add(a, m) = [a EXCEPT !.hists = x, !.sums = y]
      <3> HIDE DEF x
      <3> QED
        BY <1>3, <2>0 DEF Stats!Add
    <2> HIDE DEF x, y
    <2>2. [a EXCEPT !.hists = x, !.sums = y] = a2
      OBVIOUS
    <2> HIDE DEF a1, a2
    <2>3. a1 = Fields(a.all, a.codes, a.errors, a.failed, a.groups, a.checks, x,
                      a.sums, a.rates, a.counters, a.gauges, a.logs)
      BY <1>0 DEF Fields, a1
    <2>4. a2 = Fields(a.all, a.codes, a.errors, a.failed, a.groups, a.checks, x,
                      y, a.rates, a.counters, a.gauges, a.logs)
      BY <2>3 DEF Fields, a2
    <2> QED
      BY <1>3, <2>1, <2>2, <2>4 DEF x, y, HistsRecorded, GaugesWith
  <1>4. CASE m.kind = "counter"
    <2> DEFINE x == Stats!Plus(a.counters, Stats!One(m.name, m.value))
    <2>1. Stats!Add(a, m) = [a EXCEPT !.counters = x]
      BY <1>4 DEF Stats!Add
    <2> HIDE DEF x
    <2>2. Stats!Add(a, m) = Fields(a.all, a.codes, a.errors, a.failed, a.groups, a.checks,
                                   a.hists, a.sums, a.rates, x, a.gauges, a.logs)
      BY <1>0, <2>1 DEF Fields
    <2> QED
      BY <1>4, <2>2 DEF x, HistsRecorded, GaugesWith
  <1>5. CASE m.kind = "gauge"
    <2> DEFINE x == [n \in DOMAIN a.gauges \cup {m.name} |->
                         IF n = m.name THEN m.value ELSE a.gauges[n]]
    <2>1. Stats!Add(a, m) = [a EXCEPT !.gauges = x]
      BY <1>5 DEF Stats!Add
    <2> HIDE DEF x
    <2>2. Stats!Add(a, m) = Fields(a.all, a.codes, a.errors, a.failed, a.groups, a.checks,
                                   a.hists, a.sums, a.rates, a.counters, x, a.logs)
      BY <1>0, <2>1 DEF Fields
    <2> QED
      BY <1>5, <2>2 DEF x, HistsRecorded, GaugesWith
  <1>6. CASE m.kind = "rate"
    <2> DEFINE x == Stats!Tally(a.rates, m)
    <2>1. Stats!Add(a, m) = [a EXCEPT !.rates = x]
      BY <1>6 DEF Stats!Add
    <2> HIDE DEF x
    <2>2. Stats!Add(a, m) = Fields(a.all, a.codes, a.errors, a.failed, a.groups, a.checks,
                                   a.hists, a.sums, x, a.counters, a.gauges, a.logs)
      BY <1>0, <2>1 DEF Fields
    <2> QED
      BY <1>6, <2>2 DEF x, HistsRecorded, GaugesWith
  <1> QED
    BY <1>1, <1>2, <1>3, <1>4, <1>5, <1>6 DEF IsMetric

\* An aggregator that takes a metric counts what the metric adds.
LEMMA AddIs ==
  ASSUME None \notin Nat, NEW a, IsAgg(a), NEW m, IsMetric(m)
  PROVE  /\ Core(Stats!Add(a, m)) = Both(Core(a), Unit(m)) /\ IsAgg(Stats!Add(a, m))
         /\ Stats!Add(a, m).gauges = GaugesWith(a, m)
  <1>1. CASE m.kind = "request"
    BY <1>1, AddRequestIs DEF GaugesWith
  <1>2. CASE m.kind # "request"
    <2> DEFINE c == Core(a)
               b == Both(c, Unit(m))
               ch == IF m.kind = "check" THEN Stats!Tally(a.checks, m) ELSE a.checks
               hi == HistsRecorded(a, m)
               su == IF m.kind = "histogram" THEN Stats!Plus(a.sums, Stats!One(m.name, m.value))
                     ELSE a.sums
               ra == IF m.kind = "rate" THEN Stats!Tally(a.rates, m) ELSE a.rates
               cn == IF m.kind = "counter" THEN Stats!Plus(a.counters, Stats!One(m.name, m.value))
                     ELSE a.counters
               ga == GaugesWith(a, m)
    <2>1. PICK lo : Stats!Add(a, m) =
                      Fields(a.all, a.codes, a.errors, a.failed, a.groups, ch, hi, su, ra, cn, ga, lo)
      BY <1>2, AddOtherFields
    <2>2. /\ IsCore(c)
          /\ c.all = a.all /\ c.codes = a.codes /\ c.errors = a.errors /\ c.failed = a.failed
          /\ c.groups = a.groups /\ c.checks = a.checks /\ c.hists = a.hists /\ c.sums = a.sums
          /\ c.rates = a.rates /\ c.counters = a.counters
      BY DEF Core, IsAgg
    <2>3. IsCore(b)
      BY <2>2, UnitIs, BothIs
    <2>4. /\ Unit(m).all = Stats!NoLatency /\ Unit(m).codes = Stats!Empty
          /\ Unit(m).errors = Stats!Empty /\ Unit(m).failed = 0 /\ Unit(m).groups = Stats!Empty
          /\ Unit(m).checks = (IF m.kind = "check" THEN Tallied(m) ELSE Stats!Empty)
          /\ Unit(m).hists = (IF m.kind = "histogram"
                              THEN Single(m.name, Stats!Recorded(Stats!Empty, m.value * 1000))
                              ELSE Stats!Empty)
          /\ Unit(m).sums = (IF m.kind = "histogram" THEN Stats!One(m.name, m.value)
                             ELSE Stats!Empty)
          /\ Unit(m).rates = (IF m.kind = "rate" THEN Tallied(m) ELSE Stats!Empty)
          /\ Unit(m).counters = (IF m.kind = "counter" THEN Stats!One(m.name, m.value)
                                 ELSE Stats!Empty)
      BY <1>2 DEF Unit, Single
    <2>5. /\ Stats!Join(c.all, Stats!NoLatency) = c.all
          /\ Stats!Plus(c.codes, Stats!Empty) = c.codes /\ Stats!Plus(c.errors, Stats!Empty) = c.errors
          /\ JoinGroups(c.groups, Stats!Empty) = c.groups
          /\ Stats!Plus(c.checks, Stats!Empty) = c.checks /\ JoinHists(c.hists, Stats!Empty) = c.hists
          /\ Stats!Plus(c.sums, Stats!Empty) = c.sums /\ Stats!Plus(c.rates, Stats!Empty) = c.rates
          /\ Stats!Plus(c.counters, Stats!Empty) = c.counters /\ c.failed + 0 = c.failed
      BY <2>2, BothNothing
    <2>6. hi = JoinHists(c.hists, Unit(m).hists)
      <3>1. CASE m.kind = "histogram"
        <4> DEFINE r == Stats!Recorded(Stats!Empty, m.value * 1000)
        <4>1. IsHists(a.hists) /\ IsTab(HistOf(a.hists, m.name)) /\ IsTab(r)
          BY <2>2, HistOfIs, RecordedIs, SmallTabs DEF IsCore
        <4>2. Stats!Recorded(HistOf(a.hists, m.name), m.value * 1000)
                = Stats!Plus(HistOf(a.hists, m.name), r)
          BY <4>1, RecordedIs
        <4> HIDE DEF r
        <4>3. hi = HistsWith(a.hists, m.name, r)
          BY <3>1, <4>2 DEF HistsWith, HistsRecorded
        <4>4. HistsWith(a.hists, m.name, r) = JoinHists(a.hists, Single(m.name, r))
          BY <4>1, HistGrows
        <4> QED
          BY <2>2, <2>4, <3>1, <4>3, <4>4 DEF r
      <3>2. CASE m.kind # "histogram"
        BY <2>2, <2>4, <2>5, <3>2 DEF HistsRecorded
      <3> QED
        BY <3>1, <3>2
    <2>7. /\ ch = Stats!Plus(c.checks, Unit(m).checks) /\ su = Stats!Plus(c.sums, Unit(m).sums)
          /\ ra = Stats!Plus(c.rates, Unit(m).rates) /\ cn = Stats!Plus(c.counters, Unit(m).counters)
      <3>1. \A f : Stats!Tally(f, m) = Stats!Plus(f, Tallied(m))
        BY DEF Stats!Tally, Tallied
      <3> HIDE DEF c
      <3> QED
        BY <2>2, <2>4, <2>5, <3>1
    <2> HIDE DEF ch, hi, su, ra, cn, ga, c
    <2>8. b = [all |-> a.all, codes |-> a.codes, errors |-> a.errors, failed |-> a.failed,
               groups |-> a.groups, checks |-> ch, hists |-> hi, sums |-> su, rates |-> ra,
               counters |-> cn]
      BY <2>2, <2>4, <2>5, <2>6, <2>7 DEF Both
    <2> HIDE DEF b
    <2>9. Core(Stats!Add(a, m)) = b
      BY <2>1, <2>8 DEF Core, Fields
    <2>10. IsAgg(Stats!Add(a, m)) /\ Stats!Add(a, m).gauges = ga
      BY <2>1, <2>3, <2>9 DEF IsAgg, Fields
    <2> QED
      BY <2>9, <2>10 DEF b, c, ga
  <1> QED
    BY <1>1, <1>2

\* What is folded over the log and over the shards: aggregators, and the latencies
\* of the requests with a name of g.
Mine(m, g) == m.kind = "request" /\ m.name \in g

Start(op) == IF op = "own" THEN Stats!NoLatency ELSE Stats!NewAggregator

Step(op, g, a, m) ==
  IF op = "add" THEN Stats!Add(a, m)
  ELSE IF op = "merge" THEN Stats!MergeInto(a, m)
  ELSE IF Mine(m, g) THEN Stats!Measured(a, m) ELSE a

\* A function from the sets 1 .. k to what the first k elements make of the start.
StepFold(it, op, g, s, n) ==
  it = [x \in SUBSET (1 .. n) |->
          IF x = {} THEN Start(op)
          ELSE Step(op, g, it[x \ {Stats!Max(x)}], s[Stats!Max(x)])]

HasStepFold(op, g, s, n) == \E it : StepFold(it, op, g, s, n)

\* Schedule and statistics speak of the same largest number.
LEMMA SameMax == ASSUME NEW x PROVE Stages!Max(x) = Stats!Max(x)
  BY DEF Stages!Max, Stats!Max

\* There is one.
LEMMA StepFoldExists ==
  ASSUME NEW op, NEW g, NEW s, NEW n \in Nat PROVE HasStepFold(op, g, s, n)
  <1> DEFINE T == {k \in Nat : HasStepFold(op, g, s, k)}
  <1>1. HasStepFold(op, g, s, 0)
    <2> DEFINE it == [x \in SUBSET (1 .. 0) |-> Start(op)]
    <2>1. 1 .. 0 = {}
      OBVIOUS
    <2>2. StepFold(it, op, g, s, 0)
      BY <2>1 DEF StepFold
    <2> QED
      BY <2>2 DEF HasStepFold
  <1>2. ASSUME NEW k \in Nat, HasStepFold(op, g, s, k) PROVE HasStepFold(op, g, s, k + 1)
    <2>1. PICK f : StepFold(f, op, g, s, k)
      BY <1>2 DEF HasStepFold
    <2> DEFINE it == [x \in SUBSET (1 .. (k + 1)) |->
                        IF k + 1 \in x THEN Step(op, g, f[x \ {k + 1}], s[k + 1]) ELSE f[x]]
    <2>2. \A x \in SUBSET (1 .. (k + 1)) : x \ {k + 1} \in SUBSET (1 .. k)
      OBVIOUS
    <2>5. ASSUME NEW x \in SUBSET (1 .. (k + 1))
          PROVE  it[x] = IF x = {} THEN Start(op)
                         ELSE Step(op, g, it[x \ {Stats!Max(x)}], s[Stats!Max(x)])
      <3>1. CASE k + 1 \in x
        <4>1. Stats!Max(x) = k + 1
          <5> HIDE DEF it
          <5>1. k + 1 \in Nat /\ x # {}
            BY <3>1
          <5>2. Stats!Max(x) \in x /\ \A y \in x : y <= Stats!Max(x)
            BY <5>1, MaxOf, SameMax
          <5>3. Stats!Max(x) \in 1 .. (k + 1) /\ k + 1 <= Stats!Max(x)
            BY <3>1, <5>2
          <5> QED
            BY <5>3
        <4>2. /\ x \ {k + 1} \in SUBSET (1 .. (k + 1)) /\ k + 1 \notin x \ {k + 1}
              /\ x # {}
          BY <3>1
        <4>3. it[x \ {k + 1}] = f[x \ {k + 1}]
          BY <4>2
        <4>4. it[x] = Step(op, g, f[x \ {k + 1}], s[k + 1])
          BY <3>1
        <4> HIDE DEF it
        <4> QED
          BY <4>1, <4>2, <4>3, <4>4
      <3>2. CASE k + 1 \notin x
        <4>1. x \in SUBSET (1 .. k) /\ it[x] = f[x]
          BY <2>2, <3>2
        <4>2. CASE x = {}
          BY <2>1, <4>1, <4>2 DEF StepFold
        <4>3. CASE x # {}
          <5>1. Stats!Max(x) \in x /\ x \ {Stats!Max(x)} \in SUBSET (1 .. k)
            BY <4>1, <4>3, MaxOf, SameMax
          <5>2. f[x] = Step(op, g, f[x \ {Stats!Max(x)}], s[Stats!Max(x)])
            BY <2>1, <4>1, <4>3 DEF StepFold
          <5>3. it[x \ {Stats!Max(x)}] = f[x \ {Stats!Max(x)}]
            BY <3>2, <5>1
          <5> QED
            BY <4>1, <4>3, <5>2, <5>3
        <4> QED
          BY <4>2, <4>3
      <3> QED
        BY <3>1, <3>2
    <2>6. StepFold(it, op, g, s, k + 1)
      <3>1. it = [x \in SUBSET (1 .. (k + 1)) |-> it[x]]
        OBVIOUS
      <3> HIDE DEF it
      <3> QED
        BY <2>5, <3>1 DEF StepFold
    <2> QED
      BY <2>6 DEF HasStepFold
  <1>3. 0 \in T /\ \A k \in Nat : k \in T => k + 1 \in T
    BY <1>1, <1>2
  <1> HIDE DEF T
  <1>4. n \in T
    BY <1>3, Induction
  <1> QED
    BY <1>4 DEF T

\* The values of a fold on the prefixes of what is folded.
IsWalk(w, op, g, s, n) ==
  w[0] = Start(op) /\ \A k \in 1 .. n : w[k] = Step(op, g, w[k - 1], s[k])

Folded(op, g, s) == (CHOOSE it : StepFold(it, op, g, s, Len(s)))[1 .. Len(s)]

\* What is folded is the end of a walk over the elements, one step each.
LEMMA FoldedWalk ==
  ASSUME NEW op, NEW g, NEW s, Len(s) \in Nat
  PROVE  \E w : IsWalk(w, op, g, s, Len(s)) /\ Folded(op, g, s) = w[Len(s)]
  <1> DEFINE n == Len(s)
             it == CHOOSE f : StepFold(f, op, g, s, n)
  <1>1. n \in Nat
    OBVIOUS
  <1>2. StepFold(it, op, g, s, n)
    BY StepFoldExists DEF HasStepFold
  <1>3. Folded(op, g, s) = it[1 .. n]
    BY DEF Folded
  <1> HIDE DEF it, n
  <1> DEFINE w == [k \in 0 .. n |-> it[1 .. k]]
  <1>4. it[{}] = Start(op) /\ 1 .. 0 = {}
    BY <1>1, <1>2 DEF StepFold
  <1>5. ASSUME NEW k \in 1 .. n PROVE it[1 .. k] = Step(op, g, it[1 .. (k - 1)], s[k])
    <2>1. /\ 1 .. k \in SUBSET (1 .. n) /\ 1 .. k # {} /\ Stats!Max(1 .. k) = k
          /\ (1 .. k) \ {k} = 1 .. (k - 1)
      BY <1>1, Prefix, SameMax
    <2> QED
      BY <1>2, <2>1 DEF StepFold
  <1>6. w[0] = Start(op) /\ w[n] = it[1 .. n]
    BY <1>1, <1>4
  <1>7. \A k \in 1 .. n : w[k] = Step(op, g, w[k - 1], s[k])
    BY <1>1, <1>5
  <1>8. IsWalk(w, op, g, s, n)
    <2> HIDE DEF w
    <2> QED
      BY <1>6, <1>7 DEF IsWalk
  <1> QED
    BY <1>3, <1>6, <1>8 DEF n

\* Two walks over the same elements end the same.
LEMMA SameWalk ==
  ASSUME NEW op, NEW g, NEW s, NEW t, NEW n \in Nat, NEW v, NEW w,
         IsWalk(v, op, g, s, n), IsWalk(w, op, g, t, n), \A k \in 1 .. n : s[k] = t[k]
  PROVE  v[n] = w[n]
  <1> DEFINE T == {k \in Nat : k <= n => v[k] = w[k]}
  <1>1. 0 \in T
    BY DEF IsWalk
  <1>2. ASSUME NEW k \in Nat, k \in T PROVE k + 1 \in T
    <2>1. SUFFICES ASSUME k + 1 <= n PROVE v[k + 1] = w[k + 1]
      OBVIOUS
    <2>2. k + 1 \in 1 .. n /\ (k + 1) - 1 = k /\ k <= n
      BY <2>1
    <2>3. v[k] = w[k]
      BY <1>2, <2>2
    <2>4. v[k + 1] = Step(op, g, v[k], s[k + 1]) /\ w[k + 1] = Step(op, g, w[k], t[k + 1])
      BY <2>2 DEF IsWalk
    <2> QED
      BY <2>2, <2>3, <2>4
  <1> HIDE DEF T
  <1>3. n \in T
    BY <1>1, <1>2, Induction
  <1> QED
    BY <1>3 DEF T

\* One more metric at the end.
LEMMA FoldedAppend ==
  ASSUME NEW op, NEW g, NEW S, NEW s \in Seq(S), NEW m \in S
  PROVE  Folded(op, g, Append(s, m)) = Step(op, g, Folded(op, g, s), m)
  <1> DEFINE t == Append(s, m)
             n == Len(s)
  <1>1. /\ n \in Nat /\ Len(t) = n + 1 /\ t[n + 1] = m
        /\ \A k \in 1 .. n : t[k] = s[k]
    OBVIOUS
  <1>2. PICK v : IsWalk(v, op, g, s, n) /\ Folded(op, g, s) = v[n]
    BY <1>1, FoldedWalk
  <1>3. PICK w : IsWalk(w, op, g, t, n + 1) /\ Folded(op, g, t) = w[n + 1]
    <2>1. Len(t) \in Nat
      BY <1>1
    <2> HIDE DEF t
    <2> QED
      BY <1>1, <2>1, FoldedWalk
  <1> HIDE DEF t, n
  <1>4. IsWalk(w, op, g, t, n) /\ w[n + 1] = Step(op, g, w[n], t[n + 1])
    <2>1. n + 1 \in 1 .. (n + 1) /\ (n + 1) - 1 = n /\ 1 .. n \subseteq 1 .. (n + 1)
      BY <1>1
    <2> QED
      BY <1>3, <2>1 DEF IsWalk
  <1>5. v[n] = w[n]
    BY <1>1, <1>2, <1>4, SameWalk
  <1> QED
    BY <1>1, <1>2, <1>3, <1>4, <1>5 DEF t

\* Nothing folded is the start.
LEMMA FoldedNothing == ASSUME NEW op, NEW g PROVE Folded(op, g, <<>>) = Start(op)
  <1> DEFINE e == <<>>
  <1>1. Len(e) = 0
    OBVIOUS
  <1> HIDE DEF e
  <1>2. PICK w : IsWalk(w, op, g, e, 0) /\ Folded(op, g, e) = w[0]
    BY <1>1, FoldedWalk
  <1> QED
    BY <1>2 DEF IsWalk, e

\* What the model folds.
LEMMA WholeIsFolded ==
  ASSUME NEW s, DOMAIN s = 1 .. Len(s)
  PROVE  Stats!FoldLeft(Stats!Add, Stats!NewAggregator, s) = Folded("add", None, s)
  BY DEF Stats!FoldLeft, Stats!MapThenFoldSet, Folded, StepFold, Step, Start

\* ... and so is the merge of the shards.
LEMMA MergedIsFolded ==
  ASSUME NEW s, DOMAIN s = 1 .. Len(s)
  PROVE  Stats!Merge(s)
           = [Folded("merge", None, s) EXCEPT !.logs = Stats!TrimLogs(Folded("merge", None, s).logs)]
  BY DEF Stats!Merge, Stats!FoldLeft, Stats!MapThenFoldSet, Folded, StepFold, Step, Start

\* The counts of an aggregator are counts.
LEMMA AggCore == ASSUME NEW a, IsAgg(a) PROVE IsCore(Core(a))
  BY DEF IsAgg

\* The merge of two aggregators is an aggregator.
LEMMA MergedIs ==
  ASSUME None \notin Nat, NEW a, NEW s, IsAgg(a), IsAgg(s) PROVE IsAgg(Stats!MergeInto(a, s))
  <1> DEFINE p == Core(a)
             q == Core(s)
  <1>1. IsCore(p) /\ IsCore(q)
    BY AggCore
  <1> HIDE DEF p, q
  <1>2. IsCore(Both(p, q))
    BY <1>1, BothIs
  <1> QED
    BY <1>2, MergeIsBoth DEF p, q

GaugesJoined(a, s) ==
  [y \in DOMAIN a.gauges \cup DOMAIN s.gauges |->
     IF y \in DOMAIN s.gauges THEN s.gauges[y] ELSE a.gauges[y]]

\* The gauges of a merge.
LEMMA MergedGauges ==
  ASSUME NEW a, NEW s PROVE Stats!MergeInto(a, s).gauges = GaugesJoined(a, s)
  BY DEF Stats!MergeInto, GaugesJoined

\* On the way through the shards the merge is an aggregator.
LEMMA MergeWalkTypes ==
  ASSUME None \notin Nat, NEW w, NEW g, NEW s, NEW n \in Nat, IsWalk(w, "merge", g, s, n),
         \A k \in 1 .. n : IsAgg(s[k])
  PROVE  \A k \in 0 .. n : IsAgg(w[k])
  <1> DEFINE T == {k \in Nat : k <= n => IsAgg(w[k])}
  <1>1. 0 \in T
    BY NoCoreIs DEF IsWalk, Start
  <1>2. ASSUME NEW k \in Nat, k \in T PROVE k + 1 \in T
    <2>1. SUFFICES ASSUME k + 1 <= n PROVE IsAgg(w[k + 1])
      OBVIOUS
    <2>2. k + 1 \in 1 .. n /\ (k + 1) - 1 = k /\ k <= n
      BY <2>1
    <2>3. IsAgg(w[k]) /\ IsAgg(s[k + 1])
      BY <1>2, <2>2
    <2>4. w[k + 1] = Stats!MergeInto(w[k], s[k + 1])
      BY <2>2 DEF IsWalk, Step
    <2> DEFINE p == w[k]
               q == s[k + 1]
               r == Stats!MergeInto(p, q)
    <2>5. IsAgg(p) /\ IsAgg(q) /\ w[k + 1] = r
      BY <2>3, <2>4
    <2> HIDE DEF p, q
    <2>6. IsAgg(r)
      BY <2>5, MergedIs
    <2> QED
      BY <2>5, <2>6
  <1> HIDE DEF T
  <1>3. Nat \subseteq T
    BY <1>1, <1>2, Induction
  <1> QED
    BY <1>3 DEF T

\* One shard counts more by u ...
OneCountsMore(s, t, n, i, u) ==
  /\ n \in Nat /\ Len(s) = n /\ Len(t) = n /\ i \in 1 .. n
  /\ \A k \in 1 .. n : IsAgg(s[k]) /\ IsAgg(t[k])
  /\ \A k \in 1 .. n : k # i => t[k] = s[k]
  /\ IsCore(u) /\ Core(t[i]) = Both(Core(s[i]), u)

\* ... and so does the merge.
LEMMA MergeGrows ==
  ASSUME None \notin Nat, NEW s, NEW t, NEW n, NEW i, NEW u, OneCountsMore(s, t, n, i, u)
  PROVE  Core(Folded("merge", None, t)) = Both(Core(Folded("merge", None, s)), u)
  <1>0. /\ n \in Nat /\ Len(s) = n /\ Len(t) = n /\ i \in 1 .. n
        /\ \A k \in 1 .. n : IsAgg(s[k]) /\ IsAgg(t[k])
        /\ \A k \in 1 .. n : k # i => t[k] = s[k]
        /\ IsCore(u) /\ Core(t[i]) = Both(Core(s[i]), u)
    BY DEF OneCountsMore
  <1>1. PICK v : IsWalk(v, "merge", None, s, n) /\ Folded("merge", None, s) = v[n]
    BY <1>0, FoldedWalk
  <1>2. PICK w : IsWalk(w, "merge", None, t, n) /\ Folded("merge", None, t) = w[n]
    BY <1>0, FoldedWalk
  <1>3. (\A k \in 0 .. n : IsAgg(v[k])) /\ (\A k \in 0 .. n : IsAgg(w[k]))
    <2>1. \A k \in 0 .. n : IsAgg(v[k])
      BY <1>0, <1>1, MergeWalkTypes
    <2>2. \A k \in 0 .. n : IsAgg(w[k])
      BY <1>0, <1>2, MergeWalkTypes
    <2> QED
      BY <2>1, <2>2
  <1> DEFINE T == {k \in Nat : k <= n =>
                     Core(w[k]) = IF k < i THEN Core(v[k]) ELSE Both(Core(v[k]), u)}
  <1>4. 0 \in T
    BY <1>0, <1>1, <1>2 DEF IsWalk, Start
  <1>5. ASSUME NEW k \in Nat, k \in T PROVE k + 1 \in T
    <2>1. SUFFICES ASSUME k + 1 <= n
                   PROVE  Core(w[k + 1]) = IF k + 1 < i THEN Core(v[k + 1])
                                           ELSE Both(Core(v[k + 1]), u)
      OBVIOUS
    <2>2. k + 1 \in 1 .. n /\ (k + 1) - 1 = k /\ k <= n /\ k \in 0 .. n
      BY <1>0, <2>1
    <2>3. v[k + 1] = Stats!MergeInto(v[k], s[k + 1]) /\ w[k + 1] = Stats!MergeInto(w[k], t[k + 1])
      BY <1>1, <1>2, <2>2 DEF IsWalk, Step
    <2> DEFINE cv == Core(v[k])
               cs == Core(s[k + 1])
    <2>4. IsCore(cv) /\ IsCore(cs)
      <3> DEFINE p == v[k]
                 q == s[k + 1]
      <3>1. IsAgg(p) /\ IsAgg(q)
        BY <1>0, <1>3, <2>2
      <3> HIDE DEF p, q
      <3>2. IsCore(Core(p)) /\ IsCore(Core(q))
        BY <3>1, AggCore
      <3> QED
        BY <3>2 DEF p, q
    <2>5. Core(v[k + 1]) = Both(cv, cs) /\ Core(w[k + 1]) = Both(Core(w[k]), Core(t[k + 1]))
      <3> DEFINE p == v[k]
                 q == s[k + 1]
                 o == w[k]
                 r == t[k + 1]
      <3> HIDE DEF p, q, o, r
      <3>1. /\ Core(Stats!MergeInto(p, q)) = Both(Core(p), Core(q))
            /\ Core(Stats!MergeInto(o, r)) = Both(Core(o), Core(r))
        BY MergeIsBoth
      <3> QED
        BY <2>3, <3>1 DEF p, q, o, r
    <2>6. Core(w[k]) = IF k < i THEN cv ELSE Both(cv, u)
      BY <1>5, <2>2
    <2>7. Core(t[k + 1]) = IF k + 1 = i THEN Both(cs, u) ELSE cs
      BY <1>0, <2>2
    <2> HIDE DEF cv, cs
    <2>8. CASE k + 1 < i
      <3>1. k < i /\ k + 1 # i
        BY <1>0, <2>8
      <3> QED
        BY <2>5, <2>6, <2>7, <2>8, <3>1
    <2>9. CASE k + 1 = i
      <3>1. k < i /\ ~(k + 1 < i)
        BY <1>0, <2>9
      <3>2. Both(cv, Both(cs, u)) = Both(Both(cv, cs), u)
        BY <1>0, <2>4, BothAssoc
      <3> QED
        BY <2>5, <2>6, <2>7, <2>9, <3>1, <3>2
    <2>10. CASE k + 1 > i
      <3>1. ~(k < i) /\ k + 1 # i /\ ~(k + 1 < i)
        BY <1>0, <2>10
      <3>2. Both(Both(cv, u), cs) = Both(cv, Both(u, cs))
        BY <1>0, <2>4, BothAssoc
      <3>3. Both(u, cs) = Both(cs, u)
        BY <1>0, <2>4, BothComm
      <3>4. Both(cv, Both(cs, u)) = Both(Both(cv, cs), u)
        BY <1>0, <2>4, BothAssoc
      <3> QED
        BY <2>5, <2>6, <2>7, <3>1, <3>2, <3>3, <3>4
    <2> QED
      BY <1>0, <2>8, <2>9, <2>10
  <1> HIDE DEF T
  <1>6. n \in T
    BY <1>0, <1>4, <1>5, Induction
  <1>7. ~(n < i)
    BY <1>0
  <1> QED
    BY <1>0, <1>1, <1>2, <1>6, <1>7 DEF T

\* The merge shows gauges of its shards.
LEMMA MergeGauges ==
  ASSUME NEW n \in Nat, NEW s, Len(s) = n,
         NEW x \in DOMAIN Folded("merge", None, s).gauges
  PROVE  \E i \in 1 .. n : x \in DOMAIN s[i].gauges
                            /\ s[i].gauges[x] = Folded("merge", None, s).gauges[x]
  <1>1. PICK v : IsWalk(v, "merge", None, s, n) /\ Folded("merge", None, s) = v[n]
    BY FoldedWalk
  <1> DEFINE From(k) == x \in DOMAIN v[k].gauges =>
                          \E i \in 1 .. n : x \in DOMAIN s[i].gauges
                                             /\ s[i].gauges[x] = v[k].gauges[x]
             T == {k \in Nat : k <= n => From(k)}
  <1>2. 0 \in T
    BY <1>1 DEF IsWalk, Start, Stats!NewAggregator, Stats!Empty
  <1>3. ASSUME NEW k \in Nat, k \in T PROVE k + 1 \in T
    <2>1. SUFFICES ASSUME k + 1 <= n PROVE From(k + 1)
      OBVIOUS
    <2>2. k + 1 \in 1 .. n /\ (k + 1) - 1 = k /\ k <= n
      BY <2>1
    <2>3. v[k + 1] = Stats!MergeInto(v[k], s[k + 1])
      BY <1>1, <2>2 DEF IsWalk, Step
    <2> DEFINE p == v[k]
               q == s[k + 1]
               gs == v[k + 1].gauges
    <2>4. v[k + 1] = Stats!MergeInto(p, q)
      BY <2>3
    <2>5. From(k)
      BY <1>3, <2>2
    <2>6. gs = GaugesJoined(p, q)
      <3> HIDE DEF p, q
      <3> QED
        BY <2>4, MergedGauges
    <2>7. x \in DOMAIN gs => gs[x] = (IF x \in DOMAIN q.gauges THEN q.gauges[x] ELSE p.gauges[x])
                            /\ (x \in DOMAIN q.gauges \/ x \in DOMAIN p.gauges)
      <3> HIDE DEF p, q, gs
      <3> QED
        BY <2>6 DEF GaugesJoined
    <2> QED
      BY <2>2, <2>5, <2>7
  <1> HIDE DEF T
  <1>4. n \in T
    BY <1>2, <1>3, Induction
  <1> QED
    BY <1>1, <1>4 DEF T

\* The metrics sent are metrics the aggregator takes.
LEMMA MetricsAre == ASSUME NEW m \in Metrics PROVE IsMetric(m)
  BY MetricAssumption DEF IsMetric

\* A gauge n was sent with the value v.
Sent(l, n, v) == \E j \in DOMAIN l : l[j].kind = "gauge" /\ l[j].name = n /\ l[j].value = v

\* The shards together count what one aggregator has counted that saw the log.
StatInv ==
  /\ log \in Seq(Metrics)
  /\ shard \in Seq({shard[i] : i \in 1 .. Shards}) /\ Len(shard) = Shards
  /\ \A i \in 1 .. Shards : IsAgg(shard[i])
  /\ IsAgg(Folded("add", None, log))
  /\ Core(Folded("merge", None, shard)) = Core(Folded("add", None, log))
  /\ \A i \in 1 .. Shards : \A n \in DOMAIN shard[i].gauges : Sent(log, n, shard[i].gauges[n])

\* A function on 1 .. n is a sequence of its values.
LEMMA IsSequence ==
  ASSUME NEW n \in Nat, NEW f, NEW D, f \in [1 .. n -> D]
  PROVE  f \in Seq({f[i] : i \in 1 .. n}) /\ Len(f) = n
  <1>1. f \in [1 .. n -> {f[i] : i \in 1 .. n}]
    OBVIOUS
  <1> QED
    BY <1>1

\* The shards and the aggregator that saw the log start out alike.
LEMMA StatInit ==
  ASSUME Shards \in Nat, None \notin Nat, Init PROVE StatInv
  <1> DEFINE e == Stats!NewAggregator
  <1>1. shard = [i \in 1 .. Shards |-> e] /\ log = <<>>
    BY DEF Init, Stats!StatInit
  <1>2. IsAgg(e) /\ DOMAIN e.gauges = {}
    BY NoCoreIs DEF Stats!NewAggregator, Stats!Empty
  <1> HIDE DEF e
  <1>3. shard \in [1 .. Shards -> {e}] /\ \A i \in 1 .. Shards : shard[i] = e
    BY <1>1
  <1>4. shard \in Seq({shard[i] : i \in 1 .. Shards}) /\ Len(shard) = Shards
    BY <1>3, IsSequence
  <1>5. Folded("add", None, log) = e
    BY <1>1, FoldedNothing DEF e, Start
  <1>6. Core(Folded("merge", None, shard)) = Core(e)
    <2>1. PICK v : IsWalk(v, "merge", None, shard, Shards) /\ Folded("merge", None, shard) = v[Shards]
      BY <1>4, FoldedWalk
    <2> DEFINE T == {k \in Nat : k <= Shards => Core(v[k]) = Core(e)}
    <2>2. 0 \in T
      BY <2>1 DEF IsWalk, Start, e
    <2>3. ASSUME NEW k \in Nat, k \in T PROVE k + 1 \in T
      <3>1. SUFFICES ASSUME k + 1 <= Shards PROVE Core(v[k + 1]) = Core(e)
        OBVIOUS
      <3>2. k + 1 \in 1 .. Shards /\ (k + 1) - 1 = k /\ k <= Shards
        BY <3>1
      <3> DEFINE p == v[k]
      <3>3. v[k + 1] = Stats!MergeInto(p, e) /\ Core(p) = Core(e)
        BY <1>3, <2>1, <2>3, <3>2 DEF IsWalk, Step
      <3> HIDE DEF p
      <3>4. Core(v[k + 1]) = Both(Core(p), Core(e))
        BY <3>3, MergeIsBoth
      <3>5. Both(Core(e), Core(e)) = Core(e)
        <4> DEFINE c == Core(e)
        <4>1. IsCore(c) /\ c = NoCore
          BY NoCoreIs DEF e, NoCore
        <4>2. /\ c.all = Stats!NoLatency /\ c.codes = Stats!Empty /\ c.errors = Stats!Empty
              /\ c.failed = 0 /\ c.groups = Stats!Empty /\ c.checks = Stats!Empty
              /\ c.hists = Stats!Empty /\ c.sums = Stats!Empty /\ c.rates = Stats!Empty
              /\ c.counters = Stats!Empty
          BY <4>1, NoCoreIs
        <4> HIDE DEF c
        <4>3. /\ Stats!Join(c.all, Stats!NoLatency) = c.all
              /\ Stats!Plus(c.codes, Stats!Empty) = c.codes
              /\ Stats!Plus(c.errors, Stats!Empty) = c.errors
              /\ c.failed + 0 = c.failed
              /\ JoinGroups(c.groups, Stats!Empty) = c.groups
              /\ Stats!Plus(c.checks, Stats!Empty) = c.checks
              /\ JoinHists(c.hists, Stats!Empty) = c.hists
              /\ Stats!Plus(c.sums, Stats!Empty) = c.sums
              /\ Stats!Plus(c.rates, Stats!Empty) = c.rates
              /\ Stats!Plus(c.counters, Stats!Empty) = c.counters
          BY <4>1, BothNothing
        <4>4. Both(c, c) = NoCore
          BY <4>2, <4>3, NoCoreIs DEF Both
        <4> QED
          BY <4>1, <4>4 DEF c
      <3> QED
        BY <3>3, <3>4, <3>5
    <2> HIDE DEF T
    <2>4. Shards \in T
      BY <2>2, <2>3, Induction
    <2> QED
      BY <2>1, <2>4 DEF T
  <1>7. log \in Seq(Metrics)
    BY <1>1
  <1> QED
    BY <1>2, <1>3, <1>4, <1>5, <1>6, <1>7 DEF StatInv

\* A sequence, element by element.
LEMMA SeqType ==
  ASSUME NEW D, NEW s \in Seq(D)
  PROVE  /\ Len(s) \in Nat /\ DOMAIN s = 1 .. Len(s) /\ \A k \in 1 .. Len(s) : s[k] \in D
  OBVIOUS

\* A metric adds the same to the merge, whichever shard takes it, as to the one aggregator.
LEMMA StatAdd ==
  ASSUME Shards \in Nat, None \notin Nat, StatInv, NEW m \in Metrics, NEW i \in 1 .. Shards,
         Stats!AddMetric(m, i)
  PROVE  StatInv'
  <1> DEFINE a == shard[i]
             b == Stats!Add(a, m)
             u == Unit(m)
             s == shard
             t == shard'
             l == log
             e == log'
             D == {shard[k] : k \in 1 .. Shards}
  <1>1. t = [s EXCEPT ![i] = b] /\ e = Append(l, m)
    BY DEF Stats!AddMetric
  <1>2. IsMetric(m) /\ IsAgg(a)
    BY MetricsAre DEF StatInv
  <1>3. IsCore(u) /\ Core(b) = Both(Core(a), u) /\ IsAgg(b) /\ b.gauges = GaugesWith(a, m)
    BY <1>2, UnitIs, AddIs
  <1>4. /\ l \in Seq(Metrics) /\ s \in Seq(D) /\ Len(s) = Shards
        /\ \A k \in 1 .. Shards : IsAgg(s[k])
    BY DEF StatInv
  <1>5. a = s[i]
    OBVIOUS
  <1> HIDE DEF b, u, s, t, l, e, a, D
  <1>6. s \in [1 .. Shards -> D]
    BY <1>4, SeqType
  <1>7. /\ t \in [1 .. Shards -> D \cup {b}]
        /\ t[i] = b /\ \A k \in 1 .. Shards : k # i => t[k] = s[k]
    BY <1>1, <1>6
  <1>8. t \in Seq({t[k] : k \in 1 .. Shards}) /\ Len(t) = Shards
    BY <1>7, IsSequence
  <1>9. \A k \in 1 .. Shards : IsAgg(t[k])
    BY <1>3, <1>4, <1>7
  <1>10. e \in Seq(Metrics) /\ DOMAIN l \subseteq DOMAIN e /\ Len(l) + 1 \in DOMAIN e
         /\ e[Len(l) + 1] = m /\ \A j \in DOMAIN l : e[j] = l[j]
    <2>1. l \in Seq(Metrics) /\ m \in Metrics
      BY <1>4
    <2>2. Append(l, m) \in Seq(Metrics) /\ Len(Append(l, m)) = Len(l) + 1
          /\ Append(l, m)[Len(l) + 1] = m
          /\ \A j \in 1 .. Len(l) : Append(l, m)[j] = l[j]
      BY <2>1
    <2>3. Len(l) \in Nat /\ DOMAIN l = 1 .. Len(l)
          /\ DOMAIN Append(l, m) = 1 .. Len(Append(l, m))
      BY <2>1, <2>2
    <2> QED
      BY <1>1, <2>2, <2>3
  <1>11. Folded("add", None, e) = Stats!Add(Folded("add", None, l), m)
    <2>1. Folded("add", None, Append(l, m)) = Step("add", None, Folded("add", None, l), m)
      BY <1>4, FoldedAppend
    <2> QED
      BY <1>1, <2>1 DEF Step
  <1> DEFINE w == Folded("add", None, l)
             g == Folded("merge", None, s)
  <1>12. IsAgg(w) /\ Core(g) = Core(w)
    BY DEF StatInv, l, s
  <1> HIDE DEF w, g
  <1>13. Core(Stats!Add(w, m)) = Both(Core(w), u) /\ IsAgg(Stats!Add(w, m))
    BY <1>2, <1>12, AddIs DEF u
  <1>14. Core(Folded("merge", None, t)) = Both(Core(g), u)
    <2>1. Core(t[i]) = Both(Core(s[i]), u)
      BY <1>3, <1>5, <1>7
    <2>2. OneCountsMore(s, t, Shards, i, u)
      BY <1>3, <1>4, <1>7, <1>8, <1>9, <2>1 DEF OneCountsMore
    <2>3. Core(Folded("merge", None, t)) = Both(Core(Folded("merge", None, s)), u)
      BY <2>2, MergeGrows
    <2> QED
      BY <2>3 DEF g
  <1>15. ASSUME NEW k \in 1 .. Shards, NEW n \in DOMAIN t[k].gauges
         PROVE  Sent(e, n, t[k].gauges[n])
    <2>1. ASSUME NEW v, Sent(l, n, v) PROVE Sent(e, n, v)
      BY <1>10, <2>1 DEF Sent
    <2>2. \A j \in 1 .. Shards : \A x \in DOMAIN s[j].gauges : Sent(l, x, s[j].gauges[x])
      BY DEF StatInv, l, s
    <2>3. CASE k # i
      BY <1>7, <2>1, <2>2, <2>3
    <2>4. CASE k = i
      <3>1. t[k].gauges = GaugesWith(a, m)
        BY <1>3, <1>7, <2>4
      <3>2. n \in DOMAIN a.gauges => Sent(e, n, a.gauges[n])
        BY <1>5, <2>1, <2>2
      <3>3. m.kind = "gauge" => Sent(e, m.name, m.value)
        BY <1>10 DEF Sent
      <3>4. CASE m.kind = "gauge"
        BY <3>1, <3>2, <3>3, <3>4 DEF GaugesWith
      <3>5. CASE m.kind # "gauge"
        BY <3>1, <3>2, <3>5 DEF GaugesWith
      <3> QED
        BY <3>4, <3>5
    <2> QED
      BY <2>3, <2>4
  <1>16. IsAgg(Folded("add", None, e)) /\ Core(Folded("merge", None, t)) = Core(Folded("add", None, e))
    BY <1>11, <1>12, <1>13, <1>14 DEF w
  <1> QED
    BY <1>8, <1>9, <1>10, <1>15, <1>16 DEF StatInv, t, e

\* No step of a run but that one changes the shards.
LEMMA StatStep ==
  ASSUME Shards \in Nat, None \notin Nat, StatInv, [Next]_commandVars PROVE StatInv'
  <1>1. CASE Counting
    BY <1>1, StatAdd DEF Counting, Stats!StatNext
  <1>2. CASE UNCHANGED stats
    BY <1>2 DEF StatInv, stats
  <1>3. Counting \/ UNCHANGED stats
    BY DEF Next, Scheduled, MainThread, TuiThread, TuiQuits, UserAnswers, Watching, Editing, Recording,
           commandVars
  <1> QED
    BY <1>1, <1>2, <1>3

\* So the shards always count what the one aggregator does.
LEMMA StatInvariant ==
  ASSUME Shards \in Nat, None \notin Nat PROVE Spec => []StatInv
  <1>1. Init => StatInv
    BY StatInit
  <1>2. StatInv /\ [Next]_commandVars => StatInv'
    BY StatStep
  <1> QED
    BY <1>1, <1>2, PTL DEF Spec

\* Counted leaves out what is no count.
LEMMA CountedIs ==
  ASSUME NEW a, IsAgg(a)
  PROVE  Stats!Counted(a) = Fields(a.all, a.codes, a.errors, a.failed, a.groups, a.checks, a.hists,
                                   a.sums, a.rates, a.counters, Stats!Empty, <<>>)
  <1> DEFINE a1 == [a EXCEPT !.gauges = Stats!Empty]
             a2 == [a1 EXCEPT !.logs = <<>>]
  <1>1. Stats!Counted(a) = a2
    BY DEF Stats!Counted
  <1> HIDE DEF a1, a2
  <1>2. a = Fields(a.all, a.codes, a.errors, a.failed, a.groups, a.checks, a.hists, a.sums,
                   a.rates, a.counters, a.gauges, a.logs)
    BY DEF IsAgg, Fields
  <1>3. a1 = Fields(a.all, a.codes, a.errors, a.failed, a.groups, a.checks, a.hists, a.sums,
                    a.rates, a.counters, Stats!Empty, a.logs)
    BY <1>2 DEF a1, Fields
  <1>4. a2 = Fields(a.all, a.codes, a.errors, a.failed, a.groups, a.checks, a.hists, a.sums,
                    a.rates, a.counters, Stats!Empty, <<>>)
    BY <1>3 DEF a2, Fields
  <1> QED
    BY <1>1, <1>4

\* Aggregators with the same counts are Counted alike.
LEMMA SameCount ==
  ASSUME NEW a, NEW b, IsAgg(a), IsAgg(b), Core(a) = Core(b)
  PROVE  Stats!Counted(a) = Stats!Counted(b)
  <1>1. /\ a.all = b.all /\ a.codes = b.codes /\ a.errors = b.errors /\ a.failed = b.failed
        /\ a.groups = b.groups /\ a.checks = b.checks /\ a.hists = b.hists /\ a.sums = b.sums
        /\ a.rates = b.rates /\ a.counters = b.counters
    BY DEF Core
  <1> QED
    BY <1>1, CountedIs

\* Trimming the log lines leaves the rest.
LEMMA TrimmedIs ==
  ASSUME NEW a, IsAgg(a), NEW x
  PROVE  /\ IsAgg([a EXCEPT !.logs = x]) /\ Core([a EXCEPT !.logs = x]) = Core(a)
         /\ [a EXCEPT !.logs = x].gauges = a.gauges
  <1> DEFINE b == [a EXCEPT !.logs = x]
  <1>1. a = Fields(a.all, a.codes, a.errors, a.failed, a.groups, a.checks, a.hists, a.sums,
                   a.rates, a.counters, a.gauges, a.logs)
    BY DEF IsAgg, Fields
  <1>2. b = Fields(a.all, a.codes, a.errors, a.failed, a.groups, a.checks, a.hists, a.sums,
                    a.rates, a.counters, a.gauges, x)
    BY <1>1 DEF Fields
  <1> HIDE DEF b
  <1>3. Core(b) = Core(a) /\ b.gauges = a.gauges
    BY <1>2 DEF Fields, Core
  <1>4. IsAgg(b)
    BY <1>2, <1>3, AggCore DEF Fields, IsAgg
  <1> QED
    BY <1>3, <1>4 DEF b

\* What the merge of the shards has counted and what its gauges are.
LEMMA MergedShards ==
  ASSUME Shards \in Nat, None \notin Nat, StatInv
  PROVE  /\ IsAgg(Stats!Merge(shard)) /\ IsAgg(Stats!FoldLeft(Stats!Add, Stats!NewAggregator, log))
         /\ Core(Stats!Merge(shard)) = Core(Stats!FoldLeft(Stats!Add, Stats!NewAggregator, log))
         /\ \A n \in DOMAIN Stats!Merge(shard).gauges : Sent(log, n, Stats!Merge(shard).gauges[n])
  <1> DEFINE g == Folded("merge", None, shard)
             w == Folded("add", None, log)
             r == Stats!Merge(shard)
             lg == Stats!TrimLogs(g.logs)
  <1>1. Len(shard) = Shards /\ DOMAIN shard = 1 .. Len(shard) /\ DOMAIN log = 1 .. Len(log)
    BY SeqType DEF StatInv
  <1>2. r = [g EXCEPT !.logs = lg]
    BY <1>1, MergedIsFolded
  <1>3. Stats!FoldLeft(Stats!Add, Stats!NewAggregator, log) = w
    BY <1>1, WholeIsFolded
  <1>4. IsAgg(w) /\ Core(g) = Core(w)
    BY DEF StatInv
  <1>5. IsAgg(g)
    <2>1. PICK v : IsWalk(v, "merge", None, shard, Shards) /\ g = v[Shards]
      BY <1>1, FoldedWalk
    <2>2. \A k \in 1 .. Shards : IsAgg(shard[k])
      BY DEF StatInv
    <2>3. \A k \in 0 .. Shards : IsAgg(v[k])
      BY <2>1, <2>2, MergeWalkTypes
    <2> QED
      BY <2>1, <2>3
  <1>6. ASSUME NEW n \in DOMAIN g.gauges PROVE Sent(log, n, g.gauges[n])
    <2>1. \E i \in 1 .. Shards : n \in DOMAIN shard[i].gauges /\ shard[i].gauges[n] = g.gauges[n]
      BY <1>1, MergeGauges
    <2> QED
      BY <2>1 DEF StatInv
  <1> HIDE DEF g, w, r, lg
  <1>7. IsAgg(r) /\ Core(r) = Core(g) /\ r.gauges = g.gauges
    BY <1>2, <1>5, TrimmedIs
  <1>8. \A n \in DOMAIN r.gauges : Sent(log, n, r.gauges[n])
    BY <1>6, <1>7
  <1> QED
    BY <1>3, <1>4, <1>7, <1>8 DEF r

\* However the metrics of a run are spread over the shards, and whatever is sent, the merge
\* (ShardedAggregator::merge and StatsAggregator::merge of stats/mod.rs) counts what one aggregator
\* that saw every metric would count, and a gauge has a value that was sent for it.
THEOREM StatisticsAddUp == Spec => []MergeIsWhole
  <1> USE CommandAssumption
  <1>1. StatInv => MergeIsWhole
    <2> SUFFICES ASSUME StatInv PROVE Stats!MergeIsWhole
      BY DEF MergeIsWhole
    <2> DEFINE r == Stats!Merge(shard)
               w == Stats!FoldLeft(Stats!Add, Stats!NewAggregator, log)
    <2>1. IsAgg(r) /\ IsAgg(w) /\ Core(r) = Core(w) /\ \A n \in DOMAIN r.gauges : Sent(log, n, r.gauges[n])
      BY MergedShards
    <2> HIDE DEF r, w
    <2>2. Stats!Counted(r) = Stats!Counted(w)
      BY <2>1, SameCount
    <2>3. \A n \in DOMAIN r.gauges : \E i \in DOMAIN log :
             log[i].kind = "gauge" /\ log[i].name = n /\ log[i].value = r.gauges[n]
      BY <2>1 DEF Sent
    <2> QED
      BY <2>2, <2>3 DEF Stats!MergeIsWhole, r, w
  <1> QED
    BY <1>1, StatInvariant, PTL

-----------------------------------------------------------------------------
(* Scenarios.                                                              *)

\* The latencies of the requests in l with a name of x.
OwnOf(x, l) == Folded("own", x, l)

\* The groups of a are those of the requests in l, and the latencies of several
\* groups are theirs joined, in any order.
Grouped(a, l) ==
  /\ IsFiniteSet(DOMAIN a.groups) /\ DOMAIN a.groups \subseteq Stats!RequestNames
  /\ OwnOf({}, l) = Stats!NoLatency
  /\ \A x : IsLat(OwnOf(x, l))
  /\ \A x : OwnOf(x, l) = OwnOf(x \cap DOMAIN a.groups, l)
  /\ \A x : \A y \in x : OwnOf(x, l) = Stats!Join(OwnOf(x \ {y}, l), GroupOf(a.groups, y))

\* What a metric does to a group.
LEMMA AddedGroup ==
  ASSUME None \notin Nat, NEW a, IsAgg(a), NEW m, IsMetric(m), NEW n
  PROVE  /\ n \in DOMAIN Stats!Add(a, m).groups
              <=> n \in DOMAIN a.groups \/ (m.kind = "request" /\ n = m.name)
         /\ GroupOf(Stats!Add(a, m).groups, n)
              = IF m.kind = "request" /\ n = m.name
                THEN Stats!Join(GroupOf(a.groups, n), Once(m)) ELSE GroupOf(a.groups, n)
  <1> DEFINE g == a.groups
             u == Unit(m).groups
             r == Stats!Add(a, m).groups
  <1>1. IsGroups(g)
    BY AggCore DEF IsCore, Core
  <1>2. IsGroups(u)
    BY UnitIs DEF IsCore
  <1>3. r = JoinGroups(g, u)
    BY AddIs DEF Core, Both
  <1>4. /\ DOMAIN u = IF m.kind = "request" THEN {m.name} ELSE {}
        /\ m.kind = "request" => u[m.name] = Once(m)
    BY DEF Unit, RequestUnit, Stats!Empty
  <1> HIDE DEF g, u, r
  <1>5. DOMAIN r = DOMAIN g \cup DOMAIN u
        /\ GroupOf(r, n) = Stats!Join(GroupOf(g, n), GroupOf(u, n))
    BY <1>1, <1>2, <1>3, JoinGroupsIs
  <1>6. GroupOf(u, n) = IF m.kind = "request" /\ n = m.name THEN Once(m) ELSE Stats!NoLatency
    BY <1>4 DEF GroupOf
  <1>7. Stats!Join(GroupOf(g, n), Stats!NoLatency) = GroupOf(g, n)
    BY <1>1, GroupOfIs, JoinNothing
  <1>8. n \in DOMAIN r <=> n \in DOMAIN g \/ (m.kind = "request" /\ n = m.name)
    BY <1>4, <1>5
  <1>9. GroupOf(r, n) = IF m.kind = "request" /\ n = m.name
                        THEN Stats!Join(GroupOf(g, n), Once(m)) ELSE GroupOf(g, n)
    BY <1>5, <1>6, <1>7
  <1> QED
    BY <1>8, <1>9 DEF g, r

\* One more request with a name of x is joined to the latencies of x.
LEMMA OwnAppend ==
  ASSUME None \notin Nat, NEW l \in Seq(Metrics), NEW m \in Metrics, NEW x, IsLat(OwnOf(x, l))
  PROVE  OwnOf(x, Append(l, m))
           = IF Mine(m, x) THEN Stats!Join(OwnOf(x, l), Once(m)) ELSE OwnOf(x, l)
  <1> DEFINE o == OwnOf(x, l)
  <1>1. OwnOf(x, Append(l, m)) = Step("own", x, o, m)
    BY FoldedAppend DEF OwnOf
  <1>2. Step("own", x, o, m) = IF Mine(m, x) THEN Stats!Measured(o, m) ELSE o
    BY DEF Step
  <1> HIDE DEF o
  <1>3. Mine(m, x) => Stats!Measured(o, m) = Stats!Join(o, Once(m))
    <2> SUFFICES ASSUME Mine(m, x) PROVE Stats!Measured(o, m) = Stats!Join(o, Once(m))
      OBVIOUS
    <2>1. m.dur \in Nat
      BY MetricsAre DEF Mine, IsMetric
    <2> QED
      BY <2>1, MeasuredIsJoin DEF o
  <1> QED
    BY <1>1, <1>2, <1>3 DEF o

\* A metric added to the aggregator and to the log keeps the two in agreement.
LEMMA GroupedStep ==
  ASSUME None \notin Nat, NEW a, IsAgg(a), NEW l \in Seq(Metrics), NEW m \in Metrics, Grouped(a, l)
  PROVE  Grouped(Stats!Add(a, m), Append(l, m))
  <1> DEFINE e == Append(l, m)
             g == a.groups
             h == Stats!Add(a, m).groups
             D == DOMAIN g
             E == DOMAIN h
             req == m.kind = "request"
             n == m.name
             o == Once(m)
  <1>1. IsMetric(m) /\ IsGroups(g)
    BY MetricsAre, AggCore DEF IsCore, Core
  <1>2. \A x : IsLat(OwnOf(x, l))
    BY DEF Grouped
  <1>3. \A x : OwnOf(x, e) = IF req /\ n \in x THEN Stats!Join(OwnOf(x, l), o) ELSE OwnOf(x, l)
    BY <1>2, OwnAppend DEF Mine
  <1>4. \A y : /\ y \in E <=> y \in D \/ (req /\ y = n)
               /\ GroupOf(h, y) = IF req /\ y = n THEN Stats!Join(GroupOf(g, y), o) ELSE GroupOf(g, y)
    BY <1>1, AddedGroup
  <1>5. req => IsLat(o) /\ n \in Stats!RequestNames
    <2> SUFFICES ASSUME req PROVE IsLat(o) /\ n \in Stats!RequestNames
      OBVIOUS
    <2>1. m.dur \in Nat
      BY <1>1 DEF IsMetric
    <2>2. n \in Stats!RequestNames
      BY DEF Stats!RequestNames
    <2> QED
      BY <2>1, <2>2, OnceIs
  <1>6. \A y : IsLat(GroupOf(g, y))
    BY <1>1, GroupOfIs
  <1>7. /\ IsFiniteSet(D) /\ D \subseteq Stats!RequestNames /\ OwnOf({}, l) = Stats!NoLatency
        /\ \A x : OwnOf(x, l) = OwnOf(x \cap D, l)
        /\ \A x : \A y \in x : OwnOf(x, l) = Stats!Join(OwnOf(x \ {y}, l), GroupOf(g, y))
    BY DEF Grouped
  <1> HIDE DEF e, g, h, D, E, req, n, o
  <1>8. E = IF req THEN D \cup {n} ELSE D
    BY <1>4
  <1>9. IsFiniteSet(E) /\ E \subseteq Stats!RequestNames
    <2>1. IsFiniteSet(D \cup {n})
      BY <1>7, FS_AddElement
    <2> QED
      BY <1>5, <1>7, <1>8, <2>1
  <1>10. OwnOf({}, e) = Stats!NoLatency
    BY <1>3, <1>7
  <1>11. \A x : IsLat(OwnOf(x, e))
    BY <1>2, <1>3, <1>5, JoinIs
  <1>12. \A x : OwnOf(x, e) = OwnOf(x \cap E, e)
    <2> SUFFICES ASSUME NEW x PROVE OwnOf(x, e) = OwnOf(x \cap E, e)
      OBVIOUS
    <2>1. (x \cap E) \cap D = x \cap D
      BY <1>8
    <2>2. OwnOf(x \cap E, l) = OwnOf(x, l)
      BY <1>7, <2>1
    <2>3. req => (n \in x \cap E <=> n \in x)
      BY <1>8
    <2> QED
      BY <1>3, <2>2, <2>3
  <1>13. ASSUME NEW x, NEW y \in x
         PROVE  OwnOf(x, e) = Stats!Join(OwnOf(x \ {y}, e), GroupOf(h, y))
    <2> DEFINE p == OwnOf(x, l)
               q == OwnOf(x \ {y}, l)
               r == GroupOf(g, y)
    <2>1. IsLat(p) /\ IsLat(q) /\ IsLat(r) /\ p = Stats!Join(q, r)
      BY <1>2, <1>6, <1>7, <1>13
    <2>2. OwnOf(x, e) = IF req /\ n \in x THEN Stats!Join(p, o) ELSE p
      BY <1>3
    <2>3. OwnOf(x \ {y}, e) = IF req /\ n \in x \ {y} THEN Stats!Join(q, o) ELSE q
      BY <1>3
    <2>4. GroupOf(h, y) = IF req /\ y = n THEN Stats!Join(r, o) ELSE r
      BY <1>4
    <2> HIDE DEF p, q, r
    <2>5. CASE ~req \/ n \notin x
      BY <1>13, <2>1, <2>2, <2>3, <2>4, <2>5
    <2>6. CASE req /\ n = y
      <3>1. Stats!Join(Stats!Join(q, r), o) = Stats!Join(q, Stats!Join(r, o))
        BY <1>5, <2>1, <2>6, JoinAssoc
      <3>2. OwnOf(x, e) = Stats!Join(Stats!Join(q, r), o) /\ OwnOf(x \ {y}, e) = q
        BY <1>13, <2>1, <2>2, <2>3, <2>6
      <3> QED
        BY <2>4, <2>6, <3>1, <3>2
    <2>7. CASE req /\ n \in x /\ n # y
      <3>1. /\ Stats!Join(Stats!Join(q, r), o) = Stats!Join(q, Stats!Join(r, o))
            /\ Stats!Join(Stats!Join(q, o), r) = Stats!Join(q, Stats!Join(o, r))
            /\ Stats!Join(r, o) = Stats!Join(o, r)
        BY <1>5, <2>1, <2>7, JoinAssoc, JoinComm
      <3>2. OwnOf(x, e) = Stats!Join(Stats!Join(q, r), o)
            /\ OwnOf(x \ {y}, e) = Stats!Join(q, o) /\ GroupOf(h, y) = r
        BY <2>1, <2>2, <2>3, <2>4, <2>7
      <3> QED
        BY <3>1, <3>2
    <2> QED
      BY <2>5, <2>6, <2>7
  <1> QED
    BY <1>9, <1>10, <1>11, <1>12, <1>13 DEF Grouped, e, h, E

\* One aggregator that saw the log has grouped its requests.
ScenarioInv == Grouped(Folded("add", None, log), log)

\* It has before the first metric ...
LEMMA ScenarioInit == ASSUME None \notin Nat, Init PROVE ScenarioInv
  <1> DEFINE z == Stats!NoLatency
             a == Stats!NewAggregator
             l == log
  <1>1. l = <<>>
    BY DEF Init, Stats!StatInit
  <1>2. Folded("add", None, l) = a /\ \A x : OwnOf(x, l) = z
    BY <1>1, FoldedNothing DEF OwnOf, Start
  <1>3. DOMAIN a.groups = {} /\ \A n : GroupOf(a.groups, n) = z
    BY DEF GroupOf, Stats!NewAggregator, Stats!Empty
  <1>4. IsLat(z) /\ IsFiniteSet({})
    BY NoLatencyIs, FS_EmptySet
  <1> HIDE DEF a, l, z
  <1>5. Stats!Join(z, z) = z
    BY <1>4, JoinNothing DEF z
  <1>6. Grouped(a, l)
    BY <1>2, <1>3, <1>4, <1>5 DEF Grouped, z
  <1> QED
    BY <1>2, <1>6 DEF ScenarioInv, l

\* ... and after each.
LEMMA ScenarioStep ==
  ASSUME Shards \in Nat, None \notin Nat, StatInv, ScenarioInv, [Next]_commandVars
  PROVE  ScenarioInv'
  <1>1. CASE UNCHANGED stats
    BY <1>1 DEF ScenarioInv, stats
  <1>2. ASSUME NEW m \in Metrics, NEW i \in 1 .. Shards, Stats!AddMetric(m, i)
        PROVE  ScenarioInv'
    <2> DEFINE l == log
               e == log'
               w == Folded("add", None, l)
    <2>1. e = Append(l, m) /\ l \in Seq(Metrics)
      BY <1>2 DEF Stats!AddMetric, StatInv
    <2>2. IsAgg(w) /\ Grouped(w, l)
      BY DEF StatInv, ScenarioInv
    <2> HIDE DEF l, e
    <2>3. Folded("add", None, e) = Step("add", None, w, m)
      BY <2>1, FoldedAppend
    <2>4. Step("add", None, w, m) = Stats!Add(w, m)
      BY DEF Step
    <2> HIDE DEF w
    <2>5. Grouped(Stats!Add(w, m), Append(l, m))
      BY <2>1, <2>2, GroupedStep
    <2>6. Grouped(Folded("add", None, e), e)
      BY <2>1, <2>3, <2>4, <2>5
    <2> QED
      BY <2>6 DEF ScenarioInv, e
  <1>3. Counting \/ UNCHANGED stats
    BY DEF Next, Scheduled, MainThread, TuiThread, TuiQuits, UserAnswers, Watching, Editing, Recording,
           commandVars
  <1> QED
    BY <1>1, <1>2, <1>3 DEF Counting, Stats!StatNext

\* The part of a scenario is a fold over its groups.
PartFold(it, g, names) ==
  it = [x \in SUBSET names |->
          IF x = {} THEN Stats!NoLatency
          ELSE Stats!Join(it[x \ {CHOOSE y \in x : TRUE}], g[CHOOSE y \in x : TRUE])]

NamesOf(a, s) == {n \in DOMAIN a.groups : Stats!InScenario(n, s)}
PartOf(g, names) == (CHOOSE it : PartFold(it, g, names))[names]

\* It is the latencies of the requests with a name of one of these groups.
LEMMA PartIsOwn ==
  ASSUME NEW a, NEW l, Grouped(a, l), NEW names \in SUBSET DOMAIN a.groups
  PROVE  PartOf(a.groups, names) = OwnOf(names, l)
  <1> DEFINE g == a.groups
             it == CHOOSE f : PartFold(f, g, names)
             own == [x \in SUBSET names |-> OwnOf(x, l)]
  <1>1. /\ IsFiniteSet(names) /\ OwnOf({}, l) = Stats!NoLatency
        /\ \A x : \A y \in x : OwnOf(x, l) = Stats!Join(OwnOf(x \ {y}, l), GroupOf(g, y))
    BY FS_Subset DEF Grouped
  <1>2. \A y \in names : GroupOf(g, y) = g[y]
    BY DEF GroupOf
  <1> HIDE DEF g
  <1>3. PartFold(own, g, names)
    <2>1. ASSUME NEW x \in SUBSET names, x # {}
          PROVE  own[x] = Stats!Join(own[x \ {CHOOSE y \in x : TRUE}], g[CHOOSE y \in x : TRUE])
      <3> DEFINE y == CHOOSE z \in x : TRUE
      <3>1. y \in x
        BY <2>1
      <3> HIDE DEF y
      <3>2. OwnOf(x, l) = Stats!Join(OwnOf(x \ {y}, l), g[y])
        BY <1>1, <1>2, <3>1
      <3>3. own[x] = OwnOf(x, l) /\ own[x \ {y}] = OwnOf(x \ {y}, l)
        OBVIOUS
      <3> HIDE DEF own
      <3> QED
        BY <3>2, <3>3 DEF y
    <2>2. own[{}] = Stats!NoLatency /\ own = [x \in SUBSET names |-> own[x]]
      BY <1>1
    <2> HIDE DEF own
    <2> QED
      BY <2>1, <2>2 DEF PartFold
  <1>4. PartFold(it, g, names)
    BY <1>3
  <1>5. PartOf(a.groups, names) = it[names]
    BY DEF PartOf, g
  <1> HIDE DEF it, own
  <1> DEFINE T == {n \in Nat : \A x \in SUBSET names : Cardinality(x) = n => it[x] = OwnOf(x, l)}
  <1>6. 0 \in T
    <2> SUFFICES ASSUME NEW x \in SUBSET names, Cardinality(x) = 0 PROVE it[x] = OwnOf(x, l)
      OBVIOUS
    <2>1. x = {}
      BY <1>1, FS_Subset, FS_EmptySet
    <2> QED
      BY <1>1, <1>4, <2>1 DEF PartFold
  <1>7. ASSUME NEW n \in Nat, n \in T PROVE n + 1 \in T
    <2> SUFFICES ASSUME NEW x \in SUBSET names, Cardinality(x) = n + 1 PROVE it[x] = OwnOf(x, l)
      OBVIOUS
    <2> DEFINE y == CHOOSE z \in x : TRUE
    <2>1. x # {}
      BY FS_EmptySet
    <2>2. y \in x
      BY <2>1
    <2>3. it[x] = Stats!Join(it[x \ {y}], g[y])
      BY <1>4, <2>1 DEF PartFold
    <2> HIDE DEF y
    <2>4. IsFiniteSet(x)
      BY <1>1, FS_Subset
    <2>5. Cardinality(x \ {y}) = n
      <3>1. Cardinality(x \ {y}) = Cardinality(x) - 1
        BY <2>2, <2>4, FS_RemoveElement
      <3> QED
        BY <3>1
    <2>6. it[x \ {y}] = OwnOf(x \ {y}, l)
      BY <1>7, <2>5
    <2> QED
      BY <1>1, <1>2, <2>2, <2>3, <2>6
  <1> HIDE DEF T
  <1>8. Cardinality(names) \in T
    BY <1>1, <1>6, <1>7, Induction, FS_CardinalityType
  <1> QED
    BY <1>5, <1>8 DEF T

\* validate_scenario_thresholds: the aggregator it makes of the groups of a scenario.
LEMMA ScenarioPartIs ==
  ASSUME NEW a, NEW s
  PROVE  LET p == PartOf(a.groups, NamesOf(a, s))
         IN  Stats!ScenarioPart(a, s) =
               [a EXCEPT !.all = p, !.codes = Stats!Empty, !.failed = 0, !.groups = Stats!Empty,
                         !.logs = <<>>,
                         !.errors = IF p.errors > 0 THEN Stats!One("error", p.errors) ELSE Stats!Empty]
  BY DEF Stats!ScenarioPart, Stats!FoldSet, Stats!MapThenFoldSet, PartOf, PartFold, NamesOf

\* What a scenario's aggregator says of the built-in metrics.
LEMMA ScenarioFields ==
  ASSUME NEW a, IsAgg(a), NEW s
  PROVE  /\ Stats!ScenarioPart(a, s).all = PartOf(a.groups, NamesOf(a, s))
         /\ Stats!ScenarioPart(a, s).errors
              = IF PartOf(a.groups, NamesOf(a, s)).errors > 0
                THEN Stats!One("error", PartOf(a.groups, NamesOf(a, s)).errors) ELSE Stats!Empty
  <1> DEFINE p == PartOf(a.groups, NamesOf(a, s))
             er == IF p.errors > 0 THEN Stats!One("error", p.errors) ELSE Stats!Empty
             z == Stats!Empty
             r == Stats!ScenarioPart(a, s)
             a1 == [a EXCEPT !.all = p]
             a2 == [a1 EXCEPT !.codes = z]
             a3 == [a2 EXCEPT !.failed = 0]
             a4 == [a3 EXCEPT !.groups = z]
             a5 == [a4 EXCEPT !.logs = <<>>]
             a6 == [a5 EXCEPT !.errors = er]
  <1>1. r = [a EXCEPT !.all = p, !.codes = z, !.failed = 0, !.groups = z, !.logs = <<>>, !.errors = er]
    BY ScenarioPartIs
  <1> HIDE DEF p, er, z, r
  <1>2. r = a6
    BY <1>1
  <1> HIDE DEF a1, a2, a3, a4, a5, a6
  <1>3. a = Fields(a.all, a.codes, a.errors, a.failed, a.groups, a.checks, a.hists, a.sums,
                   a.rates, a.counters, a.gauges, a.logs)
    BY DEF IsAgg, Fields
  <1>4. a1 = Fields(p, a.codes, a.errors, a.failed, a.groups, a.checks, a.hists, a.sums,
                    a.rates, a.counters, a.gauges, a.logs)
    BY <1>3 DEF a1, Fields
  <1>5. a2 = Fields(p, z, a.errors, a.failed, a.groups, a.checks, a.hists, a.sums,
                    a.rates, a.counters, a.gauges, a.logs)
    BY <1>4 DEF a2, Fields
  <1>6. a3 = Fields(p, z, a.errors, 0, a.groups, a.checks, a.hists, a.sums,
                    a.rates, a.counters, a.gauges, a.logs)
    BY <1>5 DEF a3, Fields
  <1>7. a4 = Fields(p, z, a.errors, 0, z, a.checks, a.hists, a.sums,
                    a.rates, a.counters, a.gauges, a.logs)
    BY <1>6 DEF a4, Fields
  <1>8. a5 = Fields(p, z, a.errors, 0, z, a.checks, a.hists, a.sums,
                    a.rates, a.counters, a.gauges, <<>>)
    BY <1>7 DEF a5, Fields
  <1>9. a6 = Fields(p, z, er, 0, z, a.checks, a.hists, a.sums,
                    a.rates, a.counters, a.gauges, <<>>)
    BY <1>8 DEF a6, Fields
  <1>10. r.all = p /\ r.errors = er
    BY <1>2, <1>9 DEF Fields
  <1> QED
    BY <1>10 DEF r, p, er

\* A function from sets of keys to the sum of what f says of them.
SumFold(it, f, D) ==
  it = [x \in SUBSET D |->
          IF x = {} THEN 0
          ELSE f[CHOOSE y \in x : TRUE] + it[x \ {CHOOSE y \in x : TRUE}]]

\* The total of a table is the sum over its keys.
LEMMA TotalIsFold ==
  ASSUME NEW f
  PROVE  Stats!Total(f) = (CHOOSE it : SumFold(it, f, DOMAIN f))[DOMAIN f]
  BY DEF Stats!Total, Stats!MapThenSumSet, Stats!MapThenFoldSet, SumFold

\* The total of a table of one name, and of none.
LEMMA SingleTotal ==
  ASSUME NEW k, NEW n \in Nat
  PROVE  Stats!Total(Stats!One(k, n)) = n /\ Stats!Total(Stats!Empty) = 0
  <1>1. ASSUME NEW f, NEW v, DOMAIN f \in {{}, {k}}, v = (IF DOMAIN f = {} THEN 0 ELSE n),
               \A x \in DOMAIN f : f[x] = n
        PROVE  Stats!Total(f) = v
    <2> DEFINE D == DOMAIN f
               it == CHOOSE g : SumFold(g, f, D)
               sum == [x \in SUBSET D |-> IF x = {} THEN 0 ELSE n]
    <2>1. ASSUME NEW x \in SUBSET D, x # {}
          PROVE  sum[x] = f[CHOOSE y \in x : TRUE] + sum[x \ {CHOOSE y \in x : TRUE}]
      <3> DEFINE y == CHOOSE z \in x : TRUE
      <3>1. y \in x
        BY <2>1
      <3> HIDE DEF y
      <3>2. x \ {y} = {} /\ {} \in SUBSET D /\ f[y] = n
        BY <1>1, <3>1
      <3>3. sum[x] = n /\ sum[x \ {y}] = 0
        BY <2>1, <3>2
      <3> HIDE DEF sum, D
      <3> QED
        BY <3>2, <3>3 DEF y
    <2>2. sum[{}] = 0 /\ sum = [x \in SUBSET D |-> sum[x]]
      OBVIOUS
    <2>3. SumFold(sum, f, D)
      <3> HIDE DEF sum, D
      <3> QED
        BY <2>1, <2>2 DEF SumFold
    <2>4. SumFold(it, f, D)
      BY <2>3
    <2>5. Stats!Total(f) = it[D]
      BY TotalIsFold
    <2> HIDE DEF it, sum
    <2>6. CASE D = {}
      BY <1>1, <2>4, <2>5, <2>6 DEF SumFold
    <2>7. CASE D = {k}
      <3> DEFINE y == CHOOSE z \in D : TRUE
      <3>1. y \in D /\ D \ {y} = {} /\ f[y] = n
        BY <1>1, <2>7
      <3>2. it[D] = f[y] + it[D \ {y}] /\ it[{}] = 0
        BY <2>4, <2>7 DEF SumFold
      <3>3. v = n
        BY <1>1, <2>7
      <3> HIDE DEF y, D
      <3> QED
        BY <2>5, <3>1, <3>2, <3>3
    <2> QED
      BY <1>1, <2>6, <2>7
  <1>2. DOMAIN Stats!One(k, n) = {k} /\ \A x \in {k} : Stats!One(k, n)[x] = n
    BY DEF Stats!One
  <1>3. DOMAIN Stats!Empty = {}
    BY DEF Stats!Empty
  <1> QED
    BY <1>1, <1>2, <1>3

\* The metrics every run has.
BuiltIn == {"http_req_duration", "http_req_failed"}

\* They depend on the latencies and the number of errors only.
LEMMA BuiltInValues ==
  ASSUME NEW x, NEW y, x.all = y.all, Stats!Total(x.errors) = Stats!Total(y.errors),
         NEW metric \in BuiltIn
  PROVE  Stats!Values(x, metric) = Stats!Values(y, metric)
  <1>1. CASE metric = "http_req_duration"
    <2>1. Stats!Values(x, metric) = Stats!Durations(x.all) /\ Stats!Values(y, metric) = Stats!Durations(y.all)
      BY <1>1 DEF Stats!Values
    <2> QED
      BY <2>1
  <1>2. CASE metric = "http_req_failed"
    <2>1. /\ Stats!Values(x, metric) = [rate |-> Stats!FailedRate(x)]
          /\ Stats!Values(y, metric) = [rate |-> Stats!FailedRate(y)]
      BY <1>2 DEF Stats!Values
    <2>2. Stats!FailedRate(x) = Stats!FailedRate(y)
      BY DEF Stats!FailedRate
    <2> QED
      BY <2>1, <2>2
  <1> QED
    BY <1>1, <1>2 DEF BuiltIn

\* What was recorded under the name of a scenario is a fold as well.
LEMMA RecordingsAre ==
  ASSUME NEW s, DOMAIN log = 1 .. Len(log)
  PROVE  Stats!RecordedUnder(s) = OwnOf(Stats!NamesUnder(s), log)
  BY DEF Stats!RecordedUnder, OwnOf, Stats!FoldLeft, Stats!MapThenFoldSet, Folded, StepFold, Step, Start, Mine

\* Thresholds on the built-in metrics depend on the same.
LEMMA IsolationIs ==
  ASSUME NEW x, NEW y, x.all = y.all, Stats!Total(x.errors) = Stats!Total(y.errors),
         NEW B \in SUBSET Criteria, \A c \in B : c.metric \in BuiltIn
  PROVE  Stats!ValidateThresholds(x, B) = Stats!ValidateThresholds(y, B)
  <1>1. ASSUME NEW c \in B PROVE Stats!Actual(x, c) = Stats!Actual(y, c)
    <2>1. Stats!Values(x, c.metric) = Stats!Values(y, c.metric)
      BY BuiltInValues
    <2> QED
      BY <2>1 DEF Stats!Actual
  <1> QED
    BY <1>1 DEF Stats!ValidateThresholds

\* The verdict on a scenario (validate_scenario_thresholds of stats/mod.rs) is the verdict on what
\* was recorded under its name, in its segments and in the segments within them: whatever metrics a
\* run sends, in any order and over any number of shards, the latencies the scenario is judged by are
\* one count of those, and nothing recorded elsewhere changes which of its thresholds on the built-in
\* metrics are breached.
THEOREM ScenariosJudged == Spec => []JudgedBySegments
  <1> USE CommandAssumption
  <1>1. StatInv /\ ScenarioInv => JudgedBySegments
    <2> SUFFICES ASSUME StatInv, ScenarioInv PROVE Stats!JudgedBySegments
      BY DEF JudgedBySegments
    <2> DEFINE B == {c \in Criteria : c.metric \in {"http_req_duration", "http_req_failed"}}
               whole == Stats!Merge(shard)
    <2>1. DOMAIN log = 1 .. Len(log)
      BY SeqType DEF StatInv
    <2>2. ASSUME NEW s
          PROVE  LET judged == Stats!ScenarioPart(whole, s)
                     own == Stats!RecordedUnder(s)
                 IN  /\ judged.all = own /\ Stats!Total(judged.errors) = own.errors
                     /\ Stats!ValidateThresholds(judged, B) = Stats!ValidateThresholds(Stats!Alone(own), B)
      <3> DEFINE w == Stats!FoldLeft(Stats!Add, Stats!NewAggregator, log)
                 own == Stats!RecordedUnder(s)
                 judged == Stats!ScenarioPart(whole, s)
                 names == NamesOf(w, s)
      <3>1. w = Folded("add", None, log) /\ own = OwnOf(Stats!NamesUnder(s), log)
        BY <2>1, WholeIsFolded, RecordingsAre
      <3>2. IsAgg(whole) /\ Core(whole) = Core(w) /\ Grouped(w, log)
        BY <3>1, MergedShards DEF ScenarioInv
      <3> HIDE DEF w, whole, own
      <3>3. whole.groups = w.groups /\ NamesOf(whole, s) = names
        BY <3>2 DEF Core, NamesOf
      <3>4. Stats!NamesUnder(s) \cap DOMAIN w.groups = names
        BY <3>2 DEF Grouped, NamesOf, Stats!NamesUnder, Stats!InScenario
      <3>5. PartOf(whole.groups, NamesOf(whole, s)) = own /\ IsLat(own)
        <4>1. OwnOf(Stats!NamesUnder(s), log) = OwnOf(names, log) /\ IsLat(OwnOf(names, log))
          BY <3>2, <3>4 DEF Grouped
        <4>2. names \in SUBSET DOMAIN w.groups
          BY DEF NamesOf
        <4> HIDE DEF names
        <4>3. PartOf(w.groups, names) = OwnOf(names, log)
          BY <3>2, <4>2, PartIsOwn
        <4> QED
          BY <3>1, <3>3, <4>1, <4>3
      <3> DEFINE er == IF own.errors > 0 THEN Stats!One("error", own.errors) ELSE Stats!Empty
      <3>6. judged.all = own /\ judged.errors = er
        BY <3>2, <3>5, ScenarioFields
      <3>7. own.errors \in Nat
        BY <3>5 DEF IsLat
      <3> DEFINE k == own.errors
                 alone == Stats!Alone(own)
      <3>8. alone.all = own /\ alone.errors = Stats!One("error", k)
        BY DEF Stats!Alone, Stats!NewAggregator
      <3>9. Stats!Total(er) = k /\ Stats!Total(Stats!One("error", k)) = k
        BY <3>7, SingleTotal
      <3>10. B \in SUBSET Criteria /\ \A c \in B : c.metric \in BuiltIn
        BY DEF BuiltIn
      <3> HIDE DEF B, judged, er, alone, k
      <3>11. judged.all = alone.all /\ Stats!Total(judged.errors) = Stats!Total(alone.errors)
        BY <3>6, <3>8, <3>9
      <3>12. Stats!ValidateThresholds(judged, B) = Stats!ValidateThresholds(alone, B)
        BY <3>10, <3>11, IsolationIs
      <3> QED
        BY <3>6, <3>9, <3>12 DEF judged, alone, own, k
    <2> HIDE DEF B, whole
    <2> QED
      BY <2>2 DEF Stats!JudgedBySegments, Stats!ValidateScenarioThresholds, B, whole
  <1>2. Spec => []StatInv
    BY StatInvariant
  <1>3. Init => ScenarioInv
    BY ScenarioInit
  <1>4. StatInv /\ ScenarioInv /\ [Next]_commandVars => ScenarioInv'
    BY ScenarioStep
  <1> QED
    BY <1>1, <1>2, <1>3, <1>4, PTL DEF Spec

\* The durations the buckets of a histogram cover: from 1 to 2^32 - 1.
InBuckets(v) == v \in Nat \ {0} /\ \E p \in Stats!UnitSizes : v < 256 * p

\* The units are powers of two.
LEMMA UnitSizesAre ==
  /\ \A p \in Stats!UnitSizes : p \in Nat \ {0}
  /\ \A p, q \in Stats!UnitSizes : p < q => 2 * p <= q
  /\ \A p \in Stats!UnitSizes : p = 1 \/ \E q \in Stats!UnitSizes : p = 2 * q
  <1>1. \A p \in Stats!UnitSizes : p \in Nat \ {0}
    BY SMTT(60) DEF Stats!UnitSizes
  <1>2. \A p, q \in Stats!UnitSizes : p < q => 2 * p <= q
    BY SMTT(60) DEF Stats!UnitSizes
  <1>3. \A p \in Stats!UnitSizes : p = 1 \/ \E q \in Stats!UnitSizes : p = 2 * q
    BY SMTT(60) DEF Stats!UnitSizes
  <1> QED
    BY <1>1, <1>2, <1>3

\* The unit of a duration and its multiples.
LEMMA BucketBounds ==
  ASSUME NEW u \in Stats!UnitSizes, NEW v \in Nat
  PROVE  /\ v \div u \in Nat
         /\ (v \div u) * u <= v /\ v < (v \div u) * u + u
         /\ v \div u < 256 => (v \div u) * u + u <= 256 * u
         /\ v \div u >= 128 <=> 128 * u <= v
         /\ v \div u < 256 <=> v < 256 * u
  BY SMTT(60) DEF Stats!UnitSizes

\* The unit of a duration: 128 to 255 of them make it up, unless the unit is 1.
LEMMA UnitOf ==
  ASSUME NEW v, InBuckets(v)
  PROVE  /\ Stats!Unit(v) \in Stats!UnitSizes
         /\ v \div Stats!Unit(v) < 256
         /\ Stats!Unit(v) = 1 \/ v \div Stats!Unit(v) >= 128
  <1> DEFINE U == {u \in Stats!UnitSizes : v < 256 * u}
  <1>1. v \in Nat /\ U \in SUBSET Nat /\ U # {}
    BY UnitSizesAre DEF InBuckets
  <1>2. PICK u \in U : \A k \in U : u <= k
    BY <1>1, LeastNumber
  <1>3. u \in Stats!UnitSizes /\ v < 256 * u
    OBVIOUS
  <1>4. v \div u < 256
    BY <1>1, <1>3, BucketBounds
  <1>5. u = 1 \/ v \div u >= 128
    <2> SUFFICES ASSUME u # 1 PROVE v \div u >= 128
      OBVIOUS
    <2>1. PICK q \in Stats!UnitSizes : u = 2 * q
      <3>1. \A x \in Stats!UnitSizes : x = 1 \/ \E y \in Stats!UnitSizes : x = 2 * y
        BY UnitSizesAre
      <3> QED
        BY <1>3, <3>1
    <2>2. q \in Nat \ {0} /\ q < u
      <3>1. \A x \in Stats!UnitSizes : x \in Nat \ {0}
        BY UnitSizesAre
      <3> QED
        BY <2>1, <3>1
    <2>3. ~(v < 256 * q)
      <3>1. q \in U => u <= q
        BY <1>2
      <3> QED
        BY <1>1, <2>2, <3>1
    <2>4. 128 * u <= v
      BY <1>1, <2>1, <2>2, <2>3
    <2> QED
      BY <1>1, <1>3, <2>4, BucketBounds
  <1>6. \E p \in Stats!UnitSizes : v \div p < 256 /\ (p = 1 \/ v \div p >= 128)
    BY <1>3, <1>4, <1>5
  <1> QED
    BY <1>6 DEF Stats!Unit

\* Rounding down to a multiple of a unit keeps the order ...
LEMMA UnitMultiples ==
  ASSUME NEW u \in Stats!UnitSizes, NEW v \in Nat, NEW w \in Nat, v <= w
  PROVE  (v \div u) * u <= (w \div u) * u
  BY SMTT(60) DEF Stats!UnitSizes

\* ... and gives a number.
LEMMA UnitProducts ==
  ASSUME NEW u \in Stats!UnitSizes, NEW v \in Nat
  PROVE  (v \div u) * u \in Nat
  BY SMTT(60) DEF Stats!UnitSizes

\* A bucket holds its durations within one part in 128.
LEMMA BucketIs ==
  ASSUME NEW v, InBuckets(v)
  PROVE  /\ Stats!HighestEquivalent(v) \in Nat \ {0} /\ v <= Stats!HighestEquivalent(v)
         /\ 128 * (Stats!HighestEquivalent(v) - v) <= v
  <1> DEFINE u == Stats!Unit(v)
             q == (v \div u) * u
  <1>1. v \in Nat \ {0} /\ u \in Stats!UnitSizes /\ u \in Nat \ {0}
    BY UnitOf, UnitSizesAre DEF InBuckets
  <1>2. u = 1 \/ 128 * u <= v
    BY <1>1, UnitOf, BucketBounds
  <1>3. q \in Nat /\ q <= v /\ v < q + u
    BY <1>1, BucketBounds, UnitProducts
  <1>4. Stats!HighestEquivalent(v) = q + u - 1
    BY DEF Stats!HighestEquivalent, Stats!LowestEquivalent
  <1> HIDE DEF u, q
  <1> QED
    BY <1>1, <1>2, <1>3, <1>4

\* A longer duration is in no earlier bucket.
LEMMA BucketsInOrder ==
  ASSUME NEW v, InBuckets(v), NEW w, InBuckets(w), v <= w
  PROVE  Stats!HighestEquivalent(v) <= Stats!HighestEquivalent(w)
  <1> DEFINE u == Stats!Unit(v)
             t == Stats!Unit(w)
             q == (v \div u) * u
             r == (w \div t) * t
  <1>1. /\ v \in Nat /\ u \in Stats!UnitSizes /\ u \in Nat \ {0}
        /\ w \in Nat /\ t \in Stats!UnitSizes /\ t \in Nat \ {0}
    BY UnitOf, UnitSizesAre DEF InBuckets
  <1>2. (u = 1 \/ 128 * u <= v) /\ v < 256 * u /\ q + u <= 256 * u
    BY <1>1, UnitOf, BucketBounds
  <1>3. (t = 1 \/ 128 * t <= w) /\ w < 256 * t /\ r + t <= 256 * t
    BY <1>1, UnitOf, BucketBounds
  <1>4. q \in Nat /\ q <= v /\ v < q + u /\ r \in Nat /\ r <= w /\ w < r + t
    BY <1>1, BucketBounds, UnitProducts
  <1>5. Stats!HighestEquivalent(v) = q + u - 1 /\ Stats!HighestEquivalent(w) = r + t - 1
    BY DEF Stats!HighestEquivalent, Stats!LowestEquivalent
  <1>6. u = t => q <= r
    BY <1>1, UnitMultiples
  <1>7. (u < t => 2 * u <= t) /\ (t < u => 2 * t <= u)
    BY <1>1, UnitSizesAre
  <1> HIDE DEF u, t, q, r
  <1>8. CASE u = t
    BY <1>1, <1>4, <1>5, <1>6, <1>8
  <1>9. CASE u < t
    <2>1. 2 * u <= t /\ 128 * t <= w
      BY <1>1, <1>3, <1>7, <1>9
    <2>2. q + u <= w
      BY <1>1, <1>2, <1>4, <2>1
    <2> QED
      BY <1>1, <1>4, <1>5, <2>2
  <1>10. CASE t < u
    <2>1. 2 * t <= u /\ 128 * u <= v
      BY <1>1, <1>2, <1>7, <1>10
    <2>2. w < v
      BY <1>1, <1>3, <2>1
    <2> QED
      BY <1>1, <2>2
  <1> QED
    BY <1>1, <1>8, <1>9, <1>10

-----------------------------------------------------------------------------
(* Sums over tables that count.                                            *)

\* How many i have a value of x.
CountIn(b, x) == Cardinality({i \in DOMAIN b : b[i] \in x})

\* A table that says how many i have b[i] = k for each k sums up to how many
\* have b[i] among its keys.
LEMMA TotalCounts ==
  ASSUME NEW b, IsFiniteSet(DOMAIN b), NEW f, IsFiniteSet(DOMAIN f),
         \A k \in DOMAIN f : f[k] = CountIn(b, {k})
  PROVE  Stats!Total(f) = CountIn(b, DOMAIN f)
  <1> DEFINE D == DOMAIN f
             it == CHOOSE g : SumFold(g, f, D)
             count == [x \in SUBSET D |-> CountIn(b, x)]
  <1>1. ASSUME NEW x \in SUBSET D, NEW y \in x
        PROVE  CountIn(b, x) = f[y] + CountIn(b, x \ {y})
    <2> DEFINE A == {i \in DOMAIN b : b[i] \in {y}}
               B == {i \in DOMAIN b : b[i] \in x \ {y}}
    <2>1. {i \in DOMAIN b : b[i] \in x} = A \cup B /\ A \cap B = {}
      OBVIOUS
    <2>2. IsFiniteSet(A) /\ IsFiniteSet(B)
      BY FS_Subset
    <2>3. f[y] = Cardinality(A)
      BY DEF CountIn
    <2>4. CountIn(b, x \ {y}) = Cardinality(B) /\ CountIn(b, x) = Cardinality(A \cup B)
      BY <2>1 DEF CountIn
    <2> HIDE DEF A, B
    <2>5. Cardinality(A \cup B) = Cardinality(A) + Cardinality(B) - Cardinality(A \cap B)
      BY <2>2, FS_Union
    <2>6. Cardinality(A \cap B) = 0 /\ Cardinality(A) \in Nat /\ Cardinality(B) \in Nat
      BY <2>1, <2>2, FS_EmptySet, FS_CardinalityType
    <2> QED
      BY <2>3, <2>4, <2>5, <2>6
  <1>2. CountIn(b, {}) = 0
    <2>1. {i \in DOMAIN b : b[i] \in {}} = {}
      OBVIOUS
    <2> QED
      BY <2>1, FS_EmptySet DEF CountIn
  <1>3. SumFold(count, f, D)
    <2>1. ASSUME NEW x \in SUBSET D, x # {}
          PROVE  count[x] = f[CHOOSE y \in x : TRUE] + count[x \ {CHOOSE y \in x : TRUE}]
      <3> DEFINE y == CHOOSE z \in x : TRUE
      <3>1. y \in x
        BY <2>1
      <3> HIDE DEF y
      <3>2. CountIn(b, x) = f[y] + CountIn(b, x \ {y})
        BY <1>1, <3>1
      <3>3. count[x] = CountIn(b, x) /\ count[x \ {y}] = CountIn(b, x \ {y})
        OBVIOUS
      <3> HIDE DEF count
      <3> QED
        BY <3>2, <3>3 DEF y
    <2>2. count[{}] = 0 /\ count = [x \in SUBSET D |-> count[x]]
      BY <1>2
    <2> HIDE DEF count
    <2> QED
      BY <2>1, <2>2 DEF SumFold
  <1>4. SumFold(it, f, D)
    BY <1>3
  <1>5. Stats!Total(f) = it[D]
    BY TotalIsFold
  <1> HIDE DEF it, count
  <1> DEFINE T == {n \in Nat : \A x \in SUBSET D : Cardinality(x) = n => it[x] = CountIn(b, x)}
  <1>6. 0 \in T
    <2> SUFFICES ASSUME NEW x \in SUBSET D, Cardinality(x) = 0 PROVE it[x] = CountIn(b, x)
      OBVIOUS
    <2>1. x = {}
      BY FS_Subset, FS_EmptySet
    <2> QED
      BY <1>2, <1>4, <2>1 DEF SumFold
  <1>7. ASSUME NEW n \in Nat, n \in T PROVE n + 1 \in T
    <2> SUFFICES ASSUME NEW x \in SUBSET D, Cardinality(x) = n + 1 PROVE it[x] = CountIn(b, x)
      OBVIOUS
    <2> DEFINE y == CHOOSE z \in x : TRUE
    <2>1. x # {}
      BY FS_EmptySet
    <2>2. y \in x
      BY <2>1
    <2>3. it[x] = f[y] + it[x \ {y}]
      BY <1>4, <2>1 DEF SumFold
    <2> HIDE DEF y
    <2>4. IsFiniteSet(x)
      BY FS_Subset
    <2>5. Cardinality(x \ {y}) = n
      <3>1. Cardinality(x \ {y}) = Cardinality(x) - 1
        BY <2>2, <2>4, FS_RemoveElement
      <3> QED
        BY <3>1
    <2>6. it[x \ {y}] = CountIn(b, x \ {y})
      BY <1>7, <2>5
    <2> QED
      BY <1>1, <2>2, <2>3, <2>6
  <1> HIDE DEF T
  <1>8. Cardinality(D) \in T
    BY <1>6, <1>7, Induction, FS_CardinalityType
  <1> QED
    BY <1>5, <1>8 DEF T

\* The requests of a log.
ReqOf(l) == {i \in DOMAIN l : Stats!IsRequest(l[i])}
\* The requests that fit the histogram, and their buckets.
Timed(l) == {i \in ReqOf(l) : ~(Stats!Micros(l[i]) > HistMax)}
BucketsOf(l) == [i \in Timed(l) |-> Stats!HighestEquivalent(Stats!Micros(l[i]))]

\* What the latencies a say of the requests of l.
Describes(a, l) ==
  /\ a.total = Cardinality(ReqOf(l))
  /\ ReqOf(l) = {} => a.min = None /\ a.max = 0
  /\ ReqOf(l) # {} => /\ \E i \in ReqOf(l) : l[i].dur = a.min
                      /\ \E i \in ReqOf(l) : l[i].dur = a.max
                      /\ \A i \in ReqOf(l) : a.min <= l[i].dur /\ l[i].dur <= a.max
  /\ DOMAIN a.hist = {BucketsOf(l)[i] : i \in Timed(l)}
  /\ \A k : Stats!At(a.hist, k) = CountIn(BucketsOf(l), {k})

\* What a request took, and what the histogram is given of it.
LEMMA RequestsAre ==
  ASSUME NEW m \in Metrics, Stats!IsRequest(m)
  PROVE  /\ m.dur \in Nat /\ Stats!Micros(m) \in Nat \ {0}
         /\ Stats!Micros(m) = IF m.dur = 0 THEN 1 ELSE m.dur
  <1> DEFINE d == m.dur
  <1>1. d \in Nat
    BY MetricsAre DEF IsMetric, Stats!IsRequest
  <1>2. Stats!Micros(m) = Stats!Max({d, 1})
    BY DEF Stats!Micros
  <1> HIDE DEF d
  <1>3. Stats!Max({d, 1}) = IF d >= 1 THEN d ELSE 1
    BY <1>1, TwoOf
  <1>4. Stats!Micros(m) \in Nat \ {0} /\ Stats!Micros(m) = IF d = 0 THEN 1 ELSE d
    BY <1>1, <1>2, <1>3
  <1> QED
    BY <1>1, <1>4 DEF d

\* The buckets cover what a histogram takes.
LEMMA TakenIsInBuckets ==
  ASSUME HistMax \in Nat, NEW v \in Nat \ {0}, v <= HistMax PROVE InBuckets(v)
  <1>1. 16777216 \in Stats!UnitSizes
    BY SMT DEF Stats!UnitSizes
  <1>2. HistMax < 256 * 16777216
    BY HistogramAssumption, SMTT(60)
  <1>3. v < 256 * 16777216
    BY <1>2, SMT
  <1> QED
    BY <1>1, <1>3 DEF InBuckets

\* A request is joined to all, anything else is not.
LEMMA AllAdded ==
  ASSUME None \notin Nat, NEW w, IsAgg(w), NEW m, IsMetric(m)
  PROVE  Stats!Add(w, m).all = IF Stats!IsRequest(m) THEN Stats!Join(w.all, Once(m)) ELSE w.all
  <1> DEFINE a == w.all
             r == Stats!Add(w, m).all
             u == Unit(m).all
  <1>1. IsLat(a)
    BY AggCore DEF IsCore, Core
  <1>2. r = Stats!Join(a, u)
    BY AddIs DEF Core, Both
  <1>3. u = IF Stats!IsRequest(m) THEN Once(m) ELSE Stats!NoLatency
    BY DEF Unit, RequestUnit, Stats!IsRequest, Stats!IsIteration
  <1> HIDE DEF a, r, u
  <1>4. Stats!Join(a, Stats!NoLatency) = a
    BY <1>1, JoinNothing
  <1>5. r = IF Stats!IsRequest(m) THEN Stats!Join(a, Once(m)) ELSE a
    BY <1>2, <1>3, <1>4
  <1> QED
    BY <1>5 DEF a, r

\* A sequence with one more element.
LEMMA SeqAppend ==
  ASSUME NEW D, NEW l \in Seq(D), NEW m \in D
  PROVE  /\ Append(l, m) \in Seq(D) /\ DOMAIN Append(l, m) = DOMAIN l \cup {Len(l) + 1}
         /\ Len(l) + 1 \notin DOMAIN l /\ Append(l, m)[Len(l) + 1] = m
         /\ \A i \in DOMAIN l : Append(l, m)[i] = l[i]
         /\ IsFiniteSet(DOMAIN l)
  <1>1. Append(l, m) \in Seq(D) /\ Len(Append(l, m)) = Len(l) + 1 /\ Len(l) \in Nat
        /\ DOMAIN l = 1 .. Len(l) /\ DOMAIN Append(l, m) = 1 .. (Len(l) + 1)
        /\ Append(l, m)[Len(l) + 1] = m
        /\ \A i \in 1 .. Len(l) : Append(l, m)[i] = l[i]
    OBVIOUS
  <1>2. IsFiniteSet(1 .. Len(l))
    BY <1>1, FS_Interval
  <1>3. 1 .. (Len(l) + 1) = 1 .. Len(l) \cup {Len(l) + 1} /\ Len(l) + 1 \notin 1 .. Len(l)
    BY <1>1
  <1> QED
    BY <1>1, <1>2, <1>3

\* One more request.
LEMMA DescribesStep ==
  ASSUME None \notin Nat, NEW w, IsAgg(w), NEW l \in Seq(Metrics), NEW m \in Metrics,
         Describes(w.all, l)
  PROVE  Describes(Stats!Add(w, m).all, Append(l, m))
  <1> DEFINE a == w.all
             e == Append(l, m)
             n == Len(l) + 1
             r == Stats!Add(w, m).all
  <1>1. /\ DOMAIN e = DOMAIN l \cup {n} /\ n \notin DOMAIN l /\ e[n] = m
        /\ \A i \in DOMAIN l : e[i] = l[i]
        /\ IsFiniteSet(DOMAIN l)
    <2> QED
      BY SeqAppend
  <1>2. IsLat(a) /\ IsMetric(m)
    BY AggCore, MetricsAre DEF IsCore, Core
  <1>3. r = IF Stats!IsRequest(m) THEN Stats!Join(a, Once(m)) ELSE a
    BY <1>2, AllAdded
  <1>4. /\ Stats!IsRequest(m) => m.dur \in Nat /\ Stats!Micros(m) \in Nat \ {0}
        /\ \A i \in ReqOf(l) : l[i].dur \in Nat
    <2>1. \A i \in DOMAIN l : l[i] \in Metrics
      BY SeqType
    <2> QED
      BY <2>1, RequestsAre DEF ReqOf
  <1> HIDE DEF a, e, n, r
  <1>5. Describes(a, l)
    BY DEF a
  <1>6. /\ ReqOf(l) \subseteq DOMAIN l /\ Timed(l) \subseteq ReqOf(l)
        /\ IsFiniteSet(ReqOf(l)) /\ IsFiniteSet(Timed(l))
    <2>1. ReqOf(l) \subseteq DOMAIN l /\ Timed(l) \subseteq ReqOf(l)
      BY DEF ReqOf, Timed
    <2> QED
      BY <1>1, <2>1, FS_Subset
  <1>7. CASE ~Stats!IsRequest(m)
    <2>1. ReqOf(e) = ReqOf(l)
      BY <1>1, <1>7 DEF ReqOf
    <2>2. Timed(e) = Timed(l)
      BY <1>1, <1>6, <2>1 DEF Timed
    <2>3. BucketsOf(e) = BucketsOf(l)
      BY <1>1, <1>6, <2>2 DEF BucketsOf
    <2>4. \A i \in ReqOf(l) : e[i] = l[i]
      BY <1>1, <1>6
    <2>5. r = a
      BY <1>3, <1>7
    <2>6. Describes(a, e)
      <3> DEFINE R == ReqOf(l)
                 T == Timed(l)
                 b == BucketsOf(l)
      <3> HIDE DEF R, T, b
      <3>1. ReqOf(e) = R /\ Timed(e) = T /\ BucketsOf(e) = b /\ \A i \in R : e[i].dur = l[i].dur
        BY <2>1, <2>2, <2>3, <2>4 DEF R, T, b
      <3>2. /\ a.total = Cardinality(R)
            /\ DOMAIN a.hist = {b[i] : i \in T}
            /\ \A k : Stats!At(a.hist, k) = CountIn(b, {k})
        BY <1>5 DEF Describes, R, T, b
      <3>3. R = {} => a.min = None /\ a.max = 0
        BY <1>5 DEF Describes, R
      <3>4. R # {} => /\ \E i \in R : l[i].dur = a.min
                      /\ \E i \in R : l[i].dur = a.max
                      /\ \A i \in R : a.min <= l[i].dur /\ l[i].dur <= a.max
        BY <1>5 DEF Describes, R
      <3>5. R # {} => /\ \E i \in R : e[i].dur = a.min
                      /\ \E i \in R : e[i].dur = a.max
                      /\ \A i \in R : a.min <= e[i].dur /\ e[i].dur <= a.max
        BY <3>1, <3>4
      <3> QED
        BY <3>1, <3>2, <3>3, <3>5 DEF Describes
    <2> QED
      BY <2>5, <2>6 DEF e, r
  <1>8. CASE Stats!IsRequest(m)
    <2> DEFINE d == m.dur
               o == Once(m)
               fits == ~(Stats!Micros(m) > HistMax)
               hb == Stats!HighestEquivalent(Stats!Micros(m))
               R == ReqOf(l)
    <2>1. /\ ReqOf(e) = R \cup {n} /\ n \notin R
          /\ Timed(e) = IF fits THEN Timed(l) \cup {n} ELSE Timed(l)
          /\ n \notin Timed(l) /\ \A i \in R : e[i] = l[i]
      <3>1. ReqOf(e) = R \cup {n}
        BY <1>1, <1>8 DEF ReqOf
      <3>2. n \notin R /\ \A i \in R : e[i] = l[i]
        BY <1>1, <1>6
      <3>3. \A i : i \in Timed(e) <=> i \in Timed(l) \/ (fits /\ i = n)
        BY <1>1, <3>1, <3>2 DEF Timed
      <3>4. n \notin Timed(l)
        BY <1>6, <3>2
      <3> HIDE DEF fits, R
      <3>5. CASE fits
        <4>1. Timed(e) = Timed(l) \cup {n}
          BY <3>3, <3>5
        <4> QED
          BY <3>1, <3>2, <3>4, <3>5, <4>1
      <3>6. CASE ~fits
        <4>1. Timed(e) = Timed(l)
          BY <3>3, <3>6
        <4> QED
          BY <3>1, <3>2, <3>4, <3>6, <4>1
      <3> QED
        BY <3>5, <3>6
    <2>2. d \in Nat /\ \A i \in R : l[i].dur \in Nat
      BY <1>4, <1>8
    <2>3. r = Stats!Join(a, o) /\ IsLat(o)
      BY <1>3, <1>8, <2>2, OnceIs
    <2>4. /\ r.total = a.total + 1 /\ r.min = Stats!Smaller(a.min, d)
          /\ r.max = Stats!Max({a.max, d}) /\ r.hist = Stats!Plus(a.hist, o.hist)
      BY <2>3 DEF Stats!Join, Stats!JoinMin, Once
    <2>5. a.total = Cardinality(R) /\ a.max \in Nat /\ a.min \in Times
      BY <1>2, <1>5 DEF Describes, IsLat
    <2>6. r.total = Cardinality(ReqOf(e))
      BY <1>6, <2>1, <2>4, <2>5, FS_AddElement
    <2>7. r.max = (IF a.max >= d THEN a.max ELSE d)
          /\ r.min = (IF a.min = None THEN d ELSE IF a.min <= d THEN a.min ELSE d)
      <3>1. r.max = (IF a.max >= d THEN a.max ELSE d)
        BY <2>2, <2>4, <2>5, TwoOf
      <3>2. a.min \in Nat => Stats!Min({a.min, d}) = (IF a.min <= d THEN a.min ELSE d)
        BY <2>2, TwoOf
      <3>3. d # None
        BY <2>2
      <3> QED
        BY <2>4, <2>5, <3>1, <3>2, <3>3 DEF Stats!Smaller, Times
    <2>8. ReqOf(e) # {} /\ e[n].dur = d
      BY <1>1, <2>1
    <2>9. /\ \E i \in ReqOf(e) : e[i].dur = r.min
          /\ \E i \in ReqOf(e) : e[i].dur = r.max
          /\ \A i \in ReqOf(e) : r.min <= e[i].dur /\ e[i].dur <= r.max
      <3>1. CASE R = {}
        <4>1. a.min = None /\ a.max = 0
          BY <1>5, <3>1 DEF Describes
        <4>2. r.min = d /\ r.max = d
          BY <2>2, <2>7, <4>1
        <4> QED
          BY <2>1, <2>2, <2>8, <3>1, <4>2
      <3>2. CASE R # {}
        <4>1. /\ \E i \in R : l[i].dur = a.min
              /\ \E i \in R : l[i].dur = a.max
              /\ \A i \in R : a.min <= l[i].dur /\ l[i].dur <= a.max
          BY <1>5, <3>2 DEF Describes
        <4>2. a.min \in Nat /\ a.min # None
          BY <2>2, <4>1
        <4> HIDE DEF d, R
        <4>3. r.min \in Nat /\ r.max \in Nat /\ r.min <= d /\ r.min <= a.min /\ d <= r.max
              /\ a.max <= r.max /\ r.min \in {a.min, d} /\ r.max \in {a.max, d}
          BY <2>2, <2>5, <2>7, <4>2
        <4>4. \A i \in R : e[i].dur = l[i].dur
          BY <2>1
        <4>5. (\E i \in ReqOf(e) : e[i].dur = r.min) /\ (\E i \in ReqOf(e) : e[i].dur = r.max)
          BY <2>1, <2>8, <4>1, <4>3, <4>4
        <4>6. ASSUME NEW i \in ReqOf(e) PROVE r.min <= e[i].dur /\ e[i].dur <= r.max
          <5>1. CASE i = n
            BY <2>8, <4>3, <5>1
          <5>2. CASE i \in R
            BY <2>2, <2>5, <4>1, <4>2, <4>3, <4>4, <5>2
          <5> QED
            BY <2>1, <5>1, <5>2
        <4> QED
          BY <4>5, <4>6
      <3> QED
        BY <3>1, <3>2
    <2>10. o.hist = IF fits THEN Stats!One(hb, 1) ELSE Stats!Empty
      <3>1. o.hist = Stats!Recorded(Stats!Empty, Stats!Micros(m))
        BY DEF Once, Stats!Micros
      <3>2. IsTab(Stats!One(hb, 1))
        BY SmallTabs
      <3>3. Stats!Plus(Stats!Empty, Stats!One(hb, 1)) = Stats!One(hb, 1)
        BY <3>2, PlusEmpty
      <3> QED
        BY <3>1, <3>3 DEF Stats!Recorded
    <2>11. IsTab(a.hist) /\ IsTab(o.hist)
      BY <1>2, <2>3 DEF IsLat
    <2>12. /\ DOMAIN r.hist = DOMAIN a.hist \cup DOMAIN o.hist
           /\ \A k : Stats!At(r.hist, k) = Stats!At(a.hist, k) + Stats!At(o.hist, k)
      <3> DEFINE f == a.hist
                 g == o.hist
      <3> HIDE DEF f, g
      <3>1. IsTab(f) /\ IsTab(g)
        BY <2>11 DEF f, g
      <3>2. /\ DOMAIN Stats!Plus(f, g) = DOMAIN f \cup DOMAIN g
            /\ \A k : Stats!At(Stats!Plus(f, g), k) = Stats!At(f, k) + Stats!At(g, k)
        BY <3>1, PlusIs
      <3> QED
        BY <2>4, <3>2 DEF f, g
    <2>13. /\ \A i \in Timed(l) : BucketsOf(e)[i] = BucketsOf(l)[i]
           /\ fits => BucketsOf(e)[n] = hb
           /\ DOMAIN BucketsOf(e) = Timed(e) /\ DOMAIN BucketsOf(l) = Timed(l)
      BY <1>1, <1>6, <2>1 DEF BucketsOf
    <2>14. DOMAIN a.hist = {BucketsOf(l)[i] : i \in Timed(l)}
           /\ \A k : Stats!At(a.hist, k) = CountIn(BucketsOf(l), {k})
      BY <1>5 DEF Describes
    <2> HIDE DEF d, o, hb, fits, R
    <2>15. DOMAIN r.hist = {BucketsOf(e)[i] : i \in Timed(e)}
      <3>1. DOMAIN o.hist = IF fits THEN {hb} ELSE {}
        BY <2>10 DEF Stats!One, Stats!Empty
      <3> QED
        BY <2>1, <2>12, <2>13, <2>14, <3>1
    <2>16. ASSUME NEW k PROVE Stats!At(r.hist, k) = CountIn(BucketsOf(e), {k})
      <3> DEFINE A == {i \in DOMAIN BucketsOf(l) : BucketsOf(l)[i] \in {k}}
                 B == {i \in DOMAIN BucketsOf(e) : BucketsOf(e)[i] \in {k}}
      <3>1. Stats!At(a.hist, k) = Cardinality(A) /\ CountIn(BucketsOf(e), {k}) = Cardinality(B)
        BY <2>14 DEF CountIn
      <3>2. IsFiniteSet(A) /\ n \notin A
        BY <1>6, <2>1, <2>13, FS_Subset
      <3>3. B = IF fits /\ hb = k THEN A \cup {n} ELSE A
        BY <2>1, <2>13
      <3>4. Stats!At(o.hist, k) = IF fits /\ hb = k THEN 1 ELSE 0
        BY <2>10 DEF Stats!At, Stats!One, Stats!Empty
      <3> HIDE DEF A, B
      <3>5. Cardinality(A) \in Nat /\ Cardinality(A \cup {n}) = Cardinality(A) + 1
        BY <3>2, FS_AddElement, FS_CardinalityType
      <3> QED
        BY <2>12, <3>1, <3>3, <3>4, <3>5
    <2> QED
      BY <2>6, <2>8, <2>9, <2>15, <2>16 DEF Describes, e, r
  <1> QED
    BY <1>7, <1>8

\* One aggregator that saw the log describes its requests.
ReportInv == Describes(Folded("add", None, log).all, log)

\* It describes them before the first metric ...
LEMMA ReportInit == ASSUME Init PROVE ReportInv
  <1> DEFINE a == Stats!NoLatency
             l == log
  <1>1. l = <<>>
    BY DEF Init, Stats!StatInit
  <1>2. Folded("add", None, l).all = a
    BY <1>1, FoldedNothing DEF Start, Stats!NewAggregator
  <1>3. ReqOf(l) = {} /\ Timed(l) = {} /\ DOMAIN BucketsOf(l) = {}
    BY <1>1 DEF ReqOf, Timed, BucketsOf
  <1>4. Cardinality({}) = 0
    BY FS_EmptySet
  <1>5. \A k : CountIn(BucketsOf(l), {k}) = 0
    <2>1. \A k : {i \in DOMAIN BucketsOf(l) : BucketsOf(l)[i] \in {k}} = {}
      BY <1>3
    <2> QED
      BY <1>4, <2>1 DEF CountIn
  <1>6. /\ a.total = 0 /\ a.min = None /\ a.max = 0
        /\ DOMAIN a.hist = {} /\ \A k : Stats!At(a.hist, k) = 0
    BY DEF Stats!NoLatency, Stats!Empty, Stats!At
  <1> HIDE DEF a, l
  <1>7. Describes(a, l)
    BY <1>3, <1>4, <1>5, <1>6 DEF Describes
  <1> QED
    BY <1>2, <1>7 DEF ReportInv, l

\* ... and after each.
LEMMA ReportStep ==
  ASSUME Shards \in Nat, None \notin Nat, StatInv, ReportInv, [Next]_commandVars
  PROVE  ReportInv'
  <1>1. CASE UNCHANGED stats
    BY <1>1 DEF ReportInv, stats
  <1>2. ASSUME NEW m \in Metrics, NEW i \in 1 .. Shards, Stats!AddMetric(m, i)
        PROVE  ReportInv'
    <2> DEFINE l == log
               e == log'
               w == Folded("add", None, l)
    <2>1. e = Append(l, m) /\ l \in Seq(Metrics)
      BY <1>2 DEF Stats!AddMetric, StatInv
    <2>2. IsAgg(w) /\ Describes(w.all, l)
      BY DEF StatInv, ReportInv
    <2> HIDE DEF l, e
    <2>3. Folded("add", None, e) = Step("add", None, w, m)
      BY <2>1, FoldedAppend
    <2>4. Step("add", None, w, m) = Stats!Add(w, m)
      BY DEF Step
    <2> HIDE DEF w
    <2>5. Describes(Stats!Add(w, m).all, Append(l, m))
      BY <2>1, <2>2, DescribesStep
    <2>6. Describes(Folded("add", None, e).all, e)
      BY <2>1, <2>3, <2>4, <2>5
    <2> QED
      BY <2>6 DEF ReportInv, e
  <1>3. Counting \/ UNCHANGED stats
    BY DEF Next, Scheduled, MainThread, TuiThread, TuiQuits, UserAnswers, Watching, Editing, Recording,
           commandVars
  <1> QED
    BY <1>1, <1>2, <1>3 DEF Counting, Stats!StatNext

\* What the merge of the shards says of the requests.
LEMMA MergedDescribes ==
  ASSUME Shards \in Nat, None \notin Nat, StatInv, ReportInv
  PROVE  /\ Describes(Stats!Merge(shard).all, log) /\ IsLat(Stats!Merge(shard).all)
         /\ IsAgg(Stats!Merge(shard))
         /\ Stats!Requests = ReqOf(log) /\ IsFiniteSet(ReqOf(log))
         /\ \A i \in ReqOf(log) : /\ log[i].dur \in Nat /\ Stats!Micros(log[i]) \in Nat \ {0}
                                  /\ Stats!Micros(log[i])
                                       = IF log[i].dur = 0 THEN 1 ELSE log[i].dur
  <1> DEFINE g == Stats!Merge(shard)
             w == Stats!FoldLeft(Stats!Add, Stats!NewAggregator, log)
  <1>1. Len(log) \in Nat /\ DOMAIN log = 1 .. Len(log) /\ \A k \in DOMAIN log : log[k] \in Metrics
    BY SeqType DEF StatInv
  <1>2. w = Folded("add", None, log)
    BY <1>1, WholeIsFolded
  <1>3. IsAgg(g) /\ Core(g) = Core(w)
    BY MergedShards
  <1> HIDE DEF g, w
  <1>4. g.all = w.all
    BY <1>3 DEF Core
  <1>5. IsLat(g.all)
    BY <1>3, AggCore DEF IsCore, Core
  <1>6. Describes(g.all, log)
    BY <1>2, <1>4 DEF ReportInv
  <1>7. Stats!Requests = ReqOf(log)
    BY DEF Stats!Requests, ReqOf
  <1>8. IsFiniteSet(ReqOf(log))
    <2>1. ReqOf(log) \subseteq 1 .. Len(log)
      BY <1>1 DEF ReqOf
    <2>2. IsFiniteSet(1 .. Len(log))
      BY <1>1, FS_Interval
    <2> QED
      BY <2>1, <2>2, FS_Subset
  <1>9. \A i \in ReqOf(log) : /\ log[i].dur \in Nat /\ Stats!Micros(log[i]) \in Nat \ {0}
                              /\ Stats!Micros(log[i]) = IF log[i].dur = 0 THEN 1 ELSE log[i].dur
    BY <1>1, RequestsAre DEF ReqOf
  <1> QED
    BY <1>3, <1>5, <1>6, <1>7, <1>8, <1>9 DEF g

-----------------------------------------------------------------------------
\* A table that counts how often each value of b occurs, and nothing else.
Counts(h, b) ==
  DOMAIN h = {b[i] : i \in DOMAIN b} /\ \A k \in DOMAIN h : h[k] = CountIn(b, {k})

\* The histogram up to a value.
UpTo(h, v) == [w \in {x \in DOMAIN h : x <= v} |-> h[w]]

\* Its total is the number of requests in a bucket up to that value.
LEMMA TotalUpTo ==
  ASSUME NEW b, IsFiniteSet(DOMAIN b), NEW h, IsFiniteSet(DOMAIN h), Counts(h, b)
  PROVE  /\ Stats!Total(h) = Cardinality(DOMAIN b)
         /\ \A v : Stats!Total(UpTo(h, v)) = Cardinality({i \in DOMAIN b : b[i] <= v})
  <1>1. Stats!Total(h) = Cardinality(DOMAIN b)
    <2>1. Stats!Total(h) = CountIn(b, DOMAIN h)
      BY TotalCounts DEF Counts
    <2>2. {i \in DOMAIN b : b[i] \in DOMAIN h} = DOMAIN b
      BY DEF Counts
    <2> QED
      BY <2>1, <2>2 DEF CountIn
  <1>2. ASSUME NEW v PROVE Stats!Total(UpTo(h, v)) = Cardinality({i \in DOMAIN b : b[i] <= v})
    <2> DEFINE f == UpTo(h, v)
    <2>1. DOMAIN f = {x \in DOMAIN h : x <= v} /\ \A k \in DOMAIN f : f[k] = h[k]
      BY DEF UpTo
    <2> HIDE DEF f
    <2>2. IsFiniteSet(DOMAIN f)
      BY <2>1, FS_Subset
    <2>3. \A k \in DOMAIN f : f[k] = CountIn(b, {k})
      BY <2>1 DEF Counts
    <2>4. Stats!Total(f) = CountIn(b, DOMAIN f)
      BY <2>2, <2>3, TotalCounts
    <2>5. {i \in DOMAIN b : b[i] \in DOMAIN f} = {i \in DOMAIN b : b[i] <= v}
      BY <2>1 DEF Counts
    <2> QED
      BY <2>4, <2>5 DEF CountIn, f
  <1> QED
    BY <1>1, <1>2

\* The rank of the percentile among n requests.
LEMMA RankIs ==
  ASSUME NEW n \in Nat \ {0}
  PROVE  LET q == Stats!Max({1, (95 * n + 99) \div 100})
         IN  /\ q \in Nat /\ q <= n /\ 100 * q >= 95 * n
             /\ \A c \in Nat : c < q => 100 * c < 95 * n
  <1> DEFINE q == (95 * n + 99) \div 100
  <1>1. q \in Nat /\ 100 * q <= 95 * n + 99 /\ 95 * n + 99 < 100 * q + 100
    OBVIOUS
  <1> DEFINE r == Stats!Max({1, q})
  <1>2. r = IF 1 >= q THEN 1 ELSE q
    BY <1>1, TwoOf
  <1> HIDE DEF q
  <1>3. q >= 1
    BY <1>1
  <1>4. r = q
    BY <1>1, <1>2, <1>3
  <1>5. q <= n /\ 100 * q >= 95 * n /\ \A c \in Nat : c < q => 100 * c < 95 * n
    BY <1>1
  <1> HIDE DEF r
  <1>6. /\ r \in Nat /\ r <= n /\ 100 * r >= 95 * n
        /\ \A c \in Nat : c < r => 100 * c < 95 * n
    BY <1>1, <1>4, <1>5
  <1> QED
    BY <1>6 DEF r, q

\* value_at_quantile of hdrhistogram: the first bucket that reaches the rank.
LEMMA QuantileIs ==
  ASSUME NEW h, NEW percent
  PROVE  LET q == Stats!Max({1, (percent * Stats!Total(h) + 99) \div 100})
             reach == {v \in DOMAIN h : Stats!Total(UpTo(h, v)) >= q}
         IN  Stats!ValueAtQuantile(h, percent) = IF reach = {} THEN 0 ELSE Stats!Min(reach)
  BY DEF Stats!ValueAtQuantile, UpTo

\* The least of a set of numbers.
LEMMA Smallest ==
  ASSUME NEW x \in SUBSET Nat, x # {}
  PROVE  Stats!Min(x) \in x /\ \A y \in x : Stats!Min(x) <= y
  <1>1. \E m \in x : \A y \in x : m <= y
    BY LeastNumber
  <1> QED
    BY <1>1 DEF Stats!Min

\* The durations d and their buckets b: longer durations are in no earlier one.
Bucketed(d, b, bound) ==
  /\ IsFiniteSet(DOMAIN b) /\ DOMAIN b # {} /\ DOMAIN d = DOMAIN b /\ bound \in Nat
  /\ \A i \in DOMAIN b : d[i] \in Nat /\ b[i] \in Nat \ {0} /\ d[i] <= b[i] /\ b[i] <= bound
  /\ \A i, j \in DOMAIN b : d[i] <= d[j] => b[i] <= b[j]

\* The 95th percentile is the bucket of a request of that rank.
LEMMA PercentileIs ==
  ASSUME NEW d, NEW b, NEW bound, Bucketed(d, b, bound), NEW h, Counts(h, b)
  PROVE  LET p == Stats!ValueAtQuantile(h, 95)
             R == DOMAIN b
         IN  \E i \in R : /\ b[i] = p
                          /\ 100 * Cardinality({j \in R : d[j] <= p}) >= 95 * Cardinality(R)
                          /\ 100 * Cardinality({j \in R : d[j] < d[i]}) < 95 * Cardinality(R)
  <1> DEFINE R == DOMAIN b
             D == DOMAIN h
             n == Cardinality(R)
             Below(v) == {j \in R : b[j] <= v}
             t == Stats!Total(h)
             q == Stats!Max({1, (95 * n + 99) \div 100})
             reach == {v \in D : Stats!Total(UpTo(h, v)) >= q}
             p == Stats!ValueAtQuantile(h, 95)
  <1>1. /\ IsFiniteSet(R) /\ R # {} /\ bound \in Nat
        /\ \A i \in R : d[i] \in Nat /\ b[i] \in Nat \ {0} /\ d[i] <= b[i] /\ b[i] <= bound
        /\ \A i, j \in R : d[i] <= d[j] => b[i] <= b[j]
    BY DEF Bucketed
  <1>2. D = {b[i] : i \in R} /\ D \in SUBSET (1 .. bound) /\ D # {}
    BY <1>1 DEF Counts
  <1>3. IsFiniteSet(D)
    <2>1. IsFiniteSet(1 .. bound)
      BY <1>1, FS_Interval
    <2> HIDE DEF D
    <2> QED
      BY <1>2, <2>1, FS_Subset
  <1>4. t = n /\ \A v : Stats!Total(UpTo(h, v)) = Cardinality(Below(v))
    BY <1>1, <1>3, TotalUpTo
  <1>5. n \in Nat \ {0}
    BY <1>1, FS_CardinalityType, FS_EmptySet
  <1>6. /\ q \in Nat /\ q <= n /\ 100 * q >= 95 * n
        /\ \A c \in Nat : c < q => 100 * c < 95 * n
    <2> HIDE DEF n
    <2> QED
      BY <1>5, RankIs
  <1>7. p = IF reach = {} THEN 0 ELSE Stats!Min(reach)
    <2>1. p = LET qq == Stats!Max({1, (95 * t + 99) \div 100})
                  rr == {v \in D : Stats!Total(UpTo(h, v)) >= qq}
              IN  IF rr = {} THEN 0 ELSE Stats!Min(rr)
      BY QuantileIs
    <2> QED
      BY <1>4, <2>1
  <1> HIDE DEF R, D, n, t, q, p
  <1>8. \A v : IsFiniteSet(Below(v)) /\ Cardinality(Below(v)) \in Nat
    <2>1. \A v : Below(v) \subseteq R
      OBVIOUS
    <2> HIDE DEF Below
    <2> QED
      BY <1>1, <2>1, FS_Subset, FS_CardinalityType
  <1>9. reach = {v \in D : Cardinality(Below(v)) >= q}
    BY <1>4
  <1>10. reach # {}
    <2> DEFINE m == Stages!Max(D)
    <2>1. m \in D /\ \A y \in D : y <= m
      BY <1>1, <1>2, MaxOf
    <2> HIDE DEF m
    <2>2. Below(m) = R
      BY <1>2, <2>1
    <2> HIDE DEF Below, reach
    <2>3. Cardinality(Below(m)) >= q
      BY <1>6, <2>2 DEF n
    <2> QED
      BY <1>9, <2>1, <2>3
  <1>11. p \in reach /\ \A y \in reach : p <= y
    <2>1. reach \in SUBSET Nat
      BY <1>2
    <2> HIDE DEF reach
    <2> QED
      BY <1>7, <1>10, <2>1, Smallest
  <1>12. p \in D /\ p \in Nat /\ Cardinality(Below(p)) >= q
         /\ \A v \in D : v < p => Cardinality(Below(v)) < q
    <2>1. p \in D /\ p \in Nat
      BY <1>2, <1>11
    <2> HIDE DEF Below
    <2>2. Cardinality(Below(p)) >= q
      BY <1>9, <1>11
    <2>3. ASSUME NEW v \in D, v < p PROVE Cardinality(Below(v)) < q
      <3>1. v \notin reach
        <4>1. v \in Nat
          BY <1>2
        <4> HIDE DEF reach
        <4> QED
          BY <1>11, <2>1, <2>3, <4>1
      <3>2. ~(Cardinality(Below(v)) >= q)
        BY <1>9, <3>1
      <3> QED
        BY <1>6, <1>8, <3>2
    <2> QED
      BY <2>1, <2>2, <2>3
  <1> HIDE DEF reach
  <1> DEFINE U == {d[j] : j \in {k \in R : b[k] = p}}
  <1>13. PICK i \in R : b[i] = p /\ \A j \in R : b[j] = p => d[i] <= d[j]
    <2>1. U \in SUBSET Nat /\ U # {}
      BY <1>1, <1>2, <1>12
    <2>2. PICK m \in U : \A y \in U : m <= y
      BY <2>1, LeastNumber
    <2> QED
      BY <2>2
  <1> HIDE DEF U
  <1> DEFINE A == {j \in R : d[j] <= p}
             L == {j \in R : d[j] < d[i]}
  <1>14. 100 * Cardinality(A) >= 95 * n
    <2>1. Below(p) \subseteq A
      BY <1>1, <1>12
    <2>2. IsFiniteSet(A)
      BY <1>1, FS_Subset
    <2> HIDE DEF A, Below
    <2>3. Cardinality(Below(p)) <= Cardinality(A) /\ Cardinality(A) \in Nat
      BY <2>1, <2>2, FS_Subset, FS_CardinalityType
    <2> QED
      BY <1>5, <1>6, <1>8, <1>12, <2>3
  <1>15. ASSUME NEW j \in L PROVE b[j] \in D /\ b[j] < p
    <2>1. d[j] \in Nat /\ d[i] \in Nat /\ b[j] \in Nat /\ d[j] < d[i] /\ j \in R
      BY <1>1
    <2>2. b[j] <= p /\ b[j] # p
      BY <1>1, <1>13, <2>1
    <2> QED
      BY <1>2, <1>12, <2>1, <2>2
  <1>16. 100 * Cardinality(L) < 95 * n
    <2>1. CASE L = {}
      <3>1. Cardinality(L) = 0
        BY <2>1, FS_EmptySet
      <3> HIDE DEF L
      <3> QED
        BY <1>5, <3>1
    <2>2. CASE L # {}
      <3> DEFINE E == {x \in D : x < p}
                 m == Stages!Max(E)
      <3>1. E \in SUBSET (1 .. bound) /\ E # {}
        BY <1>2, <1>15, <2>2
      <3>2. m \in E /\ \A y \in E : y <= m
        <4> HIDE DEF E
        <4> QED
          BY <1>1, <3>1, MaxOf
      <3> HIDE DEF m
      <3>3. m \in D /\ m < p
        BY <3>2
      <3>4. \A j \in L : b[j] <= m
        BY <1>15, <3>2
      <3>5. L \subseteq Below(m)
        BY <3>4
      <3> HIDE DEF L, E, Below
      <3>6. Cardinality(L) <= Cardinality(Below(m)) /\ Cardinality(L) \in Nat
        BY <1>8, <3>5, FS_Subset, FS_CardinalityType
      <3>7. Cardinality(Below(m)) < q
        BY <1>12, <3>3
      <3>8. Cardinality(L) < q
        BY <1>6, <1>8, <3>6, <3>7
      <3> QED
        BY <1>6, <3>6, <3>8
    <2> QED
      BY <2>1, <2>2
  <1> QED
    BY <1>13, <1>14, <1>16 DEF R, n, p

\* What is in a set and bounds it is its least or its largest member.
LEMMA Extremes ==
  ASSUME NEW x \in SUBSET Nat, NEW lo \in x, NEW hi \in x, \A y \in x : lo <= y /\ y <= hi
  PROVE  Stats!Min(x) = lo /\ Stats!Max(x) = hi
  <1>1. Stats!Min(x) \in x /\ \A y \in x : Stats!Min(x) <= y
    BY Smallest
  <1>2. \E m \in x : \A y \in x : m >= y
    <2>1. \A y \in x : hi >= y
      OBVIOUS
    <2> QED
      BY <2>1
  <1>3. Stats!Max(x) \in x /\ \A y \in x : Stats!Max(x) >= y
    BY <1>2 DEF Stats!Max
  <1>4. \A a, b \in Nat : a <= b /\ b <= a => a = b
    OBVIOUS
  <1>5. Stats!Min(x) \in Nat /\ lo <= Stats!Min(x) /\ Stats!Min(x) <= lo
    BY <1>1
  <1>6. Stats!Max(x) \in Nat /\ Stats!Max(x) <= hi /\ hi <= Stats!Max(x)
    BY <1>3
  <1> QED
    BY <1>4, <1>5, <1>6

\* Statistics and its proofs speak of the same number of elements.
LEMMA SameCardinality == ASSUME NEW x PROVE Stats!Cardinality(x) = Cardinality(x)
  BY DEF Stats!Cardinality, Cardinality

\* What the report says of the requests R of a log.
Fastest(R, l) == Stats!Min({l[i].dur : i \in R})
Slowest(R, l) == Stats!Max({l[i].dur : i \in R})
AtMost(R, l, p) == Stats!Cardinality({j \in R : Stats!Micros(l[j]) <= p})
Before(R, l, i) == Stats!Cardinality({j \in R : Stats!Micros(l[j]) < Stats!Micros(l[i])})

ReportSays(a, R, l, p) ==
  /\ a.total = Stats!Cardinality(R)
  /\ R # {} => a.min = Fastest(R, l) /\ a.max = Slowest(R, l)
  /\ R # {} /\ a.max <= HistMax =>
       \E i \in R :
         /\ Stats!Micros(l[i]) <= p /\ 128 * (p - Stats!Micros(l[i])) <= Stats!Micros(l[i])
         /\ 100 * AtMost(R, l, p) >= 95 * Stats!Cardinality(R)
         /\ 100 * Before(R, l, i) < 95 * Stats!Cardinality(R)

\* A description of the requests, in buckets, makes the report one of the requests.
LEMMA ReportOf ==
  ASSUME Shards \in Nat, None \notin Nat, HistMax \in Nat \ {0}, StatInv, ReportInv
  PROVE  Stats!ReportIsOfRequests
  <1> DEFINE a == Stats!Merge(shard).all
             l == log
             R == ReqOf(l)
             p == Stats!ValueAtQuantile(a.hist, 95)
             Took(i) == Stats!Micros(l[i])
             d == [i \in R |-> Took(i)]
             b == BucketsOf(l)
  <1>1. /\ Describes(a, l) /\ IsLat(a) /\ Stats!Requests = R /\ IsFiniteSet(R)
        /\ \A i \in R : /\ l[i].dur \in Nat /\ Took(i) \in Nat \ {0}
                         /\ Took(i) = IF l[i].dur = 0 THEN 1 ELSE l[i].dur
    BY MergedDescribes
  <1>2. \A i \in R : l[i].dur \in Nat
    BY <1>1
  <1> HIDE DEF a, l, R, p, b, Took
  <1>3. /\ a.total = Cardinality(R)
        /\ R # {} => /\ \E i \in R : l[i].dur = a.min
                     /\ \E i \in R : l[i].dur = a.max
                     /\ \A i \in R : a.min <= l[i].dur /\ l[i].dur <= a.max
        /\ DOMAIN a.hist = {b[i] : i \in Timed(l)}
        /\ \A k : Stats!At(a.hist, k) = CountIn(b, {k})
    BY <1>1 DEF Describes, R, b
  <1>4. R # {} => /\ a.min = Stats!Min({l[i].dur : i \in R})
                  /\ a.max = Stats!Max({l[i].dur : i \in R})
    <2> SUFFICES ASSUME R # {} PROVE /\ a.min = Stats!Min({l[i].dur : i \in R})
                                     /\ a.max = Stats!Max({l[i].dur : i \in R})
      OBVIOUS
    <2> DEFINE x == {l[i].dur : i \in R}
               lo == a.min
               hi == a.max
    <2>1. x \in SUBSET Nat /\ lo \in x /\ hi \in x /\ \A y \in x : lo <= y /\ y <= hi
      BY <1>2, <1>3
    <2> HIDE DEF x, lo, hi
    <2>2. Stats!Min(x) = lo /\ Stats!Max(x) = hi
      BY <2>1, Extremes
    <2> QED
      BY <2>2 DEF x, lo, hi
  <1>5. ASSUME R # {}, a.max <= HistMax
        PROVE  \E i \in R :
                 /\ Took(i) <= p /\ 128 * (p - Took(i)) <= Took(i)
                 /\ 100 * Cardinality({j \in R : Took(j) <= p}) >= 95 * Cardinality(R)
                 /\ 100 * Cardinality({j \in R : Took(j) < Took(i)}) < 95 * Cardinality(R)
    <2>1. Timed(l) = R
      <3>1. a.max \in Nat /\ \A i \in R : l[i].dur <= a.max
        BY <1>1, <1>3, <1>5 DEF IsLat
      <3>2. \A i \in R : ~(Took(i) > HistMax)
        BY <1>1, <1>2, <1>5, <3>1
      <3> QED
        BY <3>2 DEF Timed, R, Took
    <2>2. DOMAIN b = R /\ \A i \in R : b[i] = Stats!HighestEquivalent(Took(i))
      BY <2>1 DEF BucketsOf, b, Took
    <2>a. \A i \in R : InBuckets(Took(i))
      <3>1. \A i \in R : ~(Took(i) > HistMax)
        BY <2>1 DEF Timed, Took
      <3>2. \A i \in R : Took(i) <= HistMax
        BY <1>1, <3>1
      <3> QED
        BY <1>1, <3>2, TakenIsInBuckets
    <2>3. \A i \in R : /\ b[i] \in Nat \ {0} /\ Took(i) <= b[i]
                       /\ 128 * (b[i] - Took(i)) <= Took(i)
      BY <2>2, <2>a, BucketIs
    <2>4. \A i, j \in R : Took(i) <= Took(j) => b[i] <= b[j]
      BY <2>2, <2>a, BucketsInOrder
    <2>5. PICK e \in R : \A i \in R : Took(i) <= Took(e)
      <3>1. PICK e \in R : \A i \in R : l[i].dur <= l[e].dur
        BY <1>3, <1>5
      <3>2. \A i \in R : Took(i) <= Took(e)
        BY <1>1, <1>2, <3>1
      <3> QED
        BY <3>2
    <2>6. \A i \in R : b[i] <= b[e]
      BY <2>4, <2>5
    <2>7. DOMAIN d = R /\ \A i \in R : d[i] = Took(i)
      OBVIOUS
    <2> DEFINE h == a.hist
               bound == b[e]
    <2> HIDE DEF d
    <2>8. Bucketed(d, b, bound)
      BY <1>1, <1>2, <1>5, <2>2, <2>3, <2>4, <2>5, <2>6, <2>7 DEF Bucketed
    <2>9. Counts(h, b)
      <3>1. DOMAIN h = {b[i] : i \in DOMAIN b}
        BY <1>3, <2>1, <2>2
      <3>2. \A k \in DOMAIN h : h[k] = Stats!At(h, k)
        BY DEF Stats!At
      <3> QED
        BY <1>3, <3>1, <3>2 DEF Counts
    <2>10. p = Stats!ValueAtQuantile(h, 95)
      BY DEF p
    <2> HIDE DEF h, bound
    <2>11. PICK i \in R : /\ b[i] = p
                          /\ 100 * Cardinality({j \in R : d[j] <= p}) >= 95 * Cardinality(R)
                          /\ 100 * Cardinality({j \in R : d[j] < d[i]}) < 95 * Cardinality(R)
      BY <2>2, <2>8, <2>9, <2>10, PercentileIs
    <2>12. /\ {j \in R : d[j] <= p} = {j \in R : Took(j) <= p}
           /\ {j \in R : d[j] < d[i]} = {j \in R : Took(j) < Took(i)}
      BY <2>7
    <2>13. Took(i) <= p /\ 128 * (p - Took(i)) <= Took(i)
      BY <2>3, <2>11
    <2> QED
      BY <2>11, <2>12, <2>13
  <1>6. /\ a.total = Stats!Cardinality(R)
        /\ R # {} => /\ a.min = Stats!Min({l[i].dur : i \in R})
                     /\ a.max = Stats!Max({l[i].dur : i \in R})
        /\ R # {} /\ a.max <= HistMax =>
             \E i \in R :
               /\ Took(i) <= p /\ 128 * (p - Took(i)) <= Took(i)
               /\ 100 * Stats!Cardinality({j \in R : Took(j) <= p}) >= 95 * Stats!Cardinality(R)
               /\ 100 * Stats!Cardinality({j \in R : Took(j) < Took(i)}) < 95 * Stats!Cardinality(R)
    <2>1. a.total = Stats!Cardinality(R)
      BY <1>3, SameCardinality
    <2>2. ASSUME R # {}, a.max <= HistMax
          PROVE  \E i \in R :
               /\ Took(i) <= p /\ 128 * (p - Took(i)) <= Took(i)
               /\ 100 * Stats!Cardinality({j \in R : Took(j) <= p}) >= 95 * Stats!Cardinality(R)
               /\ 100 * Stats!Cardinality({j \in R : Took(j) < Took(i)}) < 95 * Stats!Cardinality(R)
      BY <1>5, <2>2, SameCardinality
    <2> QED
      BY <1>4, <2>1, <2>2
  <1>7. Stats!Requests = R
    BY <1>1
  <1>8. a = Stats!Merge(shard).all /\ l = log /\ p = Stats!ValueAtQuantile(a.hist, 95)
    BY DEF a, l, p
  <1> HIDE DEF d
  <1>9. ReportSays(a, R, l, p)
    BY <1>6 DEF ReportSays, Fastest, Slowest, AtMost, Before, Took
  <1>10. ReportSays(Stats!Merge(shard).all, Stats!Requests, log,
                    Stats!ValueAtQuantile(Stats!Merge(shard).all.hist, 95))
    BY <1>7, <1>8, <1>9
  <1> QED
    BY <1>10 DEF ReportSays, Fastest, Slowest, AtMost, Before, Stats!ReportIsOfRequests

\* A longer duration has no fewer milliseconds.
LEMMA MillisMonotone ==
  ASSUME NEW x \in Nat, NEW y \in Nat, x <= y
  PROVE  x \div 1000 \in Nat /\ y \div 1000 \in Nat /\ x \div 1000 <= y \div 1000
  OBVIOUS

\* The thresholds compare with whole numbers.
LEMMA CriteriaAre ==
  ASSUME NEW c \in Criteria
  PROVE  c.words \in Nat /\ c.value[1] \in Nat /\ c.value = <<c.value[1], 1>>
  BY MetricAssumption

\* A limit on the slowest request, and one on the fastest.
LEMMA LimitIs ==
  ASSUME None \notin Nat, None \notin Nat \X Nat, NEW a, IsLat(a.all), NEW c \in Criteria,
         c.metric = "http_req_duration"
  PROVE  /\ c.check = "max" /\ c.op = "<" =>
              (Stats!Passes(c.op, Stats!Actual(a, c), IF c.value = None THEN Stats!Zero ELSE c.value)
                 <=> a.all.max \div 1000 < c.value[1])
         /\ c.check = "min" /\ c.op = ">" =>
              (Stats!Passes(c.op, Stats!Actual(a, c), IF c.value = None THEN Stats!Zero ELSE c.value)
                 <=> (IF a.all.min = None THEN 0 ELSE a.all.min \div 1000) > c.value[1])
  <1> DEFINE l == a.all
             n == c.value[1]
             v == IF c.value = None THEN Stats!Zero ELSE c.value
             w == Stats!Durations(l)
             x == Stats!Actual(a, c)
             hi == l.max \div 1000
             lo == IF l.min = None THEN 0 ELSE l.min \div 1000
  <1>1. n \in Nat /\ v = <<n, 1>>
    <2>1. n \in Nat /\ c.value = <<n, 1>>
      BY CriteriaAre
    <2> HIDE DEF n
    <2> QED
      BY <2>1
  <1>2. l.max \in Nat /\ l.min \in Times
    BY DEF IsLat
  <1>3. hi \in Nat /\ lo \in Nat
    BY <1>2, MillisMonotone DEF Times
  <1>4. x = IF c.check \in DOMAIN w THEN w[c.check] ELSE Stats!Zero
    BY DEF Stats!Actual, Stats!Values
  <1>5. "max" \in DOMAIN w /\ "min" \in DOMAIN w /\ w["max"] = <<hi, 1>> /\ w["min"] = <<lo, 1>>
    <2>1. Stats!Millis(l.max) = hi /\ Stats!Millis(l.min) = lo
      BY <1>2 DEF Stats!Millis
    <2> HIDE DEF hi, lo, l
    <2> QED
      BY <2>1 DEF Stats!Durations
  <1> HIDE DEF n, v, w, x, hi, lo, l
  <1>6. ASSUME c.check = "max", c.op = "<" PROVE Stats!Passes(c.op, x, v) <=> hi < n
    <2>1. Stats!Passes(c.op, x, v) <=> Stats!Less(x, v)
      BY <1>6 DEF Stats!Passes
    <2>2. x = <<hi, 1>>
      BY <1>4, <1>5, <1>6
    <2>3. Stats!Less(x, v) <=> hi * 1 < n * 1
      BY <1>1, <2>2 DEF Stats!Less
    <2> QED
      BY <1>1, <1>3, <2>1, <2>3
  <1>7. ASSUME c.check = "min", c.op = ">" PROVE Stats!Passes(c.op, x, v) <=> lo > n
    <2>1. Stats!Passes(c.op, x, v) <=> Stats!Less(v, x)
      BY <1>7 DEF Stats!Passes
    <2>2. x = <<lo, 1>>
      BY <1>4, <1>5, <1>7
    <2>3. Stats!Less(v, x) <=> n * 1 < lo * 1
      BY <1>1, <2>2 DEF Stats!Less
    <2> QED
      BY <1>1, <1>3, <2>1, <2>3
  <1> QED
    BY <1>6, <1>7 DEF v, x, hi, lo, l, n

\* And it makes the verdict one about the requests.
LEMMA VerdictOf ==
  ASSUME Shards \in Nat, None \notin Nat, None \notin Nat \X Nat, StatInv, ReportInv
  PROVE  Stats!VerdictIsOfRequests
  <1> DEFINE a == Stats!Merge(shard)
             l == log
             R == Stats!Requests
             missed == Stats!ValidateThresholds(a, Criteria)
             V(c) == IF c.value = None THEN Stats!Zero ELSE c.value
  <1>1. /\ Describes(a.all, l) /\ IsLat(a.all) /\ R = ReqOf(l)
        /\ \A i \in R : l[i].dur \in Nat
    BY MergedDescribes
  <1>2. \A i \in R : l[i].dur \in Nat
    BY <1>1
  <1> HIDE DEF a, l, R
  <1>3. \A c : c \in missed <=>
          c \in Criteria /\ c.words >= 3 /\ ~Stats!Passes(c.op, Stats!Actual(a, c), V(c))
    BY DEF Stats!ValidateThresholds
  <1> DEFINE max == a.all.max
             min == a.all.min
  <1>4. /\ max \in Nat /\ min \in Times
        /\ R = {} => min = None /\ max = 0
        /\ R # {} => /\ \E i \in R : l[i].dur = min
                     /\ \E i \in R : l[i].dur = max
                     /\ \A i \in R : min <= l[i].dur /\ l[i].dur <= max
    BY <1>1 DEF Describes, IsLat
  <1> HIDE DEF max, min
  <1>5. ASSUME NEW n \in Nat
        PROVE  /\ max \div 1000 < n
                    <=> (\A i \in R : l[i].dur \div 1000 < n) /\ (R = {} => 0 < n)
               /\ (IF min = None THEN 0 ELSE min \div 1000) > n
                    <=> (\A i \in R : l[i].dur \div 1000 > n) /\ (R = {} => 0 > n)
    <2>1. CASE R = {}
      BY <1>4, <2>1
    <2>2. CASE R # {}
      <3>1. min \in Nat /\ min # None
        BY <1>2, <1>4, <2>2
      <3> DEFINE t(i) == l[i].dur \div 1000
                 hi == max \div 1000
                 lo == min \div 1000
      <3>2. /\ \A i \in R : t(i) \in Nat /\ lo <= t(i) /\ t(i) <= hi
            /\ lo \in Nat /\ hi \in Nat
        BY <1>2, <1>4, <2>2, <3>1, MillisMonotone
      <3>3. (\E i \in R : t(i) = lo) /\ (\E i \in R : t(i) = hi)
        BY <1>4, <2>2
      <3> HIDE DEF t, hi, lo
      <3>4. hi < n <=> \A i \in R : t(i) < n
        BY <3>2, <3>3
      <3>5. lo > n <=> \A i \in R : t(i) > n
        BY <3>2, <3>3
      <3> QED
        BY <2>2, <3>1, <3>4, <3>5 DEF t, hi, lo
    <2> QED
      BY <2>1, <2>2
  <1>6. ASSUME NEW c \in Criteria, c.words < 3 PROVE c \notin missed
    <2>1. c.words \in Nat
      BY CriteriaAre
    <2> HIDE DEF missed, V
    <2> QED
      BY <1>3, <1>6, <2>1
  <1>7. ASSUME NEW c \in Criteria, c.words >= 3, c.metric = "http_req_duration", c.check = "max", c.op = "<"
        PROVE  c \in missed <=>
                 ~((\A i \in R : l[i].dur \div 1000 < c.value[1]) /\ (R = {} => 0 < c.value[1]))
    <2>1. Stats!Passes(c.op, Stats!Actual(a, c), V(c)) <=> max \div 1000 < c.value[1]
      BY <1>1, <1>7, LimitIs DEF max
    <2>2. c.value[1] \in Nat
      BY CriteriaAre
    <2> HIDE DEF missed, V
    <2>3. c \in missed <=> ~(max \div 1000 < c.value[1])
      BY <1>3, <1>7, <2>1
    <2> QED
      BY <1>5, <2>2, <2>3
  <1>8. ASSUME NEW c \in Criteria, c.words >= 3, c.metric = "http_req_duration", c.check = "min", c.op = ">"
        PROVE  c \in missed <=>
                 ~((\A i \in R : l[i].dur \div 1000 > c.value[1]) /\ (R = {} => 0 > c.value[1]))
    <2>1. Stats!Passes(c.op, Stats!Actual(a, c), V(c))
            <=> (IF min = None THEN 0 ELSE min \div 1000) > c.value[1]
      BY <1>1, <1>8, LimitIs DEF min
    <2>2. c.value[1] \in Nat
      BY CriteriaAre
    <2> HIDE DEF missed, V
    <2>3. c \in missed <=> ~((IF min = None THEN 0 ELSE min \div 1000) > c.value[1])
      BY <1>3, <1>8, <2>1
    <2> QED
      BY <1>5, <2>2, <2>3
  <1> HIDE DEF missed, V
  <1>9. ASSUME NEW c \in Criteria, c.words >= 3, c.metric = "http_req_duration",
                <<c.check, c.op>> \in {<<"max", "<">>, <<"min", ">">>}
         PROVE  c \in missed
                  <=> ~(CASE c.op = "<" -> (\A i \in R : l[i].dur \div 1000 < c.value[1])
                                          /\ (R = {} => 0 < c.value[1])
                          [] c.op = ">" -> (\A i \in R : l[i].dur \div 1000 > c.value[1])
                                          /\ (R = {} => 0 > c.value[1]))
    <2>1. (c.check = "max" /\ c.op = "<") \/ (c.check = "min" /\ c.op = ">")
      BY <1>9
    <2> DEFINE below == (\A i \in R : l[i].dur \div 1000 < c.value[1]) /\ (R = {} => 0 < c.value[1])
               above == (\A i \in R : l[i].dur \div 1000 > c.value[1]) /\ (R = {} => 0 > c.value[1])
    <2>2. c.check = "max" /\ c.op = "<" => (c \in missed <=> ~below)
      BY <1>7, <1>9
    <2>3. c.check = "min" /\ c.op = ">" => (c \in missed <=> ~above)
      BY <1>8, <1>9
    <2> HIDE DEF below, above
    <2>4. c \in missed <=> ~(CASE c.op = "<" -> below [] c.op = ">" -> above)
      BY <2>1, <2>2, <2>3
    <2> QED
      BY <2>4 DEF below, above
  <1>10. /\ \A c \in Criteria : c.words < 3 => c \notin missed
         /\ \A c \in Criteria :
              (c.words >= 3 /\ c.metric = "http_req_duration"
                 /\ <<c.check, c.op>> \in {<<"max", "<">>, <<"min", ">">>})
              => (c \in missed
                  <=> ~(CASE c.op = "<" -> (\A i \in R : l[i].dur \div 1000 < c.value[1])
                                          /\ (R = {} => 0 < c.value[1])
                          [] c.op = ">" -> (\A i \in R : l[i].dur \div 1000 > c.value[1])
                                          /\ (R = {} => 0 > c.value[1])))
    BY <1>6, <1>9
  <1> QED
    BY <1>10 DEF Stats!VerdictIsOfRequests, missed, a, l, R

\* The report of a run is about the requests that were made, and so is the verdict: what
\* ShardedAggregator::merge, to_report and validate_thresholds (stats/mod.rs) say of their number,
\* their extremes and the 95th percentile, whatever metrics the workers can send, requests of less
\* than a microsecond and requests beyond the histogram among them, in any order.
THEOREM ReportTells == Spec => []ReportIsOfRequests
  <1> USE CommandAssumption
  <1>1. StatInv /\ ReportInv => ReportIsOfRequests
    BY ReportOf, VerdictOf DEF ReportIsOfRequests
  <1>2. Spec => []StatInv
    BY StatInvariant
  <1>3. Init => ReportInv
    BY ReportInit
  <1>4. StatInv /\ ReportInv /\ [Next]_commandVars => ReportInv'
    BY ReportStep
  <1> QED
    BY <1>1, <1>2, <1>3, <1>4, PTL DEF Spec
=============================================================================
