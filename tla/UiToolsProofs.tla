---------------------------- MODULE UiToolsProofs ----------------------------
(***************************************************************************)
(* Theorems about UiTools, for responses of any length.                    *)
(*                                                                         *)
(* Each pass is a fold over the calls, so what it lets through is found by *)
(* induction over the response: over sets of numbers, each with a least    *)
(* element.  A pass is described by its steps, what it has kept of the     *)
(* first calls (Steps), and by the indices that it keeps (Selects).        *)
(***************************************************************************)
EXTENDS UiTools, TLAPS, WellFoundedInduction, FiniteSetTheorems, SequenceTheorems

-----------------------------------------------------------------------------
(* Induction.                                                              *)

Less == {p \in Nat \X Nat : p[1] < p[2]}

\* A set of numbers has a least element.
LEMMA HasLeast ==
    ASSUME NEW S, S \subseteq Nat, S # {}
    PROVE  \E n \in S : \A m \in S : n <= m
<1>1. IsWellFoundedOn(Less, Nat)
  BY NatLessThanWellFounded DEF OpToRel, Less
<1>2. PICK n \in S : \A m \in S : <<m, n>> \notin Less
  BY <1>1, WFMin
<1>3. ASSUME NEW m \in S PROVE n <= m
  <2>1. m \in Nat /\ n \in Nat OBVIOUS
  <2>2. ~(m < n) BY <1>2, <2>1 DEF Less
  <2> QED BY <2>1, <2>2
<1> QED BY <1>3

\* What holds of zero, and of each number after one it holds of, holds up to N.
LEMMA UpTo ==
    ASSUME NEW N \in Nat, NEW S, 0 \in S, \A n \in 0..(N - 1) : n \in S => n + 1 \in S
    PROVE  0..N \subseteq S
<1> DEFINE Rest == (0..N) \ S
<1> SUFFICES ASSUME Rest # {} PROVE FALSE
  OBVIOUS
<1>1. Rest \subseteq Nat
  OBVIOUS
<1>2. PICK n \in Rest : \A m \in Rest : n <= m
  <2> HIDE DEF Rest
  <2> QED BY <1>1, HasLeast
<1>3. n # 0
  OBVIOUS
<1>4. n - 1 \in 0..(N - 1) /\ n - 1 + 1 = n /\ ~(n <= n - 1)
  BY <1>3
<1>5. n - 1 \in S
  BY <1>2, <1>4
<1> QED BY <1>4, <1>5

-----------------------------------------------------------------------------
(* Folds.                                                                  *)

\* The largest of the first n numbers, and what is left without it.
LEMMA MaxOfFirst ==
    ASSUME NEW n \in Nat, NEW S, S \subseteq 1..n, n \in S
    PROVE  Max(S) = n /\ S \ {n} \subseteq 1..(n - 1) /\ (S = 1..n => S \ {n} = 1..(n - 1))
<1>1. \A x \in S : (\A y \in S : x >= y) <=> x = n
  OBVIOUS
<1>2. Max(S) = n
  <2>1. Max(S) = CHOOSE x \in S : \A y \in S : x >= y BY DEF Max
  <2>2. Max(S) \in S /\ \A y \in S : Max(S) >= y BY <1>1, <2>1
  <2> QED BY <1>1, <2>2
<1> QED BY <1>2

\* A set of some of the first N numbers has a largest one.
LEMMA MaxIsOf ==
    ASSUME NEW N \in Nat, NEW S, S \subseteq 1..N, S # {}
    PROVE  Max(S) \in S /\ Max(S) \in 1..N
<1> DEFINE T == {n \in Nat : N - n \in S}
<1>1. T \subseteq Nat /\ T # {}
  <2>1. PICK x \in S : TRUE OBVIOUS
  <2>2. N - x \in T OBVIOUS
  <2> QED BY <2>2
<1>2. PICK n \in T : \A m \in T : n <= m
  <2> HIDE DEF T
  <2> QED BY <1>1, HasLeast
<1>3. ASSUME NEW y \in S PROVE N - n >= y
  <2>1. N - y \in T OBVIOUS
  <2>2. n <= N - y BY <1>2, <2>1
  <2> QED BY <2>2
<1>4. Max(S) \in S
  <2>1. N - n \in S /\ \A y \in S : N - n >= y BY <1>3
  <2> HIDE DEF T
  <2> QED BY <2>1 DEF Max
<1> QED BY <1>4

\* it is the fold over the first N numbers, by the steps D from b on.
IsFold(it, N, b, D) ==
    \A S \in SUBSET (1..N) : it[S] = IF S = {} THEN b ELSE D[Max(S)][it[S \ {Max(S)}]]

\* A fold over the first N numbers, by steps that depend on the number, is defined.
LEMMA FoldExists ==
    ASSUME NEW N \in Nat, NEW B, NEW b \in B, NEW D \in [1..N -> [B -> B]]
    PROVE  \E it \in [SUBSET (1..N) -> B] : IsFold(it, N, b, D)
<1> DEFINE Defined(n) == \E it \in [SUBSET (1..n) -> B] : IsFold(it, n, b, D)
           Ns == {n \in 0..N : Defined(n)}
<1>1. 0 \in Ns
  <2> DEFINE it == [S \in SUBSET (1..0) |-> b]
  <2>1. it \in [SUBSET (1..0) -> B] OBVIOUS
  <2>2. \A S \in SUBSET (1..0) : S = {} /\ it[S] = b OBVIOUS
  <2> HIDE DEF it
  <2>3. Defined(0) BY <2>1, <2>2 DEF IsFold
  <2> HIDE DEF Defined
  <2> QED BY <2>3
<1>2. ASSUME NEW n \in 0..(N - 1), n \in Ns PROVE n + 1 \in Ns
  <2>1. PICK it \in [SUBSET (1..n) -> B] : \A S \in SUBSET (1..n) :
            it[S] = IF S = {} THEN b ELSE D[Max(S)][it[S \ {Max(S)}]]
    BY <1>2 DEF IsFold
  <2> DEFINE next == [S \in SUBSET (1..(n + 1)) |->
                         IF n + 1 \in S THEN D[n + 1][it[S \ {n + 1}]] ELSE it[S]]
  <2>2. ASSUME NEW S \in SUBSET (1..(n + 1)) PROVE next[S] \in B
    <3>1. CASE n + 1 \in S
      <4>1. S \ {n + 1} \in SUBSET (1..n) BY MaxOfFirst
      <4>2. it[S \ {n + 1}] \in B BY <4>1
      <4>3. D[n + 1] \in [B -> B] OBVIOUS
      <4> QED BY <3>1, <4>2, <4>3
    <3>2. CASE n + 1 \notin S
      <4>1. S \in SUBSET (1..n) BY <3>2
      <4> QED BY <3>2, <4>1
    <3> QED BY <3>1, <3>2
  <2>3. ASSUME NEW S \in SUBSET (1..(n + 1))
        PROVE  next[S] = IF S = {} THEN b ELSE D[Max(S)][next[S \ {Max(S)}]]
    <3>1. CASE n + 1 \in S
      <4>1. Max(S) = n + 1 /\ S \ {n + 1} \in SUBSET (1..n)
        <5>1. n + 1 \in Nat /\ (n + 1) - 1 = n OBVIOUS
        <5> QED BY <3>1, <5>1, MaxOfFirst
      <4>2. next[S \ {n + 1}] = it[S \ {n + 1}] BY <4>1
      <4> QED BY <3>1, <4>1, <4>2
    <3>2. CASE n + 1 \notin S
      <4>1. S \in SUBSET (1..n) BY <3>2
      <4>2. next[S] = it[S] BY <3>2
      <4>3. S \ {Max(S)} \in SUBSET (1..n) BY <4>1
      <4>4. next[S \ {Max(S)}] = it[S \ {Max(S)}] BY <4>3
      <4> QED BY <2>1, <4>1, <4>2, <4>4
    <3> QED BY <3>1, <3>2
  <2>4. next \in [SUBSET (1..(n + 1)) -> B] BY <2>2
  <2> HIDE DEF next
  <2>5. Defined(n + 1) BY <2>3, <2>4 DEF IsFold
  <2> HIDE DEF Defined
  <2> QED BY <2>5
<1> HIDE DEF Ns
<1>3. 0..N \subseteq Ns BY <1>1, <1>2, UpTo
<1>4. Defined(N)
  <2> HIDE DEF Defined
  <2>1. N \in Ns BY <1>3
  <2> QED BY <2>1 DEF Ns
<1> QED BY <1>4

\* f has what a pass keeps of the first i elements of s, which it keeps if they are
\* in K of what it has kept before.
Steps(C, s, K, f) ==
    /\ f \in [0..Len(s) -> Seq(C)]
    /\ f[0] = << >>
    /\ \A i \in 1..Len(s) :
           f[i] = IF s[i] \in K[f[i - 1]] THEN Append(f[i - 1], s[i]) ELSE f[i - 1]

\* it is the fold of a pass over s, and what it has of the first elements.
IsPass(it, s, K) ==
    \A S \in SUBSET (1..Len(s)) :
        it[S] = IF S = {} THEN << >>
                ELSE IF s[Max(S)] \in K[it[S \ {Max(S)}]]
                     THEN Append(it[S \ {Max(S)}], s[Max(S)])
                     ELSE it[S \ {Max(S)}]

FoldPrefixes(it, n) == [i \in 0..n |-> it[1..i]]

\* Each such pass has its steps, and is the fold of them.
LEMMA StepsExist ==
    ASSUME NEW C, NEW s \in Seq(C), NEW K \in [Seq(C) -> SUBSET C]
    PROVE  \E it \in [SUBSET (1..Len(s)) -> Seq(C)] :
               IsPass(it, s, K) /\ Steps(C, s, K, FoldPrefixes(it, Len(s)))
<1> DEFINE N == Len(s)
           D == [i \in 1..N |-> [kept \in Seq(C) |->
                    IF s[i] \in K[kept] THEN Append(kept, s[i]) ELSE kept]]
<1>1. N \in Nat /\ \A i \in 1..N : s[i] \in C
  OBVIOUS
<1>2. D \in [1..N -> [Seq(C) -> Seq(C)]]
  BY <1>1
<1>3. << >> \in Seq(C)
  OBVIOUS
<1>4. PICK it \in [SUBSET (1..N) -> Seq(C)] : \A S \in SUBSET (1..N) :
          it[S] = IF S = {} THEN << >> ELSE D[Max(S)][it[S \ {Max(S)}]]
  <2> DEFINE B == Seq(C)
             b == << >>
  <2>1. N \in Nat /\ b \in B /\ D \in [1..N -> [B -> B]]
    BY <1>1, <1>2, <1>3
  <2> HIDE DEF D, N, B, b
  <2>2. \E it \in [SUBSET (1..N) -> B] : IsFold(it, N, b, D)
    BY <2>1, FoldExists
  <2> QED BY <2>2 DEF B, b, IsFold
<1>5. \A S \in SUBSET (1..N) : S # {} => Max(S) \in 1..N
  <2> HIDE DEF N
  <2> QED BY <1>1, MaxIsOf
<1>6. \A S \in SUBSET (1..N) :
          it[S] = IF S = {} THEN << >>
                  ELSE IF s[Max(S)] \in K[it[S \ {Max(S)}]]
                       THEN Append(it[S \ {Max(S)}], s[Max(S)])
                       ELSE it[S \ {Max(S)}]
  <2> SUFFICES ASSUME NEW S \in SUBSET (1..N), S # {}
               PROVE  it[S] = IF s[Max(S)] \in K[it[S \ {Max(S)}]]
                              THEN Append(it[S \ {Max(S)}], s[Max(S)])
                              ELSE it[S \ {Max(S)}]
    BY <1>4
  <2>1. Max(S) \in 1..N /\ it[S \ {Max(S)}] \in Seq(C)
    BY <1>4, <1>5
  <2>2. it[S] = D[Max(S)][it[S \ {Max(S)}]]
    BY <1>4
  <2> QED BY <2>1, <2>2
<1> DEFINE f == [i \in 0..N |-> it[1..i]]
<1>7. f \in [0..N -> Seq(C)] /\ f[0] = << >>
  <2>1. \A i \in 0..N : 1..i \in SUBSET (1..N)
    <3> HIDE DEF N
    <3> QED BY <1>1
  <2>2. f[0] = it[{}] BY <1>1
  <2>3. it[{}] = << >> BY <1>4
  <2>4. \A i \in 0..N : it[1..i] \in Seq(C) BY <1>4, <2>1
  <2> HIDE DEF N
  <2> QED BY <2>2, <2>3, <2>4
<1>8. ASSUME NEW i \in 1..N
      PROVE  f[i] = IF s[i] \in K[f[i - 1]] THEN Append(f[i - 1], s[i]) ELSE f[i - 1]
  <2>1. Max(1..i) = i /\ (1..i) \ {i} = 1..(i - 1)
    BY MaxOfFirst, <1>1
  <2>2. 1..i \in SUBSET (1..N) /\ 1..i # {}
    <3> HIDE DEF N
    <3>1. i \in 1..i BY <1>1
    <3>2. 1..i \subseteq 1..N BY <1>1
    <3> QED BY <3>1, <3>2
  <2>3. it[1..i] = IF s[i] \in K[it[1..(i - 1)]] THEN Append(it[1..(i - 1)], s[i]) ELSE it[1..(i - 1)]
    BY <1>6, <2>1, <2>2
  <2>4. f[i] = it[1..i] /\ f[i - 1] = it[1..(i - 1)]
    BY <1>1
  <2> HIDE DEF f
  <2> QED BY <2>3, <2>4
<1>9. Steps(C, s, K, f)
  <2> HIDE DEF f
  <2> QED BY <1>7, <1>8 DEF Steps
<1> QED BY <1>6, <1>9 DEF IsPass, FoldPrefixes

\* The steps of the passes.
LEMMA AmongSteps ==
    ASSUME NEW C, NEW s \in Seq(C), NEW S
    PROVE  \E f : Steps(C, s, [kept \in Seq(C) |-> C \cap S], f) /\ Among(s, S) = f[Len(s)]
<1> DEFINE K == [kept \in Seq(C) |-> C \cap S]
           Folds(it) == it = [t \in SUBSET (DOMAIN s) |->
                                 IF t = {} THEN << >>
                                 ELSE IF s[Max(t)] \in S
                                      THEN Append(it[t \ {Max(t)}], s[Max(t)])
                                      ELSE it[t \ {Max(t)}]]
<1>1. DOMAIN s = 1..Len(s) /\ Len(s) \in Nat /\ \A i \in 1..Len(s) : s[i] \in C
  OBVIOUS
<1>2. K \in [Seq(C) -> SUBSET C] /\ \A kept \in Seq(C) : K[kept] = C \cap S
  OBVIOUS
<1> HIDE DEF K
<1>3. PICK it \in [SUBSET (1..Len(s)) -> Seq(C)] :
          IsPass(it, s, K) /\ Steps(C, s, K, FoldPrefixes(it, Len(s)))
  BY <1>2, StepsExist
<1>4. Folds(it)
  <2>1. ASSUME NEW t \in SUBSET (1..Len(s)), t # {}
        PROVE  s[Max(t)] \in K[it[t \ {Max(t)}]] <=> s[Max(t)] \in S
    <3>1. Max(t) \in 1..Len(s) BY <2>1, <1>1, MaxIsOf
    <3>2. K[it[t \ {Max(t)}]] = C \cap S BY <1>2, <1>3
    <3> QED BY <3>1, <3>2, <1>1
  <2> QED BY <1>1, <1>3, <2>1 DEF IsPass
<1>5. PICK iter : Folds(iter) /\ Among(s, S) = iter[DOMAIN s]
  <2>1. Among(s, S) = (CHOOSE iter : Folds(iter))[DOMAIN s]
    BY DEF Among, FoldLeft, MapThenFoldSet
  <2>2. Folds(CHOOSE iter : Folds(iter))
    <3> HIDE DEF Folds
    <3> QED BY <1>4
  <2> HIDE DEF Folds
  <2> QED BY <2>1, <2>2
<1>6. ASSUME NEW g, Folds(g)
      PROVE  /\ g[1..0] = << >>
             /\ \A i \in 1..Len(s) :
                    g[1..i] = IF s[i] \in S THEN Append(g[1..(i - 1)], s[i]) ELSE g[1..(i - 1)]
  <2>1. g[1..0] = << >>
    <3>1. 1..0 = {} /\ {} \in SUBSET (DOMAIN s) OBVIOUS
    <3> QED BY <3>1, <1>6
  <2>2. ASSUME NEW i \in 1..Len(s)
        PROVE  g[1..i] = IF s[i] \in S THEN Append(g[1..(i - 1)], s[i]) ELSE g[1..(i - 1)]
    <3>1. Max(1..i) = i /\ (1..i) \ {i} = 1..(i - 1)
      BY <1>1, MaxOfFirst
    <3>2. 1..i \in SUBSET (DOMAIN s) /\ 1..i # {}
      <4>1. i \in 1..i BY <1>1
      <4>2. 1..i \subseteq DOMAIN s BY <1>1
      <4> QED BY <4>1, <4>2
    <3> QED BY <1>6, <3>1, <3>2
  <2> QED BY <2>1, <2>2
<1> HIDE DEF Folds
<1>7. iter[1..Len(s)] = it[1..Len(s)]
  <2> DEFINE Same == {i \in 0..Len(s) : iter[1..i] = it[1..i]}
  <2>1. 0 \in Same
    BY <1>1, <1>4, <1>5, <1>6
  <2>2. ASSUME NEW i \in 0..(Len(s) - 1), i \in Same PROVE i + 1 \in Same
    <3>1. i + 1 \in 1..Len(s) /\ (i + 1) - 1 = i BY <1>1
    <3>2. iter[1..(i + 1)] = IF s[i + 1] \in S THEN Append(iter[1..i], s[i + 1]) ELSE iter[1..i]
      BY <1>5, <1>6, <3>1
    <3>3. it[1..(i + 1)] = IF s[i + 1] \in S THEN Append(it[1..i], s[i + 1]) ELSE it[1..i]
      BY <1>4, <1>6, <3>1
    <3> QED BY <2>2, <3>1, <3>2, <3>3, <1>1
  <2> HIDE DEF Same
  <2>3. 0..Len(s) \subseteq Same BY <1>1, <2>1, <2>2, UpTo
  <2> QED BY <2>3, <1>1 DEF Same
<1>8. Among(s, S) = FoldPrefixes(it, Len(s))[Len(s)]
  BY <1>1, <1>5, <1>7 DEF FoldPrefixes
<1> QED BY <1>3, <1>8 DEF K

LEMMA DeduplicatedSteps ==
    ASSUME NEW C, NEW s \in Seq(C)
    PROVE  \E f : Steps(C, s, [kept \in Seq(C) |-> {c \in C : ~Contains(kept, c)}], f) /\ Deduplicated(s) = f[Len(s)]
<1> DEFINE K == [kept \in Seq(C) |-> {c \in C : ~Contains(kept, c)}]
           Folds(it) == it = [t \in SUBSET (DOMAIN s) |->
                                 IF t = {} THEN << >>
                                 ELSE IF Contains(it[t \ {Max(t)}], s[Max(t)])
                                      THEN it[t \ {Max(t)}]
                                      ELSE Append(it[t \ {Max(t)}], s[Max(t)])]
<1>1. DOMAIN s = 1..Len(s) /\ Len(s) \in Nat /\ \A i \in 1..Len(s) : s[i] \in C
  OBVIOUS
<1>2. K \in [Seq(C) -> SUBSET C] /\ \A kept \in Seq(C) : K[kept] = {c \in C : ~Contains(kept, c)}
  OBVIOUS
<1> HIDE DEF K
<1>3. PICK it \in [SUBSET (1..Len(s)) -> Seq(C)] :
          IsPass(it, s, K) /\ Steps(C, s, K, FoldPrefixes(it, Len(s)))
  BY <1>2, StepsExist
<1>4. Folds(it)
  <2>1. ASSUME NEW t \in SUBSET (1..Len(s)), t # {}
        PROVE  s[Max(t)] \in K[it[t \ {Max(t)}]] <=> ~Contains(it[t \ {Max(t)}], s[Max(t)])
    <3>1. Max(t) \in 1..Len(s) BY <2>1, <1>1, MaxIsOf
    <3>2. K[it[t \ {Max(t)}]] = {c \in C : ~Contains(it[t \ {Max(t)}], c)} BY <1>2, <1>3
    <3> QED BY <3>1, <3>2, <1>1
  <2> QED BY <1>1, <1>3, <2>1 DEF IsPass
<1>5. PICK iter : Folds(iter) /\ Deduplicated(s) = iter[DOMAIN s]
  <2>1. Deduplicated(s) = (CHOOSE iter : Folds(iter))[DOMAIN s]
    BY DEF Deduplicated, FoldLeft, MapThenFoldSet
  <2>2. Folds(CHOOSE iter : Folds(iter))
    <3> HIDE DEF Folds
    <3> QED BY <1>4
  <2> HIDE DEF Folds
  <2> QED BY <2>1, <2>2
<1>6. ASSUME NEW g, Folds(g)
      PROVE  /\ g[1..0] = << >>
             /\ \A i \in 1..Len(s) :
                    g[1..i] = IF Contains(g[1..(i - 1)], s[i]) THEN g[1..(i - 1)] ELSE Append(g[1..(i - 1)], s[i])
  <2>1. g[1..0] = << >>
    <3>1. 1..0 = {} /\ {} \in SUBSET (DOMAIN s) OBVIOUS
    <3> QED BY <3>1, <1>6
  <2>2. ASSUME NEW i \in 1..Len(s)
        PROVE  g[1..i] = IF Contains(g[1..(i - 1)], s[i]) THEN g[1..(i - 1)] ELSE Append(g[1..(i - 1)], s[i])
    <3>1. Max(1..i) = i /\ (1..i) \ {i} = 1..(i - 1)
      BY <1>1, MaxOfFirst
    <3>2. 1..i \in SUBSET (DOMAIN s) /\ 1..i # {}
      <4>1. i \in 1..i BY <1>1
      <4>2. 1..i \subseteq DOMAIN s BY <1>1
      <4> QED BY <4>1, <4>2
    <3> QED BY <1>6, <3>1, <3>2
  <2> QED BY <2>1, <2>2
<1> HIDE DEF Folds
<1>7. iter[1..Len(s)] = it[1..Len(s)]
  <2> DEFINE Same == {i \in 0..Len(s) : iter[1..i] = it[1..i]}
  <2>1. 0 \in Same
    BY <1>1, <1>4, <1>5, <1>6
  <2>2. ASSUME NEW i \in 0..(Len(s) - 1), i \in Same PROVE i + 1 \in Same
    <3>1. i + 1 \in 1..Len(s) /\ (i + 1) - 1 = i BY <1>1
    <3>2. iter[1..(i + 1)] = IF Contains(iter[1..i], s[i + 1]) THEN iter[1..i] ELSE Append(iter[1..i], s[i + 1])
      BY <1>5, <1>6, <3>1
    <3>3. it[1..(i + 1)] = IF Contains(it[1..i], s[i + 1]) THEN it[1..i] ELSE Append(it[1..i], s[i + 1])
      BY <1>4, <1>6, <3>1
    <3> QED BY <2>2, <3>1, <3>2, <3>3, <1>1
  <2> HIDE DEF Same
  <2>3. 0..Len(s) \subseteq Same BY <1>1, <2>1, <2>2, UpTo
  <2> QED BY <2>3, <1>1 DEF Same
<1>8. Deduplicated(s) = FoldPrefixes(it, Len(s))[Len(s)]
  BY <1>1, <1>5, <1>7 DEF FoldPrefixes
<1> QED BY <1>3, <1>8 DEF K

\* The condition of Capped.
HasRoom(kept, call) ==
    \/ call.toolName \in ToolNames(kept)
    \/ Cardinality(ToolNames(kept)) < max_tools

LEMMA CappedSteps ==
    ASSUME NEW C, NEW s \in Seq(C), max_tools # NoLimit
    PROVE  \E f : Steps(C, s, [kept \in Seq(C) |-> {c \in C : HasRoom(kept, c)}], f) /\ Capped(s) = f[Len(s)]
<1> DEFINE K == [kept \in Seq(C) |-> {c \in C : HasRoom(kept, c)}]
           Folds(it) == it = [t \in SUBSET (DOMAIN s) |->
                                 IF t = {} THEN << >>
                                 ELSE IF HasRoom(it[t \ {Max(t)}], s[Max(t)])
                                      THEN Append(it[t \ {Max(t)}], s[Max(t)])
                                      ELSE it[t \ {Max(t)}]]
<1>1. DOMAIN s = 1..Len(s) /\ Len(s) \in Nat /\ \A i \in 1..Len(s) : s[i] \in C
  OBVIOUS
<1>2. K \in [Seq(C) -> SUBSET C] /\ \A kept \in Seq(C) : K[kept] = {c \in C : HasRoom(kept, c)}
  OBVIOUS
<1> HIDE DEF K
<1>3. PICK it \in [SUBSET (1..Len(s)) -> Seq(C)] :
          IsPass(it, s, K) /\ Steps(C, s, K, FoldPrefixes(it, Len(s)))
  BY <1>2, StepsExist
<1>4. Folds(it)
  <2>1. ASSUME NEW t \in SUBSET (1..Len(s)), t # {}
        PROVE  s[Max(t)] \in K[it[t \ {Max(t)}]] <=> HasRoom(it[t \ {Max(t)}], s[Max(t)])
    <3>1. Max(t) \in 1..Len(s) BY <2>1, <1>1, MaxIsOf
    <3>2. K[it[t \ {Max(t)}]] = {c \in C : HasRoom(it[t \ {Max(t)}], c)} BY <1>2, <1>3
    <3> QED BY <3>1, <3>2, <1>1
  <2> QED BY <1>1, <1>3, <2>1 DEF IsPass
<1>5. PICK iter : Folds(iter) /\ Capped(s) = iter[DOMAIN s]
  <2>1. Capped(s) = (CHOOSE iter : Folds(iter))[DOMAIN s]
    BY DEF Capped, HasRoom, FoldLeft, MapThenFoldSet
  <2>2. Folds(CHOOSE iter : Folds(iter))
    <3> HIDE DEF Folds
    <3> QED BY <1>4
  <2> HIDE DEF Folds
  <2> QED BY <2>1, <2>2
<1>6. ASSUME NEW g, Folds(g)
      PROVE  /\ g[1..0] = << >>
             /\ \A i \in 1..Len(s) :
                    g[1..i] = IF HasRoom(g[1..(i - 1)], s[i]) THEN Append(g[1..(i - 1)], s[i]) ELSE g[1..(i - 1)]
  <2>1. g[1..0] = << >>
    <3>1. 1..0 = {} /\ {} \in SUBSET (DOMAIN s) OBVIOUS
    <3> QED BY <3>1, <1>6
  <2>2. ASSUME NEW i \in 1..Len(s)
        PROVE  g[1..i] = IF HasRoom(g[1..(i - 1)], s[i]) THEN Append(g[1..(i - 1)], s[i]) ELSE g[1..(i - 1)]
    <3>1. Max(1..i) = i /\ (1..i) \ {i} = 1..(i - 1)
      BY <1>1, MaxOfFirst
    <3>2. 1..i \in SUBSET (DOMAIN s) /\ 1..i # {}
      <4>1. i \in 1..i BY <1>1
      <4>2. 1..i \subseteq DOMAIN s BY <1>1
      <4> QED BY <4>1, <4>2
    <3> QED BY <1>6, <3>1, <3>2
  <2> QED BY <2>1, <2>2
<1> HIDE DEF Folds
<1>7. iter[1..Len(s)] = it[1..Len(s)]
  <2> DEFINE Same == {i \in 0..Len(s) : iter[1..i] = it[1..i]}
  <2>1. 0 \in Same
    BY <1>1, <1>4, <1>5, <1>6
  <2>2. ASSUME NEW i \in 0..(Len(s) - 1), i \in Same PROVE i + 1 \in Same
    <3>1. i + 1 \in 1..Len(s) /\ (i + 1) - 1 = i BY <1>1
    <3>2. iter[1..(i + 1)] = IF HasRoom(iter[1..i], s[i + 1]) THEN Append(iter[1..i], s[i + 1]) ELSE iter[1..i]
      BY <1>5, <1>6, <3>1
    <3>3. it[1..(i + 1)] = IF HasRoom(it[1..i], s[i + 1]) THEN Append(it[1..i], s[i + 1]) ELSE it[1..i]
      BY <1>4, <1>6, <3>1
    <3> QED BY <2>2, <3>1, <3>2, <3>3, <1>1
  <2> HIDE DEF Same
  <2>3. 0..Len(s) \subseteq Same BY <1>1, <2>1, <2>2, UpTo
  <2> QED BY <2>3, <1>1 DEF Same
<1>8. Capped(s) = FoldPrefixes(it, Len(s))[Len(s)]
  BY <1>1, <1>5, <1>7 DEF FoldPrefixes
<1> QED BY <1>3, <1>8 DEF K

-----------------------------------------------------------------------------
(* What is selected of a sequence.                                         *)

\* e leads to the elements of s that t has, in order: those at the indices I.
Leads(s, t, I, e) ==
    /\ e \in [1..Len(t) -> I]
    /\ \A m, n \in 1..Len(t) : m < n => e[m] < e[n]
    /\ \A i \in I : \E n \in 1..Len(t) : e[n] = i
    /\ \A n \in 1..Len(t) : t[n] = s[e[n]]

Selects(s, t, I) == \E e : Leads(s, t, I, e)

Kept(s, K, f, i) == {j \in 1..i : s[j] \in K[f[j - 1]]}

\* A pass selects what it keeps in its steps.
LEMMA StepsSelect ==
    ASSUME NEW C, NEW s \in Seq(C), NEW K, NEW f, Steps(C, s, K, f)
    PROVE  \A i \in 0..Len(s) : Selects(s, f[i], Kept(s, K, f, i))
<1> DEFINE I(i) == {j \in 1..i : s[j] \in K[f[j - 1]]}
           Good == {i \in 0..Len(s) : Selects(s, f[i], I(i))}
<1>1. Len(s) \in Nat /\ \A i \in 1..Len(s) : s[i] \in C
  OBVIOUS
<1>2. 0 \in Good
  <2>1. f[0] = << >> /\ I(0) = {} BY DEF Steps
  <2>2. Leads(s, << >>, {}, << >>) BY DEF Leads
  <2>3. Selects(s, f[0], I(0)) BY <2>1, <2>2 DEF Selects
  <2> QED BY <1>1, <2>3
<1>3. ASSUME NEW i \in 0..(Len(s) - 1), i \in Good PROVE i + 1 \in Good
  <2>1. i + 1 \in 1..Len(s) /\ (i + 1) - 1 = i /\ i \in Nat
    BY <1>1
  <2>2. f[i] \in Seq(C) /\ s[i + 1] \in C
    <3>1. i \in 0..Len(s) BY <1>1
    <3>2. f[i] \in Seq(C) BY <3>1 DEF Steps
    <3> QED BY <3>2, <2>1, <1>1
  <2>3. f[i + 1] = IF s[i + 1] \in K[f[i]] THEN Append(f[i], s[i + 1]) ELSE f[i]
    BY <2>1 DEF Steps
  <2>4. PICK e : Leads(s, f[i], I(i), e)
    BY <1>3 DEF Selects
  <2>5. CASE s[i + 1] \notin K[f[i]]
    <3>1. I(i + 1) = I(i) BY <2>1, <2>5
    <3>2. f[i + 1] = f[i] BY <2>3, <2>5
    <3> HIDE DEF I
    <3>3. Selects(s, f[i + 1], I(i + 1)) BY <1>3, <3>1, <3>2 DEF Good
    <3> QED BY <3>3, <2>1
  <2>6. CASE s[i + 1] \in K[f[i]]
    <3> DEFINE t == f[i]
               n == Len(t)
               u == Append(t, s[i + 1])
               d == [k \in 1..(n + 1) |-> IF k = n + 1 THEN i + 1 ELSE e[k]]
    <3>1. I(i + 1) = I(i) \cup {i + 1} BY <2>1, <2>6
    <3>2. n \in Nat /\ Len(u) = n + 1 /\ u[n + 1] = s[i + 1] /\ \A k \in 1..n : u[k] = t[k]
      BY <2>2
    <3>3. \A j \in I(i) : j \in Nat /\ j < i + 1 BY <2>1
    <3>4. \A k \in 1..n : d[k] = e[k] /\ d[k] \in I(i) /\ k \in 1..(n + 1)
      BY <2>4, <3>2 DEF Leads
    <3>5. d[n + 1] = i + 1 BY <3>2
    <3> HIDE DEF I, u, n, t
    <3>6. d \in [1..Len(u) -> I(i + 1)]
      <4>1. ASSUME NEW k \in 1..(n + 1) PROVE d[k] \in I(i + 1)
        <5>1. k = n + 1 \/ k \in 1..n BY <3>2
        <5> HIDE DEF d
        <5> QED BY <5>1, <3>1, <3>4, <3>5
      <4>2. d \in [1..(n + 1) -> I(i + 1)] BY <4>1
      <4> HIDE DEF d
      <4> QED BY <4>2, <3>2
    <3> HIDE DEF d
    <3>7. \A k, l \in 1..Len(u) : k < l => d[k] < d[l]
      <4>1. ASSUME NEW k \in 1..Len(u), NEW l \in 1..Len(u), k < l PROVE d[k] < d[l]
        <5>1. k \in 1..n BY <4>1, <3>2
        <5>2. CASE l = n + 1 BY <5>1, <5>2, <3>3, <3>4, <3>5
        <5>3. CASE l \in 1..n BY <5>1, <5>3, <4>1, <3>4, <2>4 DEF Leads, n, t
        <5> QED BY <5>2, <5>3, <3>2
      <4> QED BY <4>1
    <3>8. \A j \in I(i + 1) : \E k \in 1..Len(u) : d[k] = j
      <4>1. ASSUME NEW j \in I(i) PROVE \E k \in 1..Len(u) : d[k] = j
        <5>1. PICK k \in 1..n : e[k] = j BY <2>4 DEF Leads, n, t
        <5> QED BY <5>1, <3>2, <3>4
      <4>2. n + 1 \in 1..Len(u) BY <3>2
      <4> QED BY <3>1, <3>5, <4>1, <4>2
    <3>9. \A k \in 1..Len(u) : u[k] = s[d[k]]
      <4>1. ASSUME NEW k \in 1..n PROVE u[k] = s[d[k]]
        <5>1. t[k] = s[e[k]] BY <2>4 DEF Leads, n, t
        <5> QED BY <5>1, <3>2, <3>4
      <4> QED BY <4>1, <3>2, <3>5
    <3>10. Leads(s, u, I(i + 1), d) BY <3>6, <3>7, <3>8, <3>9 DEF Leads
    <3>11. f[i + 1] = u BY <2>3, <2>6 DEF u, t
    <3>12. Selects(s, f[i + 1], I(i + 1)) BY <3>10, <3>11 DEF Selects
    <3> QED BY <3>12, <2>1
  <2> QED BY <2>5, <2>6
<1> HIDE DEF Good
<1>4. 0..Len(s) \subseteq Good BY <1>1, <1>2, <1>3, UpTo
<1> QED BY <1>4 DEF Good, Kept

\* Where the elements at J of a sequence are in the one e leads to.
Through(e, J) == {e[j] : j \in J}

\* Selecting from what was selected.
LEMMA SelectsFromSelected ==
    ASSUME NEW C, NEW s \in Seq(C), NEW t \in Seq(C), NEW u \in Seq(C),
           NEW I, I \subseteq 1..Len(s), NEW J, J \subseteq 1..Len(t), NEW e,
           Leads(s, t, I, e), Selects(t, u, J)
    PROVE  Selects(s, u, Through(e, J))
<1>0. PICK d : Leads(t, u, J, d)
  BY DEF Selects
<1> DEFINE L == [n \in 1..Len(u) |-> e[d[n]]]
           M == {e[j] : j \in J}
<1>1. \A n \in 1..Len(u) : L[n] = e[d[n]] /\ d[n] \in J /\ d[n] \in 1..Len(t) /\ L[n] \in M
  BY <1>0 DEF Leads
<1>2. L \in [1..Len(u) -> M]
  BY <1>1
<1> HIDE DEF L
<1>3. \A m, n \in 1..Len(u) : m < n => L[m] < L[n]
  BY <1>0, <1>1 DEF Leads
<1>4. \A i \in M : \E n \in 1..Len(u) : L[n] = i
  <2>1. ASSUME NEW j \in J PROVE \E n \in 1..Len(u) : L[n] = e[j]
    <3>1. PICK n \in 1..Len(u) : d[n] = j BY <1>0 DEF Leads
    <3> QED BY <3>1, <1>1
  <2> QED BY <2>1
<1>5. \A n \in 1..Len(u) : u[n] = s[L[n]]
  BY <1>0, <1>1 DEF Leads
<1> HIDE DEF M
<1>6. Selects(s, u, M)
  BY <1>2, <1>3, <1>4, <1>5 DEF Leads, Selects
<1> QED BY <1>6 DEF M, Through

\* Which elements each pass selects: those of the set,
LEMMA AmongSelects ==
    ASSUME NEW C, NEW s \in Seq(C), NEW S
    PROVE  /\ Among(s, S) \in Seq(C)
           /\ Selects(s, Among(s, S), {j \in 1..Len(s) : s[j] \in S})
<1> DEFINE K == [kept \in Seq(C) |-> C \cap S]
<1>1. PICK f : Steps(C, s, K, f) /\ Among(s, S) = f[Len(s)]
  BY AmongSteps
<1>2. Len(s) \in Nat /\ Len(s) \in 0..Len(s)
  OBVIOUS
<1>3. \A j \in 1..Len(s) : s[j] \in K[f[j - 1]] <=> s[j] \in S
  <2> SUFFICES ASSUME NEW j \in 1..Len(s) PROVE s[j] \in K[f[j - 1]] <=> s[j] \in S
    OBVIOUS
  <2>1. j - 1 \in 0..Len(s) BY <1>2
  <2>2. f[j - 1] \in Seq(C) BY <1>1, <2>1 DEF Steps
  <2> QED BY <2>2
<1>4. Selects(s, f[Len(s)], {j \in 1..Len(s) : s[j] \in K[f[j - 1]]})
  <2> HIDE DEF K
  <2>1. \A i \in 0..Len(s) : Selects(s, f[i], Kept(s, K, f, i))
    BY <1>1, StepsSelect
  <2> QED BY <2>1, <1>2 DEF Kept
<1>5. {j \in 1..Len(s) : s[j] \in K[f[j - 1]]} = {j \in 1..Len(s) : s[j] \in S}
  BY <1>3
<1>6. f[Len(s)] \in Seq(C)
  BY <1>1, <1>2 DEF Steps
<1> QED BY <1>1, <1>4, <1>5, <1>6

\* ... those that differ from the ones before them,
LEMMA DeduplicatedSelects ==
    ASSUME NEW C, NEW s \in Seq(C)
    PROVE  /\ Deduplicated(s) \in Seq(C)
           /\ Selects(s, Deduplicated(s), {j \in 1..Len(s) : \A k \in 1..(j - 1) : s[k] # s[j]})
<1> DEFINE K == [kept \in Seq(C) |-> {c \in C : ~Contains(kept, c)}]
<1>1. PICK f : Steps(C, s, K, f) /\ Deduplicated(s) = f[Len(s)]
  BY DeduplicatedSteps
<1>2. Len(s) \in Nat /\ Len(s) \in 0..Len(s) /\ \A i \in 1..Len(s) : s[i] \in C
  OBVIOUS
<1>3. \A i \in 0..Len(s) : f[i] \in Seq(C)
  BY <1>1 DEF Steps
<1>4. \A j \in 1..Len(s) : s[j] \in K[f[j - 1]] <=> ~Contains(f[j - 1], s[j])
  BY <1>2, <1>3
<1> HIDE DEF K
<1> DEFINE Known(i) == \A c \in C : Contains(f[i], c) <=> \E k \in 1..i : s[k] = c
           Good == {i \in 0..Len(s) : Known(i)}
<1>5. 0 \in Good
  <2>1. f[0] = << >> BY <1>1 DEF Steps
  <2> QED BY <2>1, <1>2 DEF Contains
<1>6. ASSUME NEW i \in 0..(Len(s) - 1), i \in Good PROVE i + 1 \in Good
  <2>1. i + 1 \in 1..Len(s) /\ (i + 1) - 1 = i /\ i \in Nat /\ f[i] \in Seq(C) /\ s[i + 1] \in C
    BY <1>2, <1>3
  <2>2. f[i + 1] = IF ~Contains(f[i], s[i + 1]) THEN Append(f[i], s[i + 1]) ELSE f[i]
    BY <1>1, <1>4, <2>1 DEF Steps
  <2>3. Known(i)
    BY <1>6
  <2>4. ASSUME NEW c \in C
        PROVE  Contains(f[i + 1], c) <=> Contains(f[i], c) \/ c = s[i + 1]
    <3>1. CASE Contains(f[i], s[i + 1])
      BY <2>2, <3>1
    <3>2. CASE ~Contains(f[i], s[i + 1])
      <4> DEFINE t == f[i]
      <4>1. f[i + 1] = Append(t, s[i + 1]) BY <2>2, <3>2
      <4>2. t \in Seq(C) BY <2>1
      <4> HIDE DEF t
      <4>3. Contains(Append(t, s[i + 1]), c) <=> Contains(t, c) \/ c = s[i + 1]
        <5>1. /\ Len(Append(t, s[i + 1])) = Len(t) + 1 /\ Len(t) \in Nat
              /\ \A k \in 1..Len(t) : Append(t, s[i + 1])[k] = t[k]
              /\ Append(t, s[i + 1])[Len(t) + 1] = s[i + 1]
          BY <4>2, <2>1
        <5>2. 1..(Len(t) + 1) = 1..Len(t) \cup {Len(t) + 1}
          BY <5>1
        <5> QED BY <5>1, <5>2 DEF Contains
      <4> QED BY <4>1, <4>3 DEF t
    <3> QED BY <3>1, <3>2
  <2>5. ASSUME NEW c \in C
        PROVE  (\E k \in 1..(i + 1) : s[k] = c) <=> (\E k \in 1..i : s[k] = c) \/ c = s[i + 1]
    <3>1. 1..(i + 1) = 1..i \cup {i + 1} BY <2>1
    <3> QED BY <3>1
  <2>6. Known(i + 1)
    BY <2>3, <2>4, <2>5
  <2> HIDE DEF Known
  <2> QED BY <2>1, <2>6
<1> HIDE DEF Good
<1>7. 0..Len(s) \subseteq Good
  BY <1>2, <1>5, <1>6, UpTo
<1>8. \A j \in 1..Len(s) : s[j] \in K[f[j - 1]] <=> \A k \in 1..(j - 1) : s[k] # s[j]
  <2> SUFFICES ASSUME NEW j \in 1..Len(s)
               PROVE  s[j] \in K[f[j - 1]] <=> \A k \in 1..(j - 1) : s[k] # s[j]
    OBVIOUS
  <2>1. j - 1 \in Good /\ s[j] \in C BY <1>2, <1>7
  <2>2. Known(j - 1) BY <2>1 DEF Good
  <2> QED BY <1>4, <2>1, <2>2
<1>9. Selects(s, f[Len(s)], {j \in 1..Len(s) : s[j] \in K[f[j - 1]]})
  <2>1. \A i \in 0..Len(s) : Selects(s, f[i], Kept(s, K, f, i))
    BY <1>1, StepsSelect
  <2> QED BY <2>1, <1>2 DEF Kept
<1>10. {j \in 1..Len(s) : s[j] \in K[f[j - 1]]}
           = {j \in 1..Len(s) : \A k \in 1..(j - 1) : s[k] # s[j]}
  BY <1>8
<1> QED BY <1>1, <1>2, <1>3, <1>9, <1>10


\* ... and those of the first tools by name.
NamesUpTo(s, i) == {s[k].toolName : k \in 1..i}

\* The names that come, each for the first time, before that of element j.
NamesBefore(s, j) ==
    {s[k].toolName : k \in {k \in 1..Len(s) :
        \A l \in 1..Len(s) : s[l].toolName = s[j].toolName => k < l}}

LEMMA NamesUpToFinite ==
    ASSUME NEW s, NEW i \in Nat
    PROVE  IsFiniteSet(NamesUpTo(s, i))
<1> DEFINE e == [k \in 1..i |-> s[k].toolName]
<1>1. IsFiniteSet(1..i)
  BY FS_Interval
<1>2. e \in Surjection(1..i, NamesUpTo(s, i))
  BY DEF Surjection, NamesUpTo
<1> HIDE DEF e
<1> QED BY <1>1, <1>2, FS_Surjection

\* A tool kept has a place, and there are places for the first max_tools names.
HasPlaces(s, kept, i) ==
    /\ ToolNames(kept) \subseteq NamesUpTo(s, i)
    /\ \/ ToolNames(kept) = NamesUpTo(s, i) /\ Cardinality(ToolNames(kept)) <= max_tools
       \/ Cardinality(ToolNames(kept)) = max_tools
    /\ \A j \in 1..i :
           s[j].toolName \in ToolNames(kept) <=> Cardinality(NamesBefore(s, j)) < max_tools

LEMMA ToolNamesOfAppend ==
    ASSUME NEW C, NEW kept \in Seq(C), NEW call \in C
    PROVE  ToolNames(Append(kept, call)) = ToolNames(kept) \cup {call.toolName}
<1>1. /\ DOMAIN Append(kept, call) = DOMAIN kept \cup {Len(kept) + 1}
      /\ \A i \in DOMAIN kept : Append(kept, call)[i] = kept[i]
      /\ Append(kept, call)[Len(kept) + 1] = call
  OBVIOUS
<1> QED BY <1>1 DEF ToolNames

\* One more element.
LEMMA PlacesStep ==
    ASSUME max_tools \in Nat, NEW C, NEW s \in Seq(C),
           NEW i \in 0..(Len(s) - 1), NEW kept \in Seq(C), HasPlaces(s, kept, i),
           NEW next, next = IF HasRoom(kept, s[i + 1]) THEN Append(kept, s[i + 1]) ELSE kept
    PROVE  /\ HasPlaces(s, next, i + 1)
           /\ HasRoom(kept, s[i + 1]) <=> Cardinality(NamesBefore(s, i + 1)) < max_tools
<1> DEFINE name == s[i + 1].toolName
           T == ToolNames(kept)
           B == NamesUpTo(s, i)
<1>1. Len(s) \in Nat /\ i \in Nat /\ i + 1 \in 1..Len(s) /\ s[i + 1] \in C
  OBVIOUS
<1>2. NamesUpTo(s, i + 1) = B \cup {name}
  <2>1. 1..(i + 1) = 1..i \cup {i + 1} BY <1>1
  <2> QED BY <2>1 DEF NamesUpTo
<1>3. IsFiniteSet(B) /\ IsFiniteSet(T) /\ Cardinality(B) \in Nat /\ Cardinality(T) \in Nat
      /\ Cardinality(T) <= Cardinality(B)
  <2>1. IsFiniteSet(B) BY <1>1, NamesUpToFinite
  <2>2. T \subseteq B BY DEF HasPlaces
  <2> HIDE DEF B, T
  <2> QED BY <2>1, <2>2, FS_Subset, FS_CardinalityType
<1>4. ToolNames(Append(kept, s[i + 1])) = T \cup {name}
  BY <1>1, ToolNamesOfAppend
<1>5. HasRoom(kept, s[i + 1]) <=> name \in T \/ Cardinality(T) < max_tools
  BY DEF HasRoom
<1>6. /\ T \subseteq B
      /\ (T = B /\ Cardinality(T) <= max_tools) \/ Cardinality(T) = max_tools
      /\ \A j \in 1..i : s[j].toolName \in T <=> Cardinality(NamesBefore(s, j)) < max_tools
  BY DEF HasPlaces
<1>7. CASE name \in B
  <2>1. PICK j \in 1..i : s[j].toolName = name
    BY <1>7 DEF NamesUpTo
  <2>2. NamesBefore(s, i + 1) = NamesBefore(s, j)
    BY <2>1 DEF NamesBefore
  <2>3. name \in T <=> Cardinality(NamesBefore(s, i + 1)) < max_tools
    BY <1>6, <2>1, <2>2
  <2> HIDE DEF name, T, B
  <2>4. name \in T <=> HasRoom(kept, s[i + 1])
    BY <1>3, <1>5, <1>6, <1>7
  <2>5. ToolNames(next) = T
    <3>1. CASE name \in T
      BY <3>1, <2>4, <1>4 DEF T
    <3>2. CASE name \notin T
      BY <3>2, <2>4 DEF T
    <3> QED BY <3>1, <3>2
  <2>6. NamesUpTo(s, i + 1) = B
    BY <1>2, <1>7
  <2>7. 1..(i + 1) = 1..i \cup {i + 1}
    BY <1>1
  <2> QED BY <1>6, <2>3, <2>4, <2>5, <2>6, <2>7 DEF HasPlaces, name
<1>8. CASE name \notin B
  <2>1. NamesBefore(s, i + 1) = B
    <3>1. ASSUME NEW k \in 1..Len(s)
          PROVE  (\A l \in 1..Len(s) : s[l].toolName = name => k < l) <=> k \in 1..i
      <4>1. ASSUME \A l \in 1..Len(s) : s[l].toolName = name => k < l PROVE k \in 1..i
        BY <4>1, <1>1
      <4>2. ASSUME k \in 1..i, NEW l \in 1..Len(s), s[l].toolName = name PROVE k < l
        <5>1. l \notin 1..i BY <1>8, <4>2 DEF NamesUpTo
        <5> QED BY <5>1, <4>2, <1>1
      <4> QED BY <4>1, <4>2
    <3>2. {k \in 1..Len(s) : \A l \in 1..Len(s) : s[l].toolName = name => k < l} = 1..i
      BY <3>1, <1>1
    <3> QED BY <3>2 DEF NamesBefore, NamesUpTo
  <2>2. \A j \in 1..i : s[j].toolName # name
    BY <1>8 DEF NamesUpTo
  <2> HIDE DEF name, T, B
  <2>3. name \notin T
    BY <1>6, <1>8
  <2>4. HasRoom(kept, s[i + 1]) <=> Cardinality(B) < max_tools
    BY <1>3, <1>5, <1>6, <2>3
  <2>5. 1..(i + 1) = 1..i \cup {i + 1}
    BY <1>1
  <2>6. CASE HasRoom(kept, s[i + 1])
    <3>1. T = B /\ Cardinality(T) < max_tools
      BY <1>3, <1>5, <1>6, <2>3, <2>6
    <3>2. ToolNames(next) = T \cup {name}
      BY <1>4, <2>6
    <3>3. Cardinality(T \cup {name}) = Cardinality(T) + 1
      BY <1>3, <2>3, FS_AddElement
    <3>4. Cardinality(T \cup {name}) <= max_tools
      BY <1>3, <3>1, <3>3
    <3>5. \A j \in 1..i : s[j].toolName \in T \cup {name} <=> s[j].toolName \in T
      BY <2>2
    <3>6. s[i + 1].toolName \in T \cup {name} /\ Cardinality(NamesBefore(s, i + 1)) < max_tools
      BY <2>1, <3>1 DEF name
    <3> QED BY <1>2, <1>6, <2>1, <2>4, <2>5, <3>1, <3>2, <3>4, <3>5, <3>6 DEF HasPlaces
  <2>7. CASE ~HasRoom(kept, s[i + 1])
    <3>1. ToolNames(next) = T
      BY <2>7 DEF T
    <3>2. Cardinality(T) = max_tools
      BY <1>3, <1>5, <1>6, <2>3, <2>7
    <3>3. s[i + 1].toolName \notin T /\ ~(Cardinality(NamesBefore(s, i + 1)) < max_tools)
      BY <2>1, <2>3, <2>4, <2>7 DEF name
    <3> QED BY <1>2, <1>6, <2>1, <2>4, <2>5, <2>7, <3>1, <3>2, <3>3 DEF HasPlaces
  <2> QED BY <2>6, <2>7
<1> QED BY <1>7, <1>8

LEMMA CappedSelects ==
    ASSUME max_tools \in Nat, max_tools # NoLimit, NEW C, NEW s \in Seq(C)
    PROVE  /\ Capped(s) \in Seq(C)
           /\ Selects(s, Capped(s), {j \in 1..Len(s) : Cardinality(NamesBefore(s, j)) < max_tools})
<1> DEFINE K == [kept \in Seq(C) |-> {c \in C : HasRoom(kept, c)}]
<1>1. PICK f : Steps(C, s, K, f) /\ Capped(s) = f[Len(s)]
  BY CappedSteps
<1>2. Len(s) \in Nat /\ Len(s) \in 0..Len(s) /\ \A i \in 1..Len(s) : s[i] \in C
  OBVIOUS
<1>3. \A i \in 0..Len(s) : f[i] \in Seq(C)
  BY <1>1 DEF Steps
<1>4. \A j \in 1..Len(s) : s[j] \in K[f[j - 1]] <=> HasRoom(f[j - 1], s[j])
  BY <1>2, <1>3
<1> HIDE DEF K
<1> DEFINE Good == {i \in 0..Len(s) : HasPlaces(s, f[i], i)}
<1>5. 0 \in Good
  <2>1. f[0] = << >> /\ 1..0 = {} BY <1>1 DEF Steps
  <2>2. ToolNames(f[0]) = {} /\ NamesUpTo(s, 0) = {} BY <2>1 DEF ToolNames, NamesUpTo
  <2>3. Cardinality({}) = 0 BY FS_EmptySet
  <2>4. 0 <= max_tools /\ \A j \in 1..0 : FALSE BY <2>1
  <2>5. HasPlaces(s, f[0], 0) BY <2>2, <2>3, <2>4 DEF HasPlaces
  <2> QED BY <2>5, <1>2
<1>6. ASSUME NEW i \in 0..(Len(s) - 1), HasPlaces(s, f[i], i)
      PROVE  /\ HasPlaces(s, f[i + 1], i + 1)
             /\ HasRoom(f[i], s[i + 1]) <=> Cardinality(NamesBefore(s, i + 1)) < max_tools
  <2>1. i + 1 \in 1..Len(s) /\ (i + 1) - 1 = i /\ i \in 0..Len(s)
    BY <1>2
  <2>2. f[i + 1] = IF HasRoom(f[i], s[i + 1]) THEN Append(f[i], s[i + 1]) ELSE f[i]
    BY <1>1, <1>4, <2>1 DEF Steps
  <2>3. f[i] \in Seq(C)
    BY <1>3, <2>1
  <2> QED BY <1>6, <2>2, <2>3, PlacesStep
<1>7. \A i \in 0..(Len(s) - 1) : i \in Good => i + 1 \in Good
  BY <1>2, <1>6
<1> HIDE DEF Good
<1>8. 0..Len(s) \subseteq Good
  BY <1>2, <1>5, <1>7, UpTo
<1>9. \A j \in 1..Len(s) : s[j] \in K[f[j - 1]] <=> Cardinality(NamesBefore(s, j)) < max_tools
  <2> SUFFICES ASSUME NEW j \in 1..Len(s)
               PROVE  s[j] \in K[f[j - 1]] <=> Cardinality(NamesBefore(s, j)) < max_tools
    OBVIOUS
  <2>1. j - 1 \in 0..(Len(s) - 1) /\ (j - 1) + 1 = j /\ j - 1 \in Good
    BY <1>2, <1>8
  <2>2. HasPlaces(s, f[j - 1], j - 1)
    BY <2>1 DEF Good
  <2> QED BY <1>4, <1>6, <2>1, <2>2
<1>10. Selects(s, f[Len(s)], {j \in 1..Len(s) : s[j] \in K[f[j - 1]]})
  <2>1. \A i \in 0..Len(s) : Selects(s, f[i], Kept(s, K, f, i))
    BY <1>1, StepsSelect
  <2> QED BY <2>1, <1>2 DEF Kept
<1>11. {j \in 1..Len(s) : s[j] \in K[f[j - 1]]}
           = {j \in 1..Len(s) : Cardinality(NamesBefore(s, j)) < max_tools}
  BY <1>9
<1> QED BY <1>1, <1>2, <1>3, <1>10, <1>11


-----------------------------------------------------------------------------
(* The theorems.                                                           *)

Answers == [toolName : Names, input : Inputs \cup {<< >>}]

LEMMA ExtractedType ==
    ASSUME NEW response \in Seq(Calls)
    PROVE  Extracted(response) \in Seq(Answers)
<1> DEFINE known == Among(response, {call \in Range(response) : Available(call.toolName)})
           answerOf(i) == [toolName |-> known[i].toolName,
                           input |-> IF known[i].input = NotAnInput THEN << >> ELSE known[i].input]
<1>1. known \in Seq(Calls)
  BY AmongSelects
<1>2. Extracted(response) = [i \in DOMAIN known |-> answerOf(i)]
  BY DEF Extracted
<1> HIDE DEF known
<1>3. Len(known) \in Nat /\ DOMAIN known = 1..Len(known) /\ \A i \in DOMAIN known : known[i] \in Calls
  BY <1>1
<1>4. \A i \in 1..Len(known) : answerOf(i) \in Answers
  BY <1>3 DEF Calls, Answers
<1> HIDE DEF answerOf
<1> QED BY <1>2, <1>3, <1>4

LEMMA SanitizedType ==
    ASSUME TypeOK
    PROVE  Sanitized(calls) \in Seq(Answers)
<1>1. Extracted(calls) \in Seq(Answers)
  BY ExtractedType DEF TypeOK
<1>2. Validated(Extracted(calls)) \in Seq(Answers)
  BY <1>1, AmongSelects DEF Validated
<1>3. Deduplicated(Validated(Extracted(calls))) \in Seq(Answers)
  BY <1>2, DeduplicatedSelects
<1>4. CASE max_tools = NoLimit
  BY <1>3, <1>4 DEF Sanitized, Capped
<1>5. CASE max_tools # NoLimit
  <2>1. max_tools \in Nat
    BY <1>5 DEF TypeOK
  <2> QED BY <1>3, <1>5, <2>1, CappedSelects DEF Sanitized
<1> QED BY <1>4, <1>5

\* The tools of a ConfigMap on offer are some of its tools.
LEMMA FilteredNames ==
    ASSUME NEW map \in ConfigMaps, NEW selectors
    PROVE  \A i \in DOMAIN Filtered(map, selectors) : Filtered(map, selectors)[i].name \in Names
<1> DEFINE C == Range(map.tools)
<1>1. map.tools \in Seq(C) /\ \A tool \in C : tool.name \in Names
  BY UiToolsAssumption
<1> HIDE DEF C
<1>2. Parsed(map) \in Seq(C)
  BY <1>1, AmongSelects DEF Parsed
<1>3. Filtered(map, selectors) \in Seq(C)
  BY <1>2, AmongSelects DEF Filtered
<1> QED BY <1>1, <1>3

LEMMA TypeInductive == TypeOK /\ [Next]_vars => TypeOK'
<1> SUFFICES ASSUME TypeOK, [Next]_vars PROVE TypeOK'
  OBVIOUS
<1>1. ASSUME NEW map \in ConfigMaps, NEW selectors \in Selectors, Begin(map, selectors)
      PROVE  TypeOK'
  <2>1. \A i \in DOMAIN tools' : tools'[i].name \in Names
    <3>1. CASE tools' = << >> BY <3>1
    <3>2. CASE tools' = Filtered(map, selectors) BY <3>2, FilteredNames
    <3> QED BY <1>1, <3>1, <3>2 DEF Begin
  <2>2. max_tools' \in Nat \cup {NoLimit}
    <3>1. Limit(map.maxTools) \in Nat \cup {NoLimit} BY UiToolsAssumption DEF Limit
    <3> QED BY <1>1, <3>1 DEF Begin
  <2>3. at' \in {"idle", "selecting"} /\ calls' = << >> /\ answer' = << >>
    BY <1>1 DEF Begin
  <2>4. MaxCalls \in Nat
    BY UiToolsAssumption
  <2> QED BY <2>1, <2>2, <2>3, <2>4 DEF TypeOK
<1>2. ASSUME NEW call \in Calls, LlmCalls(call) PROVE TypeOK'
  <2>1. calls' \in Seq(Calls) /\ Len(calls') <= MaxCalls
    BY <1>2, UiToolsAssumption DEF LlmCalls, TypeOK
  <2> QED BY <1>2, <2>1 DEF LlmCalls, TypeOK
<1>3. ASSUME SelectTools PROVE TypeOK'
  <2>1. answer' \in Seq(Answers)
    BY <1>3, SanitizedType DEF SelectTools
  <2> QED BY <1>3, <2>1, UiToolsAssumption DEF SelectTools, TypeOK, Answers
<1>4. ASSUME SelectionFails PROVE TypeOK'
  BY <1>4, UiToolsAssumption DEF SelectionFails, TypeOK
<1>5. CASE UNCHANGED vars
  BY <1>5 DEF vars, TypeOK
<1> QED BY <1>1, <1>2, <1>3, <1>4, <1>5 DEF Next

\* TypeOK is an invariant: whatever the LLM calls and the ConfigMap holds, what is
\* answered are calls of known tools, with an object for their input.
THEOREM TypeCorrect == Spec => []TypeOK
<1>1. Init => TypeOK
  BY UiToolsAssumption DEF Init, TypeOK
<1> QED BY <1>1, TypeInductive, PTL DEF Spec

\* Each index has a first one with the same element.
LEMMA HasFirst ==
    ASSUME NEW g, NEW valid, valid \subseteq Nat, NEW i \in valid
    PROVE  \E j \in valid : /\ g[j] = g[i] /\ j <= i
                            /\ \A k \in valid : g[k] = g[j] => j <= k
<1> DEFINE Same == {k \in valid : g[k] = g[i]}
<1>1. Same \subseteq Nat /\ i \in Same
  OBVIOUS
<1>2. PICK j \in Same : \A k \in Same : j <= k
  <2> HIDE DEF Same
  <2> QED BY <1>1, HasLeast
<1> QED BY <1>1, <1>2


\* The parts of SelectsFirstValid: the valid calls of those given, the first of
\* equal ones, the names before a call's, and the calls that are kept.
ValidOf(g) == {i \in DOMAIN g : Valid(g[i])}
FirstOf(g) == {i \in ValidOf(g) : \A j \in ValidOf(g) : g[j] = g[i] => i <= j}
BeforeOf(g, i) ==
    {g[j].toolName : j \in {k \in ValidOf(g) :
        \A l \in ValidOf(g) : g[l].toolName = g[i].toolName => k < l}}
KeptOf(g) ==
    {i \in FirstOf(g) : max_tools = NoLimit \/ Cardinality(BeforeOf(g, i)) < max_tools}

\* Validation and deduplication lead to the first of equal valid calls.
LEMMA FirstSelected ==
    ASSUME NEW g \in Seq(Answers)
    PROVE  /\ Deduplicated(Validated(g)) \in Seq(Answers)
           /\ Selects(g, Deduplicated(Validated(g)), FirstOf(g))
<1> DEFINE v == Validated(g)
           d == Deduplicated(v)
           J == {j \in 1..Len(v) : \A k \in 1..(j - 1) : v[k] # v[j]}
           S == {call \in Range(g) : Valid(call)}
<1>1. DOMAIN g = 1..Len(g) /\ Len(g) \in Nat
  OBVIOUS
<1>2. v \in Seq(Answers) /\ Selects(g, v, {j \in 1..Len(g) : g[j] \in S})
  <2> HIDE DEF S
  <2> QED BY AmongSelects DEF Validated, S
<1>3. {j \in 1..Len(g) : g[j] \in S} = ValidOf(g)
  BY <1>1 DEF ValidOf, Range
<1>4. PICK e : Leads(g, v, ValidOf(g), e)
  BY <1>2, <1>3 DEF Selects
<1> HIDE DEF v, S
<1>5. d \in Seq(Answers) /\ Selects(v, d, J)
  BY <1>2, DeduplicatedSelects
<1>7. Len(v) \in Nat /\ ValidOf(g) \subseteq 1..Len(g)
  BY <1>1, <1>2 DEF ValidOf
<1>8. Through(e, J) = FirstOf(g)
  <2>1. ASSUME NEW j \in J PROVE e[j] \in FirstOf(g)
    <3>1. e[j] \in ValidOf(g) /\ v[j] = g[e[j]]
      BY <1>4 DEF Leads
    <3>2. ASSUME NEW k \in ValidOf(g), g[k] = g[e[j]] PROVE e[j] <= k
      <4>1. PICK m \in 1..Len(v) : e[m] = k /\ v[m] = g[k]
        BY <1>4 DEF Leads
      <4>2. ~(m < j)
        <5>1. SUFFICES ASSUME m < j PROVE FALSE OBVIOUS
        <5>2. m \in 1..(j - 1) BY <1>7, <5>1
        <5> QED BY <3>1, <3>2, <4>1, <5>2
      <4>3. m = j \/ j < m
        BY <1>7, <4>2
      <4>4. e[j] = e[m] \/ e[j] < e[m]
        BY <1>4, <4>3 DEF Leads
      <4> QED BY <1>7, <3>1, <4>1, <4>4
    <3> QED BY <3>1, <3>2 DEF FirstOf
  <2>2. ASSUME NEW i \in FirstOf(g) PROVE \E j \in J : e[j] = i
    <3>1. i \in ValidOf(g) /\ \A k \in ValidOf(g) : g[k] = g[i] => i <= k
      BY DEF FirstOf
    <3>2. PICK j \in 1..Len(v) : e[j] = i /\ v[j] = g[i]
      BY <1>4, <3>1 DEF Leads
    <3>3. ASSUME NEW k \in 1..(j - 1) PROVE v[k] # v[j]
      <4>1. k \in 1..Len(v) /\ k < j BY <1>7
      <4>2. e[k] < e[j] /\ e[k] \in ValidOf(g) /\ v[k] = g[e[k]] BY <1>4, <4>1 DEF Leads
      <4>3. ~(i <= e[k]) BY <1>7, <3>1, <3>2, <4>2
      <4> QED BY <3>1, <3>2, <4>2, <4>3
    <3> QED BY <3>2, <3>3
  <2> QED BY <2>1, <2>2 DEF Through
<1>9. J \subseteq 1..Len(v)
  OBVIOUS
<1> HIDE DEF J, d
<1>10. Selects(g, d, Through(e, J))
  BY <1>2, <1>4, <1>5, <1>7, <1>9, SelectsFromSelected
<1> QED BY <1>5, <1>8, <1>10 DEF d, v

\* The names before an element of those are the names before its call.
LEMMA NamesBeforeFirst ==
    ASSUME NEW g \in Seq(Answers), NEW d \in Seq(Answers), NEW e, Leads(g, d, FirstOf(g), e),
           NEW j \in 1..Len(d)
    PROVE  NamesBefore(d, j) = BeforeOf(g, e[j])
<1>1. Len(d) \in Nat /\ ValidOf(g) \subseteq Nat
  BY DEF ValidOf
<1>2. \A n \in 1..Len(d) : e[n] \in FirstOf(g) /\ e[n] \in ValidOf(g) /\ d[n] = g[e[n]] /\ e[n] \in Nat
  BY <1>1 DEF Leads, FirstOf
<1>3. \A i \in ValidOf(g) : \E n \in 1..Len(d) : d[n] = g[i] /\ e[n] <= i
  <2> SUFFICES ASSUME NEW i \in ValidOf(g) PROVE \E n \in 1..Len(d) : d[n] = g[i] /\ e[n] <= i
    OBVIOUS
  <2>1. PICK k \in ValidOf(g) : /\ g[k] = g[i] /\ k <= i
                                /\ \A l \in ValidOf(g) : g[l] = g[k] => k <= l
    BY <1>1, HasFirst
  <2>2. k \in FirstOf(g)
    BY <2>1 DEF FirstOf
  <2>3. PICK n \in 1..Len(d) : e[n] = k
    BY <2>2 DEF Leads
  <2> QED BY <1>2, <2>1, <2>3
<1>4. \A m, n \in 1..Len(d) : m < n <=> e[m] < e[n]
  <2> SUFFICES ASSUME NEW m \in 1..Len(d), NEW n \in 1..Len(d) PROVE m < n <=> e[m] < e[n]
    OBVIOUS
  <2>1. m < n => e[m] < e[n] BY DEF Leads
  <2>2. n < m => e[n] < e[m] BY DEF Leads
  <2>3. m < n \/ n < m \/ m = n BY <1>1
  <2> QED BY <1>2, <2>1, <2>2, <2>3
<1>5. ASSUME NEW k \in 1..Len(d), \A l \in 1..Len(d) : d[l].toolName = d[j].toolName => k < l
      PROVE  d[k].toolName \in BeforeOf(g, e[j])
  <2>1. ASSUME NEW l \in ValidOf(g), g[l].toolName = g[e[j]].toolName PROVE e[k] < l
    <3>1. PICK n \in 1..Len(d) : d[n] = g[l] /\ e[n] <= l BY <1>3
    <3>2. k < n BY <1>2, <1>5, <2>1, <3>1
    <3>3. e[k] < e[n] BY <1>4, <3>2
    <3> QED BY <1>1, <1>2, <3>1, <3>3
  <2>2. e[k] \in ValidOf(g) /\ d[k] = g[e[k]]
    BY <1>2
  <2> QED BY <2>1, <2>2 DEF BeforeOf
<1>6. ASSUME NEW k \in ValidOf(g),
             \A l \in ValidOf(g) : g[l].toolName = g[e[j]].toolName => k < l
      PROVE  g[k].toolName \in NamesBefore(d, j)
  <2>1. PICK n \in 1..Len(d) : d[n] = g[k] /\ e[n] <= k
    BY <1>3
  <2>2. ASSUME NEW l \in 1..Len(d), d[l].toolName = d[j].toolName PROVE n < l
    <3>1. k < e[l] BY <1>2, <1>6, <2>2
    <3>2. e[n] < e[l] BY <1>1, <1>2, <2>1, <3>1
    <3> QED BY <1>4, <3>2
  <2> QED BY <2>1, <2>2 DEF NamesBefore
<1> QED BY <1>5, <1>6 DEF NamesBefore, BeforeOf

\* The calls answered are the ones that are kept of those given, in order.
LEMMA KeptSelected ==
    ASSUME TypeOK
    PROVE  Selects(Extracted(calls), Sanitized(calls), KeptOf(Extracted(calls)))
<1> DEFINE g == Extracted(calls)
           d == Deduplicated(Validated(g))
           c == Capped(d)
<1>1. g \in Seq(Answers)
  BY ExtractedType DEF TypeOK
<1>2. Sanitized(calls) = c
  BY DEF Sanitized
<1> HIDE DEF g, d
<1>3. d \in Seq(Answers) /\ Selects(g, d, FirstOf(g))
  BY <1>1, FirstSelected DEF d
<1>4. PICK e : Leads(g, d, FirstOf(g), e)
  BY <1>3 DEF Selects
<1>5. CASE max_tools = NoLimit
  <2>1. c = d BY <1>5 DEF Capped
  <2>2. KeptOf(g) = FirstOf(g) BY <1>5 DEF KeptOf
  <2> QED BY <1>2, <1>3, <2>1, <2>2 DEF g
<1>6. CASE max_tools # NoLimit
  <2> DEFINE J == {j \in 1..Len(d) : Cardinality(NamesBefore(d, j)) < max_tools}
  <2>1. max_tools \in Nat
    BY <1>6 DEF TypeOK
  <2>2. c \in Seq(Answers) /\ Selects(d, c, J)
    BY <1>3, <1>6, <2>1, CappedSelects
  <2>4. Through(e, J) = KeptOf(g)
    <3>1. \A j \in 1..Len(d) : NamesBefore(d, j) = BeforeOf(g, e[j])
      BY <1>1, <1>3, <1>4, NamesBeforeFirst
    <3>2. \A j \in 1..Len(d) : e[j] \in FirstOf(g)
      BY <1>4 DEF Leads
    <3>3. \A i \in FirstOf(g) : \E j \in 1..Len(d) : e[j] = i
      BY <1>4 DEF Leads
    <3> QED BY <1>6, <3>1, <3>2, <3>3 DEF KeptOf, Through
  <2>5. FirstOf(g) \subseteq 1..Len(g) /\ J \subseteq 1..Len(d)
    BY <1>1 DEF FirstOf, ValidOf
  <2> HIDE DEF J, c
  <2>6. Selects(g, c, Through(e, J))
    BY <1>1, <1>3, <1>4, <2>2, <2>5, SelectsFromSelected
  <2> QED BY <1>2, <2>4, <2>6 DEF g
<1> QED BY <1>5, <1>6

\* For every response: the calls that are answered are the valid ones, each once,
\* of the first tools by name, so that no invalid or repeated call, of which there
\* may be any number before, takes the place of a tool.
THEOREM FirstValidSelected == Spec => []SelectsFirstValid
<1>1. TypeOK => SelectsFirstValid
  <2> SUFFICES ASSUME TypeOK PROVE SelectsFirstValid
    OBVIOUS
  <2> DEFINE g == Extracted(calls)
             c == Sanitized(calls)
  <2>1. PICK e : Leads(g, c, KeptOf(g), e)
    BY KeptSelected DEF Selects
  <2>2. DOMAIN c = 1..Len(c) /\ c \in Seq(Answers)
    BY SanitizedType
  <2> HIDE DEF g, c
  <2>3. e \in [DOMAIN c -> KeptOf(g)] /\ \A m, n \in DOMAIN c : m < n => e[m] < e[n]
    BY <2>1, <2>2 DEF Leads
  <2>4. Range(e) = KeptOf(g)
    BY <2>1, <2>2, <2>3 DEF Leads, Range
  <2>5. c = [n \in DOMAIN c |-> g[e[n]]]
    BY <2>1, <2>2 DEF Leads
  <2> QED BY <2>3, <2>4, <2>5 DEF SelectsFirstValid, KeptOf, FirstOf, BeforeOf, ValidOf, g, c
<1> QED BY <1>1, TypeCorrect, PTL


=============================================================================
