---------------------------- MODULE DataTheorems ----------------------------
(***************************************************************************)
(* Facts about the data that the models are made of, for all the proofs.   *)
(*                                                                         *)
(* Sums: SumFunctionOnSet is recursive over the subsets of its set.  First *)
(* it is shown that exactly one function solves the recursion (SumsUp),    *)
(* then what the sum of a set has to do with the sum of a smaller one.     *)
(* Where induction over finite sets is needed a smallest counterexample is *)
(* taken (Smallest), and over numbers a least one (Least, UpTo).           *)
(*                                                                         *)
(* Sequences: of elements of no particular set (IsSeq), and what           *)
(* FlattenSeq makes of a sequence of them (IsSeqs): it is built up part by *)
(* part (Part), so that a change of one part can be followed through.      *)
(***************************************************************************)
EXTENDS Integers, FiniteSets, Functions, Sequences, SequencesExt,
        FiniteSetTheorems, SequenceTheorems, TLAPS

Pick(s) == CHOOSE x \in s : TRUE

\* The recursion of SumFunctionOnSet.
SumsUp(g, w, S) ==
    g = [s \in SUBSET S |-> IF s = {} THEN 0 ELSE w[Pick(s)] + g[s \ {Pick(s)}]]

LEMMA Picked ==
    ASSUME NEW s, s # {}
    PROVE  Pick(s) \in s
BY DEF Pick

\* A set of finite sets has a smallest one: no set in it is a proper part.
LEMMA Smallest ==
    ASSUME NEW S, IsFiniteSet(S), NEW Bad \in SUBSET SUBSET S, Bad # {}
    PROVE  \E T \in Bad : \A U \in SUBSET T : U # T => U \notin Bad
<1>1. FiniteSubsetsOf(S) = SUBSET S
  BY FS_FiniteSubsetsOfFinite
<1>2. IsWellFoundedOn(StrictSubsetOrdering(S), SUBSET S)
  BY <1>1, FS_StrictSubsetOrderingWellFounded
<1>3. PICK T \in Bad : \A U \in Bad : ~(<<U, T>> \in StrictSubsetOrdering(S))
  BY <1>2, WFMin
<1>4. ASSUME NEW U \in SUBSET T, U # T, U \in Bad PROVE FALSE
  <2>1. <<U, T>> \in StrictSubsetOrdering(S)
    BY <1>4 DEF StrictSubsetOrdering
  <2> QED BY <2>1, <1>3, <1>4
<1> QED BY <1>3, <1>4

\* A set of numbers has a least one.
LEMMA Least ==
    ASSUME NEW n \in Nat, NEW Bad \in SUBSET (0 .. n), Bad # {}
    PROVE  \E i \in Bad : \A j \in 0 .. i - 1 : j \notin Bad
<1> DEFINE Below(i) == {j \in 0 .. n : j < i}
           Sets == {Below(i) : i \in Bad}
<1>1. IsFiniteSet(0 .. n)
  BY FS_Interval
<1>2. Sets \in SUBSET SUBSET (0 .. n) /\ Sets # {}
  OBVIOUS
<1>3. PICK T \in Sets : \A U \in SUBSET T : U # T => U \notin Sets
  <2> HIDE DEF Sets
  <2> QED BY <1>1, <1>2, Smallest
<1>4. PICK i \in Bad : T = Below(i)
  OBVIOUS
<1>5. ASSUME NEW j \in 0 .. i - 1, j \in Bad PROVE FALSE
  <2>1. i \in 0 .. n /\ j \in 0 .. n /\ j < i
    BY <1>5
  <2>2. Below(j) \in SUBSET Below(i)
    BY <2>1
  <2>3. j \in Below(i) /\ j \notin Below(j)
    BY <2>1
  <2>4. Below(j) \in Sets
    BY <1>5
  <2> HIDE DEF Below, Sets
  <2> QED BY <1>3, <1>4, <2>2, <2>3, <2>4
<1> QED BY <1>5

\* Induction up to a bound, for a set of numbers.
LEMMA UpTo ==
    ASSUME NEW n \in Nat, NEW G, 0 \in G, \A i \in 1 .. n : i - 1 \in G => i \in G
    PROVE  0 .. n \subseteq G
<1> DEFINE Bad == {i \in 0 .. n : i \notin G}
<1>1. SUFFICES ASSUME Bad # {} PROVE FALSE
  OBVIOUS
<1>2. PICK i \in Bad : \A j \in 0 .. i - 1 : j \notin Bad
  <2>1. Bad \in SUBSET (0 .. n)
    OBVIOUS
  <2> HIDE DEF Bad
  <2> QED BY <2>1, <1>1, Least
<1>3. i \in 0 .. n /\ i \notin G
  OBVIOUS
<1>4. i # 0
  BY <1>3
<1>5. i \in 1 .. n /\ i - 1 \in 0 .. n /\ i - 1 \in 0 .. i - 1
  BY <1>3, <1>4
<1>6. i - 1 \in G
  BY <1>2, <1>5
<1> QED BY <1>3, <1>5, <1>6


LEMMA SumsUpUnique ==
    ASSUME NEW S, IsFiniteSet(S), NEW T \in SUBSET S, NEW w, NEW g, NEW h,
           SumsUp(g, w, S), SumsUp(h, w, T)
    PROVE  \A s \in SUBSET T : g[s] = h[s]
<1> DEFINE Bad == {s \in SUBSET T : g[s] # h[s]}
<1>1. SUFFICES ASSUME Bad # {} PROVE FALSE
  OBVIOUS
<1>2. IsFiniteSet(T)
  BY FS_Subset
<1>3. PICK s \in Bad : \A u \in SUBSET s : u # s => u \notin Bad
  <2>1. Bad \in SUBSET SUBSET T
    OBVIOUS
  <2> HIDE DEF Bad
  <2> QED BY <2>1, <1>1, <1>2, Smallest
<1>4. s \in SUBSET T /\ s \in SUBSET S /\ g[s] # h[s]
  OBVIOUS
<1>5. CASE s = {}
  <2>1. g[s] = 0 /\ h[s] = 0
    BY <1>4, <1>5 DEF SumsUp
  <2> QED BY <2>1, <1>4
<1>6. CASE s # {}
  <2> DEFINE u == s \ {Pick(s)}
  <2>1. u \in SUBSET s /\ u # s
    BY <1>6, Picked
  <2>2. g[u] = h[u]
    BY <2>1, <1>3, <1>4
  <2>3. g[s] = w[Pick(s)] + g[u] /\ h[s] = w[Pick(s)] + h[u]
    BY <1>4, <1>6 DEF SumsUp
  <2> QED BY <2>2, <2>3, <1>4
<1> QED BY <1>5, <1>6

LEMMA SumsUpExists ==
    ASSUME NEW S, IsFiniteSet(S), NEW w
    PROVE  \E g : SumsUp(g, w, S)
<1> DEFINE Bad == {T \in SUBSET S : ~\E g : SumsUp(g, w, T)}
<1>1. SUFFICES ASSUME Bad # {} PROVE FALSE
  OBVIOUS
<1>2. PICK T \in Bad : \A U \in SUBSET T : U # T => U \notin Bad
  <2>1. Bad \in SUBSET SUBSET S
    OBVIOUS
  <2> HIDE DEF Bad
  <2> QED BY <2>1, <1>1, Smallest
<1> DEFINE G(U) == CHOOSE g : SumsUp(g, w, U)
           h == [s \in SUBSET T |-> IF s = {} THEN 0
                                    ELSE w[Pick(s)] + G(s \ {Pick(s)})[s \ {Pick(s)}]]
<1>3. ASSUME NEW U \in SUBSET T, U # T
      PROVE  SumsUp(G(U), w, U) /\ IsFiniteSet(U)
  <2>1. \E g : SumsUp(g, w, U)
    BY <1>2, <1>3
  <2>2. IsFiniteSet(U)
    BY FS_Subset
  <2> QED BY <2>1, <2>2
<1>4. ASSUME NEW U \in SUBSET T, U # T
      PROVE  h[U] = G(U)[U]
  <2>1. CASE U = {}
    <3>1. h[U] = 0
      BY <2>1
    <3>2. G(U)[U] = 0
      <4> HIDE DEF G
      <4> QED BY <2>1, <1>3, <1>4 DEF SumsUp
    <3> QED BY <3>1, <3>2
  <2>2. CASE U # {}
    <3> DEFINE V == U \ {Pick(U)}
    <3>1. V \in SUBSET U /\ V \in SUBSET T /\ V # T /\ U \in SUBSET U
      BY <2>2, Picked
    <3>2. h[U] = w[Pick(U)] + G(V)[V]
      <4> HIDE DEF G
      <4> QED BY <2>2
    <3>3. G(U)[U] = w[Pick(U)] + G(U)[V]
      <4> HIDE DEF G
      <4> QED BY <2>2, <1>3, <1>4 DEF SumsUp
    <3>4. G(U)[V] = G(V)[V]
      <4>1. SumsUp(G(U), w, U) /\ IsFiniteSet(U) /\ SumsUp(G(V), w, V)
        BY <1>3, <1>4, <3>1
      <4>2. V \in SUBSET V
        OBVIOUS
      <4> HIDE DEF G, V
      <4> QED BY <4>1, <4>2, <3>1, SumsUpUnique
    <3> QED BY <3>2, <3>3, <3>4
  <2> QED BY <2>1, <2>2
<1>5. SumsUp(h, w, T)
  <2>1. ASSUME NEW s \in SUBSET T, s # {}
        PROVE  h[s] = w[Pick(s)] + h[s \ {Pick(s)}]
    <3>1. s \ {Pick(s)} \in SUBSET T /\ s \ {Pick(s)} # T
      BY <2>1, Picked
    <3>2. h[s] = w[Pick(s)] + G(s \ {Pick(s)})[s \ {Pick(s)}]
      <4> HIDE DEF G
      <4> QED BY <2>1
    <3> HIDE DEF h, G
    <3> QED BY <3>1, <3>2, <1>4
  <2>2. h[{}] = 0
    OBVIOUS
  <2>3. h = [s \in SUBSET T |-> h[s]]
    OBVIOUS
  <2> HIDE DEF h
  <2> QED BY <2>1, <2>2, <2>3 DEF SumsUp
<1> QED BY <1>5, <1>2
-----------------------------------------------------------------------------
LEMMA SumIsChosen ==
    ASSUME NEW w, NEW S
    PROVE  SumFunctionOnSet(w, S) = (CHOOSE g : SumsUp(g, w, S))[S]
BY Zenon DEF SumFunctionOnSet, FoldFunctionOnSet, MapThenFoldSet, SumsUp, Pick

\* The sum of a set is what any solution of the recursion, also one for a
\* larger set, says of it.
LEMMA SumOf ==
    ASSUME NEW S, IsFiniteSet(S), NEW w, NEW g, SumsUp(g, w, S), NEW T \in SUBSET S
    PROVE  SumFunctionOnSet(w, T) = g[T]
<1> DEFINE h == CHOOSE k : SumsUp(k, w, T)
<1>1. IsFiniteSet(T)
  BY FS_Subset
<1>2. SumsUp(h, w, T)
  BY <1>1, SumsUpExists
<1>3. SumFunctionOnSet(w, T) = h[T]
  BY SumIsChosen
<1> HIDE DEF h
<1>4. T \in SUBSET T
  OBVIOUS
<1> QED BY <1>2, <1>3, <1>4, SumsUpUnique

LEMMA SumEmpty ==
    ASSUME NEW w
    PROVE  SumFunctionOnSet(w, {}) = 0
<1>1. IsFiniteSet({})
  BY FS_EmptySet
<1>2. PICK g : SumsUp(g, w, {})
  BY <1>1, SumsUpExists
<1>3. g[{}] = 0
  BY <1>2 DEF SumsUp
<1>4. {} \in SUBSET {}
  OBVIOUS
<1> QED BY <1>1, <1>2, <1>3, <1>4, SumOf

LEMMA SumPicks ==
    ASSUME NEW S, IsFiniteSet(S), S # {}, NEW w
    PROVE  SumFunctionOnSet(w, S) = w[Pick(S)] + SumFunctionOnSet(w, S \ {Pick(S)})
<1>1. PICK g : SumsUp(g, w, S)
  BY SumsUpExists
<1>2. g[S] = w[Pick(S)] + g[S \ {Pick(S)}]
  BY <1>1 DEF SumsUp
<1>3. S \in SUBSET S /\ S \ {Pick(S)} \in SUBSET S
  OBVIOUS
<1>4. SumFunctionOnSet(w, S) = g[S]
  BY <1>1, <1>3, SumOf
<1>5. SumFunctionOnSet(w, S \ {Pick(S)}) = g[S \ {Pick(S)}]
  BY <1>1, <1>3, SumOf
<1> QED BY <1>2, <1>4, <1>5
-----------------------------------------------------------------------------
(***************************************************************************)
(* Laws of sums.                                                           *)
(***************************************************************************)

LEMMA SumType ==
    ASSUME NEW S, IsFiniteSet(S), NEW w, NEW Num, Num \in {Nat, Int},
           \A x \in S : w[x] \in Num
    PROVE  SumFunctionOnSet(w, S) \in Num
<1> DEFINE Bad == {T \in SUBSET S : SumFunctionOnSet(w, T) \notin Num}
<1>1. SUFFICES ASSUME Bad # {} PROVE FALSE
  OBVIOUS
<1>2. PICK T \in Bad : \A U \in SUBSET T : U # T => U \notin Bad
  <2>1. Bad \in SUBSET SUBSET S
    OBVIOUS
  <2> HIDE DEF Bad
  <2> QED BY <2>1, <1>1, Smallest
<1>3. T \in SUBSET S /\ IsFiniteSet(T) /\ SumFunctionOnSet(w, T) \notin Num
  BY FS_Subset
<1>4. T # {}
  BY <1>3, SumEmpty
<1>5. Pick(T) \in T
  BY <1>4, Picked
<1>6. T \ {Pick(T)} \in SUBSET T /\ T \ {Pick(T)} # T
  BY <1>5
<1>7. SumFunctionOnSet(w, T \ {Pick(T)}) \in Num
  BY <1>2, <1>3, <1>6
<1>8. w[Pick(T)] \in Num
  BY <1>3, <1>5
<1>9. SumFunctionOnSet(w, T) = w[Pick(T)] + SumFunctionOnSet(w, T \ {Pick(T)})
  BY <1>3, <1>4, SumPicks
<1> QED BY <1>3, <1>7, <1>8, <1>9

\* It does not matter which element is added first.
LEMMA SumRemove ==
    ASSUME NEW S, IsFiniteSet(S), NEW w, \A x \in S : w[x] \in Int, NEW e \in S
    PROVE  SumFunctionOnSet(w, S) = w[e] + SumFunctionOnSet(w, S \ {e})
<1> DEFINE Sum(T) == SumFunctionOnSet(w, T)
           Bad == {T \in SUBSET S : ~\A x \in T : Sum(T) = w[x] + Sum(T \ {x})}
<1>1. SUFFICES ASSUME Bad # {} PROVE FALSE
  OBVIOUS
<1>2. PICK T \in Bad : \A U \in SUBSET T : U # T => U \notin Bad
  <2>1. Bad \in SUBSET SUBSET S
    OBVIOUS
  <2> HIDE DEF Bad
  <2> QED BY <2>1, <1>1, Smallest
<1>3. T \in SUBSET S /\ IsFiniteSet(T)
  BY FS_Subset
<1>4. PICK x \in T : Sum(T) # w[x] + Sum(T \ {x})
  OBVIOUS
<1> DEFINE c == Pick(T)
<1>5. c \in T
  BY <1>4, Picked
<1>6. Sum(T) = w[c] + Sum(T \ {c})
  BY <1>3, <1>4, SumPicks
<1>7. c # x
  BY <1>4, <1>6
<1> HIDE DEF c
<1>8. Sum(T \ {c}) = w[x] + Sum((T \ {c}) \ {x})
  <2>1. T \ {c} \in SUBSET T /\ T \ {c} # T /\ x \in T \ {c} /\ T \ {c} \in SUBSET S
    BY <1>3, <1>5, <1>7
  <2>2. T \ {c} \notin Bad
    BY <1>2, <2>1
  <2> HIDE DEF Sum
  <2> QED BY <2>1, <2>2
<1>9. Sum(T \ {x}) = w[c] + Sum((T \ {x}) \ {c})
  <2>1. T \ {x} \in SUBSET T /\ T \ {x} # T /\ c \in T \ {x} /\ T \ {x} \in SUBSET S
    BY <1>3, <1>5, <1>7
  <2>2. T \ {x} \notin Bad
    BY <1>2, <2>1
  <2> HIDE DEF Sum
  <2> QED BY <2>1, <2>2
<1>10. (T \ {c}) \ {x} = (T \ {x}) \ {c}
  OBVIOUS
<1>11. w[c] \in Int /\ w[x] \in Int /\ Sum((T \ {c}) \ {x}) \in Int
  <2>1. IsFiniteSet((T \ {c}) \ {x}) /\ \A y \in (T \ {c}) \ {x} : w[y] \in Int
    BY <1>3, FS_Subset
  <2>2. SumFunctionOnSet(w, (T \ {c}) \ {x}) \in Int
    BY <2>1, SumType
  <2> QED BY <2>2, <1>3, <1>5
<1>12. Sum((T \ {x}) \ {c}) = Sum((T \ {c}) \ {x})
  BY <1>10
<1> HIDE DEF Sum
<1>13. Sum(T) = w[c] + (w[x] + Sum((T \ {c}) \ {x}))
  BY <1>6, <1>8
<1>14. w[x] + Sum(T \ {x}) = w[x] + (w[c] + Sum((T \ {c}) \ {x}))
  BY <1>9, <1>12
<1>15. w[c] + (w[x] + Sum((T \ {c}) \ {x})) = w[x] + (w[c] + Sum((T \ {c}) \ {x}))
  BY <1>11
<1> QED BY <1>4, <1>13, <1>14, <1>15

LEMMA SumAdd ==
    ASSUME NEW S, IsFiniteSet(S), NEW w, NEW e, e \notin S,
           \A x \in S \cup {e} : w[x] \in Int
    PROVE  SumFunctionOnSet(w, S \cup {e}) = SumFunctionOnSet(w, S) + w[e]
<1>1. IsFiniteSet(S \cup {e})
  BY FS_AddElement
<1>2. SumFunctionOnSet(w, S \cup {e}) = w[e] + SumFunctionOnSet(w, (S \cup {e}) \ {e})
  BY <1>1, SumRemove
<1>3. (S \cup {e}) \ {e} = S
  OBVIOUS
<1>4. SumFunctionOnSet(w, S) \in Int /\ w[e] \in Int
  BY SumType
<1>5. SumFunctionOnSet(w, S \cup {e}) = w[e] + SumFunctionOnSet(w, S)
  BY <1>2, <1>3
<1> QED BY <1>4, <1>5

\* Only the values on the set count.
LEMMA SumSame ==
    ASSUME NEW S, IsFiniteSet(S), NEW v, NEW w, \A x \in S : v[x] = w[x]
    PROVE  SumFunctionOnSet(v, S) = SumFunctionOnSet(w, S)
<1> DEFINE Bad == {T \in SUBSET S : SumFunctionOnSet(v, T) # SumFunctionOnSet(w, T)}
<1>1. SUFFICES ASSUME Bad # {} PROVE FALSE
  OBVIOUS
<1>2. PICK T \in Bad : \A U \in SUBSET T : U # T => U \notin Bad
  <2>1. Bad \in SUBSET SUBSET S
    OBVIOUS
  <2> HIDE DEF Bad
  <2> QED BY <2>1, <1>1, Smallest
<1>3. T \in SUBSET S /\ IsFiniteSet(T) /\ SumFunctionOnSet(v, T) # SumFunctionOnSet(w, T)
  BY FS_Subset
<1>4. T # {}
  BY <1>3, SumEmpty
<1>5. Pick(T) \in T
  BY <1>4, Picked
<1>6. SumFunctionOnSet(v, T \ {Pick(T)}) = SumFunctionOnSet(w, T \ {Pick(T)})
  <2>1. T \ {Pick(T)} \in SUBSET T /\ T \ {Pick(T)} # T
    BY <1>5
  <2> QED BY <1>2, <1>3, <2>1
<1>7. v[Pick(T)] = w[Pick(T)]
  BY <1>3, <1>5
<1> QED BY <1>3, <1>4, <1>6, <1>7, SumPicks

\* The sum of two sets that have nothing in common.
LEMMA SumUnion ==
    ASSUME NEW S, IsFiniteSet(S), NEW T, IsFiniteSet(T), S \cap T = {},
           NEW w, \A x \in S \cup T : w[x] \in Int
    PROVE  SumFunctionOnSet(w, S \cup T) = SumFunctionOnSet(w, S) + SumFunctionOnSet(w, T)
<1> DEFINE Sum(U) == SumFunctionOnSet(w, U)
           Bad == {U \in SUBSET T : Sum(S \cup U) # Sum(S) + Sum(U)}
<1>1. SUFFICES ASSUME Bad # {} PROVE FALSE
  OBVIOUS
<1>2. PICK U \in Bad : \A V \in SUBSET U : V # U => V \notin Bad
  <2>1. Bad \in SUBSET SUBSET T
    OBVIOUS
  <2> HIDE DEF Bad
  <2> QED BY <2>1, <1>1, Smallest
<1>3. U \in SUBSET T /\ IsFiniteSet(U) /\ Sum(S \cup U) # Sum(S) + Sum(U)
  BY FS_Subset
<1>4. Sum(S) \in Int
  BY SumType
<1>5. U # {}
  <2>1. Sum({}) = 0 /\ S \cup {} = S
    BY SumEmpty
  <2>2. Sum(S \cup {}) = Sum(S) + Sum({})
    BY <2>1, <1>4
  <2> QED BY <2>2, <1>3
<1>6. PICK e : e \in U
  BY <1>5
<1> DEFINE V == U \ {e}
<1>7. /\ V \in SUBSET U /\ V # U /\ V \in SUBSET T
      /\ e \notin V /\ e \notin S \cup V
      /\ U = V \cup {e} /\ S \cup U = (S \cup V) \cup {e}
  BY <1>3, <1>6
<1>8. IsFiniteSet(V) /\ IsFiniteSet(S \cup V)
  BY <1>3, <1>7, FS_Subset, FS_Union
<1>9. Sum(S \cup V) = Sum(S) + Sum(V)
  <2>1. V \notin Bad
    BY <1>2, <1>7
  <2> HIDE DEF Sum, V
  <2> QED BY <2>1, <1>7
<1>10. Sum(V) \in Int /\ w[e] \in Int
  BY <1>7, <1>8, SumType
<1>11. Sum(U) = Sum(V) + w[e]
  <2>1. \A x \in V \cup {e} : w[x] \in Int
    BY <1>7
  <2>2. SumFunctionOnSet(w, V \cup {e}) = SumFunctionOnSet(w, V) + w[e]
    <3> HIDE DEF V
    <3> QED BY <2>1, <1>7, <1>8, SumAdd
  <2> QED BY <2>2, <1>7
<1>12. Sum(S \cup U) = Sum(S \cup V) + w[e]
  <2>1. \A x \in (S \cup V) \cup {e} : w[x] \in Int
    BY <1>7
  <2>2. SumFunctionOnSet(w, (S \cup V) \cup {e}) = SumFunctionOnSet(w, S \cup V) + w[e]
    <3> HIDE DEF V
    <3> QED BY <2>1, <1>7, <1>8, SumAdd
  <2> QED BY <2>2, <1>7
<1> HIDE DEF Sum, V
<1> QED BY <1>3, <1>4, <1>9, <1>10, <1>11, <1>12

\* What is left when a part of a set is taken away.
LEMMA SumWithout ==
    ASSUME NEW S, IsFiniteSet(S), NEW T \in SUBSET S, NEW w, \A x \in S : w[x] \in Int
    PROVE  SumFunctionOnSet(w, S) = SumFunctionOnSet(w, S \ T) + SumFunctionOnSet(w, T)
<1>1. IsFiniteSet(T) /\ IsFiniteSet(S \ T)
  BY FS_Subset
<1>2. (S \ T) \cup T = S /\ (S \ T) \cap T = {}
  OBVIOUS
<1> QED BY <1>1, <1>2, SumUnion

\* A sum of nothing but zeros.
LEMMA SumZero ==
    ASSUME NEW S, IsFiniteSet(S), NEW w, \A x \in S : w[x] = 0
    PROVE  SumFunctionOnSet(w, S) = 0
<1> DEFINE Bad == {T \in SUBSET S : SumFunctionOnSet(w, T) # 0}
<1>1. SUFFICES ASSUME Bad # {} PROVE FALSE
  OBVIOUS
<1>2. PICK T \in Bad : \A U \in SUBSET T : U # T => U \notin Bad
  <2>1. Bad \in SUBSET SUBSET S
    OBVIOUS
  <2> HIDE DEF Bad
  <2> QED BY <2>1, <1>1, Smallest
<1>3. T \in SUBSET S /\ IsFiniteSet(T) /\ SumFunctionOnSet(w, T) # 0
  BY FS_Subset
<1>4. T # {}
  BY <1>3, SumEmpty
<1>5. Pick(T) \in T
  BY <1>4, Picked
<1>6. SumFunctionOnSet(w, T \ {Pick(T)}) = 0
  <2>1. T \ {Pick(T)} \in SUBSET T /\ T \ {Pick(T)} # T
    BY <1>5
  <2> QED BY <1>2, <1>3, <2>1
<1>7. w[Pick(T)] = 0
  BY <1>3, <1>5
<1> QED BY <1>3, <1>4, <1>6, <1>7, SumPicks

\* What grows by at most k at every place grows by at most k times as many.
LEMMA SumWithin ==
    ASSUME NEW S, IsFiniteSet(S), NEW v, NEW w, NEW k \in Int,
           \A x \in S : v[x] \in Int /\ w[x] \in Int /\ v[x] <= w[x] + k
    PROVE  SumFunctionOnSet(v, S) <= SumFunctionOnSet(w, S) + k * Cardinality(S)
<1> DEFINE V(T) == SumFunctionOnSet(v, T)
           W(T) == SumFunctionOnSet(w, T)
           Bad == {T \in SUBSET S : ~(V(T) <= W(T) + k * Cardinality(T))}
<1>1. SUFFICES ASSUME Bad # {} PROVE FALSE
  OBVIOUS
<1>2. PICK T \in Bad : \A U \in SUBSET T : U # T => U \notin Bad
  <2>1. Bad \in SUBSET SUBSET S
    OBVIOUS
  <2> HIDE DEF Bad
  <2> QED BY <2>1, <1>1, Smallest
<1>3. T \in SUBSET S /\ IsFiniteSet(T) /\ ~(V(T) <= W(T) + k * Cardinality(T))
  BY FS_Subset
<1>4. T # {}
  <2>1. V({}) = 0 /\ W({}) = 0 /\ Cardinality({}) = 0
    BY SumEmpty, FS_EmptySet
  <2>2. V({}) <= W({}) + k * Cardinality({})
    <3> HIDE DEF V, W
    <3> QED BY <2>1
  <2> QED BY <2>2, <1>3
<1> DEFINE e == Pick(T)
           U == T \ {e}
<1>5. e \in T /\ U \in SUBSET T /\ U # T /\ U \in SUBSET S /\ e \in S
  BY <1>3, <1>4, Picked
<1>6. /\ IsFiniteSet(U) /\ Cardinality(U) \in Nat /\ Cardinality(T) = Cardinality(U) + 1
  <2>1. IsFiniteSet(U) /\ Cardinality(U) = Cardinality(T) - 1 /\ Cardinality(T) \in Nat
    BY <1>3, <1>5, FS_RemoveElement, FS_CardinalityType
  <2>2. Cardinality(U) \in Nat
    BY <2>1, FS_CardinalityType
  <2> QED BY <2>1, <2>2
<1>7. V(T) = v[e] + V(U) /\ W(T) = w[e] + W(U)
  BY <1>3, <1>4, SumPicks
<1>8. V(U) <= W(U) + k * Cardinality(U)
  BY <1>2, <1>5
<1>9. V(U) \in Int /\ W(U) \in Int /\ v[e] \in Int /\ w[e] \in Int /\ v[e] <= w[e] + k
  <2>1. /\ \A x \in U : v[x] \in Int
        /\ \A x \in U : w[x] \in Int
    BY <1>5
  <2>2. SumFunctionOnSet(v, U) \in Int /\ SumFunctionOnSet(w, U) \in Int
    <3> HIDE DEF U
    <3> QED BY <2>1, <1>6, SumType
  <2> QED BY <2>2, <1>5
<1> HIDE DEF V, W, U, e
<1>10. k * Cardinality(T) = k * Cardinality(U) + k
  BY <1>6
<1>11. k * Cardinality(U) \in Int
  BY <1>6
<1> QED BY <1>3, <1>7, <1>8, <1>9, <1>10, <1>11

LEMMA SumMonotone ==
    ASSUME NEW S, IsFiniteSet(S), NEW v, NEW w,
           \A x \in S : v[x] \in Int /\ w[x] \in Int /\ v[x] <= w[x]
    PROVE  SumFunctionOnSet(v, S) <= SumFunctionOnSet(w, S)
<1> DEFINE k == 0
<1>1. k \in Int /\ \A x \in S : v[x] \in Int /\ w[x] \in Int /\ v[x] <= w[x] + k
  OBVIOUS
<1>2. SumFunctionOnSet(v, S) <= SumFunctionOnSet(w, S) + k * Cardinality(S)
  <2> HIDE DEF k
  <2> QED BY <1>1, SumWithin
<1>3. SumFunctionOnSet(w, S) \in Int /\ Cardinality(S) \in Nat
  BY SumType, FS_CardinalityType
<1> QED BY <1>2, <1>3
-----------------------------------------------------------------------------
(***************************************************************************)
(* Flattening a sequence of sequences.                                     *)
(***************************************************************************)
\* The recursion: what the first i sequences are together.
Flattens(f, ss) ==
    f = [i \in 1 .. Len(ss) |-> IF i = 1 THEN ss[i] ELSE f[i - 1] \o ss[i]]
Flattened(ss) == CHOOSE f : Flattens(f, ss)

LEMMA FlattenChosen ==
    ASSUME NEW ss, Len(ss) # 0
    PROVE  FlattenSeq(ss) = Flattened(ss)[Len(ss)]
BY Zenon DEF FlattenSeq, Flattened, Flattens

LEMMA FlattensExists ==
    ASSUME NEW S, NEW ss \in Seq(Seq(S))
    PROVE  Flattens(Flattened(ss), ss)
<1>1. Len(ss) \in Nat /\ DOMAIN ss = 1 .. Len(ss)
  OBVIOUS
<1> DEFINE Upto(f, n) == f = [i \in 1 .. n |-> IF i = 1 THEN ss[i] ELSE f[i - 1] \o ss[i]]
           G == {n \in Nat : \E f : Upto(f, n)}
<1>2. 0 \in G
  <2>1. Upto(<<>>, 0)
    OBVIOUS
  <2> HIDE DEF Upto
  <2> QED BY <2>1
<1>3. ASSUME NEW n \in 1 .. Len(ss), n - 1 \in G
      PROVE  n \in G
  <2>1. PICK f : Upto(f, n - 1)
    BY <1>3
  <2> DEFINE g == [i \in 1 .. n |-> IF i = n THEN (IF n = 1 THEN ss[n] ELSE f[n - 1] \o ss[n]) ELSE f[i]]
             Value(i) == IF i = 1 THEN ss[i] ELSE g[i - 1] \o ss[i]
  <2>2. ASSUME NEW i \in 1 .. n PROVE g[i] = Value(i)
    <3>1. CASE i = n
      <4>1. g[i] = IF n = 1 THEN ss[n] ELSE f[n - 1] \o ss[n]
        BY <3>1, <2>2
      <4>2. n # 1 => g[n - 1] = f[n - 1]
        <5>1. n # 1 => n - 1 \in 1 .. n /\ n - 1 # n
          BY <1>1
        <5> QED BY <5>1
      <4> HIDE DEF g
      <4> QED BY <4>1, <4>2, <3>1
    <3>2. CASE i # n
      <4>1. i \in 1 .. n - 1
        BY <3>2, <2>2, <1>1
      <4>2. g[i] = f[i]
        BY <3>2, <2>2
      <4>3. f[i] = IF i = 1 THEN ss[i] ELSE f[i - 1] \o ss[i]
        BY <4>1, <2>1
      <4>4. i # 1 => g[i - 1] = f[i - 1]
        <5>1. i # 1 => i - 1 \in 1 .. n /\ i - 1 # n
          BY <4>1, <1>1
        <5> QED BY <5>1
      <4> HIDE DEF g
      <4> QED BY <4>2, <4>3, <4>4
    <3> QED BY <3>1, <3>2
  <2>3. g = [i \in 1 .. n |-> g[i]]
    OBVIOUS
  <2>4. g = [i \in 1 .. n |-> Value(i)]
    <3> HIDE DEF g, Value
    <3> QED BY <2>2, <2>3
  <2>5. Upto(g, n)
    <3> HIDE DEF g
    <3> QED BY <2>4
  <2> HIDE DEF Upto, g
  <2> QED BY <2>5
<1>4. 0 .. Len(ss) \subseteq G
  <2> HIDE DEF G
  <2> QED BY <1>1, <1>2, <1>3, UpTo
<1>5. Len(ss) \in G
  <2> HIDE DEF G
  <2> QED BY <1>1, <1>4
<1>6. \E f : Flattens(f, ss)
  BY <1>5 DEF Flattens
<1> QED BY <1>6 DEF Flattened

\* The sequences up to the i-th together.
Part(ss, i) == IF i = 0 THEN <<>> ELSE Flattened(ss)[i]

LEMMA Parts ==
    ASSUME NEW S, NEW ss \in Seq(Seq(S))
    PROVE  /\ Part(ss, 0) = <<>>
           /\ \A i \in 1 .. Len(ss) : Part(ss, i) = Part(ss, i - 1) \o ss[i]
           /\ \A i \in 0 .. Len(ss) : Part(ss, i) \in Seq(S)
           /\ FlattenSeq(ss) = Part(ss, Len(ss))
<1> DEFINE f == Flattened(ss)
<1>1. Len(ss) \in Nat /\ DOMAIN ss = 1 .. Len(ss)
  OBVIOUS
<1>2. f = [i \in 1 .. Len(ss) |-> IF i = 1 THEN ss[i] ELSE f[i - 1] \o ss[i]]
  BY FlattensExists DEF Flattens
<1>3. Part(ss, 0) = <<>>
  BY DEF Part
<1> HIDE DEF f
<1>4. ASSUME NEW i \in 1 .. Len(ss) PROVE Part(ss, i) = Part(ss, i - 1) \o ss[i]
  <2>1. ss[i] \in Seq(S) /\ i # 0
    BY <1>4, <1>1
  <2>2. Part(ss, i) = IF i = 1 THEN ss[i] ELSE f[i - 1] \o ss[i]
    BY <1>2, <2>1, <1>4 DEF Part, f
  <2>3. CASE i = 1
    <3>1. Part(ss, i - 1) = <<>>
      BY <2>3, <1>3
    <3>2. <<>> \o ss[i] = ss[i]
      BY <2>1, ConcatEmptySeq
    <3> QED BY <2>2, <2>3, <3>1, <3>2
  <2>4. CASE i # 1
    <3>1. Part(ss, i - 1) = f[i - 1]
      BY <2>4, <1>4, <1>1 DEF Part, f
    <3> QED BY <2>2, <2>4, <3>1
  <2> QED BY <2>3, <2>4
<1>5. \A i \in 0 .. Len(ss) : Part(ss, i) \in Seq(S)
  <2> DEFINE G == {i \in Nat : Part(ss, i) \in Seq(S)}
  <2>1. 0 \in G
    BY <1>3, EmptySeq
  <2>2. ASSUME NEW i \in 1 .. Len(ss), i - 1 \in G PROVE i \in G
    <3>1. ss[i] \in Seq(S) /\ Part(ss, i - 1) \in Seq(S) /\ i \in Nat
      BY <2>2, <1>1
    <3>2. Part(ss, i - 1) \o ss[i] \in Seq(S)
      BY <3>1, ConcatProperties
    <3> QED BY <3>1, <3>2, <1>4
  <2>3. 0 .. Len(ss) \subseteq G
    <3> HIDE DEF G
    <3> QED BY <1>1, <2>1, <2>2, UpTo
  <2> QED BY <2>3
<1>6. FlattenSeq(ss) = Part(ss, Len(ss))
  <2>1. CASE Len(ss) = 0
    <3>1. ss = <<>>
      BY <2>1
    <3>2. FlattenSeq(ss) = ss
      BY <2>1 DEF FlattenSeq
    <3> QED BY <3>1, <3>2, <2>1 DEF Part
  <2>2. CASE Len(ss) # 0
    BY <2>2, FlattenChosen DEF Part
  <2> QED BY <2>1, <2>2
<1> QED BY <1>3, <1>4, <1>5, <1>6
-----------------------------------------------------------------------------
(***************************************************************************)
(* Sequences of anything.                                                  *)
(***************************************************************************)
IsSeq(s) == s \in Seq(ToSet(s))

LEMMA SeqIsSeq ==
    ASSUME NEW S, NEW s \in Seq(S)
    PROVE  IsSeq(s) /\ ToSet(s) \subseteq S /\ Len(s) \in Nat /\ DOMAIN s = 1 .. Len(s)
<1>1. Len(s) \in Nat /\ DOMAIN s = 1 .. Len(s) /\ s \in [1 .. Len(s) -> S]
  BY LenProperties
<1>2. \A i \in 1 .. Len(s) : s[i] \in ToSet(s)
  BY <1>1 DEF ToSet
<1>3. s = [i \in 1 .. Len(s) |-> s[i]]
  BY <1>1
<1>4. [i \in 1 .. Len(s) |-> s[i]] \in Seq(ToSet(s))
  BY <1>1, <1>2
<1> QED BY <1>1, <1>3, <1>4 DEF IsSeq, ToSet

LEMMA FunIsSeq ==
    ASSUME NEW n \in Nat, NEW f, f = [i \in 1 .. n |-> f[i]]
    PROVE  IsSeq(f) /\ Len(f) = n /\ DOMAIN f = 1 .. n
<1>1. \A i \in 1 .. n : f[i] \in ToSet(f)
  BY DEF ToSet
<1>2. [i \in 1 .. n |-> f[i]] \in Seq(ToSet(f)) /\ Len([i \in 1 .. n |-> f[i]]) = n
  BY <1>1
<1> QED BY <1>2 DEF IsSeq

LEMMA SeqSize ==
    ASSUME NEW s, IsSeq(s)
    PROVE  /\ Len(s) \in Nat /\ DOMAIN s = 1 .. Len(s)
           /\ s = [i \in 1 .. Len(s) |-> s[i]]
           /\ s # <<>> => Len(s) > 0
BY DEF IsSeq

LEMMA WiderSeq ==
    ASSUME NEW s, IsSeq(s), NEW S, ToSet(s) \subseteq S
    PROVE  s \in Seq(S)
BY SeqMonotonic DEF IsSeq

LEMMA EmptyIsSeq == IsSeq(<<>>) /\ ToSet(<<>>) = {} /\ Len(<<>>) = 0
BY EmptySeq DEF IsSeq, ToSet

LEMMA OneIsSeq ==
    ASSUME NEW e
    PROVE  IsSeq(<<e>>) /\ ToSet(<<e>>) = {e} /\ Len(<<e>>) = 1 /\ <<e>>[1] = e
<1>1. <<e>> \in Seq({e}) /\ Len(<<e>>) = 1 /\ <<e>>[1] = e
  OBVIOUS
<1>2. ToSet(<<e>>) = {e}
  <2>1. DOMAIN <<e>> = 1 .. 1
    OBVIOUS
  <2>2. \A i \in 1 .. 1 : i = 1
    OBVIOUS
  <2> QED BY <1>1, <2>1, <2>2 DEF ToSet
<1> QED BY <1>1, <1>2 DEF IsSeq

LEMMA ConcatIsSeq ==
    ASSUME NEW s, IsSeq(s), NEW t, IsSeq(t)
    PROVE  /\ IsSeq(s \o t) /\ ToSet(s \o t) = ToSet(s) \cup ToSet(t)
           /\ Len(s \o t) = Len(s) + Len(t)
<1> DEFINE S == ToSet(s) \cup ToSet(t)
<1>1. s \in Seq(S) /\ t \in Seq(S)
  BY WiderSeq
<1>2. /\ s \o t \in Seq(S) /\ Len(s \o t) = Len(s) + Len(t)
      /\ \A i \in 1 .. Len(s) + Len(t) : (s \o t)[i] = IF i <= Len(s) THEN s[i] ELSE t[i - Len(s)]
  BY <1>1, ConcatProperties
<1>3. Len(s) \in Nat /\ Len(t) \in Nat /\ DOMAIN s = 1 .. Len(s) /\ DOMAIN t = 1 .. Len(t)
  BY SeqSize
<1>4. DOMAIN (s \o t) = 1 .. Len(s) + Len(t)
  BY <1>2
<1>5. ToSet(s \o t) \subseteq S
  BY <1>2, SeqIsSeq
<1>6. ASSUME NEW x \in ToSet(s) PROVE x \in ToSet(s \o t)
  <2>1. PICK i \in 1 .. Len(s) : x = s[i]
    BY <1>3, <1>6 DEF ToSet
  <2>2. i \in 1 .. Len(s) + Len(t) /\ i <= Len(s)
    BY <1>3, <2>1
  <2>3. (s \o t)[i] = x
    BY <1>2, <2>1, <2>2
  <2> QED BY <1>4, <2>2, <2>3 DEF ToSet
<1>7. ASSUME NEW x \in ToSet(t) PROVE x \in ToSet(s \o t)
  <2>1. PICK i \in 1 .. Len(t) : x = t[i]
    BY <1>3, <1>7 DEF ToSet
  <2>2. Len(s) + i \in 1 .. Len(s) + Len(t) /\ ~(Len(s) + i <= Len(s)) /\ Len(s) + i - Len(s) = i
    BY <1>3, <2>1
  <2>3. (s \o t)[Len(s) + i] = x
    BY <1>2, <2>1, <2>2
  <2> QED BY <1>4, <2>2, <2>3 DEF ToSet
<1> QED BY <1>2, <1>5, <1>6, <1>7, SeqIsSeq

LEMMA ConcatAssoc ==
    ASSUME NEW s, IsSeq(s), NEW t, IsSeq(t), NEW u, IsSeq(u)
    PROVE  (s \o t) \o u = s \o (t \o u)
<1> DEFINE S == ToSet(s) \cup ToSet(t) \cup ToSet(u)
<1>1. s \in Seq(S) /\ t \in Seq(S) /\ u \in Seq(S)
  BY WiderSeq
<1> QED BY <1>1, ConcatAssociative

LEMMA ConcatEmpty ==
    ASSUME NEW s, IsSeq(s)
    PROVE  s \o <<>> = s /\ <<>> \o s = s
BY ConcatEmptySeq DEF IsSeq

InOne(h, m, q, b, p)    == (h \o m) \o (q \o b \o p)
FiveSeqs(h, m, q, b, p) == IsSeq(h) /\ IsSeq(m) /\ IsSeq(q) /\ IsSeq(b) /\ IsSeq(p)
LEMMA ConcatFive ==
    ASSUME NEW h, NEW m, NEW q, NEW b, NEW p, FiveSeqs(h, m, q, b, p)
    PROVE  InOne(h, m, q, b, p) = InOne(h, <<>>, m \o q, b, p)
<1>1. IsSeq(h) /\ IsSeq(m) /\ IsSeq(q) /\ IsSeq(b) /\ IsSeq(p)
  BY DEF FiveSeqs
<1>2. h \o <<>> = h
  BY <1>1, ConcatEmpty
<1>3. (m \o q) \o b = m \o (q \o b)
  BY <1>1, ConcatAssoc
<1>4. PICK qb : qb = q \o b /\ IsSeq(qb)
  BY <1>1, ConcatIsSeq
<1>5. (m \o qb) \o p = m \o (qb \o p)
  <2>1. IsSeq(qb)
    BY <1>4
  <2> QED BY <1>1, <2>1, ConcatAssoc, SMTT(60)
<1>6. PICK qbp : qbp = qb \o p /\ IsSeq(qbp)
  <2>1. IsSeq(qb)
    BY <1>4
  <2> QED BY <1>1, <2>1, ConcatIsSeq
<1>7. (h \o m) \o qbp = h \o (m \o qbp)
  <2>1. IsSeq(qbp)
    BY <1>6
  <2> QED BY <1>1, <2>1, ConcatAssoc, SMTT(60)
<1> QED BY <1>2, <1>3, <1>4, <1>5, <1>6, <1>7 DEF InOne

LEMMA AppendIs ==
    ASSUME NEW s, IsSeq(s), NEW e
    PROVE  Append(s, e) = s \o <<e>>
<1> DEFINE S == ToSet(s) \cup {e}
<1>1. s \in Seq(S) /\ e \in S
  BY WiderSeq
<1> QED BY <1>1, AppendIsConcat

LEMMA HeadTail ==
    ASSUME NEW s, IsSeq(s), s # <<>>
    PROVE  /\ s = <<Head(s)>> \o Tail(s)
           /\ IsSeq(Tail(s)) /\ Head(s) \in ToSet(s) /\ ToSet(Tail(s)) \subseteq ToSet(s)
           /\ Len(Tail(s)) = Len(s) - 1 /\ Head(s) = s[1]
<1> DEFINE S == ToSet(s)
<1>1. s \in Seq(S)
  BY DEF IsSeq
<1>2. /\ Head(s) \in S /\ Tail(s) \in Seq(S) /\ Len(Tail(s)) = Len(s) - 1
      /\ \A i \in 1 .. Len(Tail(s)) : Tail(s)[i] = s[i + 1]
  BY <1>1, HeadTailProperties
<1>3. Head(s) = s[1]
  BY <1>1
<1>4. s = <<Head(s)>> \o Tail(s)
  <2>1. <<Head(s)>> \in Seq(S) /\ Len(<<Head(s)>>) = 1 /\ <<Head(s)>>[1] = s[1]
    BY <1>2, <1>3
  <2> DEFINE h == <<Head(s)>>
             t == Tail(s)
  <2> HIDE DEF h, t
  <2>2. /\ h \o t \in Seq(S) /\ Len(h \o t) = Len(h) + Len(t)
        /\ \A i \in 1 .. Len(h) + Len(t) : (h \o t)[i] = IF i <= Len(h) THEN h[i] ELSE t[i - Len(h)]
    BY <1>2, <2>1, ConcatProperties DEF h, t
  <2>3. Len(s) \in Nat /\ Len(h) = 1 /\ Len(t) = Len(s) - 1 /\ h[1] = s[1]
    BY <1>1, <1>2, <2>1 DEF h, t
  <2>4. Len(h \o t) = Len(s)
    BY <2>2, <2>3
  <2>5. ASSUME NEW i \in 1 .. Len(s) PROVE s[i] = (h \o t)[i]
    <3>1. CASE i = 1
      BY <2>2, <2>3, <3>1
    <3>2. CASE i # 1
      <4>1. i - 1 \in 1 .. Len(t) /\ i \in 1 .. Len(h) + Len(t) /\ ~(i <= Len(h))
        BY <2>3, <3>2, <2>5
      <4>2. (h \o t)[i] = t[i - 1]
        BY <4>1, <2>2, <2>3
      <4>3. t[i - 1] = s[i - 1 + 1]
        BY <1>2, <4>1 DEF t
      <4>4. i - 1 + 1 = i
        BY <2>5
      <4> QED BY <4>2, <4>3, <4>4
    <3> QED BY <3>1, <3>2
  <2>6. s = h \o t
    BY <1>1, <2>2, <2>4, <2>5, SeqEqual
  <2> QED BY <2>6 DEF h, t
<1> QED BY <1>2, <1>3, <1>4, SeqIsSeq
-----------------------------------------------------------------------------
\* A sequence is known by its elements.
Joined(m, a, b) == /\ Len(m) = Len(a) + Len(b)
                   /\ \A j \in 1 .. Len(a) : m[j] = a[j]
                   /\ \A j \in 1 .. Len(b) : m[Len(a) + j] = b[j]
LEMMA JoinOf ==
    ASSUME NEW a, IsSeq(a), NEW b, IsSeq(b), NEW m, IsSeq(m), Joined(m, a, b)
    PROVE  m = a \o b
<1>1. /\ Len(m) = Len(a) + Len(b)
      /\ \A j \in 1 .. Len(a) : m[j] = a[j]
      /\ \A j \in 1 .. Len(b) : m[Len(a) + j] = b[j]
  BY DEF Joined
<1> DEFINE S == ToSet(a) \cup ToSet(b) \cup ToSet(m)
           c == a \o b
<1>2. a \in Seq(S) /\ b \in Seq(S) /\ m \in Seq(S)
  BY WiderSeq
<1> HIDE DEF S
<1>3. /\ c \in Seq(S) /\ Len(c) = Len(a) + Len(b)
      /\ \A i \in 1 .. Len(a) + Len(b) : c[i] = IF i <= Len(a) THEN a[i] ELSE b[i - Len(a)]
  BY <1>2, ConcatProperties
<1>4. Len(a) \in Nat /\ Len(b) \in Nat
  BY SeqSize
<1> HIDE DEF c
<1>5. ASSUME NEW i \in 1 .. Len(m) PROVE m[i] = c[i]
  <2>1. CASE i <= Len(a)
    <3>1. i \in 1 .. Len(a) /\ i \in 1 .. Len(a) + Len(b)
      BY <2>1, <1>4, <1>5
    <3> QED BY <3>1, <1>1, <1>3, <2>1
  <2>2. CASE ~(i <= Len(a))
    <3>1. /\ i - Len(a) \in 1 .. Len(b) /\ i \in 1 .. Len(a) + Len(b)
          /\ Len(a) + (i - Len(a)) = i
      BY <2>2, <1>1, <1>4, <1>5
    <3>2. m[i] = b[i - Len(a)]
      BY <1>1, <3>1
    <3> QED BY <3>1, <3>2, <1>3, <2>2
  <2> QED BY <2>1, <2>2
<1>6. m = c
  BY <1>1, <1>2, <1>3, <1>5, SeqEqual
<1> QED BY <1>6 DEF c
-----------------------------------------------------------------------------
\* A sequence of sequences.
IsSeqs(ss) == IsSeq(ss) /\ \A i \in 1 .. Len(ss) : IsSeq(ss[i])

LEMMA FlatParts ==
    ASSUME NEW ss, IsSeqs(ss)
    PROVE  /\ Part(ss, 0) = <<>>
           /\ \A i \in 1 .. Len(ss) : Part(ss, i) = Part(ss, i - 1) \o ss[i]
           /\ \A i \in 0 .. Len(ss) : IsSeq(Part(ss, i))
           /\ FlattenSeq(ss) = Part(ss, Len(ss))
           /\ IsSeq(FlattenSeq(ss))
           /\ \A e \in ToSet(FlattenSeq(ss)) : \E i \in 1 .. Len(ss) : e \in ToSet(ss[i])
<1> DEFINE S == UNION {ToSet(ss[i]) : i \in 1 .. Len(ss)}
<1>1. Len(ss) \in Nat /\ ss = [i \in 1 .. Len(ss) |-> ss[i]]
  BY SeqSize DEF IsSeqs
<1>2. ASSUME NEW i \in 1 .. Len(ss) PROVE ss[i] \in Seq(S)
  <2>1. IsSeq(ss[i]) /\ ToSet(ss[i]) \subseteq S
    BY DEF IsSeqs
  <2> HIDE DEF S
  <2> QED BY <2>1, WiderSeq
<1>3. ss \in Seq(Seq(S))
  <2> HIDE DEF S
  <2>1. [i \in 1 .. Len(ss) |-> ss[i]] \in Seq(Seq(S))
    BY <1>1, <1>2
  <2> QED BY <2>1, <1>1
<1> HIDE DEF S
<1>4. /\ Part(ss, 0) = <<>>
      /\ \A i \in 1 .. Len(ss) : Part(ss, i) = Part(ss, i - 1) \o ss[i]
      /\ \A i \in 0 .. Len(ss) : Part(ss, i) \in Seq(S)
      /\ FlattenSeq(ss) = Part(ss, Len(ss))
  BY <1>3, Parts
<1>5. \A i \in 0 .. Len(ss) : IsSeq(Part(ss, i))
  BY <1>4, SeqIsSeq
<1>6. FlattenSeq(ss) \in Seq(S)
  BY <1>1, <1>4
<1>7. IsSeq(FlattenSeq(ss)) /\ ToSet(FlattenSeq(ss)) \subseteq S
  BY <1>6, SeqIsSeq
<1> QED BY <1>4, <1>5, <1>7 DEF S

LEMMA PartZero ==
    ASSUME NEW ss, IsSeqs(ss)
    PROVE  Part(ss, 0) = <<>>
BY FlatParts

LEMMA PartStep ==
    ASSUME NEW ss, IsSeqs(ss), NEW i \in 1 .. Len(ss)
    PROVE  Part(ss, i) = Part(ss, i - 1) \o ss[i] /\ IsSeq(ss[i])
BY FlatParts DEF IsSeqs

LEMMA PartIsSeq ==
    ASSUME NEW ss, IsSeqs(ss), NEW i \in 0 .. Len(ss)
    PROVE  IsSeq(Part(ss, i))
BY FlatParts

LEMMA FlatPart ==
    ASSUME NEW ss, IsSeqs(ss)
    PROVE  FlattenSeq(ss) = Part(ss, Len(ss)) /\ IsSeq(FlattenSeq(ss))
BY FlatParts

LEMMA FlatPrefix ==
    ASSUME NEW ss, IsSeqs(ss), NEW tt, IsSeqs(tt), NEW n \in Nat,
           n <= Len(ss), n <= Len(tt), \A i \in 1 .. n : ss[i] = tt[i]
    PROVE  Part(ss, n) = Part(tt, n)
<1> DEFINE G == {i \in Nat : Part(ss, i) = Part(tt, i)}
<1>1. Len(ss) \in Nat /\ Len(tt) \in Nat
  BY SeqSize DEF IsSeqs
<1>2. 0 \in G
  BY PartZero
<1>3. ASSUME NEW i \in 1 .. n, i - 1 \in G PROVE i \in G
  <2>1. i \in 1 .. Len(ss) /\ i \in 1 .. Len(tt) /\ i \in Nat
    BY <1>1, <1>3
  <2>2. Part(ss, i) = Part(ss, i - 1) \o ss[i]
    BY <2>1, PartStep
  <2>3. Part(tt, i) = Part(tt, i - 1) \o tt[i]
    BY <2>1, PartStep
  <2>4. Part(ss, i - 1) = Part(tt, i - 1)
    BY <1>3
  <2> QED BY <2>1, <2>2, <2>3, <2>4
<1>4. 0 .. n \subseteq G
  <2> HIDE DEF G
  <2> QED BY <1>2, <1>3, UpTo
<1> QED BY <1>4

LEMMA FlatSuffix ==
    ASSUME NEW ss, IsSeqs(ss), NEW tt, IsSeqs(tt), Len(ss) = Len(tt),
           NEW n \in 0 .. Len(ss), \A i \in n + 1 .. Len(ss) : ss[i] = tt[i],
           NEW w, IsSeq(w), Part(ss, n) = w \o Part(tt, n)
    PROVE  FlattenSeq(ss) = w \o FlattenSeq(tt)
<1> DEFINE G == {i \in Nat : i >= n => Part(ss, i) = w \o Part(tt, i)}
<1>1. Len(ss) \in Nat
  BY SeqSize DEF IsSeqs
<1>2. 0 \in G
  OBVIOUS
<1>3. ASSUME NEW i \in 1 .. Len(ss), i - 1 \in G PROVE i \in G
  <2>1. i \in Nat
    BY <1>3
  <2>2. CASE i <= n
    BY <2>1, <2>2
  <2>3. CASE i > n
    <3>1. i \in n + 1 .. Len(ss) /\ i - 1 \in 0 .. Len(tt)
      BY <2>1, <1>1, <1>3, <2>3
    <3>2. Part(ss, i) = Part(ss, i - 1) \o ss[i]
      BY PartStep
    <3>3. Part(tt, i) = Part(tt, i - 1) \o tt[i]
      BY PartStep
    <3>4. Part(ss, i - 1) = w \o Part(tt, i - 1)
      BY <1>3, <3>1
    <3>5. IsSeq(Part(tt, i - 1)) /\ IsSeq(tt[i]) /\ ss[i] = tt[i]
      BY <3>1, PartIsSeq, PartStep
    <3>6. PICK p : p = Part(tt, i - 1) /\ IsSeq(p)
      BY <3>5
    <3>7. PICK q : q = tt[i] /\ IsSeq(q)
      BY <3>5
    <3>8. (w \o p) \o q = w \o (p \o q)
      <4>1. IsSeq(w) /\ IsSeq(p) /\ IsSeq(q)
        BY <3>6, <3>7
      <4> QED BY <4>1, ConcatAssoc, SMTT(60)
    <3>9. Part(ss, i) = w \o (Part(tt, i - 1) \o tt[i])
      BY <3>2, <3>4, <3>5, <3>6, <3>7, <3>8
    <3> QED BY <2>1, <3>3, <3>9
  <2> QED BY <2>1, <2>2, <2>3
<1>4. 0 .. Len(ss) \subseteq G
  <2> HIDE DEF G
  <2> QED BY <1>1, <1>2, <1>3, UpTo
<1>5. Part(ss, Len(ss)) = w \o Part(tt, Len(ss))
  BY <1>1, <1>4, SMTT(60)
<1> QED BY <1>5, FlatPart

LEMMA FlatEmpty ==
    ASSUME NEW ss, IsSeqs(ss), \A i \in 1 .. Len(ss) : ss[i] = <<>>
    PROVE  FlattenSeq(ss) = <<>>
<1> DEFINE G == {i \in Nat : Part(ss, i) = <<>>}
<1>1. Len(ss) \in Nat
  BY SeqSize DEF IsSeqs
<1>2. 0 \in G
  BY PartZero
<1>3. ASSUME NEW i \in 1 .. Len(ss), i - 1 \in G PROVE i \in G
  <2>1. Part(ss, i) = Part(ss, i - 1) \o ss[i]
    BY PartStep
  <2>2. Part(ss, i) = <<>> \o <<>>
    BY <2>1, <1>3
  <2> QED BY <2>2, ConcatEmpty, EmptyIsSeq
<1>4. 0 .. Len(ss) \subseteq G
  <2> HIDE DEF G
  <2> QED BY <1>1, <1>2, <1>3, UpTo
<1>5. Part(ss, Len(ss)) = <<>>
  BY <1>1, <1>4
<1> QED BY <1>5, FlatPart

LEMMA FlatOne ==
    ASSUME NEW s, IsSeq(s)
    PROVE  IsSeqs(<<s>>) /\ FlattenSeq(<<s>>) = s
<1> DEFINE o == <<s>>
<1>1. IsSeq(o) /\ Len(o) = 1 /\ o[1] = s
  BY OneIsSeq
<1> HIDE DEF o
<1>2. IsSeqs(o)
  <2>1. \A i \in 1 .. Len(o) : i = 1
    BY <1>1
  <2> QED BY <2>1, <1>1 DEF IsSeqs
<1>3. Part(o, 1) = Part(o, 1 - 1) \o o[1]
  <2>1. 1 \in 1 .. Len(o)
    BY <1>1
  <2> QED BY <2>1, <1>2, PartStep
<1>4. Part(o, 1 - 1) = <<>>
  BY <1>2, PartZero
<1>5. Part(o, 1) = s
  BY <1>1, <1>3, <1>4, ConcatEmpty
<1>6. FlattenSeq(o) = s
  BY <1>1, <1>2, <1>5, FlatPart
<1> QED BY <1>2, <1>6 DEF o

LEMMA FlatConcat ==
    ASSUME NEW ss, IsSeqs(ss), NEW tt, IsSeqs(tt)
    PROVE  /\ IsSeqs(ss \o tt)
           /\ FlattenSeq(ss \o tt) = FlattenSeq(ss) \o FlattenSeq(tt)
<1> DEFINE uu == ss \o tt
           S == ToSet(ss) \cup ToSet(tt)
           n == Len(ss)
           G == {j \in Nat : Part(uu, n + j) = FlattenSeq(ss) \o Part(tt, j)}
<1>1. n \in Nat /\ Len(tt) \in Nat
  BY SeqSize DEF IsSeqs
<1>2. ss \in Seq(S) /\ tt \in Seq(S)
  BY WiderSeq DEF IsSeqs
<1> HIDE DEF S
<1>3. /\ uu \in Seq(S) /\ Len(uu) = n + Len(tt)
      /\ \A i \in 1 .. n + Len(tt) : uu[i] = IF i <= n THEN ss[i] ELSE tt[i - n]
  BY <1>2, ConcatProperties
<1> HIDE DEF uu
<1>4. \A i \in 1 .. n : uu[i] = ss[i]
  BY <1>1, <1>3
<1>5. ASSUME NEW j \in 1 .. Len(tt) PROVE uu[n + j] = tt[j]
  <2>1. n + j \in 1 .. n + Len(tt) /\ ~(n + j <= n) /\ n + j - n = j
    BY <1>1, <1>5
  <2> QED BY <2>1, <1>3
<1>6. IsSeqs(uu)
  <2>1. IsSeq(uu)
    BY <1>3, SeqIsSeq
  <2>2. ASSUME NEW i \in 1 .. Len(uu) PROVE IsSeq(uu[i])
    <3>1. CASE i <= n
      <4>1. i \in 1 .. n
        BY <3>1, <1>1, <1>3, <2>2
      <4> QED BY <4>1, <1>4 DEF IsSeqs
    <3>2. CASE ~(i <= n)
      <4>1. i - n \in 1 .. Len(tt) /\ n + (i - n) = i
        BY <3>2, <1>1, <1>3, <2>2
      <4>2. uu[i] = tt[i - n]
        BY <4>1, <1>5
      <4> QED BY <4>1, <4>2 DEF IsSeqs
    <3> QED BY <3>1, <3>2
  <2> QED BY <2>1, <2>2 DEF IsSeqs
<1>7. 0 \in G
  <2>1. Part(uu, n) = Part(ss, n)
    BY <1>1, <1>3, <1>4, <1>6, FlatPrefix
  <2>2. Part(tt, 0) = <<>>
    BY PartZero
  <2>3. FlattenSeq(ss) = Part(ss, n) /\ IsSeq(FlattenSeq(ss))
    BY FlatPart
  <2>4. n + 0 = n /\ FlattenSeq(ss) \o <<>> = FlattenSeq(ss)
    BY <1>1, <2>3, ConcatEmpty
  <2> QED BY <2>1, <2>2, <2>3, <2>4
<1>8. ASSUME NEW j \in 1 .. Len(tt), j - 1 \in G PROVE j \in G
  <2>1. n + j \in 1 .. Len(uu) /\ n + j - 1 = n + (j - 1) /\ j \in Nat /\ j - 1 \in 0 .. Len(tt)
    BY <1>1, <1>3, <1>8
  <2>2. PICK k \in 1 .. Len(uu) : k = n + j
    BY <2>1
  <2>3. Part(uu, k) = Part(uu, k - 1) \o uu[k]
    BY <1>6, PartStep
  <2>4. PICK e : e = uu[k]
    OBVIOUS
  <2>5. k - 1 = n + (j - 1) /\ e = tt[j]
    BY <1>1, <1>5, <2>2, <2>4
  <2>6. Part(uu, n + j) = Part(uu, n + (j - 1)) \o tt[j]
    BY <2>2, <2>3, <2>4, <2>5
  <2>7. Part(uu, n + j) = (FlattenSeq(ss) \o Part(tt, j - 1)) \o tt[j]
    BY <1>8, <2>6
  <2>8. IsSeq(FlattenSeq(ss)) /\ IsSeq(Part(tt, j - 1)) /\ IsSeq(tt[j])
    BY <2>1, FlatPart, PartIsSeq, PartStep
  <2>9. Part(tt, j) = Part(tt, j - 1) \o tt[j]
    BY PartStep
  <2>10. PICK w : w = FlattenSeq(ss) /\ IsSeq(w)
    BY <2>8
  <2>11. PICK p : p = Part(tt, j - 1) /\ IsSeq(p)
    BY <2>8
  <2>12. PICK q : q = tt[j] /\ IsSeq(q)
    BY <2>8
  <2>13. (w \o p) \o q = w \o (p \o q)
    <3>1. IsSeq(w) /\ IsSeq(p) /\ IsSeq(q)
      BY <2>10, <2>11, <2>12
    <3> QED BY <3>1, ConcatAssoc, SMTT(60)
  <2>14. Part(uu, n + j) = FlattenSeq(ss) \o Part(tt, j)
    BY <2>7, <2>9, <2>10, <2>11, <2>12, <2>13
  <2> QED BY <2>1, <2>14
<1>9. 0 .. Len(tt) \subseteq G
  <2> HIDE DEF G
  <2> QED BY <1>1, <1>7, <1>8, UpTo
<1>10. Part(uu, n + Len(tt)) = FlattenSeq(ss) \o Part(tt, Len(tt))
  BY <1>1, <1>9
<1>11. FlattenSeq(uu) = Part(uu, Len(uu)) /\ FlattenSeq(tt) = Part(tt, Len(tt))
  BY <1>6, FlatPart
<1>12. FlattenSeq(uu) = FlattenSeq(ss) \o FlattenSeq(tt)
  BY <1>3, <1>10, <1>11
<1> QED BY <1>6, <1>12 DEF uu
-----------------------------------------------------------------------------
\* What happens to a flattened sequence when one part of it changes.
LastGrows(ss, tt, x) == /\ IsSeqs(ss) /\ IsSeqs(tt) /\ Len(ss) = Len(tt) /\ Len(ss) > 0 /\ IsSeq(x)
                        /\ \A i \in 1 .. Len(ss) - 1 : tt[i] = ss[i]
                        /\ tt[Len(ss)] = ss[Len(ss)] \o x
LEMMA FlatLast ==
    ASSUME NEW ss, NEW tt, NEW x, LastGrows(ss, tt, x)
    PROVE  FlattenSeq(tt) = FlattenSeq(ss) \o x
<1>1. /\ IsSeqs(ss) /\ IsSeqs(tt) /\ Len(ss) = Len(tt) /\ Len(ss) > 0 /\ IsSeq(x)
      /\ \A i \in 1 .. Len(ss) - 1 : tt[i] = ss[i]
      /\ tt[Len(ss)] = ss[Len(ss)] \o x
  BY DEF LastGrows
<1> DEFINE n == Len(ss)
<1>2. n \in Nat /\ n - 1 \in Nat /\ n \in 1 .. n /\ n - 1 \in 0 .. n
  BY <1>1, SeqSize DEF IsSeqs
<1>3. n - 1 <= Len(ss) /\ n - 1 <= Len(tt)
  BY <1>1, <1>2
<1>4. Part(tt, n - 1) = Part(ss, n - 1)
  BY <1>1, <1>2, <1>3, FlatPrefix, Zenon
<1>5. IsSeq(Part(ss, n - 1)) /\ IsSeq(ss[n])
  BY <1>1, <1>2, PartIsSeq, PartStep
<1>6. Part(tt, n) = Part(tt, n - 1) \o tt[n]
  BY <1>1, <1>2, PartStep
<1>7. Part(ss, n) = Part(ss, n - 1) \o ss[n]
  BY <1>1, <1>2, PartStep
<1>8. PICK p : p = Part(ss, n - 1) /\ IsSeq(p)
  BY <1>5
<1>9. PICK q : q = ss[n] /\ IsSeq(q)
  BY <1>5
<1>10. (p \o q) \o x = p \o (q \o x)
  <2>1. IsSeq(p) /\ IsSeq(q) /\ IsSeq(x)
    BY <1>1, <1>8, <1>9
  <2> QED BY <2>1, ConcatAssoc
<1>11. Part(tt, n) = Part(ss, n) \o x
  BY <1>1, <1>4, <1>6, <1>7, <1>8, <1>9, <1>10
<1>12. FlattenSeq(ss) = Part(ss, n) /\ FlattenSeq(tt) = Part(tt, n)
  BY <1>1, FlatPart
<1> QED BY <1>11, <1>12

FirstShrinks(ss, tt, x) == /\ IsSeqs(ss) /\ IsSeqs(tt) /\ Len(ss) = Len(tt) /\ Len(ss) > 0 /\ IsSeq(x)
                           /\ \A i \in 2 .. Len(ss) : ss[i] = tt[i]
                           /\ ss[1] = x \o tt[1]
LEMMA FlatFirst ==
    ASSUME NEW ss, NEW tt, NEW x, FirstShrinks(ss, tt, x)
    PROVE  FlattenSeq(ss) = x \o FlattenSeq(tt)
<1>1. /\ IsSeqs(ss) /\ IsSeqs(tt) /\ Len(ss) = Len(tt) /\ Len(ss) > 0 /\ IsSeq(x)
      /\ \A i \in 2 .. Len(ss) : ss[i] = tt[i]
  BY DEF FirstShrinks
<1>2. 1 \in 1 .. Len(ss) /\ Len(ss) \in Nat
  BY <1>1, SeqSize DEF IsSeqs
<1>3. PICK n \in 1 .. Len(ss) : n = 1
  BY <1>2
<1>4. PICK r : r = tt[n] /\ IsSeq(r)
  BY <1>1, <1>3 DEF IsSeqs
<1>5. PICK y : y = x \o r /\ IsSeq(y)
  BY <1>1, <1>4, ConcatIsSeq
<1>6. ss[n] = y
  BY <1>3, <1>4, <1>5 DEF FirstShrinks
<1>7. /\ Part(ss, n) = Part(ss, n - 1) \o ss[n] /\ Part(tt, n) = Part(tt, n - 1) \o tt[n]
      /\ Part(ss, 0) = <<>> /\ Part(tt, 0) = <<>>
  BY <1>1, PartStep, PartZero
<1>8. <<>> \o y = y /\ <<>> \o r = r
  BY <1>4, <1>5, ConcatEmpty
<1>9. n - 1 = 0
  BY <1>3
<1>10. Part(ss, n) = x \o Part(tt, n)
  BY <1>4, <1>5, <1>6, <1>7, <1>8, <1>9
<1>11. n \in 0 .. Len(ss) /\ \A i \in n + 1 .. Len(ss) : ss[i] = tt[i]
  BY <1>1, <1>2, <1>3
<1> QED BY <1>1, <1>10, <1>11, FlatSuffix, ZenonT(60)

LEMMA FlatMove ==
    ASSUME NEW ss, IsSeqs(ss), NEW tt, IsSeqs(tt), Len(ss) = Len(tt),
           NEW n \in 1 .. Len(ss) - 1,
           \A i \in 1 .. Len(ss) : i \notin {n, n + 1} => ss[i] = tt[i],
           ss[n] \o ss[n + 1] = tt[n] \o tt[n + 1]
    PROVE  FlattenSeq(ss) = FlattenSeq(tt)
<1>1. /\ Len(ss) \in Nat /\ n \in Nat /\ n \in 1 .. Len(ss) /\ n + 1 \in 1 .. Len(ss)
      /\ n - 1 \in Nat /\ n - 1 \in 0 .. Len(ss) /\ n + 1 - 1 = n /\ n + 1 \in 0 .. Len(ss)
  BY SeqSize DEF IsSeqs
<1>2. \A i \in 1 .. n - 1 : ss[i] = tt[i]
  BY <1>1
<1>3. Part(ss, n - 1) = Part(tt, n - 1)
  BY <1>1, <1>2, FlatPrefix
<1>4. /\ IsSeq(Part(ss, n - 1)) /\ IsSeq(ss[n]) /\ IsSeq(ss[n + 1])
      /\ IsSeq(Part(tt, n - 1)) /\ IsSeq(tt[n]) /\ IsSeq(tt[n + 1])
  BY <1>1, PartIsSeq, PartStep
<1>5. Part(ss, n) = Part(ss, n - 1) \o ss[n] /\ Part(tt, n) = Part(tt, n - 1) \o tt[n]
  BY <1>1, PartStep
<1>6. PICK k \in 1 .. Len(ss) : k = n + 1
  BY <1>1
<1>7. Part(ss, n + 1) = Part(ss, n) \o ss[n + 1] /\ Part(tt, n + 1) = Part(tt, n) \o tt[n + 1]
  <2>1. Part(ss, k) = Part(ss, k - 1) \o ss[k]
    BY PartStep
  <2>2. Part(tt, k) = Part(tt, k - 1) \o tt[k]
    BY PartStep
  <2> QED BY <1>1, <1>6, <2>1, <2>2
<1>8. /\ (Part(ss, n - 1) \o ss[n]) \o ss[n + 1] = Part(ss, n - 1) \o (ss[n] \o ss[n + 1])
       /\ (Part(tt, n - 1) \o tt[n]) \o tt[n + 1] = Part(tt, n - 1) \o (tt[n] \o tt[n + 1])
  <2>1. PICK p : p = Part(ss, n - 1) /\ IsSeq(p)
    BY <1>4
  <2>2. PICK q : q = ss[n] /\ IsSeq(q)
    BY <1>4
  <2>3. PICK r : r = ss[n + 1] /\ IsSeq(r)
    BY <1>4
  <2>4. (p \o q) \o r = p \o (q \o r)
    <3>1. IsSeq(p) /\ IsSeq(q) /\ IsSeq(r)
      BY <2>1, <2>2, <2>3
    <3> QED BY <3>1, ConcatAssoc, SMTT(60)
  <2>5. PICK p2 : p2 = Part(tt, n - 1) /\ IsSeq(p2)
    BY <1>4
  <2>6. PICK q2 : q2 = tt[n] /\ IsSeq(q2)
    BY <1>4
  <2>7. PICK r2 : r2 = tt[n + 1] /\ IsSeq(r2)
    BY <1>4
  <2>8. (p2 \o q2) \o r2 = p2 \o (q2 \o r2)
    <3>1. IsSeq(p2) /\ IsSeq(q2) /\ IsSeq(r2)
      BY <2>5, <2>6, <2>7
    <3> QED BY <3>1, ConcatAssoc, SMTT(60)
  <2> QED BY <2>1, <2>2, <2>3, <2>4, <2>5, <2>6, <2>7, <2>8
<1>9. /\ Part(ss, n + 1) = Part(ss, n - 1) \o (ss[n] \o ss[n + 1])
      /\ Part(tt, n + 1) = Part(tt, n - 1) \o (tt[n] \o tt[n + 1])
  BY <1>5, <1>7, <1>8
<1>10. IsSeq(Part(tt, n + 1))
  BY <1>1, PartIsSeq
<1>11. Part(ss, n + 1) = <<>> \o Part(tt, n + 1)
  BY <1>3, <1>9, <1>10, ConcatEmpty
<1>12. \A i \in (n + 1) + 1 .. Len(ss) : ss[i] = tt[i]
  BY <1>1
<1>13. FlattenSeq(ss) = <<>> \o FlattenSeq(tt)
  <2>1. PICK m \in 0 .. Len(ss) : m = n + 1
    BY <1>1
  <2>2. PICK w : w = <<>> /\ IsSeq(w)
    BY EmptyIsSeq
  <2>3. Part(ss, m) = w \o Part(tt, m)
    BY <1>11, <2>1, <2>2
  <2>4. \A i \in m + 1 .. Len(ss) : ss[i] = tt[i]
    BY <1>12, <2>1
  <2> QED BY <2>2, <2>3, <2>4, FlatSuffix, ZenonT(60)
<1> QED BY <1>13, FlatPart, ConcatEmpty
-----------------------------------------------------------------------------
(***************************************************************************)
(* A sequence whose elements are replaced by sequences.                    *)
(***************************************************************************)
Mapped(f, s) == [j \in DOMAIN s |-> f[s[j]]]
Expands(f, S) == \A e \in S : IsSeq(f[e])
Singles(f, S) == \A e \in S : f[e] = <<e>>

LEMMA MappedIs ==
    ASSUME NEW s, IsSeq(s), NEW f, Expands(f, ToSet(s))
    PROVE  /\ IsSeqs(Mapped(f, s)) /\ Len(Mapped(f, s)) = Len(s)
           /\ \A j \in 1 .. Len(s) : Mapped(f, s)[j] = f[s[j]] /\ s[j] \in ToSet(s)
<1> DEFINE m == Mapped(f, s)
<1>1. Len(s) \in Nat /\ DOMAIN s = 1 .. Len(s)
  BY SeqSize
<1>2. m = [j \in 1 .. Len(s) |-> f[s[j]]]
  BY <1>1 DEF Mapped
<1>3. \A j \in 1 .. Len(s) : m[j] = f[s[j]] /\ s[j] \in ToSet(s)
  BY <1>1, <1>2 DEF ToSet
<1>4. m = [j \in 1 .. Len(s) |-> m[j]]
  BY <1>2
<1> HIDE DEF m
<1>5. IsSeq(m) /\ Len(m) = Len(s)
  BY <1>1, <1>4, FunIsSeq
<1>6. \A j \in 1 .. Len(s) : IsSeq(m[j])
  BY <1>3 DEF Expands
<1>7. IsSeqs(m)
  BY <1>5, <1>6 DEF IsSeqs
<1> QED BY <1>3, <1>5, <1>7 DEF m

LEMMA FlatMapped ==
    ASSUME NEW s, IsSeq(s), NEW f, Expands(f, ToSet(s))
    PROVE  /\ IsSeq(FlattenSeq(Mapped(f, s)))
           /\ \A e \in ToSet(FlattenSeq(Mapped(f, s))) : \E a \in ToSet(s) : e \in ToSet(f[a])
<1>1. PICK m : m = Mapped(f, s)
  OBVIOUS
<1>2. /\ IsSeqs(m) /\ Len(m) = Len(s)
      /\ \A j \in 1 .. Len(s) : m[j] = f[s[j]] /\ s[j] \in ToSet(s)
  BY <1>1, MappedIs
<1>3. /\ IsSeq(FlattenSeq(m))
      /\ \A e \in ToSet(FlattenSeq(m)) : \E j \in 1 .. Len(m) : e \in ToSet(m[j])
  BY <1>2, FlatParts
<1> QED BY <1>1, <1>2, <1>3

LEMMA MappedConcat ==
    ASSUME NEW s, IsSeq(s), NEW t, IsSeq(t), NEW f,
           Expands(f, ToSet(s) \cup ToSet(t))
    PROVE  FlattenSeq(Mapped(f, s \o t)) = FlattenSeq(Mapped(f, s)) \o FlattenSeq(Mapped(f, t))
<1>1. PICK a : a = Mapped(f, s) /\ IsSeqs(a) /\ Len(a) = Len(s)
                 /\ \A j \in 1 .. Len(s) : a[j] = f[s[j]] /\ s[j] \in ToSet(s)
  BY MappedIs DEF Expands
<1>2. PICK b : b = Mapped(f, t) /\ IsSeqs(b) /\ Len(b) = Len(t)
                 /\ \A j \in 1 .. Len(t) : b[j] = f[t[j]] /\ t[j] \in ToSet(t)
  BY MappedIs DEF Expands
<1>3. PICK u : u = s \o t /\ IsSeq(u) /\ ToSet(u) = ToSet(s) \cup ToSet(t)
                 /\ Len(u) = Len(s) + Len(t)
  BY ConcatIsSeq
<1>4. PICK m : m = Mapped(f, u) /\ IsSeqs(m) /\ Len(m) = Len(u)
                 /\ \A j \in 1 .. Len(u) : m[j] = f[u[j]]
  <2>1. IsSeq(u) /\ Expands(f, ToSet(u))
    BY <1>3
  <2> QED BY <2>1, MappedIs
<1>5. Len(s) \in Nat /\ Len(t) \in Nat
  BY SeqSize
<1>6. /\ \A j \in 1 .. Len(s) : u[j] = s[j]
      /\ \A j \in 1 .. Len(t) : u[Len(s) + j] = t[j]
  <2> DEFINE S == ToSet(s) \cup ToSet(t)
  <2>1. s \in Seq(S) /\ t \in Seq(S)
    BY WiderSeq
  <2> HIDE DEF S
  <2>2. \A i \in 1 .. Len(s) + Len(t) : u[i] = IF i <= Len(s) THEN s[i] ELSE t[i - Len(s)]
    BY <1>3, <2>1, ConcatProperties
  <2>3. \A j \in 1 .. Len(s) : j \in 1 .. Len(s) + Len(t) /\ j <= Len(s)
    BY <1>5
  <2>4. \A j \in 1 .. Len(t) : /\ Len(s) + j \in 1 .. Len(s) + Len(t) /\ ~(Len(s) + j <= Len(s))
                               /\ Len(s) + j - Len(s) = j
    BY <1>5
  <2> QED BY <2>2, <2>3, <2>4
<1>7. \A j \in 1 .. Len(a) : m[j] = a[j]
  <2>1. \A j \in 1 .. Len(s) : j \in 1 .. Len(u)
    BY <1>3, <1>5
  <2> QED BY <2>1, <1>1, <1>4, <1>6
<1>8. \A j \in 1 .. Len(b) : m[Len(a) + j] = b[j]
  <2>1. \A j \in 1 .. Len(t) : Len(s) + j \in 1 .. Len(u)
    BY <1>3, <1>5
  <2>2. \A j \in 1 .. Len(t) : m[Len(s) + j] = f[t[j]]
    BY <2>1, <1>4, <1>6
  <2> QED BY <2>2, <1>1, <1>2
<1>9. m = a \o b
  <2>1. IsSeq(a) /\ IsSeq(b) /\ IsSeq(m) /\ Len(m) = Len(a) + Len(b)
    BY <1>1, <1>2, <1>3, <1>4 DEF IsSeqs
  <2>2. Joined(m, a, b)
    BY <2>1, <1>7, <1>8 DEF Joined
  <2> QED BY <2>1, <2>2, JoinOf
<1>10. FlattenSeq(a \o b) = FlattenSeq(a) \o FlattenSeq(b)
  <2>1. IsSeqs(a) /\ IsSeqs(b)
    BY <1>1, <1>2
  <2> QED BY <2>1, FlatConcat
<1> QED BY <1>1, <1>2, <1>3, <1>4, <1>9, <1>10

LEMMA MappedEmpty ==
    ASSUME NEW f
    PROVE  FlattenSeq(Mapped(f, <<>>)) = <<>>
<1>1. PICK m : m = Mapped(f, <<>>) /\ IsSeqs(m) /\ Len(m) = 0
  <2>1. PICK s : s = <<>> /\ IsSeq(s) /\ ToSet(s) = {} /\ Len(s) = 0
    BY EmptyIsSeq
  <2> QED BY <2>1, MappedIs DEF Expands
<1>2. \A i \in 1 .. Len(m) : m[i] = <<>>
  BY <1>1
<1>3. FlattenSeq(m) = <<>>
  BY <1>1, <1>2, FlatEmpty
<1> QED BY <1>1, <1>3

LEMMA MappedOne ==
    ASSUME NEW f, NEW e, IsSeq(f[e])
    PROVE  FlattenSeq(Mapped(f, <<e>>)) = f[e]
<1>1. PICK r : r = f[e] /\ IsSeq(r)
  OBVIOUS
<1>2. Mapped(f, <<e>>) = <<r>>
  <2>1. DOMAIN <<e>> = {1} /\ DOMAIN <<r>> = {1} /\ <<e>>[1] = e /\ <<r>> = [j \in {1} |-> r]
    OBVIOUS
  <2> QED BY <2>1, <1>1 DEF Mapped
<1>3. FlattenSeq(<<r>>) = r
  BY <1>1, FlatOne
<1> QED BY <1>1, <1>2, <1>3

\* Elements that are replaced by themselves.
LEMMA MappedSame ==
    ASSUME NEW s, IsSeq(s), NEW f, Singles(f, ToSet(s))
    PROVE  FlattenSeq(Mapped(f, s)) = s
<1> DEFINE n == Len(s)
           First(i) == [j \in 1 .. i |-> s[j]]
<1>1. n \in Nat /\ s = First(n)
  BY SeqSize
<1>2. Expands(f, ToSet(s))
  BY OneIsSeq DEF Singles, Expands
<1>3. PICK m : m = Mapped(f, s) /\ IsSeqs(m) /\ Len(m) = n
                 /\ \A j \in 1 .. n : m[j] = f[s[j]] /\ s[j] \in ToSet(s)
  BY <1>2, MappedIs
<1> DEFINE G == {i \in Nat : Part(m, i) = First(i)}
<1>4. 0 \in G
  <2>1. Part(m, 0) = <<>>
    BY <1>3, PartZero
  <2>2. First(0) = <<>>
    OBVIOUS
  <2> QED BY <2>1, <2>2
<1>5. ASSUME NEW i \in 1 .. n, i - 1 \in G PROVE i \in G
  <2>1. i \in Nat /\ i - 1 \in Nat /\ (i - 1) + 1 = i
    BY <1>1
  <2>2. Part(m, i) = Part(m, i - 1) \o m[i]
    BY <1>3, PartStep
  <2>3. PICK e : e = s[i]
    OBVIOUS
  <2>4. m[i] = <<e>>
    BY <1>3, <2>3 DEF Singles
  <2>5. PICK p : p = First(i - 1)
    OBVIOUS
  <2>6. IsSeq(p) /\ Len(p) = i - 1 /\ DOMAIN p = 1 .. i - 1
    BY <2>1, <2>5, FunIsSeq
  <2>7. Part(m, i) = p \o <<e>>
    BY <1>5, <2>2, <2>4, <2>5
  <2>8. First(i) = p \o <<e>>
    <3>1. PICK q : q = First(i)
      OBVIOUS
    <3>2. IsSeq(q) /\ Len(q) = i
      BY <2>1, <3>1, FunIsSeq
    <3>3. \A j \in 1 .. Len(p) : q[j] = p[j]
      <4>1. \A j \in 1 .. i - 1 : j \in 1 .. i
        BY <2>1
      <4> QED BY <4>1, <2>5, <2>6, <3>1
    <3>4. PICK o : o = <<e>> /\ IsSeq(o) /\ Len(o) = 1 /\ o[1] = e
      BY OneIsSeq
    <3>5. \A j \in 1 .. Len(o) : q[Len(p) + j] = o[j]
      <4>1. q[i] = e
        BY <2>1, <2>3, <3>1
      <4>2. \A j \in 1 .. 1 : j = 1
        OBVIOUS
      <4> QED BY <4>1, <4>2, <2>1, <2>6, <3>4
    <3>6. Len(q) = Len(p) + Len(o)
      BY <2>1, <2>6, <3>2, <3>4
    <3>7. q = p \o o
      <4>1. IsSeq(p) /\ IsSeq(q) /\ IsSeq(o)
        BY <2>6, <3>2, <3>4
      <4> HIDE DEF G, First, n
      <4>2. Joined(q, p, o)
        BY <3>3, <3>5, <3>6 DEF Joined
      <4> QED BY <4>1, <4>2, JoinOf
    <3> QED BY <3>1, <3>4, <3>7
  <2> QED BY <2>1, <2>7, <2>8
<1>6. 0 .. n \subseteq G
  <2> HIDE DEF G, n
  <2> QED BY <1>1, <1>4, <1>5, UpTo
<1>7. Part(m, n) = s
  BY <1>1, <1>6, SMTT(60)
<1>8. FlattenSeq(m) = Part(m, Len(m))
  BY <1>3, FlatPart
<1> QED BY <1>3, <1>7, <1>8

\* What is left of a sequence when its front is taken away.
LEMMA DropFront ==
    ASSUME NEW x, IsSeq(x), NEW y, IsSeq(y)
    PROVE  SubSeq(x \o y, 1 + Len(x), Len(x \o y)) = y
<1> DEFINE S == ToSet(x) \cup ToSet(y)
           m == SubSeq(x \o y, 1 + Len(x), Len(x \o y))
<1>1. x \in Seq(S) /\ y \in Seq(S) /\ Len(x) \in Nat /\ Len(y) \in Nat
  BY WiderSeq, SeqSize
<1> HIDE DEF S
<1>2. /\ x \o y \in Seq(S) /\ Len(x \o y) = Len(x) + Len(y)
      /\ \A i \in 1 .. Len(x) + Len(y) : (x \o y)[i] = IF i <= Len(x) THEN x[i] ELSE y[i - Len(x)]
  BY <1>1, ConcatProperties
<1>3. m = [i \in 1 .. Len(y) |-> (x \o y)[i + Len(x)]]
  <2>1. Len(x \o y) - (1 + Len(x)) + 1 = Len(y)
    BY <1>1, <1>2
  <2>2. m = [i \in 1 .. Len(x \o y) - (1 + Len(x)) + 1 |-> (x \o y)[i + (1 + Len(x)) - 1]]
    BY <1>1, <1>2
  <2>3. \A i \in 1 .. Len(y) : i + (1 + Len(x)) - 1 = i + Len(x)
    BY <1>1
  <2> QED BY <2>1, <2>2, <2>3
<1>4. \A i \in 1 .. Len(y) : (x \o y)[i + Len(x)] = y[i]
  <2>1. \A i \in 1 .. Len(y) : /\ i + Len(x) \in 1 .. Len(x) + Len(y)
                               /\ ~(i + Len(x) <= Len(x)) /\ i + Len(x) - Len(x) = i
    BY <1>1
  <2> QED BY <2>1, <1>2
<1>5. y = [i \in 1 .. Len(y) |-> y[i]]
  BY SeqSize
<1> QED BY <1>3, <1>4, <1>5
=============================================================================
