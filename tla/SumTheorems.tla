----------------------------- MODULE SumTheorems -----------------------------
(***************************************************************************)
(* What the proofs need to know of SumFunctionOnSet, the sum that the      *)
(* specifications count stock, quantities and money with. Its definition   *)
(* picks the elements of the set in an unspecified order, by a recursive   *)
(* function on the subsets of the set. That this function exists, and that *)
(* the order does not matter, is proved by induction over finite sets. The *)
(* induction is stated with a set instead of a predicate: S is all good,   *)
(* because a smallest subset that is not good cannot exist.                *)
(***************************************************************************)
EXTENDS Functions, FiniteSets, FiniteSetTheorems, WellFoundedInduction, TLAPS

(* Induction over the subsets of a finite set: a collection of them that   *)
(* has every subset whose strict subsets it has, has all.                  *)
THEOREM SubsetInduction ==
    ASSUME NEW S, IsFiniteSet(S), NEW Good,
           \A T \in SUBSET S : (\A U \in SUBSET T : U # T => U \in Good) => T \in Good
    PROVE  SUBSET S \subseteq Good
<1> DEFINE Bad == {T \in SUBSET S : T \notin Good}
<1>1. SUFFICES ASSUME Bad # {} PROVE FALSE
    OBVIOUS
<1>2. IsWellFoundedOn(StrictSubsetOrdering(S), SUBSET S)
    BY FS_StrictSubsetOrderingWellFounded, FS_FiniteSubsetsOfFinite
<1>3. PICK T \in Bad : \A U \in Bad : ~(<<U, T>> \in StrictSubsetOrdering(S))
    <2> HIDE DEF Bad
    <2>1. Bad \subseteq SUBSET S
        BY DEF Bad
    <2>2. QED  BY <1>1, <1>2, <2>1, WFMin
<1>4. ASSUME NEW U \in SUBSET T, U # T PROVE U \in Good
    <2>1. <<U, T>> \in StrictSubsetOrdering(S)
        BY <1>3, <1>4 DEF StrictSubsetOrdering
    <2>2. QED  BY <1>3, <2>1
<1>5. QED  BY <1>3, <1>4

(* A finite set of integers has a least element. *)
THEOREM LeastElement ==
    ASSUME NEW S, IsFiniteSet(S), S \subseteq Int, S # {}
    PROVE  \E m \in S : \A n \in S : m <= n
<1> DEFINE Good == {T \in SUBSET S : T = {} \/ \E m \in T : \A n \in T : m <= n}
<1>1. ASSUME NEW T \in SUBSET S, \A U \in SUBSET T : U # T => U \in Good
      PROVE  T \in Good
    <2>1. SUFFICES ASSUME NEW x \in T PROVE T \in Good
        OBVIOUS
    <2>2. T \ {x} \in Good
        BY <1>1
    <2>3. CASE T \ {x} = {}
        <3>1. \A n \in T : x <= n
            BY <2>3
        <3>2. QED  BY <3>1
    <2>4. ASSUME NEW m \in T \ {x}, \A n \in T \ {x} : m <= n PROVE T \in Good
        <3>1. \A n \in T : n \in Int
            OBVIOUS
        <3>2. CASE m <= x
            BY <2>4, <3>2
        <3>3. CASE ~(m <= x)
            <4>1. \A n \in T : x <= n
                BY <2>4, <3>1, <3>3
            <4>2. QED  BY <4>1
        <3>4. QED  BY <3>2, <3>3
    <2>5. QED  BY <2>2, <2>3, <2>4
<1>2. SUBSET S \subseteq Good
    <2> HIDE DEF Good
    <2>1. QED  BY <1>1, SubsetInduction
<1>3. S \in SUBSET S
    OBVIOUS
<1>4. QED  BY <1>2, <1>3

-----------------------------------------------------------------------------
(* The table of the partial sums, which SumFunctionOnSet looks its result up in. *)

OneOf(s) == CHOOSE x \in s : TRUE

IsTable(f, S, it) ==
    it = [s \in SUBSET S |-> IF s = {} THEN 0 ELSE f[OneOf(s)] + it[s \ {OneOf(s)}]]

Table(f, S) == CHOOSE it : IsTable(f, S, it)

(* The definition of the sum, in these words. *)
LEMMA SumIsLookedUp ==
    ASSUME NEW f, NEW S
    PROVE  SumFunctionOnSet(f, S) = Table(f, S)[S]
BY DEF SumFunctionOnSet, FoldFunctionOnSet, MapThenFoldSet, Table, IsTable, OneOf

(* What is picked is in the set. *)
LEMMA OneOfIsIn == ASSUME NEW s, s # {} PROVE OneOf(s) \in s
BY DEF OneOf

(* Two tables agree wherever both are defined. *)
LEMMA TablesAgree ==
    ASSUME NEW f, NEW S, IsFiniteSet(S), NEW A, NEW B, S \subseteq A, S \subseteq B,
           NEW it, IsTable(f, A, it), NEW jt, IsTable(f, B, jt)
    PROVE  it[S] = jt[S]
<1> DEFINE Good == {T \in SUBSET S : it[T] = jt[T]}
<1>1. ASSUME NEW T \in SUBSET S, \A U \in SUBSET T : U # T => U \in Good
      PROVE  T \in Good
    <2>1. CASE T = {}
        BY <2>1 DEF IsTable
    <2>2. CASE T # {}
        <3>1. OneOf(T) \in T
            BY <2>2, OneOfIsIn
        <3>2. it[T \ {OneOf(T)}] = jt[T \ {OneOf(T)}]
            BY <1>1, <3>1
        <3>3. T \in SUBSET A /\ T \in SUBSET B
            OBVIOUS
        <3>4. it[T] = f[OneOf(T)] + it[T \ {OneOf(T)}]
            BY <2>2, <3>3 DEF IsTable
        <3>5. jt[T] = f[OneOf(T)] + jt[T \ {OneOf(T)}]
            BY <2>2, <3>3 DEF IsTable
        <3>6. QED  BY <3>2, <3>4, <3>5
    <2>3. QED  BY <2>1, <2>2
<1>2. SUBSET S \subseteq Good
    <2> HIDE DEF Good
    <2>1. QED  BY <1>1, SubsetInduction
<1>3. S \in SUBSET S
    OBVIOUS
<1>4. QED  BY <1>2, <1>3

(* Every finite set has its table. *)
LEMMA TableExists ==
    ASSUME NEW f, NEW S, IsFiniteSet(S)
    PROVE  IsTable(f, S, Table(f, S))
<1> DEFINE Good == {T \in SUBSET S : \E it : IsTable(f, T, it)}
<1>1. ASSUME NEW T \in SUBSET S, \A U \in SUBSET T : U # T => U \in Good
      PROVE  T \in Good
    <2> DEFINE val(U) == Table(f, U)[U]
               it == [U \in SUBSET T |->
                         IF U = T THEN IF T = {} THEN 0
                                       ELSE f[OneOf(T)] + val(T \ {OneOf(T)})
                         ELSE val(U)]
    <2>1. ASSUME NEW U \in SUBSET T, U # T PROVE IsTable(f, U, Table(f, U))
        BY <1>1, <2>1 DEF Table
    <2>2. ASSUME NEW U \in SUBSET T
          PROVE  it[U] = IF U = {} THEN 0 ELSE f[OneOf(U)] + it[U \ {OneOf(U)}]
        <3>1. CASE U = {}
            <4>1. CASE U = T
                BY <3>1, <4>1
            <4>2. CASE U # T
                BY <3>1, <4>2, <2>1 DEF IsTable
            <4>3. QED  BY <4>1, <4>2
        <3>2. CASE U # {}
            <4> DEFINE x == OneOf(U)
            <4>1. x \in U
                BY <3>2, OneOfIsIn
            <4> HIDE DEF x
            <4>2. U \ {x} \in SUBSET T /\ U \ {x} # T /\ U \ {x} \in SUBSET U
                BY <4>1
            <4>3. it[U \ {x}] = val(U \ {x})
                BY <4>2
            <4>4. CASE U = T
                <5>1. it[U] = f[x] + val(U \ {x})
                    BY <3>2, <4>4 DEF x
                <5>2. QED  BY <3>2, <4>3, <5>1 DEF x
            <4>5. CASE U # T
                <5>1. it[U] = val(U)
                    BY <4>5
                <5>2. IsTable(f, U, Table(f, U)) /\ U \in SUBSET U
                    BY <2>1, <4>5
                <5>3. val(U) = f[x] + Table(f, U)[U \ {x}]
                    BY <3>2, <5>2 DEF IsTable, x
                <5>4. IsTable(f, U \ {x}, Table(f, U \ {x}))
                    BY <2>1, <4>2
                <5>5. IsFiniteSet(U \ {x})
                    BY <4>2, FS_Subset
                <5>6. Table(f, U)[U \ {x}] = Table(f, U \ {x})[U \ {x}]
                    BY <5>2, <5>4, <5>5, <4>2, TablesAgree
                <5>7. QED  BY <3>2, <4>3, <5>1, <5>3, <5>6 DEF x
            <4>6. QED  BY <4>4, <4>5
        <3>3. QED  BY <3>1, <3>2
    <2>3. IsTable(f, T, it)
        BY <2>2 DEF IsTable
    <2>4. QED  BY <2>3
<1>2. SUBSET S \subseteq Good
    <2> HIDE DEF Good
    <2>1. QED  BY <1>1, SubsetInduction
<1>3. S \in SUBSET S
    OBVIOUS
<1>4. QED  BY <1>2, <1>3 DEF Table

-----------------------------------------------------------------------------
(* What the proofs about the components cite. *)

(* A sum over nothing is zero. *)
THEOREM SumEmpty ==
    ASSUME NEW f
    PROVE  SumFunctionOnSet(f, {}) = 0
<1>1. IsTable(f, {}, Table(f, {}))
    BY TableExists, FS_EmptySet
<1>2. QED  BY <1>1, SumIsLookedUp DEF IsTable

(* A sum takes out the element that it picks ... *)
LEMMA SumPicks ==
    ASSUME NEW f, NEW S, IsFiniteSet(S), S # {}
    PROVE  SumFunctionOnSet(f, S) = f[OneOf(S)] + SumFunctionOnSet(f, S \ {OneOf(S)})
<1> DEFINE R == S \ {OneOf(S)}
<1>1. IsFiniteSet(R)
    BY FS_Subset
<1>2. IsTable(f, S, Table(f, S)) /\ IsTable(f, R, Table(f, R))
    BY <1>1, TableExists
<1>3. Table(f, S)[R] = Table(f, R)[R]
    BY <1>1, <1>2, TablesAgree
<1>4. Table(f, S)[S] = f[OneOf(S)] + Table(f, S)[R]
    BY <1>2 DEF IsTable
<1>5. QED  BY <1>3, <1>4, SumIsLookedUp

(* ... a sum of integers is an integer ... *)
THEOREM SumIsInteger ==
    ASSUME NEW S, IsFiniteSet(S), NEW f, \A x \in S : f[x] \in Int
    PROVE  SumFunctionOnSet(f, S) \in Int
<1> DEFINE Good == {T \in SUBSET S : SumFunctionOnSet(f, T) \in Int}
<1>1. ASSUME NEW T \in SUBSET S, \A U \in SUBSET T : U # T => U \in Good
      PROVE  T \in Good
    <2>1. CASE T = {}
        BY <2>1, SumEmpty
    <2>2. CASE T # {}
        <3>1. OneOf(T) \in T
            BY <2>2, OneOfIsIn
        <3>2. SumFunctionOnSet(f, T \ {OneOf(T)}) \in Int
            BY <1>1, <3>1
        <3>3. SumFunctionOnSet(f, T) = f[OneOf(T)] + SumFunctionOnSet(f, T \ {OneOf(T)})
            BY <2>2, SumPicks, FS_Subset
        <3>4. f[OneOf(T)] \in Int
            BY <3>1
        <3>5. QED  BY <3>2, <3>3, <3>4
    <2>3. QED  BY <2>1, <2>2
<1>2. SUBSET S \subseteq Good
    <2> HIDE DEF Good
    <2>1. QED  BY <1>1, SubsetInduction
<1>3. S \in SUBSET S
    OBVIOUS
<1>4. QED  BY <1>2, <1>3

(* ... and it takes out any other just as well. *)
THEOREM SumTakesOut ==
    ASSUME NEW S, IsFiniteSet(S), NEW f, \A x \in S : f[x] \in Int, NEW a \in S
    PROVE  SumFunctionOnSet(f, S) = f[a] + SumFunctionOnSet(f, S \ {a})
<1> DEFINE Total(T) == SumFunctionOnSet(f, T)
           Good == {T \in SUBSET S : \A x \in T : Total(T) = f[x] + Total(T \ {x})}
<1>1. ASSUME NEW T \in SUBSET S, \A U \in SUBSET T : U # T => U \in Good
      PROVE  T \in Good
    <2>1. SUFFICES ASSUME NEW x \in T PROVE Total(T) = f[x] + Total(T \ {x})
        OBVIOUS
    <2> DEFINE o == OneOf(T)
    <2>2. o \in T
        BY OneOfIsIn
    <2>3. Total(T) = f[o] + Total(T \ {o})
        BY SumPicks, FS_Subset
    <2> HIDE DEF o
    <2>4. CASE x = o
        BY <2>3, <2>4
    <2>5. CASE x # o
        <3> DEFINE R == (T \ {o}) \ {x}
        <3>1. R = (T \ {x}) \ {o}
            OBVIOUS
        <3>2. Total(T \ {o}) = f[x] + Total(R)
            BY <1>1, <2>2, <2>5
        <3>3. Total(T \ {x}) = f[o] + Total(R)
            BY <1>1, <2>2, <2>5, <3>1
        <3>4. Total(R) \in Int
            BY SumIsInteger, FS_Subset
        <3>5. f[x] \in Int /\ f[o] \in Int
            BY <2>2
        <3> HIDE DEF Total, R
        <3>6. QED  BY <2>3, <3>2, <3>3, <3>4, <3>5
    <2>6. QED  BY <2>4, <2>5
<1>2. SUBSET S \subseteq Good
    <2> HIDE DEF Good
    <2>1. QED  BY <1>1, SubsetInduction
<1>3. S \in SUBSET S
    OBVIOUS
<1>4. QED  BY <1>2, <1>3

(* The sum over one element more. *)
THEOREM SumTakesIn ==
    ASSUME NEW S, IsFiniteSet(S), NEW a, a \notin S, NEW f, \A x \in S \cup {a} : f[x] \in Int
    PROVE  SumFunctionOnSet(f, S \cup {a}) = f[a] + SumFunctionOnSet(f, S)
<1>1. IsFiniteSet(S \cup {a})
    BY FS_AddElement
<1>2. (S \cup {a}) \ {a} = S
    OBVIOUS
<1>3. SumFunctionOnSet(f, S \cup {a}) = f[a] + SumFunctionOnSet(f, (S \cup {a}) \ {a})
    BY <1>1, SumTakesOut
<1>4. QED  BY <1>2, <1>3

(* A sum depends on what the function is on the set alone. *)
THEOREM SumsAgree ==
    ASSUME NEW S, IsFiniteSet(S), NEW f, NEW g, \A x \in S : f[x] = g[x]
    PROVE  SumFunctionOnSet(f, S) = SumFunctionOnSet(g, S)
<1> DEFINE Good == {T \in SUBSET S : SumFunctionOnSet(f, T) = SumFunctionOnSet(g, T)}
<1>1. ASSUME NEW T \in SUBSET S, \A U \in SUBSET T : U # T => U \in Good
      PROVE  T \in Good
    <2>1. CASE T = {}
        BY <2>1, SumEmpty
    <2>2. CASE T # {}
        <3>1. OneOf(T) \in T
            BY <2>2, OneOfIsIn
        <3>2. SumFunctionOnSet(f, T \ {OneOf(T)}) = SumFunctionOnSet(g, T \ {OneOf(T)})
            BY <1>1, <3>1
        <3>3. SumFunctionOnSet(f, T) = f[OneOf(T)] + SumFunctionOnSet(f, T \ {OneOf(T)})
            BY <2>2, SumPicks, FS_Subset
        <3>4. SumFunctionOnSet(g, T) = g[OneOf(T)] + SumFunctionOnSet(g, T \ {OneOf(T)})
            BY <2>2, SumPicks, FS_Subset
        <3>5. f[OneOf(T)] = g[OneOf(T)]
            BY <3>1
        <3>6. QED  BY <3>2, <3>3, <3>4, <3>5
    <2>3. QED  BY <2>1, <2>2
<1>2. SUBSET S \subseteq Good
    <2> HIDE DEF Good
    <2>1. QED  BY <1>1, SubsetInduction
<1>3. S \in SUBSET S
    OBVIOUS
<1>4. QED  BY <1>2, <1>3

(* A sum of natural numbers is no smaller than any part of it. *)
THEOREM SumOfPart ==
    ASSUME NEW S, IsFiniteSet(S), NEW f, \A x \in S : f[x] \in Nat, NEW P \in SUBSET S
    PROVE  /\ SumFunctionOnSet(f, P) \in Nat
           /\ SumFunctionOnSet(f, P) <= SumFunctionOnSet(f, S)
<1> DEFINE Total(T) == SumFunctionOnSet(f, T)
           Good == {T \in SUBSET S : \A U \in SUBSET T : Total(U) <= Total(T)}
<1>0. \A T \in SUBSET S : Total(T) \in Int /\ IsFiniteSet(T)
    <2>1. SUFFICES ASSUME NEW T \in SUBSET S PROVE Total(T) \in Int /\ IsFiniteSet(T)
        OBVIOUS
    <2>2. IsFiniteSet(T) /\ \A x \in T : f[x] \in Int
        BY FS_Subset
    <2>3. QED  BY <2>2, SumIsInteger
<1>1. ASSUME NEW T \in SUBSET S, \A U \in SUBSET T : U # T => U \in Good
      PROVE  T \in Good
    <2>1. SUFFICES ASSUME NEW U \in SUBSET T PROVE Total(U) <= Total(T)
        OBVIOUS
    <2>2. CASE U = T
        BY <1>0, <2>2
    <2>3. ASSUME NEW x \in T \ U PROVE Total(U) <= Total(T)
        <3>1. Total(U) <= Total(T \ {x})
            BY <1>1, <2>3
        <3>2. \A y \in T : f[y] \in Int
            OBVIOUS
        <3>3. Total(T) = f[x] + Total(T \ {x})
            BY <1>0, <3>2, SumTakesOut
        <3>4. f[x] \in Nat /\ Total(T \ {x}) \in Int /\ Total(U) \in Int
            BY <1>0
        <3> HIDE DEF Total
        <3>5. QED  BY <3>1, <3>3, <3>4
    <2>4. QED  BY <2>2, <2>3
<1>2. SUBSET S \subseteq Good
    <2> HIDE DEF Good
    <2>1. QED  BY <1>1, SubsetInduction
<1>3. Total(P) <= Total(S) /\ Total({}) <= Total(P)
    BY <1>2
<1>4. Total({}) = 0
    BY SumEmpty
<1>5. Total(P) \in Int
    BY <1>0
<1>6. QED  BY <1>3, <1>4, <1>5
=============================================================================
