------------------------------ MODULE SumProofs ------------------------------
(***************************************************************************)
(* What the proofs about balances, pools and counters need to know of      *)
(* sums: SumFunctionOnSet(f, S) of the module Functions adds the values of *)
(* f over the finite set S, whatever order its recursion takes the         *)
(* elements in.  The induction over finite sets is stated with a set G of  *)
(* the sets that have a property, so that a proof can name it.             *)
(***************************************************************************)
EXTENDS Integers, FiniteSets, Functions, FiniteSetTheorems, TLAPS

------------------------------------------------------------------------------
\* Induction over the subsets of a finite set.

\* The library's fact that a well-founded relation has minima, as one formula.
LEMMA WFMinimal ==
    \A R, Q, B : IsWellFoundedOn(R, Q) /\ B \subseteq Q /\ B # {} =>
        \E T \in B : \A U \in B : ~ (<<U, T>> \in R)
    BY WFMin, Zenon

\* Among subsets of a finite set there is one that contains no other of them.
LEMMA SmallestSubset ==
    ASSUME NEW S, IsFiniteSet(S), NEW B, B \subseteq SUBSET S, B # {}
    PROVE  \E T \in B : \A U \in B : U \subseteq T => U = T
    <1> DEFINE R == StrictSubsetOrdering(S)
    <1>1. IsWellFoundedOn(R, SUBSET S)
        BY FS_StrictSubsetOrderingWellFounded, FS_FiniteSubsetsOfFinite
    <1>2. \E T \in B : \A U \in B : ~ (<<U, T>> \in R)
        <2> HIDE DEF R
        <2> QED  BY <1>1, WFMinimal, Zenon
    <1> QED  BY <1>2 DEF StrictSubsetOrdering

\* A set of subsets that contains a set whenever it contains all smaller ones
\* contains the whole set.
LEMMA StrongSetInduction ==
    ASSUME NEW S, IsFiniteSet(S), NEW G,
           \A T \in SUBSET S : (\A U \in SUBSET T : U # T => U \in G) => T \in G
    PROVE  S \in G
    <1>1. SUFFICES ASSUME S \notin G  PROVE FALSE
        OBVIOUS
    <1> DEFINE B == {T \in SUBSET S : T \notin G}
    <1>2. S \in B /\ B \subseteq SUBSET S
        BY <1>1
    <1>3. \E T \in B : \A U \in B : U \subseteq T => U = T
        <2> HIDE DEF B
        <2>1. B # {}
            BY <1>2
        <2> QED  BY <1>2, <2>1, SmallestSubset
    <1> QED  BY <1>3

\* The same, one element at a time.
LEMMA SetInduction ==
    ASSUME NEW S, IsFiniteSet(S), NEW G, {} \in G,
           \A T \in SUBSET S, x \in S : T \in G /\ x \notin T => T \cup {x} \in G
    PROVE  S \in G
    <1> SUFFICES ASSUME NEW T \in SUBSET S, \A U \in SUBSET T : U # T => U \in G
                 PROVE  T \in G
        BY StrongSetInduction
    <1>1. CASE T = {}
        BY <1>1
    <1>2. CASE T # {}
        <2>1. PICK x \in T : TRUE
            BY <1>2
        <2>2. T \ {x} \in G /\ T \ {x} \in SUBSET S /\ x \in S /\ x \notin T \ {x}
            BY <2>1
        <2>3. (T \ {x}) \cup {x} = T
            BY <2>1
        <2> QED  BY <2>2, <2>3
    <1> QED  BY <1>1, <1>2

------------------------------------------------------------------------------
\* The sum is additive.

\* A gives every subset of S the sum of f over it.
Adds(A, f, S) ==
    /\ A \in [SUBSET S -> Int] /\ \A x \in S : f[x] \in Int
    /\ A[{}] = 0
    /\ \A T \in SUBSET S, x \in S : x \notin T => A[T \cup {x}] = A[T] + f[x]

LEMMA AdderExists ==
    ASSUME NEW S, IsFiniteSet(S), NEW f, \A x \in S : f[x] \in Int
    PROVE  \E A : Adds(A, f, S)
    <1> DEFINE G == {T \in SUBSET S : \E A : Adds(A, f, T)}
    <1>1. {} \in G
        <2>1. Adds([T \in SUBSET {} |-> 0], f, {})
            BY DEF Adds
        <2> QED  BY <2>1
    <1>2. ASSUME NEW T \in SUBSET S, NEW x \in S, T \in G, x \notin T
          PROVE  T \cup {x} \in G
        <2>1. PICK A : Adds(A, f, T)
            BY <1>2
        <2> DEFINE B == [U \in SUBSET (T \cup {x}) |->
                            A[U \ {x}] + (IF x \in U THEN f[x] ELSE 0)]
        <2>2. \A U \in SUBSET (T \cup {x}) : U \ {x} \in SUBSET T
            OBVIOUS
        <2>3. B \in [SUBSET (T \cup {x}) -> Int]
            BY <2>1, <2>2 DEF Adds
        <2>4. B[{}] = 0
            <3>1. {} \ {x} = {}
                OBVIOUS
            <3> QED  BY <2>1, <3>1 DEF Adds
        <2>5. ASSUME NEW U \in SUBSET (T \cup {x}), NEW y \in T \cup {x}, y \notin U
              PROVE  B[U \cup {y}] = B[U] + f[y]
            <3>1. U \cup {y} \in SUBSET (T \cup {x})
                OBVIOUS
            <3>2. CASE y = x
                <4>1. (U \cup {y}) \ {x} = U \ {x}
                    BY <3>2
                <4>2. B[U \cup {y}] = A[U \ {x}] + f[x]
                    BY <3>1, <3>2, <4>1
                <4>3. B[U] = A[U \ {x}] + 0
                    BY <2>5, <3>2
                <4> HIDE DEF B
                <4> QED  BY <4>2, <4>3, <3>2, <2>1, <2>2 DEF Adds
            <3>3. CASE y # x
                <4>1. (U \cup {y}) \ {x} = (U \ {x}) \cup {y}
                    BY <3>3
                <4>2. y \in T /\ y \notin U \ {x}
                    BY <2>5, <3>3
                <4>3. A[(U \ {x}) \cup {y}] = A[U \ {x}] + f[y]
                    BY <2>1, <2>2, <4>2 DEF Adds
                <4>4. B[U \cup {y}] = A[U \ {x}] + f[y] + (IF x \in U THEN f[x] ELSE 0)
                    BY <3>1, <3>3, <4>1, <4>3
                <4>5. B[U] = A[U \ {x}] + (IF x \in U THEN f[x] ELSE 0)
                    OBVIOUS
                <4>6. A[U \ {x}] \in Int /\ f[y] \in Int /\ f[x] \in Int
                    BY <2>1, <2>2, <4>2 DEF Adds
                <4> HIDE DEF B
                <4> QED  BY <4>4, <4>5, <4>6
            <3> QED  BY <3>2, <3>3
        <2>6. Adds(B, f, T \cup {x})
            <3> HIDE DEF B
            <3> QED  BY <2>1, <2>3, <2>4, <2>5 DEF Adds
        <2> HIDE DEF B
        <2> QED  BY <2>6
    <1>3. S \in G
        <2> HIDE DEF G
        <2> QED  BY <1>1, <1>2, SetInduction
    <1> QED  BY <1>3

\* I solves the recursion of the fold on the subsets of S.
Iterates(I, f, S) ==
    I = [s \in SUBSET S |->
            IF s = {} THEN 0
            ELSE f[CHOOSE x \in s : TRUE] + I[s \ {CHOOSE x \in s : TRUE}]]

LEMMA FoldIterates ==
    ASSUME NEW f, NEW S
    PROVE  SumFunctionOnSet(f, S) = (CHOOSE I : Iterates(I, f, S))[S]
    BY DEF SumFunctionOnSet, FoldFunctionOnSet, MapThenFoldSet, Iterates

\* The recursion has one solution, the additive function.
LEMMA AdderIterates ==
    ASSUME NEW S, IsFiniteSet(S), NEW f, NEW A, Adds(A, f, S)
    PROVE  /\ Iterates(A, f, S)
           /\ \A I : Iterates(I, f, S) => I = A
    <1> DEFINE c(s) == CHOOSE x \in s : TRUE
    <1>0. \A s \in SUBSET S : s # {} => c(s) \in s
        OBVIOUS
    <1>1. ASSUME NEW s \in SUBSET S, s # {}
          PROVE  /\ A[s] = f[c(s)] + A[s \ {c(s)}]
                 /\ s \ {c(s)} \in SUBSET s /\ s \ {c(s)} # s
        <2>1. (s \ {c(s)}) \cup {c(s)} = s
            BY <1>0, <1>1
        <2>2. /\ c(s) \in S /\ c(s) \notin s \ {c(s)}
              /\ s \ {c(s)} \in SUBSET S /\ s \ {c(s)} # s
            BY <1>0, <1>1
        <2> HIDE DEF c
        <2>3. A[s] = A[s \ {c(s)}] + f[c(s)]
            BY <2>1, <2>2 DEF Adds
        <2>4. A[s \ {c(s)}] \in Int /\ f[c(s)] \in Int
            BY <2>2 DEF Adds
        <2>5. A[s \ {c(s)}] + f[c(s)] = f[c(s)] + A[s \ {c(s)}]
            BY <2>4
        <2> QED  BY <2>2, <2>3, <2>5
    <1>2. Iterates(A, f, S)
        <2>1. \A s \in SUBSET S : A[s] = IF s = {} THEN 0 ELSE f[c(s)] + A[s \ {c(s)}]
            BY <1>1 DEF Adds
        <2> QED  BY <2>1 DEF Adds, Iterates
    <1>3. ASSUME NEW I, Iterates(I, f, S)  PROVE I = A
        <2> DEFINE G == {T \in SUBSET S : \A U \in SUBSET T : I[U] = A[U]}
        <2>1. \A s \in SUBSET S : I[s] = IF s = {} THEN 0 ELSE f[c(s)] + I[s \ {c(s)}]
            BY <1>3 DEF Iterates
        <2>2. ASSUME NEW T \in SUBSET S, \A U \in SUBSET T : U # T => U \in G
              PROVE  T \in G
            <3>1. \A U \in SUBSET T : U # T => I[U] = A[U]
                BY <2>2
            <3>2. I[T] = A[T]
                <4>1. CASE T = {}
                    BY <2>1, <4>1 DEF Adds
                <4>2. CASE T # {}
                    <5> HIDE DEF c, G
                    <5> QED  BY <1>1, <2>1, <3>1, <4>2
                <4> QED  BY <4>1, <4>2
            <3> QED  BY <3>1, <3>2
        <2>3. S \in G
            <3> HIDE DEF G
            <3> QED  BY <2>2, StrongSetInduction
        <2>4. \A s \in SUBSET S : I[s] = A[s]
            BY <2>3
        <2> QED  BY <2>4, <1>3 DEF Iterates, Adds
    <1> QED  BY <1>2, <1>3

\* The fold gives each subset its sum.
LEMMA SumAdds ==
    ASSUME NEW S, IsFiniteSet(S), NEW f, NEW A, Adds(A, f, S)
    PROVE  \A T \in SUBSET S : SumFunctionOnSet(f, T) = A[T]
    <1> SUFFICES ASSUME NEW T \in SUBSET S
                 PROVE  SumFunctionOnSet(f, T) = A[T]
        OBVIOUS
    <1> DEFINE B == [U \in SUBSET T |-> A[U]]
    <1>1. IsFiniteSet(T)
        BY FS_Subset
    <1>2. Adds(B, f, T)
        BY DEF Adds
    <1>3. \A I : Iterates(I, f, T) <=> I = B
        BY <1>1, <1>2, AdderIterates
    <1>4. (CHOOSE I : Iterates(I, f, T)) = B
        <2> HIDE DEF B
        <2> QED  BY <1>3
    <1> QED  BY <1>4, FoldIterates

------------------------------------------------------------------------------
\* What the proofs cite.

LEMMA SumEmpty ==
    ASSUME NEW f
    PROVE  SumFunctionOnSet(f, {}) = 0
    <1> DEFINE A == [T \in SUBSET {} |-> 0]
    <1>1. Adds(A, f, {})
        BY DEF Adds
    <1> QED  BY <1>1, SumAdds, FS_EmptySet

LEMMA SumType ==
    ASSUME NEW S, IsFiniteSet(S), NEW f, \A x \in S : f[x] \in Int
    PROVE  SumFunctionOnSet(f, S) \in Int
    <1>1. PICK A : Adds(A, f, S)
        BY AdderExists
    <1>2. SumFunctionOnSet(f, S) = A[S]
        BY <1>1, SumAdds
    <1> QED  BY <1>1, <1>2 DEF Adds

\* One more element.
LEMMA SumAddElement ==
    ASSUME NEW S, IsFiniteSet(S), NEW x, x \notin S,
           NEW f, \A y \in S \cup {x} : f[y] \in Int
    PROVE  SumFunctionOnSet(f, S \cup {x}) = SumFunctionOnSet(f, S) + f[x]
    <1>1. IsFiniteSet(S \cup {x})
        BY FS_AddElement
    <1>2. PICK A : Adds(A, f, S \cup {x})
        BY <1>1, AdderExists
    <1>3. \A T \in SUBSET (S \cup {x}) : SumFunctionOnSet(f, T) = A[T]
        BY <1>1, <1>2, SumAdds
    <1> QED  BY <1>2, <1>3 DEF Adds

\* Only the values on the set matter.
LEMMA SumSame ==
    ASSUME NEW S, IsFiniteSet(S), NEW f, NEW g, \A x \in S : f[x] \in Int,
           \A x \in S : g[x] = f[x]
    PROVE  SumFunctionOnSet(g, S) = SumFunctionOnSet(f, S)
    <1>1. PICK A : Adds(A, f, S)
        BY AdderExists
    <1>2. Adds(A, g, S)
        BY <1>1 DEF Adds
    <1> QED  BY <1>1, <1>2, SumAdds

\* One element changes its value.
LEMMA SumUpdate ==
    ASSUME NEW S, IsFiniteSet(S), NEW x \in S, NEW f, NEW g,
           \A y \in S : f[y] \in Int /\ g[y] \in Int,
           \A y \in S \ {x} : g[y] = f[y]
    PROVE  SumFunctionOnSet(g, S) = SumFunctionOnSet(f, S) - f[x] + g[x]
    <1> DEFINE T == S \ {x}
    <1>1. IsFiniteSet(T) /\ x \notin T /\ T \cup {x} = S
        BY FS_RemoveElement
    <1> HIDE DEF T
    <1>2. /\ SumFunctionOnSet(f, S) = SumFunctionOnSet(f, T) + f[x]
          /\ SumFunctionOnSet(g, S) = SumFunctionOnSet(g, T) + g[x]
        BY <1>1, SumAddElement
    <1>3. SumFunctionOnSet(g, T) = SumFunctionOnSet(f, T)
        BY <1>1, SumSame DEF T
    <1>4. SumFunctionOnSet(f, T) \in Int
        BY <1>1, SumType
    <1> QED  BY <1>2, <1>3, <1>4

\* Nothing adds up to nothing.
LEMMA SumZero ==
    ASSUME NEW S, IsFiniteSet(S), NEW f, \A x \in S : f[x] = 0
    PROVE  SumFunctionOnSet(f, S) = 0
    <1> DEFINE A == [T \in SUBSET S |-> 0]
    <1>1. Adds(A, f, S)
        BY DEF Adds
    <1> QED  BY <1>1, SumAdds

\* A set and the rest.
LEMMA SumSplit ==
    ASSUME NEW S, IsFiniteSet(S), NEW T \in SUBSET S, NEW f, \A x \in S : f[x] \in Int
    PROVE  SumFunctionOnSet(f, S) = SumFunctionOnSet(f, T) + SumFunctionOnSet(f, S \ T)
    <1>1. PICK A : Adds(A, f, S)
        BY AdderExists
    <1>2. \A U \in SUBSET S : SumFunctionOnSet(f, U) = A[U]
        BY <1>1, SumAdds
    <1> DEFINE R == S \ T
               G == {U \in SUBSET R : A[T \cup U] = A[T] + A[U]}
    <1>3. {} \in G
        <2>1. T \cup {} = T
            OBVIOUS
        <2> QED  BY <1>1, <2>1 DEF Adds
    <1>4. ASSUME NEW U \in SUBSET R, NEW x \in R, U \in G, x \notin U
          PROVE  U \cup {x} \in G
        <2>1. /\ A[U \cup {x}] = A[U] + f[x]
              /\ A[(T \cup U) \cup {x}] = A[T \cup U] + f[x]
              /\ A[T] \in Int /\ A[U] \in Int /\ f[x] \in Int
            BY <1>1, <1>4 DEF Adds
        <2>2. (T \cup U) \cup {x} = T \cup (U \cup {x})
            OBVIOUS
        <2>3. A[T \cup U] = A[T] + A[U]
            BY <1>4
        <2>4. A[T \cup (U \cup {x})] = A[T \cup U] + f[x]
            BY <2>1, <2>2
        <2>5. A[T \cup (U \cup {x})] = A[T] + A[U \cup {x}]
            BY <2>1, <2>3, <2>4
        <2> QED  BY <2>5
    <1>5. IsFiniteSet(R) /\ T \cup R = S
        BY FS_Subset
    <1>6. R \in G
        <2> HIDE DEF G, R
        <2> QED  BY <1>3, <1>4, <1>5, SetInduction
    <1> QED  BY <1>2, <1>5, <1>6

\* Term by term.
LEMMA SumLess ==
    ASSUME NEW S, IsFiniteSet(S), NEW f, NEW g,
           \A x \in S : f[x] \in Int /\ g[x] \in Int /\ f[x] <= g[x]
    PROVE  SumFunctionOnSet(f, S) <= SumFunctionOnSet(g, S)
    <1>1. PICK A : Adds(A, f, S)
        BY AdderExists
    <1>2. PICK B : Adds(B, g, S)
        BY AdderExists
    <1> DEFINE G == {U \in SUBSET S : A[U] <= B[U]}
    <1>3. {} \in G
        BY <1>1, <1>2 DEF Adds
    <1>4. ASSUME NEW U \in SUBSET S, NEW x \in S, U \in G, x \notin U
          PROVE  U \cup {x} \in G
        <2>1. /\ A[U \cup {x}] = A[U] + f[x] /\ B[U \cup {x}] = B[U] + g[x]
              /\ A[U] \in Int /\ B[U] \in Int /\ A[U] <= B[U]
            BY <1>1, <1>2, <1>4 DEF Adds
        <2>2. A[U \cup {x}] <= B[U \cup {x}]
            BY <2>1
        <2> QED  BY <2>2
    <1>5. S \in G
        <2> HIDE DEF G
        <2> QED  BY <1>3, <1>4, SetInduction
    <1> QED  BY <1>1, <1>2, <1>5, SumAdds

\* Part of a sum of terms that are not negative is no more than the whole.
LEMMA SumPart ==
    ASSUME NEW S, IsFiniteSet(S), NEW T \in SUBSET S, NEW f, \A x \in S : f[x] \in Nat
    PROVE  SumFunctionOnSet(f, T) \in Nat /\ SumFunctionOnSet(f, T) <= SumFunctionOnSet(f, S)
    <1> DEFINE z == [x \in S |-> 0]
    <1>1. IsFiniteSet(T) /\ IsFiniteSet(S \ T)
        BY FS_Subset
    <1>2. /\ SumFunctionOnSet(z, T) = 0 /\ SumFunctionOnSet(z, S \ T) = 0
        BY <1>1, SumZero
    <1>3. \A x \in S : f[x] \in Int /\ z[x] \in Int /\ z[x] <= f[x]
        OBVIOUS
    <1> HIDE DEF z
    <1>4. 0 <= SumFunctionOnSet(f, T) /\ 0 <= SumFunctionOnSet(f, S \ T)
        BY <1>1, <1>2, <1>3, SumLess
    <1>5. SumFunctionOnSet(f, T) \in Int /\ SumFunctionOnSet(f, S \ T) \in Int
        BY <1>1, <1>3, SumType
    <1>6. SumFunctionOnSet(f, S) = SumFunctionOnSet(f, T) + SumFunctionOnSet(f, S \ T)
        BY <1>3, SumSplit
    <1> QED  BY <1>4, <1>5, <1>6

\* Summed under other names, each used once.
LEMMA SumRenamed ==
    ASSUME NEW S, IsFiniteSet(S), NEW f, \A x \in S : f[x] \in Int,
           NEW m, \A x \in S, y \in S : m[x] = m[y] => x = y,
           NEW g, \A x \in S : g[m[x]] = f[x]
    PROVE  LET I == {m[x] : x \in S}
           IN  IsFiniteSet(I) /\ SumFunctionOnSet(g, I) = SumFunctionOnSet(f, S)
    <1> DEFINE im(T) == {m[x] : x \in T}
               G == {T \in SUBSET S : /\ IsFiniteSet(im(T))
                                      /\ SumFunctionOnSet(g, im(T)) = SumFunctionOnSet(f, T)}
    <1>1. {} \in G
        <2>1. im({}) = {}
            OBVIOUS
        <2> HIDE DEF im
        <2> QED  BY <2>1, SumEmpty, FS_EmptySet
    <1>2. ASSUME NEW T \in SUBSET S, NEW x \in S, T \in G, x \notin T
          PROVE  T \cup {x} \in G
        <2>1. im(T \cup {x}) = im(T) \cup {m[x]} /\ m[x] \notin im(T)
            BY <1>2
        <2>2. IsFiniteSet(T) /\ IsFiniteSet(im(T))
            BY <1>2, FS_Subset
        <2>3. /\ \A y \in T \cup {x} : f[y] \in Int
              /\ \A k \in im(T) \cup {m[x]} : g[k] \in Int
            BY <1>2
        <2>4. SumFunctionOnSet(g, im(T)) = SumFunctionOnSet(f, T) /\ g[m[x]] = f[x]
            BY <1>2
        <2>5. T \cup {x} \in SUBSET S
            BY <1>2
        <2> HIDE DEF im
        <2>6. SumFunctionOnSet(f, T \cup {x}) = SumFunctionOnSet(f, T) + f[x]
            BY <1>2, <2>2, <2>3, SumAddElement
        <2>7. SumFunctionOnSet(g, im(T) \cup {m[x]}) = SumFunctionOnSet(g, im(T)) + g[m[x]]
            <3> DEFINE J == im(T)
                       e == m[x]
            <3>1. IsFiniteSet(J) /\ e \notin J /\ \A k \in J \cup {e} : g[k] \in Int
                BY <2>1, <2>2, <2>3
            <3> HIDE DEF J, e
            <3>2. SumFunctionOnSet(g, J \cup {e}) = SumFunctionOnSet(g, J) + g[e]
                BY <3>1, SumAddElement
            <3> QED  BY <3>2 DEF J, e
        <2>8. IsFiniteSet(im(T) \cup {m[x]})
            BY <2>2, FS_AddElement
        <2> QED  BY <2>1, <2>4, <2>5, <2>6, <2>7, <2>8
    <1>3. S \in G
        <2> HIDE DEF G
        <2> QED  BY <1>1, <1>2, SetInduction
    <1> QED  BY <1>3

\* A factor comes out of the sum.
LEMMA SumScale ==
    ASSUME NEW S, IsFiniteSet(S), NEW f, NEW g, NEW c \in Int,
           \A x \in S : f[x] \in Int /\ g[x] = c * f[x]
    PROVE  SumFunctionOnSet(g, S) = c * SumFunctionOnSet(f, S)
    <1>1. PICK A : Adds(A, f, S)
        BY AdderExists
    <1> DEFINE B == [T \in SUBSET S |-> c * A[T]]
    <1>2. Adds(B, g, S)
        <2>1. B \in [SUBSET S -> Int] /\ \A x \in S : g[x] \in Int
            BY <1>1 DEF Adds
        <2>2. B[{}] = 0
            BY <1>1 DEF Adds
        <2>3. ASSUME NEW T \in SUBSET S, NEW x \in S, x \notin T
              PROVE  B[T \cup {x}] = B[T] + g[x]
            <3>1. /\ A[T \cup {x}] = A[T] + f[x] /\ A[T] \in Int /\ f[x] \in Int
                  /\ g[x] = c * f[x] /\ T \cup {x} \in SUBSET S
                BY <1>1, <2>3 DEF Adds
            <3>2. c * (A[T] + f[x]) = c * A[T] + c * f[x]
                BY <3>1
            <3> QED  BY <3>1, <3>2
        <2> QED  BY <2>1, <2>2, <2>3 DEF Adds
    <1>3. SumFunctionOnSet(f, S) = A[S]
        BY <1>1, SumAdds
    <1>4. SumFunctionOnSet(g, S) = B[S]
        <2> HIDE DEF B
        <2> QED  BY <1>2, SumAdds
    <1> QED  BY <1>3, <1>4

\* One more on each element of a subset: the sum grows by their number.
LEMMA SumCount ==
    ASSUME NEW S, IsFiniteSet(S), NEW T \in SUBSET S, NEW f, NEW g,
           \A x \in S : f[x] \in Int,
           \A x \in S : g[x] = IF x \in T THEN f[x] + 1 ELSE f[x]
    PROVE  SumFunctionOnSet(g, S) = SumFunctionOnSet(f, S) + Cardinality(T)
    <1>1. PICK A : Adds(A, f, S)
        BY AdderExists
    <1> DEFINE N == [U \in SUBSET S |-> Cardinality(U \cap T)]
               B == [U \in SUBSET S |-> A[U] + N[U]]
    <1>2. /\ N \in [SUBSET S -> Nat] /\ N[{}] = 0 /\ N[S] = Cardinality(S \cap T)
          /\ \A U \in SUBSET S, x \in S : x \notin U =>
                N[U \cup {x}] = N[U] + (IF x \in T THEN 1 ELSE 0)
        <2>1. \A U \in SUBSET S : IsFiniteSet(U \cap T) /\ Cardinality(U \cap T) \in Nat
            BY FS_Subset, FS_CardinalityType
        <2>2. N[{}] = 0
            BY FS_EmptySet
        <2>3. ASSUME NEW U \in SUBSET S, NEW x \in S, x \notin U
              PROVE  N[U \cup {x}] = N[U] + (IF x \in T THEN 1 ELSE 0)
            <3>1. N[U \cup {x}] = Cardinality((U \cup {x}) \cap T) /\ N[U] = Cardinality(U \cap T)
                OBVIOUS
            <3>2. Cardinality(U \cap T) \in Nat
                BY <2>1
            <3>3. CASE x \in T
                <4>1. (U \cup {x}) \cap T = (U \cap T) \cup {x} /\ x \notin U \cap T
                    BY <2>3, <3>3
                <4>2. Cardinality((U \cup {x}) \cap T) = Cardinality(U \cap T) + 1
                    BY <2>1, <4>1, FS_AddElement
                <4> QED  BY <3>1, <3>3, <4>2
            <3>4. CASE x \notin T
                <4>1. (U \cup {x}) \cap T = U \cap T
                    BY <3>4
                <4>2. N[U \cup {x}] = N[U]
                    BY <3>1, <4>1
                <4>3. N[U] \in Nat
                    BY <3>1, <3>2
                <4> HIDE DEF N
                <4> QED  BY <3>4, <4>2, <4>3
            <3> QED  BY <3>3, <3>4
        <2> QED  BY <2>1, <2>2, <2>3
    <1>3. Adds(B, g, S)
        <2> HIDE DEF N
        <2>1. B \in [SUBSET S -> Int] /\ \A x \in S : g[x] \in Int
            BY <1>1, <1>2 DEF Adds
        <2>2. B[{}] = 0
            BY <1>1, <1>2 DEF Adds
        <2>3. ASSUME NEW U \in SUBSET S, NEW x \in S, x \notin U
              PROVE  B[U \cup {x}] = B[U] + g[x]
            <3>1. A[U \cup {x}] = A[U] + f[x] /\ A[U] \in Int /\ f[x] \in Int
                BY <1>1, <2>3 DEF Adds
            <3>2. N[U \cup {x}] = N[U] + (IF x \in T THEN 1 ELSE 0) /\ N[U] \in Int
                BY <1>2, <2>3
            <3> QED  BY <3>1, <3>2
        <2> QED  BY <2>1, <2>2, <2>3 DEF Adds
    <1>4. S \cap T = T
        OBVIOUS
    <1>5. SumFunctionOnSet(f, S) = A[S]
        BY <1>1, SumAdds
    <1>6. SumFunctionOnSet(g, S) = B[S]
        <2> HIDE DEF B
        <2> QED  BY <1>3, SumAdds
    <1>7. B[S] = A[S] + N[S]
        BY <1>4
    <1> QED  BY <1>2, <1>4, <1>5, <1>6, <1>7
\* A finite set of integers has a least element.
LEMMA LeastElement ==
    ASSUME NEW S, IsFiniteSet(S), S \subseteq Int, S # {}
    PROVE  \E m \in S : \A x \in S : m <= x
    <1> DEFINE G == {T \in SUBSET S : T = {} \/ \E m \in T : \A x \in T : m <= x}
    <1>1. {} \in G
        OBVIOUS
    <1>2. ASSUME NEW T \in SUBSET S, NEW y \in S, T \in G, y \notin T
          PROVE  T \cup {y} \in G
        <2>1. CASE T = {}
            BY <2>1
        <2>2. CASE T # {}
            <3>1. PICK m \in T : \A x \in T : m <= x
                BY <1>2, <2>2
            <3>2. m \in Int /\ y \in Int /\ T \subseteq Int
                OBVIOUS
            <3>3. CASE y <= m
                <4>1. \A x \in T \cup {y} : y <= x
                    BY <3>1, <3>2, <3>3
                <4> QED  BY <4>1
            <3>4. CASE m <= y
                <4>1. \A x \in T \cup {y} : m <= x
                    BY <3>1, <3>2, <3>4
                <4> QED  BY <4>1
            <3> QED  BY <3>2, <3>3, <3>4
        <2> QED  BY <2>1, <2>2
    <1>3. S \in G
        <2> HIDE DEF G
        <2> QED  BY <1>1, <1>2, SetInduction
    <1> QED  BY <1>3

\* A set that contains 0, and of numbers below n also the successor, contains n.
LEMMA InductionUpTo ==
    ASSUME NEW n \in Nat, NEW G, 0 \in G, \A k \in 0 .. (n - 1) : k \in G => k + 1 \in G
    PROVE  n \in G
    <1>1. SUFFICES ASSUME n \notin G  PROVE FALSE
        OBVIOUS
    <1>2. PICK B : B = {T \in SUBSET (1 .. n) : \E k \in 0 .. n : T = 1 .. k /\ k \notin G}
        OBVIOUS
    <1>9. PICK S : S = 1 .. n
        OBVIOUS
    <1>3. PICK T \in B : \A U \in B : U \subseteq T => U = T
        <2>1. 1 .. n \in B
            BY <1>1, <1>2
        <2>2. IsFiniteSet(S)
            BY <1>9, FS_Interval
        <2>4. B \subseteq SUBSET S
            BY <1>2, <1>9
        <2>3. B # {}
            BY <2>1
        <2>5. \E T \in B : \A U \in B : U \subseteq T => U = T
            BY ONLY <2>2, <2>3, <2>4, SmallestSubset
        <2> QED  BY <2>5
    <1>4. PICK k \in 0 .. n : T = 1 .. k /\ k \notin G
        BY <1>2
    <1>5. k \in Nat \ {0} /\ k - 1 \in 0 .. (n - 1) /\ (k - 1) + 1 = k
        BY <1>4
    <1>6. k - 1 \notin G
        BY <1>4, <1>5
    <1>7. 1 .. (k - 1) \in B /\ 1 .. (k - 1) \subseteq T
        BY <1>2, <1>4, <1>5, <1>6
    <1>8. k \in T /\ k \notin 1 .. (k - 1)
        BY <1>4, <1>5
    <1> QED  BY <1>3, <1>7, <1>8
==============================================================================
