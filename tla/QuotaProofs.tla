---------------------------- MODULE QuotaProofs ----------------------------
(***************************************************************************)
(* Quotas, for any number of handlers and any quotas: what the unlocked    *)
(* sums of the acceptance transactions let through.                        *)
(***************************************************************************)
EXTENDS AcceptanceProofs, FiniteSetTheorems

(* The processors of the instances S of a table.                           *)
Total(table, S) == MapThenSumSet(LAMBDA i : table[i].cpu, S)

(* The recursion by which the sum is computed.                             *)
Sums(g, table, S) ==
  g = [s \in SUBSET S |->
         IF s = {} THEN 0
         ELSE table[CHOOSE x \in s : TRUE].cpu + g[s \ {CHOOSE x \in s : TRUE}]]

(* The fold of the sum is read from a solution of the recursion.           *)
LEMMA TotalIsSum ==
  ASSUME NEW table, NEW S
  PROVE  Total(table, S) = (CHOOSE g : Sums(g, table, S))[S]
  BY DEF Total, Sums, MapThenSumSet, MapThenFoldSet

(* What a project uses is the sum over the instances it counts.            *)
LEMMA CpuUsedIsTotal ==
  ASSUME NEW p
  PROVE  CpuUsed(p) = Total(instances, Counted(p))
  BY DEF Total, CpuUsed

-----------------------------------------------------------------------------
(* A set of naturals that holds whatever all smaller ones force into it is *)
(* everything.                                                             *)
LEMMA LeastCounterexample ==
  ASSUME NEW N \in SUBSET Nat,
         \A n \in Nat : (\A m \in Nat : m < n => m \in N) => n \in N
  PROVE  N = Nat
<1> SUFFICES ASSUME Nat \ N # {} PROVE FALSE
  OBVIOUS
<1>1. Min(Nat \ N) \in Nat \ N /\ \A y \in Nat \ N : Min(Nat \ N) <= y
  BY LeastElement
<1>2. QED  BY <1>1

Chosen(s) == CHOOSE x \in s : TRUE

(* The element a sum takes first is one of the set.                        *)
LEMMA ChosenIn ==
  ASSUME NEW s, s # {}
  PROVE  Chosen(s) \in s
  BY DEF Chosen

(* What follows for the finite sets from the sets with fewer elements.     *)
LEMMA FewerElements ==
  ASSUME NEW s, IsFiniteSet(s), NEW x \in s
  PROVE  /\ IsFiniteSet(s \ {x})
         /\ Cardinality(s) \in Nat /\ Cardinality(s \ {x}) \in Nat
         /\ Cardinality(s \ {x}) = Cardinality(s) - 1
  BY FS_RemoveElement, FS_CardinalityType

(* The recursion on the subsets of S of at most n elements.                *)
Upto(S, n) == {s \in SUBSET S : Cardinality(s) <= n}
SumsUpto(g, table, S, n) ==
  g = [s \in Upto(S, n) |->
         IF s = {} THEN 0 ELSE table[Chosen(s)].cpu + g[s \ {Chosen(s)}]]

(* The recursion can be solved one cardinality after another.              *)
LEMMA SumsExist ==
  ASSUME NEW table, NEW S, IsFiniteSet(S)
  PROVE  \A n \in Nat : \E g : SumsUpto(g, table, S, n)
<1>0. \A s \in SUBSET S : IsFiniteSet(s) /\ Cardinality(s) \in Nat
  BY FS_Subset, FS_CardinalityType
<1>1. \A s \in SUBSET S : s # {} =>
        /\ Chosen(s) \in s /\ s \ {Chosen(s)} \in SUBSET S
        /\ Cardinality(s \ {Chosen(s)}) = Cardinality(s) - 1
  BY <1>0, ChosenIn, FewerElements
<1>2. ASSUME NEW n \in Nat, NEW g, SumsUpto(g, table, S, n)
      PROVE  \E f : SumsUpto(f, table, S, n + 1)
  <2> DEFINE body(f, s) == IF s = {} THEN 0 ELSE table[Chosen(s)].cpu + f[s \ {Chosen(s)}]
             h == [s \in Upto(S, n + 1) |-> body(g, s)]
  <2>1. \A s \in Upto(S, n) : s \in Upto(S, n + 1) /\ g[s] = body(g, s)
    <3>1. \A s \in Upto(S, n) : s \in Upto(S, n + 1)
      BY <1>0 DEF Upto
    <3>2. \A s \in Upto(S, n) : g[s] = body(g, s)
      BY <1>2, Zenon DEF SumsUpto
    <3>3. QED  BY <3>1, <3>2
  <2>2. \A s \in Upto(S, n) : h[s] = g[s]
    BY <2>1, Zenon
  <2>3. \A s \in Upto(S, n + 1) : s # {} => s \ {Chosen(s)} \in Upto(S, n)
    BY <1>0, <1>1 DEF Upto
  <2>4. \A s \in Upto(S, n + 1) : body(h, s) = body(g, s)
    <3> HIDE DEF h
    <3> QED  BY <2>2, <2>3
  <2>5. h = [s \in Upto(S, n + 1) |-> body(h, s)]
    <3>1. h = [s \in Upto(S, n + 1) |-> body(g, s)]
      OBVIOUS
    <3> HIDE DEF h
    <3> QED  BY <2>4, <3>1
  <2> HIDE DEF h
  <2>6. QED  BY <2>5, Zenon DEF SumsUpto
<1>3. \E g : SumsUpto(g, table, S, 0)
  <2>1. Upto(S, 0) = {{}}
    <3>1. \A s \in SUBSET S : Cardinality(s) = 0 => s = {}
      BY <1>0, FS_EmptySet
    <3>2. QED  BY <1>0, <3>1, FS_EmptySet DEF Upto
  <2> DEFINE h == [s \in {{}} |-> 0]
  <2>2. SumsUpto(h, table, S, 0)
    BY <2>1 DEF SumsUpto
  <2>3. QED  BY <2>2
<1> DEFINE N == {n \in Nat : \E g : SumsUpto(g, table, S, n)}
<1>4. ASSUME NEW n \in Nat, \A m \in Nat : m < n => m \in N
      PROVE  n \in N
  <2>1. CASE n = 0
    BY <1>3, <2>1
  <2>2. CASE n # 0
    <3>1. n - 1 \in Nat /\ n - 1 < n
      BY <2>2
    <3>2. n - 1 \in N
      BY <1>4, <3>1
    <3>3. \E f : SumsUpto(f, table, S, (n - 1) + 1)
      BY <1>2, <3>1, <3>2
    <3>4. (n - 1) + 1 = n
      OBVIOUS
    <3>5. QED  BY <3>3, <3>4
  <2>3. QED  BY <2>1, <2>2
<1> HIDE DEF N
<1>5. N \in SUBSET Nat
  BY DEF N
<1>6. N = Nat
  BY <1>4, <1>5, LeastCounterexample
<1>7. QED  BY <1>6 DEF N

Solves(g, table, S) ==
  \A s \in SUBSET S :
    g[s] = IF s = {} THEN 0 ELSE table[Chosen(s)].cpu + g[s \ {Chosen(s)}]

(* So the recursion has a solution, the one the sum is read from.          *)
LEMMA SumsSolved ==
  ASSUME NEW table, NEW S, IsFiniteSet(S)
  PROVE  \E g : /\ Total(table, S) = g[S]
                /\ Solves(g, table, S)
<1> DEFINE n == Cardinality(S)
           G == CHOOSE g : Sums(g, table, S)
<1>1. n \in Nat /\ Upto(S, n) = SUBSET S
  BY FS_Subset, FS_CardinalityType DEF Upto
<1>2. \E g : SumsUpto(g, table, S, n)
  BY <1>1, SumsExist
<1>3. \E g : Sums(g, table, S)
  BY <1>1, <1>2, Zenon DEF Sums, SumsUpto, Chosen
<1>4. Sums(G, table, S)
  BY <1>3, Zenon
<1>5. Total(table, S) = G[S]
  BY TotalIsSum
<1> HIDE DEF G
<1>6. Solves(G, table, S)
  BY <1>4, Zenon DEF Sums, Solves, Chosen
<1>7. QED  BY <1>5, <1>6

SameCpu(table, other, S) == \A i \in S : table[i].cpu = other[i].cpu

(* Two solutions agree where both are defined, on tables that agree there. *)
LEMMA SumsAgree ==
  ASSUME NEW table, NEW other, NEW S, IsFiniteSet(S), NEW g, NEW f,
         SameCpu(table, other, S),
         Solves(g, table, S),
         Solves(f, other, S)
  PROVE  g[S] = f[S]
<1> DEFINE N == {n \in Nat : \A s \in SUBSET S : Cardinality(s) = n => g[s] = f[s]}
<1>1. \A s \in SUBSET S : IsFiniteSet(s) /\ Cardinality(s) \in Nat
  BY FS_Subset, FS_CardinalityType
<1>2. ASSUME NEW n \in Nat, \A m \in Nat : m < n => m \in N,
             NEW s \in SUBSET S, Cardinality(s) = n
      PROVE  g[s] = f[s]
  <2>1. CASE s = {}
    BY <2>1 DEF Solves
  <2>2. CASE s # {}
    <3> DEFINE x == Chosen(s) t == s \ {x}
    <3>1. x \in s /\ t \in SUBSET S
      BY <2>2, ChosenIn
    <3> HIDE DEF x
    <3>2. Cardinality(t) \in Nat /\ Cardinality(t) < n
      BY <1>1, <1>2, <3>1, FewerElements
    <3>3. g[t] = f[t]
      BY <1>2, <3>1, <3>2
    <3>4. g[s] = table[x].cpu + g[t] /\ f[s] = other[x].cpu + f[t]
      BY <2>2 DEF x, Solves
    <3>5. QED  BY <3>1, <3>3, <3>4 DEF SameCpu
  <2>3. QED  BY <2>1, <2>2
<1>3. \A n \in Nat : (\A m \in Nat : m < n => m \in N) => n \in N
  BY <1>2
<1> HIDE DEF N
<1>4. N \in SUBSET Nat
  BY DEF N
<1>5. N = Nat
  BY <1>3, <1>4, LeastCounterexample
<1>6. QED  BY <1>1, <1>5 DEF N

(* So a solution is the only one.                                          *)
LEMMA SumsUnique ==
  ASSUME NEW table, NEW S, IsFiniteSet(S), NEW g, NEW f,
         Solves(g, table, S), Solves(f, table, S)
  PROVE  g[S] = f[S]
<1>1. SameCpu(table, table, S)
  BY DEF SameCpu
<1>2. QED  BY <1>1, SumsAgree

(* The sum of a set, from the sum of the set without its chosen element.   *)
LEMMA TotalStep ==
  ASSUME NEW table, NEW S, IsFiniteSet(S)
  PROVE  /\ S = {} => Total(table, S) = 0
         /\ S # {} => Total(table, S) =
                        table[Chosen(S)].cpu + Total(table, S \ {Chosen(S)})
<1>1. PICK g : /\ Total(table, S) = g[S]
               /\ Solves(g, table, S)
  BY SumsSolved
<1>2. CASE S = {}
  BY <1>1, <1>2 DEF Solves
<1>3. CASE S # {}
  <2> DEFINE x == Chosen(S) T == S \ {x}
  <2>1. x \in S /\ T \in SUBSET S /\ IsFiniteSet(T)
    BY <1>3, ChosenIn, FewerElements
  <2>2. PICK f : /\ Total(table, T) = f[T]
                 /\ Solves(f, table, T)
    BY <2>1, SumsSolved, Zenon
  <2>3. Solves(g, table, T)
    BY <1>1, <2>1 DEF Solves
  <2>4. g[T] = f[T]
    BY <2>1, <2>2, <2>3, SumsUnique
  <2>5. g[S] = table[x].cpu + g[T]
    BY <1>1, <1>3 DEF Solves
  <2>6. QED  BY <1>1, <1>3, <2>2, <2>4, <2>5
<1>4. QED  BY <1>2, <1>3

(* The sum looks at nothing but the processors of the set.                 *)
LEMMA TotalCongruence ==
  ASSUME NEW table, NEW other, NEW S, IsFiniteSet(S),
         \A i \in S : table[i].cpu = other[i].cpu
  PROVE  Total(table, S) = Total(other, S)
<1>1. PICK g : /\ Total(table, S) = g[S]
               /\ Solves(g, table, S)
  BY SumsSolved
<1>2. PICK f : /\ Total(other, S) = f[S]
               /\ Solves(f, other, S)
  BY SumsSolved
<1>3. SameCpu(table, other, S)
  BY DEF SameCpu
<1>4. QED  BY <1>1, <1>2, <1>3, SumsAgree

(* A sum of naturals is one.                                               *)
LEMMA TotalType ==
  ASSUME NEW table, NEW S, IsFiniteSet(S), \A i \in S : table[i].cpu \in Nat
  PROVE  Total(table, S) \in Nat
<1> DEFINE N == {n \in Nat : \A s \in SUBSET S :
                                Cardinality(s) = n => Total(table, s) \in Nat}
<1>1. \A s \in SUBSET S : IsFiniteSet(s) /\ Cardinality(s) \in Nat
  BY FS_Subset, FS_CardinalityType
<1>2. ASSUME NEW n \in Nat, \A m \in Nat : m < n => m \in N,
             NEW s \in SUBSET S, Cardinality(s) = n
      PROVE  Total(table, s) \in Nat
  <2>1. CASE s = {}
    <3>1. Total(table, s) = 0
      BY <1>1, <2>1, TotalStep, Zenon
    <3>2. QED  BY <3>1
  <2>2. CASE s # {}
    <3> DEFINE x == Chosen(s) t == s \ {x}
    <3>1. x \in s /\ t \in SUBSET S
      BY <2>2, ChosenIn
    <3>2. Total(table, s) = table[x].cpu + Total(table, t)
      BY <1>1, <2>2, TotalStep
    <3> HIDE DEF x
    <3>3. Cardinality(t) \in Nat /\ Cardinality(t) < n
      BY <1>1, <1>2, <3>1, FewerElements
    <3>4. Total(table, t) \in Nat /\ table[x].cpu \in Nat
      BY <1>2, <3>1, <3>3
    <3>5. QED  BY <3>2, <3>4
  <2>3. QED  BY <2>1, <2>2
<1>3. \A n \in Nat : (\A m \in Nat : m < n => m \in N) => n \in N
  BY <1>2
<1> HIDE DEF N
<1>4. N \in SUBSET Nat
  BY DEF N
<1>5. N = Nat
  BY <1>3, <1>4, LeastCounterexample
<1>6. QED  BY <1>1, <1>5 DEF N

(* The order of summation does not matter: any element may be split off.   *)
LEMMA TotalSplit ==
  ASSUME NEW table, NEW S, IsFiniteSet(S), \A i \in S : table[i].cpu \in Nat,
         NEW y \in S
  PROVE  Total(table, S) = table[y].cpu + Total(table, S \ {y})
<1> DEFINE Splits(s) == \A z \in s : Total(table, s) = table[z].cpu + Total(table, s \ {z})
           N == {n \in Nat : \A s \in SUBSET S : Cardinality(s) = n => Splits(s)}
<1>1. \A s \in SUBSET S : IsFiniteSet(s) /\ Cardinality(s) \in Nat
  BY FS_Subset, FS_CardinalityType
<1>2. \A s \in SUBSET S : Total(table, s) \in Nat
  BY <1>1, TotalType
<1>3. ASSUME NEW n \in Nat, \A m \in Nat : m < n => m \in N,
             NEW s \in SUBSET S, Cardinality(s) = n, NEW z \in s
      PROVE  Total(table, s) = table[z].cpu + Total(table, s \ {z})
  <2> DEFINE x == Chosen(s)
  <2>1. x \in s /\ Total(table, s) = table[x].cpu + Total(table, s \ {x})
    BY <1>1, <1>3, ChosenIn, TotalStep
  <2> HIDE DEF x
  <2>2. CASE x = z
    BY <2>1, <2>2
  <2>3. CASE x # z
    <3> DEFINE t == s \ {x} u == s \ {z} v == (s \ {x}) \ {z}
    <3>1. t \in SUBSET S /\ u \in SUBSET S /\ v \in SUBSET S /\ z \in t /\ x \in u
      BY <2>1, <2>3
    <3>2. /\ Cardinality(t) \in Nat /\ Cardinality(t) < n
          /\ Cardinality(u) \in Nat /\ Cardinality(u) < n
      BY <1>1, <1>3, <2>1, FewerElements
    <3>3. Splits(t) /\ Splits(u)
      <4> HIDE DEF t, u, Splits
      <4> QED  BY <1>3, <3>1, <3>2
    <3>4. u \ {x} = v
      OBVIOUS
    <3>5. Total(table, t) = table[z].cpu + Total(table, v)
      BY <3>1, <3>3
    <3>6. Total(table, u) = table[x].cpu + Total(table, v)
      BY <3>1, <3>3, <3>4
    <3>7. table[x].cpu \in Nat /\ table[z].cpu \in Nat /\ Total(table, v) \in Nat
      BY <1>2, <2>1, <3>1
    <3> HIDE DEF t, u, v
    <3>8. Total(table, s) = table[x].cpu + Total(table, t)
      BY <2>1 DEF t
    <3>9. Total(table, s) = table[z].cpu + Total(table, u)
      BY <3>5, <3>6, <3>7, <3>8
    <3>10. QED  BY <3>9 DEF u
  <2>4. QED  BY <2>2, <2>3
<1>4. \A n \in Nat : (\A m \in Nat : m < n => m \in N) => n \in N
  BY <1>3
<1> HIDE DEF N
<1>5. N \in SUBSET Nat
  BY DEF N
<1>6. N = Nat
  BY <1>4, <1>5, LeastCounterexample
<1>7. QED  BY <1>1, <1>6 DEF N

(* A row is added to the set.                                              *)
LEMMA TotalAdded ==
  ASSUME NEW table, NEW other, NEW S, IsFiniteSet(S), NEW y, y \notin S,
         \A i \in S : table[i].cpu \in Nat /\ other[i].cpu = table[i].cpu,
         other[y].cpu \in Nat
  PROVE  Total(other, S \cup {y}) = Total(table, S) + other[y].cpu
<1>1. IsFiniteSet(S \cup {y})
  BY FS_AddElement
<1>2. \A i \in S \cup {y} : other[i].cpu \in Nat
  OBVIOUS
<1>3. Total(other, S \cup {y}) = other[y].cpu + Total(other, S)
  <2> DEFINE R == S \cup {y}
  <2>1. y \in R /\ R \ {y} = S
    OBVIOUS
  <2> HIDE DEF R
  <2>2. Total(other, R) = other[y].cpu + Total(other, R \ {y})
    BY <1>1, <1>2, <2>1, TotalSplit DEF R
  <2>3. Total(other, R) = other[y].cpu + Total(other, S)
    BY <2>1, <2>2, Zenon
  <2>4. QED  BY <2>3 DEF R
<1>4. Total(other, S) = Total(table, S) /\ Total(table, S) \in Nat
  BY TotalCongruence, TotalType
<1>5. QED  BY <1>3, <1>4

(* A row of the set is changed.                                            *)
LEMMA TotalChanged ==
  ASSUME NEW table, NEW other, NEW S, IsFiniteSet(S), NEW y \in S,
         \A i \in S : table[i].cpu \in Nat /\ other[i].cpu \in Nat,
         \A i \in S \ {y} : other[i].cpu = table[i].cpu
  PROVE  Total(other, S) = Total(table, S) - table[y].cpu + other[y].cpu
<1> DEFINE R == S \ {y}
<1>1. IsFiniteSet(R)
  BY FewerElements
<1>2. Total(table, R) = Total(other, R)
  <2>1. \A i \in R : table[i].cpu = other[i].cpu
    OBVIOUS
  <2> HIDE DEF R
  <2>2. QED  BY <1>1, <2>1, TotalCongruence
<1>3. Total(table, R) \in Nat
  <2>1. \A i \in R : table[i].cpu \in Nat
    OBVIOUS
  <2> HIDE DEF R
  <2>2. QED  BY <1>1, <2>1, TotalType
<1>4. /\ Total(table, S) = table[y].cpu + Total(table, R)
      /\ Total(other, S) = other[y].cpu + Total(other, R)
  BY TotalSplit
<1> HIDE DEF R
<1>5. table[y].cpu \in Nat /\ other[y].cpu \in Nat
  OBVIOUS
<1>6. QED  BY <1>2, <1>3, <1>4, <1>5

(* A row is taken out of the set.                                          *)
LEMMA TotalDropped ==
  ASSUME NEW table, NEW other, NEW S, IsFiniteSet(S), NEW y \in S,
         \A i \in S : table[i].cpu \in Nat /\ other[i].cpu = table[i].cpu
  PROVE  Total(other, S \ {y}) <= Total(table, S)
<1> DEFINE R == S \ {y}
<1>1. IsFiniteSet(R)
  BY FewerElements
<1>2. \A i \in R : table[i].cpu \in Nat /\ table[i].cpu = other[i].cpu
  OBVIOUS
<1>3. Total(table, S) = table[y].cpu + Total(table, R)
  BY TotalSplit
<1> HIDE DEF R
<1>4. Total(table, R) = Total(other, R) /\ Total(table, R) \in Nat
  BY <1>1, <1>2, TotalCongruence, TotalType
<1>5. table[y].cpu \in Nat
  OBVIOUS
<1>6. Total(other, R) <= Total(table, S)
  BY <1>3, <1>4, <1>5
<1>7. QED  BY <1>6 DEF R

-----------------------------------------------------------------------------
(* A finite set of naturals has a largest element, which Max chooses.      *)
LEMMA LargestElement ==
  ASSUME NEW S \in SUBSET Nat, IsFiniteSet(S), S # {}
  PROVE  Max(S) \in S /\ \A y \in S : y <= Max(S)
<1> DEFINE Tops(s) == \E x \in s : \A y \in s : y <= x
           N == {n \in Nat : \A s \in SUBSET S :
                                Cardinality(s) = n /\ s # {} => Tops(s)}
<1>1. \A s \in SUBSET S : IsFiniteSet(s) /\ Cardinality(s) \in Nat
  BY FS_Subset, FS_CardinalityType
<1>2. ASSUME NEW n \in Nat, \A m \in Nat : m < n => m \in N,
             NEW s \in SUBSET S, Cardinality(s) = n, s # {}
      PROVE  Tops(s)
  <2>1. PICK x : x \in s
    BY <1>2
  <2> DEFINE t == s \ {x}
  <2>2. t \in SUBSET S /\ Cardinality(t) \in Nat /\ Cardinality(t) < n
    BY <1>1, <1>2, <2>1, FewerElements
  <2>3. CASE t = {}
    BY <2>1, <2>3
  <2>4. CASE t # {}
    <3>1. Tops(t)
      <4> HIDE DEF t, Tops
      <4> QED  BY <1>2, <2>2, <2>4
    <3>2. PICK z \in t : \A y \in t : y <= z
      BY <3>1
    <3>3. x \in Nat /\ z \in Nat /\ \A y \in s : y \in Nat
      BY <2>1, <3>2
    <3>4. CASE x <= z
      BY <3>2, <3>3, <3>4
    <3>5. CASE z <= x
      <4>1. \A y \in s : y <= x
        BY <3>2, <3>3, <3>5
      <4>2. QED  BY <2>1, <4>1
    <3>6. QED  BY <3>3, <3>4, <3>5
  <2>5. QED  BY <2>3, <2>4
<1>3. \A n \in Nat : (\A m \in Nat : m < n => m \in N) => n \in N
  BY <1>2
<1> HIDE DEF N, Tops
<1>4. N \in SUBSET Nat
  BY DEF N
<1>5. N = Nat
  BY <1>3, <1>4, LeastCounterexample
<1>6. Tops(S)
  BY <1>1, <1>5 DEF N
<1>7. \E x \in S : \A y \in S : x >= y
  BY <1>6 DEF Tops
<1>8. Max(S) \in S /\ \A y \in S : Max(S) >= y
  BY <1>7 DEF Max
<1>9. QED  BY <1>8

(* No flavor has more processors than the largest.                         *)
LargestCpu == Max({Flavors[f].cpu : f \in DOMAIN Flavors})

LEMMA FlavorsBounded ==
  /\ LargestCpu \in Nat
  /\ \A f \in DOMAIN Flavors : Flavors[f].cpu \in Nat /\ Flavors[f].cpu <= LargestCpu
<1> DEFINE Cpus == {Flavors[f].cpu : f \in DOMAIN Flavors}
           size == [f \in DOMAIN Flavors |-> Flavors[f].cpu]
<1>1. \A f \in DOMAIN Flavors : Flavors[f].cpu \in Nat
  BY AcceptanceAssumption DEF FlavorTable
<1>2. size \in Surjection(DOMAIN Flavors, Cpus)
  BY DEF Surjection
<1>3. IsFiniteSet(Cpus) /\ Cpus # {} /\ Cpus \in SUBSET Nat
  BY <1>1, <1>2, PoolAssumption, FS_Surjection
<1>4. LargestCpu = Max(Cpus)
  BY DEF LargestCpu
<1>5. \A f \in DOMAIN Flavors : Flavors[f].cpu \in Cpus
  OBVIOUS
<1> HIDE DEF Cpus
<1>6. QED  BY <1>1, <1>3, <1>4, <1>5, LargestElement

-----------------------------------------------------------------------------
(* How much of a resource is used, and which open transactions will use    *)
(* more of it.  A transaction was opened when there was room for what it   *)
(* takes, G[h]; each that ended since then took at most the largest amount *)
(* L.  So one of those still open had room, apart from what the handlers   *)
(* without an open transaction may have taken.                             *)

Connections == Cardinality(Handlers)

Within(used, T, G, quota, L) ==
  IF T = {} THEN used <= quota + (Connections - 1) * L
  ELSE \E h \in T : used + G[h] <= quota + (Connections - Cardinality(T)) * L

(* The multiples of an amount.                                             *)
LEMMA Multiples ==
  ASSUME NEW a \in Nat, NEW L \in Nat
  PROVE  /\ a * L \in Nat
         /\ (a + 1) * L = a * L + L
         /\ \A b \in Nat : a <= b => a * L <= b * L
  OBVIOUS

(* The open transactions of a resource are some of the handlers.           *)
LEMMA OpenCount ==
  ASSUME NEW T \in SUBSET Handlers
  PROVE  /\ IsFiniteSet(T) /\ Cardinality(T) \in Nat
         /\ Connections \in Nat /\ Connections >= 1
         /\ Cardinality(T) <= Connections
         /\ T # {} => Cardinality(T) >= 1
         /\ T = {} => Cardinality(T) = 0
  BY PoolAssumption, FS_Subset, FS_CardinalityType, FS_EmptySet DEF Connections

(* What is used stays within the bound.                                    *)
LEMMA WithinBound ==
  ASSUME NEW T \in SUBSET Handlers, NEW G, NEW used \in Nat, NEW quota \in Nat,
         NEW L \in Nat, \A h \in T : G[h] \in Nat,
         Within(used, T, G, quota, L)
  PROVE  used <= quota + (Connections - 1) * L
<1>1. CASE T = {}
  BY <1>1 DEF Within
<1>2. CASE T # {}
  <2>1. PICK h \in T : used + G[h] <= quota + (Connections - Cardinality(T)) * L
    BY <1>2 DEF Within
  <2> DEFINE a == Connections - Cardinality(T) b == Connections - 1
  <2>2. a \in Nat /\ b \in Nat /\ a <= b
    BY <1>2, OpenCount
  <2> HIDE DEF a, b
  <2>3. a * L <= b * L /\ a * L \in Nat /\ b * L \in Nat
    BY <2>2, Multiples
  <2>4. used + G[h] <= quota + a * L
    BY <2>1 DEF a
  <2>5. used <= quota + b * L
    BY <2>3, <2>4
  <2>6. QED  BY <2>5 DEF b
<1>3. QED  BY <1>1, <1>2

(* A transaction is opened with room for what it takes.                    *)
LEMMA WithinOpened ==
  ASSUME NEW T \in SUBSET Handlers, NEW G, NEW used \in Nat, NEW quota \in Nat,
         NEW L \in Nat, NEW h \in T, G[h] \in Nat, used + G[h] <= quota
  PROVE  Within(used, T, G, quota, L)
<1> DEFINE a == Connections - Cardinality(T)
<1>1. a \in Nat
  BY OpenCount
<1> HIDE DEF a
<1>2. a * L \in Nat
  BY <1>1, Multiples
<1>3. used + G[h] <= quota + a * L
  BY <1>2
<1>4. QED  BY <1>3 DEF a, Within

(* One is closed, having taken at most that.                               *)
LEMMA WithinClosed ==
  ASSUME NEW T \in SUBSET Handlers, NEW G, NEW F, NEW used \in Nat, NEW now \in Nat,
         NEW quota \in Nat, NEW L \in Nat, NEW h \in T,
         \A g \in T : G[g] \in 0 .. L,
         \A g \in T \ {h} : F[g] = G[g],
         now <= used + G[h],
         Within(used, T, G, quota, L)
  PROVE  Within(now, T \ {h}, F, quota, L)
<1> DEFINE R == T \ {h} a == Connections - Cardinality(T)
<1>1. a \in Nat /\ Cardinality(R) = Cardinality(T) - 1
  BY OpenCount, FewerElements
<1>2. Connections - Cardinality(R) = a + 1
  BY <1>1, OpenCount
<1>3. PICK w \in T : used + G[w] <= quota + a * L
  BY DEF Within
<1>4. /\ a * L \in Nat /\ (a + 1) * L = a * L + L
      /\ G[h] \in 0 .. L /\ G[w] \in 0 .. L
  BY <1>1, <1>3, Multiples
<1>5. CASE R = {}
  <2>1. w = h
    BY <1>3, <1>5
  <2>2. Cardinality(T) = 1
    BY <1>1, <1>5, OpenCount, FS_EmptySet
  <2>3. a = Connections - 1
    BY <2>2
  <2> HIDE DEF a
  <2>4. now <= quota + a * L
    BY <1>3, <1>4, <2>1
  <2>5. QED  BY <1>5, <2>3, <2>4 DEF Within
<1>6. CASE R # {}
  <2>1. \E g \in R : F[g] = G[g] /\ now + G[g] <= quota + a * L + L
    <3> HIDE DEF a
    <3>1. CASE w = h
      <4>1. PICK g \in R : TRUE
        BY <1>6
      <4>2. G[g] \in 0 .. L /\ F[g] = G[g]
        BY <4>1
      <4>3. QED  BY <1>3, <1>4, <3>1, <4>1, <4>2
    <3>2. CASE w # h
      <4>1. w \in R
        BY <3>2
      <4>2. F[w] = G[w]
        BY <4>1
      <4>3. now + G[w] <= quota + a * L + L
        BY <1>3, <1>4
      <4>4. QED  BY <4>1, <4>2, <4>3
    <3>3. QED  BY <3>1, <3>2
  <2>2. PICK g \in R : F[g] = G[g] /\ now + G[g] <= quota + a * L + L
    BY <2>1
  <2> HIDE DEF a
  <2>3. now + F[g] <= quota + (a + 1) * L
    BY <1>4, <2>2
  <2>4. now + F[g] <= quota + (Connections - Cardinality(R)) * L
    BY <1>2, <2>3
  <2> HIDE DEF R
  <2>5. Within(now, R, F, quota, L)
    BY <1>6, <2>4 DEF Within
  <2>6. QED  BY <2>5 DEF R
<1>7. QED  BY <1>5, <1>6

(* Nobody is added or takes more.                                          *)
LEMMA WithinKept ==
  ASSUME NEW T \in SUBSET Handlers, NEW G, NEW F, NEW used \in Nat, NEW now \in Nat,
         NEW quota \in Nat, NEW L \in Nat,
         \A g \in T : G[g] \in 0 .. L /\ F[g] = G[g],
         now <= used,
         Within(used, T, G, quota, L)
  PROVE  Within(now, T, F, quota, L)
<1> DEFINE a == (Connections - Cardinality(T)) * L b == (Connections - 1) * L
<1>1. a \in Int /\ b \in Int
  BY OpenCount
<1>2. CASE T = {}
  <2>1. used <= quota + b
    BY <1>2 DEF Within
  <2> HIDE DEF b
  <2>2. now <= quota + b
    BY <1>1, <2>1
  <2>3. QED  BY <1>2, <2>2 DEF Within, b
<1>3. CASE T # {}
  <2>1. PICK h \in T : used + G[h] <= quota + a
    BY <1>3 DEF Within
  <2> HIDE DEF a
  <2>2. now + F[h] <= quota + a
    BY <1>1, <2>1
  <2>3. QED  BY <1>3, <2>2 DEF Within, a
<1>4. QED  BY <1>2, <1>3

-----------------------------------------------------------------------------
(* The inductive invariant.                                                *)

(* The transactions that will add an instance, a snapshot, processors.     *)
Creating(p) ==
  {h \in Handlers : /\ Open(h) /\ tx[h].req.kind = "create_instance"
                    /\ tx[h].req.project = p}
Snapshotting(p) ==
  {h \in Handlers : /\ Open(h) /\ tx[h].req.kind = "create_snapshot"
                    /\ tx[h].req.project = p}

(* How many processors a commit adds; a resize may also give some back.    *)
Gain(h) ==
  Flavors[tx[h].req.flavor].cpu
    - (IF tx[h].req.kind = "create_instance" THEN 0 ELSE instances[tx[h].req.inst].cpu)
Growing(p) ==
  {h \in Handlers : /\ Open(h) /\ tx[h].req.kind \in {"create_instance", "resize_instance"}
                    /\ tx[h].req.project = p
                    /\ Gain(h) > 0}

One == [h \in Handlers |-> 1]
Gains == [h \in Handlers |-> Gain(h)]

(* The snapshots a project is charged for.                                 *)
SnapshotsOf(p) == {s \in DOMAIN snapshots :
                     /\ instances[snapshots[s].inst].project = p
                     /\ snapshots[s].state # "deleted"}

InstancesWithin(p) ==
  Within(Cardinality(Counted(p)), Creating(p), One, Quotas[p].instances, 1)
SnapshotsWithin(p) ==
  Within(Cardinality(SnapshotsOf(p)), Snapshotting(p), One, Quotas[p].snapshots, 1)
CpuWithin(p) ==
  Within(Total(instances, Counted(p)), Growing(p), Gains, Quotas[p].cpu, LargestCpu)
QuotasWithin == \A p \in Projects : InstancesWithin(p) /\ SnapshotsWithin(p) /\ CpuWithin(p)

(* What is not charged any more stays so: nothing is under way on a purged *)
(* instance, and nothing that would bring a deleted snapshot back.         *)
PurgedAreFree ==
  \A i \in DOMAIN instances : instances[i].life = "purged" => instances[i].active = 0
SnapshotsAlive ==
  \A o \in DOMAIN operations : Unfinished(o) /\ operations[o].snap # 0 =>
    /\ operations[o].snap \in DOMAIN snapshots
    /\ snapshots[operations[o].snap].state # "deleted"
    /\ snapshots[operations[o].snap].inst = operations[o].inst

(* A transaction charges the project its instance belongs to.              *)
RowsHeldInProject ==
  \A h \in Handlers : HoldsRow(h) =>
    instances[tx[h].req.inst].project = tx[h].req.project

ChargesStand == PurgedAreFree /\ SnapshotsAlive /\ RowsHeldInProject

QInv == ChargesStand /\ QuotasWithin

-----------------------------------------------------------------------------
(* A table's positions are finitely many, and so are those it counts.      *)
LEMMA FinitelyMany ==
  ASSUME NEW R, NEW table \in Seq(R), NEW S \in SUBSET DOMAIN table
  PROVE  IsFiniteSet(S) /\ Cardinality(S) \in Nat
<1>1. DOMAIN table = 1 .. Len(table) /\ Len(table) \in Nat
  OBVIOUS
<1>2. IsFiniteSet(1 .. Len(table))
  BY <1>1, FS_Interval
<1>3. QED  BY <1>1, <1>2, FS_Subset, FS_CardinalityType

(* What is used is a natural number.                                       *)
LEMMA UsedTyped ==
  ASSUME TablesOK, NEW p \in Projects
  PROVE  /\ IsFiniteSet(Counted(p)) /\ Cardinality(Counted(p)) \in Nat
         /\ IsFiniteSet(SnapshotsOf(p)) /\ Cardinality(SnapshotsOf(p)) \in Nat
         /\ \A i \in DOMAIN instances : instances[i].cpu \in Nat
         /\ Total(instances, Counted(p)) \in Nat
<1>1. Counted(p) \in SUBSET DOMAIN instances /\ SnapshotsOf(p) \in SUBSET DOMAIN snapshots
  BY DEF Counted, SnapshotsOf
<1>2. /\ IsFiniteSet(Counted(p)) /\ Cardinality(Counted(p)) \in Nat
      /\ IsFiniteSet(SnapshotsOf(p)) /\ Cardinality(SnapshotsOf(p)) \in Nat
  BY <1>1, FinitelyMany DEF TablesOK
<1>3. \A i \in DOMAIN instances : instances[i].cpu \in Nat
  BY Columns DEF InstanceTable
<1>4. QED  BY <1>1, <1>2, <1>3, TotalType

(* The same after the step.                                                *)
LEMMA UsedTypedNext ==
  ASSUME TablesOK', NEW p \in Projects
  PROVE  /\ IsFiniteSet(Counted(p)') /\ Cardinality(Counted(p)') \in Nat
         /\ IsFiniteSet(SnapshotsOf(p)') /\ Cardinality(SnapshotsOf(p)') \in Nat
         /\ \A i \in DOMAIN instances' : instances'[i].cpu \in Nat
         /\ Total(instances', Counted(p)') \in Nat
<1>1. /\ Counted(p)' \in SUBSET DOMAIN instances'
      /\ SnapshotsOf(p)' \in SUBSET DOMAIN snapshots'
  BY DEF Counted, SnapshotsOf
<1>2. /\ IsFiniteSet(Counted(p)') /\ Cardinality(Counted(p)') \in Nat
      /\ IsFiniteSet(SnapshotsOf(p)') /\ Cardinality(SnapshotsOf(p)') \in Nat
  BY <1>1, FinitelyMany DEF TablesOK
<1>3. \A i \in DOMAIN instances' : instances'[i] \in InstanceTable'
  BY DEF TablesOK
<1>4. \A i \in DOMAIN instances' : instances'[i].cpu \in Nat
  BY <1>3 DEF InstanceTable
<1>5. QED  BY <1>1, <1>2, <1>4, TotalType

(* What the open transactions will take is one, or at most the largest     *)
(* flavor.                                                                 *)
LEMMA TakenTyped ==
  ASSUME TablesOK, TransactionsOK, NEW p \in Projects
  PROVE  /\ Creating(p) \in SUBSET Handlers /\ Snapshotting(p) \in SUBSET Handlers
         /\ Growing(p) \in SUBSET Handlers
         /\ \A h \in Handlers : One[h] \in 0 .. 1 /\ One[h] = 1
         /\ \A h \in Growing(p) : Gains[h] \in 0 .. LargestCpu
         /\ Quotas[p].instances \in Nat /\ Quotas[p].snapshots \in Nat
         /\ Quotas[p].cpu \in Nat
         /\ LargestCpu \in Nat
<1>1. ASSUME NEW h \in Growing(p)  PROVE Gains[h] \in 0 .. LargestCpu
  <2> DEFINE r == tx[h].req
  <2>1. h \in Handlers /\ Open(h) /\ r.kind \in {"create_instance", "resize_instance"}
        /\ Gain(h) > 0
    BY <1>1 DEF Growing
  <2>2. r \in OpenCommands
    BY <2>1, OpenTransaction
  <2>3. r.flavor \in DOMAIN Flavors
    BY <2>1, <2>2 DEF OpenCommands, CreateInstanceCommands, ResizeInstanceCommands,
                      CreateSnapshotCommands
  <2>4. r.kind # "create_instance" => r.inst \in DOMAIN instances
    BY <2>1, <2>2 DEF OpenCommands, CreateInstanceCommands, ResizeInstanceCommands,
                      CreateSnapshotCommands
  <2>5. r.kind # "create_instance" => instances[r.inst].cpu \in Nat
    BY <2>4, Columns DEF InstanceTable
  <2>6. /\ Flavors[r.flavor].cpu \in Nat /\ Flavors[r.flavor].cpu <= LargestCpu
        /\ LargestCpu \in Nat
    BY <2>3, FlavorsBounded
  <2>7. Gain(h) \in 0 .. LargestCpu
    <3> HIDE DEF r
    <3> QED  BY <2>1, <2>5, <2>6 DEF Gain, r
  <2>8. QED  BY <2>1, <2>7 DEF Gains
<1>2. Quotas[p] \in QuotaTable
  BY AcceptanceAssumption
<1>3. QED
  BY <1>1, <1>2, FlavorsBounded DEF Creating, Snapshotting, Growing, One, QuotaTable

(* A step that leaves the transactions alone, or what matters of them.     *)
LEMMA TakersKept ==
  ASSUME NEW p,
         \A g \in Handlers : Open(g)' = Open(g) /\ (Open(g) => tx'[g].req = tx[g].req),
         \A g \in Handlers : HoldsRow(g) =>
           instances'[tx[g].req.inst].cpu = instances[tx[g].req.inst].cpu
  PROVE  /\ Creating(p)' = Creating(p) /\ Snapshotting(p)' = Snapshotting(p)
         /\ Growing(p)' = Growing(p)
         /\ \A g \in Growing(p) : Gains'[g] = Gains[g]
         /\ One' = One
<1>1. Creating(p)' = Creating(p) /\ Snapshotting(p)' = Snapshotting(p)
  BY DEF Creating, Snapshotting
<1>2. \A g \in Handlers : Open(g) => Gain(g)' = Gain(g)
  BY DEF Gain, HoldsRow
<1>3. Growing(p)' = Growing(p)
  BY <1>2 DEF Growing
<1>4. QED  BY <1>1, <1>2, <1>3 DEF Gains, Growing, One

(* One that ends the transaction of h.                                     *)
LEMMA TakersClosed ==
  ASSUME TransactionsOK, NEW p, NEW h \in Handlers, tx' = [tx EXCEPT ![h] = IdleTx],
         \A g \in Handlers \ {h} : HoldsRow(g) =>
           instances'[tx[g].req.inst].cpu = instances[tx[g].req.inst].cpu
  PROVE  /\ Creating(p)' = Creating(p) \ {h} /\ Snapshotting(p)' = Snapshotting(p) \ {h}
         /\ Growing(p)' = Growing(p) \ {h}
         /\ \A g \in Growing(p) \ {h} : Gains'[g] = Gains[g]
         /\ One' = One
<1>1. ~Open(h)' /\ \A g \in Handlers \ {h} : tx'[g] = tx[g] /\ Open(g)' = Open(g)
  BY DEF TransactionsOK, Open, IdleTx
<1>2. Creating(p)' = Creating(p) \ {h} /\ Snapshotting(p)' = Snapshotting(p) \ {h}
  BY <1>1 DEF Creating, Snapshotting
<1>3. \A g \in Handlers \ {h} : Open(g) => Gain(g)' = Gain(g)
  BY <1>1 DEF Gain, HoldsRow
<1>4. Growing(p)' = Growing(p) \ {h}
  BY <1>1, <1>3 DEF Growing
<1>5. QED  BY <1>2, <1>3, <1>4 DEF Gains, Growing, One

-----------------------------------------------------------------------------
(* A step that opens no transaction and ends none, and uses no more.       *)
LEMMA NoMoreUsed ==
  ASSUME TablesOK, TablesOK', TransactionsOK, QuotasWithin,
         \A g \in Handlers : Open(g)' = Open(g) /\ (Open(g) => tx'[g].req = tx[g].req),
         \A g \in Handlers : HoldsRow(g) =>
           instances'[tx[g].req.inst].cpu = instances[tx[g].req.inst].cpu,
         \A p \in Projects :
           /\ Cardinality(Counted(p)') <= Cardinality(Counted(p))
           /\ Cardinality(SnapshotsOf(p)') <= Cardinality(SnapshotsOf(p))
           /\ Total(instances', Counted(p)') <= Total(instances, Counted(p))
  PROVE  QuotasWithin'
<1> SUFFICES ASSUME NEW p \in Projects
             PROVE  InstancesWithin(p)' /\ SnapshotsWithin(p)' /\ CpuWithin(p)'
  BY DEF QuotasWithin
<1>1. /\ Creating(p)' = Creating(p) /\ Snapshotting(p)' = Snapshotting(p)
      /\ Growing(p)' = Growing(p)
      /\ \A g \in Growing(p) : Gains'[g] = Gains[g]
      /\ One' = One
  BY TakersKept
<1>2. InstancesWithin(p) /\ SnapshotsWithin(p) /\ CpuWithin(p)
  BY DEF QuotasWithin
<1>3. Within(Cardinality(Counted(p)'), Creating(p), One, Quotas[p].instances, 1)
  BY <1>2, UsedTyped, UsedTypedNext, TakenTyped, WithinKept DEF InstancesWithin
<1>4. Within(Cardinality(SnapshotsOf(p)'), Snapshotting(p), One, Quotas[p].snapshots, 1)
  BY <1>2, UsedTyped, UsedTypedNext, TakenTyped, WithinKept DEF SnapshotsWithin
<1>5. Within(Total(instances', Counted(p)'), Growing(p), Gains', Quotas[p].cpu, LargestCpu)
  BY <1>1, <1>2, UsedTyped, UsedTypedNext, TakenTyped, WithinKept DEF CpuWithin
<1>6. InstancesWithin(p)' /\ SnapshotsWithin(p)'
  BY <1>1, <1>3, <1>4 DEF InstancesWithin, SnapshotsWithin
<1>7. CpuWithin(p)'
  BY <1>1, <1>5 DEF CpuWithin
<1>8. QED  BY <1>6, <1>7

(* A step that ends the transaction of h, which has taken at most what it  *)
(* had room for.                                                           *)
TakesItsRoom(h, p) ==
  /\ Cardinality(Counted(p)')
       <= Cardinality(Counted(p)) + IF h \in Creating(p) THEN 1 ELSE 0
  /\ Cardinality(SnapshotsOf(p)')
       <= Cardinality(SnapshotsOf(p)) + IF h \in Snapshotting(p) THEN 1 ELSE 0
  /\ Total(instances', Counted(p)')
       <= Total(instances, Counted(p)) + IF h \in Growing(p) THEN Gain(h) ELSE 0

LEMMA ClosedWithin ==
  ASSUME TablesOK, TablesOK', TransactionsOK, QuotasWithin,
         NEW h \in Handlers, tx' = [tx EXCEPT ![h] = IdleTx],
         \A g \in Handlers \ {h} : HoldsRow(g) =>
           instances'[tx[g].req.inst].cpu = instances[tx[g].req.inst].cpu,
         \A p \in Projects : TakesItsRoom(h, p)
  PROVE  QuotasWithin'
<1> USE DEF TakesItsRoom
<1> SUFFICES ASSUME NEW p \in Projects
             PROVE  InstancesWithin(p)' /\ SnapshotsWithin(p)' /\ CpuWithin(p)'
  BY DEF QuotasWithin
<1>1. /\ Creating(p)' = Creating(p) \ {h} /\ Snapshotting(p)' = Snapshotting(p) \ {h}
      /\ Growing(p)' = Growing(p) \ {h}
      /\ \A g \in Growing(p) \ {h} : Gains'[g] = Gains[g]
      /\ One' = One
  BY TakersClosed
<1>2. InstancesWithin(p) /\ SnapshotsWithin(p) /\ CpuWithin(p)
  BY DEF QuotasWithin
<1>3. Within(Cardinality(Counted(p)'), Creating(p) \ {h}, One, Quotas[p].instances, 1)
  <2>1. CASE h \in Creating(p)
    BY <1>2, <2>1, UsedTyped, UsedTypedNext, TakenTyped, WithinClosed DEF InstancesWithin
  <2>2. CASE h \notin Creating(p)
    <3>1. Within(Cardinality(Counted(p)'), Creating(p), One, Quotas[p].instances, 1)
      BY <1>2, <2>2, UsedTyped, UsedTypedNext, TakenTyped, WithinKept DEF InstancesWithin
    <3>2. Creating(p) \ {h} = Creating(p)
      BY <2>2
    <3>3. QED  BY <3>1, <3>2, Zenon
  <2>3. QED  BY <2>1, <2>2
<1>4. Within(Cardinality(SnapshotsOf(p)'), Snapshotting(p) \ {h}, One, Quotas[p].snapshots, 1)
  <2>1. CASE h \in Snapshotting(p)
    BY <1>2, <2>1, UsedTyped, UsedTypedNext, TakenTyped, WithinClosed DEF SnapshotsWithin
  <2>2. CASE h \notin Snapshotting(p)
    <3>1. Within(Cardinality(SnapshotsOf(p)'), Snapshotting(p), One, Quotas[p].snapshots, 1)
      BY <1>2, <2>2, UsedTyped, UsedTypedNext, TakenTyped, WithinKept DEF SnapshotsWithin
    <3>2. Snapshotting(p) \ {h} = Snapshotting(p)
      BY <2>2
    <3>3. QED  BY <3>1, <3>2, Zenon
  <2>3. QED  BY <2>1, <2>2
<1>5. Within(Total(instances', Counted(p)'), Growing(p) \ {h}, Gains', Quotas[p].cpu, LargestCpu)
  <2>1. CASE h \in Growing(p)
    <3>1. Gains[h] = Gain(h)
      BY DEF Gains
    <3>2. QED
      BY <1>1, <1>2, <2>1, <3>1, UsedTyped, UsedTypedNext, TakenTyped, WithinClosed
         DEF CpuWithin
  <2>2. CASE h \notin Growing(p)
    <3>1. Growing(p) \ {h} = Growing(p)
      BY <2>2
    <3>2. \A g \in Growing(p) : Gains'[g] = Gains[g]
      BY <1>1, <3>1
    <3>3. Within(Total(instances', Counted(p)'), Growing(p), Gains', Quotas[p].cpu, LargestCpu)
      BY <1>2, <2>2, <3>2, UsedTyped, UsedTypedNext, TakenTyped, WithinKept DEF CpuWithin
    <3>4. QED  BY <3>1, <3>3, Zenon
  <2>3. QED  BY <2>1, <2>2
<1>6. InstancesWithin(p)' /\ SnapshotsWithin(p)'
  BY <1>1, <1>3, <1>4 DEF InstancesWithin, SnapshotsWithin
<1>7. CpuWithin(p)'
  BY <1>1, <1>5 DEF CpuWithin
<1>8. QED  BY <1>6, <1>7

(* A step that opens one, having found room for it.                        *)
LEMMA OpenedWithin ==
  ASSUME TablesOK, TransactionsOK, QuotasWithin,
         NEW h \in Handlers, ~Open(h), NEW r, NEW hash,
         tx' = [tx EXCEPT ![h] = Opened(r, hash)], UNCHANGED tableVars,
         r.project \in Projects,
         r.kind = "create_instance" =>
           Cardinality(Counted(r.project)) + 1 <= Quotas[r.project].instances,
         r.kind = "create_snapshot" =>
           Cardinality(SnapshotsOf(r.project)) + 1 <= Quotas[r.project].snapshots,
         r.kind \in {"create_instance", "resize_instance"} =>
           /\ Gain(h)' \in Int
           /\ Total(instances, Counted(r.project)) + Gain(h)' <= Quotas[r.project].cpu
  PROVE  QuotasWithin'
<1> SUFFICES ASSUME NEW p \in Projects
             PROVE  InstancesWithin(p)' /\ SnapshotsWithin(p)' /\ CpuWithin(p)'
  BY DEF QuotasWithin
<1>1. /\ Open(h)' /\ tx'[h].req = r
      /\ \A g \in Handlers \ {h} : tx'[g] = tx[g] /\ Open(g)' = Open(g)
  BY DEF TransactionsOK, Open, Opened
<1>2. \A g \in Handlers \ {h} : Gain(g)' = Gain(g)
  BY <1>1 DEF Gain, tableVars
<1>3. /\ Creating(p)' =
           Creating(p) \cup {g \in {h} : r.kind = "create_instance" /\ r.project = p}
      /\ Snapshotting(p)' =
           Snapshotting(p) \cup {g \in {h} : r.kind = "create_snapshot" /\ r.project = p}
  BY <1>1 DEF Creating, Snapshotting
<1>4. Growing(p)' =
        Growing(p) \cup {g \in {h} : /\ r.kind \in {"create_instance", "resize_instance"}
                                     /\ r.project = p /\ Gain(h)' > 0}
  BY <1>1, <1>2 DEF Growing
<1>5. /\ \A g \in Growing(p) : Gains'[g] = Gains[g]
      /\ Gains'[h] = Gain(h)'
  BY <1>2 DEF Gains, Growing
<1>6. /\ Creating(p)' \in SUBSET Handlers /\ Snapshotting(p)' \in SUBSET Handlers
      /\ Growing(p)' \in SUBSET Handlers
  BY DEF Creating, Snapshotting, Growing
<1>7. /\ Counted(p)' = Counted(p) /\ SnapshotsOf(p)' = SnapshotsOf(p)
      /\ instances' = instances /\ One' = One
  BY DEF Counted, SnapshotsOf, tableVars, One
<1>8. InstancesWithin(p) /\ SnapshotsWithin(p) /\ CpuWithin(p)
  BY DEF QuotasWithin
<1>9. Within(Cardinality(Counted(p)), Creating(p)', One, Quotas[p].instances, 1)
  <2>1. CASE h \in Creating(p)'
    <3>1. r.kind = "create_instance" /\ r.project = p
      BY <1>1, <2>1 DEF Creating
    <3>2. One[h] \in Nat /\ Cardinality(Counted(p)) + One[h] <= Quotas[p].instances
      BY <3>1, TakenTyped
    <3>3. Cardinality(Counted(p)) \in Nat /\ Quotas[p].instances \in Nat
      BY UsedTyped, TakenTyped
    <3>4. QED  BY <1>6, <2>1, <3>2, <3>3, WithinOpened
  <2>2. CASE h \notin Creating(p)'
    <3>1. Creating(p)' = Creating(p)
      BY <1>3, <2>2
    <3>2. QED  BY <1>8, <3>1 DEF InstancesWithin
  <2>3. QED  BY <2>1, <2>2
<1>10. Within(Cardinality(SnapshotsOf(p)), Snapshotting(p)', One, Quotas[p].snapshots, 1)
  <2>1. CASE h \in Snapshotting(p)'
    <3>1. r.kind = "create_snapshot" /\ r.project = p
      BY <1>1, <2>1 DEF Snapshotting
    <3>2. One[h] \in Nat /\ Cardinality(SnapshotsOf(p)) + One[h] <= Quotas[p].snapshots
      BY <3>1, TakenTyped
    <3>3. Cardinality(SnapshotsOf(p)) \in Nat /\ Quotas[p].snapshots \in Nat
      BY UsedTyped, TakenTyped
    <3>4. QED  BY <1>6, <2>1, <3>2, <3>3, WithinOpened
  <2>2. CASE h \notin Snapshotting(p)'
    <3>1. Snapshotting(p)' = Snapshotting(p)
      BY <1>3, <2>2
    <3>2. QED  BY <1>8, <3>1 DEF SnapshotsWithin
  <2>3. QED  BY <2>1, <2>2
<1>11. Within(Total(instances, Counted(p)), Growing(p)', Gains', Quotas[p].cpu, LargestCpu)
  <2>1. CASE h \in Growing(p)'
    <3>1. /\ r.kind \in {"create_instance", "resize_instance"} /\ r.project = p
          /\ Gain(h)' > 0
      BY <1>1, <2>1 DEF Growing
    <3>2. Gain(h)' \in Nat
      BY <3>1
    <3>3. QED
      BY <1>5, <1>6, <2>1, <3>1, <3>2, UsedTyped, TakenTyped, WithinOpened
  <2>2. CASE h \notin Growing(p)'
    <3>1. Growing(p)' = Growing(p)
      BY <1>4, <2>2
    <3>2. Within(Total(instances, Counted(p)), Growing(p), Gains', Quotas[p].cpu, LargestCpu)
      BY <1>5, <1>8, UsedTyped, TakenTyped, WithinKept DEF CpuWithin
    <3>3. QED  BY <3>1, <3>2
  <2>3. QED  BY <2>1, <2>2
<1>12. InstancesWithin(p)' /\ SnapshotsWithin(p)'
  BY <1>7, <1>9, <1>10 DEF InstancesWithin, SnapshotsWithin
<1>13. CpuWithin(p)'
  BY <1>7, <1>11 DEF CpuWithin
<1>14. QED  BY <1>12, <1>13

-----------------------------------------------------------------------------
(* Steps that write one row and leave the charges or lower them.           *)

(* Row i alone is written; its project is never changed.                   *)
OneRow(i) ==
  /\ i \in DOMAIN instances /\ DOMAIN instances' = DOMAIN instances
  /\ \A j \in DOMAIN instances \ {i} : instances'[j] = instances[j]
  /\ instances'[i].project = instances[i].project

(* No snapshot is added, none moves, none comes back.                      *)
SnapshotsStay ==
  /\ DOMAIN snapshots' = DOMAIN snapshots
  /\ \A s \in DOMAIN snapshots :
       /\ snapshots'[s].inst = snapshots[s].inst
       /\ snapshots[s].state = "deleted" => snapshots'[s].state = "deleted"

(* So the instances and the processors charged are no more than before,    *)
LEMMA RowUsedKept ==
  ASSUME TablesOK, NEW i, OneRow(i), NEW p \in Projects,
         instances'[i].cpu = instances[i].cpu,
         instances[i].life = "purged" => instances'[i].life = "purged"
  PROVE  /\ Cardinality(Counted(p)') <= Cardinality(Counted(p))
         /\ Total(instances', Counted(p)') <= Total(instances, Counted(p))
<1> DEFINE S == Counted(p)
<1>1. IsFiniteSet(S) /\ Cardinality(S) \in Nat /\ Total(instances, S) \in Nat
  BY UsedTyped
<1>2. \A j \in S : instances[j].cpu \in Nat /\ instances'[j].cpu = instances[j].cpu
  BY UsedTyped DEF Counted, OneRow
<1>3. \A j \in DOMAIN instances \ {i} : j \in S <=> j \in Counted(p)'
  BY DEF Counted, OneRow
<1>4. i \in Counted(p)' => i \in S
  BY DEF Counted, OneRow
<1>5. S \subseteq DOMAIN instances /\ Counted(p)' \subseteq DOMAIN instances
  BY DEF Counted, OneRow
<1>6. CASE i \in S => i \in Counted(p)'
  <2>1. Counted(p)' = S
    BY <1>3, <1>4, <1>5, <1>6
  <2> HIDE DEF S
  <2>2. Total(instances', S) = Total(instances, S)
    BY <1>1, <1>2, TotalCongruence
  <2>3. Cardinality(Counted(p)') <= Cardinality(S)
    BY <1>1, <2>1
  <2>4. Total(instances', Counted(p)') <= Total(instances, S)
    BY <1>1, <2>1, <2>2
  <2>5. QED  BY <2>3, <2>4 DEF S
<1>7. CASE i \in S /\ i \notin Counted(p)'
  <2>1. Counted(p)' = S \ {i}
    BY <1>3, <1>5, <1>7
  <2> HIDE DEF S
  <2>2. Total(instances', S \ {i}) <= Total(instances, S)
    BY <1>1, <1>2, <1>7, TotalDropped
  <2>3. Cardinality(S \ {i}) <= Cardinality(S)
    BY <1>1, <1>7, FewerElements
  <2>4. QED  BY <2>1, <2>2, <2>3 DEF S
<1>8. QED  BY <1>6, <1>7

(* and the snapshots.                                                      *)
LEMMA SnapshotsUsedKept ==
  ASSUME TablesOK, NEW i, OneRow(i), SnapshotsStay, NEW p \in Projects
  PROVE  Cardinality(SnapshotsOf(p)') <= Cardinality(SnapshotsOf(p))
<1>1. \A s \in DOMAIN snapshots : snapshots[s].inst \in DOMAIN instances
  BY Columns DEF SnapshotTable
<1>2. SnapshotsOf(p)' \in SUBSET SnapshotsOf(p)
  BY <1>1 DEF SnapshotsOf, SnapshotsStay, OneRow
<1>3. QED  BY <1>2, UsedTyped, FS_Subset

(* Such a step keeps within the quotas, and the rows that are held in      *)
(* their projects.                                                         *)
LEMMA QuietStep ==
  ASSUME LInv, LInv', QInv, tx' = tx, NEW i, OneRow(i), SnapshotsStay,
         instances'[i].cpu = instances[i].cpu,
         instances[i].life = "purged" => instances'[i].life = "purged"
  PROVE  QuotasWithin' /\ RowsHeldInProject'
<1>1. TablesOK /\ TablesOK' /\ TransactionsOK /\ QuotasWithin /\ RowsHeldInProject
  BY DEF LInv, QInv, ChargesStand
<1>2. \A g \in Handlers : Open(g)' = Open(g) /\ (Open(g) => tx'[g].req = tx[g].req)
  BY DEF Open
<1>3. \A g \in Handlers : HoldsRow(g) =>
        /\ instances'[tx[g].req.inst].cpu = instances[tx[g].req.inst].cpu
        /\ instances'[tx[g].req.inst].project = instances[tx[g].req.inst].project
  BY HeldRowExists DEF OneRow
<1>4. \A p \in Projects :
        /\ Cardinality(Counted(p)') <= Cardinality(Counted(p))
        /\ Cardinality(SnapshotsOf(p)') <= Cardinality(SnapshotsOf(p))
        /\ Total(instances', Counted(p)') <= Total(instances, Counted(p))
  BY <1>1, RowUsedKept, SnapshotsUsedKept
<1>5. QuotasWithin'
  BY <1>1, <1>2, <1>3, <1>4, NoMoreUsed
<1>6. \A g \in Handlers : HoldsRow(g)' => HoldsRow(g)
  BY DEF HoldsRow, Open
<1>7. RowsHeldInProject'
  BY <1>1, <1>3, <1>6 DEF RowsHeldInProject
<1>8. QED  BY <1>5, <1>7

(* An operation is added; the others are as they were.                     *)
LEMMA AliveWithNew ==
  ASSUME TablesOK, SnapshotsAlive, NEW r, NEW i, NEW s,
         operations' = Append(operations, NewOp(r, i, s)),
         DOMAIN snapshots \subseteq DOMAIN snapshots',
         \A q \in DOMAIN snapshots :
           /\ snapshots'[q].inst = snapshots[q].inst
           /\ snapshots[q].state # "deleted" => snapshots'[q].state # "deleted",
         s # 0 => /\ s \in DOMAIN snapshots' /\ snapshots'[s].state # "deleted"
                  /\ snapshots'[s].inst = i
  PROVE  SnapshotsAlive'
<1>1. /\ DOMAIN operations' = DOMAIN operations \cup {ThisOp}
      /\ operations'[ThisOp] = NewOp(r, i, s)
      /\ \A o \in DOMAIN operations : operations'[o] = operations[o]
  BY DEF TablesOK, ThisOp
<1>2. \A o \in DOMAIN operations : Unfinished(o)' = Unfinished(o)
  BY <1>1 DEF Unfinished
<1>3. \A o \in DOMAIN operations : Unfinished(o)' /\ operations'[o].snap # 0 =>
        /\ operations'[o].snap \in DOMAIN snapshots'
        /\ snapshots'[operations'[o].snap].state # "deleted"
        /\ snapshots'[operations'[o].snap].inst = operations'[o].inst
  BY <1>1, <1>2 DEF SnapshotsAlive
<1>4. operations'[ThisOp].snap = s /\ operations'[ThisOp].inst = i
  BY <1>1 DEF NewOp
<1>5. QED  BY <1>1, <1>3, <1>4 DEF SnapshotsAlive

(* A row that an accepted mutation made busy is not a purged one.          *)
LEMMA PurgedStayFree ==
  ASSUME PurgedAreFree, NEW i, OneRow(i),
         instances'[i].life = "purged" => instances'[i].active = 0
  PROVE  PurgedAreFree'
  BY DEF PurgedAreFree, OneRow

(* A mutation accepted in one step uses nothing more.                      *)
LEMMA MutationQuotas ==
  ASSUME LInv, LInv', QInv, NEW r \in Requests,
         \/ AcceptPowerAction(r) \/ AcceptSnapshotAction(r)
         \/ AcceptRetention(r) \/ AcceptPurge(r)
  PROVE  QInv'
<1> DEFINE i == r.inst
<1>1. TablesOK /\ PurgedAreFree /\ SnapshotsAlive
  BY DEF LInv, QInv, ChargesStand
<1>2. i \in DOMAIN instances /\ instances[i].life # "purged"
  BY DEF AcceptPowerAction, AcceptSnapshotAction, AcceptRetention, AcceptPurge,
         LockInstanceForMutation, MutableLifecycleStates, Purgeable
<1>3. instances \in Seq(InstanceTable) /\ instances[i] \in InstanceTable
  BY <1>1, <1>2, Columns DEF TablesOK
<1>4. /\ OneRow(i) /\ instances'[i].cpu = instances[i].cpu
      /\ instances'[i].life # "purged"
  <2>1. CASE AcceptPowerAction(r)
    BY <1>2, <1>3, <2>1 DEF AcceptPowerAction, OneRow, InstanceTable
  <2>2. CASE AcceptSnapshotAction(r)
    BY <1>2, <1>3, <2>2 DEF AcceptSnapshotAction, OneRow, InstanceTable
  <2>3. CASE AcceptRetention(r)
    BY <1>2, <1>3, <2>3 DEF AcceptRetention, OneRow, InstanceTable
  <2>4. CASE AcceptPurge(r)
    BY <1>2, <1>3, <2>4 DEF AcceptPurge, OneRow, InstanceTable
  <2>5. QED  BY <2>1, <2>2, <2>3, <2>4
<1>5. tx' = tx
  BY DEF AcceptPowerAction, AcceptSnapshotAction, AcceptRetention, AcceptPurge
<1>6. SnapshotsStay /\ SnapshotsAlive'
  <2>1. CASE ~AcceptSnapshotAction(r)
    <3>1. snapshots' = snapshots /\ operations' = Append(operations, NewOp(r, i, 0))
      BY <2>1 DEF AcceptPowerAction, AcceptRetention, AcceptPurge, WriteOperation
    <3>2. QED  BY <1>1, <3>1, AliveWithNew DEF SnapshotsStay
  <2>2. CASE AcceptSnapshotAction(r)
    <3> DEFINE s == r.snap
    <3>1. /\ s \in DOMAIN snapshots /\ snapshots[s].inst = i
          /\ snapshots[s].state = "available"
          /\ operations' = Append(operations, NewOp(r, i, s))
      BY <2>2 DEF AcceptSnapshotAction, WriteOperation
    <3>2. PICK state \in {"rolling_back", "deleting"} :
            snapshots' = [snapshots EXCEPT ![s].state = state]
      BY <2>2 DEF AcceptSnapshotAction
    <3>3. snapshots \in Seq(SnapshotTable) /\ snapshots[s] \in SnapshotTable
      BY <1>1, <3>1, Columns DEF TablesOK
    <3>4. /\ DOMAIN snapshots' = DOMAIN snapshots
          /\ \A q \in DOMAIN snapshots \ {s} : snapshots'[q] = snapshots[q]
          /\ snapshots'[s].inst = i /\ snapshots'[s].state = state
      BY <3>1, <3>2, <3>3 DEF SnapshotTable
    <3>5. SnapshotsStay
      BY <3>1, <3>4 DEF SnapshotsStay
    <3>6. SnapshotsAlive'
      BY <1>1, <3>1, <3>4, AliveWithNew
    <3>7. QED  BY <3>5, <3>6
  <2>3. QED  BY <2>1, <2>2
<1>7. PurgedAreFree'
  BY <1>1, <1>4, PurgedStayFree
<1> HIDE DEF i
<1>8. QuotasWithin' /\ RowsHeldInProject'
  BY <1>2, <1>4, <1>5, <1>6, QuietStep
<1>9. QED  BY <1>6, <1>7, <1>8 DEF QInv, ChargesStand

(* The passing of time writes nothing that is charged for.                 *)
LEMMA DeadlineQuotas ==
  ASSUME LInv, LInv', QInv, NEW i \in DOMAIN instances, DeadlinePasses(i)
  PROVE  QInv'
<1>1. TablesOK /\ PurgedAreFree /\ SnapshotsAlive
  BY DEF LInv, QInv, ChargesStand
<1>2. instances \in Seq(InstanceTable) /\ instances[i] \in InstanceTable
  BY <1>1, Columns DEF TablesOK
<1>3. /\ OneRow(i) /\ instances'[i].cpu = instances[i].cpu
      /\ instances'[i].life = instances[i].life /\ instances'[i].active = instances[i].active
  BY <1>2 DEF DeadlinePasses, OneRow, InstanceTable
<1>4. tx' = tx /\ snapshots' = snapshots /\ operations' = operations
  BY DEF DeadlinePasses
<1>5. SnapshotsStay /\ SnapshotsAlive'
  BY <1>1, <1>4 DEF SnapshotsStay, SnapshotsAlive, Unfinished
<1>6. PurgedAreFree'
  BY <1>1, <1>3, PurgedStayFree DEF PurgedAreFree
<1>7. QuotasWithin' /\ RowsHeldInProject'
  BY <1>3, <1>4, <1>5, QuietStep
<1>8. QED  BY <1>5, <1>6, <1>7 DEF QInv, ChargesStand

(* An event of the operation that its instance names: nothing else is under*)
(* way on the instance or on its snapshots.                                *)
LEMMA EventQuotas ==
  ASSUME AInv, LInv', QInv, NEW o \in DOMAIN operations, CarryOut(o)
  PROVE  QInv'
<1> DEFINE i == operations[o].inst s == operations[o].snap
<1>1. TablesOK /\ PurgedAreFree /\ SnapshotsAlive /\ LInv /\ UnfinishedIsActive
  BY DEF AInv, LInv, QInv, ChargesStand
<1>2. Unfinished(o) /\ tx' = tx
  BY DEF CarryOut, Unfinished, ApplyProgress, ApplyCompleted, ApplyFailed
<1>3. i \in DOMAIN instances /\ s \in 0 .. Len(snapshots) /\ operations[o] \in OperationTable
  BY <1>1, Columns DEF OperationTable
<1>4. instances[i].active = o /\ o # 0
  BY <1>1, <1>2, TablePositions DEF UnfinishedIsActive
<1>5. instances[i].life # "purged"
  BY <1>1, <1>3, <1>4 DEF PurgedAreFree
<1>6. instances \in Seq(InstanceTable) /\ instances[i] \in InstanceTable
  BY <1>1, <1>3, Columns DEF TablesOK
<1>7. PICK life, active, state :
        /\ instances' = [instances EXCEPT ![i].life = life, ![i].active = active]
        /\ operations' = [operations EXCEPT ![o].state = state]
        /\ \/ active = 0 /\ state \notin {"accepted", "running"}
           \/ active = instances[i].active /\ life = "provisioning" /\ snapshots' = snapshots
  <2>1. CASE ApplyProgress(o)
    <3>1. instances' = [instances EXCEPT ![i].life = "provisioning",
                                         ![i].active = instances[i].active]
      BY <1>3, <1>6, <2>1 DEF ApplyProgress, InstanceTable
    <3>2. snapshots' = snapshots /\ operations' = [operations EXCEPT ![o].state = "running"]
      BY <2>1 DEF ApplyProgress, writeDocuments
    <3>3. QED  BY <3>1, <3>2
  <2>2. CASE ApplyCompleted(o)
    <3> DEFINE after == LifecycleAfter(operations[o].req.kind)
    <3>1. /\ instances' = [instances EXCEPT ![i].life = after, ![i].active = 0]
          /\ operations' = [operations EXCEPT ![o].state = "succeeded"]
      BY <2>2 DEF ApplyCompleted, writeDocuments
    <3> HIDE DEF after
    <3>2. "succeeded" \notin {"accepted", "running"}
      OBVIOUS
    <3>3. QED  BY <3>1, <3>2, Zenon
  <2>3. CASE \E state \in {"failed", "manual_review"} : ApplyFailed(o, state)
    <3>1. PICK state \in {"failed", "manual_review"} : ApplyFailed(o, state)
      BY <2>3
    <3>2. /\ instances' = [instances EXCEPT ![i].life = state, ![i].active = 0]
          /\ operations' = [operations EXCEPT ![o].state = state]
      BY <3>1 DEF ApplyFailed, writeDocuments
    <3>3. QED  BY <3>2
  <2>4. QED  BY <2>1, <2>2, <2>3 DEF CarryOut
<1>8. /\ OneRow(i) /\ instances'[i].cpu = instances[i].cpu
      /\ instances'[i].life = life /\ instances'[i].active = active
  BY <1>3, <1>6, <1>7 DEF OneRow, InstanceTable
<1>9. PurgedAreFree'
  BY <1>1, <1>7, <1>8, PurgedStayFree
<1>10. /\ DOMAIN operations' = DOMAIN operations
       /\ \A q \in DOMAIN operations :
            operations'[q].snap = operations[q].snap /\ operations'[q].inst = operations[q].inst
       /\ \A q \in DOMAIN operations \ {o} : operations'[q] = operations[q]
       /\ operations'[o].state = state
  <2>1. \A q \in DOMAIN operations : operations[q] \in OperationTable
    BY <1>1, Columns
  <2>2. QED  BY <1>1, <1>7, <2>1 DEF TablesOK, OperationTable
<1>11. SnapshotsStay /\ SnapshotsAlive'
  <2>1. CASE snapshots' = snapshots
    <3>1. \A q \in DOMAIN operations : Unfinished(q)' => Unfinished(q)
      BY <1>2, <1>10 DEF Unfinished
    <3>2. QED  BY <1>1, <1>10, <2>1, <3>1 DEF SnapshotsStay, SnapshotsAlive
  <2>2. CASE snapshots' # snapshots
    <3>1. ApplyCompleted(o) /\ s # 0
      BY <2>2 DEF CarryOut, ApplyProgress, ApplyCompleted, ApplyFailed, SettleSnapshot
    <3>2. PICK settled \in {"deleted", "available"} :
            snapshots' = [snapshots EXCEPT ![s].state = settled]
      BY <3>1 DEF ApplyCompleted, SettleSnapshot
    <3>3. /\ s \in DOMAIN snapshots /\ snapshots[s].state # "deleted"
          /\ snapshots[s].inst = i
      BY <1>1, <1>2, <3>1 DEF SnapshotsAlive
    <3>4. snapshots \in Seq(SnapshotTable) /\ snapshots[s] \in SnapshotTable
      BY <1>1, <3>3, Columns DEF TablesOK
    <3>5. /\ DOMAIN snapshots' = DOMAIN snapshots
          /\ \A q \in DOMAIN snapshots \ {s} : snapshots'[q] = snapshots[q]
          /\ snapshots'[s].inst = i /\ snapshots'[s].state = settled
      BY <3>2, <3>3, <3>4 DEF SnapshotTable
    <3>6. SnapshotsStay
      BY <3>3, <3>5 DEF SnapshotsStay
    <3>7. \A q \in DOMAIN operations : Unfinished(q)' => q # o /\ Unfinished(q)
      BY <1>4, <1>7, <1>10, <2>2 DEF Unfinished
    <3>8. \A q \in DOMAIN operations : Unfinished(q)' => operations[q].snap # s
      <4> SUFFICES ASSUME NEW q \in DOMAIN operations, Unfinished(q)',
                          operations[q].snap = s
                   PROVE  FALSE
        OBVIOUS
      <4>1. Unfinished(q) /\ q # o
        BY <3>7
      <4>2. operations[q].inst = i
        BY <1>1, <3>1, <3>3, <4>1 DEF SnapshotsAlive
      <4>3. instances[i].active = q
        BY <1>1, <4>1, <4>2 DEF UnfinishedIsActive
      <4>4. QED  BY <1>4, <4>1, <4>3
    <3>9. SnapshotsAlive'
      BY <1>1, <1>10, <3>5, <3>7, <3>8 DEF SnapshotsAlive
    <3>10. QED  BY <3>6, <3>9
  <2>3. QED  BY <2>1, <2>2
<1> HIDE DEF i
<1>12. QuotasWithin' /\ RowsHeldInProject'
  BY <1>1, <1>2, <1>5, <1>8, <1>11, QuietStep
<1>13. QED  BY <1>9, <1>11, <1>12 DEF QInv, ChargesStand

-----------------------------------------------------------------------------
(* Steps that open a transaction, go on with it or end it.                 *)

(* Where no table is written only the rows held by a new transaction are   *)
(* to be looked at.                                                        *)
LEMMA UnwrittenStand ==
  ASSUME ChargesStand, UNCHANGED tableVars,
         \A g \in Handlers : HoldsRow(g)' =>
           \/ HoldsRow(g) /\ tx'[g].req = tx[g].req
           \/ instances[tx'[g].req.inst].project = tx'[g].req.project
  PROVE  ChargesStand'
<1>1. PurgedAreFree' /\ SnapshotsAlive'
  BY DEF ChargesStand, PurgedAreFree, SnapshotsAlive, tableVars, Unfinished
<1>2. RowsHeldInProject'
  BY DEF ChargesStand, RowsHeldInProject, tableVars
<1>3. QED  BY <1>1, <1>2 DEF ChargesStand

(* A transaction is opened after its checks have found room.               *)
LEMMA BeginQuotas ==
  ASSUME LInv, QInv, NEW h \in Handlers, NEW r \in Requests,
         BeginCreate(h, r) \/ BeginResize(h, r) \/ BeginSnapshotCreate(h, r)
  PROVE  QInv'
<1>1. TablesOK /\ TransactionsOK /\ QuotasWithin /\ ChargesStand
  BY DEF LInv, QInv
<1>2. ~Open(h) /\ UNCHANGED tableVars
  BY DEF BeginCreate, BeginResize, BeginSnapshotCreate, Open, tableVars
<1>3. PICK q, hash :
        /\ tx' = [tx EXCEPT ![h] = Opened(q, hash)]
        /\ q.project \in Projects
        /\ q.kind # "create_instance" => /\ q.inst \in DOMAIN instances
                                         /\ instances[q.inst].project = q.project
        /\ q.kind = "create_instance" =>
             Cardinality(Counted(q.project)) + 1 <= Quotas[q.project].instances
        /\ q.kind = "create_snapshot" =>
             Cardinality(SnapshotsOf(q.project)) + 1 <= Quotas[q.project].snapshots
        /\ q.kind \in {"create_instance", "resize_instance"} => q.flavor \in DOMAIN Flavors
        /\ q.kind = "create_instance" =>
             CpuUsed(q.project) + Flavors[q.flavor].cpu <= Quotas[q.project].cpu
        /\ q.kind = "resize_instance" =>
             CpuUsed(q.project) - instances[q.inst].cpu + Flavors[q.flavor].cpu
               <= Quotas[q.project].cpu
  <2>1. CASE BeginCreate(h, r)
    <3> DEFINE q == CreateInstanceCommand(r)
    <3>1. /\ q.kind = "create_instance" /\ q.project = r.project /\ q.flavor = r.flavor
          /\ r.project \in Projects /\ r.flavor \in DOMAIN Flavors
      BY <2>1, CreateCommandShape DEF BeginCreate, LoadAcceptanceContext
    <3>2. tx' = [tx EXCEPT ![h] = Opened(q, requestHash(r))]
      BY <2>1 DEF BeginCreate
    <3>3. /\ Cardinality(Counted(r.project)) + 1 <= Quotas[r.project].instances
          /\ CpuUsed(r.project) + Flavors[r.flavor].cpu <= Quotas[r.project].cpu
      BY <2>1 DEF BeginCreate, AssertQuotaHeadroom
    <3> HIDE DEF q
    <3>4. QED  BY <3>1, <3>2, <3>3
  <2>2. CASE BeginResize(h, r)
    <3>1. /\ r.kind = "resize_instance" /\ r.inst \in DOMAIN instances
          /\ instances[r.inst].project = r.project
          /\ r.flavor \in DOMAIN Flavors
          /\ tx' = [tx EXCEPT ![h] = Opened(r, requestHash(r))]
      BY <2>2 DEF BeginResize, resizeInstance, LockInstanceForMutation
    <3>2. r.project \in Projects
      BY <1>1, <2>2, LockedRow DEF BeginResize
    <3>3. CpuUsed(r.project) - instances[r.inst].cpu + Flavors[r.flavor].cpu
            <= Quotas[r.project].cpu
      BY <2>2 DEF BeginResize, AssertResizeQuotaHeadroom, ResizeTarget
    <3>4. QED  BY <3>1, <3>2, <3>3
  <2>3. CASE BeginSnapshotCreate(h, r)
    <3>1. /\ r.kind = "create_snapshot" /\ r.inst \in DOMAIN instances
          /\ instances[r.inst].project = r.project
          /\ tx' = [tx EXCEPT ![h] = Opened(r, requestHash(r))]
      BY <2>3 DEF BeginSnapshotCreate, createSnapshot, LockInstanceForMutation
    <3>2. r.project \in Projects
      BY <1>1, <2>3, LockedRow DEF BeginSnapshotCreate
    <3>3. Cardinality(SnapshotsOf(r.project)) + 1 <= Quotas[r.project].snapshots
      BY <2>3 DEF BeginSnapshotCreate, AssertSnapshotHeadroom, SnapshotsUsed, SnapshotsOf
    <3>4. QED  BY <3>1, <3>2, <3>3
  <2>4. QED  BY <2>1, <2>2, <2>3
<1>4. /\ tx'[h].req = q /\ \A g \in Handlers \ {h} : tx'[g] = tx[g]
      /\ instances' = instances
  BY <1>1, <1>2, <1>3 DEF TransactionsOK, Opened, tableVars
<1>5. q.kind \in {"create_instance", "resize_instance"} =>
        /\ Gain(h)' \in Int
        /\ Total(instances, Counted(q.project)) + Gain(h)' <= Quotas[q.project].cpu
  <2> SUFFICES ASSUME q.kind \in {"create_instance", "resize_instance"}
               PROVE  /\ Gain(h)' \in Int
                      /\ Total(instances, Counted(q.project)) + Gain(h)'
                           <= Quotas[q.project].cpu
    OBVIOUS
  <2> DEFINE old == IF q.kind = "create_instance" THEN 0 ELSE instances[q.inst].cpu
             used == Total(instances, Counted(q.project))
  <2>1. Gain(h)' = Flavors[q.flavor].cpu - old
    BY <1>4 DEF Gain
  <2>2. old \in Nat
    BY <1>1, <1>3, Columns DEF InstanceTable
  <2>3. Flavors[q.flavor].cpu \in Nat
    BY <1>3, FlavorsBounded
  <2>4. used \in Nat /\ Quotas[q.project].cpu \in Nat /\ CpuUsed(q.project) = used
    BY <1>1, <1>3, UsedTyped, TakenTyped, CpuUsedIsTotal
  <2>5. used - old + Flavors[q.flavor].cpu <= Quotas[q.project].cpu
    <3> HIDE DEF used
    <3> QED  BY <1>3, <2>3, <2>4
  <2> HIDE DEF used, old
  <2>6. Gain(h)' \in Int /\ used + Gain(h)' <= Quotas[q.project].cpu
    BY <2>1, <2>2, <2>3, <2>4, <2>5
  <2>7. QED  BY <2>6 DEF used
<1>6. QuotasWithin'
  BY <1>1, <1>2, <1>3, <1>5, OpenedWithin
<1>7. ChargesStand'
  <2>1. \A g \in Handlers : HoldsRow(g)' =>
           \/ HoldsRow(g) /\ tx'[g].req = tx[g].req
           \/ instances[tx'[g].req.inst].project = tx'[g].req.project
    <3> SUFFICES ASSUME NEW g \in Handlers, HoldsRow(g)'
                 PROVE  \/ HoldsRow(g) /\ tx'[g].req = tx[g].req
                        \/ instances[tx'[g].req.inst].project = tx'[g].req.project
      OBVIOUS
    <3>1. CASE g = h
      BY <1>3, <1>4, <3>1 DEF HoldsRow
    <3>2. CASE g # h
      BY <1>4, <3>2 DEF HoldsRow, Open
    <3>3. QED  BY <3>1, <3>2
  <2>2. QED  BY <1>1, <1>2, <2>1, UnwrittenStand
<1>8. QED  BY <1>6, <1>7 DEF QInv

(* The address is reserved in the same transaction.                        *)
LEMMA ReserveQuotas ==
  ASSUME LInv, LInv', QInv, NEW h \in Handlers, ReserveIpv4Address(h)
  PROVE  QInv'
<1>1. TablesOK /\ TablesOK' /\ TransactionsOK /\ QuotasWithin /\ ChargesStand
  BY DEF LInv, QInv
<1>2. UNCHANGED tableVars
  BY DEF ReserveIpv4Address, tableVars
<1>3. \A g \in Handlers : /\ Open(g)' = Open(g)
                          /\ Open(g) => tx'[g].req = tx[g].req
                          /\ HoldsRow(g)' => HoldsRow(g) /\ tx'[g].req = tx[g].req
  <2>1. Open(h) /\ tx[h] \in OpenTransactions
    BY <1>1, OpenTransaction DEF ReserveIpv4Address, Open
  <2>2. tx'[h].phase = "reserved" /\ tx'[h].req = tx[h].req
    BY <1>1, <2>1 DEF ReserveIpv4Address, TransactionsOK, OpenTransactions
  <2>3. \A g \in Handlers \ {h} : tx'[g] = tx[g]
    BY <1>1 DEF ReserveIpv4Address, TransactionsOK
  <2>4. QED  BY <2>1, <2>2, <2>3 DEF Open, HoldsRow
<1>4. \A p : Counted(p)' = Counted(p) /\ SnapshotsOf(p)' = SnapshotsOf(p)
  BY <1>2 DEF Counted, SnapshotsOf, tableVars
<1>5. instances' = instances
  BY <1>2 DEF tableVars
<1>6. \A p \in Projects :
        /\ Cardinality(Counted(p)') <= Cardinality(Counted(p))
        /\ Cardinality(SnapshotsOf(p)') <= Cardinality(SnapshotsOf(p))
        /\ Total(instances', Counted(p)') <= Total(instances, Counted(p))
  BY <1>1, <1>4, <1>5, UsedTyped
<1>7. QuotasWithin'
  BY <1>1, <1>3, <1>5, <1>6, NoMoreUsed
<1>8. ChargesStand'
  BY <1>1, <1>2, <1>3, UnwrittenStand
<1>9. QED  BY <1>7, <1>8 DEF QInv

(* The rows held after a transaction has ended were held before.           *)
LEMMA ClosingHolds ==
  ASSUME TransactionsOK, NEW h \in Handlers, tx' = [tx EXCEPT ![h] = IdleTx]
  PROVE  \A g \in Handlers : HoldsRow(g)' =>
           g # h /\ HoldsRow(g) /\ tx'[g] = tx[g]
  BY DEF TransactionsOK, HoldsRow, Open, IdleTx

(* One that is rolled back has taken nothing.                              *)
LEMMA RollbackQuotas ==
  ASSUME LInv, LInv', QInv, NEW h \in Handlers, Rollback(h)
  PROVE  QInv'
<1>1. TablesOK /\ TablesOK' /\ TransactionsOK /\ QuotasWithin /\ ChargesStand
  BY DEF LInv, QInv
<1>2. UNCHANGED tableVars /\ tx' = [tx EXCEPT ![h] = IdleTx] /\ instances' = instances
  BY DEF Rollback, tableVars
<1>3. \A p : Counted(p)' = Counted(p) /\ SnapshotsOf(p)' = SnapshotsOf(p)
  BY <1>2 DEF Counted, SnapshotsOf, tableVars
<1>4. \A p \in Projects : TakesItsRoom(h, p)
  <2> SUFFICES ASSUME NEW p \in Projects
               PROVE  /\ Cardinality(Counted(p)) <=
                           Cardinality(Counted(p)) + IF h \in Creating(p) THEN 1 ELSE 0
                      /\ Cardinality(SnapshotsOf(p)) <=
                           Cardinality(SnapshotsOf(p)) + IF h \in Snapshotting(p) THEN 1 ELSE 0
                      /\ Total(instances, Counted(p)) <=
                           Total(instances, Counted(p)) + IF h \in Growing(p) THEN Gain(h) ELSE 0
    BY <1>2, <1>3 DEF TakesItsRoom
  <2>1. h \in Growing(p) => Gain(h) \in Nat
    <3>1. Gains[h] = Gain(h)
      BY DEF Gains
    <3>2. QED  BY <1>1, <3>1, TakenTyped
  <2>2. QED  BY <1>1, <2>1, UsedTyped
<1>5. QuotasWithin'
  BY <1>1, <1>2, <1>4, ClosedWithin
<1>6. ChargesStand'
  BY <1>1, <1>2, ClosingHolds, UnwrittenStand
<1>7. QED  BY <1>5, <1>6 DEF QInv

(* A create is committed: its project has one instance more, of the size   *)
(* there was room for.                                                     *)
LEMMA CreationQuotas ==
  ASSUME LInv, LInv', QInv, NEW h \in Handlers, WriteAcceptanceRecords(h)
  PROVE  QInv'
<1> DEFINE r == tx[h].req
           new == Len(instances) + 1
           row == NewInstance(r)
<1>1. TablesOK /\ TablesOK' /\ TransactionsOK /\ QuotasWithin /\ ChargesStand
  BY DEF LInv, QInv
<1>2. Open(h) /\ r.kind = "create_instance"
  BY <1>1 DEF WriteAcceptanceRecords, Open, TransactionsOK, HoldsNetwork
<1>3. r.project \in Projects /\ r.flavor \in DOMAIN Flavors
  BY <1>1, <1>2, OpenTransaction
     DEF OpenCommands, CreateInstanceCommands, ResizeInstanceCommands, CreateSnapshotCommands
<1>4. /\ DOMAIN instances' = DOMAIN instances \cup {new} /\ new \notin DOMAIN instances
      /\ \A i \in DOMAIN instances : instances'[i] = instances[i]
      /\ instances'[new] = row
  BY <1>1 DEF WriteAcceptanceRecords, TablesOK
<1>5. /\ row.project = r.project /\ row.cpu = Flavors[r.flavor].cpu
      /\ row.life = "pending"
  BY DEF NewInstance
<1>6. /\ tx' = [tx EXCEPT ![h] = IdleTx] /\ snapshots' = snapshots
      /\ operations' = Append(operations, NewOp(r, new, 0))
  BY DEF WriteAcceptanceRecords, WriteOperation
<1>7. Flavors[r.flavor].cpu \in Nat /\ Gain(h) = Flavors[r.flavor].cpu
  BY <1>2, <1>3, FlavorsBounded DEF Gain
<1> HIDE DEF r, new, row
<1>8. ASSUME NEW p \in Projects
      PROVE  TakesItsRoom(h, p)
  <2> DEFINE S == Counted(p)
  <2>1. /\ IsFiniteSet(S) /\ Cardinality(S) \in Nat /\ Total(instances, S) \in Nat
        /\ Cardinality(SnapshotsOf(p)) \in Nat
        /\ S \subseteq DOMAIN instances
        /\ \A i \in DOMAIN instances : instances[i].cpu \in Nat
    BY <1>1, UsedTyped DEF Counted
  <2>2. SnapshotsOf(p)' = SnapshotsOf(p)
    <3>1. \A s \in DOMAIN snapshots : snapshots[s].inst \in DOMAIN instances
      BY <1>1, Columns DEF SnapshotTable
    <3>2. QED  BY <1>4, <1>6, <3>1 DEF SnapshotsOf
  <2>3. \A i \in S : instances[i].cpu \in Nat /\ instances'[i].cpu = instances[i].cpu
    BY <1>4, <2>1
  <2>4. CASE p = r.project
    <3>1. Counted(p)' = S \cup {new}
      BY <1>4, <1>5, <2>4 DEF Counted
    <3>2. new \notin S /\ instances'[new].cpu = Flavors[r.flavor].cpu
      BY <1>4, <1>5, <2>1
    <3>3. h \in Creating(p)
      BY <1>2, <2>4 DEF Creating, r
    <3>4. h \in Growing(p) <=> Gain(h) > 0
      BY <1>2, <2>4 DEF Growing, r
    <3> HIDE DEF S
    <3>5. Cardinality(S \cup {new}) = Cardinality(S) + 1
      BY <2>1, <3>2, FS_AddElement
    <3>6. Total(instances', S \cup {new}) = Total(instances, S) + Flavors[r.flavor].cpu
      BY <1>7, <2>1, <2>3, <3>2, TotalAdded
    <3>7. Cardinality(Counted(p)') = Cardinality(S) + 1
      BY <3>1, <3>5
    <3>8. Total(instances', Counted(p)') = Total(instances, S) + Gain(h)
      BY <1>7, <3>1, <3>6
    <3>9. /\ Cardinality(Counted(p)') <= Cardinality(S) + IF h \in Creating(p) THEN 1 ELSE 0
          /\ Total(instances', Counted(p)')
               <= Total(instances, S) + IF h \in Growing(p) THEN Gain(h) ELSE 0
      BY <1>7, <2>1, <3>3, <3>4, <3>7, <3>8
    <3>10. QED  BY <2>1, <2>2, <3>9 DEF S, TakesItsRoom
  <2>5. CASE p # r.project
    <3>1. Counted(p)' = S
      BY <1>4, <1>5, <2>5 DEF Counted
    <3>2. h \notin Creating(p) /\ h \notin Growing(p)
      BY <2>5 DEF Creating, Growing, r
    <3> HIDE DEF S
    <3>3. Total(instances', S) = Total(instances, S)
      BY <2>1, <2>3, TotalCongruence
    <3>4. /\ Cardinality(Counted(p)') <= Cardinality(S) + IF h \in Creating(p) THEN 1 ELSE 0
          /\ Total(instances', Counted(p)')
               <= Total(instances, S) + IF h \in Growing(p) THEN Gain(h) ELSE 0
      BY <2>1, <3>1, <3>2, <3>3
    <3>5. QED  BY <2>1, <2>2, <3>4 DEF S, TakesItsRoom
  <2>6. QED  BY <2>4, <2>5
<1>9. \A g \in Handlers : HoldsRow(g) =>
        instances'[tx[g].req.inst] = instances[tx[g].req.inst]
  BY <1>4, HeldRowExists
<1>10. QuotasWithin'
  BY <1>1, <1>6, <1>8, <1>9, ClosedWithin
<1>11. PurgedAreFree'
  BY <1>1, <1>4, <1>5 DEF ChargesStand, PurgedAreFree
<1>12. SnapshotsAlive'
  BY <1>1, <1>6, AliveWithNew DEF ChargesStand
<1>13. RowsHeldInProject'
  <2>1. \A g \in Handlers : HoldsRow(g)' => HoldsRow(g) /\ tx'[g] = tx[g]
    BY <1>1, <1>6, ClosingHolds
  <2>2. QED  BY <1>1, <1>9, <2>1 DEF ChargesStand, RowsHeldInProject
<1>14. QED  BY <1>10, <1>11, <1>12, <1>13 DEF QInv, ChargesStand

(* A resize is committed: its row has the size asked for.                  *)
LEMMA ResizeQuotas ==
  ASSUME LInv, LInv', QInv, NEW h \in Handlers, AcceptResize(h)
  PROVE  QInv'
<1> DEFINE r == tx[h].req
           i == r.inst
<1>1. TablesOK /\ TablesOK' /\ TransactionsOK /\ QuotasWithin /\ ChargesStand
  BY DEF LInv, QInv
<1>2. Open(h) /\ HoldsRow(h) /\ r.kind = "resize_instance"
  BY DEF AcceptResize, Open, HoldsRow
<1>3. i \in DOMAIN instances /\ r.flavor \in DOMAIN Flavors
  BY <1>1, <1>2, OpenTransaction
     DEF OpenCommands, CreateInstanceCommands, ResizeInstanceCommands, CreateSnapshotCommands
<1>4. /\ instances[i].project = r.project
      /\ instances[i].life \in {"active", "failed"}
  BY <1>1, <1>2 DEF ChargesStand, RowsHeldInProject, LInv, RowsHeldAreFree,
                    MutableLifecycleStates
<1>5. instances \in Seq(InstanceTable) /\ instances[i] \in InstanceTable
  BY <1>1, <1>3, Columns DEF TablesOK
<1>6. /\ OneRow(i) /\ instances'[i].life = instances[i].life
      /\ instances'[i].cpu = Flavors[r.flavor].cpu
  <2> DEFINE t == ResizeTarget(i, r)
  <2>1. t.cpu = Flavors[r.flavor].cpu
    BY DEF ResizeTarget
  <2>2. instances' = [instances EXCEPT ![i].active = ThisOp, ![i].cpu = t.cpu,
                                       ![i].disk = t.disk]
    BY DEF AcceptResize
  <2> HIDE DEF t, i
  <2>3. QED  BY <1>3, <1>5, <2>1, <2>2 DEF OneRow, InstanceTable
<1>7. /\ tx' = [tx EXCEPT ![h] = IdleTx] /\ snapshots' = snapshots
      /\ operations' = Append(operations, NewOp(r, i, 0))
  BY DEF AcceptResize, WriteOperation
<1>8. /\ Flavors[r.flavor].cpu \in Nat /\ instances[i].cpu \in Nat
      /\ Gain(h) = Flavors[r.flavor].cpu - instances[i].cpu
  BY <1>2, <1>3, <1>5, FlavorsBounded DEF Gain, InstanceTable
<1>9. \A g \in Handlers \ {h} : HoldsRow(g) =>
        instances'[tx[g].req.inst] = instances[tx[g].req.inst]
  BY <1>2, <1>6, HeldRowExists DEF OneRow, LInv, RowsHeldOnce
<1> HIDE DEF i
<1>10. ASSUME NEW p \in Projects  PROVE TakesItsRoom(h, p)
  <2> DEFINE S == Counted(p)
  <2>1. /\ IsFiniteSet(S) /\ Cardinality(S) \in Nat /\ Total(instances, S) \in Nat
        /\ Cardinality(SnapshotsOf(p)) \in Nat
        /\ S \subseteq DOMAIN instances
        /\ \A j \in DOMAIN instances : instances[j].cpu \in Nat
    BY <1>1, UsedTyped DEF Counted
  <2>2. Counted(p)' = S
    BY <1>6 DEF Counted, OneRow
  <2>3. SnapshotsStay
    BY <1>7 DEF SnapshotsStay
  <2>4. Cardinality(SnapshotsOf(p)') <= Cardinality(SnapshotsOf(p))
    BY <1>1, <1>6, <2>3, SnapshotsUsedKept
  <2>5. Cardinality(SnapshotsOf(p)') \in Nat
    BY <1>1, UsedTypedNext
  <2>6. \A j \in S \ {i} : instances'[j].cpu = instances[j].cpu
    BY <1>6, <2>1 DEF OneRow
  <2>7. CASE p = r.project
    <3>1. i \in S
      BY <1>3, <1>4, <2>7 DEF Counted
    <3>2. h \in Growing(p) <=> Gain(h) > 0
      BY <1>2, <2>7 DEF Growing
    <3> HIDE DEF S
    <3>3. \A j \in S : instances[j].cpu \in Nat /\ instances'[j].cpu \in Nat
      BY <1>6, <1>8, <2>1, <2>6
    <3>4. Total(instances', S) = Total(instances, S) - instances[i].cpu + instances'[i].cpu
      BY <2>1, <2>6, <3>1, <3>3, TotalChanged
    <3>5. Total(instances', S) = Total(instances, S) + Gain(h)
      BY <1>6, <1>8, <2>1, <3>4
    <3>6. Total(instances', S)
            <= Total(instances, S) + IF h \in Growing(p) THEN Gain(h) ELSE 0
      BY <1>8, <2>1, <3>2, <3>5
    <3>7. Total(instances', Counted(p)')
            <= Total(instances, S) + IF h \in Growing(p) THEN Gain(h) ELSE 0
      BY <2>2, <3>6
    <3>8. Cardinality(Counted(p)') <= Cardinality(S) + IF h \in Creating(p) THEN 1 ELSE 0
      BY <2>1, <2>2
    <3>9. QED  BY <2>1, <2>4, <2>5, <3>7, <3>8 DEF S, TakesItsRoom
  <2>8. CASE p # r.project
    <3>1. i \notin S
      BY <1>4, <2>8 DEF Counted
    <3>2. h \notin Growing(p)
      BY <2>8 DEF Growing
    <3> HIDE DEF S
    <3>3. Total(instances', S) = Total(instances, S)
      <4>1. \A j \in S : instances'[j].cpu = instances[j].cpu
        BY <2>6, <3>1
      <4>2. QED  BY <2>1, <4>1, TotalCongruence
    <3>4. Total(instances', Counted(p)')
            <= Total(instances, S) + IF h \in Growing(p) THEN Gain(h) ELSE 0
      BY <2>1, <2>2, <3>2, <3>3
    <3>5. Cardinality(Counted(p)') <= Cardinality(S) + IF h \in Creating(p) THEN 1 ELSE 0
      BY <2>1, <2>2
    <3>6. QED  BY <2>1, <2>4, <2>5, <3>4, <3>5 DEF S, TakesItsRoom
  <2>9. QED  BY <2>7, <2>8
<1>11. QuotasWithin'
  BY <1>1, <1>7, <1>9, <1>10, ClosedWithin
<1>12. PurgedAreFree'
  BY <1>1, <1>4, <1>6, PurgedStayFree DEF ChargesStand
<1>13. SnapshotsAlive'
  BY <1>1, <1>7, AliveWithNew DEF ChargesStand
<1>14. RowsHeldInProject'
  <2>1. \A g \in Handlers : HoldsRow(g)' => g # h /\ HoldsRow(g) /\ tx'[g] = tx[g]
    BY <1>1, <1>7, ClosingHolds
  <2>2. QED  BY <1>1, <1>9, <2>1 DEF ChargesStand, RowsHeldInProject
<1>15. QED  BY <1>11, <1>12, <1>13, <1>14 DEF QInv, ChargesStand

(* The creation of a snapshot is committed.                                *)
LEMMA SnapshotCreateQuotas ==
  ASSUME LInv, LInv', QInv, NEW h \in Handlers, AcceptSnapshotCreate(h)
  PROVE  QInv'
<1> DEFINE r == tx[h].req
           i == r.inst
           new == Len(snapshots) + 1
<1>1. TablesOK /\ TablesOK' /\ TransactionsOK /\ QuotasWithin /\ ChargesStand
  BY DEF LInv, QInv
<1>2. Open(h) /\ HoldsRow(h) /\ r.kind = "create_snapshot"
  BY DEF AcceptSnapshotCreate, Open, HoldsRow
<1>3. i \in DOMAIN instances
  BY <1>1, <1>2, HeldRowExists
<1>4. instances[i].project = r.project /\ instances[i].life \in {"active", "failed"}
  BY <1>1, <1>2 DEF ChargesStand, RowsHeldInProject, LInv, RowsHeldAreFree,
                    MutableLifecycleStates
<1>5. instances \in Seq(InstanceTable) /\ instances[i] \in InstanceTable
  BY <1>1, <1>3, Columns DEF TablesOK
<1>6. /\ OneRow(i) /\ instances'[i].life = instances[i].life
      /\ instances'[i].cpu = instances[i].cpu
  BY <1>3, <1>5 DEF AcceptSnapshotCreate, OneRow, InstanceTable
<1>7. /\ tx' = [tx EXCEPT ![h] = IdleTx]
      /\ operations' = Append(operations, NewOp(r, i, new))
  BY DEF AcceptSnapshotCreate, WriteOperation
<1>8. /\ DOMAIN snapshots' = DOMAIN snapshots \cup {new} /\ new \notin DOMAIN snapshots
      /\ \A s \in DOMAIN snapshots : snapshots'[s] = snapshots[s]
      /\ snapshots'[new].inst = i /\ snapshots'[new].state = "creating"
  BY <1>1 DEF AcceptSnapshotCreate, TablesOK
<1>9. \A g \in Handlers \ {h} : HoldsRow(g) =>
        instances'[tx[g].req.inst] = instances[tx[g].req.inst]
  BY <1>2, <1>6, HeldRowExists DEF OneRow, LInv, RowsHeldOnce
<1> HIDE DEF i, new
<1>10. ASSUME NEW p \in Projects  PROVE TakesItsRoom(h, p)
  <2>1. /\ Cardinality(Counted(p)') <= Cardinality(Counted(p))
        /\ Total(instances', Counted(p)') <= Total(instances, Counted(p))
    BY <1>1, <1>6, RowUsedKept
  <2>2. /\ Cardinality(Counted(p)') \in Nat /\ Total(instances', Counted(p)') \in Nat
        /\ Cardinality(Counted(p)) \in Nat /\ Total(instances, Counted(p)) \in Nat
        /\ IsFiniteSet(SnapshotsOf(p)) /\ Cardinality(SnapshotsOf(p)) \in Nat
    BY <1>1, UsedTyped, UsedTypedNext
  <2>3. h \notin Creating(p) /\ h \notin Growing(p)
    BY <1>2 DEF Creating, Growing
  <2>4. \A s \in DOMAIN snapshots : snapshots[s].inst \in DOMAIN instances
    BY <1>1, Columns DEF SnapshotTable
  <2>5. Cardinality(SnapshotsOf(p)')
          <= Cardinality(SnapshotsOf(p)) + IF h \in Snapshotting(p) THEN 1 ELSE 0
    <3>1. CASE p = r.project
      <4>1. SnapshotsOf(p)' = SnapshotsOf(p) \cup {new}
        BY <1>4, <1>6, <1>8, <2>4, <3>1 DEF SnapshotsOf, OneRow
      <4>2. new \notin SnapshotsOf(p)
        BY <1>8 DEF SnapshotsOf
      <4>3. h \in Snapshotting(p)
        BY <1>2, <3>1 DEF Snapshotting
      <4>4. Cardinality(SnapshotsOf(p)') = Cardinality(SnapshotsOf(p)) + 1
        BY <2>2, <4>1, <4>2, FS_AddElement
      <4>5. QED  BY <2>2, <4>3, <4>4
    <3>2. CASE p # r.project
      <4>1. SnapshotsOf(p)' = SnapshotsOf(p)
        BY <1>4, <1>6, <1>8, <2>4, <3>2 DEF SnapshotsOf, OneRow
      <4>2. QED  BY <2>2, <4>1
    <3>3. QED  BY <3>1, <3>2
  <2>6. QED  BY <2>1, <2>2, <2>3, <2>5 DEF TakesItsRoom
<1>11. QuotasWithin'
  BY <1>1, <1>7, <1>9, <1>10, ClosedWithin
<1>12. PurgedAreFree'
  BY <1>1, <1>4, <1>6, PurgedStayFree DEF ChargesStand
<1>13. SnapshotsAlive'
  BY <1>1, <1>7, <1>8, AliveWithNew DEF ChargesStand
<1>14. RowsHeldInProject'
  <2>1. \A g \in Handlers : HoldsRow(g)' => g # h /\ HoldsRow(g) /\ tx'[g] = tx[g]
    BY <1>1, <1>7, ClosingHolds
  <2>2. QED  BY <1>1, <1>9, <2>1 DEF ChargesStand, RowsHeldInProject
<1>15. QED  BY <1>11, <1>12, <1>13, <1>14 DEF QInv, ChargesStand

-----------------------------------------------------------------------------
(* Nothing is used at first.                                               *)
LEMMA InitQuotas ==
  ASSUME Init
  PROVE  QInv
<1>1. AInv /\ LInv
  BY InitAInv
<1>2. TablesOK /\ TransactionsOK
  BY <1>1 DEF LInv
<1>3. /\ DOMAIN instances = {} /\ DOMAIN operations = {} /\ DOMAIN snapshots = {}
      /\ \A h \in Handlers : ~Open(h)
  BY DEF Init, Open, IdleTx
<1>4. ChargesStand
  BY <1>3 DEF ChargesStand, PurgedAreFree, SnapshotsAlive, RowsHeldInProject, HoldsRow
<1>5. ASSUME NEW p \in Projects
      PROVE  InstancesWithin(p) /\ SnapshotsWithin(p) /\ CpuWithin(p)
  <2>1. Counted(p) = {} /\ SnapshotsOf(p) = {}
    BY <1>3 DEF Counted, SnapshotsOf
  <2>2. Creating(p) = {} /\ Snapshotting(p) = {} /\ Growing(p) = {}
    BY <1>3 DEF Creating, Snapshotting, Growing
  <2>3. Cardinality({}) = 0 /\ Total(instances, {}) = 0
    BY FS_EmptySet, TotalStep
  <2>4. Connections \in Nat /\ Connections >= 1
    <3>1. {} \in SUBSET Handlers
      OBVIOUS
    <3>2. QED  BY <3>1, OpenCount
  <2>5. (Connections - 1) * LargestCpu \in Nat /\ (Connections - 1) * 1 \in Nat
    BY <2>4, Multiples, FlavorsBounded
  <2>6. Quotas[p].instances \in Nat /\ Quotas[p].snapshots \in Nat /\ Quotas[p].cpu \in Nat
    BY <1>2, TakenTyped
  <2>7. /\ 0 <= Quotas[p].instances + (Connections - 1) * 1
        /\ 0 <= Quotas[p].snapshots + (Connections - 1) * 1
        /\ 0 <= Quotas[p].cpu + (Connections - 1) * LargestCpu
    BY <2>5, <2>6
  <2>8. QED
    BY <2>1, <2>2, <2>3, <2>7 DEF InstancesWithin, SnapshotsWithin, CpuWithin, Within
<1>6. QED  BY <1>4, <1>5 DEF QInv, QuotasWithin

(* Every step keeps within the quotas.                                     *)
LEMMA NextQuotas ==
  ASSUME AInv, AInv', QInv, [Next]_acceptVars
  PROVE  QInv'
<1>1. LInv /\ LInv'
  BY DEF AInv
<1>2. ASSUME UNCHANGED acceptVars  PROVE QInv'
  <2>1. \A p : /\ Counted(p)' = Counted(p) /\ SnapshotsOf(p)' = SnapshotsOf(p)
               /\ Creating(p)' = Creating(p) /\ Snapshotting(p)' = Snapshotting(p)
               /\ Growing(p)' = Growing(p)
    BY <1>2 DEF acceptVars, Counted, SnapshotsOf, Creating, Snapshotting, Growing,
                Open, Gain
  <2>2. Gains' = Gains /\ One' = One /\ instances' = instances
    BY <1>2 DEF acceptVars, Gains, Gain, One
  <2>3. QuotasWithin'
    BY <2>1, <2>2 DEF QInv, QuotasWithin, InstancesWithin, SnapshotsWithin, CpuWithin
  <2>4. ChargesStand'
    BY <1>2 DEF acceptVars, QInv, ChargesStand, PurgedAreFree, SnapshotsAlive,
                RowsHeldInProject, HoldsRow, Open, Unfinished
  <2>5. QED  BY <2>3, <2>4 DEF QInv
<1>3. ASSUME Accept  PROVE QInv'
  <2>1. ASSUME NEW h \in Handlers, NEW r \in Requests,
               BeginCreate(h, r) \/ BeginResize(h, r) \/ BeginSnapshotCreate(h, r)
        PROVE  QInv'
    BY <1>1, <2>1, BeginQuotas
  <2>2. ASSUME NEW h \in Handlers, ReserveIpv4Address(h)  PROVE QInv'
    BY <1>1, <2>2, ReserveQuotas
  <2>3. ASSUME NEW h \in Handlers, WriteAcceptanceRecords(h)  PROVE QInv'
    BY <1>1, <2>3, CreationQuotas
  <2>4. ASSUME NEW h \in Handlers, AcceptResize(h)  PROVE QInv'
    BY <1>1, <2>4, ResizeQuotas
  <2>5. ASSUME NEW h \in Handlers, AcceptSnapshotCreate(h)  PROVE QInv'
    BY <1>1, <2>5, SnapshotCreateQuotas
  <2>6. ASSUME NEW h \in Handlers, Rollback(h)  PROVE QInv'
    BY <1>1, <2>6, RollbackQuotas
  <2>7. ASSUME NEW r \in Requests,
               \/ AcceptPowerAction(r) \/ AcceptSnapshotAction(r)
               \/ AcceptRetention(r) \/ AcceptPurge(r)
        PROVE  QInv'
    BY <1>1, <2>7, MutationQuotas
  <2>8. ASSUME NEW i \in DOMAIN instances, DeadlinePasses(i)  PROVE QInv'
    BY <1>1, <2>8, DeadlineQuotas
  <2>9. QED
    BY <1>3, <2>1, <2>2, <2>3, <2>4, <2>5, <2>6, <2>7, <2>8, Zenon DEF Accept
<1>4. ASSUME NEW o \in DOMAIN operations, CarryOut(o)  PROVE QInv'
  BY <1>1, <1>4, EventQuotas
<1>5. QED  BY <1>2, <1>3, <1>4 DEF Next

(* The inductive invariant: one of the transactions still open had room    *)
(* for what it takes.                                                      *)
THEOREM QuotaInvariance == Spec => []QInv
<1>1. AInv /\ AInv' /\ QInv /\ [Next]_acceptVars => QInv'
  BY NextQuotas
<1>2. Init => QInv
  BY InitQuotas
<1>3. QED  BY <1>1, <1>2, Invariance, PTL DEF Spec

(* The checks of a quota read sums that no lock protects; transactions of  *)
(* one project that overlap may still pass the limit only by what all the  *)
(* handlers but one can have in hand, whatever their number, the quotas    *)
(* and the sizes of the flavors.                                           *)
THEOREM OverrunBounded == Spec => []QuotaOverrunBounded
<1>1. AInv /\ QInv => QuotaOverrunBounded
  <2> SUFFICES ASSUME AInv, QInv  PROVE QuotaOverrunBounded
    OBVIOUS
  <2>1. TablesOK /\ TransactionsOK
    BY DEF AInv, LInv
  <2>2. ASSUME NEW p \in Projects
        PROVE  /\ Cardinality(Counted(p)) <= Quotas[p].instances + (Connections - 1) * 1
               /\ CpuUsed(p) <= Quotas[p].cpu + (Connections - 1) * LargestCpu
               /\ SnapshotsUsed(p) <= Quotas[p].snapshots + (Connections - 1) * 1
    <3>1. InstancesWithin(p) /\ SnapshotsWithin(p) /\ CpuWithin(p)
      BY DEF QInv, QuotasWithin
    <3>2. /\ Creating(p) \in SUBSET Handlers /\ Snapshotting(p) \in SUBSET Handlers
          /\ Growing(p) \in SUBSET Handlers
          /\ \A h \in Handlers : One[h] \in Nat
          /\ \A h \in Growing(p) : Gains[h] \in Nat
          /\ Quotas[p].instances \in Nat /\ Quotas[p].snapshots \in Nat
          /\ Quotas[p].cpu \in Nat /\ LargestCpu \in Nat
      BY <2>1, TakenTyped
    <3>3. /\ Cardinality(Counted(p)) \in Nat /\ Cardinality(SnapshotsOf(p)) \in Nat
          /\ Total(instances, Counted(p)) \in Nat
      BY <2>1, UsedTyped
    <3>4. Cardinality(Counted(p)) <= Quotas[p].instances + (Connections - 1) * 1
      BY <3>1, <3>2, <3>3, WithinBound DEF InstancesWithin
    <3>5. Cardinality(SnapshotsOf(p)) <= Quotas[p].snapshots + (Connections - 1) * 1
      BY <3>1, <3>2, <3>3, WithinBound DEF SnapshotsWithin
    <3>6. Total(instances, Counted(p)) <= Quotas[p].cpu + (Connections - 1) * LargestCpu
      BY <3>1, <3>2, <3>3, WithinBound DEF CpuWithin
    <3>7. CpuUsed(p) = Total(instances, Counted(p))
      BY CpuUsedIsTotal
    <3>8. SnapshotsUsed(p) = Cardinality(SnapshotsOf(p))
      BY DEF SnapshotsUsed, SnapshotsOf
    <3>9. QED  BY <3>4, <3>5, <3>6, <3>7, <3>8
  <2>3. Connections \in Nat
    BY PoolAssumption, FS_CardinalityType DEF Connections
  <2>4. (Connections - 1) * 1 = Connections - 1
    BY <2>3
  <2>5. QED
    BY <2>2, <2>4 DEF QuotaOverrunBounded, Connections, LargestCpu
<1>2. QED  BY <1>1, QuotaInvariance, Invariance, PTL
=============================================================================
