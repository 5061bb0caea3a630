----------------------------- MODULE GetoptProofs ----------------------------
(***************************************************************************)
(* Proofs about Getopt, for every caller, every table of options and every *)
(* vector: first of where the scan is, then of what has been read.         *)
(***************************************************************************)
EXTENDS Getopt, FiniteSetTheorems, SequenceTheorems, WellFoundedInduction, TLAPS

(***************************************************************************)
(* Induction over numbers, as the existence of a least one: what is said   *)
(* of all numbers is said of the set of those it is wrong for.  The sets   *)
(* of the members of K up to each of them are ordered by inclusion, which  *)
(* is well-founded.                                                        *)
(***************************************************************************)
LEMMA LeastNatural ==
  ASSUME NEW K \in SUBSET Nat, K # {}
  PROVE  \E k \in K : \A j \in K : k <= j
  <1>1. PICK m \in K : TRUE
    OBVIOUS
  <1>m. K \subseteq Nat /\ m \in Nat
    OBVIOUS
  <1> DEFINE Below(n) == {j \in K : j <= n}
             S  == 0 .. m
             T  == {Below(n) : n \in {j \in K : j <= m}}
  <1>2. \A n \in {j \in K : j <= m} : Below(n) \in FiniteSubsetsOf(S)
    <2> SUFFICES ASSUME NEW n \in {j \in K : j <= m}
                 PROVE  Below(n) \in FiniteSubsetsOf(S)
      OBVIOUS
    <2>1. IsFiniteSet(S)
      BY FS_Interval, <1>m
    <2>3. Below(n) \in SUBSET S
      <3>1. \A j \in Below(n) : j \in S
        BY <1>m
      <3>2. QED
        BY <3>1, Zenon
    <2>2. QED
      BY <2>1, <2>3, FS_Subset DEF FiniteSubsetsOf
  <1>3. T \subseteq FiniteSubsetsOf(S) /\ T # {}
    <2>1. m \in {j \in K : j <= m}
      BY <1>m
    <2>2. Below(m) \in T
      BY <2>1
    <2> HIDE DEF Below, S
    <2>3. QED
      BY <2>2, <1>2
  <1>4. PICK U \in T : \A V \in T : ~(<<V, U>> \in StrictSubsetOrdering(S))
    <2> HIDE DEF T, S
    <2>1. IsWellFoundedOn(StrictSubsetOrdering(S), FiniteSubsetsOf(S))
      BY FS_StrictSubsetOrderingWellFounded
    <2>2. QED
      BY <2>1, <1>3, WFMin
  <1>5. PICK k \in K : k <= m /\ U = Below(k)
    OBVIOUS
  <1>6. ASSUME NEW j \in K, j < k
        PROVE  FALSE
    <2>1. Below(j) \in T
      BY <1>6, <1>5
    <2>2. Below(j) \subseteq Below(k) /\ Below(j) # Below(k)
      <3>1. \A i \in K : i <= j => i <= k
        BY <1>6, <1>m
      <3>2. k \in Below(k) /\ k \notin Below(j)
        BY <1>6, <1>m
      <3>3. QED
        BY <3>1, <3>2
    <2>3. Below(j) \in SUBSET S /\ Below(k) \in SUBSET S
      <3>1. \A i \in Nat : i <= j => i \in S
        BY <1>5, <1>6, <1>m
      <3>2. \A i \in Nat : i <= k => i \in S
        BY <1>5, <1>m
      <3>3. QED
        BY <3>1, <3>2, <1>m
    <2>4. <<Below(j), Below(k)>> \in StrictSubsetOrdering(S)
      BY <2>2, <2>3 DEF StrictSubsetOrdering
    <2>5. QED
      BY <2>1, <2>4, <1>4, <1>5
  <1>7. QED
    BY <1>6

(* Finitely many numbers have a bound. *)
LEMMA Bounded ==
  ASSUME NEW n \in Nat, NEW f \in [0 .. n - 1 -> Nat]
  PROVE  \E b \in Nat : \A k \in 0 .. n - 1 : f[k] <= b
  <1> DEFINE Bound(m) == \E b \in Nat : \A k \in 0 .. m - 1 : f[k] <= b
             Bad == {m \in 0 .. n : ~Bound(m)}
  <1>1. Bound(0)
    OBVIOUS
  <1>2. ASSUME NEW m \in 0 .. n - 1, Bound(m)
        PROVE  Bound(m + 1)
    <2>1. PICK b \in Nat : \A k \in 0 .. m - 1 : f[k] <= b
      BY <1>2
    <2> DEFINE c == IF b < f[m] THEN f[m] ELSE b
    <2>2. c \in Nat /\ \A k \in 0 .. m : f[k] <= c
      BY <2>1
    <2>3. QED
      BY <2>2
  <1> HIDE DEF Bound
  <1>3. Bad = {}
    <2>1. SUFFICES ASSUME Bad # {} PROVE FALSE
      OBVIOUS
    <2>2. PICK m \in Bad : \A j \in Bad : m <= j
      <3>1. Bad \in SUBSET Nat
        OBVIOUS
      <3> HIDE DEF Bad
      <3>2. QED
        BY <2>1, <3>1, LeastNatural
    <2>3. m # 0 /\ m - 1 \in 0 .. n - 1 /\ m - 1 \notin Bad
      BY <2>2, <1>1
    <2>4. QED
      BY <2>2, <2>3, <1>2
  <1>4. Bound(n)
    BY <1>3
  <1>5. QED
    BY <1>4 DEF Bound

(* What is said of m, and of each number if it is of the next one, is said *)
(* of all of them down to k.                                               *)
LEMMA Downward ==
  ASSUME NEW K, NEW k \in Nat, NEW m \in Nat, k <= m, m \in K,
         \A i \in Nat : k <= i /\ i < m /\ i + 1 \in K => i \in K
  PROVE  \A i \in k .. m : i \in K
  <1> DEFINE W == {n \in Nat : k <= m - n /\ n <= m /\ m - n \notin K}
  <1>1. W = {}
    <2>1. SUFFICES ASSUME W # {} PROVE FALSE
      OBVIOUS
    <2>2. W \in SUBSET Nat
      OBVIOUS
    <2>3. PICK n \in W : \A w \in W : n <= w
      <3> HIDE DEF W
      <3>1. QED
        BY <2>1, <2>2, LeastNatural
    <2>4. n \in Nat /\ k <= m - n /\ n <= m /\ m - n \notin K
      BY <2>3
    <2>5. n # 0
      BY <2>4
    <2>6. n - 1 \in Nat /\ k <= m - (n - 1) /\ n - 1 <= m /\ ~(n <= n - 1)
      BY <2>4, <2>5
    <2>7. m - (n - 1) \in K
      BY <2>3, <2>6
    <2>8. m - n \in Nat /\ m - n < m /\ m - (n - 1) = (m - n) + 1
      BY <2>4, <2>5
    <2>9. QED
      BY <2>4, <2>7, <2>8
  <1>2. SUFFICES ASSUME NEW i \in k .. m PROVE i \in K
    OBVIOUS
  <1>3. i \in Nat /\ m - i \in Nat /\ m - (m - i) = i /\ m - i <= m /\ k <= i
    OBVIOUS
  <1>4. m - i \notin W
    BY <1>1
  <1>5. QED
    BY <1>3, <1>4

(***************************************************************************)
(* A function on D is to be what B says at T and, elsewhere, what C makes  *)
(* of what it is at one other place, N, of a smaller measure, M.           *)
(***************************************************************************)
Linear(D, V, M, N, T, B, C) ==
  /\ M \in [D -> Nat] /\ N \in [D -> D] /\ T \in SUBSET D
  /\ B \in [D -> V] /\ C \in [D -> [V -> V]]
  /\ \A d \in D \ T : M[N[d]] < M[d]

(* There is one. *)
LEMMA LinearRecursion ==
  ASSUME NEW D, NEW V, NEW M, NEW N, NEW T, NEW B, NEW C, Linear(D, V, M, N, T, B, C)
  PROVE  \E f \in [D -> V] :
           \A d \in D : f[d] = IF d \in T THEN B[d] ELSE C[d][f[N[d]]]
  <1>0. /\ M \in [D -> Nat] /\ N \in [D -> D] /\ T \in SUBSET D
        /\ B \in [D -> V] /\ C \in [D -> [V -> V]]
        /\ \A d \in D \ T : M[N[d]] < M[d]
    BY DEF Linear
  <1> USE <1>0
  <1> DEFINE By(g, d) == IF d \in T THEN B[d] ELSE C[d][g[N[d]]]
             Upto(n, g) == g \in [D -> V] /\ \A d \in D : M[d] < n => g[d] = By(g, d)
             Bad == {n \in Nat : ~\E g : Upto(n, g)}
  <1>1. Upto(0, B)
    OBVIOUS
  <1>2. ASSUME NEW n \in Nat, NEW g, Upto(n, g)
        PROVE  \E h : Upto(n + 1, h)
    <2> DEFINE h == [d \in D |-> By(g, d)]
    <2>1. h \in [D -> V]
      BY <1>2
    <2>2. ASSUME NEW d \in D, M[d] < n + 1
          PROVE  h[d] = By(h, d)
      <3>1. CASE d \in T
        BY <3>1
      <3>2. CASE d \notin T
        <4>1. N[d] \in D /\ M[N[d]] < n
          BY <3>2, <2>2
        <4>2. h[N[d]] = g[N[d]]
          BY <4>1, <1>2
        <4>3. QED
          BY <4>2, <3>2
      <3>3. QED
        BY <3>1, <3>2
    <2>3. QED
      BY <2>1, <2>2
  <1>3. \A n \in Nat : \E g : Upto(n, g)
    <2> HIDE DEF Upto
    <2>1. SUFFICES ASSUME Bad # {} PROVE FALSE
      OBVIOUS
    <2>2. PICK m \in Bad : \A j \in Bad : m <= j
      BY <2>1, LeastNatural
    <2>3. m # 0 /\ m - 1 \in Nat /\ m - 1 \notin Bad
      <3>1. m # 0
        BY <1>1
      <3>2. m - 1 \in Nat /\ m - 1 < m
        BY <3>1
      <3>3. ~(m <= m - 1)
        BY <3>2
      <3>4. QED
        BY <2>2, <3>1, <3>2, <3>3
    <2>4. PICK g : Upto(m - 1, g)
      BY <2>3
    <2>5. \E h : Upto((m - 1) + 1, h)
      BY <2>3, <2>4, <1>2
    <2>6. (m - 1) + 1 = m
      BY <2>2
    <2>7. QED
      BY <2>2, <2>5, <2>6
  <1>4. ASSUME NEW g, NEW h, NEW n \in Nat, NEW m \in Nat, Upto(n, g), Upto(m, h)
        PROVE  \A d \in D : M[d] < n /\ M[d] < m => g[d] = h[d]
    <2> DEFINE Apart == {d \in D : M[d] < n /\ M[d] < m /\ g[d] # h[d]}
               K == {M[d] : d \in Apart}
    <2>1. SUFFICES ASSUME Apart # {} PROVE FALSE
      OBVIOUS
    <2>2. K \in SUBSET Nat /\ K # {}
      BY <2>1
    <2>3. PICK k \in K : \A j \in K : k <= j
      BY <2>2, LeastNatural
    <2>4. PICK d \in Apart : M[d] = k
      OBVIOUS
    <2>5. g[d] = By(g, d) /\ h[d] = By(h, d)
      BY <1>4
    <2>6. d \notin T
      BY <2>5
    <2>7. N[d] \in D /\ M[N[d]] < M[d]
      BY <2>6
    <2>8. N[d] \notin Apart
      <3>1. N[d] \in Apart => M[N[d]] \in K
        OBVIOUS
      <3>2. M[N[d]] \in Nat /\ M[d] \in Nat
        BY <2>7
      <3> HIDE DEF Apart, K
      <3>3. QED
        BY <3>1, <3>2, <2>7, <2>4, <2>3
    <2>9. g[N[d]] = h[N[d]]
      BY <2>7, <2>8
    <2>10. QED
      BY <2>5, <2>9
  <1> DEFINE G(n) == CHOOSE g : Upto(n, g)
             f == [d \in D |-> G(M[d] + 1)[d]]
  <1>5. \A n \in Nat : Upto(n, G(n))
    <2> HIDE DEF Upto
    <2>1. QED
      BY <1>3, Zenon
  <1>6. f \in [D -> V]
    <2>1. ASSUME NEW d \in D
          PROVE  G(M[d] + 1)[d] \in V
      <3>1. M[d] + 1 \in Nat
        OBVIOUS
      <3>2. G(M[d] + 1) \in [D -> V]
        <4>1. Upto(M[d] + 1, G(M[d] + 1))
          BY <3>1, <1>5
        <4> HIDE DEF G
        <4>2. QED
          BY <4>1
      <3> HIDE DEF G
      <3>3. QED
        BY <3>2
    <2> HIDE DEF G
    <2>2. QED
      BY <2>1
  <1>7. ASSUME NEW d \in D
        PROVE  f[d] = By(f, d)
    <2>1. f[d] = By(G(M[d] + 1), d)
      <3>1. M[d] + 1 \in Nat /\ M[d] < M[d] + 1
        OBVIOUS
      <3>2. Upto(M[d] + 1, G(M[d] + 1))
        BY <3>1, <1>5
      <3> HIDE DEF G
      <3>3. QED
        BY <3>1, <3>2
    <2>2. CASE d \in T
      BY <2>1, <2>2
    <2>3. CASE d \notin T
      <3>1. N[d] \in D /\ M[N[d]] < M[d] /\ M[N[d]] \in Nat /\ M[d] \in Nat
        BY <2>3
      <3> HIDE DEF G, Upto
      <3>2. Upto(M[d] + 1, G(M[d] + 1)) /\ Upto(M[N[d]] + 1, G(M[N[d]] + 1))
        <4>1. M[d] + 1 \in Nat /\ M[N[d]] + 1 \in Nat
          BY <3>1
        <4>2. QED
          BY <1>5, <4>1
      <3>3. G(M[d] + 1)[N[d]] = G(M[N[d]] + 1)[N[d]]
        BY <3>1, <3>2, <1>4
      <3>4. QED
        BY <3>1, <3>3, <2>1, <2>3
    <2>4. QED
      BY <2>2, <2>3
  <1>8. QED
    BY <1>6, <1>7

------------------------------------------------------------------------------
(* The first of some numbers is one of them. *)
LEMMA FirstIsOne ==
  ASSUME NEW K \in SUBSET Nat, K # {}
  PROVE  FirstOf(K) \in K
  <1>1. \E k \in K : \A j \in K : k <= j
    BY LeastNatural
  <1>2. QED
    BY <1>1 DEF FirstOf

(* What the assumptions say of the caller there is. *)
LEMMA TheCaller ==
  ASSUME who \in DOMAIN Callers
  PROVE  /\ IsCaller(Callers[who])
         /\ LongOptions \in Seq({LongOptions[k] : k \in DOMAIN LongOptions})
         /\ \A k \in DOMAIN LongOptions :
              LongOptions[k].has_arg \in HasArg /\ LongOptions[k].val # "-1"
  BY GetoptConstants DEF IsCaller, IsText, LongOptions

(* A long option that is found is one of the table. *)
LEMMA FoundIsThere ==
  ASSUME who \in DOMAIN Callers, NEW s, Candidates(s) # {}
  PROVE  Found(s) \in DOMAIN LongOptions
  <1>1. DOMAIN LongOptions \subseteq Nat
    BY TheCaller
  <1>2. Candidates(s) \subseteq DOMAIN LongOptions /\ Exact(s) \subseteq Candidates(s)
    BY DEF Candidates, Exact
  <1> DEFINE K == IF Exact(s) # {} THEN Exact(s) ELSE Candidates(s)
  <1>3. K \in SUBSET Nat /\ K # {} /\ K \subseteq DOMAIN LongOptions
    BY <1>1, <1>2
  <1> HIDE DEF K
  <1>4. FirstOf(K) \in K
    BY <1>3, FirstIsOne
  <1>5. QED
    BY <1>3, <1>4 DEF Found, K

(***************************************************************************)
(* What may be said of every finding: it moves on, in the element or past  *)
(* it; but for -W it takes an element more only if there is one; and no    *)
(* option is -1.                                                           *)
(***************************************************************************)
More(os)  == IF Has(os, ";") THEN 1 ELSE 0
Fits(f, os, a, j, behind) ==
  /\ f.past \in 0 .. 3 /\ f.place \in Nat
  /\ f.long \in 0 .. Len(LongOptions) /\ f.opt # "-1"
  /\ f.past = 0 => f.place = j + 1 /\ j # Len(a)
  /\ f.past # 0 => f.place = 0
  /\ f.past <= Len(behind) + 1 + More(os)

(* A long option that is found in the table, whose val is no -1. *)
LEMMA FoundLongFits ==
  ASSUME who \in DOMAIN Callers, NEW s, Candidates(s) # {}, NEW arg, NEW n \in 1 .. 3,
         NEW os, NEW a, NEW j \in Nat, NEW behind, n <= Len(behind) + 1 + More(os)
  PROVE  Fits(FoundLong(Found(s), arg, n), os, a, j, behind)
  <1>1. Found(s) \in DOMAIN LongOptions /\ Found(s) \in 0 .. Len(LongOptions)
    BY FoundIsThere, TheCaller
  <1>2. LongOptions[Found(s)].val # "-1"
    BY <1>1, TheCaller
  <1>3. ASSUME NEW f, f.opt # "-1", f.past = n, f.place = 0, f.long = Found(s)
        PROVE  Fits(f, os, a, j, behind)
    <2>1. f.past \in 0 .. 3 /\ f.past # 0 /\ f.past <= Len(behind) + 1 + More(os)
      BY <1>3
    <2>2. f.place \in Nat
      BY <1>3
    <2>3. QED
      BY <1>1, <1>3, <2>1, <2>2, Zenon DEF Fits
  <1>4. FoundLong(Found(s), arg, n).opt # "-1"
    BY <1>2 DEF Finding, FoundLong
  <1>5. /\ FoundLong(Found(s), arg, n).past = n /\ FoundLong(Found(s), arg, n).place = 0
        /\ FoundLong(Found(s), arg, n).long = Found(s)
    BY DEF Finding, FoundLong
  <1>6. QED
    BY <1>3, <1>4, <1>5, Zenon

(* Any other finding of a long option, or of an argument. *)
LEMMA FindingFits ==
  ASSUME who \in DOMAIN Callers, NEW o, o # "-1", NEW arg, NEW n \in 1 .. 3,
         NEW os, NEW a, NEW j \in Nat, NEW behind, n <= Len(behind) + 1 + More(os)
  PROVE  /\ Fits(Finding(o, arg, n), os, a, j, behind)
         /\ \A c : Fits(Refused(o, arg, n, c), os, a, j, behind)
  <1>1. 0 \in 0 .. Len(LongOptions)
    BY TheCaller
  <1>2. ASSUME NEW f, f.opt = o, f.past = n, f.place = 0, f.long = 0
        PROVE  Fits(f, os, a, j, behind)
    <2>1. f.past \in 0 .. 3 /\ f.past # 0 /\ f.past <= Len(behind) + 1 + More(os)
      BY <1>2
    <2>2. f.place \in Nat
      BY <1>2
    <2>3. QED
      BY <1>1, <1>2, <2>1, <2>2, Zenon DEF Fits
  <1>3. Fits(Finding(o, arg, n), os, a, j, behind)
    <2>1. /\ Finding(o, arg, n).opt = o /\ Finding(o, arg, n).past = n
          /\ Finding(o, arg, n).place = 0 /\ Finding(o, arg, n).long = 0
      BY DEF Finding
    <2>2. QED
      BY <1>2, <2>1, Zenon
  <1>4. ASSUME NEW c
        PROVE  Fits(Refused(o, arg, n, c), os, a, j, behind)
    <2>1. /\ Refused(o, arg, n, c).opt = o /\ Refused(o, arg, n, c).past = n
          /\ Refused(o, arg, n, c).place = 0 /\ Refused(o, arg, n, c).long = 0
      BY DEF Finding, Refused
    <2>2. QED
      BY <1>2, <2>1, Zenon
  <1>5. QED
    BY <1>3, <1>4

(* A long option. *)
LEMMA LongFits ==
  ASSUME who \in DOMAIN Callers, NEW os, NEW a, NEW j \in Nat, NEW behind,
         Len(behind) \in Nat, behind # << >> => Len(behind) >= 1
  PROVE  Fits(LongAt(os, a, j, behind), os, a, j, behind)
  <1> DEFINE s == From(a, j)
             p == LongOptions[Found(s)]
  <1>0. More(os) \in 0 .. 1
    BY DEF More
  <1>1. /\ 1 \in 1 .. 3 /\ 1 <= Len(behind) + 1 + More(os) /\ 2 \in 1 .. 3
        /\ behind # << >> => 2 <= Len(behind) + 1 + More(os)
    BY <1>0
  <1>2. CASE Candidates(s) = {} \/ Ambiguous(s, Function = "getopt_long_only")
    <2>1. LongAt(os, a, j, behind) = Refused("?", << >>, 1, "")
      BY <1>2 DEF LongAt
    <2>2. QED
      BY <2>1, <1>1, FindingFits, Zenon
  <1>3. CASE ~(Candidates(s) = {} \/ Ambiguous(s, Function = "getopt_long_only"))
    <2>1. Candidates(s) # {}
      BY <1>3
    <2>2. CASE HasValue(s)
      <3>1. LongAt(os, a, j, behind) = IF p.has_arg = "no" THEN Refused("?", << >>, 1, p.val)
                                       ELSE FoundLong(Found(s), <<Value(s)>>, 1)
        BY <1>3, <2>2 DEF LongAt
      <3> HIDE DEF s, p
      <3>2. QED
        BY <3>1, <2>1, <1>1, FindingFits, FoundLongFits, Zenon
    <2>3. CASE ~HasValue(s)
      <3>1. LongAt(os, a, j, behind)
              = IF p.has_arg # "required" THEN FoundLong(Found(s), << >>, 1)
                ELSE IF behind = << >> THEN Refused(Missing(os), << >>, 1, p.val)
                ELSE FoundLong(Found(s), <<behind[1]>>, 2)
        BY <1>3, <2>3 DEF LongAt
      <3>2. Missing(os) # "-1"
        BY DEF Missing
      <3> HIDE DEF s, p
      <3>3. QED
        BY <3>1, <3>2, <2>1, <1>1, FindingFits, FoundLongFits, Zenon
    <2>4. QED
      BY <2>2, <2>3
  <1>4. QED
    BY <1>2, <1>3

(* A letter of a cluster. *)
LEMMA ShortFits ==
  ASSUME who \in DOMAIN Callers, NEW os, NEW a, NEW j \in Nat, NEW behind,
         Len(behind) \in Nat, behind # << >> => Len(behind) >= 1,
         \A k \in DOMAIN os : os[k] # "-1", Kind(os, a[j]) # "W"
  PROVE  Fits(ShortAt(os, a, j, behind), os, a, j, behind)
  <1> DEFINE c == a[j]
             last == j = Len(a)
             plain(o) == [Finding(o, << >>, IF last THEN 1 ELSE 0)
                            EXCEPT !.place = IF last THEN 0 ELSE j + 1]
             wrong(u) == [plain("?") EXCEPT !.unknown = u]
  <1>0. More(os) \in 0 .. 1 /\ 0 \in 0 .. Len(LongOptions)
    BY TheCaller DEF More
  <1>1. /\ 1 \in 1 .. 3 /\ 1 <= Len(behind) + 1 + More(os) /\ 2 \in 1 .. 3
        /\ behind # << >> => 2 <= Len(behind) + 1 + More(os)
    BY <1>0
  <1>2. /\ \A o : o # "-1" => Fits(plain(o), os, a, j, behind)
        /\ \A u : Fits(wrong(u), os, a, j, behind)
    BY <1>0 DEF Fits, Finding
  <1>3. Kind(os, c) \in {"unknown", "no", "required", "optional"}
    BY DEF Kind
  <1>4. Kind(os, c) # "unknown" => c # "-1"
    BY DEF Kind, Has
  <1>5. Missing(os) # "-1"
    BY DEF Missing
  <1>6. CASE Kind(os, c) = "unknown"
    <2>1. ShortAt(os, a, j, behind) = wrong(<<c>>)
      BY <1>6 DEF ShortAt
    <2> HIDE DEF wrong
    <2>2. QED
      BY <2>1, <1>2, Zenon
  <1>7. CASE Kind(os, c) = "no"
    <2>1. ShortAt(os, a, j, behind) = plain(c)
      BY <1>7 DEF ShortAt
    <2>2. c # "-1"
      BY <1>4, <1>7
    <2> HIDE DEF plain, c
    <2>3. QED
      BY <2>1, <2>2, <1>2
  <1>8. CASE Kind(os, c) \in {"required", "optional"}
    <2>1. ShortAt(os, a, j, behind)
            = IF ~last THEN Finding(c, <<From(a, j + 1)>>, 1)
              ELSE IF Kind(os, c) = "optional" THEN Finding(c, << >>, 1)
              ELSE IF behind = << >> THEN Refused(Missing(os), << >>, 1, c)
              ELSE Finding(c, <<behind[1]>>, 2)
      BY <1>8 DEF ShortAt
    <2>2. c # "-1"
      BY <1>4, <1>8
    <2> HIDE DEF c, last
    <2>3. QED
      BY <2>1, <2>2, <1>1, <1>5, FindingFits, Zenon
  <1>9. QED
    BY <1>3, <1>6, <1>7, <1>8

(* -W, which only an optstring with a ";" knows. *)
LEMMA WFits ==
  ASSUME who \in DOMAIN Callers, NEW os, NEW a, NEW j \in Nat, NEW behind,
         Len(behind) \in Nat, behind # << >> => Len(behind) >= 1,
         Kind(os, a[j]) = "W"
  PROVE  Fits(WAt(os, a, j, behind), os, a, j, behind)
  <1> DEFINE last == j = Len(a)
             s == IF last THEN behind[1] ELSE From(a, j + 1)
             n == IF last THEN 2 ELSE 1
             p == LongOptions[Found(s)]
  <1>1. More(os) = 1
    <2>1. \E k \in DOMAIN os : os[k] = ";"
      BY DEF Kind, At
    <2>2. QED
      BY <2>1 DEF More, Has
  <1>2. Missing(os) # "-1"
    BY DEF Missing
  <1>3. CASE last /\ behind = << >>
    <2>1. WAt(os, a, j, behind) = Refused(Missing(os), << >>, 1, "W")
      BY <1>3 DEF WAt
    <2>2. 1 \in 1 .. 3 /\ 1 <= Len(behind) + 1 + More(os)
      BY <1>1
    <2>3. QED
      BY <2>1, <2>2, <1>2, FindingFits, Zenon
  <1>4. CASE ~(last /\ behind = << >>)
    <2>1. n \in 1 .. 2 /\ n <= Len(behind) + 1
      BY <1>4
    <2>2. WAt(os, a, j, behind)
            = IF Candidates(s) = {} THEN Finding("W", <<s>>, n)
              ELSE IF Ambiguous(s, TRUE) THEN Finding("?", <<s>>, n + 1)
              ELSE IF HasValue(s)
                THEN IF p.has_arg = "no" THEN Finding("?", <<s>>, n)
                     ELSE FoundLong(Found(s), <<Value(s)>>, n)
              ELSE IF p.has_arg # "required" THEN FoundLong(Found(s), <<s>>, n)
              ELSE IF Len(behind) < n THEN Finding(Missing(os), <<s>>, n)
              ELSE FoundLong(Found(s), <<behind[n]>>, n + 1)
      BY <1>4 DEF WAt
    <2> HIDE DEF s, n, p, last
    <2>3. n \in 1 .. 3 /\ n + 1 \in 1 .. 3
      BY <2>1
    <2>4. n <= Len(behind) + 1 + More(os) /\ n + 1 <= Len(behind) + 1 + More(os)
      BY <2>1, <1>1
    <2>5. \A o, arg : o # "-1" =>
            /\ Fits(Finding(o, arg, n), os, a, j, behind)
            /\ Fits(Finding(o, arg, n + 1), os, a, j, behind)
      BY <2>3, <2>4, FindingFits
    <2>6. Candidates(s) # {} => \A arg :
            /\ Fits(FoundLong(Found(s), arg, n), os, a, j, behind)
            /\ Fits(FoundLong(Found(s), arg, n + 1), os, a, j, behind)
      BY <2>3, <2>4, FoundLongFits
    <2>7. QED
      BY <2>2, <2>5, <2>6, <1>2
  <1>5. QED
    BY <1>3, <1>4

(* So does whatever a call finds. *)
LEMMA OptionFits ==
  ASSUME who \in DOMAIN Callers, NEW os, NEW a, NEW j \in Nat, NEW behind,
         Len(behind) \in Nat, behind # << >> => Len(behind) >= 1,
         \A k \in DOMAIN os : os[k] # "-1"
  PROVE  Fits(OptionAt(os, a, j, behind), os, a, j, behind)
  <1>1. CASE IsLong(os, a, j)
    BY <1>1, LongFits DEF OptionAt
  <1>2. CASE ~IsLong(os, a, j) /\ Kind(os, a[j]) = "W"
    BY <1>2, WFits DEF OptionAt
  <1>3. CASE ~IsLong(os, a, j) /\ Kind(os, a[j]) # "W"
    BY <1>3, ShortFits DEF OptionAt
  <1>4. QED
    BY <1>1, <1>2, <1>3

------------------------------------------------------------------------------
(***************************************************************************)
(* The inductive invariant, first of where the call is.  Line: the vectors *)
(* and the caller.  Scanned: the records of the scan; behind the part that *)
(* was permuted, and in front of where the scan began, argv is as it was.  *)
(* Staged: what holds at each stage of a call.                             *)
(***************************************************************************)
Over == pc = "returned" /\ opt = "-1"

Line ==
  /\ who \in DOMAIN Callers /\ argc \in 0 .. MaxArgc /\ FirstArg <= argc
  /\ IsVector(argv, argc) /\ IsVector(start, argc)
  /\ \A k \in 0 .. argc - 1 : IsText(argv[k]) /\ IsText(start[k])

Scanned ==
  /\ optind \in Nat /\ first_nonopt \in Nat /\ last_nonopt \in Nat /\ nextchar \in Nat
  /\ longind \in 0 .. Len(LongOptions) /\ IsText(seen)
  /\ ordering \in {"PERMUTE", "REQUIRE_ORDER", "RETURN_IN_ORDER"}
  /\ initialized =>
       /\ optstring \in {OptstringOf(who, TRUE), OptstringOf(who, FALSE)}
       /\ FirstArg <= first_nonopt /\ first_nonopt <= last_nonopt
       /\ last_nonopt <= argc /\ FirstArg <= optind
       /\ optind <= argc + More(optstring)
       /\ \A k \in 0 .. argc - 1 : k < FirstArg \/ k >= last_nonopt => argv[k] = start[k]

Staged ==
  /\ pc \in {"call", "skip", "element", "decode", "returned", "fault"}
  /\ initialized \in BOOLEAN /\ (pc # "call" => initialized)
  /\ ~initialized =>
       seen = << >> /\ nextchar = 0 /\ argv = start /\ optind = Callers[who].optind
  /\ initialized /\ ~Over =>
       /\ last_nonopt <= optind
       /\ ordering # "PERMUTE" => first_nonopt = last_nonopt \/ last_nonopt = argc
  /\ (pc = "call" /\ initialized) \/ (pc = "returned" /\ opt # "-1") => seen # << >>
  /\ pc \in {"skip", "element", "decode"} => optstring = OptstringOf(who, seen = << >>)
  /\ pc \in {"skip", "element"} => nextchar = 0
  /\ pc = "decode" \/ nextchar # 0 =>
       optind < argc /\ nextchar \in 2 .. Len(argv[optind])
  /\ pc = "element" =>
       /\ optind <= argc /\ (last_nonopt = optind \/ first_nonopt = last_nonopt)
       /\ ordering = "PERMUTE" =>
            /\ last_nonopt = optind
            /\ optind < argc => ~Nonoption(argv[optind])

PlaceInv == Line /\ Scanned /\ Staged

(* What a rotation does to each element. *)
LEMMA RotatedIs ==
  ASSUME NEW n \in Nat, NEW a, IsVector(a, n),
         NEW b \in Nat, NEW m \in Nat, NEW t \in Nat, b <= m, m <= t, t <= n
  PROVE  /\ IsVector(Rotated(a, b, m, t), n)
         /\ \A k \in 0 .. n - 1 :
              /\ k < b \/ k >= t => Rotated(a, b, m, t)[k] = a[k]
              /\ b <= k /\ k < b + (t - m) => Rotated(a, b, m, t)[k] = a[k + (m - b)]
              /\ b + (t - m) <= k /\ k < t => Rotated(a, b, m, t)[k] = a[k - (t - m)]
  <1>1. DOMAIN a = 0 .. n - 1
    BY DEF IsVector
  <1>2. QED
    BY <1>1 DEF Rotated, IsVector

(* Rotated texts are texts. *)
LEMMA RotatedTexts ==
  ASSUME NEW n \in Nat, NEW a, IsVector(a, n), \A k \in 0 .. n - 1 : IsText(a[k]),
         NEW b \in Nat, NEW m \in Nat, NEW t \in Nat, b <= m, m <= t, t <= n
  PROVE  \A k \in 0 .. n - 1 : IsText(Rotated(a, b, m, t)[k])
  <1> SUFFICES ASSUME NEW k \in 0 .. n - 1
               PROVE  \E j \in 0 .. n - 1 : Rotated(a, b, m, t)[k] = a[j]
    OBVIOUS
  <1> DEFINE r == Rotated(a, b, m, t)
  <1>1. CASE k < b \/ k >= t
    BY <1>1, RotatedIs
  <1>2. CASE b <= k /\ k < b + (t - m)
    <2>1. r[k] = a[k + (m - b)] /\ k + (m - b) \in 0 .. n - 1
      BY <1>2, RotatedIs
    <2>2. QED
      BY <2>1
  <1>3. CASE b + (t - m) <= k /\ k < t
    <2>1. r[k] = a[k - (t - m)] /\ k - (t - m) \in 0 .. n - 1
      BY <1>3, RotatedIs
    <2>2. QED
      BY <2>1
  <1>4. QED
    BY <1>1, <1>2, <1>3

(* Both readings of optstring are texts without a -1, and agree on ";".    *)
LEMMA OptstringIs ==
  ASSUME who \in DOMAIN Callers, NEW first \in BOOLEAN
  PROVE  /\ \A k \in DOMAIN OptstringOf(who, first) : OptstringOf(who, first)[k] # "-1"
         /\ More(OptstringOf(who, first)) = More(Callers[who].optstring)
  <1> DEFINE s == Callers[who].optstring
  <1>1. /\ s \in Seq({s[k] : k \in DOMAIN s}) /\ \A k \in DOMAIN s : s[k] # "-1"
    BY GetoptConstants DEF IsCaller, IsText
  <1>2. CASE first /\ At(s, 1) \in {"-", "+"}
    <2>1. 1 \in DOMAIN s /\ s[1] \in {"-", "+"} /\ OptstringOf(who, first) = Tail(s)
      BY <1>2 DEF At, OptstringOf
    <2> HIDE DEF s
    <2>2. /\ DOMAIN Tail(s) = 1 .. Len(s) - 1
          /\ \A k \in 1 .. Len(s) - 1 : Tail(s)[k] = s[k + 1] /\ k + 1 \in DOMAIN s
      BY <1>1, <2>1
    <2>3. \A k \in DOMAIN s : s[k] = ";" => k - 1 \in 1 .. Len(s) - 1 /\ Tail(s)[k - 1] = ";"
      <3>1. SUFFICES ASSUME NEW k \in DOMAIN s, s[k] = ";"
                     PROVE  k - 1 \in 1 .. Len(s) - 1 /\ Tail(s)[k - 1] = ";"
        OBVIOUS
      <3>2. k \in 1 .. Len(s) /\ k # 1
        <4>1. DOMAIN s = 1 .. Len(s)
          BY <1>1
        <4>2. s[k] \notin {"-", "+"}
          BY <3>1
        <4>3. k # 1
          BY <2>1, <4>2
        <4>4. QED
          BY <3>1, <4>1, <4>3
      <3>3. k - 1 \in 1 .. Len(s) - 1 /\ (k - 1) + 1 = k
        BY <3>2, <1>1
      <3>4. QED
        BY <3>1, <3>3, <2>2
    <2>4. Has(Tail(s), ";") <=> Has(s, ";")
      BY <2>2, <2>3 DEF Has
    <2>5. \A k \in DOMAIN Tail(s) : Tail(s)[k] # "-1"
      BY <2>2, <1>1
    <2>6. QED
      BY <2>1, <2>4, <2>5 DEF More, s
  <1>3. CASE ~(first /\ At(s, 1) \in {"-", "+"})
    <2>1. OptstringOf(who, first) = s
      BY <1>3 DEF OptstringOf
    <2>2. QED
      BY <2>1, <1>1
  <1>4. QED
    BY <1>2, <1>3


(* The bound is a number. *)
LEMMA Bound == MaxArgc \in Nat
  BY GetoptConstants

(* The scan begins with nothing done. *)
LEMMA PlaceInitially == GetoptInit => PlaceInv
  <1> SUFFICES ASSUME GetoptInit PROVE PlaceInv
    OBVIOUS
  <1>1. PICK n \in 0 .. MaxArgc : IsVector(argv, n) /\ \A k \in 0 .. n - 1 : IsText(argv[k])
    BY GetoptConstants DEF GetoptInit
  <1>2. PICK m \in 0 .. MaxArgc : argc = m /\ DOMAIN argv = 0 .. m - 1
    BY DEF GetoptInit, GetoptStatics
  <1>0. who \in DOMAIN Callers /\ start = argv /\ FirstArg <= argc
    BY DEF GetoptInit, GetoptStatics
  <1>3. m = n
    <2>1. DOMAIN argv = 0 .. n - 1
      BY <1>1 DEF IsVector
    <2>2. n \in Nat /\ m \in Nat
      BY Bound, SMT
    <2>3. 0 .. n - 1 = 0 .. m - 1
      BY <1>2, <2>1
    <2>4. CASE n < m
      <3>1. n \in 0 .. m - 1 /\ n \notin 0 .. n - 1
        BY <2>2, <2>4
      <3>2. QED
        BY <3>1, <2>3
    <2>5. CASE m < n
      <3>1. m \in 0 .. n - 1 /\ m \notin 0 .. m - 1
        BY <2>2, <2>5
      <3>2. QED
        BY <3>1, <2>3
    <2>6. QED
      BY <2>2, <2>4, <2>5
  <1>4. Callers[who].optind \in Nat
    BY <1>0, GetoptConstants DEF IsCaller
  <1>5. Line
    BY <1>0, <1>1, <1>2, <1>3 DEF Line
  <1>6. Scanned
    <2>1. 0 \in 0 .. Len(LongOptions)
      BY <1>0, TheCaller
    <2>2. IsText(<< >>)
      BY EmptySeq DEF IsText
    <2>3. QED
      BY <1>4, <2>1, <2>2 DEF Scanned, GetoptInit, GetoptStatics
  <1>7. Staged
    BY DEF Staged, Over, GetoptInit, GetoptStatics
  <1>8. QED
    BY <1>5, <1>6, <1>7 DEF PlaceInv

(* The numbers of the caller. *)
LEMMA TheNumbers ==
  ASSUME Line
  PROVE  /\ FirstArg \in Nat /\ argc \in Nat /\ FirstArg <= argc
         /\ \A first \in BOOLEAN :
              More(OptstringOf(who, first)) = More(Callers[who].optstring)
         /\ More(Callers[who].optstring) \in 0 .. 1
  <1>1. who \in DOMAIN Callers /\ argc \in 0 .. MaxArgc /\ FirstArg <= argc
    BY DEF Line
  <1>2. FirstArg \in Nat
    BY <1>1, GetoptConstants DEF FirstArg, IsCaller
  <1>3. argc \in Nat
    BY <1>1, Bound
  <1>4. \A first \in BOOLEAN : More(OptstringOf(who, first)) = More(Callers[who].optstring)
    BY <1>1, OptstringIs, Zenon
  <1>5. More(Callers[who].optstring) \in 0 .. 1
    BY DEF More
  <1>6. QED
    BY <1>1, <1>2, <1>3, <1>4, <1>5

(* They do not change with the caller. *)
LEMMA SameCaller ==
  ASSUME who' = who
  PROVE  FirstArg' = FirstArg /\ LongOptions' = LongOptions /\ Function' = Function
  BY DEF FirstArg, LongOptions, Function

(* The first call begins at the first argument, the others where the last  *)
(* one ended.                                                              *)
LEMMA CallKeepsPlace == PlaceInv /\ Call => PlaceInv'
  <1> SUFFICES ASSUME PlaceInv, Call PROVE PlaceInv'
    OBVIOUS
  <1> USE DEF PlaceInv
  <1>1. FirstArg' = FirstArg /\ LongOptions' = LongOptions /\ FirstArg \in Nat
    BY GetoptConstants DEF Call, FirstArg, LongOptions, Line, IsCaller
  <1>2. Line'
    BY <1>1 DEF Call, Line
  <1>3. More(OptstringOf(who, TRUE)) = More(OptstringOf(who, FALSE))
        /\ More(OptstringOf(who, TRUE)) \in 0 .. 1
    <2>1. who \in DOMAIN Callers
      BY DEF Line
    <2>2. \A first \in BOOLEAN : More(OptstringOf(who, first)) = More(Callers[who].optstring)
      BY <2>1, OptstringIs, Zenon
    <2>3. More(Callers[who].optstring) \in 0 .. 1
      BY DEF More
    <2>4. QED
      BY <2>2, <2>3
  <1>4. MaxArgc \in Nat /\ argc \in Nat
    BY GetoptConstants DEF Line
  <1>5. CASE initialized
    <2>1. /\ optstring' = OptstringOf(who, FALSE) /\ initialized' = TRUE
          /\ seen # << >> /\ pc = "call" /\ ~Over
          /\ UNCHANGED <<optind, first_nonopt, last_nonopt, nextchar, ordering, who, argc,
                         argv, start, seen, longind>>
          /\ pc' = IF nextchar = 0 THEN "skip" ELSE "decode"
      BY <1>5 DEF Call, Staged, Over
    <2>2. Scanned'
      <3>1. More(optstring') = More(optstring)
        BY <2>1, <1>3, <1>5 DEF Scanned
      <3>2. QED
        BY <2>1, <3>1, <1>1, <1>5 DEF Scanned
    <2>3. Staged'
      BY <2>1, <1>5 DEF Staged, Over
    <2>4. QED
      BY <1>2, <2>2, <2>3
  <1>6. CASE ~initialized
    <2>1. /\ optstring' = OptstringOf(who, TRUE) /\ initialized' = TRUE
          /\ seen = << >> /\ argv = start /\ optind' = FirstArg /\ first_nonopt' = FirstArg
          /\ last_nonopt' = FirstArg /\ nextchar' = 0 /\ pc' = "skip"
          /\ ordering' \in {"PERMUTE", "REQUIRE_ORDER", "RETURN_IN_ORDER"}
          /\ UNCHANGED <<who, argc, argv, start, seen, longind>>
      BY <1>6 DEF Call, Staged, FirstArg, Orderings
    <2> DEFINE more == More(optstring')
    <2>0. more \in 0 .. 1 /\ FirstArg <= argc
      BY <2>1, <1>3, Zenon DEF Line
    <2> HIDE DEF more
    <2>2. FirstArg <= argc /\ argc <= argc + more
      BY <2>0, <1>4
    <2>3. FirstArg <= FirstArg /\ FirstArg <= argc + more
      BY <2>0, <2>2, <1>1, <1>4
    <2> USE DEF more
    <2>4. Scanned'
      BY <2>1, <2>2, <2>3, <1>1 DEF Scanned
    <2>5. Staged'
      BY <2>1, <2>3, <1>1 DEF Staged, Over
    <2>6. QED
      BY <1>2, <2>4, <2>5
  <1>7. QED
    BY <1>5, <1>6 DEF Staged

(* A caller that has an option asks for the next one. *)
LEMMA AgainKeepsPlace == PlaceInv /\ Again => PlaceInv'
  <1> SUFFICES ASSUME PlaceInv, Again PROVE PlaceInv'
    OBVIOUS
  <1> USE DEF PlaceInv, Again, onceVars, scanVars, resultVars
  <1>1. FirstArg' = FirstArg /\ LongOptions' = LongOptions
    BY DEF FirstArg, LongOptions
  <1>2. Line' /\ Scanned'
    BY <1>1 DEF Line, Scanned
  <1>3. Staged'
    BY DEF Staged, Over
  <1>4. QED
    BY <1>2, <1>3

(* Nothing is known of a call that looks behind argv. *)
LEMMA LookBehindKeepsPlace == PlaceInv /\ LookBehind => PlaceInv'
  <1> SUFFICES ASSUME PlaceInv, LookBehind PROVE PlaceInv'
    OBVIOUS
  <1> USE DEF PlaceInv, LookBehind, onceVars, scanVars, resultVars
  <1>1. FirstArg' = FirstArg /\ LongOptions' = LongOptions
    BY DEF FirstArg, LongOptions
  <1>2. Line' /\ Scanned'
    BY <1>1 DEF Line, Scanned
  <1>3. Staged'
    BY DEF Staged, Over
  <1>4. QED
    BY <1>2, <1>3

(* Opening an option, there is at least one letter in it. *)
LEMMA OpenKeepsPlace == PlaceInv /\ OpenOption => PlaceInv'
  <1> SUFFICES ASSUME PlaceInv, OpenOption PROVE PlaceInv'
    OBVIOUS
  <1> USE DEF PlaceInv, OpenOption, onceVars, scanVars, resultVars
  <1>1. FirstArg' = FirstArg /\ LongOptions' = LongOptions
    BY DEF FirstArg, LongOptions
  <1>2. Line'
    BY <1>1 DEF Line
  <1>3. optind \in Nat /\ argc \in Nat /\ optind < argc
    BY GetoptConstants DEF Line, Scanned, Staged
  <1> DEFINE a == argv[optind]
  <1>4. a \in Seq({a[k] : k \in DOMAIN a}) /\ At(a, 1) = "-" /\ Len(a) # 1
        /\ a # <<"-", "-">>
    <2>1. optind \in 0 .. argc - 1
      BY <1>3
    <2>2. IsText(argv[optind])
      BY <2>1 DEF Line
    <2>3. QED
      BY <2>2 DEF IsText, Nonoption, EndsOptions
  <1>5. nextchar' \in 2 .. Len(a)
    <2>3. nextchar' = 2 \/ (nextchar' = 3 /\ a[2] = "-")
      BY DEF Function
    <2> HIDE DEF a, OpenOption, PlaceInv
    <2>1. 1 \in DOMAIN a /\ a[1] = "-"
      BY <1>4 DEF At
    <2>2. Len(a) \in Nat /\ Len(a) >= 2
      <3>1. DOMAIN a = 1 .. Len(a) /\ Len(a) \in Nat
        BY <1>4
      <3>2. QED
        BY <3>1, <2>1, <1>4
    <2>4. ASSUME a[2] = "-", Len(a) = 2
          PROVE  FALSE
      <3>1. a = <<a[1], a[2]>>
        BY <1>4, <2>4
      <3>2. QED
        BY <3>1, <2>1, <2>4, <1>4
    <2>5. nextchar' = 3 => Len(a) # 2
      BY <2>3, <2>4
    <2>6. CASE nextchar' = 2
      BY <2>2, <2>6
    <2>7. CASE nextchar' = 3
      <3>1. Len(a) # 2
        BY <2>5, <2>7
      <3> DEFINE n == Len(a)
      <3>2. n \in Nat /\ n >= 2 /\ n # 2
        BY <2>2, <3>1
      <3> HIDE DEF n
      <3>3. n >= 3
        BY <3>2
      <3>4. nextchar' \in 2 .. n
        BY <2>7, <3>2, <3>3
      <3>5. QED
        BY <3>4 DEF n
    <2>8. QED
      BY <2>3, <2>6, <2>7
  <1>6. nextchar' \in Nat
    BY <1>5
  <1>7. Scanned'
    BY <1>1, <1>6 DEF Scanned
  <1>8. Staged'
    BY <1>3, <1>5 DEF Staged, Over
  <1>9. QED
    BY <1>2, <1>7, <1>8


(* Skipping, the options behind the last skipped part are brought to its   *)
(* front, and the part grows by what is skipped.                           *)
LEMMA SkipKeepsPlace == PlaceInv /\ Skip => PlaceInv'
  <1> SUFFICES ASSUME PlaceInv, Skip PROVE PlaceInv'
    OBVIOUS
  <1>1. /\ FirstArg' = FirstArg /\ LongOptions' = LongOptions
        /\ FirstArg \in Nat /\ argc \in Nat
    BY TheNumbers, SameCaller DEF Skip, onceVars, PlaceInv
  <1>2. /\ UNCHANGED <<who, argc, start, initialized, ordering, optstring, seen, opt,
                       longind, nextchar>>
        /\ pc = "skip" /\ pc' = "element" /\ optind <= argc /\ initialized /\ ~Over
        /\ nextchar = 0
    BY DEF Skip, onceVars, resultVars, PlaceInv, Staged, Over
  <1>3. /\ optind \in Nat /\ first_nonopt \in Nat /\ last_nonopt \in Nat
        /\ FirstArg <= first_nonopt /\ first_nonopt <= last_nonopt
        /\ last_nonopt <= optind /\ optind <= argc
        /\ ordering # "PERMUTE" => first_nonopt = last_nonopt \/ last_nonopt = argc
    BY <1>2 DEF PlaceInv, Scanned, Staged
  <1>4. CASE ordering = "PERMUTE"
    <2> DEFINE moved == first_nonopt # last_nonopt /\ last_nonopt # optind
    <2>1. /\ argv' = IF moved THEN Rotated(argv, first_nonopt, last_nonopt, optind) ELSE argv
          /\ first_nonopt' = IF moved THEN first_nonopt + (optind - last_nonopt)
                             ELSE IF last_nonopt # optind THEN optind ELSE first_nonopt
          /\ optind' \in optind .. argc /\ last_nonopt' = optind'
          /\ optind' < argc => ~Nonoption(argv[optind'])
      <3>1. ~(last_nonopt > optind) /\ ~(first_nonopt > optind)
        BY <1>3
      <3>2. QED
        BY <3>1, <1>4 DEF Skip
    <2>2. /\ IsVector(argv', argc)
          /\ \A k \in 0 .. argc - 1 : IsText(argv'[k])
          /\ \A k \in 0 .. argc - 1 : k < first_nonopt \/ k >= optind => argv'[k] = argv[k]
      <3>1. /\ IsVector(argv, argc) /\ \A k \in 0 .. argc - 1 : IsText(argv[k])
        BY DEF PlaceInv, Line
      <3>2. CASE moved
        <4> DEFINE r == Rotated(argv, first_nonopt, last_nonopt, optind)
        <4>1. IsVector(r, argc) /\ \A k \in 0 .. argc - 1 : IsText(r[k])
          BY <3>1, <1>1, <1>3, RotatedIs, RotatedTexts
        <4>2. \A k \in 0 .. argc - 1 : k < first_nonopt \/ k >= optind => r[k] = argv[k]
          BY <3>1, <1>1, <1>3, RotatedIs
        <4>3. argv' = r
          BY <3>2, <2>1
        <4> HIDE DEF r
        <4>4. QED
          BY <4>1, <4>2, <4>3
      <3>3. CASE ~moved
        BY <3>1, <3>3, <2>1
      <3>4. QED
        BY <3>2, <3>3
    <2>3. /\ first_nonopt' \in Nat /\ FirstArg <= first_nonopt' /\ first_nonopt' <= last_nonopt'
          /\ optind' \in Nat /\ optind <= optind' /\ optind' <= argc
      BY <2>1, <1>3, <1>1
    <2>4. Line'
      BY <2>2, <1>2, <1>1 DEF PlaceInv, Line
    <2>5. \A k \in 0 .. argc - 1 : k < FirstArg \/ k >= last_nonopt' => argv'[k] = start[k]
      <3>1. \A k \in 0 .. argc - 1 : k < FirstArg \/ k >= last_nonopt => argv[k] = start[k]
        BY <1>2 DEF PlaceInv, Scanned
      <3>2. SUFFICES ASSUME NEW k \in 0 .. argc - 1, k < FirstArg \/ k >= last_nonopt'
                     PROVE  argv'[k] = start[k]
        OBVIOUS
      <3>3. (k < FirstArg \/ k >= last_nonopt) /\ (k < first_nonopt \/ k >= optind)
        BY <3>2, <2>1, <2>3, <1>1, <1>3
      <3>4. QED
        BY <3>1, <3>3, <2>2
    <2> DEFINE more == More(optstring')
    <2>6. /\ optstring' \in {OptstringOf(who, TRUE), OptstringOf(who, FALSE)}
          /\ longind' \in 0 .. Len(LongOptions) /\ IsText(seen)
          /\ ordering' \in {"PERMUTE", "REQUIRE_ORDER", "RETURN_IN_ORDER"}
          /\ more \in 0 .. 1 /\ optstring = OptstringOf(who, seen = << >>)
      <3>1. more \in 0 .. 1
        BY DEF More
      <3> HIDE DEF more
      <3>2. QED
        BY <1>2, <3>1 DEF PlaceInv, Scanned, Staged
    <2> HIDE DEF more
    <2>7. optind' <= argc + more
      BY <2>3, <2>6, <1>1
    <2> USE DEF more
    <2>8. FirstArg <= optind'
      BY <2>3, <1>1, <1>3
    <2>9. Scanned'
      BY <1>1, <1>2, <2>1, <2>3, <2>5, <2>6, <2>7, <2>8 DEF Scanned
    <2>10. optind' < argc => ~Nonoption(argv'[optind'])
      <3>1. optind' < argc => optind' \in 0 .. argc - 1 /\ optind' >= optind
        BY <2>3, <1>1, <1>3
      <3>2. optind' < argc => argv'[optind'] = argv[optind']
        BY <2>2, <3>1
      <3>3. QED
        BY <2>1, <3>2
    <2>11. last_nonopt' <= optind' /\ ~Over'
      BY <2>1, <2>3, <1>2 DEF Over
    <2> HIDE DEF moved
    <2>12. Staged'
      BY <1>2, <1>4, <2>1, <2>3, <2>6, <2>10, <2>11 DEF Staged
    <2>13. QED
      BY <2>4, <2>9, <2>12 DEF PlaceInv
  <1>5. CASE ordering # "PERMUTE"
    <2>1. UNCHANGED <<argv, optind, first_nonopt, last_nonopt>>
      <3>1. ~(last_nonopt > optind) /\ ~(first_nonopt > optind)
        BY <1>3
      <3>2. QED
        BY <3>1, <1>5 DEF Skip
    <2>2. Line' /\ Scanned'
      BY <1>1, <1>2, <2>1 DEF PlaceInv, Line, Scanned
    <2>3. last_nonopt = optind \/ first_nonopt = last_nonopt
      <3>1. last_nonopt = argc => last_nonopt = optind
        BY <1>1, <1>3
      <3>2. QED
        BY <1>3, <1>5, <3>1
    <2>4. Staged'
      BY <1>2, <1>3, <1>5, <2>1, <2>3 DEF PlaceInv, Staged, Over
    <2>5. QED
      BY <2>2, <2>4 DEF PlaceInv
  <1>6. QED
    BY <1>4, <1>5

(* Everything behind a "--" is skipped. *)
LEMMA MarkKeepsPlace == PlaceInv /\ EndMark => PlaceInv'
  <1> SUFFICES ASSUME PlaceInv, EndMark PROVE PlaceInv'
    OBVIOUS
  <1>1. /\ FirstArg' = FirstArg /\ LongOptions' = LongOptions
        /\ FirstArg \in Nat /\ argc \in Nat
    BY TheNumbers, SameCaller DEF EndMark, onceVars, PlaceInv
  <1>2. /\ UNCHANGED <<who, argc, start, initialized, ordering, optstring, seen, opt,
                       longind, nextchar, pc>>
        /\ pc = "element" /\ initialized /\ ~Over /\ nextchar = 0
        /\ last_nonopt' = argc /\ optind' = argc
    BY DEF EndMark, onceVars, resultVars, PlaceInv, Staged, Over
  <1>3. /\ optind \in Nat /\ first_nonopt \in Nat /\ last_nonopt \in Nat
        /\ FirstArg <= first_nonopt /\ first_nonopt <= last_nonopt
        /\ last_nonopt <= optind /\ optind < argc
        /\ last_nonopt = optind \/ first_nonopt = last_nonopt
    <2>1. optind # argc /\ optind <= argc /\ optind \in Nat
      BY <1>2 DEF EndMark, PlaceInv, Scanned, Staged
    <2>2. QED
      BY <1>1, <1>2, <2>1 DEF PlaceInv, Scanned, Staged
  <1> DEFINE moved == first_nonopt # last_nonopt /\ last_nonopt # optind + 1
  <1>4. /\ argv' = IF moved THEN Rotated(argv, first_nonopt, last_nonopt, optind + 1) ELSE argv
        /\ first_nonopt' = IF moved THEN first_nonopt + ((optind + 1) - last_nonopt)
                           ELSE IF first_nonopt = last_nonopt THEN optind + 1
                           ELSE first_nonopt
    BY DEF EndMark
  <1>5. /\ IsVector(argv', argc)
        /\ \A k \in 0 .. argc - 1 : IsText(argv'[k])
        /\ \A k \in 0 .. argc - 1 : k < first_nonopt => argv'[k] = argv[k]
    <2>1. IsVector(argv, argc) /\ \A k \in 0 .. argc - 1 : IsText(argv[k])
      BY DEF PlaceInv, Line
    <2>2. optind + 1 \in Nat /\ last_nonopt <= optind + 1 /\ optind + 1 <= argc
      BY <1>1, <1>3
    <2>3. CASE moved
      <3> DEFINE r == Rotated(argv, first_nonopt, last_nonopt, optind + 1)
      <3>1. IsVector(r, argc) /\ \A k \in 0 .. argc - 1 : IsText(r[k])
        BY <2>1, <2>2, <1>1, <1>3, RotatedIs, RotatedTexts
      <3>2. \A k \in 0 .. argc - 1 : k < first_nonopt => r[k] = argv[k]
        BY <2>1, <2>2, <1>1, <1>3, RotatedIs
      <3>3. argv' = r
        BY <2>3, <1>4
      <3> HIDE DEF r
      <3>4. QED
        BY <3>1, <3>2, <3>3
    <2>4. CASE ~moved
      BY <2>1, <2>4, <1>4
    <2>5. QED
      BY <2>3, <2>4
  <1>6. Line'
    BY <1>1, <1>2, <1>5 DEF PlaceInv, Line
  <1>7. first_nonopt' \in Nat /\ FirstArg <= first_nonopt' /\ first_nonopt' <= argc
    BY <1>1, <1>3, <1>4
  <1>8. \A k \in 0 .. argc - 1 : k < FirstArg \/ k >= argc => argv'[k] = start[k]
    <2>1. \A k \in 0 .. argc - 1 : k < FirstArg => argv[k] = start[k]
      BY <1>2 DEF PlaceInv, Scanned
    <2>2. QED
      BY <2>1, <1>1, <1>3, <1>5
  <1> DEFINE more == More(optstring')
  <1>9. /\ optstring' \in {OptstringOf(who, TRUE), OptstringOf(who, FALSE)}
        /\ longind' \in 0 .. Len(LongOptions) /\ IsText(seen)
        /\ ordering' \in {"PERMUTE", "REQUIRE_ORDER", "RETURN_IN_ORDER"}
        /\ more \in 0 .. 1 /\ optstring = OptstringOf(who, seen = << >>)
        /\ FirstArg <= argc
    <2>1. more \in 0 .. 1
      BY DEF More
    <2> HIDE DEF more
    <2>2. QED
      BY <1>2, <2>1 DEF PlaceInv, Line, Scanned, Staged
  <1> HIDE DEF more
  <1>10. argc <= argc + more /\ argc <= argc
    BY <1>1, <1>9
  <1> USE DEF more
  <1>11. Scanned'
    BY <1>1, <1>2, <1>7, <1>8, <1>9, <1>10 DEF PlaceInv, Scanned
  <1> HIDE DEF moved
  <1>12. Staged'
    BY <1>1, <1>2, <1>9, <1>10 DEF PlaceInv, Staged, Over
  <1>13. QED
    BY <1>6, <1>11, <1>12 DEF PlaceInv


(* What a text is followed by makes a text, and not the empty one. *)
LEMMA AppendedText ==
  ASSUME NEW s, IsText(s), NEW e
  PROVE  IsText(Append(s, e)) /\ Append(s, e) # << >>
  <1> DEFINE S == {s[k] : k \in DOMAIN s} \cup {e}
             t == Append(s, e)
  <1>1. s \in Seq(S)
    BY SeqMonotonic DEF IsText
  <1>2. t \in Seq(S) /\ t # << >> /\ Len(t) \in Nat
    BY <1>1, AppendProperties
  <1> HIDE DEF t, S
  <1>3. t \in Seq({t[k] : k \in DOMAIN t})
    <2>1. DOMAIN t = 1 .. Len(t) /\ t = [k \in 1 .. Len(t) |-> t[k]]
      BY <1>2
    <2>2. \A k \in 1 .. Len(t) : t[k] \in {t[j] : j \in DOMAIN t}
      BY <2>1
    <2>3. QED
      BY <2>1, <2>2, <1>2, IsASeq
  <1>4. QED
    BY <1>2, <1>3 DEF IsText, t

(* The end of argv is where the scan ends, or the first of what was        *)
(* skipped.                                                                *)
LEMMA FinishKeepsPlace == PlaceInv /\ Finish => PlaceInv'
  <1> SUFFICES ASSUME PlaceInv, Finish PROVE PlaceInv'
    OBVIOUS
  <1>1. /\ FirstArg' = FirstArg /\ LongOptions' = LongOptions
        /\ FirstArg \in Nat /\ argc \in Nat
    BY TheNumbers, SameCaller DEF Finish, onceVars, PlaceInv
  <1>2. /\ UNCHANGED <<who, argc, argv, start, initialized, ordering, optstring, seen,
                       first_nonopt, last_nonopt, longind, nextchar>>
        /\ initialized /\ nextchar = 0 /\ pc' = "returned" /\ opt' = "-1"
        /\ optind' = IF first_nonopt # last_nonopt THEN first_nonopt ELSE optind
    BY DEF Finish, Return, onceVars, PlaceInv, Staged
  <1> DEFINE more == More(optstring')
  <1>3. more \in 0 .. 1
    BY DEF More
  <1>4. /\ optind \in Nat /\ first_nonopt \in Nat /\ last_nonopt \in Nat
        /\ FirstArg <= first_nonopt /\ first_nonopt <= last_nonopt
        /\ last_nonopt <= argc /\ FirstArg <= optind /\ optind <= argc + more
    BY <1>2 DEF PlaceInv, Scanned
  <1> HIDE DEF more
  <1>5. optind' \in Nat /\ FirstArg <= optind' /\ optind' <= argc + more
    BY <1>1, <1>2, <1>3, <1>4
  <1> USE DEF more
  <1>6. Line' /\ Scanned'
    BY <1>1, <1>2, <1>5 DEF PlaceInv, Line, Scanned
  <1>7. Staged'
    BY <1>2 DEF PlaceInv, Staged, Over
  <1>8. QED
    BY <1>6, <1>7 DEF PlaceInv

(* A non-option ends the scan or is passed. *)
LEMMA MeetKeepsPlace == PlaceInv /\ MeetNonoption => PlaceInv'
  <1> SUFFICES ASSUME PlaceInv, MeetNonoption PROVE PlaceInv'
    OBVIOUS
  <1>1. /\ FirstArg' = FirstArg /\ LongOptions' = LongOptions
        /\ FirstArg \in Nat /\ argc \in Nat
    BY TheNumbers, SameCaller DEF MeetNonoption, onceVars, PlaceInv
  <1>2. /\ UNCHANGED <<who, argc, argv, start, initialized, ordering, optstring,
                       first_nonopt, last_nonopt, longind, nextchar>>
        /\ initialized /\ nextchar = 0 /\ pc' = "returned" /\ ~Over
        /\ optind # argc
    BY DEF MeetNonoption, Return, onceVars, PlaceInv, Staged, Over
  <1>3. /\ optind \in Nat /\ last_nonopt \in Nat /\ FirstArg <= optind
        /\ last_nonopt <= optind /\ optind < argc
    <2>1. optind <= argc /\ optind \in Nat
      BY <1>2 DEF MeetNonoption, PlaceInv, Staged, Scanned
    <2>2. QED
      BY <1>1, <1>2, <2>1 DEF PlaceInv, Scanned, Staged
  <1> DEFINE more == More(optstring')
  <1>4. more \in 0 .. 1
    BY DEF More
  <1> HIDE DEF more
  <1>5. CASE Return("-1", optarg) /\ UNCHANGED optind
    <2>1. Line' /\ Scanned'
      BY <1>1, <1>2, <1>5 DEF PlaceInv, Line, Scanned, Return
    <2>2. Staged'
      BY <1>2, <1>5 DEF PlaceInv, Staged, Over, Return
    <2>3. QED
      BY <2>1, <2>2 DEF PlaceInv
  <1>6. CASE Return("1", <<argv[optind]>>) /\ optind' = optind + 1
    <2>1. opt' = "1" /\ seen' = Append(seen, <<"1", <<argv[optind]>>>>)
      BY <1>6 DEF Return
    <2>2. IsText(seen') /\ seen' # << >>
      BY <2>1, AppendedText DEF PlaceInv, Scanned
    <2>3. /\ optind' \in Nat /\ FirstArg <= optind' /\ optind' <= argc + more
          /\ last_nonopt <= optind'
      BY <1>1, <1>3, <1>4, <1>6
    <2> USE DEF more
    <2>4. Line' /\ Scanned'
      BY <1>1, <1>2, <2>2, <2>3 DEF PlaceInv, Line, Scanned
    <2>5. Staged'
      BY <1>2, <2>1, <2>2, <2>3 DEF PlaceInv, Staged, Over
    <2>6. QED
      BY <2>4, <2>5 DEF PlaceInv
  <1>7. QED
    BY <1>5, <1>6 DEF MeetNonoption

(* The elements behind one. *)
LEMMA BehindIs ==
  ASSUME argc \in Nat, NEW v, NEW k \in Nat, k < argc
  PROVE  /\ Len(Behind(v, k)) = argc - k - 1
         /\ Behind(v, k) # << >> => Len(Behind(v, k)) >= 1
  <1> DEFINE b == Behind(v, k)
             S == {v[k + j] : j \in 1 .. argc - k - 1}
  <1>1. argc - k - 1 \in Nat
    OBVIOUS
  <1>2. b = [j \in 1 .. argc - k - 1 |-> v[k + j]]
    BY DEF Behind
  <1>3. b \in Seq(S) /\ Len(b) = argc - k - 1
    <2>1. b \in [1 .. argc - k - 1 -> S]
      BY <1>2
    <2> HIDE DEF b, S
    <2>2. QED
      BY <2>1, <1>1
  <1> HIDE DEF b, S
  <1>4. b # << >> => Len(b) # 0
    BY <1>3
  <1>5. QED
    BY <1>1, <1>3, <1>4 DEF b

(* What a call finds in its element fits. *)
LEMMA DecodedFits ==
  ASSUME PlaceInv, pc = "decode"
  PROVE  Fits(OptionAt(optstring, argv[optind], nextchar, Behind(argv, optind)),
              optstring, argv[optind], nextchar, Behind(argv, optind))
  <1>1. /\ who \in DOMAIN Callers /\ argc \in Nat /\ optind \in Nat /\ optind < argc
        /\ nextchar \in Nat /\ initialized
    BY TheNumbers DEF PlaceInv, Line, Scanned, Staged
  <1>2. optstring \in {OptstringOf(who, TRUE), OptstringOf(who, FALSE)}
    BY <1>1 DEF PlaceInv, Scanned
  <1>3. \A k \in DOMAIN optstring : optstring[k] # "-1"
    BY <1>1, <1>2, OptstringIs
  <1>4. /\ Len(Behind(argv, optind)) \in Nat
        /\ Behind(argv, optind) # << >> => Len(Behind(argv, optind)) >= 1
    BY <1>1, BehindIs
  <1>5. QED
    BY <1>1, <1>3, <1>4, OptionFits

(* A finding moves on within argv, but for an ambiguous -W. *)
LEMMA DecodeKeepsPlace == PlaceInv /\ Decode => PlaceInv'
  <1> SUFFICES ASSUME PlaceInv, Decode PROVE PlaceInv'
    OBVIOUS
  <1> DEFINE behind == Behind(argv, optind)
             a      == argv[optind]
             f      == OptionAt(optstring, a, nextchar, behind)
  <1>1. Take(f) /\ pc = "decode"
    BY DEF Decode
  <1>2. Fits(f, optstring, a, nextchar, behind)
    BY <1>1, DecodedFits
  <1> HIDE DEF f
  <1>3. /\ FirstArg' = FirstArg /\ LongOptions' = LongOptions
        /\ FirstArg \in Nat /\ argc \in Nat
    BY <1>1, TheNumbers, SameCaller DEF Take, onceVars, PlaceInv
  <1>4. /\ UNCHANGED <<who, argc, argv, start, initialized, ordering, optstring,
                       first_nonopt, last_nonopt>>
        /\ initialized /\ ~Over /\ nextchar \in Nat
        /\ pc' = "returned" /\ opt' = f.opt /\ optind' = optind + f.past
        /\ nextchar' = f.place /\ longind' = IF f.long = 0 THEN longind ELSE f.long
        /\ seen' = IF f.opt = "-1" THEN seen ELSE Append(seen, <<f.opt, f.arg>>)
    BY <1>1 DEF Take, Return, onceVars, PlaceInv, Staged, Scanned, Over
  <1>5. /\ optind \in Nat /\ last_nonopt \in Nat /\ FirstArg <= optind
        /\ last_nonopt <= optind /\ optind < argc /\ nextchar \in 2 .. Len(a)
    BY <1>1, <1>4 DEF PlaceInv, Scanned, Staged
  <1> DEFINE more == More(optstring)
  <1>6. more \in 0 .. 1
    BY DEF More
  <1>7. /\ f.past \in 0 .. 3 /\ f.place \in Nat /\ f.opt # "-1"
        /\ f.past = 0 => f.place = nextchar + 1 /\ nextchar # Len(a)
        /\ f.past # 0 => f.place = 0
        /\ f.past <= (argc - optind - 1) + 1 + more
    <2>1. Len(behind) = argc - optind - 1
      BY <1>3, <1>5, BehindIs
    <2>2. QED
      BY <1>2, <2>1 DEF Fits
  <1> HIDE DEF more
  <1>8. /\ optind' \in Nat /\ FirstArg <= optind' /\ optind' <= argc + more
        /\ last_nonopt <= optind'
    <2> DEFINE n == f.past
    <2>1. n \in 0 .. 3 /\ n <= (argc - optind - 1) + 1 + more /\ optind' = optind + n
      BY <1>4, <1>7
    <2> HIDE DEF n
    <2>2. QED
      BY <1>3, <1>5, <1>6, <2>1
  <1>9. nextchar' # 0 => optind' < argc /\ optind' = optind /\ nextchar' \in 2 .. Len(a)
    <2> SUFFICES ASSUME nextchar' # 0
                 PROVE  optind' < argc /\ optind' = optind /\ nextchar' \in 2 .. Len(a)
      OBVIOUS
    <2>1. f.past = 0 /\ nextchar' = nextchar + 1 /\ nextchar # Len(a)
      BY <1>4, <1>7
    <2>2. QED
      BY <2>1, <1>4, <1>5
  <1>10. IsText(seen') /\ seen' # << >>
    BY <1>4, <1>7, AppendedText DEF PlaceInv, Scanned
  <1>11. longind' \in 0 .. Len(LongOptions)
    BY <1>2, <1>4 DEF Fits, PlaceInv, Scanned
  <1> USE DEF more
  <1>12. Line' /\ Scanned'
    <2>1. nextchar' \in Nat
      BY <1>4, <1>7
    <2>2. QED
      BY <2>1, <1>3, <1>4, <1>8, <1>10, <1>11 DEF PlaceInv, Line, Scanned
  <1>13. Staged'
    BY <1>4, <1>7, <1>8, <1>9, <1>10 DEF PlaceInv, Staged, Over
  <1>14. QED
    BY <1>12, <1>13 DEF PlaceInv

(* So no step is lost. *)
LEMMA PlaceKept == PlaceInv /\ [GetoptNext]_getoptVars => PlaceInv'
  <1> SUFFICES ASSUME PlaceInv, [GetoptNext]_getoptVars PROVE PlaceInv'
    OBVIOUS
  <1>1. CASE UNCHANGED getoptVars
    <2>1. FirstArg' = FirstArg /\ LongOptions' = LongOptions
      BY <1>1, SameCaller DEF getoptVars, onceVars
    <2>2. Line' /\ Scanned'
      BY <1>1, <2>1 DEF PlaceInv, Line, Scanned, getoptVars, onceVars, scanVars, resultVars
    <2>3. Staged'
      BY <1>1, <2>1
         DEF PlaceInv, Staged, Over, getoptVars, onceVars, scanVars, resultVars
    <2>4. QED
      BY <2>2, <2>3 DEF PlaceInv
  <1>2. CASE GetoptNext
    BY <1>2, CallKeepsPlace, SkipKeepsPlace, LookBehindKeepsPlace, MarkKeepsPlace,
       FinishKeepsPlace, MeetKeepsPlace, OpenKeepsPlace, DecodeKeepsPlace, AgainKeepsPlace
       DEF GetoptNext, GetoptCall
  <1>3. QED
    BY <1>1, <1>2

(* At every moment the scan is where its records say. *)
THEOREM PlaceInvariant == GetoptSpec => []PlaceInv
  <1>1. PlaceInv /\ [GetoptNext]_getoptVars => PlaceInv'
    BY PlaceKept
  <1>2. QED
    BY <1>1, PlaceInitially, PTL DEF GetoptSpec

(* No call leaves the scan where it was: whatever the vector and the table *)
(* are, a caller's loop comes nearer to the end of argv with every step.   *)
THEOREM ScanMoves == GetoptSpec => ScanMovesOn
  <1> DEFINE Moves == pc' = "fault" \/ (pc' = "returned" /\ opt' = "-1") \/ MovesOn
  <1>1. PlaceInv /\ PlaceInv' /\ [GetoptNext]_getoptVars => [Moves]_getoptVars
    <2> SUFFICES ASSUME PlaceInv, GetoptNext PROVE Moves
      OBVIOUS
    <2>1. /\ optind \in Nat /\ nextchar \in Nat /\ argc \in Nat
          /\ pc = "element" => optind <= argc /\ nextchar = 0
          /\ ~initialized => nextchar = 0
      BY TheNumbers DEF PlaceInv, Scanned, Staged
    <2>2. CASE Call
      <3>1. pc = "call" /\ pc' \in {"skip", "decode"}
        BY <2>2 DEF Call
      <3>2. UNCHANGED <<optind, nextchar>> \/ (optind = 0 /\ optind' = 1)
        BY <2>1, <2>2 DEF Call
      <3>3. QED
        BY <2>1, <3>1, <3>2 DEF MovesOn, Stage
    <2>3. CASE Skip
      <3>1. /\ pc = "skip" /\ pc' = "element" /\ nextchar' = nextchar
            /\ optind' \in optind .. argc \/ optind' = optind
        BY <2>3 DEF Skip
      <3>2. optind < optind' \/ optind' = optind
        BY <2>1, <3>1
      <3>3. QED
        BY <3>1, <3>2 DEF MovesOn, Stage
    <2>4. CASE LookBehind
      BY <2>4 DEF LookBehind
    <2>5. CASE EndMark
      <3>1. optind < optind'
        BY <2>1, <2>5 DEF EndMark
      <3>2. QED
        BY <3>1 DEF MovesOn
    <2>6. CASE Finish
      BY <2>6 DEF Finish, Return
    <2>7. CASE MeetNonoption
      <3>1. (pc' = "returned" /\ opt' = "-1") \/ optind' = optind + 1
        BY <2>7 DEF MeetNonoption, Return
      <3>2. QED
        BY <2>1, <3>1 DEF MovesOn
    <2>8. CASE OpenOption
      <3>1. optind' = optind /\ nextchar = 0 /\ nextchar' \in {2, 3}
        BY <2>1, <2>8 DEF OpenOption, scanVars
      <3>2. QED
        BY <3>1 DEF MovesOn
    <2>9. CASE Decode
      <3> DEFINE behind == Behind(argv, optind)
                 a      == argv[optind]
                 f      == OptionAt(optstring, a, nextchar, behind)
      <3>1. Take(f) /\ pc = "decode"
        BY <2>9 DEF Decode
      <3>2. Fits(f, optstring, a, nextchar, behind)
        BY <3>1, DecodedFits
      <3> HIDE DEF f
      <3>3. optind' = optind + f.past /\ nextchar' = f.place
        BY <3>1 DEF Take
      <3>4. f.past \in 0 .. 3 /\ (f.past = 0 => f.place = nextchar + 1)
        BY <3>2 DEF Fits
      <3> DEFINE n == f.past
      <3> HIDE DEF n
      <3>5. n \in 0 .. 3 /\ optind' = optind + n /\ (n = 0 => nextchar' = nextchar + 1)
        BY <3>3, <3>4 DEF n
      <3>6. QED
        BY <2>1, <3>5 DEF MovesOn
    <2>10. CASE Again
      <3>1. pc = "returned" /\ pc' = "call" /\ UNCHANGED <<optind, nextchar>>
        BY <2>10 DEF Again, scanVars
      <3>2. QED
        BY <3>1 DEF MovesOn, Stage
    <2>11. QED
      BY <2>2, <2>3, <2>4, <2>5, <2>6, <2>7, <2>8, <2>9, <2>10
         DEF GetoptNext, GetoptCall
  <1>2. QED
    BY <1>1, PlaceInvariant, PTL DEF GetoptSpec, ScanMovesOn

(***************************************************************************)
(* GetoptTypeOK, for every vector and every table: what a call looks at is *)
(* in argv, and in the element.                                            *)
(***************************************************************************)
THEOREM GetoptTypes == GetoptSpec => []GetoptTypeOK
  <1>1. PlaceInv => GetoptTypeOK
    <2> SUFFICES ASSUME PlaceInv PROVE GetoptTypeOK
      OBVIOUS
    <2>1. initialized => optind \in FirstArg .. argc + More(optstring)
                         /\ last_nonopt \in FirstArg .. argc
      <3> DEFINE more == More(optstring)
      <3>1. more \in 0 .. 1
        BY DEF More
      <3>2. /\ FirstArg \in Nat /\ argc \in Nat /\ optind \in Nat
            /\ first_nonopt \in Nat /\ last_nonopt \in Nat
        BY TheNumbers DEF PlaceInv, Scanned
      <3>3. initialized =>
              /\ FirstArg <= first_nonopt /\ first_nonopt <= last_nonopt
              /\ last_nonopt <= argc /\ FirstArg <= optind /\ optind <= argc + more
        BY DEF PlaceInv, Scanned
      <3> HIDE DEF more
      <3>4. initialized => optind \in FirstArg .. argc + more
                           /\ last_nonopt \in FirstArg .. argc
        BY <3>1, <3>2, <3>3
      <3>5. QED
        BY <3>4 DEF more
    <2>2. QED
      BY <2>1 DEF PlaceInv, Line, Scanned, Staged, GetoptTypeOK, More
  <1>2. QED
    BY <1>1, PlaceInvariant, PTL

(***************************************************************************)
(* BeyondOnlyAfterW: whatever is found is done with elements that are      *)
(* there, but for the ambiguous -W.                                        *)
(***************************************************************************)
Stays(f, behind) ==
  \/ f.past <= Len(behind) + 1
  \/ f.opt = "?" /\ f.arg # << >> /\ Ambiguous(f.arg[1], TRUE)

LEMMA FindingStays ==
  ASSUME NEW o, NEW arg, NEW n \in Nat, NEW behind, n <= Len(behind) + 1
  PROVE  /\ Stays(Finding(o, arg, n), behind)
         /\ \A c : Stays(Refused(o, arg, n, c), behind)
         /\ \A k : Stays(FoundLong(k, arg, n), behind)
  <1>1. Finding(o, arg, n).past = n
    BY DEF Finding
  <1>2. \A c : Refused(o, arg, n, c).past = n
    BY DEF Finding, Refused
  <1>3. \A k : FoundLong(k, arg, n).past = n
    BY DEF Finding, FoundLong
  <1>4. QED
    BY <1>1, <1>2, <1>3, Zenon DEF Stays

LEMMA LongStays ==
  ASSUME NEW os, NEW a, NEW j, NEW behind, Len(behind) \in Nat,
         behind # << >> => Len(behind) >= 1
  PROVE  Stays(LongAt(os, a, j, behind), behind)
  <1>1. /\ 1 \in Nat /\ 1 <= Len(behind) + 1 /\ 2 \in Nat
        /\ behind # << >> => 2 <= Len(behind) + 1
    OBVIOUS
  <1>2. /\ \A o, arg, c : Stays(Refused(o, arg, 1, c), behind)
        /\ \A k, arg : Stays(FoundLong(k, arg, 1), behind)
        /\ \A k, arg : behind # << >> => Stays(FoundLong(k, arg, 2), behind)
    BY <1>1, FindingStays, Zenon
  <1>3. QED
    BY <1>2, Zenon DEF LongAt

LEMMA ShortStays ==
  ASSUME NEW os, NEW a, NEW j, NEW behind, Len(behind) \in Nat,
         behind # << >> => Len(behind) >= 1, Kind(os, a[j]) # "W"
  PROVE  Stays(ShortAt(os, a, j, behind), behind)
  <1> DEFINE c == a[j]
             last == j = Len(a)
             plain(o) == [Finding(o, << >>, IF last THEN 1 ELSE 0)
                            EXCEPT !.place = IF last THEN 0 ELSE j + 1]
             wrong(u) == [plain("?") EXCEPT !.unknown = u]
  <1>1. /\ 1 \in Nat /\ 1 <= Len(behind) + 1 /\ 2 \in Nat
        /\ behind # << >> => 2 <= Len(behind) + 1
    OBVIOUS
  <1>2. /\ \A o : Stays(plain(o), behind)
        /\ \A u : Stays(wrong(u), behind)
    BY <1>1 DEF Stays, Finding
  <1>3. /\ \A o, arg, u : Stays(Refused(o, arg, 1, u), behind)
        /\ \A o, arg : Stays(Finding(o, arg, 1), behind)
        /\ \A o, arg : behind # << >> => Stays(Finding(o, arg, 2), behind)
    BY <1>1, FindingStays, Zenon
  <1>4. Kind(os, c) \in {"unknown", "no", "required", "optional"}
    BY DEF Kind
  <1>5. CASE Kind(os, c) = "unknown"
    <2>1. ShortAt(os, a, j, behind) = wrong(<<c>>)
      BY <1>5 DEF ShortAt
    <2> HIDE DEF wrong
    <2>2. QED
      BY <2>1, <1>2, Zenon
  <1>6. CASE Kind(os, c) = "no"
    <2>1. ShortAt(os, a, j, behind) = plain(c)
      BY <1>6 DEF ShortAt
    <2> HIDE DEF plain, c
    <2>2. QED
      BY <2>1, <1>2, Zenon
  <1>7. CASE Kind(os, c) \in {"required", "optional"}
    <2>1. ShortAt(os, a, j, behind)
            = IF ~last THEN Finding(c, <<From(a, j + 1)>>, 1)
              ELSE IF Kind(os, c) = "optional" THEN Finding(c, << >>, 1)
              ELSE IF behind = << >> THEN Refused(Missing(os), << >>, 1, c)
              ELSE Finding(c, <<behind[1]>>, 2)
      BY <1>7 DEF ShortAt
    <2> HIDE DEF c, last
    <2>2. QED
      BY <2>1, <1>3, Zenon
  <1>8. QED
    BY <1>4, <1>5, <1>6, <1>7

LEMMA WStays ==
  ASSUME NEW os, NEW a, NEW j, NEW behind, Len(behind) \in Nat,
         behind # << >> => Len(behind) >= 1
  PROVE  Stays(WAt(os, a, j, behind), behind)
  <1> DEFINE last == j = Len(a)
             s == IF last THEN behind[1] ELSE From(a, j + 1)
             n == IF last THEN 2 ELSE 1
             p == LongOptions[Found(s)]
  <1>1. CASE last /\ behind = << >>
    <2>1. WAt(os, a, j, behind) = Refused(Missing(os), << >>, 1, "W")
      BY <1>1 DEF WAt
    <2>2. 1 \in Nat /\ 1 <= Len(behind) + 1
      OBVIOUS
    <2>3. QED
      BY <2>1, <2>2, FindingStays, Zenon
  <1>2. CASE ~(last /\ behind = << >>)
    <2>1. n \in 1 .. 2 /\ n <= Len(behind) + 1
      BY <1>2
    <2>2. WAt(os, a, j, behind)
            = IF Candidates(s) = {} THEN Finding("W", <<s>>, n)
              ELSE IF Ambiguous(s, TRUE) THEN Finding("?", <<s>>, n + 1)
              ELSE IF HasValue(s)
                THEN IF p.has_arg = "no" THEN Finding("?", <<s>>, n)
                     ELSE FoundLong(Found(s), <<Value(s)>>, n)
              ELSE IF p.has_arg # "required" THEN FoundLong(Found(s), <<s>>, n)
              ELSE IF Len(behind) < n THEN Finding(Missing(os), <<s>>, n)
              ELSE FoundLong(Found(s), <<behind[n]>>, n + 1)
      BY <1>2 DEF WAt
    <2> HIDE DEF s, n, p, last
    <2>3. n \in Nat /\ n + 1 \in Nat /\ (~(Len(behind) < n) => n + 1 <= Len(behind) + 1)
      BY <2>1
    <2>4. /\ \A o, arg : Stays(Finding(o, arg, n), behind)
          /\ \A k, arg : Stays(FoundLong(k, arg, n), behind)
          /\ \A k, arg : ~(Len(behind) < n) => Stays(FoundLong(k, arg, n + 1), behind)
      BY <2>1, <2>3, FindingStays, Zenon
    <2>5. Ambiguous(s, TRUE) => Stays(Finding("?", <<s>>, n + 1), behind)
      BY DEF Stays, Finding
    <2>6. QED
      BY <2>2, <2>4, <2>5, Zenon
  <1>3. QED
    BY <1>1, <1>2

(* So does every step, from where the scan is.                             *)
LEMMA StepStays ==
  PlaceInv /\ BeyondOnlyAfterW /\ [GetoptNext]_getoptVars => BeyondOnlyAfterW'
  <1> SUFFICES ASSUME PlaceInv, BeyondOnlyAfterW, [GetoptNext]_getoptVars
               PROVE  BeyondOnlyAfterW'
    OBVIOUS
  <1>1. /\ optind \in Nat /\ argc \in Nat /\ FirstArg \in Nat /\ FirstArg <= argc
        /\ first_nonopt \in Nat
        /\ pc = "element" => optind <= argc /\ first_nonopt <= argc
        /\ pc = "decode" => optind < argc
    <2>1. argc \in Nat /\ FirstArg \in Nat /\ FirstArg <= argc
      BY TheNumbers DEF PlaceInv
    <2>2. optind \in Nat /\ first_nonopt \in Nat /\ last_nonopt \in Nat
      BY DEF PlaceInv, Scanned
    <2>3. pc = "element" => first_nonopt <= last_nonopt /\ last_nonopt <= argc
      BY DEF PlaceInv, Scanned, Staged
    <2>4. pc = "element" => first_nonopt <= argc
      BY <2>1, <2>2, <2>3
    <2>5. QED
      BY <2>1, <2>2, <2>4 DEF PlaceInv, Staged
  <1>2. UNCHANGED <<who, argc>>
    BY DEF GetoptNext, GetoptCall, Call, Skip, LookBehind, EndMark, Finish, MeetNonoption,
           OpenOption, Decode, Take, Again, onceVars, getoptVars
  <1>3. \A s : Ambiguous(s, TRUE)' = Ambiguous(s, TRUE)
    BY <1>2, SameCaller DEF Ambiguous, Candidates, Exact, Found
  <1>4. CASE optind' <= argc
    <2>1. optind' \in Nat
      BY PlaceKept DEF PlaceInv, Scanned
    <2>2. ~(optind' > argc')
      BY <1>1, <1>2, <1>4, <2>1
    <2>3. QED
      BY <2>2 DEF BeyondOnlyAfterW
  <1>5. CASE UNCHANGED <<initialized, optind, seen>>
    <2>1. /\ initialized' = initialized /\ optind' = optind /\ argc' = argc
          /\ seen' = seen
      BY <1>2, <1>5
    <2>2. QED
      BY <2>1, <1>3 DEF BeyondOnlyAfterW
  <1>6. CASE Decode
    <2> DEFINE behind == Behind(argv, optind)
               f      == OptionAt(optstring, argv[optind], nextchar, behind)
    <2>1. Take(f) /\ pc = "decode"
      BY <1>6 DEF Decode
    <2>2. Len(behind) = argc - optind - 1 /\ (behind # << >> => Len(behind) >= 1)
      BY <1>1, <2>1, BehindIs
    <2>3. Stays(f, behind)
      <3>1. Len(behind) \in Nat
        BY <1>1, <2>1, <2>2
      <3>2. QED
        BY <2>2, <3>1, LongStays, ShortStays, WStays, Zenon DEF OptionAt
    <2>4. Fits(f, optstring, argv[optind], nextchar, behind)
      BY <2>1, DecodedFits
    <2> HIDE DEF f, behind
    <2>5. optind' = optind + f.past /\ f.past \in Nat
      BY <2>1, <2>4 DEF Take, Fits
    <2>6. CASE f.past <= Len(behind) + 1
      <3>1. optind' <= argc
        BY <1>1, <2>1, <2>2, <2>5, <2>6
      <3>2. QED
        BY <3>1, <1>4
    <2>7. CASE f.opt = "?" /\ f.arg # << >> /\ Ambiguous(f.arg[1], TRUE)
      <3>1. seen' = Append(seen, <<f.opt, f.arg>>)
        BY <2>1, <2>7 DEF Take, Return
      <3>2. seen \in Seq({seen[k] : k \in DOMAIN seen})
        BY DEF PlaceInv, Scanned, IsText
      <3>3. seen'[Len(seen')] = <<f.opt, f.arg>>
        BY <3>1, <3>2
      <3>4. PICK o, arg : /\ seen'[Len(seen')] = <<o, arg>>
                          /\ o = "?" /\ arg # << >> /\ Ambiguous(arg[1], TRUE)
        BY <3>3, <2>7, Zenon
      <3>5. Ambiguous(arg[1], TRUE)'
        BY <3>4, <1>3, Zenon
      <3>6. /\ <<o, arg>>[1] = "?" /\ <<o, arg>>[2] = arg
        BY <3>4
      <3>7. QED
        BY <3>4, <3>5, <3>6 DEF BeyondOnlyAfterW
    <2>8. QED
      BY <2>3, <2>6, <2>7 DEF Stays
  <1>7. CASE Call
    <2>1. CASE initialized
      BY <1>5, <1>7, <2>1 DEF Call
    <2>2. CASE ~initialized
      <3>1. optind' = FirstArg
        BY <1>7, <2>2 DEF Call, PlaceInv, Staged, FirstArg
      <3>2. QED
        BY <3>1, <1>1, <1>4
    <2>3. QED
      BY <2>1, <2>2
  <1>8. CASE Skip
    <2>1. optind <= argc /\ (optind' \in optind .. argc \/ optind' = optind)
      BY <1>8 DEF Skip
    <2>2. optind' <= argc
      BY <1>1, <2>1
    <2>3. QED
      BY <2>2, <1>4
  <1>9. CASE EndMark
    BY <1>1, <1>4, <1>9 DEF EndMark
  <1>10. CASE Finish
    BY <1>1, <1>4, <1>10 DEF Finish
  <1>11. CASE MeetNonoption
    <2>1. optind' <= argc
      BY <1>1, <1>11 DEF MeetNonoption
    <2>2. QED
      BY <2>1, <1>4
  <1>12. CASE LookBehind \/ OpenOption \/ Again
    BY <1>5, <1>12 DEF LookBehind, OpenOption, Again, onceVars, scanVars, resultVars
  <1>13. CASE UNCHANGED getoptVars
    BY <1>5, <1>13 DEF getoptVars, onceVars, scanVars, resultVars
  <1>14. QED
    BY <1>6, <1>7, <1>8, <1>9, <1>10, <1>11, <1>12, <1>13 DEF GetoptNext, GetoptCall

(* For every caller and vector, optind passes the end of argv after an     *)
(* ambiguous -W alone.                                                     *)
THEOREM OnlyWGoesBeyond == GetoptSpec => []BeyondOnlyAfterW
  <1>1. GetoptInit => BeyondOnlyAfterW
    BY DEF GetoptInit, GetoptStatics, BeyondOnlyAfterW
  <1>2. QED
    BY <1>1, StepStays, PlaceInvariant, PTL DEF GetoptSpec
------------------------------------------------------------------------------
(* Sequences, as texts. *)
LEMMA SequencesAreTexts ==
  ASSUME NEW S, NEW s \in Seq(S)
  PROVE  IsText(s) /\ Len(s) \in Nat
  <1>1. DOMAIN s = 1 .. Len(s) /\ s = [k \in 1 .. Len(s) |-> s[k]] /\ Len(s) \in Nat
    OBVIOUS
  <1>2. \A k \in 1 .. Len(s) : s[k] \in {s[j] : j \in DOMAIN s}
    BY <1>1
  <1>3. QED
    BY <1>1, <1>2, IsASeq DEF IsText

(* Texts are equal when they are as long and have the same letters. *)
LEMMA EqualTexts ==
  ASSUME NEW s, NEW t, IsText(s), IsText(t), Len(s) = Len(t),
         \A k \in 1 .. Len(s) : s[k] = t[k]
  PROVE  s = t
  BY SeqEqual DEF IsText

(* Texts joined are a text. *)
LEMMA JoinedTexts ==
  ASSUME NEW s, NEW t, IsText(s), IsText(t)
  PROVE  /\ IsText(s \o t) /\ Len(s \o t) = Len(s) + Len(t)
         /\ Len(s) \in Nat /\ Len(t) \in Nat
         /\ \A k \in 1 .. Len(s) + Len(t) :
              (s \o t)[k] = IF k <= Len(s) THEN s[k] ELSE t[k - Len(s)]
         /\ s \o << >> = s /\ << >> \o s = s
  <1> DEFINE S == {s[k] : k \in DOMAIN s} \cup {t[k] : k \in DOMAIN t}
  <1>1. s \in Seq(S) /\ t \in Seq(S)
    BY SeqMonotonic DEF IsText
  <1> HIDE DEF S
  <1>2. /\ s \o t \in Seq(S) /\ Len(s \o t) = Len(s) + Len(t)
        /\ \A k \in 1 .. Len(s) + Len(t) :
             (s \o t)[k] = IF k <= Len(s) THEN s[k] ELSE t[k - Len(s)]
    BY <1>1, ConcatProperties
  <1>3. s \o << >> = s /\ << >> \o s = s
    BY <1>1, ConcatEmptySeq
  <1>4. IsText(s \o t) /\ Len(s) \in Nat /\ Len(t) \in Nat
    BY <1>1, <1>2, SequencesAreTexts
  <1>5. QED
    BY <1>2, <1>3, <1>4

(* Three texts are joined in any way. *)
LEMMA JoinsAssociate ==
  ASSUME NEW s, NEW t, NEW u, IsText(s), IsText(t), IsText(u)
  PROVE  (s \o t) \o u = s \o (t \o u)
  <1> DEFINE S == {s[k] : k \in DOMAIN s} \cup {t[k] : k \in DOMAIN t} \cup {u[k] : k \in DOMAIN u}
  <1>1. s \in Seq(S) /\ t \in Seq(S) /\ u \in Seq(S)
    BY SeqMonotonic DEF IsText
  <1> HIDE DEF S
  <1>2. QED
    BY <1>1, ConcatAssociative

(* The same, as one predicate. *)
Associate(s, t, u) == (s \o t) \o u = s \o (t \o u)

(* Texts associate. *)
LEMMA TextsAssociate ==
  \A s, t, u : IsText(s) /\ IsText(t) /\ IsText(u) => Associate(s, t, u)
  <1> SUFFICES ASSUME NEW s, NEW t, NEW u, IsText(s), IsText(t), IsText(u)
               PROVE  Associate(s, t, u)
    OBVIOUS
  <1>1. (s \o t) \o u = s \o (t \o u)
    BY JoinsAssociate, SMTT(30)
  <1>2. QED
    BY <1>1, Zenon DEF Associate

(* One more letter is a text joined. *)
LEMMA OneMore ==
  ASSUME NEW s, NEW e, IsText(s)
  PROVE  IsText(<<e>>) /\ Append(s, e) = s \o <<e>>
  <1> DEFINE S == {s[k] : k \in DOMAIN s} \cup {e}
  <1>1. s \in Seq(S) /\ e \in S /\ <<e>> \in Seq(S)
    BY SeqMonotonic DEF IsText
  <1> HIDE DEF S
  <1>2. Append(s, e) = s \o <<e>>
    BY <1>1, AppendIsConcat
  <1>3. QED
    BY <1>1, <1>2, SequencesAreTexts

------------------------------------------------------------------------------
(* The elements of a vector from i up to j. *)
Slice(v, i, j) == [k \in 1 .. j - i |-> v[i + k - 1]]

(* A part of a vector is a text of elements. *)
LEMMA SliceIs ==
  ASSUME NEW v, NEW i \in Nat, NEW j \in Nat, i <= j
  PROVE  /\ IsText(Slice(v, i, j)) /\ Len(Slice(v, i, j)) = j - i
         /\ \A k \in 1 .. j - i : Slice(v, i, j)[k] = v[i + k - 1]
         /\ j - i \in Nat
  <1> DEFINE S == {v[i + k - 1] : k \in 1 .. j - i}
  <1>1. j - i \in Nat
    OBVIOUS
  <1>2. \A k \in 1 .. j - i : v[i + k - 1] \in S
    OBVIOUS
  <1> HIDE DEF S
  <1>3. Slice(v, i, j) \in Seq(S) /\ Len(Slice(v, i, j)) = j - i
    BY <1>1, <1>2, IsASeq DEF Slice
  <1>4. QED
    BY <1>1, <1>3, SequencesAreTexts DEF Slice

(* Where two vectors agree, up to a shift, so do their parts. *)
LEMMA SameSlices ==
  ASSUME NEW v, NEW w, NEW i \in Nat, NEW j \in Nat, NEW p \in Nat, NEW q \in Nat,
         i <= j, j - i = q - p, \A k \in i .. j - 1 : v[k] = w[k + (p - i)]
  PROVE  Slice(v, i, j) = Slice(w, p, q)
  <1>1. \A k \in 1 .. j - i : v[i + k - 1] = w[p + k - 1]
    <2> SUFFICES ASSUME NEW k \in 1 .. j - i
                 PROVE  v[i + k - 1] = w[p + k - 1]
      OBVIOUS
    <2>1. i + k - 1 \in i .. j - 1 /\ (i + k - 1) + (p - i) = p + k - 1
      OBVIOUS
    <2>2. QED
      BY <2>1
  <1>2. QED
    BY <1>1 DEF Slice

(* And without one. *)
LEMMA SameSlice ==
  ASSUME NEW v, NEW w, NEW i \in Nat, NEW j \in Nat, i <= j,
         \A k \in i .. j - 1 : v[k] = w[k]
  PROVE  Slice(v, i, j) = Slice(w, i, j)
  <1>1. \A k \in i .. j - 1 : v[k] = w[k + (i - i)]
    OBVIOUS
  <1>2. QED
    BY <1>1, SameSlices

(* Adjacent parts make a part. *)
LEMMA SlicesJoin ==
  ASSUME NEW v, NEW i \in Nat, NEW m \in Nat, NEW j \in Nat, i <= m, m <= j
  PROVE  Slice(v, i, m) \o Slice(v, m, j) = Slice(v, i, j)
  <1> DEFINE s == Slice(v, i, m)
             t == Slice(v, m, j)
             u == Slice(v, i, j)
  <1>0. i <= j
    OBVIOUS
  <1>1. /\ IsText(s) /\ Len(s) = m - i /\ \A k \in 1 .. m - i : s[k] = v[i + k - 1]
        /\ IsText(t) /\ Len(t) = j - m /\ \A k \in 1 .. j - m : t[k] = v[m + k - 1]
        /\ IsText(u) /\ Len(u) = j - i /\ \A k \in 1 .. j - i : u[k] = v[i + k - 1]
    <2>1. IsText(s) /\ IsText(t) /\ IsText(u)
      BY <1>0, SliceIs, Zenon
    <2>2. Len(s) = m - i /\ Len(t) = j - m /\ Len(u) = j - i
      BY <1>0, SliceIs, Zenon
    <2>3. /\ \A k \in 1 .. m - i : s[k] = v[i + k - 1]
          /\ \A k \in 1 .. j - m : t[k] = v[m + k - 1]
          /\ \A k \in 1 .. j - i : u[k] = v[i + k - 1]
      BY DEF Slice
    <2> HIDE DEF s, t, u
    <2>4. QED
      BY <2>1, <2>2, <2>3
  <1> HIDE DEF s, t, u
  <1>2. /\ IsText(s \o t) /\ Len(s \o t) = j - i
        /\ \A k \in 1 .. j - i :
             (s \o t)[k] = IF k <= m - i THEN s[k] ELSE t[k - (m - i)]
    <2>1. (m - i) + (j - m) = j - i
      OBVIOUS
    <2>2. /\ IsText(s \o t) /\ Len(s \o t) = Len(s) + Len(t)
          /\ \A k \in 1 .. Len(s) + Len(t) :
               (s \o t)[k] = IF k <= Len(s) THEN s[k] ELSE t[k - Len(s)]
      BY <1>1, JoinedTexts, Zenon
    <2>3. QED
      BY <1>1, <2>1, <2>2
  <1>3. \A k \in 1 .. j - i : (s \o t)[k] = u[k]
    <2> SUFFICES ASSUME NEW k \in 1 .. j - i
                 PROVE  (s \o t)[k] = v[i + k - 1]
      BY <1>1
    <2>1. CASE k <= m - i
      <3>1. k \in 1 .. m - i
        BY <2>1
      <3>2. QED
        BY <3>1, <2>1, <1>1, <1>2
    <2>2. CASE ~(k <= m - i)
      <3>1. k - (m - i) \in 1 .. j - m /\ m + (k - (m - i)) - 1 = i + k - 1
        BY <2>2
      <3>2. t[k - (m - i)] = v[m + (k - (m - i)) - 1]
        BY <3>1, <1>1
      <3>3. QED
        BY <3>1, <3>2, <2>2, <1>2
    <2>3. QED
      BY <2>1, <2>2
  <1>4. QED
    BY <1>1, <1>2, <1>3, EqualTexts DEF s, t, u

(* Parts of one element, and of none. *)
LEMMA SmallSlices ==
  ASSUME NEW v, NEW i \in Nat
  PROVE  Slice(v, i, i) = << >> /\ Slice(v, i, i + 1) = <<v[i]>>
  <1>1. i <= i /\ i - i = 0 /\ i <= i + 1 /\ i + 1 \in Nat /\ (i + 1) - i = 1 /\ i + 1 - 1 = i
    OBVIOUS
  <1>2. IsText(Slice(v, i, i)) /\ Len(Slice(v, i, i)) = 0
    <2>1. IsText(Slice(v, i, i))
      BY <1>1, SliceIs, Zenon
    <2>2. \A j \in Nat : i <= j => Len(Slice(v, i, j)) = j - i
      BY SliceIs, Zenon
    <2>3. QED
      BY <2>1, <2>2, <1>1
  <1>3. /\ IsText(Slice(v, i, i + 1)) /\ Len(Slice(v, i, i + 1)) = 1
        /\ Slice(v, i, i + 1)[1] = v[i]
    <2>1. 1 \in 1 .. (i + 1) - i
      OBVIOUS
    <2>2. IsText(Slice(v, i, i + 1))
      BY <1>1, SliceIs, Zenon
    <2>3. \A j \in Nat : i <= j => Len(Slice(v, i, j)) = j - i
      BY SliceIs, Zenon
    <2>4. Slice(v, i, i + 1)[1] = v[i + 1 - 1]
      BY <2>1 DEF Slice
    <2>5. QED
      BY <1>1, <2>2, <2>3, <2>4
  <1> DEFINE s == Slice(v, i, i)
             t == Slice(v, i, i + 1)
  <1>4. s = << >>
    <2> HIDE DEF s
    <2>1. s \in Seq({s[k] : k \in DOMAIN s}) /\ Len(s) = 0
      BY <1>2 DEF IsText, s
    <2>2. QED
      BY <2>1, EmptySeq
  <1>5. t = <<v[i]>>
    <2> HIDE DEF t
    <2>1. IsText(<<v[i]>>) /\ Len(<<v[i]>>) = 1 /\ <<v[i]>>[1] = v[i]
      <3>1. <<v[i]>> \in Seq({v[i]})
        OBVIOUS
      <3>2. QED
        BY <3>1, SequencesAreTexts
    <2>2. IsText(t) /\ Len(t) = 1 /\ t[1] = v[i]
      BY <1>3 DEF t
    <2>3. \A k \in 1 .. 1 : t[k] = <<v[i]>>[k]
      BY <2>1, <2>2
    <2>4. QED
      BY <2>1, <2>2, <2>3, EqualTexts
  <1>6. QED
    BY <1>4, <1>5

------------------------------------------------------------------------------
(* What a reading can be made of. *)
Elems == {start[k] : k \in 0 .. argc - 1}
Opts  == {<<OptionOf(p).opt, OptionOf(p).arg>> : p \in Places}
           \cup {<<"1", <<e>>>> : e \in Elems}
Parts == [opts : Seq(Opts), head : Seq(Elems), tail : Seq(Elems)]

(* Elements are a part of the vector, up to its end. *)
LEMMA ElementsAre ==
  ASSUME argc \in Nat, NEW k \in Nat, k <= argc, NEW n \in Nat
  PROVE  /\ Elements(k, n) \in Seq(Elems)
         /\ k + n <= argc => Elements(k, n) = Slice(start, k, k + n)
         /\ k + n >= argc => Elements(k, n) = Slice(start, k, argc)
  <1> DEFINE m == IF k + n > argc THEN argc - k ELSE n
  <1>1. m \in Nat /\ k + m <= argc
    OBVIOUS
  <1>2. Elements(k, n) = [j \in 1 .. m |-> start[k + j - 1]]
    BY DEF Elements
  <1>3. (k + n <= argc => m = (k + n) - k) /\ (k + n >= argc => m = argc - k)
    OBVIOUS
  <1>4. \A j \in 1 .. m : start[k + j - 1] \in Elems
    <2> SUFFICES ASSUME NEW j \in 1 .. m
                 PROVE  start[k + j - 1] \in Elems
      OBVIOUS
    <2>1. k + j - 1 \in 0 .. argc - 1
      BY <1>1
    <2>2. QED
      BY <2>1 DEF Elems
  <1> HIDE DEF m
  <1>5. Elements(k, n) \in Seq(Elems)
    BY <1>1, <1>2, <1>4, IsASeq
  <1>6. /\ k + n <= argc => Elements(k, n) = Slice(start, k, k + n)
        /\ k + n >= argc => Elements(k, n) = Slice(start, k, argc)
    BY <1>2, <1>3, Zenon DEF Slice
  <1>7. QED
    BY <1>5, <1>6

(* Parts joined are parts. *)
LEMMA JoinedIs ==
  ASSUME NEW r \in Parts, NEW s \in Parts
  PROVE  /\ Joined(r, s) \in Parts
         /\ Joined(r, s).opts = r.opts \o s.opts
         /\ Joined(r, s).head = r.head \o s.head
         /\ Joined(r, s).tail = r.tail \o s.tail
  <1>1. /\ r.opts \o s.opts \in Seq(Opts) /\ r.head \o s.head \in Seq(Elems)
        /\ r.tail \o s.tail \in Seq(Elems)
    BY ConcatProperties DEF Parts
  <1>2. QED
    BY <1>1 DEF Joined, Part, Parts

(* A part of three sequences. *)
LEMMA PartIs ==
  ASSUME NEW o \in Seq(Opts), NEW h \in Seq(Elems), NEW t \in Seq(Elems)
  PROVE  /\ Part(o, h, t) \in Parts /\ Part(o, h, t).opts = o
         /\ Part(o, h, t).head = h /\ Part(o, h, t).tail = t
  BY DEF Part, Parts

(* A place where there is something to read is in an element. *)
LEMMA PlaceIs ==
  ASSUME Line, NEW p \in Places, ~NoMore(p)
  PROVE  /\ p[1] \in 0 .. argc - 1 /\ p[1] \in Nat /\ p[1] < argc /\ argc \in Nat
         /\ p[2] \in Nat /\ p[3] \in BOOLEAN /\ start[p[1]] \in Elems
         /\ IsText(start[p[1]]) /\ Len(start[p[1]]) \in Nat /\ p[2] <= Len(start[p[1]])
  <1>1. p[1] \in Nat /\ p[2] \in Nat /\ p[3] \in BOOLEAN
    BY DEF Places
  <1>2. argc \in Nat
    BY TheNumbers
  <1>3. p[1] \in 0 .. argc - 1 /\ p[1] < argc
    BY <1>1, <1>2 DEF NoMore
  <1>4. IsText(start[p[1]])
    BY <1>3 DEF Line
  <1>5. Len(start[p[1]]) \in Nat
    BY <1>4, SequencesAreTexts DEF IsText
  <1>6. p[2] <= Len(start[p[1]])
    BY <1>1, <1>5 DEF NoMore
  <1>7. start[p[1]] \in Elems
    BY <1>3 DEF Elems
  <1>8. QED
    BY <1>1, <1>2, <1>3, <1>4, <1>5, <1>6, <1>7

(* The letter of its element at which a place is. *)
Letter(p) == IF p[2] = 0 THEN Opening(start[p[1]]) ELSE p[2]

(* What is found at a place fits. *)
LEMMA FoundFits ==
  ASSUME Line, NEW p \in Places, ~NoMore(p)
  PROVE  /\ OptionOf(p).past \in Nat /\ OptionOf(p).place \in Nat
         /\ OptionOf(p).past = 0 => OptionOf(p).place = Letter(p) + 1
         /\ Letter(p) \in Nat /\ (p[2] = 0 => Letter(p) > 0)
         /\ OptionOf(p).past # 0 => OptionOf(p).place = 0
  <1> DEFINE os     == OptstringOf(who, p[3])
             a      == start[p[1]]
             behind == Behind(start, p[1])
  <1>1. who \in DOMAIN Callers
    BY DEF Line
  <1>2. /\ Letter(p) \in Nat /\ (p[2] = 0 => Letter(p) > 0)
    BY DEF Letter, Opening, Places
  <1>3. Len(behind) \in Nat /\ (behind # << >> => Len(behind) >= 1)
    BY PlaceIs, BehindIs
  <1>4. \A k \in DOMAIN os : os[k] # "-1"
    BY <1>1, PlaceIs, OptstringIs
  <1>5. Fits(OptionAt(os, a, Letter(p), behind), os, a, Letter(p), behind)
    <2> HIDE DEF os, a, behind
    <2>1. QED
      BY <1>1, <1>2, <1>3, <1>4, OptionFits
  <1>6. OptionOf(p) = OptionAt(os, a, Letter(p), behind)
    BY DEF OptionOf, Letter
  <1>7. QED
    BY <1>2, <1>5, <1>6 DEF Fits

(* From a place that does not end the reading it goes on to another. *)
LEMMA OnwardIs ==
  ASSUME Line, NEW p \in Places, ~ReadingEnds(p)
  PROVE  /\ Onward(p) \in Places
         /\ Onward(p)[1] \in Nat /\ Onward(p)[2] \in Nat /\ p[1] <= Onward(p)[1]
         /\ Onward(p)[1] = p[1] => Onward(p)[2] > p[2]
  <1>1. ~NoMore(p) /\ p[1] \in Nat /\ p[2] \in Nat /\ p[3] \in BOOLEAN
    BY PlaceIs DEF ReadingEnds
  <1>2. CASE AtNonoption(p)
    <2> DEFINE again == p[3] /\ ordering = "PERMUTE"
    <2>1. Onward(p) = <<p[1] + 1, 0, again>>
      BY <1>2 DEF Onward
    <2>2. again \in BOOLEAN
      OBVIOUS
    <2> HIDE DEF again
    <2>3. QED
      BY <2>1, <2>2, <1>1 DEF Places
  <1>3. CASE ~AtNonoption(p)
    <2> DEFINE past == OptionOf(p).past
               place == OptionOf(p).place
               again == FALSE
    <2>1. Onward(p) = <<p[1] + past, place, again>> /\ again \in BOOLEAN
      BY <1>3 DEF Onward
    <2>2. past \in Nat /\ place \in Nat /\ (past = 0 => place = Letter(p) + 1)
          /\ Letter(p) \in Nat
      BY <1>1, FoundFits
    <2>3. Letter(p) >= p[2]
      BY <1>1, <2>2 DEF Letter
    <2> HIDE DEF past, place, again
    <2>4. p[1] + past \in Nat /\ p[1] <= p[1] + past
      BY <2>2, <1>1
    <2>5. Onward(p) \in Places
      BY <2>1, <2>2, <2>4 DEF Places
    <2>6. Onward(p)[1] = p[1] + past /\ Onward(p)[2] = place
      BY <2>1
    <2>7. p[1] + past = p[1] => past = 0
      BY <2>2, <1>1
    <2>8. past = 0 => place > p[2]
      BY <2>2, <2>3, <1>1
    <2>9. QED
      BY <2>2, <2>4, <2>5, <2>6, <2>7, <2>8
  <1>4. QED
    BY <1>2, <1>3

(* What is read there, and what is left over at the end, are parts. *)
LEMMA ReadIsPart ==
  ASSUME Line, NEW p \in Places
  PROVE  /\ ReadingEnds(p) => LeftOver(p) \in Parts
         /\ ~ReadingEnds(p) => TakenAt(p) \in Parts
  <1>0. << >> \in Seq(Elems) /\ << >> \in Seq(Opts)
    OBVIOUS
  <1>1. CASE NoMore(p)
    <2> DEFINE none == << >>
    <2>1. LeftOver(p) = Part(none, none, none) /\ ReadingEnds(p)
      BY <1>1 DEF LeftOver, ReadingEnds
    <2>2. none \in Seq(Elems) /\ none \in Seq(Opts)
      BY <1>0
    <2> HIDE DEF none
    <2>3. Part(none, none, none) \in Parts
      BY <2>2, PartIs
    <2>4. QED
      BY <2>1, <2>3
  <1>2. CASE ~NoMore(p)
    <2> DEFINE e == start[p[1]]
    <2>1. /\ p[1] \in Nat /\ p[1] + 1 \in Nat /\ argc \in Nat /\ p[1] <= argc
          /\ p[1] + 1 <= argc /\ e \in Elems
      BY <1>2, PlaceIs
    <2>2. <<e>> \in Seq(Elems)
      BY <2>1
    <2>3. Elements(p[1] + 1, argc) \in Seq(Elems) /\ Elements(p[1], argc) \in Seq(Elems)
      BY <2>1, ElementsAre
    <2>4. LeftOver(p) \in Parts
      <3>1. LeftOver(p) = IF AtMark(p) THEN Part(<< >>, <<e>>, Elements(p[1] + 1, argc))
                          ELSE Part(<< >>, << >>, Elements(p[1], argc))
        BY <1>2 DEF LeftOver
      <3> HIDE DEF e
      <3>2. QED
        <4>1. Part(<< >>, <<e>>, Elements(p[1] + 1, argc)) \in Parts
          BY <2>2, <2>3, <1>0, PartIs
        <4>2. Part(<< >>, << >>, Elements(p[1], argc)) \in Parts
          BY <2>3, <1>0, PartIs
        <4>3. QED
          BY <3>1, <4>1, <4>2, Zenon
    <2>5. TakenAt(p) \in Parts
      <3> DEFINE o == <<OptionOf(p).opt, OptionOf(p).arg>>
                 u == <<"1", <<e>>>>
      <3>1. <<o>> \in Seq(Opts) /\ <<u>> \in Seq(Opts)
        <4>1. o \in Opts /\ u \in Opts
          BY <2>1 DEF Opts
        <4> HIDE DEF o, u
        <4>2. QED
          BY <4>1
      <3>2. Elements(p[1], OptionOf(p).past) \in Seq(Elems)
        BY <1>2, <2>1, FoundFits, ElementsAre
      <3>3. TakenAt(p) = IF ~AtNonoption(p)
                           THEN Part(<<o>>, Elements(p[1], OptionOf(p).past), << >>)
                         ELSE IF ordering = "PERMUTE" THEN Part(<< >>, << >>, <<e>>)
                         ELSE Part(<<u>>, <<e>>, << >>)
        BY DEF TakenAt
      <3> HIDE DEF o, u, e
      <3>4. QED
        <4>1. Part(<<o>>, Elements(p[1], OptionOf(p).past), << >>) \in Parts
          BY <3>1, <3>2, <1>0, PartIs
        <4>2. Part(<< >>, << >>, <<e>>) \in Parts
          BY <2>2, <1>0, PartIs
        <4>3. Part(<<u>>, <<e>>, << >>) \in Parts
          BY <3>1, <2>2, <1>0, PartIs
        <4>4. QED
          BY <3>3, <4>1, <4>2, <4>3, Zenon
    <2>6. QED
      BY <2>4, <2>5
  <1>3. QED
    BY <1>1, <1>2

(* A measure of what there is still to read. *)
LEMMA ReadingShortens ==
  ASSUME Line
  PROVE  \E M \in [Places -> Nat] :
           \A p \in Places : ~ReadingEnds(p) => M[Onward(p)] < M[p]
  <1>1. argc \in Nat
    BY TheNumbers
  <1> DEFINE lengths == [k \in 0 .. argc - 1 |-> Len(start[k])]
  <1>2. lengths \in [0 .. argc - 1 -> Nat]
    <2>1. \A k \in 0 .. argc - 1 : Len(start[k]) \in Nat
      BY SequencesAreTexts DEF Line, IsText
    <2>2. QED
      BY <2>1
  <1>3. PICK L \in Nat : \A k \in 0 .. argc - 1 : lengths[k] <= L
    BY <1>1, <1>2, Bounded
  <1>4. \A k \in 0 .. argc - 1 : Len(start[k]) <= L
    BY <1>3
  <1> HIDE DEF lengths
  <1> DEFINE M == [p \in Places |-> IF NoMore(p) THEN 0
                                    ELSE (argc - p[1]) * (L + 2) - p[2]]
  <1>5. ASSUME NEW x \in Nat, NEW y \in Nat, x < y
        PROVE  x * (L + 2) + (L + 2) <= y * (L + 2)
    <2>1. PICK d \in Nat : y = (x + 1) + d
      <3>1. y - (x + 1) \in Nat /\ y = (x + 1) + (y - (x + 1))
        BY <1>5
      <3>2. QED
        BY <3>1
    <2>2. y * (L + 2) = x * (L + 2) + (L + 2) + d * (L + 2)
      BY <2>1
    <2>3. d * (L + 2) \in Nat /\ x * (L + 2) \in Nat
      OBVIOUS
    <2>4. QED
      BY <2>2, <2>3
  <1>6. ASSUME NEW p \in Places, ~NoMore(p)
        PROVE  /\ argc - p[1] \in Nat /\ 0 < argc - p[1] /\ p[2] \in Nat /\ p[2] <= L
               /\ (argc - p[1]) * (L + 2) \in Nat /\ L + 2 <= (argc - p[1]) * (L + 2)
    <2>1. argc - p[1] \in Nat /\ 0 < argc - p[1] /\ p[2] \in Nat /\ p[2] <= L
      BY <1>4, <1>6, PlaceIs
    <2>2. 0 * (L + 2) + (L + 2) <= (argc - p[1]) * (L + 2)
      BY <2>1, <1>5
    <2>3. QED
      BY <2>1, <2>2
  <1>7. M \in [Places -> Nat]
    <2>1. ASSUME NEW p \in Places, ~NoMore(p)
          PROVE  (argc - p[1]) * (L + 2) - p[2] \in Nat
      <3> DEFINE n == (argc - p[1]) * (L + 2)
      <3>1. n \in Nat /\ L + 2 <= n /\ p[2] \in Nat /\ p[2] <= L
        BY <2>1, <1>6
      <3> HIDE DEF n
      <3>2. n - p[2] \in Nat
        BY <3>1
      <3>3. QED
        BY <3>2 DEF n
    <2>2. QED
      BY <2>1
  <1>8. ASSUME NEW p \in Places, ~ReadingEnds(p)
        PROVE  M[Onward(p)] < M[p]
    <2> DEFINE q == Onward(p)
               n == (argc - p[1]) * (L + 2)
               m == (argc - q[1]) * (L + 2)
    <2>1. q \in Places /\ q[1] \in Nat /\ q[2] \in Nat /\ p[1] <= q[1]
          /\ (q[1] = p[1] => q[2] > p[2])
      BY <1>8, OnwardIs
    <2> HIDE DEF q
    <2>2. ~NoMore(p) /\ M[p] = n - p[2]
      BY <1>8 DEF ReadingEnds
    <2>3. n \in Nat /\ L + 2 <= n /\ p[2] \in Nat /\ p[2] <= L /\ p[1] \in Nat
      BY <2>2, <1>6, PlaceIs
    <2>4. CASE NoMore(q)
      <3>1. M[q] = 0
        BY <2>1, <2>4
      <3> HIDE DEF M, n
      <3>2. QED
        BY <2>2, <2>3, <3>1 DEF q
    <2>5. CASE ~NoMore(q)
      <3>1. M[q] = m - q[2]
        BY <2>1, <2>5
      <3>2. m \in Nat /\ argc - q[1] \in Nat /\ argc - p[1] \in Nat
        BY <2>1, <2>2, <2>5, <1>6
      <3>3. CASE q[1] = p[1]
        <4>1. m = n /\ q[2] > p[2]
          BY <2>1, <3>3
        <4> HIDE DEF M, n, m
        <4>2. QED
          BY <2>1, <2>2, <2>3, <3>1, <3>2, <4>1 DEF q
      <3>4. CASE q[1] # p[1]
        <4>1. argc - q[1] < argc - p[1]
          <5> HIDE DEF M, n, m
          <5>1. q[1] \in Nat /\ p[1] \in Nat /\ p[1] < q[1]
            BY <2>1, <2>3, <3>4
          <5>2. QED
            BY <5>1, <1>1
        <4>2. m + (L + 2) <= n
          BY <3>2, <4>1, <1>5
        <4> HIDE DEF M, n, m
        <4>3. QED
          BY <2>1, <2>2, <2>3, <3>1, <3>2, <4>2 DEF q
      <3>5. QED
        BY <3>3, <3>4
    <2>6. QED
      BY <2>4, <2>5
  <1>9. QED
    BY <1>7, <1>8

(***************************************************************************)
(* So what is read from a place is well-defined: what is read there and    *)
(* what is read from the next place on.                                    *)
(***************************************************************************)
LEMMA ReadFromIs ==
  Line => /\ ReadFrom \in [Places -> Parts]
          /\ \A p \in Places :
               ReadFrom[p] = IF ReadingEnds(p) THEN LeftOver(p)
                             ELSE Joined(TakenAt(p), ReadFrom[Onward(p)])
  <1> SUFFICES ASSUME Line
               PROVE  /\ ReadFrom \in [Places -> Parts]
                      /\ \A p \in Places :
                           ReadFrom[p] = IF ReadingEnds(p) THEN LeftOver(p)
                                         ELSE Joined(TakenAt(p), ReadFrom[Onward(p)])
    OBVIOUS
  <1> DEFINE Nothing == Part(<< >>, << >>, << >>)
             T == {p \in Places : ReadingEnds(p)}
             N == [p \in Places |-> IF ReadingEnds(p) THEN p ELSE Onward(p)]
             B == [p \in Places |-> IF ReadingEnds(p) THEN LeftOver(p) ELSE Nothing]
             C == [p \in Places |-> [r \in Parts |-> IF ReadingEnds(p) THEN r
                                                     ELSE Joined(TakenAt(p), r)]]
             Read(g) == [p \in Places |-> IF ReadingEnds(p) THEN LeftOver(p)
                                          ELSE Joined(TakenAt(p), g[Onward(p)])]
  <1>1. PICK M \in [Places -> Nat] :
          \A p \in Places : ~ReadingEnds(p) => M[Onward(p)] < M[p]
    BY ReadingShortens
  <1>2. N \in [Places -> Places] /\ \A p \in Places \ T : M[N[p]] < M[p]
    <2>1. \A p \in Places : ~ReadingEnds(p) => Onward(p) \in Places
      BY OnwardIs
    <2>2. QED
      BY <2>1, <1>1
  <1>3. B \in [Places -> Parts]
    <2>1. Nothing \in Parts
      <3>1. << >> \in Seq(Opts) /\ << >> \in Seq(Elems)
        OBVIOUS
      <3>2. QED
        BY <3>1, PartIs
    <2>2. \A p \in Places : ReadingEnds(p) => LeftOver(p) \in Parts
      BY ReadIsPart
    <2> HIDE DEF Nothing
    <2>3. QED
      BY <2>1, <2>2
  <1>4. C \in [Places -> [Parts -> Parts]]
    <2>1. \A p \in Places, r \in Parts : ~ReadingEnds(p) => Joined(TakenAt(p), r) \in Parts
      BY ReadIsPart, JoinedIs
    <2>2. QED
      BY <2>1
  <1>5. T \in SUBSET Places
    OBVIOUS
  <1>6. PICK g \in [Places -> Parts] :
          \A p \in Places : g[p] = IF p \in T THEN B[p] ELSE C[p][g[N[p]]]
    <2> HIDE DEF T, N, B, C
    <2>1. M \in [Places -> Nat]
      BY <1>1
    <2>2. Linear(Places, Parts, M, N, T, B, C)
      BY <2>1, <1>2, <1>3, <1>4, <1>5, Zenon DEF Linear
    <2>3. QED
      BY <2>2, LinearRecursion, SMTT(60)
  <1>7. g = Read(g)
    <2>1. ASSUME NEW p \in Places
          PROVE  g[p] = IF ReadingEnds(p) THEN LeftOver(p)
                        ELSE Joined(TakenAt(p), g[Onward(p)])
      <3>1. CASE ReadingEnds(p)
        BY <3>1, <1>6
      <3>2. CASE ~ReadingEnds(p)
        <4>1. Onward(p) \in Places /\ N[p] = Onward(p) /\ p \notin T
          BY <3>2, OnwardIs
        <4>2. g[Onward(p)] \in Parts
          BY <4>1
        <4>3. C[p][g[Onward(p)]] = Joined(TakenAt(p), g[Onward(p)])
          BY <4>2, <3>2
        <4> HIDE DEF N, C, T, B
        <4>4. QED
          BY <4>1, <4>3, <3>2, <1>6
      <3>3. QED
        BY <3>1, <3>2
    <2>2. QED
      BY <2>1
  <1>8. ReadFrom = CHOOSE f : f = Read(f)
    BY Zenon DEF ReadFrom
  <1>9. ReadFrom = Read(ReadFrom)
    <2> HIDE DEF Read
    <2>1. QED
      BY <1>7, <1>8, Zenon
  <1>10. \A p \in Places :
           ReadFrom[p] = IF ReadingEnds(p) THEN LeftOver(p)
                         ELSE Joined(TakenAt(p), ReadFrom[Onward(p)])
    <2> DEFINE f == ReadFrom
    <2>1. f = Read(f)
      BY <1>9
    <2> HIDE DEF f
    <2>2. \A p \in Places : f[p] = IF ReadingEnds(p) THEN LeftOver(p)
                                   ELSE Joined(TakenAt(p), f[Onward(p)])
      BY <2>1
    <2>3. QED
      BY <2>2 DEF f
  <1>11. \A p \in Places : ReadFrom[p] \in Parts
    <2> DEFINE f == ReadFrom
               Bad == {p \in Places : f[p] \notin Parts}
               K == {M[p] : p \in Bad}
    <2>1. SUFFICES ASSUME Bad # {} PROVE FALSE
      OBVIOUS
    <2> HIDE DEF f
    <2>2. K \in SUBSET Nat /\ K # {}
      BY <2>1, <1>1
    <2>3. PICK k \in K : \A j \in K : k <= j
      BY <2>2, LeastNatural
    <2>4. PICK p \in Bad : M[p] = k
      OBVIOUS
    <2>5. ~ReadingEnds(p) /\ f[p] = Joined(TakenAt(p), f[Onward(p)])
      <3>1. ReadingEnds(p) => f[p] = LeftOver(p) /\ LeftOver(p) \in Parts
        BY <1>10, ReadIsPart DEF f
      <3>2. QED
        BY <3>1, <1>10 DEF f
    <2>6. Onward(p) \in Places /\ M[Onward(p)] < M[p] /\ TakenAt(p) \in Parts
      BY <2>5, <1>1, OnwardIs, ReadIsPart
    <2>7. Onward(p) \notin Bad
      <3>1. Onward(p) \in Bad => M[Onward(p)] \in K
        OBVIOUS
      <3>2. M[Onward(p)] \in Nat /\ M[p] \in Nat
        BY <2>6, <1>1
      <3> HIDE DEF Bad, K
      <3>3. QED
        BY <3>1, <3>2, <2>3, <2>4, <2>6
    <2>8. f[Onward(p)] \in Parts
      BY <2>6, <2>7
    <2>9. f[p] \in Parts
      BY <2>5, <2>6, <2>8, JoinedIs
    <2>10. QED
      BY <2>9
  <1>12. ReadFrom \in [Places -> Parts]
    <2> DEFINE f == ReadFrom
    <2>1. f = Read(f) /\ \A p \in Places : f[p] \in Parts
      BY <1>9, <1>11
    <2> HIDE DEF f
    <2>2. f = [p \in Places |-> f[p]]
      BY <2>1
    <2>3. f \in [Places -> Parts]
      BY <2>1, <2>2
    <2>4. QED
      BY <2>3 DEF f
  <1>13. QED
    BY <1>10, <1>12

(* It is the same as long as the vector and the caller are.                *)
LEMMA SameReading ==
  ASSUME UNCHANGED <<who, argc, start, ordering>>
  PROVE  /\ ReadFrom' = ReadFrom /\ Reading' = Reading
  <1>1. /\ FirstArg' = FirstArg /\ LongOptions' = LongOptions /\ Function' = Function
        /\ argc' = argc /\ start' = start /\ ordering' = ordering /\ who' = who
    BY SameCaller
  <1>2. \A s : Candidates(s)' = Candidates(s)
    BY <1>1 DEF Candidates
  <1>3. \A s : Found(s)' = Found(s) /\ Exact(s)' = Exact(s)
    BY <1>1, <1>2 DEF Found, Exact
  <1>4. \A s, strict : Ambiguous(s, strict)' = Ambiguous(s, strict)
    BY <1>1, <1>2, <1>3 DEF Ambiguous
  <1>5. \A k, arg, n : FoundLong(k, arg, n)' = FoundLong(k, arg, n)
    BY <1>1 DEF FoundLong
  <1>6. /\ \A os, a, j : IsLong(os, a, j)' = IsLong(os, a, j)
        /\ \A os, a, j, behind : ShortAt(os, a, j, behind)' = ShortAt(os, a, j, behind)
    <2>1. \A os, a, j : IsLong(os, a, j)' = IsLong(os, a, j)
      BY <1>1, <1>2, SMT DEF IsLong
    <2>2. \A os, a, j, behind : ShortAt(os, a, j, behind)' = ShortAt(os, a, j, behind)
      BY SMT DEF ShortAt
    <2>3. QED
      BY <2>1, <2>2
  <1>7. \A os, a, j, behind : LongAt(os, a, j, behind)' = LongAt(os, a, j, behind)
    <2> SUFFICES ASSUME NEW os, NEW a, NEW j, NEW behind
                 PROVE  LongAt(os, a, j, behind)' = LongAt(os, a, j, behind)
      OBVIOUS
    <2> DEFINE s == From(a, j)
    <2>1. /\ Candidates(s)' = Candidates(s) /\ Found(s)' = Found(s)
          /\ Ambiguous(s, Function = "getopt_long_only")'
               = Ambiguous(s, Function = "getopt_long_only")
          /\ \A k, arg, n : FoundLong(k, arg, n)' = FoundLong(k, arg, n)
          /\ LongOptions' = LongOptions
      BY <1>1, <1>2, <1>3, <1>4, <1>5
    <2> HIDE DEF s
    <2>2. QED
      BY <2>1, Zenon DEF LongAt, s
  <1>8. \A os, a, j, behind : WAt(os, a, j, behind)' = WAt(os, a, j, behind)
    <2> SUFFICES ASSUME NEW os, NEW a, NEW j, NEW behind
                 PROVE  WAt(os, a, j, behind)' = WAt(os, a, j, behind)
      OBVIOUS
    <2> DEFINE s == IF j = Len(a) THEN behind[1] ELSE From(a, j + 1)
    <2>1. /\ Candidates(s)' = Candidates(s) /\ Found(s)' = Found(s)
          /\ Ambiguous(s, TRUE)' = Ambiguous(s, TRUE)
          /\ \A k, arg, n : FoundLong(k, arg, n)' = FoundLong(k, arg, n)
          /\ LongOptions' = LongOptions
      BY <1>1, <1>2, <1>3, <1>4, <1>5
    <2> HIDE DEF s
    <2>2. QED
      BY <2>1, Zenon DEF WAt, s
  <1>9. \A os, a, j, behind : OptionAt(os, a, j, behind)' = OptionAt(os, a, j, behind)
    <2> SUFFICES ASSUME NEW os, NEW a, NEW j, NEW behind
                 PROVE  OptionAt(os, a, j, behind)' = OptionAt(os, a, j, behind)
      OBVIOUS
    <2>1. /\ IsLong(os, a, j)' = IsLong(os, a, j)
          /\ LongAt(os, a, j, behind)' = LongAt(os, a, j, behind)
          /\ WAt(os, a, j, behind)' = WAt(os, a, j, behind)
          /\ ShortAt(os, a, j, behind)' = ShortAt(os, a, j, behind)
      BY <1>6, <1>7, <1>8
    <2>2. QED
      BY <2>1, Zenon DEF OptionAt
  <1>10. /\ \A k, n : Elements(k, n)' = Elements(k, n)
         /\ \A v, k : Behind(v, k)' = Behind(v, k)
         /\ \A a : Opening(a)' = Opening(a)
    BY <1>1 DEF Elements, Behind, Opening
  <1>11. \A p : /\ OptionOf(p)' = OptionOf(p) /\ NoMore(p)' = NoMore(p)
                /\ AtMark(p)' = AtMark(p) /\ AtNonoption(p)' = AtNonoption(p)
    BY <1>1, <1>9, <1>10, Zenon DEF OptionOf, NoMore, AtMark, AtNonoption
  <1>12. \A p : /\ ReadingEnds(p)' = ReadingEnds(p) /\ LeftOver(p)' = LeftOver(p)
                /\ TakenAt(p)' = TakenAt(p) /\ Onward(p)' = Onward(p)
    BY <1>1, <1>10, <1>11, Zenon DEF ReadingEnds, LeftOver, TakenAt, Onward
  <1>13. ReadFrom' = ReadFrom
    BY <1>12, Zenon DEF ReadFrom
  <1>14. QED
    BY <1>1, <1>13 DEF Reading

(* What is read from a place, in its three parts. *)
OptsFrom(p) == ReadFrom[p].opts
HeadFrom(p) == ReadFrom[p].head
TailFrom(p) == ReadFrom[p].tail

(* They are texts. *)
LEMMA FromTexts ==
  ASSUME Line, NEW p \in Places
  PROVE  IsText(OptsFrom(p)) /\ IsText(HeadFrom(p)) /\ IsText(TailFrom(p))
  <1>1. ReadFrom[p] \in Parts
    BY ReadFromIs
  <1>2. /\ OptsFrom(p) \in Seq(Opts) /\ HeadFrom(p) \in Seq(Elems)
        /\ TailFrom(p) \in Seq(Elems)
    BY <1>1 DEF Parts, OptsFrom, HeadFrom, TailFrom
  <1>3. QED
    BY <1>2, SequencesAreTexts

(* What is read where the reading goes on. *)
LEMMA ReadOn ==
  ASSUME Line, NEW p \in Places, ~ReadingEnds(p), NEW o, NEW h, NEW t,
         TakenAt(p) = Part(o, h, t)
  PROVE  /\ Onward(p) \in Places /\ IsText(o) /\ IsText(h) /\ IsText(t)
         /\ OptsFrom(p) = o \o OptsFrom(Onward(p))
         /\ HeadFrom(p) = h \o HeadFrom(Onward(p))
         /\ TailFrom(p) = t \o TailFrom(Onward(p))
  <1> DEFINE r == ReadFrom[p]
             u == ReadFrom[Onward(p)]
             v == TakenAt(p)
  <1>1. Onward(p) \in Places
    BY OnwardIs
  <1>2. u \in Parts /\ v \in Parts /\ r = Joined(v, u)
    BY <1>1, ReadIsPart, ReadFromIs
  <1>3. v.opts = o /\ v.head = h /\ v.tail = t
    BY DEF Part
  <1> HIDE DEF r, u, v
  <1>4. /\ r.opts = v.opts \o u.opts /\ r.head = v.head \o u.head
        /\ r.tail = v.tail \o u.tail
    BY <1>2, JoinedIs
  <1>5. IsText(o) /\ IsText(h) /\ IsText(t)
    <2>1. o \in Seq(Opts) /\ h \in Seq(Elems) /\ t \in Seq(Elems)
      BY <1>2, <1>3 DEF Parts
    <2>2. QED
      BY <2>1, SequencesAreTexts
  <1>6. QED
    BY <1>1, <1>3, <1>4, <1>5, Zenon DEF OptsFrom, HeadFrom, TailFrom, r, u

(* And where it ends. *)
LEMMA ReadOut ==
  ASSUME Line, NEW p \in Places, ReadingEnds(p), NEW o, NEW h, NEW t,
         LeftOver(p) = Part(o, h, t)
  PROVE  OptsFrom(p) = o /\ HeadFrom(p) = h /\ TailFrom(p) = t
  <1>1. ReadFrom[p] = LeftOver(p)
    BY ReadFromIs
  <1>2. QED
    BY <1>1 DEF OptsFrom, HeadFrom, TailFrom, Part

------------------------------------------------------------------------------
(***************************************************************************)
(* The second invariant, of what has been read.  Underway: the command     *)
(* line says the options that have been seen, and those that are read from *)
(* where the scan is; its options and their arguments lie in front of the  *)
(* part that was skipped, and behind it up to where the scan is, its other *)
(* elements in that part.  Done: at the end all is seen and in its place.  *)
(***************************************************************************)
First  == seen = << >>
Here   == <<optind, nextchar, First>>
Origin == <<FirstArg, 0, TRUE>>

Sofar(v, i, fn, ln, s, p) ==
  /\ OptsFrom(Origin) = s \o OptsFrom(p)
  /\ i <= argc =>
       /\ HeadFrom(Origin) = (Slice(v, FirstArg, fn) \o Slice(v, ln, i)) \o HeadFrom(p)
       /\ TailFrom(Origin) = Slice(v, fn, ln) \o TailFrom(p)
Underway == Sofar(argv, optind, first_nonopt, last_nonopt, seen, Here)
Done ==
  /\ seen = OptsFrom(Origin)
  /\ Slice(argv, FirstArg, argc) = HeadFrom(Origin) \o TailFrom(Origin)
  /\ optind = FirstArg + Len(HeadFrom(Origin))

ReadInv ==
  /\ initialized /\ ~Over => Underway
  /\ Over => Done

(* The places that matter are places. *)
LEMMA HereIs ==
  ASSUME PlaceInv
  PROVE  /\ Here \in Places /\ Here[1] = optind /\ Here[2] = nextchar /\ Here[3] = First
         /\ Origin \in Places
  <1>1. First \in BOOLEAN /\ optind \in Nat /\ nextchar \in Nat /\ FirstArg \in Nat
    BY TheNumbers DEF First, PlaceInv, Scanned
  <1>2. Origin \in Places
    <2> DEFINE yes == TRUE
    <2>1. yes \in BOOLEAN
      OBVIOUS
    <2> HIDE DEF yes
    <2>2. <<FirstArg, 0, yes>> \in Places
      BY <2>1, <1>1 DEF Places
    <2>3. QED
      BY <2>2 DEF yes, Origin
  <1>3. QED
    BY <1>1, <1>2 DEF Here, Places

(* What is read is the same as long as the vector and the caller are.      *)
LEMMA SameParts ==
  ASSUME UNCHANGED <<who, argc, start, ordering>>
  PROVE  /\ FirstArg' = FirstArg
         /\ OptsFrom(Origin)' = OptsFrom(Origin) /\ HeadFrom(Origin)' = HeadFrom(Origin)
         /\ TailFrom(Origin)' = TailFrom(Origin)
         /\ \A p : /\ OptsFrom(p)' = OptsFrom(p) /\ HeadFrom(p)' = HeadFrom(p)
                   /\ TailFrom(p)' = TailFrom(p)
  <1>1. ReadFrom' = ReadFrom /\ FirstArg' = FirstArg
    BY SameReading, SameCaller
  <1>2. QED
    BY <1>1 DEF OptsFrom, HeadFrom, TailFrom, Origin

(* What has not been scanned is as it was. *)
LEMMA AheadIs ==
  ASSUME PlaceInv, initialized, ~Over, optind <= argc
  PROVE  /\ \A k \in optind .. argc - 1 : argv[k] = start[k] /\ k \in 0 .. argc - 1
         /\ Behind(argv, optind) = Behind(start, optind)
         /\ \A i, j \in Nat : optind <= i /\ i <= j /\ j <= argc
                              => Slice(argv, i, j) = Slice(start, i, j)
  <1>1. /\ argc \in Nat /\ optind \in Nat /\ last_nonopt \in Nat /\ last_nonopt <= optind
        /\ \A k \in 0 .. argc - 1 : k >= last_nonopt => argv[k] = start[k]
    BY TheNumbers DEF PlaceInv, Scanned, Staged
  <1>2. \A k \in optind .. argc - 1 : argv[k] = start[k] /\ k \in 0 .. argc - 1
    BY <1>1
  <1>3. \A j \in 1 .. argc - optind - 1 : argv[optind + j] = start[optind + j]
    <2> SUFFICES ASSUME NEW j \in 1 .. argc - optind - 1
                 PROVE  argv[optind + j] = start[optind + j]
      OBVIOUS
    <2>1. optind + j \in optind .. argc - 1
      BY <1>1
    <2>2. QED
      BY <2>1, <1>2
  <1>4. \A i, j \in Nat : optind <= i /\ i <= j /\ j <= argc
                          => Slice(argv, i, j) = Slice(start, i, j)
    <2> SUFFICES ASSUME NEW i \in Nat, NEW j \in Nat, optind <= i, i <= j, j <= argc
                 PROVE  Slice(argv, i, j) = Slice(start, i, j)
      OBVIOUS
    <2>1. \A k \in i .. j - 1 : argv[k] = start[k]
      BY <1>1, <1>2
    <2>2. QED
      BY <2>1, SameSlice
  <1>5. QED
    BY <1>2, <1>3, <1>4 DEF Behind

(* One option is taken from where the scan is, and its elements passed. *)
LEMMA OneTaken ==
  ASSUME NEW e, NEW n \in Nat
  PROVE  /\ PlaceInv /\ initialized /\ ~Over /\ Underway /\ optind < argc
         /\ UNCHANGED <<who, argc, argv, start, ordering, first_nonopt, last_nonopt>>
         /\ ~ReadingEnds(Here) /\ TakenAt(Here) = Part(<<e>>, Elements(optind, n), << >>)
         /\ optind' = optind + n /\ seen' = Append(seen, e) /\ Here' = Onward(Here)
         => Underway'
  <1>0. SUFFICES
          ASSUME /\ PlaceInv /\ initialized /\ ~Over /\ Underway /\ optind < argc
                 /\ UNCHANGED <<who, argc, argv, start, ordering, first_nonopt, last_nonopt>>,
                 ~ReadingEnds(Here), TakenAt(Here) = Part(<<e>>, Elements(optind, n), << >>),
                 optind' = optind + n, seen' = Append(seen, e), Here' = Onward(Here)
          PROVE  Underway'
    OBVIOUS
  <1> DEFINE q == Onward(Here)
             h == Elements(optind, n)
             uo == OptsFrom(q)
             uh == HeadFrom(q)
             ut == TailFrom(q)
  <1>1. /\ OptsFrom(Here) = <<e>> \o uo /\ HeadFrom(Here) = h \o uh
        /\ TailFrom(Here) = << >> \o ut
        /\ IsText(h) /\ IsText(uo) /\ IsText(uh) /\ IsText(ut)
    <2>1. Here \in Places /\ Line
      BY <1>0, HereIs DEF PlaceInv
    <2>2. /\ q \in Places /\ IsText(h)
          /\ OptsFrom(Here) = <<e>> \o uo /\ HeadFrom(Here) = h \o uh
          /\ TailFrom(Here) = << >> \o ut
      <3> DEFINE o == <<e>>
                 t == << >>
      <3>1. ~ReadingEnds(Here) /\ TakenAt(Here) = Part(o, h, t)
        BY <1>0
      <3> HIDE DEF h, o, t
      <3>2. q \in Places /\ IsText(h)
        BY <2>1, <3>1, ReadOn
      <3>3. OptsFrom(Here) = o \o uo
        BY <2>1, <3>1, ReadOn
      <3>4. HeadFrom(Here) = h \o uh
        BY <2>1, <3>1, ReadOn
      <3>5. TailFrom(Here) = t \o ut
        BY <2>1, <3>1, ReadOn
      <3>6. QED
        BY <3>2, <3>3, <3>4, <3>5 DEF o, t
    <2>3. IsText(uo) /\ IsText(uh) /\ IsText(ut)
      BY <2>1, <2>2, FromTexts
    <2>4. QED
      BY <2>2, <2>3
  <1> HIDE DEF h, uo, uh, ut, q
  <1>2. IsText(seen)
    BY <1>0 DEF PlaceInv, Scanned
  <1>3. OptsFrom(Origin) = seen' \o uo
    <2>1. OptsFrom(Origin) = seen \o (<<e>> \o uo)
      BY <1>0, <1>1 DEF Underway, Sofar
    <2>2. IsText(<<e>>) /\ Append(seen, e) = seen \o <<e>>
      BY <1>2, OneMore
    <2>3. (seen \o <<e>>) \o uo = seen \o (<<e>> \o uo)
      BY <1>1, <1>2, <2>2, JoinsAssociate
    <2>4. QED
      BY <1>0, <2>1, <2>2, <2>3
  <1>4. ASSUME optind' <= argc
        PROVE  /\ HeadFrom(Origin) = (Slice(argv, FirstArg, first_nonopt)
                                       \o Slice(argv, last_nonopt, optind')) \o uh
               /\ TailFrom(Origin) = Slice(argv, first_nonopt, last_nonopt) \o ut
    <2> DEFINE a == Slice(argv, FirstArg, first_nonopt)
               b == Slice(argv, last_nonopt, optind)
    <2>1. /\ optind \in Nat /\ argc \in Nat /\ first_nonopt \in Nat /\ last_nonopt \in Nat
          /\ FirstArg \in Nat /\ FirstArg <= first_nonopt /\ first_nonopt <= last_nonopt
          /\ last_nonopt <= optind /\ optind <= argc /\ optind + n <= argc
          /\ optind + n \in Nat /\ optind <= optind + n
      BY <1>0, <1>4, TheNumbers DEF PlaceInv, Scanned, Staged
    <2>2. /\ HeadFrom(Origin) = (a \o b) \o (h \o uh)
          /\ TailFrom(Origin) = Slice(argv, first_nonopt, last_nonopt) \o (<< >> \o ut)
      BY <1>0, <1>1, <2>1 DEF Underway, Sofar
    <2>3. h = Slice(argv, optind, optind + n)
      <3>1. h = Slice(start, optind, optind + n)
        BY <2>1, ElementsAre DEF h
      <3>2. QED
        BY <1>0, <2>1, <3>1, AheadIs
    <2>4. b \o h = Slice(argv, last_nonopt, optind')
      <3> DEFINE m == optind + n
      <3>1. /\ last_nonopt \in Nat /\ optind \in Nat /\ m \in Nat
            /\ last_nonopt <= optind /\ optind <= m
        BY <2>1
      <3> HIDE DEF m
      <3>2. b \o Slice(argv, optind, m) = Slice(argv, last_nonopt, m)
        BY <3>1, SlicesJoin
      <3>3. QED
        BY <1>0, <2>3, <3>2 DEF m
    <2>5. IsText(a) /\ IsText(b)
      BY <2>1, SliceIs
    <2> HIDE DEF a, b
    <2>6. (a \o b) \o (h \o uh) = (a \o (b \o h)) \o uh
      <3>0. IsText(h) /\ IsText(uh)
        BY <1>1
      <3>1. IsText(a \o b) /\ IsText(b \o h)
        BY <2>5, <3>0, JoinedTexts
      <3>2. (a \o b) \o (h \o uh) = ((a \o b) \o h) \o uh
        <4> DEFINE x == a \o b
        <4>1. IsText(x) /\ IsText(h) /\ IsText(uh)
          BY <3>0, <3>1
        <4> HIDE DEF x
        <4>2. (x \o h) \o uh = x \o (h \o uh)
          BY <4>1, JoinsAssociate
        <4>3. QED
          BY <4>2 DEF x
      <3>3. (a \o b) \o h = a \o (b \o h)
        BY <2>5, <3>0, JoinsAssociate
      <3>4. QED
        BY <3>2, <3>3
    <2>7. << >> \o ut = ut
      BY <1>1, JoinedTexts
    <2>8. QED
      BY <2>2, <2>4, <2>6, <2>7 DEF a
  <1>5. Sofar(argv, optind', first_nonopt, last_nonopt, seen', q)
    BY <1>3, <1>4 DEF Sofar, uo, uh, ut
  <1>6. QED
    BY <1>0, <1>5, SameParts, Zenon DEF Underway, Sofar, q

(* What a call finds is what the command line says at that place. *)
LEMMA DecodeReads == PlaceInv /\ ReadInv /\ Decode => ReadInv'
  <1>0. SUFFICES ASSUME PlaceInv, ReadInv, Decode PROVE ReadInv'
    OBVIOUS
  <1> DEFINE f == OptionAt(optstring, argv[optind], nextchar, Behind(argv, optind))
             e == <<f.opt, f.arg>>
             n == f.past
  <1>1. /\ pc = "decode" /\ Take(f) /\ initialized /\ ~Over /\ Underway
        /\ Line /\ optind < argc /\ nextchar \in 2 .. Len(argv[optind])
        /\ optstring = OptstringOf(who, First)
    BY <1>0 DEF Decode, PlaceInv, Staged, Over, ReadInv, First
  <1>2. optind \in Nat /\ argc \in Nat /\ optind <= argc
    BY <1>0, <1>1, TheNumbers DEF PlaceInv, Scanned
  <1>3. argv[optind] = start[optind] /\ Behind(argv, optind) = Behind(start, optind)
    <2>1. optind \in optind .. argc - 1
      BY <1>1, <1>2
    <2>2. QED
      BY <1>0, <1>1, <1>2, <2>1, AheadIs
  <1>4. f.past \in Nat /\ f.opt # "-1"
    BY <1>0, <1>1, DecodedFits DEF Fits
  <1>5. nextchar # 0 /\ ~(nextchar > Len(start[optind]))
    <2>1. start[optind] = argv[optind] /\ Len(argv[optind]) \in Nat
      <3>1. optind \in 0 .. argc - 1
        BY <1>1, <1>2
      <3>2. IsText(argv[optind])
        BY <1>1, <3>1 DEF Line
      <3>3. QED
        BY <1>3, <3>2, SequencesAreTexts DEF IsText
    <2>2. QED
      BY <1>1, <2>1
  <1>6. Here[1] = optind /\ Here[2] = nextchar /\ Here[3] = First
    BY <1>0, HereIs
  <1>7. OptionOf(Here) = f
    BY <1>1, <1>3, <1>5, <1>6 DEF OptionOf
  <1> HIDE DEF f
  <1>8. ~ReadingEnds(Here) /\ ~AtNonoption(Here)
    BY <1>1, <1>2, <1>5, <1>6 DEF ReadingEnds, NoMore, AtMark, AtNonoption
  <1>9. /\ TakenAt(Here) = Part(<<e>>, Elements(optind, n), << >>)
        /\ Onward(Here) = <<optind + n, f.place, FALSE>>
    BY <1>6, <1>7, <1>8 DEF TakenAt, Onward
  <1>10. /\ UNCHANGED <<who, argc, argv, start, ordering, first_nonopt, last_nonopt>>
         /\ optind' = optind + n /\ nextchar' = f.place /\ pc' = "returned" /\ opt' = f.opt
         /\ seen' = Append(seen, e) /\ initialized' = initialized
    BY <1>1, <1>4 DEF Take, Return, onceVars
  <1>11. First' = FALSE
    BY <1>0, <1>10, AppendedText DEF First, PlaceInv, Scanned
  <1>12. Here' = Onward(Here)
    BY <1>9, <1>10, <1>11 DEF Here
  <1> HIDE DEF e, n
  <1>13. n \in Nat
    BY <1>4 DEF n
  <1>14. Underway'
    BY <1>0, <1>1, <1>8, <1>9, <1>10, <1>12, <1>13, OneTaken
  <1>15. QED
    BY <1>4, <1>10, <1>14 DEF ReadInv, Over

(* A non-option is none of "--". *)
LEMMA NonoptionIsNoMark ==
  ASSUME NEW a, Nonoption(a)
  PROVE  ~EndsOptions(a)
  <1>1. SUFFICES ASSUME EndsOptions(a) PROVE FALSE
    OBVIOUS
  <1>2. a = <<"-", "-">>
    BY <1>1 DEF EndsOptions
  <1>3. At(a, 1) = "-" /\ Len(a) = 2
    BY <1>2 DEF At
  <1>4. QED
    BY <1>3 DEF Nonoption

(* Where the reading ends, all has been seen, and what was skipped lies    *)
(* behind what was not.                                                    *)
LEMMA AllInPlace ==
  ASSUME PlaceInv, initialized, ~Over, Underway, optind <= argc,
         first_nonopt = last_nonopt \/ (last_nonopt = optind /\ optind = argc),
         OptsFrom(Here) = << >>, HeadFrom(Here) = << >>,
         TailFrom(Here) = Slice(argv, optind, argc)
  PROVE  /\ seen = OptsFrom(Origin)
         /\ Slice(argv, FirstArg, argc) = HeadFrom(Origin) \o TailFrom(Origin)
         /\ (IF first_nonopt # last_nonopt THEN first_nonopt ELSE optind)
              = FirstArg + Len(HeadFrom(Origin))
  <1>1. /\ optind \in Nat /\ argc \in Nat /\ first_nonopt \in Nat /\ last_nonopt \in Nat
        /\ FirstArg \in Nat /\ FirstArg <= first_nonopt /\ first_nonopt <= last_nonopt
        /\ last_nonopt <= optind /\ IsText(seen)
    BY TheNumbers DEF PlaceInv, Scanned, Staged
  <1> DEFINE a == Slice(argv, FirstArg, first_nonopt)
             b == Slice(argv, last_nonopt, optind)
             c == Slice(argv, first_nonopt, last_nonopt)
             d == Slice(argv, optind, argc)
             none == << >>
  <1>2. /\ OptsFrom(Origin) = seen \o none /\ HeadFrom(Origin) = (a \o b) \o none
        /\ TailFrom(Origin) = c \o d
    BY DEF Underway, Sofar
  <1>3. IsText(a) /\ IsText(b) /\ IsText(c) /\ IsText(d)
    BY <1>1, SliceIs
  <1>4. OptsFrom(Origin) = seen
    BY <1>1, <1>2, JoinedTexts
  <1>5. HeadFrom(Origin) = a \o b
    <2> HIDE DEF a, b
    <2>1. IsText(a \o b)
      BY <1>3, JoinedTexts
    <2>2. QED
      BY <1>2, <2>1, JoinedTexts
  <1>6. CASE first_nonopt = last_nonopt
    <2>1. a \o b = Slice(argv, FirstArg, optind) /\ c = none /\ FirstArg <= optind
      <3>0. /\ FirstArg \in Nat /\ first_nonopt \in Nat /\ optind \in Nat
            /\ FirstArg <= first_nonopt /\ first_nonopt <= optind
        BY <1>1
      <3>1. Slice(argv, FirstArg, first_nonopt) \o Slice(argv, first_nonopt, optind)
              = Slice(argv, FirstArg, optind)
        BY <3>0, SlicesJoin
      <3>2. c = none
        BY <1>1, <1>6, SmallSlices
      <3>3. QED
        BY <1>1, <1>6, <3>1, <3>2
    <2>2. Slice(argv, FirstArg, optind) \o d = Slice(argv, FirstArg, argc)
      <3>1. /\ FirstArg \in Nat /\ optind \in Nat /\ argc \in Nat
            /\ FirstArg <= optind /\ optind <= argc
        BY <1>1, <2>1
      <3>2. QED
        BY <3>1, SlicesJoin
    <2>3. TailFrom(Origin) = d
      <3> HIDE DEF d, c, none
      <3>1. << >> \o d = d
        BY <1>3, JoinedTexts
      <3>2. QED
        BY <1>2, <2>1, <3>1 DEF none
    <2>4. Len(Slice(argv, FirstArg, optind)) = optind - FirstArg
      BY <1>1, <2>1, SliceIs
    <2> HIDE DEF a, b, c, d
    <2>5. QED
      BY <1>1, <1>4, <1>5, <1>6, <2>1, <2>2, <2>3, <2>4
  <1>7. CASE first_nonopt # last_nonopt
    <2>1. last_nonopt = optind /\ optind = argc
      BY <1>7
    <2>2. b = none /\ d = none
      BY <1>1, <2>1, SmallSlices
    <2>3. HeadFrom(Origin) = a /\ TailFrom(Origin) = c
      <3> HIDE DEF a, b, c, d, none
      <3>1. a \o << >> = a /\ c \o << >> = c
        BY <1>3, JoinedTexts
      <3>2. QED
        BY <1>2, <1>5, <2>2, <3>1 DEF none
    <2>4. a \o c = Slice(argv, FirstArg, last_nonopt)
      <3>1. /\ FirstArg \in Nat /\ first_nonopt \in Nat /\ last_nonopt \in Nat
            /\ FirstArg <= first_nonopt /\ first_nonopt <= last_nonopt
        BY <1>1
      <3>2. QED
        BY <3>1, SlicesJoin
    <2>5. Len(a) = first_nonopt - FirstArg
      BY <1>1, SliceIs
    <2> HIDE DEF a, b, c, d
    <2>6. QED
      BY <1>1, <1>4, <1>7, <2>1, <2>3, <2>4, <2>5
  <1>8. QED
    BY <1>6, <1>7

(* Where there is an element, and the scan is not in it, the scan is at a  *)
(* place, which a non-option, or "--", may be at.                          *)
LEMMA AtElement ==
  ASSUME PlaceInv, pc = "element", optind # argc
  PROVE  /\ initialized /\ ~Over /\ nextchar = 0 /\ optind \in Nat /\ argc \in Nat
         /\ optind < argc /\ optind <= argc /\ argv[optind] = start[optind]
         /\ optind \in 0 .. argc - 1 /\ ~NoMore(Here) /\ Here \in Places
         /\ Here[1] = optind /\ Here[2] = 0 /\ Here[3] = First
         /\ (AtMark(Here) <=> EndsOptions(argv[optind]))
         /\ (AtNonoption(Here) <=> Nonoption(argv[optind]))
  <1>1. initialized /\ ~Over /\ nextchar = 0 /\ optind <= argc
    BY DEF PlaceInv, Staged, Over
  <1>2. optind \in Nat /\ argc \in Nat
    BY TheNumbers DEF PlaceInv, Scanned
  <1>3. optind < argc /\ optind \in 0 .. argc - 1 /\ optind \in optind .. argc - 1
    BY <1>1, <1>2
  <1>4. argv[optind] = start[optind]
    BY <1>1, <1>3, AheadIs
  <1>5. Here \in Places /\ Here[1] = optind /\ Here[2] = 0 /\ Here[3] = First
    BY <1>1, HereIs
  <1>6. Len(start[optind]) \in Nat
    <2>1. IsText(start[optind])
      BY <1>3 DEF PlaceInv, Line
    <2>2. QED
      BY <2>1, SequencesAreTexts DEF IsText
  <1>7. ~NoMore(Here)
    BY <1>2, <1>3, <1>5, <1>6 DEF NoMore
  <1>8. /\ AtMark(Here) <=> EndsOptions(argv[optind])
        /\ AtNonoption(Here) <=> Nonoption(argv[optind])
    BY <1>4, <1>5 DEF AtMark, AtNonoption
  <1>9. QED
    BY <1>1, <1>2, <1>3, <1>4, <1>5, <1>7, <1>8

(* A non-option ends both the reading and the scan, or neither. *)
LEMMA MeetReads == PlaceInv /\ ReadInv /\ MeetNonoption => ReadInv'
  <1>0. SUFFICES ASSUME PlaceInv, ReadInv, MeetNonoption PROVE ReadInv'
    OBVIOUS
  <1>1. /\ pc = "element" /\ optind # argc /\ Nonoption(argv[optind])
        /\ UNCHANGED <<who, argc, argv, start, initialized, ordering, first_nonopt,
                       last_nonopt, nextchar>>
    BY <1>0 DEF MeetNonoption, onceVars
  <1>2. /\ initialized /\ ~Over /\ nextchar = 0 /\ optind \in Nat /\ argc \in Nat
        /\ optind < argc /\ optind <= argc /\ argv[optind] = start[optind]
        /\ ~NoMore(Here) /\ AtNonoption(Here) /\ ~AtMark(Here)
        /\ Here \in Places /\ Here[1] = optind /\ Here[3] = First
    BY <1>0, <1>1, AtElement, NonoptionIsNoMark
  <1>3. Underway /\ Line /\ last_nonopt <= optind /\ last_nonopt \in Nat
        /\ (ordering # "PERMUTE" => first_nonopt = last_nonopt \/ last_nonopt = argc)
    BY <1>0, <1>2 DEF ReadInv, PlaceInv, Scanned, Staged
  <1>4. CASE ordering = "REQUIRE_ORDER" /\ Return("-1", optarg) /\ UNCHANGED optind
    <2>1. first_nonopt = last_nonopt
      BY <1>2, <1>3, <1>4
    <2>2. ReadingEnds(Here) /\ LeftOver(Here) = Part(<< >>, << >>, Elements(optind, argc))
      BY <1>2, <1>4 DEF ReadingEnds, LeftOver
    <2>3. Elements(optind, argc) = Slice(argv, optind, argc)
      <3>1. optind + argc >= argc
        BY <1>2
      <3>2. Elements(optind, argc) = Slice(start, optind, argc)
        BY <1>2, <3>1, ElementsAre
      <3>3. optind <= optind /\ argc <= argc
        BY <1>2
      <3>4. QED
        BY <1>0, <1>2, <3>2, <3>3, AheadIs
    <2>4. /\ OptsFrom(Here) = << >> /\ HeadFrom(Here) = << >>
          /\ TailFrom(Here) = Slice(argv, optind, argc)
      <3> DEFINE none == << >>
                 t == Elements(optind, argc)
      <3>1. LeftOver(Here) = Part(none, none, t)
        BY <2>2
      <3> HIDE DEF none, t
      <3>2. OptsFrom(Here) = none /\ HeadFrom(Here) = none /\ TailFrom(Here) = t
        BY <1>2, <1>3, <2>2, <3>1, ReadOut
      <3>3. QED
        BY <2>3, <3>2 DEF none, t
    <2>5. /\ seen = OptsFrom(Origin)
          /\ Slice(argv, FirstArg, argc) = HeadFrom(Origin) \o TailFrom(Origin)
          /\ optind = FirstArg + Len(HeadFrom(Origin))
      BY <1>0, <1>2, <1>3, <2>1, <2>4, AllInPlace
    <2>6. Done'
      BY <1>1, <1>4, <2>5, SameParts DEF Done, Return
    <2>7. QED
      BY <1>4, <2>6 DEF ReadInv, Over, Return
  <1>5. CASE ordering # "REQUIRE_ORDER" /\ Return("1", <<argv[optind]>>) /\ optind' = optind + 1
    <2>1. ordering # "PERMUTE"
      BY <1>0, <1>1, <1>2 DEF PlaceInv, Staged
    <2> DEFINE e == <<"1", <<argv[optind]>>>>
    <2>2. /\ ~ReadingEnds(Here) /\ Onward(Here) = <<optind + 1, 0, FALSE>>
          /\ TakenAt(Here) = Part(<<e>>, <<argv[optind]>>, << >>)
      BY <1>2, <1>5, <2>1 DEF ReadingEnds, TakenAt, Onward
    <2>3. <<argv[optind]>> = Elements(optind, 1)
      <3>1. optind + 1 <= argc
        BY <1>2
      <3>2. Elements(optind, 1) = Slice(start, optind, optind + 1)
        BY <1>2, <3>1, ElementsAre
      <3>3. QED
        BY <1>2, <3>2, SmallSlices
    <2>4. opt' = "1" /\ pc' = "returned" /\ seen' = Append(seen, e)
      BY <1>5 DEF Return
    <2>5. First' = FALSE
      BY <1>0, <2>4, AppendedText DEF First, PlaceInv, Scanned
    <2>6. Here' = Onward(Here)
      BY <1>1, <1>2, <1>5, <2>2, <2>5 DEF Here
    <2>7. TakenAt(Here) = Part(<<e>>, Elements(optind, 1), << >>)
      BY <2>2, <2>3, Zenon
    <2> HIDE DEF e
    <2>8. Underway'
      BY <1>0, <1>1, <1>2, <1>3, <1>5, <2>2, <2>4, <2>6, <2>7, OneTaken
    <2>9. QED
      BY <2>4, <2>8 DEF ReadInv, Over
  <1>6. QED
    BY <1>0, <1>4, <1>5 DEF MeetNonoption

(* Beyond the last element nothing is read. *)
LEMMA NothingLeft ==
  ASSUME Line, NEW p \in Places, p[1] = argc
  PROVE  OptsFrom(p) = << >> /\ HeadFrom(p) = << >> /\ TailFrom(p) = << >>
  <1> DEFINE none == << >>
  <1>1. NoMore(p)
    BY TheNumbers DEF NoMore
  <1>2. ReadingEnds(p) /\ LeftOver(p) = Part(none, none, none)
    BY <1>1 DEF ReadingEnds, LeftOver
  <1> HIDE DEF none
  <1>3. OptsFrom(p) = none /\ HeadFrom(p) = none /\ TailFrom(p) = none
    BY <1>2, ReadOut
  <1>4. QED
    BY <1>3 DEF none

(* The end of argv ends the scan. *)
LEMMA FinishReads == PlaceInv /\ ReadInv /\ Finish => ReadInv'
  <1>0. SUFFICES ASSUME PlaceInv, ReadInv, Finish PROVE ReadInv'
    OBVIOUS
  <1>1. /\ pc = "element" /\ optind = argc /\ Return("-1", optarg)
        /\ optind' = IF first_nonopt # last_nonopt THEN first_nonopt ELSE optind
        /\ UNCHANGED <<who, argc, argv, start, initialized, ordering>>
    BY <1>0 DEF Finish, onceVars
  <1>2. /\ initialized /\ ~Over /\ Underway /\ Line /\ argc \in Nat
        /\ last_nonopt = optind \/ first_nonopt = last_nonopt
    BY <1>0, <1>1, TheNumbers DEF PlaceInv, Staged, Over, ReadInv
  <1>3. Here \in Places /\ Here[1] = argc
    BY <1>0, <1>1, HereIs
  <1>4. /\ OptsFrom(Here) = << >> /\ HeadFrom(Here) = << >> /\ TailFrom(Here) = << >>
        /\ Slice(argv, optind, argc) = << >>
    BY <1>1, <1>2, <1>3, NothingLeft, SmallSlices
  <1>5. optind <= argc
    BY <1>1, <1>2
  <1>6. /\ seen = OptsFrom(Origin)
        /\ Slice(argv, FirstArg, argc) = HeadFrom(Origin) \o TailFrom(Origin)
        /\ optind' = FirstArg + Len(HeadFrom(Origin))
    BY <1>0, <1>1, <1>2, <1>4, <1>5, AllInPlace
  <1>7. Done'
    BY <1>1, <1>6, SameParts DEF Done, Return
  <1>8. QED
    BY <1>1, <1>7 DEF ReadInv, Over, Return

(* Two vectors have the same elements from i up to b; and the first one    *)
(* has others then.                                                        *)
Agree(r, a, i, b) == \A k \in i .. b - 1 : r[k] = a[k]

Continues(r, a, i, b, c) == Slice(r, i, c) = Slice(a, i, b) \o Slice(r, b, c)

(* Where a vector begins as another one does, so does a part of it. *)
LEMMA SliceAndMore ==
  ASSUME NEW r, NEW a, NEW i \in Nat, NEW b \in Nat, NEW c \in Nat, i <= b, b <= c,
         Agree(r, a, i, b)
  PROVE  Continues(r, a, i, b, c)
  <1>1. Slice(r, i, b) = Slice(a, i, b)
    BY SameSlice DEF Agree
  <1>2. Slice(r, i, b) \o Slice(r, b, c) = Slice(r, i, c)
    BY SlicesJoin
  <1>3. QED
    BY <1>1, <1>2 DEF Continues

(* Two adjacent parts of a vector exchanged, the others as they were. *)
Exchanged(r, a, b, m, t, n) ==
  /\ \A i \in Nat : i <= b =>
       Slice(r, i, b + (t - m)) = Slice(a, i, b) \o Slice(a, m, t)
  /\ Slice(r, b + (t - m), t) = Slice(a, b, m)
  /\ Slice(r, t, n) = Slice(a, t, n)

(* That is what a rotation does. *)
LEMMA RotatedSlices ==
  ASSUME NEW n \in Nat, NEW a, IsVector(a, n),
         NEW b \in Nat, NEW m \in Nat, NEW t \in Nat, b <= m, m <= t, t <= n
  PROVE  Exchanged(Rotated(a, b, m, t), a, b, m, t, n)
  <1> DEFINE r == Rotated(a, b, m, t)
             c == b + (t - m)
  <1>1. /\ \A k \in 0 .. n - 1 : k < b \/ k >= t => r[k] = a[k]
        /\ \A k \in 0 .. n - 1 : b <= k /\ k < c => r[k] = a[k + (m - b)]
        /\ \A k \in 0 .. n - 1 : c <= k /\ k < t => r[k] = a[k - (t - m)]
    BY RotatedIs
  <1>2. c \in Nat /\ b <= c /\ c <= t /\ c - b = t - m /\ t - c = m - b
    OBVIOUS
  <1> HIDE DEF r, c
  <1>3. Slice(r, b, c) = Slice(a, m, t)
    <2>1. \A k \in 1 .. c - b : r[b + k - 1] = a[m + k - 1]
      <3> SUFFICES ASSUME NEW k \in 1 .. c - b
                   PROVE  r[b + k - 1] = a[m + k - 1]
        OBVIOUS
      <3>1. /\ b + k - 1 \in 0 .. n - 1 /\ b <= b + k - 1 /\ b + k - 1 < c
            /\ (b + k - 1) + (m - b) = m + k - 1
        BY <1>2
      <3>2. QED
        BY <1>1, <3>1
    <2>2. QED
      BY <2>1, <1>2 DEF Slice
  <1>4. Slice(r, c, t) = Slice(a, b, m)
    <2>1. \A k \in 1 .. t - c : r[c + k - 1] = a[b + k - 1]
      <3> SUFFICES ASSUME NEW k \in 1 .. t - c
                   PROVE  r[c + k - 1] = a[b + k - 1]
        OBVIOUS
      <3>1. /\ c + k - 1 \in 0 .. n - 1 /\ c <= c + k - 1 /\ c + k - 1 < t
            /\ (c + k - 1) - (t - m) = b + k - 1
        BY <1>2
      <3>2. QED
        BY <1>1, <3>1
    <2>2. QED
      BY <2>1, <1>2 DEF Slice
  <1>5. Slice(r, t, n) = Slice(a, t, n)
    <2>1. \A k \in t .. n - 1 : r[k] = a[k]
      BY <1>1
    <2>2. QED
      BY <2>1, SameSlice
  <1>6. ASSUME NEW i \in Nat, i <= b
        PROVE  Slice(r, i, c) = Slice(a, i, b) \o Slice(a, m, t)
    <2>1. Agree(r, a, i, b)
      BY <1>1, <1>6 DEF Agree
    <2>2. i \in Nat /\ b \in Nat /\ c \in Nat /\ i <= b /\ b <= c
      BY <1>2, <1>6
    <2>3. Continues(r, a, i, b, c)
      BY <2>1, <2>2, SliceAndMore, Zenon
    <2>4. QED
      BY <1>3, <2>3 DEF Continues
  <1>7. QED
    BY <1>4, <1>5, <1>6 DEF r, c, Exchanged

(* Behind a "--" there are no options. *)
LEMMA MarkReads == PlaceInv /\ ReadInv /\ EndMark => ReadInv'
  <1>0. SUFFICES ASSUME PlaceInv, ReadInv, EndMark PROVE ReadInv'
    OBVIOUS
  <1> DEFINE top == optind + 1
  <1>1. /\ pc = "element" /\ pc' = "element" /\ optind # argc /\ EndsOptions(argv[optind])
        /\ UNCHANGED <<who, argc, start, initialized, ordering, seen, nextchar>>
        /\ last_nonopt' = argc /\ optind' = argc
    BY <1>0 DEF EndMark, onceVars, resultVars
  <1>2. /\ initialized /\ ~Over /\ nextchar = 0 /\ optind \in Nat /\ argc \in Nat
        /\ optind < argc /\ optind <= argc /\ argv[optind] = start[optind]
        /\ ~NoMore(Here) /\ AtMark(Here) /\ Here \in Places /\ Here[1] = optind
    BY <1>0, <1>1, AtElement
  <1>3. /\ Underway /\ Line /\ last_nonopt <= optind /\ last_nonopt \in Nat
        /\ first_nonopt \in Nat /\ first_nonopt <= last_nonopt /\ FirstArg <= first_nonopt
        /\ FirstArg \in Nat /\ (last_nonopt = optind \/ first_nonopt = last_nonopt)
        /\ IsText(seen) /\ IsVector(argv, argc)
    BY <1>0, <1>1, <1>2, TheNumbers DEF ReadInv, PlaceInv, Line, Scanned, Staged
  <1>4. top \in Nat /\ optind <= top /\ top <= argc /\ last_nonopt <= top /\ last_nonopt # top
    BY <1>2, <1>3
  <1>5. /\ argv' = IF first_nonopt # last_nonopt
                   THEN Rotated(argv, first_nonopt, last_nonopt, top) ELSE argv
        /\ first_nonopt' = IF first_nonopt # last_nonopt
                           THEN first_nonopt + (top - last_nonopt) ELSE top
    BY <1>0, <1>4 DEF EndMark
  <1> DEFINE a == Slice(argv, FirstArg, first_nonopt)
             b == Slice(argv, last_nonopt, optind)
             c == Slice(argv, first_nonopt, last_nonopt)
             h == Slice(argv, optind, top)
             d == Slice(argv, top, argc)
  <1>6. /\ OptsFrom(Here) = << >> /\ HeadFrom(Here) = h /\ TailFrom(Here) = d
    <2> DEFINE none == << >>
               m == <<start[optind]>>
               t == Elements(optind + 1, argc)
    <2>1. ReadingEnds(Here) /\ LeftOver(Here) = Part(none, m, t)
      BY <1>2 DEF ReadingEnds, LeftOver
    <2>2. m = h
      BY <1>2, SmallSlices
    <2>3. t = d
      <3>1. top + argc >= argc
        BY <1>2, <1>4
      <3>2. Elements(top, argc) = Slice(start, top, argc)
        BY <1>2, <1>4, <3>1, ElementsAre
      <3>3. argc <= argc
        BY <1>2
      <3>4. Slice(argv, top, argc) = Slice(start, top, argc)
        BY <1>0, <1>2, <1>4, <3>3, AheadIs
      <3>5. QED
        BY <3>2, <3>4
    <2> HIDE DEF none, m, t, h, d
    <2>4. OptsFrom(Here) = none /\ HeadFrom(Here) = m /\ TailFrom(Here) = t
      BY <1>2, <1>3, <2>1, ReadOut
    <2>5. QED
      BY <2>2, <2>3, <2>4 DEF none
  <1>7. /\ OptsFrom(Origin) = seen \o << >> /\ HeadFrom(Origin) = (a \o b) \o h
        /\ TailFrom(Origin) = c \o d
    BY <1>2, <1>3, <1>6 DEF Underway, Sofar
  <1>8. IsText(a) /\ IsText(b) /\ IsText(c) /\ IsText(h) /\ IsText(d)
    BY <1>2, <1>3, <1>4, SliceIs
  <1>9. b \o h = Slice(argv, last_nonopt, top)
    <2>1. last_nonopt \in Nat /\ optind \in Nat /\ top \in Nat /\ last_nonopt <= optind /\ optind <= top
      BY <1>2, <1>3, <1>4
    <2> HIDE DEF top
    <2>2. QED
      BY <2>1, SlicesJoin
  <1>10. (a \o b) \o h = a \o (b \o h)
    <2>1. IsText(a) /\ IsText(b) /\ IsText(h)
      BY <1>8
    <2> HIDE DEF a, b, h
    <2>2. Associate(a, b, h)
      BY <2>1, TextsAssociate, Zenon
    <2>3. QED
      BY <2>2 DEF Associate
  <1>11. /\ HeadFrom(Origin) = Slice(argv', FirstArg, first_nonopt')
         /\ TailFrom(Origin) = Slice(argv', first_nonopt', argc)
         /\ first_nonopt' \in Nat /\ FirstArg <= first_nonopt' /\ first_nonopt' <= argc
    <2>1. CASE first_nonopt # last_nonopt
      <3> DEFINE r == Rotated(argv, first_nonopt, last_nonopt, top)
                 f == first_nonopt + (top - last_nonopt)
      <3>1. argv' = r /\ first_nonopt' = f /\ f \in Nat /\ FirstArg <= f /\ f <= top /\ f <= argc
        BY <2>1, <1>2, <1>3, <1>4, <1>5
      <3>2. /\ Slice(r, FirstArg, f) = a \o Slice(argv, last_nonopt, top)
            /\ Slice(r, f, top) = c /\ Slice(r, top, argc) = d
        <4> HIDE DEF top
        <4>1. Exchanged(r, argv, first_nonopt, last_nonopt, top, argc)
          BY <1>2, <1>3, <1>4, RotatedSlices
        <4> HIDE DEF r
        <4>2. QED
          BY <1>3, <4>1 DEF Exchanged
      <3> HIDE DEF r, f
      <3>3. Slice(r, f, top) \o Slice(r, top, argc) = Slice(r, f, argc)
        <4>1. f \in Nat /\ top \in Nat /\ argc \in Nat /\ f <= top /\ top <= argc
          BY <1>2, <1>4, <3>1
        <4> HIDE DEF top
        <4>2. QED
          BY <4>1, SlicesJoin
      <3> HIDE DEF a, b, c, d, h
      <3>4. QED
        BY <1>7, <1>9, <1>10, <3>1, <3>2, <3>3
    <2>2. CASE first_nonopt = last_nonopt
      <3>1. argv' = argv /\ first_nonopt' = top
        BY <2>2, <1>5
      <3>2. FirstArg <= top /\ first_nonopt <= top
        BY <1>2, <1>3, <1>4
      <3>3. Slice(argv, FirstArg, first_nonopt) \o Slice(argv, first_nonopt, top)
              = Slice(argv, FirstArg, top)
        BY <1>3, <1>4, <3>2, SlicesJoin
      <3>4. Slice(argv, first_nonopt, first_nonopt) = << >>
        BY <1>3, SmallSlices
      <3>5. c = << >> /\ b \o h = Slice(argv, first_nonopt, top)
        BY <2>2, <1>9, <3>4
      <3> HIDE DEF b, c, d, h
      <3>6. << >> \o d = d
        BY <1>8, JoinedTexts
      <3>7. TailFrom(Origin) = d
        BY <1>7, <3>5, <3>6
      <3>8. HeadFrom(Origin) = Slice(argv, FirstArg, top)
        BY <1>7, <1>10, <3>3, <3>5
      <3>9. QED
        BY <1>2, <1>4, <3>1, <3>2, <3>7, <3>8 DEF d
    <2>3. QED
      BY <2>1, <2>2
  <1> HIDE DEF a, b, c, d, h, top
  <1>12. /\ OptsFrom(Here') = << >> /\ HeadFrom(Here') = << >> /\ TailFrom(Here') = << >>
    <2>1. First' = First /\ Here' = <<argc, 0, First>> /\ First \in BOOLEAN
      BY <1>1, <1>2 DEF First, Here
    <2>2. Here' \in Places /\ Here'[1] = argc
      BY <2>1, <1>2 DEF Places
    <2>3. QED
      BY <1>3, <2>2, NothingLeft
  <1>13. Sofar(argv', optind', first_nonopt', last_nonopt', seen, Here')
    <2> DEFINE x == Slice(argv', FirstArg, first_nonopt')
               y == Slice(argv', first_nonopt', argc)
               z == Slice(argv', argc, argc)
    <2>1. IsText(x) /\ IsText(y)
      BY <1>2, <1>3, <1>11, SliceIs
    <2>2. z = << >>
      BY <1>2, SmallSlices
    <2> HIDE DEF x, y, z
    <2>3. x \o << >> = x /\ y \o << >> = y
      BY <2>1, JoinedTexts
    <2>4. HeadFrom(Origin) = (x \o z) \o << >> /\ TailFrom(Origin) = y \o << >>
      BY <1>11, <2>2, <2>3 DEF x, y
    <2>5. QED
      BY <1>1, <1>7, <1>12, <2>4, Zenon DEF Sofar, x, y, z
  <1>14. Underway'
    BY <1>1, <1>13, SameParts, Zenon DEF Underway, Sofar
  <1>15. QED
    BY <1>1, <1>14 DEF ReadInv, Over

(* An option is read as from the beginning of its element. *)
LEMMA OpenedReads ==
  ASSUME Line, NEW p \in Places, NEW q \in Places, p[1] = q[1], p[2] = 0, p[3] = q[3],
         q[2] = Opening(start[p[1]]), ~NoMore(p), ~NoMore(q), ~AtMark(p), ~AtNonoption(p)
  PROVE  ReadFrom[q] = ReadFrom[p]
  <1>1. q[2] # 0
    BY DEF Opening
  <1>2. ~AtMark(q) /\ ~AtNonoption(q)
    BY <1>1 DEF AtMark, AtNonoption
  <1>3. OptionOf(q) = OptionOf(p)
    BY <1>1, Zenon DEF OptionOf
  <1>4. TakenAt(q) = TakenAt(p) /\ Onward(q) = Onward(p)
    BY <1>2, <1>3, Zenon DEF TakenAt, Onward
  <1>5. ~ReadingEnds(q) /\ ~ReadingEnds(p)
    BY <1>2 DEF ReadingEnds
  <1>6. /\ ReadFrom[q] = Joined(TakenAt(q), ReadFrom[Onward(q)])
        /\ ReadFrom[p] = Joined(TakenAt(p), ReadFrom[Onward(p)])
    BY <1>5, ReadFromIs
  <1>7. QED
    BY <1>4, <1>6

(* An option that is opened changes nothing of what is read.               *)
LEMMA OpenReads == PlaceInv /\ ReadInv /\ OpenOption => ReadInv'
  <1>0. SUFFICES ASSUME PlaceInv, ReadInv, OpenOption PROVE ReadInv'
    OBVIOUS
  <1> DEFINE q == <<optind, nextchar', First>>
  <1>1. /\ pc = "element" /\ optind # argc /\ pc' = "decode"
        /\ ~Nonoption(argv[optind]) /\ ~EndsOptions(argv[optind])
        /\ nextchar' = Opening(argv[optind])
        /\ UNCHANGED <<who, argc, argv, start, initialized, ordering, first_nonopt,
                       last_nonopt, optind, seen>>
    BY <1>0 DEF OpenOption, onceVars, scanVars, resultVars, Opening
  <1>2. /\ initialized /\ ~Over /\ optind \in Nat /\ argc \in Nat
        /\ optind < argc /\ argv[optind] = start[optind]
        /\ ~NoMore(Here) /\ ~AtMark(Here) /\ ~AtNonoption(Here)
        /\ Here \in Places /\ Here[1] = optind /\ Here[2] = 0 /\ Here[3] = First
    BY <1>0, <1>1, AtElement
  <1>3. Underway /\ Line
    BY <1>0, <1>2 DEF ReadInv, PlaceInv
  <1>4. PlaceInv'
    BY <1>0, OpenKeepsPlace
  <1>5. nextchar' \in Nat /\ nextchar' # 0 /\ ~(nextchar' > Len(start[optind]))
    <2>1. nextchar' \in 2 .. Len(argv[optind])
      BY <1>1, <1>4 DEF PlaceInv, Staged
    <2>2. Len(start[optind]) \in Nat
      <3>1. IsText(start[optind])
        BY <1>2, <1>3, PlaceIs
      <3>2. QED
        BY <3>1, SequencesAreTexts DEF IsText
    <2>3. QED
      BY <1>2, <2>1, <2>2
  <1>6. q \in Places /\ q[1] = optind /\ q[2] = nextchar' /\ q[3] = First
    <2>1. First \in BOOLEAN
      BY DEF First
    <2>2. QED
      BY <1>2, <1>5, <2>1 DEF Places
  <1> HIDE DEF q
  <1>7. ~NoMore(q)
    BY <1>2, <1>5, <1>6 DEF NoMore
  <1>8. nextchar' = Opening(start[optind])
    BY <1>1, <1>2
  <1>11. ReadFrom[q] = ReadFrom[Here]
    BY <1>2, <1>3, <1>6, <1>7, <1>8, OpenedReads
  <1>12. /\ OptsFrom(q) = OptsFrom(Here) /\ HeadFrom(q) = HeadFrom(Here)
         /\ TailFrom(q) = TailFrom(Here)
    BY <1>11 DEF OptsFrom, HeadFrom, TailFrom
  <1>13. Here' = q
    BY <1>1 DEF Here, First, q
  <1>14. Sofar(argv, optind, first_nonopt, last_nonopt, seen, q)
    BY <1>3, <1>12, Zenon DEF Underway, Sofar
  <1>15. Underway'
    BY <1>1, <1>13, <1>14, SameParts, Zenon DEF Underway, Sofar
  <1>16. QED
    BY <1>1, <1>15 DEF ReadInv, Over

(* Non-options that are skipped are left over.                             *)
LEMMA SkippedReads ==
  ASSUME Line, ordering = "PERMUTE", NEW b \in BOOLEAN, NEW k \in Nat, NEW m \in Nat,
         k <= m, m <= argc, \A j \in k .. m - 1 : Nonoption(start[j])
  PROVE  /\ OptsFrom(<<k, 0, b>>) = OptsFrom(<<m, 0, b>>)
         /\ HeadFrom(<<k, 0, b>>) = HeadFrom(<<m, 0, b>>)
         /\ TailFrom(<<k, 0, b>>) = Slice(start, k, m) \o TailFrom(<<m, 0, b>>)
  <1> DEFINE P(i) == /\ OptsFrom(<<i, 0, b>>) = OptsFrom(<<m, 0, b>>)
                     /\ HeadFrom(<<i, 0, b>>) = HeadFrom(<<m, 0, b>>)
                     /\ TailFrom(<<i, 0, b>>) = Slice(start, i, m) \o TailFrom(<<m, 0, b>>)
  <1>1. argc \in Nat
    BY TheNumbers
  <1>2. \A i \in Nat : <<i, 0, b>> \in Places
    BY DEF Places
  <1>3. P(m)
    <2> DEFINE z == <<m, 0, b>>
               t == TailFrom(z)
    <2>1. IsText(t)
      BY <1>2, FromTexts
    <2>2. Slice(start, m, m) = << >>
      BY SmallSlices
    <2> HIDE DEF t
    <2>3. << >> \o t = t
      BY <2>1, JoinedTexts
    <2>4. QED
      BY <2>2, <2>3 DEF t
  <1>4. ASSUME NEW i \in Nat, k <= i, i < m, P(i + 1)
        PROVE  P(i)
    <2> DEFINE p == <<i, 0, b>>
               q == <<i + 1, 0, b>>
               z == <<m, 0, b>>
               e == <<start[i]>>
               none == << >>
               t == TailFrom(z)
               u == Slice(start, i + 1, m)
    <2>1. /\ p \in Places /\ q \in Places /\ z \in Places /\ p[1] = i /\ p[2] = 0 /\ p[3] = b
      BY <1>2
    <2>2. Nonoption(start[i]) /\ i \in k .. m - 1 /\ i \in 0 .. argc - 1
      BY <1>1, <1>4
    <2>3. Len(start[i]) \in Nat
      <3>1. IsText(start[i])
        BY <2>2 DEF Line
      <3>2. QED
        BY <3>1, SequencesAreTexts DEF IsText
    <2>4. ~NoMore(p) /\ AtNonoption(p) /\ ~AtMark(p)
      <3>1. ~NoMore(p)
        BY <1>1, <2>1, <2>2, <2>3 DEF NoMore
      <3>2. QED
        BY <2>1, <2>2, <3>1, NonoptionIsNoMark DEF AtNonoption, AtMark
    <2>5. ~ReadingEnds(p) /\ TakenAt(p) = Part(none, none, e)
      BY <2>1, <2>4 DEF ReadingEnds, TakenAt
    <2>6. Onward(p) = q
      <3> HIDE DEF p
      <3>1. Onward(p) = <<i + 1, 0, b /\ ordering = "PERMUTE">>
        BY <2>1, <2>4 DEF Onward
      <3>2. (b /\ ordering = "PERMUTE") = b
        BY Zenon
      <3>3. QED
        BY <3>1, <3>2, Zenon
    <2> HIDE DEF p, q, none, e
    <2>7. /\ OptsFrom(p) = none \o OptsFrom(q)
          /\ HeadFrom(p) = none \o HeadFrom(q)
          /\ TailFrom(p) = e \o TailFrom(q)
      <3>1. p \in Places /\ ~ReadingEnds(p) /\ TakenAt(p) = Part(none, none, e)
        BY <2>1, <2>5
      <3>2. OptsFrom(p) = none \o OptsFrom(Onward(p))
        BY <3>1, ReadOn
      <3>3. HeadFrom(p) = none \o HeadFrom(Onward(p))
        BY <3>1, ReadOn
      <3>4. TailFrom(p) = e \o TailFrom(Onward(p))
        BY <3>1, ReadOn
      <3>5. QED
        BY <2>6, <3>2, <3>3, <3>4
    <2>8. IsText(OptsFrom(q)) /\ IsText(HeadFrom(q)) /\ IsText(t)
      BY <2>1, FromTexts
    <2>9. none \o OptsFrom(q) = OptsFrom(q) /\ none \o HeadFrom(q) = HeadFrom(q)
      <3> DEFINE x == OptsFrom(q)
                 y == HeadFrom(q)
      <3>1. IsText(x) /\ IsText(y)
        BY <2>8
      <3> HIDE DEF x, y
      <3>2. << >> \o x = x /\ << >> \o y = y
        BY <3>1, JoinedTexts
      <3>3. QED
        BY <3>2 DEF x, y, none
    <2>10. OptsFrom(q) = OptsFrom(z) /\ HeadFrom(q) = HeadFrom(z) /\ TailFrom(q) = u \o t
      BY <1>4 DEF q
    <2>11. e \o (u \o t) = Slice(start, i, m) \o t
      <3>1. i + 1 \in Nat /\ i + 1 <= m /\ i <= i + 1
        BY <1>4
      <3>2. e = Slice(start, i, i + 1) /\ IsText(e) /\ IsText(u)
        <4>1. Slice(start, i, i + 1) = e
          BY SmallSlices DEF e
        <4>2. IsText(Slice(start, i, i + 1)) /\ IsText(u)
          BY <3>1, SliceIs
        <4>3. QED
          BY <4>1, <4>2
      <3>3. Slice(start, i, i + 1) \o Slice(start, i + 1, m) = Slice(start, i, m)
        BY <3>1, SlicesJoin
      <3> HIDE DEF t, u
      <3>4. (e \o u) \o t = e \o (u \o t)
        <4>1. IsText(e) /\ IsText(u) /\ IsText(t)
          BY <2>8, <3>2
        <4>2. QED
          BY <4>1, JoinsAssociate
      <3>5. QED
        BY <3>2, <3>3, <3>4 DEF u
    <2> HIDE DEF t, u
    <2>12. OptsFrom(p) = OptsFrom(z) /\ HeadFrom(p) = HeadFrom(z)
      BY <2>6, <2>7, <2>9, <2>10
    <2>13. TailFrom(p) = Slice(start, i, m) \o t
      BY <2>6, <2>7, <2>10, <2>11
    <2>14. QED
      BY <2>12, <2>13 DEF p, t
  <1> DEFINE K == {i \in Nat : P(i)}
  <1>5. m \in K /\ \A i \in Nat : k <= i /\ i < m /\ i + 1 \in K => i \in K
    <2> HIDE DEF P
    <2>1. QED
      BY <1>3, <1>4
  <1> HIDE DEF K
  <1>6. \A i \in k .. m : i \in K
    BY <1>5, Downward
  <1> HIDE DEF P
  <1>7. k \in K
    BY <1>6
  <1>8. P(k)
    BY <1>7 DEF K
  <1>9. QED
    BY <1>8 DEF P

(* Exchanging what was skipped with the options behind it, and skipping    *)
(* further, changes nothing of what is read.                               *)
LEMMA SkipReads == PlaceInv /\ ReadInv /\ Skip => ReadInv'
  <1>0. SUFFICES ASSUME PlaceInv, ReadInv, Skip PROVE ReadInv'
    OBVIOUS
  <1>1. /\ UNCHANGED <<who, argc, start, initialized, ordering, seen, nextchar>>
        /\ pc = "skip" /\ pc' = "element" /\ optind <= argc /\ initialized /\ ~Over
        /\ nextchar = 0 /\ Underway /\ Line
    BY <1>0 DEF Skip, onceVars, resultVars, PlaceInv, Staged, Over, ReadInv
  <1>2. /\ optind \in Nat /\ first_nonopt \in Nat /\ last_nonopt \in Nat /\ argc \in Nat
        /\ FirstArg \in Nat /\ FirstArg <= first_nonopt /\ first_nonopt <= last_nonopt
        /\ last_nonopt <= optind /\ IsVector(argv, argc)
    BY <1>0, <1>1, TheNumbers DEF PlaceInv, Line, Scanned, Staged
  <1>3. ~(last_nonopt > optind) /\ ~(first_nonopt > optind)
    BY <1>2
  <1>4. CASE ordering = "PERMUTE"
    <2> DEFINE i  == optind
               o  == optind'
               fn == first_nonopt
               ln == last_nonopt
               f  == first_nonopt'
               v  == argv'
               a  == Slice(argv, FirstArg, fn)
               b  == Slice(argv, ln, i)
               c  == Slice(argv, fn, ln)
    <2>1. /\ v = IF fn # ln /\ ln # i THEN Rotated(argv, fn, ln, i) ELSE argv
          /\ f = IF fn # ln /\ ln # i THEN fn + (i - ln) ELSE IF ln # i THEN i ELSE fn
          /\ o \in i .. argc /\ last_nonopt' = o
          /\ \A k \in i .. o - 1 : Nonoption(argv[k])
      BY <1>0, <1>3, <1>4 DEF Skip
    <2>2. /\ Slice(v, FirstArg, f) = a \o b /\ Slice(v, f, i) = c
          /\ f \in Nat /\ FirstArg <= f /\ f <= i
          /\ \A k \in 0 .. argc - 1 : k >= i => v[k] = argv[k]
      <3>1. CASE fn # ln /\ ln # i
        <4> DEFINE r == Rotated(argv, fn, ln, i)
        <4>1. Exchanged(r, argv, fn, ln, i, argc)
          BY <1>1, <1>2, RotatedSlices
        <4>2. \A k \in 0 .. argc - 1 : k >= i => r[k] = argv[k]
          BY <1>1, <1>2, RotatedIs
        <4>3. v = r /\ f = fn + (i - ln)
          BY <2>1, <3>1
        <4> HIDE DEF r, v
        <4>4. Slice(r, FirstArg, fn + (i - ln)) = a \o b /\ Slice(r, fn + (i - ln), i) = c
          BY <1>2, <4>1 DEF Exchanged
        <4>5. /\ fn + (i - ln) \in Nat /\ FirstArg <= fn + (i - ln) /\ fn + (i - ln) <= i
          BY <1>2
        <4> HIDE DEF f, a, b, c
        <4>6. QED
          BY <4>2, <4>3, <4>4, <4>5
      <3>2. CASE ln = i
        <4>1. v = argv /\ f = fn
          BY <2>1, <3>2
        <4>2. Slice(argv, i, i) = << >>
          BY <1>2, SmallSlices
        <4>3. b = << >>
          BY <3>2, <4>2
        <4>4. IsText(a)
          BY <1>2, SliceIs
        <4>5. a \o b = a
          <5> HIDE DEF a, b
          <5>1. a \o << >> = a
            BY <4>4, JoinedTexts
          <5>2. QED
            BY <4>3, <5>1
        <4>6. Slice(argv, fn, i) = c
          BY <3>2
        <4>7. FirstArg <= fn /\ fn <= i
          BY <1>2
        <4> HIDE DEF b, c
        <4>8. QED
          BY <1>2, <4>1, <4>5, <4>6, <4>7
      <3>3. CASE fn = ln /\ ln # i
        <4>1. v = argv /\ f = i
          BY <2>1, <3>3
        <4>2. c = << >> /\ Slice(argv, i, i) = << >>
          <5>1. Slice(argv, ln, ln) = << >> /\ Slice(argv, i, i) = << >>
            BY <1>2, SmallSlices
          <5>2. QED
            BY <3>3, <5>1
        <4>3. a \o b = Slice(argv, FirstArg, i)
          <5>1. FirstArg <= ln
            BY <1>2, <3>3
          <5>2. Slice(argv, FirstArg, ln) \o Slice(argv, ln, i) = Slice(argv, FirstArg, i)
            BY <1>2, <5>1, SlicesJoin
          <5>3. QED
            BY <3>3, <5>2
        <4>4. FirstArg <= i
          BY <1>2
        <4> HIDE DEF a, b, c
        <4>5. QED
          BY <1>2, <4>1, <4>2, <4>3, <4>4
      <3>4. QED
        BY <3>1, <3>2, <3>3
    <2> HIDE DEF f, v
    <2>3. o \in Nat /\ i <= o /\ o <= argc
      BY <1>2, <2>1
    <2> HIDE DEF o
    <2>4. \A k \in i .. o - 1 : v[k] = start[k] /\ Nonoption(start[k])
      <3> SUFFICES ASSUME NEW k \in i .. o - 1
                   PROVE  v[k] = start[k] /\ Nonoption(start[k])
        OBVIOUS
      <3>1. k \in i .. argc - 1 /\ k \in 0 .. argc - 1 /\ k >= i
        BY <1>2, <2>3
      <3>2. argv[k] = start[k]
        BY <1>0, <1>1, <3>1, AheadIs
      <3>3. QED
        BY <2>1, <2>2, <3>1, <3>2
    <2> DEFINE q == <<o, 0, First>>
               t == TailFrom(q)
               y == Slice(start, i, o)
    <2>5. First \in BOOLEAN /\ q \in Places
      <3>1. First \in BOOLEAN
        BY DEF First
      <3>2. QED
        BY <2>3, <3>1 DEF Places
    <2>6. /\ OptsFrom(Here) = OptsFrom(q) /\ HeadFrom(Here) = HeadFrom(q)
          /\ TailFrom(Here) = y \o t
      <3>1. Here = <<i, 0, First>>
        BY <1>1 DEF Here
      <3>2. \A j \in i .. o - 1 : Nonoption(start[j])
        BY <2>4
      <3> HIDE DEF First
      <3>3. /\ OptsFrom(<<i, 0, First>>) = OptsFrom(q)
            /\ HeadFrom(<<i, 0, First>>) = HeadFrom(q)
            /\ TailFrom(<<i, 0, First>>) = Slice(start, i, o) \o TailFrom(q)
        BY <1>1, <1>2, <1>4, <2>3, <2>5, <3>2, SkippedReads
      <3>4. QED
        BY <3>1, <3>3
    <2>7. IsText(HeadFrom(q)) /\ IsText(t)
      BY <1>1, <2>5, FromTexts
    <2>8. /\ OptsFrom(Origin) = seen \o OptsFrom(Here)
          /\ HeadFrom(Origin) = (a \o b) \o HeadFrom(Here)
          /\ TailFrom(Origin) = c \o TailFrom(Here)
      BY <1>1 DEF Underway, Sofar
    <2> DEFINE w == Slice(v, FirstArg, f)
               z == Slice(v, f, i)
               x == Slice(v, i, o)
               e == Slice(v, o, o)
    <2>9. y = x
      <3>1. \A k \in i .. o - 1 : v[k] = start[k]
        BY <2>4
      <3>2. i \in Nat /\ o \in Nat /\ i <= o
        BY <1>2, <2>3
      <3>3. Slice(v, i, o) = Slice(start, i, o)
        BY <3>1, <3>2, SameSlice
      <3>4. QED
        BY <3>3
    <2>10. IsText(w) /\ IsText(z) /\ IsText(x) /\ e = << >>
      BY <1>2, <2>2, <2>3, SliceIs, SmallSlices
    <2>11. z \o x = Slice(v, f, o)
      <3>1. i \in Nat /\ o \in Nat /\ f \in Nat /\ f <= i /\ i <= o
        BY <1>2, <2>2, <2>3
      <3>2. QED
        BY <3>1, SlicesJoin
    <2> HIDE DEF a, b, c, w, z, x, y, e, t, q
    <2>12. w \o e = w
      <3>1. w \o << >> = w
        BY <2>10, JoinedTexts
      <3>2. QED
        BY <2>10, <3>1
    <2>13. z \o (x \o t) = (z \o x) \o t
      <3>1. IsText(z) /\ IsText(x) /\ IsText(t)
        BY <2>7, <2>10
      <3>2. QED
        BY <3>1, JoinsAssociate
    <2>14. /\ HeadFrom(Origin) = (w \o e) \o HeadFrom(q)
      BY <2>2, <2>6, <2>8, <2>12 DEF w
    <2>15. TailFrom(Origin) = Slice(v, f, o) \o t
      BY <2>2, <2>6, <2>8, <2>9, <2>11, <2>13 DEF z
    <2>16. Here' = q
      BY <1>1 DEF Here, First, q, o
    <2>17. Sofar(v, o, f, o, seen, q)
      BY <2>6, <2>8, <2>14, <2>15, Zenon DEF Sofar, w, e, t
    <2>18. Underway'
      <3>1. argv' = v /\ optind' = o /\ first_nonopt' = f /\ last_nonopt' = o /\ seen' = seen
        BY <1>1, <2>1 DEF v, o, f
      <3>2. QED
        BY <1>1, <2>16, <2>17, <3>1, SameParts, Zenon DEF Underway, Sofar
    <2>19. QED
      BY <1>1, <2>18 DEF ReadInv, Over
  <1>5. CASE ordering # "PERMUTE"
    <2>1. UNCHANGED <<argv, optind, first_nonopt, last_nonopt>>
      BY <1>0, <1>3, <1>5 DEF Skip
    <2>2. Here' = Here
      BY <1>1, <2>1 DEF Here, First
    <2>3. Underway'
      BY <1>1, <2>1, <2>2, SameParts, Zenon DEF Underway, Sofar
    <2>4. QED
      BY <1>1, <2>3 DEF ReadInv, Over
  <1>6. QED
    BY <1>4, <1>5

(* What the command line says is made of texts, before a step.             *)
LEMMA OriginTexts ==
  PlaceInv => /\ IsText(OptsFrom(Origin)) /\ IsText(HeadFrom(Origin))
              /\ IsText(TailFrom(Origin)) /\ FirstArg \in Nat /\ argc \in Nat
  BY HereIs, FromTexts, TheNumbers DEF PlaceInv

(* And after it. *)
LEMMA OriginTextsThen ==
  PlaceInv' => (/\ IsText(OptsFrom(Origin)) /\ IsText(HeadFrom(Origin))
                /\ IsText(TailFrom(Origin)) /\ FirstArg \in Nat /\ argc \in Nat)'
  BY OriginTexts, PTL

(* When nothing moves, no more and no less is read. *)
LEMMA StillReads ==
  PlaceInv /\ ReadInv
    /\ UNCHANGED <<who, argc, start, ordering, argv, optind, first_nonopt, last_nonopt,
                   seen, nextchar, initialized>>
    /\ ((initialized /\ ~Over' => ~Over) /\ (Over' => Over)) => ReadInv'
  <1>0. SUFFICES
          ASSUME PlaceInv, ReadInv,
                 UNCHANGED <<who, argc, start, ordering, argv, optind, first_nonopt,
                             last_nonopt, seen, nextchar, initialized>>,
                 initialized /\ ~Over' => ~Over, Over' => Over
          PROVE  ReadInv'
    OBVIOUS
  <1>1. Here' = Here
    BY <1>0 DEF Here, First
  <1>2. Underway => Underway'
    BY <1>0, <1>1, SameParts, Zenon DEF Underway, Sofar
  <1>3. Done => Done'
    BY <1>0, SameParts, Zenon DEF Done
  <1>4. QED
    BY <1>0, <1>2, <1>3 DEF ReadInv

(* Before the first call there is all to be read. *)
LEMMA CallReads == PlaceInv /\ ReadInv /\ Call => ReadInv'
  <1>0. SUFFICES ASSUME PlaceInv, ReadInv, Call PROVE ReadInv'
    OBVIOUS
  <1>1. /\ pc = "call" /\ pc' \in {"skip", "decode"} /\ initialized' = TRUE
        /\ UNCHANGED <<who, argc, start, argv, seen>> /\ ~Over /\ ~Over'
    BY <1>0 DEF Call, Over
  <1>2. CASE initialized
    <2>1. UNCHANGED <<ordering, optind, first_nonopt, last_nonopt, nextchar>>
      BY <1>0, <1>2 DEF Call
    <2>2. initialized' = initialized
      BY <1>0, <1>1, <1>2 DEF PlaceInv, Staged
    <2>3. QED
      BY <1>0, <1>1, <2>1, <2>2, StillReads
  <1>3. CASE ~initialized
    <2>1. optind = Callers[who].optind /\ seen = << >>
      BY <1>0, <1>3 DEF PlaceInv, Staged
    <2>2. FirstArg' = FirstArg
      BY <1>1, SameCaller
    <2>3. optind' = FirstArg /\ first_nonopt' = optind' /\ last_nonopt' = optind' /\ nextchar' = 0
      BY <1>0, <1>3, <2>1 DEF Call, FirstArg
    <2>4. First' = TRUE
      BY <1>1, <2>1 DEF First
    <2>5. Here' = Origin'
      BY <2>2, <2>3, <2>4 DEF Here, Origin
    <2>6. PlaceInv'
      BY <1>0, CallKeepsPlace
    <2> DEFINE o == OptsFrom(Origin)'
               h == HeadFrom(Origin)'
               t == TailFrom(Origin)'
    <2>7. IsText(o) /\ IsText(h) /\ IsText(t) /\ FirstArg' \in Nat
      BY <2>6, OriginTextsThen DEF IsText
    <2> HIDE DEF o, h, t
    <2>8. << >> \o o = o /\ << >> \o h = h /\ << >> \o t = t
      BY <2>7, JoinedTexts
    <2>9. /\ Slice(argv', FirstArg', FirstArg') = << >>
          /\ Slice(argv', FirstArg', FirstArg') \o Slice(argv', FirstArg', FirstArg') = << >>
      <3> DEFINE e == Slice(argv', FirstArg', FirstArg')
      <3>1. e = << >>
        BY <2>7, SmallSlices
      <3>2. << >> \o << >> = << >>
        OBVIOUS
      <3> HIDE DEF e
      <3>3. e \o e = << >>
        BY <3>1, <3>2
      <3>4. QED
        BY <3>1, <3>3 DEF e
    <2>10. /\ o = seen' \o o
           /\ h = (Slice(argv', FirstArg', FirstArg') \o Slice(argv', FirstArg', FirstArg')) \o h
           /\ t = Slice(argv', FirstArg', FirstArg') \o t
      BY <1>1, <2>1, <2>8, <2>9, Zenon
    <2>11. optind' = FirstArg' /\ first_nonopt' = FirstArg' /\ last_nonopt' = FirstArg'
      BY <2>2, <2>3
    <2>12. Underway'
      BY <2>5, <2>10, <2>11, Zenon
         DEF Underway, Sofar, o, h, t, OptsFrom, HeadFrom, TailFrom
    <2>13. QED
      BY <1>1, <2>12 DEF ReadInv
  <1>4. QED
    BY <1>0, <1>2, <1>3

(* The invariant of what has been read is kept by every step. *)
LEMMA ReadKept == PlaceInv /\ ReadInv /\ [GetoptNext]_getoptVars => ReadInv'
  <1> SUFFICES ASSUME PlaceInv, ReadInv, [GetoptNext]_getoptVars PROVE ReadInv'
    OBVIOUS
  <1>1. CASE Again
    <2>1. /\ UNCHANGED <<who, argc, start, ordering, argv, optind, first_nonopt,
                         last_nonopt, seen, nextchar, initialized>>
          /\ ~Over /\ ~Over'
      BY <1>1 DEF Again, Over, onceVars, scanVars, resultVars
    <2>2. QED
      BY <2>1, StillReads
  <1>2. CASE LookBehind
    <2>1. /\ UNCHANGED <<who, argc, start, ordering, argv, optind, first_nonopt,
                         last_nonopt, seen, nextchar, initialized>>
          /\ ~Over /\ ~Over'
      BY <1>2 DEF LookBehind, Over, onceVars, scanVars, resultVars
    <2>2. QED
      BY <2>1, StillReads
  <1>3. CASE UNCHANGED getoptVars
    <2>1. /\ UNCHANGED <<who, argc, start, ordering, argv, optind, first_nonopt,
                         last_nonopt, seen, nextchar, initialized>>
          /\ Over' = Over
      BY <1>3 DEF getoptVars, Over, onceVars, scanVars, resultVars
    <2>2. QED
      BY <2>1, StillReads
  <1>4. QED
    BY <1>1, <1>2, <1>3, CallReads, SkipReads, MarkReads, FinishReads, MeetReads,
       OpenReads, DecodeReads
    DEF GetoptNext, GetoptCall

(* However argv is permuted, what has been returned and what is still to   *)
(* be read are what the command line says.                                 *)
THEOREM ReadInvariant == GetoptSpec => [](PlaceInv /\ ReadInv)
  <1>1. GetoptInit => ReadInv
    BY DEF GetoptInit, GetoptStatics, ReadInv, Over
  <1>2. QED
    BY <1>1, PlaceInitially, PlaceKept, ReadKept, PTL DEF GetoptSpec

(* Texts joined begin with the first one. *)
LEMMA JoinedBegins ==
  ASSUME NEW s, NEW t, IsText(s), IsText(t)
  PROVE  IsPrefixOf(s, s \o t)
  <1> DEFINE v == s \o t
             n == Len(s)
             S == {v[k] : k \in DOMAIN v}
  <1>1. /\ IsText(v) /\ Len(v) = n + Len(t) /\ n \in Nat /\ Len(t) \in Nat
        /\ \A k \in 1 .. n + Len(t) : v[k] = IF k <= n THEN s[k] ELSE t[k - n]
    BY JoinedTexts
  <1> HIDE DEF v
  <1>2. v \in Seq(S)
    BY <1>1 DEF IsText
  <1> HIDE DEF S, n
  <1>3. n \in Nat /\ n <= Len(v) /\ \A k \in 1 .. n : v[k] = s[k]
    BY <1>1
  <1>4. /\ SubSeq(v, 1, n) \in Seq(S) /\ Len(SubSeq(v, 1, n)) = n
        /\ \A k \in 1 .. n : SubSeq(v, 1, n)[k] = v[k]
    BY <1>2, <1>3, SubSeqProperties
  <1>5. IsText(SubSeq(v, 1, n))
    BY <1>4, SequencesAreTexts
  <1>6. SubSeq(v, 1, n) = s
    BY <1>3, <1>4, <1>5, EqualTexts DEF n
  <1>7. QED
    BY <1>3, <1>6 DEF IsPrefixOf, v, n

(* The parts of Reading are those that are read from its origin. *)
LEMMA ReadingIs ==
  /\ Reading.opts = OptsFrom(Origin) /\ Reading.head = HeadFrom(Origin)
  /\ Reading.tail = TailFrom(Origin)
  BY Zenon DEF Reading, Origin, OptsFrom, HeadFrom, TailFrom

(* However argv is permuted meanwhile, the caller is given the options of  *)
(* the command line, with their arguments, each once and in order.         *)
THEOREM OptionsAreInOrder == GetoptSpec => []OptionsInOrder
  <1>1. PlaceInv /\ ReadInv => OptionsInOrder
    <2> SUFFICES ASSUME PlaceInv, ReadInv, pc = "returned"
                 PROVE  /\ IsPrefixOf(seen, OptsFrom(Origin))
                        /\ opt = "-1" => seen = OptsFrom(Origin)
      BY ReadingIs, Zenon DEF OptionsInOrder
    <2>1. IsText(seen) /\ initialized
      BY DEF PlaceInv, Scanned, Staged
    <2>2. CASE opt = "-1"
      <3>1. seen = OptsFrom(Origin)
        BY <2>2 DEF ReadInv, Over, Done
      <3> DEFINE none == << >>
      <3>2. IsText(none)
        BY DEF IsText
      <3>3. seen \o none = seen
        BY <2>1, JoinedTexts
      <3> HIDE DEF none
      <3>4. IsPrefixOf(seen, seen \o none)
        BY <2>1, <3>2, JoinedBegins
      <3>5. QED
        BY <3>1, <3>3, <3>4
    <2>3. CASE opt # "-1"
      <3> DEFINE t == OptsFrom(Here)
      <3>1. OptsFrom(Origin) = seen \o t
        BY <2>1, <2>3 DEF ReadInv, Over, Underway, Sofar
      <3>2. IsText(t)
        BY HereIs, FromTexts DEF PlaceInv
      <3> HIDE DEF t
      <3>3. IsPrefixOf(seen, seen \o t)
        BY <2>1, <3>2, JoinedBegins
      <3>4. QED
        BY <2>3, <3>1, <3>3
    <2>4. QED
      BY <2>2, <2>3
  <1>2. QED
    BY <1>1, ReadInvariant, PTL

(* At the end the options lie in front of what is none, neither have       *)
(* changed their order, and optind is the first that is no option.         *)
THEOREM OptionsComeFirstAtLast == GetoptSpec => []OptionsComeFirst
  <1>1. PlaceInv /\ ReadInv => OptionsComeFirst
    <2> SUFFICES ASSUME PlaceInv, ReadInv, pc = "returned", opt = "-1"
                 PROVE  /\ Slice(argv, FirstArg, argc) = HeadFrom(Origin) \o TailFrom(Origin)
                        /\ optind = FirstArg + Len(HeadFrom(Origin))
                        /\ \A k \in 0 .. FirstArg - 1 : argv[k] = start[k]
      BY ReadingIs, Zenon DEF OptionsComeFirst, Slice
    <2>1. Done
      BY DEF ReadInv, Over
    <2>2. \A k \in 0 .. FirstArg - 1 : argv[k] = start[k]
      <3>1. \A k \in 0 .. argc - 1 : k < FirstArg => argv[k] = start[k]
        BY DEF PlaceInv, Scanned, Staged
      <3>2. FirstArg <= argc /\ FirstArg \in Nat /\ argc \in Nat
        BY TheNumbers DEF PlaceInv, Line
      <3>3. QED
        BY <3>1, <3>2
    <2>3. QED
      BY <2>1, <2>2 DEF Done
  <1>2. QED
    BY <1>1, ReadInvariant, PTL
==============================================================================
