------------------------- MODULE GetoptExchangeProofs ------------------------
(***************************************************************************)
(* Proofs about GetoptExchange, for vectors of any length and content.     *)
(***************************************************************************)
EXTENDS GetoptExchange, TLAPS

(* a after the swaps j, ..., len - 1 of the elements at x with those at y.  *)
SwappedFrom(a, x, y, j, len) ==
  [k \in DOMAIN a |->
     IF x + j <= k /\ k < x + len THEN a[k - x + y]
     ELSE IF y + j <= k /\ k < y + len THEN a[k - y + x]
     ELSE a[k]]

(* The elements of a vector after the rest of a round, and of a rotated    *)
(* one.                                                                    *)
LEMMA Elements ==
  ASSUME NEW n \in Nat, NEW a, IsVector(a, n)
  PROVE  /\ DOMAIN a = 0 .. n - 1
         /\ \A x, y, j, len \in Int :
              /\ IsVector(SwappedFrom(a, x, y, j, len), n)
              /\ \A k \in 0 .. n - 1 :
                   SwappedFrom(a, x, y, j, len)[k] =
                     IF x + j <= k /\ k < x + len THEN a[k - x + y]
                     ELSE IF y + j <= k /\ k < y + len THEN a[k - y + x]
                     ELSE a[k]
         /\ \A b, m, t \in Int :
              /\ IsVector(Rotated(a, b, m, t), n)
              /\ \A k \in 0 .. n - 1 :
                   Rotated(a, b, m, t)[k] =
                     IF b <= k /\ k < b + (t - m) THEN a[k + (m - b)]
                     ELSE IF b + (t - m) <= k /\ k < t THEN a[k - (t - m)]
                     ELSE a[k]
  BY DEF IsVector, SwappedFrom, Rotated

(* Vectors with the same elements are equal.                               *)
LEMMA SameElements ==
  ASSUME NEW n \in Nat, NEW a, NEW c, IsVector(a, n), IsVector(c, n),
         \A k \in 0 .. n - 1 : a[k] = c[k]
  PROVE  a = c
  BY DEF IsVector

(* A swap of exchange does the first of the swaps that a round has left.   *)
LEMMA OneSwap ==
  ASSUME NEW n \in Nat, NEW a, IsVector(a, n),
         NEW x \in 0 .. n, NEW y \in 0 .. n, NEW len \in 0 .. n,
         NEW j \in 0 .. len - 1, x + len <= y, y + len <= n,
         NEW e, IsVector(e, n),
         \A k \in 0 .. n - 1 : e[k] = IF k = y + j THEN a[x + j]
                                     ELSE IF k = x + j THEN a[y + j] ELSE a[k]
  PROVE  SwappedFrom(e, x, y, j + 1, len) = SwappedFrom(a, x, y, j, len)
  <1>1. /\ IsVector(e, n)
        /\ \A k \in 0 .. n - 1 :
             e[k] = IF k = y + j THEN a[x + j]
                    ELSE IF k = x + j THEN a[y + j] ELSE a[k]
    OBVIOUS
  <1>2. x \in Int /\ y \in Int /\ j \in Int /\ j + 1 \in Int /\ len \in Int
    OBVIOUS
  <1>3. \A k \in 0 .. n - 1 :
          SwappedFrom(e, x, y, j + 1, len)[k] = SwappedFrom(a, x, y, j, len)[k]
    <2> TAKE k \in 0 .. n - 1
    <2>1. SwappedFrom(e, x, y, j + 1, len)[k] =
            IF x + (j + 1) <= k /\ k < x + len THEN e[k - x + y]
            ELSE IF y + (j + 1) <= k /\ k < y + len THEN e[k - y + x] ELSE e[k]
      BY <1>1, <1>2, Elements
    <2>2. SwappedFrom(a, x, y, j, len)[k] =
            IF x + j <= k /\ k < x + len THEN a[k - x + y]
            ELSE IF y + j <= k /\ k < y + len THEN a[k - y + x] ELSE a[k]
      BY <1>2, Elements
    <2>3. QED
      BY <1>1, <2>1, <2>2
  <1>4. /\ IsVector(SwappedFrom(e, x, y, j + 1, len), n)
        /\ IsVector(SwappedFrom(a, x, y, j, len), n)
    BY <1>1, <1>2, Elements
  <1>5. QED
    BY <1>3, <1>4, SameElements

(* A round without swaps left changes nothing.                             *)
LEMMA AllSwapped ==
  ASSUME NEW n \in Nat, NEW a, IsVector(a, n),
         NEW x \in 0 .. n, NEW y \in 0 .. n, NEW len \in 0 .. n
  PROVE  SwappedFrom(a, x, y, len, len) = a
  BY DEF SwappedFrom, IsVector

(* A round with the short part at the bottom leaves an exchange of what is *)
(* below the elements that are in place ...                                *)
LEMMA BottomRound ==
  ASSUME NEW n \in Nat, NEW a, IsVector(a, n),
         NEW b \in 0 .. n, NEW m \in 0 .. n, NEW t \in 0 .. n,
         b < m, m < t, t - m > m - b
  PROVE  Rotated(SwappedFrom(a, b, t - (m - b), 0, m - b), b, m, t - (m - b))
           = Rotated(a, b, m, t)
  <1> DEFINE s == SwappedFrom(a, b, t - (m - b), 0, m - b)
             u == t - (m - b)
  <1>1. /\ b \in Int /\ m \in Int /\ t \in Int /\ u \in Int /\ m - b \in Int
        /\ 0 \in Int
    OBVIOUS
  <1>2. /\ IsVector(s, n)
        /\ \A k \in 0 .. n - 1 :
             s[k] = IF b + 0 <= k /\ k < b + (m - b) THEN a[k - b + u]
                    ELSE IF u + 0 <= k /\ k < u + (m - b) THEN a[k - u + b]
                    ELSE a[k]
    BY <1>1, Elements
  <1> HIDE DEF s
  <1>3. \A k \in 0 .. n - 1 : Rotated(s, b, m, u)[k] = Rotated(a, b, m, t)[k]
    <2> TAKE k \in 0 .. n - 1
    <2>1. Rotated(s, b, m, u)[k] =
            IF b <= k /\ k < b + (u - m) THEN s[k + (m - b)]
            ELSE IF b + (u - m) <= k /\ k < u THEN s[k - (u - m)] ELSE s[k]
      BY <1>1, <1>2, Elements
    <2>2. Rotated(a, b, m, t)[k] =
            IF b <= k /\ k < b + (t - m) THEN a[k + (m - b)]
            ELSE IF b + (t - m) <= k /\ k < t THEN a[k - (t - m)] ELSE a[k]
      BY <1>1, Elements
    <2>3. QED
      BY <1>2, <2>1, <2>2
  <1>4. QED
    BY <1>1, <1>2, <1>3, Elements, SameElements DEF s

(* ... and one with the short part at the top, of what is above them.      *)
LEMMA TopRound ==
  ASSUME NEW n \in Nat, NEW a, IsVector(a, n),
         NEW b \in 0 .. n, NEW m \in 0 .. n, NEW t \in 0 .. n,
         b < m, m < t, t - m <= m - b
  PROVE  Rotated(SwappedFrom(a, b, m, 0, t - m), b + (t - m), m, t)
           = Rotated(a, b, m, t)
  <1> DEFINE s == SwappedFrom(a, b, m, 0, t - m)
             c == b + (t - m)
  <1>1. /\ b \in Int /\ m \in Int /\ t \in Int /\ c \in Int /\ t - m \in Int
        /\ 0 \in Int
    OBVIOUS
  <1>2. /\ IsVector(s, n)
        /\ \A k \in 0 .. n - 1 :
             s[k] = IF b + 0 <= k /\ k < b + (t - m) THEN a[k - b + m]
                    ELSE IF m + 0 <= k /\ k < m + (t - m) THEN a[k - m + b]
                    ELSE a[k]
    BY <1>1, Elements
  <1> HIDE DEF s
  <1>3. \A k \in 0 .. n - 1 : Rotated(s, c, m, t)[k] = Rotated(a, b, m, t)[k]
    <2> TAKE k \in 0 .. n - 1
    <2>1. Rotated(s, c, m, t)[k] =
            IF c <= k /\ k < c + (t - m) THEN s[k + (m - c)]
            ELSE IF c + (t - m) <= k /\ k < t THEN s[k - (t - m)] ELSE s[k]
      BY <1>1, <1>2, Elements
    <2>2. Rotated(a, b, m, t)[k] =
            IF b <= k /\ k < b + (t - m) THEN a[k + (m - b)]
            ELSE IF b + (t - m) <= k /\ k < t THEN a[k - (t - m)] ELSE a[k]
      BY <1>1, Elements
    <2>3. QED
      BY <1>2, <2>1, <2>2
  <1>4. QED
    BY <1>1, <1>2, <1>3, Elements, SameElements DEF s

(* An exchange with an empty part changes nothing.                         *)
LEMMA NothingLeft ==
  ASSUME NEW n \in Nat, NEW a, IsVector(a, n),
         NEW b \in 0 .. n, NEW m \in 0 .. n, NEW t \in 0 .. n,
         b <= m, m <= t, b = m \/ m = t
  PROVE  Rotated(a, b, m, t) = a
  BY DEF Rotated, IsVector

(* The elements of the bottom part come to stand on top, in their order.   *)
LEMMA BottomOnTop ==
  ASSUME NEW n \in Nat, NEW a, IsVector(a, n),
         NEW b \in 0 .. n, NEW m \in 0 .. n, NEW t \in 0 .. n,
         b <= m, m <= t, NEW k \in 0 .. (m - b) - 1
  PROVE  Rotated(a, b, m, t)[b + (t - m) + k] = a[b + k]
  BY SMTT(30) DEF Rotated, IsVector

(***************************************************************************)
(* The inductive invariant.  argv does not look like the result before the *)
(* end: what does not change is the result that the remaining rounds, and  *)
(* the remaining swaps of this round, would have.                          *)
(***************************************************************************)
Goal == Rotated(before.argv, before.first, before.last, optind)

Parts(n) ==
  /\ IsVector(argv, n) /\ IsVector(before.argv, n) /\ optind \in 1 .. n
  /\ before.first \in 0 .. optind /\ before.last \in 0 .. optind
  /\ before.first < before.last /\ before.last < optind
  /\ bottom \in 0 .. optind /\ middle \in 0 .. optind /\ top \in 0 .. optind
  /\ before.first <= bottom /\ bottom <= middle /\ middle <= top
  /\ middle = before.last /\ (bottom = middle \/ top = middle => pc # "for")

Progress ==
  /\ pc = "while" => Rotated(argv, bottom, middle, top) = Goal
  /\ pc = "for" =>
       Rotated(SwappedFrom(argv, bottom, Partner, i, SwapLen),
               IF BottomIsShort THEN bottom ELSE bottom + SwapLen, middle,
               IF BottomIsShort THEN top - SwapLen ELSE top) = Goal
  /\ pc = "returned" => argv = Goal

Records ==
  IF pc = "returned"
  THEN first_nonopt = before.first + (optind - before.last) /\ last_nonopt = optind
  ELSE first_nonopt = before.first /\ last_nonopt = before.last

ExchangeInv ==
  /\ \E n \in 0 .. MaxArgc : Parts(n)
  /\ Progress /\ Records
  /\ i \in Nat /\ (pc = "for" => i <= SwapLen)
  /\ pc \in {"while", "for", "returned"}

(* exchange starts in the invariant.                                       *)
LEMMA ExchangeInitially == ExchangeInit => ExchangeInv
  <1> SUFFICES ASSUME ExchangeInit PROVE ExchangeInv
    OBVIOUS
  <1>1. PICK n \in 0 .. MaxArgc : IsVector(argv, n)
    BY ArgvsAssumption DEF ExchangeInit, IsVector
  <1>2. n \in Nat /\ DOMAIN argv = 0 .. n - 1
    BY <1>1, ArgcAssumption DEF IsVector
  <1>3. Parts(n)
    BY <1>1, <1>2 DEF ExchangeInit, Parts
  <1>4. QED
    BY <1>1, <1>3 DEF ExchangeInit, ExchangeInv, Progress, Records, Goal

(* No step of exchange leaves the invariant.                               *)
LEMMA ExchangeStep == ExchangeInv /\ [ExchangeNext]_exVars => ExchangeInv'
  <1> SUFFICES ASSUME ExchangeInv, [ExchangeNext]_exVars PROVE ExchangeInv'
    OBVIOUS
  <1>1. PICK n \in 0 .. MaxArgc : Parts(n)
    BY DEF ExchangeInv
  <1>2. n \in Nat
    BY ArgcAssumption
  <1>3. /\ bottom \in 0 .. n /\ middle \in 0 .. n /\ top \in 0 .. n
        /\ optind \in 0 .. n /\ IsVector(argv, n)
        /\ bottom <= middle /\ middle <= top
    BY <1>1, <1>2 DEF Parts
  <1>4. CASE UNCHANGED exVars
    BY <1>4 DEF exVars, ExchangeInv, Parts, Progress, Records, Goal, Partner,
                SwapLen, BottomIsShort
  <1>5. CASE Enter
    <2>1. bottom < middle /\ middle < top
      BY <1>3, <1>5 DEF Enter
    <2>2. Rotated(SwappedFrom(argv, bottom, Partner, 0, SwapLen),
                  IF BottomIsShort THEN bottom ELSE bottom + SwapLen, middle,
                  IF BottomIsShort THEN top - SwapLen ELSE top)
            = Rotated(argv, bottom, middle, top)
      <3>1. CASE BottomIsShort
        BY <1>2, <1>3, <2>1, <3>1, BottomRound DEF BottomIsShort, Partner, SwapLen
      <3>2. CASE ~BottomIsShort
        BY <1>2, <1>3, <2>1, <3>2, TopRound DEF BottomIsShort, Partner, SwapLen
      <3>3. QED
        BY <3>1, <3>2
    <2>3. Progress'
      BY <1>5, <2>2 DEF Enter, ExchangeInv, Progress, Goal, Partner, SwapLen,
                        BottomIsShort
    <2>4. Parts(n)' /\ Records'
      BY <1>1, <1>3, <1>5, <2>1 DEF Enter, ExchangeInv, Parts, Records
    <2>5. i' \in Nat /\ i' <= SwapLen'
      BY <1>3, <1>5, <2>1 DEF Enter, SwapLen, BottomIsShort
    <2>6. QED
      BY <1>5, <2>3, <2>4, <2>5 DEF Enter, ExchangeInv
  <1>6. CASE Swap
    <2>1. /\ SwapLen \in 0 .. n /\ Partner \in 0 .. n /\ i \in 0 .. SwapLen - 1
          /\ bottom + SwapLen <= Partner /\ Partner + SwapLen <= n
      BY <1>1, <1>2, <1>3, <1>6
         DEF Swap, SwapLen, Partner, BottomIsShort, ExchangeInv, Parts
    <2>2. /\ IsVector(argv', n)
          /\ SwappedFrom(argv', bottom, Partner, i', SwapLen)
               = SwappedFrom(argv, bottom, Partner, i, SwapLen)
      <3>1. argv' = [argv EXCEPT ![bottom + i] = argv[Partner + i],
                                 ![Partner + i] = argv[bottom + i]]
            /\ i' = i + 1
        BY <1>6 DEF Swap
      <3>2. /\ bottom \in 0 .. n /\ Partner \in 0 .. n /\ SwapLen \in 0 .. n
            /\ i \in 0 .. SwapLen - 1 /\ bottom + SwapLen <= Partner
            /\ Partner + SwapLen <= n
        BY <1>3, <2>1
      <3>3. bottom + i \in 0 .. n - 1 /\ Partner + i \in 0 .. n - 1
        BY <1>2, <3>2
      <3>4. /\ IsVector(argv', n)
            /\ \A k \in 0 .. n - 1 :
                 argv'[k] = IF k = Partner + i THEN argv[bottom + i]
                            ELSE IF k = bottom + i THEN argv[Partner + i]
                            ELSE argv[k]
        <4> DEFINE x == bottom + i
                   y == Partner + i
        <4>1. x \in 0 .. n - 1 /\ y \in 0 .. n - 1
          BY <3>3
        <4>2. argv' = [argv EXCEPT ![x] = argv[y], ![y] = argv[x]]
          BY <3>1
        <4> HIDE DEF x, y
        <4>3. /\ IsVector(argv', n)
              /\ \A k \in 0 .. n - 1 :
                   argv'[k] = IF k = y THEN argv[x]
                              ELSE IF k = x THEN argv[y] ELSE argv[k]
          BY <1>2, <1>3, <4>1, <4>2 DEF IsVector
        <4>4. QED
          BY <4>3 DEF x, y
      <3>5. SwappedFrom(argv', bottom, Partner, i + 1, SwapLen)
              = SwappedFrom(argv, bottom, Partner, i, SwapLen)
        BY <1>2, <1>3, <3>2, <3>4, OneSwap
      <3>6. QED
        BY <3>1, <3>4, <3>5
    <2>3. /\ Partner' = Partner /\ SwapLen' = SwapLen
          /\ BottomIsShort' = BottomIsShort
      BY <1>6 DEF Swap, Partner, SwapLen, BottomIsShort
    <2>4. Progress'
      BY <1>6, <2>2, <2>3 DEF Swap, ExchangeInv, Progress, Goal
    <2>5. Parts(n)' /\ Records'
      BY <1>1, <1>6, <2>2 DEF Swap, ExchangeInv, Parts, Records
    <2>6. i' \in Nat /\ i' <= SwapLen'
      BY <1>6, <2>1, <2>3 DEF Swap
    <2>7. QED
      BY <1>6, <2>4, <2>5, <2>6 DEF Swap, ExchangeInv
  <1>7. CASE Exclude
    <2>1. SwapLen \in 0 .. n /\ Partner \in 0 .. n
      BY <1>2, <1>3 DEF SwapLen, Partner, BottomIsShort
    <2>2. SwappedFrom(argv, bottom, Partner, i, SwapLen) = argv
      BY <1>2, <1>3, <1>7, <2>1, AllSwapped DEF Exclude
    <2>3. Progress'
      BY <1>7, <2>2 DEF Exclude, ExchangeInv, Progress, Goal
    <2>4. Parts(n)' /\ Records'
      BY <1>1, <1>2, <1>3, <1>7
         DEF Exclude, ExchangeInv, Parts, Records, SwapLen, BottomIsShort
    <2>5. QED
      BY <1>7, <2>3, <2>4 DEF Exclude, ExchangeInv
  <1>8. CASE Relocate
    <2>1. Rotated(argv, bottom, middle, top) = argv
      <3>1. bottom = middle \/ middle = top
        BY <1>3, <1>8 DEF Relocate
      <3>2. QED
        BY <1>2, <1>3, <3>1, NothingLeft
    <2>2. Progress'
      BY <1>8, <2>1 DEF Relocate, ExchangeInv, Progress, Goal
    <2>3. Parts(n)' /\ Records'
      BY <1>1, <1>8 DEF Relocate, ExchangeInv, Parts, Records
    <2>4. QED
      BY <1>8, <2>2, <2>3 DEF Relocate, ExchangeInv
  <1>9. QED
    BY <1>4, <1>5, <1>6, <1>7, <1>8 DEF ExchangeNext

(* What the remaining swaps would make of argv is settled from the start.  *)
THEOREM ExchangeInvariant == ExchangeSpec => []ExchangeInv
  BY ExchangeInitially, ExchangeStep, PTL DEF ExchangeSpec

(* exchange stays inside argv and the part it was called for.              *)
THEOREM ExchangeTypes == ExchangeSpec => []ExchangeTypeOK
  <1>1. ExchangeInv => ExchangeTypeOK
    <2> SUFFICES ASSUME ExchangeInv PROVE ExchangeTypeOK
      OBVIOUS
    <2>1. PICK n \in 0 .. MaxArgc : Parts(n)
      BY DEF ExchangeInv
    <2>2. n \in Nat /\ DOMAIN argv = 0 .. n - 1
      BY <2>1, ArgcAssumption DEF Parts, IsVector
    <2>3. optind \in 1 .. n /\ n \in 0 .. MaxArgc
      BY <2>1 DEF Parts
    <2>4. first_nonopt \in 0 .. optind - 1 /\ last_nonopt \in 0 .. optind
      <3>1. CASE pc = "returned"
        BY <2>1, <2>2, <3>1 DEF ExchangeInv, Parts, Records
      <3>2. CASE pc # "returned"
        BY <2>1, <2>2, <3>2 DEF ExchangeInv, Parts, Records
      <3>3. QED
        BY <3>1, <3>2
    <2>5. /\ bottom \in 0 .. optind /\ middle \in 0 .. optind
          /\ top \in 0 .. optind
      BY <2>1 DEF Parts
    <2>6. QED
      BY <2>2, <2>3, <2>4, <2>5 DEF ExchangeInv, ExchangeTypeOK
  <1>2. QED
    BY <1>1, ExchangeInvariant, PTL

(* The elements that one round swaps with each other do not overlap.       *)
THEOREM SwapsStayApart == ExchangeSpec => []SwapsApart
  <1>1. ExchangeInv => SwapsApart
    <2> SUFFICES ASSUME ExchangeInv PROVE SwapsApart
      OBVIOUS
    <2>1. PICK n \in 0 .. MaxArgc : Parts(n)
      BY DEF ExchangeInv
    <2>2. n \in Nat
      BY ArgcAssumption
    <2>3. QED
      BY <2>1, <2>2 DEF SwapsApart, Parts, Partner, SwapLen, BottomIsShort
  <1>2. QED
    BY <1>1, ExchangeInvariant, PTL

(* A rotation leaves alone what is outside of the two parts.               *)
LEMMA OutsideUntouched ==
  ASSUME NEW n \in Nat, NEW a, IsVector(a, n),
         NEW b \in 0 .. n, NEW m \in 0 .. n, NEW t \in 0 .. n, b <= m, m <= t,
         NEW k \in 0 .. n - 1, k < b \/ k >= t
  PROVE  Rotated(a, b, m, t)[k] = a[k]
  BY DEF Rotated, IsVector

(* What exchange has let go of is in its place.                            *)
THEOREM LetGoInPlace == ExchangeSpec => []OutsideInPlace
  <1>1. ExchangeInv => OutsideInPlace
    <2> SUFFICES ASSUME ExchangeInv, NEW k \in DOMAIN argv, k < bottom \/ k >= top
                 PROVE  argv[k] = Goal[k]
      BY DEF OutsideInPlace, Goal
    <2>1. PICK n \in 0 .. MaxArgc : Parts(n)
      BY DEF ExchangeInv
    <2>2. n \in Nat /\ k \in 0 .. n - 1
      BY <2>1, ArgcAssumption DEF Parts, IsVector
    <2>3. /\ bottom \in 0 .. n /\ middle \in 0 .. n /\ top \in 0 .. n
          /\ IsVector(argv, n) /\ bottom <= middle /\ middle <= top
      BY <2>1, <2>2 DEF Parts
    <2>4. CASE pc = "while"
      BY <2>2, <2>3, <2>4, OutsideUntouched DEF ExchangeInv, Progress
    <2>5. CASE pc = "for"
      <3> DEFINE s == SwappedFrom(argv, bottom, Partner, i, SwapLen)
                 b == IF BottomIsShort THEN bottom ELSE bottom + SwapLen
                 t == IF BottomIsShort THEN top - SwapLen ELSE top
      <3>1. /\ SwapLen \in 0 .. n /\ Partner \in 0 .. n /\ i \in Nat
            /\ bottom <= Partner /\ Partner + SwapLen <= top
            /\ b \in 0 .. n /\ t \in 0 .. n /\ b <= middle /\ middle <= t
            /\ bottom <= b /\ t <= top
        BY <2>2, <2>3 DEF ExchangeInv, SwapLen, Partner, BottomIsShort
      <3>2. IsVector(s, n)
        BY <2>2, <2>3, <3>1, Elements
      <3>3. s[k] = argv[k]
        <4>1. k < bottom \/ k >= Partner + SwapLen
          BY <2>2, <2>3, <3>1
        <4>2. QED
          BY <2>2, <2>3, <3>1, <4>1 DEF SwappedFrom, IsVector
      <3>4. Rotated(s, b, middle, t) = Goal
        BY <2>5 DEF ExchangeInv, Progress
      <3> HIDE DEF s, b, t
      <3>5. k < b \/ k >= t
        BY <2>2, <2>3, <3>1
      <3>6. Rotated(s, b, middle, t)[k] = s[k]
        BY <2>2, <2>3, <3>1, <3>2, <3>5, OutsideUntouched
      <3>7. QED
        BY <3>3, <3>4, <3>6
    <2>6. CASE pc = "returned"
      BY <2>6 DEF ExchangeInv, Progress
    <2>7. QED
      BY <2>4, <2>5, <2>6 DEF ExchangeInv
  <1>2. QED
    BY <1>1, ExchangeInvariant, PTL

(* exchange puts the options before the non-options, each in their order,  *)
(* for vectors of any length and content.                                  *)
THEOREM ExchangeCorrect == ExchangeSpec => []Exchanged
  <1>1. ExchangeInv => Exchanged
    <2> SUFFICES ASSUME ExchangeInv, pc = "returned" PROVE Exchanged
      BY DEF Exchanged
    <2>1. PICK n \in 0 .. MaxArgc : Parts(n)
      BY DEF ExchangeInv
    <2>2. n \in Nat
      BY ArgcAssumption
    <2>3. /\ argv = Goal /\ last_nonopt = optind
          /\ first_nonopt = before.first + (optind - before.last)
      BY DEF ExchangeInv, Progress, Records
    <2>4. ASSUME NEW k \in 0 .. last_nonopt - first_nonopt - 1
          PROVE  argv[first_nonopt + k] = before.argv[before.first + k]
      <3>2. /\ IsVector(before.argv, n) /\ before.first \in Int
            /\ before.last \in Int /\ optind \in Int
        BY <2>1, <2>2 DEF Parts
      <3>3. /\ before.first \in 0 .. n /\ before.last \in 0 .. n
            /\ optind \in 0 .. n /\ before.first <= before.last
            /\ before.last <= optind
            /\ k \in 0 .. (before.last - before.first) - 1
            /\ first_nonopt + k = before.first + (optind - before.last) + k
        BY <2>1, <2>2, <2>3, <2>4 DEF Parts
      <3>4. QED
        BY <2>2, <2>3, <3>2, <3>3, BottomOnTop DEF Goal
    <2>5. last_nonopt - first_nonopt = before.last - before.first
      BY <2>1, <2>2, <2>3 DEF Parts
    <2>6. QED
      BY <2>3, <2>4, <2>5 DEF Exchanged, Goal
  <1>2. QED
    BY <1>1, ExchangeInvariant, PTL

(* Each step of the exchange costs, whatever the parts are: it ends within *)
(* three steps for each element, and one.                                  *)
THEOREM ExchangeCosts == ExchangeSpec => ExchangeIsLinear
  <1> DEFINE Costs == 0 <= StepsLeft' /\ StepsLeft' < StepsLeft
  <1>1. ExchangeInv /\ ExchangeInv' /\ [ExchangeNext]_exVars => [Costs]_exVars
    <2> SUFFICES ASSUME ExchangeInv, ExchangeInv', ExchangeNext PROVE Costs
      OBVIOUS
    <2>1. PICK n \in 0 .. MaxArgc : Parts(n)
      BY DEF ExchangeInv
    <2>2. n \in Nat
      BY ArgcAssumption
    <2>3. /\ bottom \in Nat /\ middle \in Nat /\ top \in Nat /\ i \in Nat
          /\ bottom <= middle /\ middle <= top
          /\ pc = "for" => bottom < middle /\ middle < top /\ i <= SwapLen
      BY <2>1, <2>2 DEF Parts, ExchangeInv
    <2>4. pc = "for" => /\ SwapLen \in Nat /\ SwapLen >= 1
                        /\ SwapLen <= middle - bottom /\ SwapLen <= top - middle
      BY <2>3 DEF SwapLen, BottomIsShort
    <2>5. CASE Enter
      BY <2>3, <2>5 DEF Enter, StepsLeft
    <2>6. CASE Swap
      BY <2>3, <2>4, <2>6 DEF Swap, StepsLeft
    <2>7. CASE Exclude
      <3>1. /\ pc = "for" /\ pc' = "while" /\ i = SwapLen
            /\ top' - bottom' = (top - bottom) - SwapLen
        BY <2>3, <2>4, <2>7 DEF Exclude
      <3>2. /\ StepsLeft' = 3 * (top' - bottom') + 1
            /\ StepsLeft = 3 * (top - bottom) - SwapLen
        BY <3>1 DEF StepsLeft
      <3>3. QED
        BY <2>3, <2>4, <3>1, <3>2
    <2>8. CASE Relocate
      BY <2>3, <2>8 DEF Relocate, StepsLeft
    <2>9. QED
      BY <2>5, <2>6, <2>7, <2>8 DEF ExchangeNext
  <1>2. QED
    BY <1>1, ExchangeInvariant, PTL DEF ExchangeSpec, ExchangeIsLinear
==============================================================================
