--------------------------- MODULE CatCommandProofs --------------------------
(***************************************************************************)
(* Proofs about CatCommand, for every command line: what CAT opens and     *)
(* prints is what the options ask for, whatever getopt_long makes of argv. *)
(* They rest on what is proved of Getopt.                                  *)
(***************************************************************************)
EXTENDS CatCommand, GetoptProofs

Os == Callers[1].optstring
Name(k) == Callers[1].longopts[k].name

(* What handle_cat asks for. *)
LEMMA AskedIs ==
  /\ 1 \in DOMAIN Callers /\ Callers[1].function = "getopt_long" /\ Callers[1].optind = 3
  /\ DOMAIN Os = {1, 2} /\ Os[1] = "t" /\ Os[2] = "a" /\ Len(Os) = 2
  /\ DOMAIN Callers[1].longopts = {1, 2}
  /\ \A k \in {1, 2} :
       /\ Callers[1].longopts[k].has_arg = "no" /\ Callers[1].longopts[k].flag = ""
       /\ Callers[1].longopts[k].val = Os[k] /\ IsText(Name(k))
       /\ \A j \in DOMAIN Name(k) : Name(k)[j] \notin {"=", ""}
  /\ At(Name(1), 1) # At(Name(2), 1)
  <1>1. 1 \in DOMAIN Callers /\ IsHandleCat(Callers[1]) /\ IsCaller(Callers[1])
    BY CommandConstants, GetoptConstants
  <1>2. Os = <<"t", "a">>
    BY <1>1 DEF IsHandleCat, Os
  <1>3. DOMAIN Os = {1, 2} /\ Os[1] = "t" /\ Os[2] = "a" /\ Len(Os) = 2
    BY <1>2
  <1>4. 1 .. 2 = {1, 2}
    OBVIOUS
  <1>5. DOMAIN Callers[1].longopts = {1, 2}
    <2> DEFINE l == Callers[1].longopts
    <2>1. IsText(l) /\ Len(l) = 2
      BY <1>1 DEF IsCaller, IsHandleCat
    <2> HIDE DEF l
    <2>2. DOMAIN l = 1 .. 2
      BY <2>1 DEF IsText
    <2>3. QED
      BY <1>4, <2>2 DEF l
  <1>6. \A k \in {1, 2} :
          /\ Callers[1].longopts[k].has_arg = "no" /\ Callers[1].longopts[k].flag = ""
          /\ Callers[1].longopts[k].val = Os[k] /\ IsText(Name(k))
          /\ \A j \in DOMAIN Name(k) : Name(k)[j] \notin {"=", ""}
    <2> SUFFICES ASSUME NEW k \in {1, 2}
                 PROVE  /\ Callers[1].longopts[k].has_arg = "no"
                        /\ Callers[1].longopts[k].flag = ""
                        /\ Callers[1].longopts[k].val = Os[k] /\ IsText(Name(k))
                        /\ \A j \in DOMAIN Name(k) : Name(k)[j] \notin {"=", ""}
      OBVIOUS
    <2>1. k \in 1 .. 2 /\ k \in DOMAIN Callers[1].longopts
      BY <1>4, <1>5
    <2>2. IsText(Name(k))
      BY <1>1, <2>1 DEF IsCaller, Name
    <2>3. QED
      BY <1>1, <2>1, <2>2 DEF IsHandleCat, Name, Os
  <1>7. At(Name(1), 1) # At(Name(2), 1)
    BY <1>1 DEF IsHandleCat, Name
  <1>8. Callers[1].function = "getopt_long" /\ Callers[1].optind = 3
    BY <1>1 DEF IsHandleCat
  <1>9. QED
    BY <1>1, <1>3, <1>5, <1>6, <1>7, <1>8

(* The same, where handle_cat is the caller. *)
LEMMA CatAsks ==
  ASSUME who = 1
  PROVE  /\ who \in DOMAIN Callers /\ Function = "getopt_long" /\ FirstArg = 3
         /\ LongOptions = Callers[1].longopts
         /\ \A b : OptstringOf(who, b) = Os
         /\ More(Os) = 0
  <1>1. At(Os, 1) = "t"
    BY AskedIs DEF At
  <1>2. ~Has(Os, ";")
    BY AskedIs DEF Has
  <1>3. \A b : OptstringOf(who, b) = Os
    BY <1>1 DEF OptstringOf, Os
  <1>4. Function = "getopt_long" /\ FirstArg = 3 /\ LongOptions = Callers[1].longopts
    <2>1. Callers[who].function = "getopt_long" /\ Callers[who].optind = 3
      BY AskedIs
    <2>2. QED
      BY <2>1 DEF Function, FirstArg, LongOptions
  <1>5. QED
    BY <1>2, <1>3, <1>4, AskedIs DEF More

(* Of the letters, optstring has t and a, which take no argument. *)
LEMMA KindIs ==
  ASSUME NEW c
  PROVE  Kind(Os, c) = IF c \in {"t", "a"} THEN "no" ELSE "unknown"
  <1> DEFINE K == {j \in DOMAIN Os : Os[j] = c}
  <1>1. CASE c \in {"t", "a"}
    <2>1. Has(Os, c) /\ c # ":" /\ c # "W"
      BY <1>1, AskedIs DEF Has
    <2>2. K \in SUBSET Nat /\ K # {}
      <3>1. DOMAIN Os = {1, 2} /\ Os[1] = "t" /\ Os[2] = "a"
        BY AskedIs
      <3>2. 1 \in K \/ 2 \in K
        BY <1>1, <3>1
      <3>3. \A j \in K : j \in {1, 2}
        BY <3>1
      <3> HIDE DEF K
      <3>4. QED
        BY <3>2, <3>3
    <2> DEFINE k == FirstOf(K)
    <2>3. k \in K
      <3> HIDE DEF K
      <3>1. QED
        BY <2>2, FirstIsOne
    <2>4. k \in {1, 2}
      BY <2>3, AskedIs
    <2>5. At(Os, k + 1) # ":"
      <3>1. DOMAIN Os = {1, 2} /\ Os[2] = "a"
        BY AskedIs
      <3>2. At(Os, 2) # ":" /\ At(Os, 3) # ":"
        BY <3>1 DEF At
      <3>3. k + 1 = 2 \/ k + 1 = 3
        <4> HIDE DEF k
        <4>1. QED
          BY <2>4
      <3>4. QED
        BY <3>2, <3>3
    <2>6. QED
      BY <1>1, <2>1, <2>5, Zenon DEF Kind
  <1>2. CASE c \notin {"t", "a"}
    <2>1. ~Has(Os, c)
      BY <1>2, AskedIs DEF Has
    <2>2. QED
      BY <1>2, <2>1 DEF Kind
  <1>3. QED
    BY <1>1, <1>2

------------------------------------------------------------------------------
(* The option that a letter of a cluster is, and a long option.            *)
ShortLetter(c) == IF c \in {"t", "a"} THEN c ELSE "?"
LongLetter(a)  == IF Tracks(a) THEN "t" ELSE IF Table(a) THEN "a" ELSE "?"

(* A letter of a cluster is an option, and the next one is the next.       *)
LEMMA ShortIs ==
  ASSUME who = 1, NEW a, NEW j, a[2] # "-", NEW behind
  PROVE  /\ OptionAt(Os, a, j, behind).opt = ShortLetter(a[j])
         /\ OptionAt(Os, a, j, behind).past = IF j = Len(a) THEN 1 ELSE 0
         /\ OptionAt(Os, a, j, behind).place = IF j = Len(a) THEN 0 ELSE j + 1
  <1>1. ~IsLong(Os, a, j)
    BY CatAsks DEF IsLong
  <1>2. Kind(Os, a[j]) = IF a[j] \in {"t", "a"} THEN "no" ELSE "unknown"
    BY KindIs
  <1>3. OptionAt(Os, a, j, behind) = ShortAt(Os, a, j, behind)
    BY <1>1, <1>2 DEF OptionAt
  <1> DEFINE n == IF j = Len(a) THEN 1 ELSE 0
             m == IF j = Len(a) THEN 0 ELSE j + 1
             plain(o) == [Finding(o, << >>, n) EXCEPT !.place = m]
  <1>4. ShortAt(Os, a, j, behind)
          = IF a[j] \in {"t", "a"} THEN plain(a[j])
            ELSE [plain("?") EXCEPT !.unknown = <<a[j]>>]
    BY <1>2, Zenon DEF ShortAt
  <1> HIDE DEF n, m
  <1>5. \A o : /\ plain(o).opt = o /\ plain(o).past = n /\ plain(o).place = m
               /\ \A u : LET f == [plain(o) EXCEPT !.unknown = u]
                         IN  f.opt = o /\ f.past = n /\ f.place = m
    BY DEF Finding
  <1> HIDE DEF plain
  <1>6. QED
    BY <1>3, <1>4, <1>5 DEF ShortLetter, n, m

(* A text that another begins with has its letters. *)
LEMMA PrefixIs ==
  ASSUME NEW s, NEW t, IsText(s), IsText(t), IsPrefixOf(s, t)
  PROVE  /\ \A j \in DOMAIN s : j \in DOMAIN t /\ t[j] = s[j]
         /\ DOMAIN s = 1 .. Len(s) /\ Len(s) \in Nat
  <1> DEFINE n == Len(s)
             S == {t[k] : k \in DOMAIN t}
  <1>1. DOMAIN s = 1 .. n /\ n \in Nat /\ t \in Seq(S)
    BY DEF IsText
  <1>2. n <= Len(t) /\ s = SubSeq(t, 1, n)
    BY DEF IsPrefixOf
  <1> HIDE DEF S, n
  <1>3. /\ \A j \in 1 .. n : SubSeq(t, 1, n)[j] = t[j]
        /\ DOMAIN t = 1 .. Len(t) /\ Len(t) \in Nat
    BY <1>1, <1>2, SubSeqProperties
  <1>4. \A j \in 1 .. n : j \in DOMAIN t /\ t[j] = s[j]
    BY <1>1, <1>2, <1>3
  <1>5. QED
    BY <1>1, <1>4 DEF n

(* The name in a long option goes up to the first "=". *)
LEMMA NameInIs ==
  ASSUME NEW s, IsText(s)
  PROVE  /\ ~HasValue(s) => NameIn(s) = s
         /\ HasValue(s) => \E j \in DOMAIN s : s[j] \in {"=", ""}
  <1> DEFINE S == {s[k] : k \in DOMAIN s}
             l == Len(s)
             K == {k \in 0 .. l : At(s, k + 1) \in {"=", ""}}
             n == FirstOf(K)
  <1>1. s \in Seq(S) /\ l \in Nat /\ DOMAIN s = 1 .. l
    BY DEF IsText
  <1>2. K \in SUBSET Nat /\ l \in K
    <2>1. l + 1 \notin DOMAIN s
      BY <1>1
    <2>2. At(s, l + 1) = ""
      BY <2>1 DEF At
    <2> HIDE DEF l
    <2>3. l \in 0 .. l /\ 0 .. l \subseteq Nat
      BY <1>1
    <2>4. QED
      BY <2>2, <2>3
  <1>3. n \in K
    <2> HIDE DEF K
    <2>1. QED
      BY <1>2, FirstIsOne
  <1>4. n \in 0 .. l /\ At(s, n + 1) \in {"=", ""}
    <2> HIDE DEF n
    <2>1. QED
      BY <1>3
  <1>5. NameIn(s) = SubSeq(s, 1, n)
    BY DEF NameIn
  <1> HIDE DEF S, K, n, l
  <1>11. n \in Nat /\ l \in Nat /\ n <= l
    <2>1. l \in Nat /\ n \in 0 .. l
      BY <1>1, <1>4
    <2>2. QED
      BY <2>1
  <1>6. Len(SubSeq(s, 1, n)) = n /\ SubSeq(s, 1, l) = s
    <2>1. n \in Nat /\ n <= l
      BY <1>11
    <2>2. Len(SubSeq(s, 1, n)) = n
      BY <1>1, <2>1, SubSeqProperties
    <2>3. SubSeq(s, 1, l) = s
      <3>1. /\ SubSeq(s, 1, l) \in Seq(S) /\ Len(SubSeq(s, 1, l)) = l
            /\ \A k \in 1 .. l : SubSeq(s, 1, l)[k] = s[k]
        BY <1>1, SubSeqProperties
      <3>2. IsText(SubSeq(s, 1, l))
        BY <3>1, SequencesAreTexts
      <3>3. QED
        BY <3>1, <3>2, EqualTexts DEF l
    <2>4. QED
      BY <2>2, <2>3
  <1>7. HasValue(s) <=> n < l
    BY <1>5, <1>6 DEF HasValue, l
  <1>8. ASSUME n < l PROVE n + 1 \in DOMAIN s /\ s[n + 1] \in {"=", ""}
    <2>1. n + 1 \in DOMAIN s
      BY <1>1, <1>11, <1>8
    <2>2. QED
      BY <1>4, <2>1 DEF At
  <1>9. ~(n < l) => n = l
    BY <1>11
  <1>10. QED
    BY <1>5, <1>6, <1>7, <1>8, <1>9

(* What a long option is called is a text, and where there is one, not an  *)
(* empty one.                                                              *)
LEMMA FromIs ==
  ASSUME NEW a, IsText(a), Len(a) > 2
  PROVE  IsText(From(a, 3)) /\ Len(From(a, 3)) >= 1
  <1> DEFINE S == {a[k] : k \in DOMAIN a}
             n == Len(a)
  <1>1. a \in Seq(S) /\ n \in Nat /\ n > 2
    BY DEF IsText
  <1> HIDE DEF S
  <1>2. \A k \in 3 .. n : a[k] \in S
    <2>1. DOMAIN a = 1 .. n
      BY <1>1
    <2>2. QED
      BY <1>1, <2>1
  <1>3. SubSeq(a, 3, n) \in Seq(S) /\ Len(SubSeq(a, 3, n)) = n - 3 + 1
    BY <1>1, <1>2, SubSeqProperties
  <1> HIDE DEF n
  <1>4. IsText(SubSeq(a, 3, n)) /\ Len(SubSeq(a, 3, n)) >= 1
    <2>1. IsText(SubSeq(a, 3, n))
      BY <1>3, SequencesAreTexts
    <2>2. n - 3 + 1 >= 1
      BY <1>1
    <2>3. QED
      BY <1>3, <2>1, <2>2
  <1>5. QED
    BY <1>4 DEF From, n

(* A name is written without "=", and the names have no letter in common   *)
(* to begin with.                                                          *)
LEMMA NamesApart ==
  ASSUME NEW s, IsText(s), Len(s) >= 1
  PROVE  /\ HasValue(s) => \A k \in {1, 2} : ~IsPrefixOf(s, Name(k))
         /\ ~(IsPrefixOf(s, Name(1)) /\ IsPrefixOf(s, Name(2)))
  <1>1. \A k \in {1, 2} : IsText(Name(k))
    BY AskedIs
  <1>2. ASSUME HasValue(s), NEW k \in {1, 2}, IsPrefixOf(s, Name(k)) PROVE FALSE
    <2>1. PICK j \in DOMAIN s : s[j] \in {"=", ""}
      BY <1>2, NameInIs
    <2>2. j \in DOMAIN Name(k) /\ Name(k)[j] = s[j]
      BY <1>1, <1>2, PrefixIs
    <2>3. QED
      BY <2>1, <2>2, AskedIs
  <1>3. ASSUME IsPrefixOf(s, Name(1)), IsPrefixOf(s, Name(2)) PROVE FALSE
    <2>1. \A k \in {1, 2} : IsPrefixOf(s, Name(k))
      BY <1>3
    <2>2. \A k \in {1, 2} : /\ \A j \in DOMAIN s : j \in DOMAIN Name(k) /\ Name(k)[j] = s[j]
                            /\ DOMAIN s = 1 .. Len(s) /\ Len(s) \in Nat
      BY <1>1, <2>1, PrefixIs
    <2>3. 1 \in DOMAIN s
      BY <2>2
    <2>4. \A k \in {1, 2} : At(Name(k), 1) = s[1]
      BY <2>2, <2>3 DEF At
    <2>5. QED
      BY <2>4, AskedIs
  <1>4. QED
    BY <1>2, <1>3

(* So it is one name that a text without "=" begins, or none.              *)
LEMMA OneNameIsFound ==
  ASSUME who = 1, NEW s, IsText(s), Len(s) >= 1, ~HasValue(s)
  PROVE  /\ \A k \in {1, 2} : k \in Candidates(s) <=> IsPrefixOf(s, Name(k))
         /\ Candidates(s) \subseteq {1, 2}
         /\ \A k \in Candidates(s) : Found(s) = k /\ ~Ambiguous(s, FALSE)
  <1>1. DOMAIN LongOptions = {1, 2} /\ \A k : LongOptions[k].name = Name(k)
    BY CatAsks, AskedIs DEF Name
  <1>2. NameIn(s) = s
    BY NameInIs
  <1>3. Candidates(s) = {k \in {1, 2} : IsPrefixOf(s, Name(k))}
    BY <1>1, <1>2 DEF Candidates
  <1>4. ASSUME NEW k \in Candidates(s) PROVE Found(s) = k /\ ~Ambiguous(s, FALSE)
    <2>1. \A i \in Candidates(s) : i = k
      BY <1>3, NamesApart
    <2> DEFINE K == IF Exact(s) # {} THEN Exact(s) ELSE Candidates(s)
    <2>2. K # {} /\ K \subseteq Candidates(s)
      BY DEF Exact
    <2>3. K \in SUBSET Nat
      BY <1>3, <2>2
    <2>4. FirstOf(K) \in K
      <3> HIDE DEF K
      <3>1. QED
        BY <2>2, <2>3, FirstIsOne
    <2>5. Found(s) = k
      BY <2>1, <2>2, <2>4 DEF Found
    <2>6. QED
      BY <2>1, <2>5 DEF Ambiguous
  <1>5. QED
    BY <1>3, <1>4

(* A long option is that of the name it begins. *)
LEMMA LongIs ==
  ASSUME who = 1, NEW a, IsText(a), Len(a) > 2, a[2] = "-", NEW behind
  PROVE  /\ OptionAt(Os, a, 3, behind).opt = LongLetter(a)
         /\ OptionAt(Os, a, 3, behind).past = 1
         /\ OptionAt(Os, a, 3, behind).place = 0
  <1> DEFINE s == From(a, 3)
             k == Found(s)
             f == LongAt(Os, a, 3, behind)
  <1>1. OptionAt(Os, a, 3, behind) = f
    BY CatAsks DEF OptionAt, IsLong
  <1>2. /\ Function = "getopt_long" /\ DOMAIN LongOptions = {1, 2}
        /\ \A i \in {1, 2} : /\ LongOptions[i].has_arg = "no"
                             /\ LongOptions[i].flag = "" /\ LongOptions[i].val = Os[i]
                             /\ LongOptions[i].name = Name(i)
        /\ Os[1] = "t" /\ Os[2] = "a"
    BY CatAsks, AskedIs DEF Name
  <1>3. IsText(s) /\ Len(s) >= 1
    BY FromIs
  <1>4. LongLetter(a) = IF IsPrefixOf(s, Name(1)) THEN "t"
                        ELSE IF IsPrefixOf(s, Name(2)) THEN "a" ELSE "?"
    BY <1>2 DEF LongLetter, Tracks, Table, Says
  <1>5. \A c : /\ Refused("?", << >>, 1, c).opt = "?" /\ Refused("?", << >>, 1, c).past = 1
               /\ Refused("?", << >>, 1, c).place = 0
    BY DEF Refused, Finding
  <1>6. \A i \in {1, 2} : /\ FoundLong(i, << >>, 1).opt = Os[i]
                          /\ FoundLong(i, << >>, 1).past = 1
                          /\ FoundLong(i, << >>, 1).place = 0
    BY <1>2 DEF FoundLong, Finding
  <1>7. CASE Candidates(s) = {}
    <2>1. \A i \in {1, 2} : ~IsPrefixOf(s, Name(i))
      BY <1>3, <1>7, NamesApart, OneNameIsFound
    <2>2. f = Refused("?", << >>, 1, "")
      BY <1>7 DEF LongAt
    <2>3. QED
      BY <1>1, <1>4, <1>5, <2>1, <2>2
  <1>8. CASE Candidates(s) # {} /\ HasValue(s)
    <2>1. \A i \in {1, 2} : ~IsPrefixOf(s, Name(i))
      BY <1>3, <1>8, NamesApart
    <2>2. k \in {1, 2}
      BY <1>2, <1>8, CatAsks, FoundIsThere
    <2>3. LongOptions[k].has_arg = "no"
      BY <1>2, <2>2
    <2>4. f = Refused("?", << >>, 1, "") \/ f = Refused("?", << >>, 1, LongOptions[k].val)
      BY <1>8, <2>3 DEF LongAt
    <2>5. QED
      BY <1>1, <1>4, <1>5, <2>1, <2>4
  <1>9. CASE Candidates(s) # {} /\ ~HasValue(s)
    <2>1. PICK i \in Candidates(s) : TRUE
      BY <1>9
    <2>2. /\ i \in {1, 2} /\ IsPrefixOf(s, Name(i)) /\ k = i /\ ~Ambiguous(s, FALSE)
      BY <1>3, <1>9, <2>1, OneNameIsFound
    <2>3. LongOptions[k].has_arg = "no"
      BY <1>2, <2>2
    <2>4. f = FoundLong(i, << >>, 1)
      <3>1. ~Ambiguous(s, Function = "getopt_long_only")
        <4>1. (Function = "getopt_long_only") = FALSE
          BY <1>2
        <4>2. QED
          BY <2>2, <4>1
      <3>2. QED
        BY <1>9, <2>2, <2>3, <3>1 DEF LongAt
    <2>5. LongLetter(a) = Os[i]
      BY <1>2, <1>3, <1>4, <2>2, NamesApart
    <2>6. QED
      BY <1>1, <1>6, <2>2, <2>4, <2>5
  <1>10. QED
    BY <1>7, <1>8, <1>9

------------------------------------------------------------------------------
(* An option is among those that are read. *)
Among(s, x) == \E k \in DOMAIN s : s[k][1] = x

(* An option among texts joined is among one of them. *)
LEMMA AmongJoined ==
  ASSUME NEW s, NEW t, IsText(s), IsText(t), NEW x
  PROVE  Among(s \o t, x) <=> Among(s, x) \/ Among(t, x)
  <1> DEFINE v == s \o t
             n == Len(s)
             m == Len(t)
  <1>1. /\ n \in Nat /\ m \in Nat /\ IsText(v) /\ Len(v) = n + m
        /\ \A k \in 1 .. n + m : v[k] = IF k <= n THEN s[k] ELSE t[k - n]
    BY JoinedTexts
  <1>2. DOMAIN v = 1 .. n + m /\ DOMAIN s = 1 .. n /\ DOMAIN t = 1 .. m
    BY <1>1 DEF IsText
  <1> HIDE DEF v, n, m
  <1>3. ASSUME NEW k \in 1 .. n + m, v[k][1] = x PROVE Among(s, x) \/ Among(t, x)
    <2>1. CASE k <= n
      <3>1. k \in 1 .. n /\ s[k][1] = x
        BY <1>1, <1>3, <2>1
      <3>2. QED
        BY <1>2, <3>1 DEF Among
    <2>2. CASE ~(k <= n)
      <3>1. k - n \in 1 .. m /\ t[k - n][1] = x
        BY <1>1, <1>3, <2>2
      <3>2. QED
        BY <1>2, <3>1 DEF Among
    <2>3. QED
      BY <2>1, <2>2
  <1>4. ASSUME NEW k \in 1 .. n, s[k][1] = x PROVE Among(v, x)
    <2>1. k \in 1 .. n + m /\ v[k] = s[k]
      BY <1>1
    <2>2. QED
      BY <1>2, <1>4, <2>1 DEF Among
  <1>5. ASSUME NEW k \in 1 .. m, t[k][1] = x PROVE Among(v, x)
    <2>1. k + n \in 1 .. n + m /\ ~(k + n <= n) /\ (k + n) - n = k
      BY <1>1
    <2>2. v[k + n] = t[k]
      BY <1>1, <2>1
    <2>3. QED
      BY <1>2, <1>5, <2>1, <2>2 DEF Among
  <1>6. QED
    BY <1>2, <1>3, <1>4, <1>5 DEF Among, v

(* One option, and none. *)
LEMMA AmongFew ==
  ASSUME NEW e, NEW x
  PROVE  (Among(<<e>>, x) <=> e[1] = x) /\ ~Among(<< >>, x)
  BY DEF Among

(* What is read from a place in an option. *)
LEMMA OneIsRead ==
  ASSUME Line, who = 1, NEW p \in Places, ~NoMore(p), ~AtMark(p), ~AtNonoption(p), NEW x
  PROVE  \E f, b :
           /\ f = OptionAt(Os, start[p[1]], Letter(p), b)
           /\ <<p[1] + f.past, f.place, FALSE>> \in Places
           /\ Among(OptsFrom(p), x)
                <=> f.opt = x \/ Among(OptsFrom(<<p[1] + f.past, f.place, FALSE>>), x)
  <1> DEFINE b == Behind(start, p[1])
             f == OptionOf(p)
             e == <<f.opt, f.arg>>
             h == Elements(p[1], f.past)
             q == <<p[1] + f.past, f.place, FALSE>>
  <1>1. f = OptionAt(Os, start[p[1]], Letter(p), b)
    BY CatAsks DEF OptionOf, Letter
  <1>2. ~ReadingEnds(p)
    BY DEF ReadingEnds
  <1>3. TakenAt(p) = Part(<<e>>, h, << >>) /\ Onward(p) = q
    BY DEF TakenAt, Onward
  <1> HIDE DEF f, b, h
  <1>4. /\ Onward(p) \in Places /\ IsText(<<e>>)
        /\ OptsFrom(p) = <<e>> \o OptsFrom(Onward(p))
    <2> DEFINE o == <<e>>
               t == << >>
    <2>1. TakenAt(p) = Part(o, h, t)
      BY <1>3
    <2> HIDE DEF o, t
    <2>2. Onward(p) \in Places /\ IsText(o) /\ OptsFrom(p) = o \o OptsFrom(Onward(p))
      BY <1>2, <2>1, ReadOn
    <2>3. QED
      BY <2>2 DEF o
  <1>5. IsText(OptsFrom(Onward(p)))
    BY <1>4, FromTexts
  <1>6. Among(OptsFrom(p), x) <=> f.opt = x \/ Among(OptsFrom(Onward(p)), x)
    <2> DEFINE s == <<e>>
               t == OptsFrom(Onward(p))
    <2>1. Among(s, x) <=> f.opt = x
      BY AmongFew
    <2>2. IsText(s) /\ IsText(t)
      BY <1>4, <1>5
    <2> HIDE DEF s, t
    <2>3. Among(s \o t, x) <=> Among(s, x) \/ Among(t, x)
      BY <2>2, AmongJoined
    <2>4. OptsFrom(p) = s \o t
      BY <1>4 DEF s, t
    <2>5. QED
      BY <2>1, <2>3, <2>4 DEF t
  <1>7. QED
    BY <1>1, <1>3, <1>4, <1>6, Zenon

(* A place. *)
LEMMA ThePlace ==
  ASSUME NEW k \in Nat, NEW j \in Nat, NEW b \in BOOLEAN
  PROVE  /\ <<k, j, b>> \in Places
         /\ <<k, j, b>>[1] = k /\ <<k, j, b>>[2] = j /\ <<k, j, b>>[3] = b
  BY DEF Places

(* An option has a letter behind the "-". *)
LEMMA OptionHasLetter ==
  ASSUME NEW a, IsText(a), ~Nonoption(a)
  PROVE  /\ Len(a) \in Nat /\ Len(a) >= 2
         /\ ~EndsOptions(a) /\ a[2] = "-" => Len(a) > 2
  <1>1. Len(a) \in Nat /\ DOMAIN a = 1 .. Len(a)
    BY DEF IsText
  <1>2. 1 \in DOMAIN a /\ a[1] = "-" /\ Len(a) # 1
    BY DEF Nonoption, At
  <1>3. Len(a) >= 2
    BY <1>1, <1>2
  <1>4. ASSUME a[2] = "-", Len(a) = 2 PROVE EndsOptions(a)
    <2> DEFINE m == <<"-", "-">>
    <2>1. m \in Seq({"-"}) /\ Len(m) = 2 /\ m[1] = "-" /\ m[2] = "-"
      OBVIOUS
    <2> HIDE DEF m
    <2>2. IsText(m)
      BY <2>1, SequencesAreTexts
    <2>3. \A k \in 1 .. 2 : a[k] = m[k]
      BY <1>2, <1>4, <2>1
    <2>4. a = m
      BY <1>4, <2>1, <2>2, <2>3, EqualTexts
    <2>5. QED
      BY <2>4 DEF m, EndsOptions
  <1>5. QED
    BY <1>1, <1>3, <1>4

(* In a cluster, every letter is read, and then the next element. *)
LEMMA ClusterIs ==
  ASSUME Line, who = 1, NEW k \in Nat, k < argc, ~Nonoption(start[k]),
         start[k][2] # "-", NEW x
  PROVE  \A j \in 2 .. Len(start[k]) : \A b \in BOOLEAN :
           Among(OptsFrom(<<k, j, b>>), x)
             <=> \/ \E i \in j .. Len(start[k]) : ShortLetter(start[k][i]) = x
                 \/ Among(OptsFrom(<<k + 1, 0, FALSE>>), x)
  <1> DEFINE a == start[k]
             n == Len(start[k])
             rest == Among(OptsFrom(<<k + 1, 0, FALSE>>), x)
             Good(j) == \A b \in BOOLEAN :
                          Among(OptsFrom(<<k, j, b>>), x)
                            <=> (\E i \in j .. n : ShortLetter(a[i]) = x) \/ rest
             K == {j \in 2 .. n : Good(j)}
  <1>1. argc \in Nat /\ IsText(a) /\ n \in Nat /\ n >= 2
    <2>1. argc \in Nat /\ k \in 0 .. argc - 1
      BY TheNumbers
    <2>2. IsText(a)
      BY <2>1 DEF Line
    <2>3. QED
      BY <2>1, <2>2, OptionHasLetter
  <1>2. ASSUME NEW j \in 2 .. n, NEW b \in BOOLEAN
        PROVE  Among(OptsFrom(<<k, j, b>>), x)
                 <=> \/ ShortLetter(a[j]) = x
                     \/ Among(OptsFrom(IF j = n THEN <<k + 1, 0, FALSE>>
                                       ELSE <<k, j + 1, FALSE>>), x)
    <2> DEFINE p == <<k, j, b>>
    <2>1. j \in Nat /\ j <= n /\ j # 0
      BY <1>1
    <2>2. p \in Places /\ p[1] = k /\ p[2] = j
      BY <2>1, ThePlace
    <2> HIDE DEF p
    <2>3. ~NoMore(p) /\ ~AtMark(p) /\ ~AtNonoption(p) /\ Letter(p) = j
      BY <1>1, <2>1, <2>2 DEF NoMore, AtMark, AtNonoption, Letter
    <2>4. PICK f, c :
            /\ f = OptionAt(Os, start[p[1]], Letter(p), c)
            /\ Among(OptsFrom(p), x)
                 <=> f.opt = x \/ Among(OptsFrom(<<p[1] + f.past, f.place, FALSE>>), x)
      BY <2>2, <2>3, OneIsRead, Zenon
    <2>5. /\ f.opt = ShortLetter(a[j])
          /\ f.past = (IF j = n THEN 1 ELSE 0) /\ f.place = (IF j = n THEN 0 ELSE j + 1)
      <3>1. f = OptionAt(Os, a, j, c)
        BY <2>2, <2>3, <2>4
      <3>2. a[2] # "-" /\ n = Len(a)
        OBVIOUS
      <3> HIDE DEF a, n
      <3>3. /\ OptionAt(Os, a, j, c).opt = ShortLetter(a[j])
            /\ OptionAt(Os, a, j, c).past = IF j = n THEN 1 ELSE 0
            /\ OptionAt(Os, a, j, c).place = IF j = n THEN 0 ELSE j + 1
        BY <3>2, ShortIs, ZenonT(30)
      <3>4. QED
        BY <3>1, <3>3, Zenon
    <2>6. <<p[1] + f.past, f.place, FALSE>>
            = IF j = n THEN <<k + 1, 0, FALSE>> ELSE <<k, j + 1, FALSE>>
      <3>1. p[1] + f.past = (IF j = n THEN k + 1 ELSE k)
        BY <2>2, <2>5
      <3>2. QED
        BY <2>5, <3>1
    <2>7. QED
      BY <2>4, <2>5, <2>6, Zenon DEF p
  <1> HIDE DEF rest, a, n
  <1>3. n \in K
    <2>1. \A i : i \in n .. n <=> i = n
      BY <1>1
    <2>2. n \in 2 .. n
      BY <1>1
    <2>3. ASSUME NEW b \in BOOLEAN
          PROVE  Among(OptsFrom(<<k, n, b>>), x) <=> ShortLetter(a[n]) = x \/ rest
      BY <1>2, <2>2, Zenon DEF rest
    <2>4. Good(n)
      BY <2>1, <2>3
    <2>5. QED
      BY <2>2, <2>4
  <1>4. ASSUME NEW j \in Nat, 2 <= j, j < n, j + 1 \in K PROVE j \in K
    <2>1. j \in 2 .. n /\ j # n /\ \A i : i \in j .. n <=> i = j \/ i \in j + 1 .. n
      BY <1>1, <1>4
    <2>2. Good(j + 1)
      BY <1>4
    <2> DEFINE no == FALSE
    <2>3. no \in BOOLEAN
      OBVIOUS
    <2>4. ASSUME NEW b \in BOOLEAN
          PROVE  Among(OptsFrom(<<k, j, b>>), x)
                   <=> ShortLetter(a[j]) = x \/ Among(OptsFrom(<<k, j + 1, no>>), x)
      BY <1>2, <2>1, Zenon
    <2> HIDE DEF no
    <2>5. Among(OptsFrom(<<k, j + 1, no>>), x)
            <=> (\E i \in j + 1 .. n : ShortLetter(a[i]) = x) \/ rest
      BY <2>2, <2>3, Zenon
    <2>6. Good(j)
      BY <2>1, <2>4, <2>5, Zenon
    <2>7. QED
      BY <2>1, <2>6
  <1>5. \A j \in 2 .. n : j \in K
    <2> HIDE DEF K
    <2>1. 2 \in Nat
      OBVIOUS
    <2>2. QED
      BY <1>1, <1>3, <1>4, <2>1, Downward
  <1>6. \A j \in 2 .. n : Good(j)
    BY <1>5
  <1>7. QED
    BY <1>6 DEF a, n, rest

------------------------------------------------------------------------------
(* The options that an element is, and the elements that are options, from *)
(* one on.                                                                 *)
Gives(a, x) == IF a[2] = "-" THEN LongLetter(a) = x
               ELSE \E j \in 2 .. Len(a) : ShortLetter(a[j]) = x
OptionFrom(k, i) ==
  /\ ~Nonoption(start[i]) /\ ~EndsOptions(start[i])
  /\ \A j \in k .. i - 1 :
       /\ ~EndsOptions(start[j])
       /\ ordering = "REQUIRE_ORDER" => ~Nonoption(start[j])

(* An option is read, and then the next element. *)
LEMMA ElementIs ==
  ASSUME Line, who = 1, NEW k \in Nat, k < argc, ~Nonoption(start[k]),
         ~EndsOptions(start[k]), NEW b \in BOOLEAN, NEW x
  PROVE  Among(OptsFrom(<<k, 0, b>>), x)
           <=> Gives(start[k], x) \/ Among(OptsFrom(<<k + 1, 0, FALSE>>), x)
  <1> DEFINE a == start[k]
             p == <<k, 0, b>>
             q == <<k, 2, b>>
             rest == Among(OptsFrom(<<k + 1, 0, FALSE>>), x)
  <1>1. /\ argc \in Nat /\ IsText(a) /\ Len(a) \in Nat /\ Len(a) >= 2
        /\ a[2] = "-" => Len(a) > 2
    <2>1. argc \in Nat /\ k \in 0 .. argc - 1
      BY TheNumbers
    <2>2. IsText(a)
      BY <2>1 DEF Line
    <2>3. QED
      BY <2>1, <2>2, OptionHasLetter
  <1>2. p \in Places /\ p[1] = k /\ p[2] = 0 /\ p[3] = b
    BY ThePlace
  <1>3. q \in Places /\ q[1] = k /\ q[2] = 2 /\ q[3] = b
    BY ThePlace
  <1>4. Opening(a) = IF a[2] = "-" THEN 3 ELSE 2
    BY CatAsks DEF Opening
  <1> HIDE DEF p, q, rest
  <1>5. /\ ~NoMore(p) /\ ~AtMark(p) /\ ~AtNonoption(p) /\ Letter(p) = Opening(a)
        /\ ~NoMore(q)
    BY <1>1, <1>2, <1>3 DEF NoMore, AtMark, AtNonoption, Letter
  <1>6. CASE a[2] = "-"
    <2>1. PICK f, c :
            /\ f = OptionAt(Os, start[p[1]], Letter(p), c)
            /\ Among(OptsFrom(p), x)
                 <=> f.opt = x \/ Among(OptsFrom(<<p[1] + f.past, f.place, FALSE>>), x)
      BY <1>2, <1>5, OneIsRead, Zenon
    <2>2. f = OptionAt(Os, a, 3, c)
      BY <1>2, <1>4, <1>5, <1>6, <2>1
    <2> HIDE DEF a
    <2>3. f.opt = LongLetter(a) /\ f.past = 1 /\ f.place = 0
      BY <1>1, <1>6, <2>2, LongIs, Zenon
    <2>4. Gives(a, x) <=> f.opt = x
      BY <1>6, <2>3 DEF Gives
    <2>5. Among(OptsFrom(p), x) <=> f.opt = x \/ rest
      BY <1>2, <2>1, <2>3, Zenon DEF rest
    <2>6. QED
      BY <2>4, <2>5 DEF a, p, rest
  <1>7. CASE a[2] # "-"
    <2>1. OptsFrom(p) = OptsFrom(q)
      <3>1. q[2] = Opening(start[p[1]]) /\ p[1] = q[1] /\ p[3] = q[3]
        BY <1>2, <1>3, <1>4, <1>7
      <3>2. ReadFrom[q] = ReadFrom[p]
        BY <1>2, <1>3, <1>5, <3>1, OpenedReads
      <3>3. QED
        BY <3>2 DEF OptsFrom
    <2>2. 2 \in 2 .. Len(a)
      BY <1>1
    <2>3. Among(OptsFrom(q), x)
            <=> (\E i \in 2 .. Len(a) : ShortLetter(a[i]) = x) \/ rest
      BY <1>7, <2>2, ClusterIs, Zenon DEF q, rest
    <2>4. QED
      BY <1>7, <2>1, <2>3 DEF Gives, p, rest
  <1>8. QED
    BY <1>6, <1>7

(* From an element on, what the options among the elements give is read,   *)
(* and nothing else.                                                       *)
LEMMA RestIs ==
  ASSUME Line, who = 1, ordering \in {"PERMUTE", "REQUIRE_ORDER"}, NEW x
  PROVE  \A k \in 0 .. argc : \A b \in BOOLEAN :
           Among(OptsFrom(<<k, 0, b>>), x)
             <=> \E i \in k .. argc - 1 : OptionFrom(k, i) /\ Gives(start[i], x)
  <1> DEFINE Reads(k, b) == Among(OptsFrom(<<k, 0, b>>), x)
             Given(k) == \E i \in k .. argc - 1 : OptionFrom(k, i) /\ Gives(start[i], x)
             Good(k) == \A b \in BOOLEAN : Reads(k, b) <=> Given(k)
             K == {k \in 0 .. argc : Good(k)}
  <1>1. argc \in Nat
    BY TheNumbers
  <1>2. argc \in K
    <2>1. ASSUME NEW b \in BOOLEAN PROVE ~Reads(argc, b)
      <3>1. OptsFrom(<<argc, 0, b>>) = << >>
        <4> DEFINE p == <<argc, 0, b>>
        <4>1. p \in Places /\ p[1] = argc
          BY <1>1, ThePlace
        <4> HIDE DEF p
        <4>2. OptsFrom(p) = << >>
          BY <4>1, NothingLeft
        <4>3. QED
          BY <4>2 DEF p
      <3>2. QED
        BY <3>1, AmongFew
    <2>2. ~Given(argc)
      BY <1>1
    <2>3. argc \in 0 .. argc
      BY <1>1
    <2> HIDE DEF Reads, Given
    <2>4. QED
      BY <2>1, <2>2, <2>3
  <1>3. ASSUME NEW k \in Nat, 0 <= k, k < argc, k + 1 \in K PROVE k \in K
    <2> DEFINE a == start[k]
    <2>1. Good(k + 1) /\ k \in 0 .. argc - 1 /\ k \in 0 .. argc
      BY <1>1, <1>3
    <2>2. \A i : i \in k .. argc - 1 <=> i = k \/ i \in k + 1 .. argc - 1
      BY <1>1, <1>3
    <2>3. \A i \in k + 1 .. argc - 1 :
            /\ \A j : j \in k .. i - 1 <=> j = k \/ j \in k + 1 .. i - 1
            /\ k \in k .. i - 1
      BY <1>1, <1>3
    <2>4. \A i \in k + 1 .. argc - 1 :
            OptionFrom(k, i) <=> /\ OptionFrom(k + 1, i) /\ ~EndsOptions(a)
                                 /\ ordering = "REQUIRE_ORDER" => ~Nonoption(a)
      BY <2>3, Zenon DEF OptionFrom
    <2>5. OptionFrom(k, k) <=> ~Nonoption(a) /\ ~EndsOptions(a)
      <3>1. k .. k - 1 = {}
        BY <1>3
      <3>2. QED
        BY <3>1, Zenon DEF OptionFrom
    <2>6. Given(k) <=> \/ ~Nonoption(a) /\ ~EndsOptions(a) /\ Gives(a, x)
                       \/ /\ ~EndsOptions(a) /\ (ordering = "REQUIRE_ORDER" => ~Nonoption(a))
                          /\ Given(k + 1)
      BY <2>2, <2>4, <2>5, Zenon
    <2>7. ASSUME NEW b \in BOOLEAN, EndsOptions(a) \/ (Nonoption(a) /\ ordering = "REQUIRE_ORDER")
          PROVE  ~Reads(k, b)
      <3> DEFINE p == <<k, 0, b>>
      <3>1. p \in Places /\ p[1] = k /\ p[2] = 0
        BY ThePlace
      <3> HIDE DEF p
      <3>2. ReadingEnds(p)
        BY <2>7, <3>1 DEF ReadingEnds, AtMark, AtNonoption
      <3>3. \E h, t : LeftOver(p) = Part(<< >>, h, t)
        BY DEF LeftOver
      <3>4. OptsFrom(p) = << >>
        <4> DEFINE o == << >>
        <4>1. PICK h, t : LeftOver(p) = Part(o, h, t)
          BY <3>3
        <4> HIDE DEF o
        <4>2. OptsFrom(p) = o
          BY <3>1, <3>2, <4>1, ReadOut
        <4>3. QED
          BY <4>2 DEF o
      <3>5. QED
        BY <3>4, AmongFew DEF p
    <2>8. ASSUME NEW b \in BOOLEAN, Nonoption(a), ordering = "PERMUTE"
          PROVE  Reads(k, b) <=> Reads(k + 1, b)
      <3>1. \A j \in k .. k + 1 - 1 : Nonoption(start[j])
        BY <1>3, <2>8
      <3>2. k + 1 \in Nat /\ k <= k + 1 /\ k + 1 <= argc
        BY <1>1, <1>3
      <3>3. OptsFrom(<<k, 0, b>>) = OptsFrom(<<k + 1, 0, b>>)
        BY <2>8, <3>1, <3>2, SkippedReads
      <3>4. QED
        BY <3>3
    <2>9. ASSUME NEW b \in BOOLEAN, ~Nonoption(a), ~EndsOptions(a)
          PROVE  Reads(k, b) <=> Gives(a, x) \/ Reads(k + 1, FALSE)
      BY <1>3, <2>9, ElementIs, Zenon
    <2> DEFINE no == FALSE
    <2>10. no \in BOOLEAN /\ no = FALSE
      OBVIOUS
    <2>11. Nonoption(a) => ~EndsOptions(a)
      BY NonoptionIsNoMark
    <2> HIDE DEF no, Reads, Given, a
    <2>12. Good(k)
      <3> SUFFICES ASSUME NEW b \in BOOLEAN PROVE Reads(k, b) <=> Given(k)
        OBVIOUS
      <3>1. Reads(k + 1, b) <=> Given(k + 1)
        BY <2>1
      <3>2. Reads(k + 1, FALSE) <=> Given(k + 1)
        BY <2>1, <2>10, Zenon
      <3>3. CASE EndsOptions(a) \/ (Nonoption(a) /\ ordering = "REQUIRE_ORDER")
        BY <2>6, <2>7, <2>11, <3>3, Zenon
      <3>4. CASE Nonoption(a) /\ ordering = "PERMUTE"
        BY <2>6, <2>8, <2>11, <3>1, <3>4
      <3>5. CASE ~Nonoption(a) /\ ~EndsOptions(a)
        BY <2>6, <2>9, <3>2, <3>5, Zenon
      <3>6. QED
        BY <3>3, <3>4, <3>5
    <2>13. QED
      BY <2>1, <2>12
  <1> HIDE DEF K, Good
  <1>4. \A k \in 0 .. argc : k \in K
    <2>1. 0 \in Nat /\ 0 <= argc
      BY <1>1
    <2>2. QED
      BY <1>1, <1>2, <1>3, <2>1, Downward
  <1>5. \A k \in 0 .. argc : Good(k)
    BY <1>4 DEF K
  <1>6. QED
    BY <1>5 DEF Good

------------------------------------------------------------------------------
(* An element that is an option asks for what it gives. *)
LEMMA GivesIs ==
  ASSUME who = 1, NEW a, IsText(a), ~Nonoption(a), ~EndsOptions(a)
  PROVE  /\ Gives(a, "t") <=> Tracks(a)
         /\ Gives(a, "a") <=> Table(a)
         /\ Gives(a, "?") <=> Wrong(a)
         /\ \A x : Gives(a, x) => x \in {"t", "a", "?"}
  <1>1. \A k \in {1, 2} : LongOptions[k].name = Name(k)
    BY CatAsks DEF Name
  <1>2. CASE a[2] = "-"
    <2>1. IsText(From(a, 3)) /\ Len(From(a, 3)) >= 1
      BY <1>2, OptionHasLetter, FromIs
    <2>2. ~(Tracks(a) /\ Table(a))
      BY <1>1, <1>2, <2>1, NamesApart DEF Tracks, Table, Says
    <2>3. QED
      BY <1>2, <2>2 DEF Gives, LongLetter, Wrong
  <1>3. CASE a[2] # "-"
    BY <1>3 DEF Gives, ShortLetter, Tracks, Table, Says, Wrong
  <1>4. QED
    BY <1>2, <1>3

(* What is read of the command line of CAT is what its options ask for. *)
LEMMA AskedIsRead ==
  ASSUME Line, who = 1, ordering \in {"PERMUTE", "REQUIRE_ORDER"}
  PROVE  /\ Among(OptsFrom(Origin), "t") <=> \E a \in Options : Tracks(a)
         /\ Among(OptsFrom(Origin), "a") <=> \E a \in Options : Table(a)
         /\ Among(OptsFrom(Origin), "?") <=> \E a \in Options : Wrong(a)
         /\ \A x : Among(OptsFrom(Origin), x) => x \in {"t", "a", "?"}
  <1>1. FirstArg = 3 /\ argc \in Nat /\ 3 <= argc
    BY CatAsks, TheNumbers
  <1>2. \A x : Among(OptsFrom(Origin), x) <=> \E a \in Options : Gives(a, x)
    <2> SUFFICES ASSUME NEW x
                 PROVE  Among(OptsFrom(Origin), x) <=> \E a \in Options : Gives(a, x)
      OBVIOUS
    <2> DEFINE yes == TRUE
    <2>1. yes \in BOOLEAN /\ 3 \in 0 .. argc
      BY <1>1
    <2>2. <<3, 0, yes>> = Origin
      BY <1>1 DEF Origin
    <2> HIDE DEF yes
    <2>3. Among(OptsFrom(<<3, 0, yes>>), x)
            <=> \E i \in 3 .. argc - 1 : OptionFrom(3, i) /\ Gives(start[i], x)
      BY <2>1, RestIs, Zenon
    <2>4. \A i : OptionFrom(3, i) <=> IsOption(i)
      BY Zenon DEF OptionFrom, IsOption
    <2>5. QED
      BY <2>2, <2>3, <2>4, Zenon DEF Options
  <1>3. \A a \in Options : /\ Gives(a, "t") <=> Tracks(a)
                           /\ Gives(a, "a") <=> Table(a)
                           /\ Gives(a, "?") <=> Wrong(a)
                           /\ \A x : Gives(a, x) => x \in {"t", "a", "?"}
    <2> SUFFICES ASSUME NEW i \in 3 .. argc - 1, IsOption(i)
                 PROVE  /\ Gives(start[i], "t") <=> Tracks(start[i])
                        /\ Gives(start[i], "a") <=> Table(start[i])
                        /\ Gives(start[i], "?") <=> Wrong(start[i])
                        /\ \A x : Gives(start[i], x) => x \in {"t", "a", "?"}
      BY DEF Options
    <2>1. i \in 0 .. argc - 1
      BY <1>1
    <2>2. IsText(start[i]) /\ ~Nonoption(start[i]) /\ ~EndsOptions(start[i])
      BY <2>1 DEF Line, IsOption
    <2>3. QED
      BY <2>2, GivesIs
  <1>4. QED
    BY <1>2, <1>3, Zenon

------------------------------------------------------------------------------
(***************************************************************************)
(* The invariant of the command.  Fresh: getopt_long has not been called,  *)
(* and no option was dealt with.  Heeded: the options that were returned   *)
(* are those dealt with, and the one that is going to be.  Scanning: what  *)
(* is proved of getopt_long holds of the calls that handle_cat makes.      *)
(***************************************************************************)
Pending == pc = "returned" /\ opt # "-1"

Fresh ==
  /\ initialized = FALSE /\ pc = "call" /\ nextchar = 0 /\ seen = << >>
  /\ first_nonopt = 0 /\ last_nonopt = 0 /\ longind = 0
  /\ ordering = "REQUIRE_ORDER"
  /\ show_tracks = FALSE /\ show_alphabet_table = FALSE

Heeded ==
  /\ Among(seen, "t") <=> show_tracks \/ (Pending /\ opt = "t")
  /\ Among(seen, "a") <=> show_alphabet_table \/ (Pending /\ opt = "a")
  /\ \A x : Among(seen, x) => x \in {"t", "a"} \/ (Pending /\ x = opt)
  /\ Pending => Among(seen, opt)

Scanning ==
  /\ PlaceInv /\ ReadInv /\ Heeded
  /\ argc >= 3 /\ file = <<start[2]>>
  /\ initialized => ordering \in {"PERMUTE", "REQUIRE_ORDER"}

Shows ==
  <<"file">> \o (IF show_tracks THEN <<"tracks">> ELSE << >>)
             \o (IF show_alphabet_table THEN <<"alphabet table">> ELSE << >>)

Vectored ==
  /\ who = 1 /\ argc \in 0 .. MaxArgc /\ IsVector(argv, argc)
  /\ \A k \in 0 .. argc - 1 : IsText(argv[k])
  /\ show_tracks \in BOOLEAN /\ show_alphabet_table \in BOOLEAN
  /\ status \in {0, 1}

Silent == opened = {} /\ printed = << >>
Ends   == {"exit", "fault"}

CommandInv ==
  /\ Vectored
  /\ \/ step \in {"main", "handle_cat", "handle_checksum"} /\ Fresh /\ Silent
     \/ step \in Ends /\ initialized = FALSE /\ printed \in {<< >>, <<"checksum">>}
     \/ step = "options" /\ Scanning /\ Silent
     \/ step = "command_cat" /\ Scanning /\ initialized /\ Over /\ Silent
     \/ /\ step \in Ends /\ Scanning /\ initialized /\ pc = "returned"
        /\ opt \notin {"t", "a"}
        /\ IF Over THEN opened = {start[2]} /\ printed \in {<< >>, Shows} ELSE Silent

(* A command line is a vector of texts. *)
LEMMA CommandInitially == MainInit => CommandInv
  <1> SUFFICES ASSUME MainInit PROVE CommandInv
    OBVIOUS
  <1>1. who = 1 /\ argv \in CommandLines[1] /\ 1 \in DOMAIN Callers
    BY AskedIs DEF MainInit
  <1>2. PICK n \in 0 .. MaxArgc : IsVector(argv, n) /\ \A k \in 0 .. n - 1 : IsText(argv[k])
    BY <1>1, GetoptConstants
  <1>3. PICK m \in 0 .. MaxArgc : argc = m /\ DOMAIN argv = 0 .. m - 1
    BY DEF MainInit, GetoptStatics
  <1>4. n = m
    BY <1>2, <1>3, Bound DEF IsVector
  <1>5. Vectored
    BY <1>1, <1>2, <1>3, <1>4 DEF Vectored, MainInit
  <1>6. Fresh /\ Silent /\ step = "main"
    BY DEF Fresh, Silent, MainInit, GetoptStatics
  <1>7. QED
    BY <1>5, <1>6 DEF CommandInv

(* The command is made capitals, and is a text as before. *)
LEMMA MainKeeps == CommandInv /\ Main => CommandInv'
  <1> SUFFICES ASSUME CommandInv, Main PROVE CommandInv'
    OBVIOUS
  <1>1. /\ UNCHANGED <<who, argc, initialized, ordering, first_nonopt, last_nonopt,
                       seen, longind, nextchar, pc, show_tracks, show_alphabet_table,
                       opened, printed>>
        /\ step = "main"
    BY DEF Main, onceVars, resultVars
  <1>2. Vectored /\ Fresh /\ Silent
    BY <1>1 DEF CommandInv, Ends
  <1>3. argc \in Nat
    BY <1>2, Bound DEF Vectored
  <1>4. argv' = argv \/ (argc >= 2 /\ argv' = [argv EXCEPT ![1] = Capitals(@)])
    BY <1>3 DEF Main, Exit
  <1>5. Vectored'
    <2>1. CASE argv' = argv
      BY <1>1, <1>2, <2>1 DEF Vectored, Main, Exit
    <2>2. CASE argc >= 2 /\ argv' = [argv EXCEPT ![1] = Capitals(@)]
      <3> DEFINE c == Capitals(argv[1])
      <3>1. argv' = [argv EXCEPT ![1] = c] /\ 1 \in 0 .. argc - 1
        BY <1>3, <2>2
      <3>2. IsText(argv[1])
        BY <1>2, <3>1 DEF Vectored
      <3>3. IsText(c)
        <4>1. DOMAIN c = DOMAIN argv[1]
          BY DEF Capitals
        <4>2. \E n \in Nat : DOMAIN argv[1] = 1 .. n
          BY <3>2 DEF IsText
        <4>3. PICK n \in Nat : DOMAIN c = 1 .. n
          BY <4>1, <4>2
        <4>4. c = [k \in 1 .. n |-> c[k]]
          BY <4>3 DEF Capitals
        <4> DEFINE S == {c[k] : k \in DOMAIN c}
        <4> HIDE DEF c
        <4>5. [k \in 1 .. n |-> c[k]] \in [1 .. n -> S]
          BY <4>3
        <4> HIDE DEF S
        <4>6. c \in Seq(S)
          BY <4>4, <4>5
        <4>7. QED
          BY <4>6 DEF IsText, S
      <3> HIDE DEF c
      <3>4. IsVector(argv, argc) /\ \A k \in 0 .. argc - 1 : IsText(argv[k])
        BY <1>2 DEF Vectored
      <3>5. IsVector(argv', argc) /\ \A k \in 0 .. argc - 1 : IsText(argv'[k])
        BY <3>1, <3>3, <3>4 DEF IsVector
      <3>6. QED
        BY <1>1, <1>2, <3>5 DEF Vectored, Main, Exit
    <2>3. QED
      BY <1>4, <2>1, <2>2
  <1>6. Fresh' /\ Silent'
    BY <1>1, <1>2 DEF Fresh, Silent
  <1>7. step' \in {"main", "handle_cat", "handle_checksum", "exit"}
    BY DEF Main, Exit
  <1>8. QED
    BY <1>5, <1>6, <1>7 DEF CommandInv, Ends, Fresh, Silent

(* The options are asked for from the third argument on, of the command    *)
(* line as it is then.                                                     *)
LEMMA HandleCatKeeps == CommandInv /\ HandleCat => CommandInv'
  <1> SUFFICES ASSUME CommandInv, HandleCat PROVE CommandInv'
    OBVIOUS
  <1>1. /\ UNCHANGED <<who, argc, argv, initialized, ordering, first_nonopt, last_nonopt,
                       seen, longind, nextchar, pc, show_tracks, show_alphabet_table,
                       opened, printed, status>>
        /\ step = "handle_cat"
    BY DEF HandleCat, resultVars
  <1>2. Vectored /\ Fresh /\ Silent
    BY <1>1 DEF CommandInv, Ends
  <1>3. argc \in Nat
    BY <1>2, Bound DEF Vectored
  <1>4. Vectored' /\ Fresh' /\ Silent'
    BY <1>1, <1>2 DEF Vectored, Fresh, Silent
  <1>5. CASE argc < 3
    BY <1>4, <1>5 DEF HandleCat, CommandInv, Ends, Fresh, Silent
  <1>6. CASE ~(argc < 3)
    <2>1. /\ file' = <<argv[2]>> /\ optind' = 3 /\ start' = argv /\ step' = "options"
          /\ argc >= 3
      BY <1>3, <1>6 DEF HandleCat
    <2>2. who = 1 /\ who' = 1
      BY <1>1, <1>2 DEF Vectored
    <2>3. /\ FirstArg = 3 /\ FirstArg' = FirstArg /\ LongOptions' = LongOptions
          /\ who' \in DOMAIN Callers /\ Callers[who'].optind = 3
          /\ Len(LongOptions) \in Nat
      <3>1. FirstArg' = FirstArg /\ LongOptions' = LongOptions
        BY <1>1, SameCaller
      <3>2. Len(LongOptions) \in Nat
        BY <2>2, CatAsks, TheCaller
      <3>3. QED
        BY <2>2, <3>1, <3>2, CatAsks, AskedIs
    <2>4. Line'
      BY <1>1, <1>2, <2>1, <2>3 DEF Line, Vectored
    <2>5. Scanned'
      <3> DEFINE e == << >>
      <3>1. e \in Seq({}) /\ e = << >>
        OBVIOUS
      <3> HIDE DEF e
      <3>2. IsText(e)
        BY <3>1, SequencesAreTexts
      <3>3. seen' = e /\ IsText(seen')
        BY <1>1, <1>2, <3>1, <3>2 DEF Fresh
      <3>4. /\ first_nonopt' = 0 /\ last_nonopt' = 0 /\ nextchar' = 0 /\ longind' = 0
            /\ initialized' = FALSE /\ ordering' = "REQUIRE_ORDER"
        BY <1>1, <1>2 DEF Fresh
      <3>5. longind' \in 0 .. Len(LongOptions')
        BY <2>3, <3>4
      <3>6. QED
        BY <2>1, <3>3, <3>4, <3>5 DEF Scanned
    <2>6. Staged'
      BY <1>1, <1>2, <2>1, <2>3 DEF Staged, Fresh
    <2>7. ReadInv' /\ Heeded'
      <3>1. seen' = << >> /\ ~Pending' /\ ~Over' /\ initialized' = FALSE
            /\ show_tracks' = FALSE /\ show_alphabet_table' = FALSE
        BY <1>1, <1>2 DEF Fresh, Pending, Over
      <3>2. \A x : ~Among(seen', x)
        BY <3>1, AmongFew
      <3>3. QED
        BY <3>1, <3>2 DEF ReadInv, Heeded
    <2>8. Scanning'
      BY <1>1, <1>2, <2>1, <2>4, <2>5, <2>6, <2>7 DEF Scanning, PlaceInv, Fresh
    <2>9. QED
      BY <1>4, <2>1, <2>8 DEF CommandInv
  <1>7. QED
    BY <1>5, <1>6

(* A call comes nearer to its end, or returns. *)
LEMMA CallOutcome ==
  ASSUME GetoptCall
  PROVE  /\ UNCHANGED <<who, argc, start>> /\ pc # "returned"
         /\ \/ pc' # "returned" /\ seen' = seen
            \/ \E o, arg : Return(o, arg)
         /\ \/ initialized' = initialized /\ ordering' = ordering
            \/ ordering' \in Orderings(who)
            \/ initialized /\ ordering' = ordering
  <1>1. CASE Call
    BY <1>1 DEF Call
  <1>2. CASE Skip
    BY <1>2 DEF Skip, onceVars, resultVars
  <1>3. CASE LookBehind
    BY <1>3 DEF LookBehind, onceVars, resultVars, scanVars
  <1>4. CASE EndMark
    BY <1>4 DEF EndMark, onceVars, resultVars
  <1>5. CASE Finish
    BY <1>5 DEF Finish, onceVars
  <1>6. CASE MeetNonoption
    BY <1>6 DEF MeetNonoption, onceVars
  <1>7. CASE OpenOption
    BY <1>7 DEF OpenOption, onceVars, resultVars, scanVars
  <1>8. CASE Decode
    BY <1>8 DEF Decode, Take, onceVars
  <1>9. QED
    BY <1>1, <1>2, <1>3, <1>4, <1>5, <1>6, <1>7, <1>8 DEF GetoptCall

(* What is returned is seen, and not dealt with yet. *)
LEMMA CallHeeded ==
  ASSUME Heeded, IsText(seen), GetoptCall, UNCHANGED <<show_tracks, show_alphabet_table>>
  PROVE  Heeded'
  <1>1. ~Pending
    BY CallOutcome DEF Pending
  <1>2. CASE pc' # "returned" /\ seen' = seen
    BY <1>1, <1>2 DEF Heeded, Pending
  <1>3. CASE \E o, arg : Return(o, arg)
    <2>1. PICK o, arg : Return(o, arg)
      BY <1>3
    <2>2. opt' = o /\ pc' = "returned"
      BY <2>1 DEF Return
    <2>3. CASE o = "-1"
      <3>1. seen' = seen /\ ~Pending'
        BY <2>1, <2>2, <2>3 DEF Return, Pending
      <3>2. QED
        BY <1>1, <3>1 DEF Heeded
    <2>4. CASE o # "-1"
      <3> DEFINE e == <<o, arg>>
                 t == <<e>>
      <3>1. seen' = Append(seen, e) /\ Pending'
        BY <2>1, <2>2, <2>4 DEF Return, Pending
      <3>2. e[1] = o /\ \A x : Among(t, x) <=> e[1] = x
        BY AmongFew
      <3> HIDE DEF e
      <3>3. IsText(t) /\ seen' = seen \o t
        BY <3>1, OneMore
      <3> HIDE DEF t
      <3>4. \A x : Among(seen', x) <=> Among(seen, x) \/ o = x
        BY <3>2, <3>3, AmongJoined
      <3>5. QED
        BY <1>1, <2>2, <3>1, <3>4, Zenon DEF Heeded
    <2>5. QED
      BY <2>3, <2>4
  <1>4. QED
    BY <1>2, <1>3, CallOutcome

(* Each call of getopt_long keeps what is proved of it. *)
LEMMA ScanKeeps == CommandInv /\ ScanOptions => CommandInv'
  <1> SUFFICES ASSUME CommandInv, ScanOptions PROVE CommandInv'
    OBVIOUS
  <1>1. /\ GetoptCall /\ step = "options" /\ step' = "options"
        /\ UNCHANGED <<show_tracks, show_alphabet_table, file, opened, printed, status>>
    BY DEF ScanOptions, commandVars
  <1>2. Vectored /\ Scanning /\ Silent
    BY <1>1 DEF CommandInv, Ends
  <1>3. PlaceInv /\ ReadInv /\ Heeded /\ IsText(seen)
    BY <1>2 DEF Scanning, PlaceInv, Scanned
  <1>4. PlaceInv'
    BY <1>1, <1>3, PlaceKept DEF GetoptNext
  <1>5. ReadInv'
    BY <1>1, <1>3, ReadKept DEF GetoptNext
  <1>6. Heeded'
    BY <1>1, <1>3, CallHeeded
  <1>7. UNCHANGED <<who, argc, start>>
    BY <1>1, CallOutcome
  <1>8. initialized' => ordering' \in {"PERMUTE", "REQUIRE_ORDER"}
    <2>1. At(Callers[who].optstring, 1) = "t"
      BY <1>2, AskedIs DEF Vectored, At, Os
    <2>2. Orderings(who) = {"PERMUTE", "REQUIRE_ORDER"}
      BY <2>1 DEF Orderings
    <2>3. QED
      BY <1>1, <1>2, <2>2, CallOutcome DEF Scanning
  <1>9. Scanning'
    BY <1>1, <1>2, <1>4, <1>5, <1>6, <1>7, <1>8 DEF Scanning
  <1>10. Vectored'
    BY <1>1, <1>2, <1>4, <1>7 DEF Vectored, PlaceInv, Line
  <1>11. Silent'
    BY <1>1, <1>2 DEF Silent
  <1>12. QED
    BY <1>1, <1>9, <1>10, <1>11 DEF CommandInv

(* An option that is dealt with is not pending any more. *)
LEMMA TakeKeeps == CommandInv /\ TakeOption => CommandInv'
  <1> SUFFICES ASSUME CommandInv, TakeOption PROVE CommandInv'
    OBVIOUS
  <1>1. /\ Again /\ step = "options" /\ step' = "options" /\ opt \in {"t", "a"}
        /\ UNCHANGED <<file, opened, printed, status>>
        /\ show_tracks' = (show_tracks \/ opt = "t")
        /\ show_alphabet_table' = (show_alphabet_table \/ opt = "a")
    BY DEF TakeOption
  <1>2. Vectored /\ Scanning /\ Silent
    BY <1>1 DEF CommandInv, Ends
  <1>3. PlaceInv /\ ReadInv /\ Heeded
    BY <1>2 DEF Scanning
  <1>4. PlaceInv' /\ ReadInv'
    BY <1>1, <1>3, PlaceKept, ReadKept DEF GetoptNext
  <1>5. /\ UNCHANGED <<who, argc, start, argv, seen, initialized, ordering, opt>>
        /\ Pending /\ ~Pending'
    BY <1>1 DEF Again, onceVars, scanVars, resultVars, Pending
  <1>6. Heeded'
    BY <1>1, <1>3, <1>5, Zenon DEF Heeded
  <1>7. Scanning'
    BY <1>1, <1>2, <1>4, <1>5, <1>6 DEF Scanning
  <1>8. Vectored' /\ Silent'
    BY <1>1, <1>2, <1>5 DEF Vectored, Silent
  <1>9. QED
    BY <1>1, <1>7, <1>8 DEF CommandInv

(* When nothing moves in getopt_long, what is known of it still is. *)
LEMMA ScanningStays ==
  ASSUME Scanning, UNCHANGED <<getoptVars, show_tracks, show_alphabet_table, file>>
  PROVE  /\ Scanning' /\ (Over' <=> Over) /\ Shows' = Shows
         /\ UNCHANGED <<who, argc, argv, start, initialized, pc, opt>>
  <1>1. UNCHANGED getoptVars
    OBVIOUS
  <1>2. /\ UNCHANGED <<who, argc, argv, start, initialized, ordering, pc, opt, seen>>
    BY <1>1 DEF getoptVars, onceVars, scanVars, resultVars
  <1>3. PlaceInv' /\ ReadInv'
    BY <1>1, PlaceKept, ReadKept DEF Scanning
  <1>4. Heeded'
    BY <1>2, Zenon DEF Scanning, Heeded, Pending
  <1>5. QED
    BY <1>2, <1>3, <1>4 DEF Scanning, Over, Shows

(* What is printed is a sequence of parts. *)
LEMMA ShowsIs == Shows \in Seq({"file", "tracks", "alphabet table", "checksum"})
  <1> DEFINE T == IF show_tracks THEN <<"tracks">> ELSE << >>
             A == IF show_alphabet_table THEN <<"alphabet table">> ELSE << >>
             F == <<"file">>
             P == {"file", "tracks", "alphabet table", "checksum"}
  <1>1. T \in Seq(P) /\ A \in Seq(P) /\ F \in Seq(P)
    <2>1. << >> \in Seq(P)
      OBVIOUS
    <2>2. <<"tracks">> \in Seq(P)
      OBVIOUS
    <2>3. <<"alphabet table">> \in Seq(P)
      OBVIOUS
    <2>4. F \in Seq(P)
      OBVIOUS
    <2> HIDE DEF P, F
    <2>5. QED
      BY <2>1, <2>2, <2>3, <2>4, Zenon
  <1>2. Shows = (F \o T) \o A
    BY DEF Shows
  <1> HIDE DEF T, A, F, P
  <1>3. (F \o T) \o A \in Seq(P)
    BY <1>1, ConcatProperties
  <1>4. QED
    BY <1>2, <1>3 DEF P

(* The loop over the options ends with -1 or with a wrong option. *)
LEMMA EndKeeps == CommandInv /\ OptionsEnd => CommandInv'
  <1> SUFFICES ASSUME CommandInv, OptionsEnd PROVE CommandInv'
    OBVIOUS
  <1>1. /\ step = "options" /\ pc = "returned" /\ opt \notin {"t", "a"}
        /\ UNCHANGED <<getoptVars, commandVars>>
        /\ step' = IF opt = "-1" THEN "command_cat" ELSE "exit"
    BY DEF OptionsEnd
  <1>2. Vectored /\ Scanning /\ Silent
    BY <1>1 DEF CommandInv, Ends
  <1>3. UNCHANGED <<show_tracks, show_alphabet_table, file, opened, printed, status>>
    BY <1>1 DEF commandVars
  <1>4. /\ Scanning' /\ (Over' <=> Over)
        /\ UNCHANGED <<who, argc, argv, start, initialized, pc, opt>>
    BY <1>1, <1>2, <1>3, ScanningStays
  <1>5. initialized
    BY <1>1, <1>2 DEF Scanning, PlaceInv, Staged
  <1>6. Vectored' /\ Silent'
    BY <1>2, <1>3, <1>4 DEF Vectored, Silent
  <1>7. QED
    BY <1>1, <1>4, <1>5, <1>6 DEF CommandInv, Ends, Over

(* The file is opened, and printed if there is something to load. *)
LEMMA CatKeeps == CommandInv /\ CommandCat => CommandInv'
  <1> SUFFICES ASSUME CommandInv, CommandCat PROVE CommandInv'
    OBVIOUS
  <1>1. /\ step = "command_cat" /\ step' \in Ends /\ opened' = {file[1]}
        /\ UNCHANGED <<getoptVars, show_tracks, show_alphabet_table, file, status>>
        /\ printed' \in {<< >>, printed, Shows}
    BY DEF CommandCat, Shows, Ends
  <1>2. Vectored /\ Scanning /\ initialized /\ Over
    BY <1>1 DEF CommandInv, Ends
  <1>3. /\ Scanning' /\ (Over' <=> Over) /\ Shows' = Shows
        /\ UNCHANGED <<who, argc, argv, start, initialized, pc, opt>>
    BY <1>1, <1>2, ScanningStays
  <1>4. Vectored'
    BY <1>1, <1>2, <1>3 DEF Vectored
  <1>5. opened' = {start'[2]}
    BY <1>1, <1>2, <1>3 DEF Scanning
  <1>6. pc' = "returned" /\ opt' \notin {"t", "a"} /\ initialized' /\ Over'
    BY <1>2, <1>3 DEF Over
  <1>7. printed' \in {<< >>, Shows'}
    BY <1>1, <1>3 DEF CommandInv, Silent, Ends
  <1>8. QED
    BY <1>1, <1>3, <1>4, <1>5, <1>6, <1>7 DEF CommandInv

(* A checksum does without getopt_long. *)
LEMMA ChecksumKeeps == CommandInv /\ HandleChecksum => CommandInv'
  <1> SUFFICES ASSUME CommandInv, HandleChecksum PROVE CommandInv'
    OBVIOUS
  <1>1. /\ step = "handle_checksum" /\ step' \in Ends
        /\ UNCHANGED <<getoptVars, show_tracks, show_alphabet_table, status>>
        /\ printed' \in {printed, <<"checksum">>}
    BY DEF HandleChecksum, Ends
  <1>2. Vectored /\ Fresh /\ Silent
    BY <1>1 DEF CommandInv, Ends
  <1>3. UNCHANGED <<who, argc, argv, initialized>>
    BY <1>1 DEF getoptVars, onceVars, scanVars
  <1>4. Vectored' /\ initialized' = FALSE /\ printed' \in {<< >>, <<"checksum">>}
    BY <1>1, <1>2, <1>3 DEF Vectored, Fresh, Silent
  <1>5. QED
    BY <1>1, <1>4 DEF CommandInv

(* When nothing happens, nothing changes. *)
LEMMA CommandStays == CommandInv /\ UNCHANGED mainVars => CommandInv'
  <1> SUFFICES ASSUME CommandInv, UNCHANGED mainVars PROVE CommandInv'
    OBVIOUS
  <1>1. UNCHANGED <<getoptVars, show_tracks, show_alphabet_table, file, opened,
                    printed, status, step>>
    BY DEF mainVars, commandVars
  <1>2. UNCHANGED <<who, argc, argv, start, initialized, ordering, pc, opt, seen,
                    nextchar, first_nonopt, last_nonopt, longind>>
    BY <1>1 DEF getoptVars, onceVars, scanVars, resultVars
  <1>3. Vectored' /\ (Fresh => Fresh') /\ (Silent => Silent')
    BY <1>1, <1>2 DEF CommandInv, Vectored, Fresh, Silent
  <1>4. Scanning => Scanning' /\ (Over' <=> Over) /\ Shows' = Shows
    BY <1>1, ScanningStays
  <1>5. QED
    BY <1>1, <1>2, <1>3, <1>4 DEF CommandInv

(* Every step of the command keeps its invariant. *)
LEMMA CommandKept == CommandInv /\ [MainNext]_mainVars => CommandInv'
  BY MainKeeps, HandleCatKeeps, ScanKeeps, TakeKeeps, EndKeeps, CatKeeps,
     ChecksumKeeps, CommandStays DEF MainNext

(* And so it always holds. *)
THEOREM CommandInvariant == MainSpec => []CommandInv
  <1>1. CommandInv /\ [MainNext]_mainVars => CommandInv'
    BY CommandKept
  <1>2. QED
    BY <1>1, CommandInitially, PTL DEF MainSpec

(* Types; and getopt_long never steps outside what handle_cat left it of   *)
(* argv.                                                                   *)
THEOREM CommandTypes == MainSpec => []MainTypeOK
  <1>1. CommandInv => MainTypeOK
    <2> SUFFICES ASSUME CommandInv PROVE MainTypeOK
      OBVIOUS
    <2>1. Vectored
      BY DEF CommandInv
    <2>2. step = "options" => argc >= 3 /\ optind \in 3 .. argc /\ file # << >>
      <3> SUFFICES ASSUME step = "options"
                   PROVE  argc >= 3 /\ optind \in 3 .. argc /\ file # << >>
        OBVIOUS
      <3>1. Scanning
        BY DEF CommandInv, Ends
      <3>2. Line /\ Scanned /\ Staged /\ argc >= 3 /\ file = <<start[2]>>
        BY <3>1 DEF Scanning, PlaceInv
      <3>3. who = 1 /\ argc \in Nat /\ FirstArg = 3 /\ Callers[who].optind = 3
        BY <2>1, <3>2, TheNumbers, CatAsks, AskedIs DEF Vectored
      <3>4. CASE initialized
        <4>1. optstring = Os
          BY <3>2, <3>3, <3>4, CatAsks DEF Scanned
        <4>2. More(optstring) = 0
          BY <3>3, <4>1, CatAsks
        <4>3. optind \in Nat /\ 3 <= optind /\ optind <= argc + 0
          BY <3>2, <3>3, <3>4, <4>2 DEF Scanned
        <4>4. QED
          BY <3>2, <3>3, <4>3
      <3>5. CASE ~initialized
        <4>1. optind = 3
          BY <3>2, <3>3, <3>5 DEF Staged
        <4>2. QED
          BY <3>2, <3>3, <4>1
      <3>6. QED
        BY <3>4, <3>5
    <2>3. printed \in Seq({"file", "tracks", "alphabet table", "checksum"})
      <3> DEFINE e == << >>
                 c == <<"checksum">>
                 P == {"file", "tracks", "alphabet table", "checksum"}
      <3>1. e \in Seq(P) /\ c \in Seq(P)
        OBVIOUS
      <3>2. printed \in {e, c, Shows}
        BY DEF CommandInv, Silent
      <3> HIDE DEF e, c
      <3>3. QED
        BY <3>1, <3>2, ShowsIs
    <2>4. step \in {"main", "handle_cat", "options", "command_cat", "handle_checksum",
                    "exit", "fault"}
      BY DEF CommandInv, Ends
    <2>5. QED
      BY <2>1, <2>2, <2>3, <2>4 DEF MainTypeOK, Vectored
  <1>2. QED
    BY <1>1, CommandInvariant, PTL

(* CAT opens the argument behind it if no option is wrong, and nothing     *)
(* otherwise; and prints the parts that the options ask for, no matter in  *)
(* what order options and other arguments stand, in clusters or            *)
(* abbreviated, or how often.                                              *)
THEOREM CommandShowsAsAsked == MainSpec => []ShownAsAsked
  <1>1. CommandInv => ShownAsAsked
    <2> SUFFICES ASSUME CommandInv, step \in Ends, initialized
                 PROVE  /\ opened = IF \E a \in Options : Wrong(a) THEN {} ELSE {start[2]}
                        /\ printed # << >> =>
                             /\ opened # {}
                             /\ printed = <<"file">>
                                  \o (IF \E a \in Options : Tracks(a) THEN <<"tracks">>
                                      ELSE << >>)
                                  \o (IF \E a \in Options : Table(a)
                                      THEN <<"alphabet table">> ELSE << >>)
      BY Zenon DEF ShownAsAsked, Ends
    <2>1. /\ Vectored /\ Scanning /\ pc = "returned" /\ opt \notin {"t", "a"}
          /\ IF Over THEN opened = {start[2]} /\ printed \in {<< >>, Shows} ELSE Silent
      BY DEF CommandInv, Ends
    <2>2. /\ PlaceInv /\ Line /\ ReadInv /\ Heeded /\ IsText(seen) /\ who = 1
          /\ ordering \in {"PERMUTE", "REQUIRE_ORDER"}
      BY <2>1 DEF Scanning, PlaceInv, Scanned, Vectored
    <2> DEFINE Read(x) == Among(OptsFrom(Origin), x)
    <2>3. /\ Read("t") <=> \E a \in Options : Tracks(a)
          /\ Read("a") <=> \E a \in Options : Table(a)
          /\ Read("?") <=> \E a \in Options : Wrong(a)
          /\ \A x : Read(x) => x \in {"t", "a", "?"}
      BY <2>2, AskedIsRead
    <2>4. CASE Over
      <3>1. ~Pending /\ seen = OptsFrom(Origin)
        BY <2>2, <2>4 DEF Over, Pending, ReadInv, Done
      <3>2. /\ Read("t") <=> show_tracks
            /\ Read("a") <=> show_alphabet_table
            /\ ~Read("?")
        BY <2>2, <3>1, Zenon DEF Heeded
      <3>3. opened = {start[2]} /\ printed \in {<< >>, Shows}
        BY <2>1, <2>4
      <3>4. opened # {}
        BY <3>3
      <3>5. Shows = <<"file">>
              \o (IF \E a \in Options : Tracks(a) THEN <<"tracks">> ELSE << >>)
              \o (IF \E a \in Options : Table(a) THEN <<"alphabet table">> ELSE << >>)
        BY <2>3, <3>2, Zenon DEF Shows
      <3> HIDE DEF Read
      <3>6. QED
        BY <2>3, <3>2, <3>3, <3>4, <3>5, Zenon
    <2>5. CASE ~Over
      <3>1. Pending /\ Underway
        BY <2>1, <2>2, <2>5 DEF Over, Pending, ReadInv
      <3>2. OptsFrom(Origin) = seen \o OptsFrom(Here)
        BY <3>1 DEF Underway, Sofar
      <3>3. IsText(OptsFrom(Here))
        BY <2>2, HereIs, FromTexts
      <3>4. Among(seen, opt)
        BY <2>2, <3>1 DEF Heeded
      <3>5. Read(opt)
        BY <2>2, <3>2, <3>3, <3>4, AmongJoined
      <3>6. Read("?")
        BY <2>1, <2>3, <3>5
      <3>7. opened = {} /\ printed = << >>
        BY <2>1, <2>5 DEF Silent
      <3> HIDE DEF Read
      <3>8. QED
        BY <2>3, <3>6, <3>7, Zenon
    <2>6. QED
      BY <2>4, <2>5
  <1>2. QED
    BY <1>1, CommandInvariant, PTL
==============================================================================
