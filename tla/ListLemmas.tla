----------------------------- MODULE ListLemmas -----------------------------
(***************************************************************************)
(* Facts about sequences without repetition, which is what a kernel list   *)
(* of records is; about their reversal, which is what a hash chain filled  *)
(* at its head is; about the sequence of what a list points to; about how  *)
(* many places of a list hold a value of some kind; and about a sequence   *)
(* that is changed in its middle, as the order of a tree is.               *)
(***************************************************************************)
EXTENDS SequencesExt, SequenceTheorems, FiniteSetTheorems, TLAPS

\* The members of a list after list_add_tail, and that none is repeated.
LEMMA AppendRange ==
  ASSUME NEW S, NEW s \in Seq(S), NEW r \in S
  PROVE  /\ Range(Append(s, r)) = Range(s) \cup {r}
         /\ IsInjective(s) /\ r \notin Range(s) => IsInjective(Append(s, r))
<1>1. /\ Append(s, r) \in Seq(S)
      /\ Len(Append(s, r)) = Len(s) + 1
      /\ \A i \in 1 .. Len(s) : Append(s, r)[i] = s[i]
      /\ Append(s, r)[Len(s) + 1] = r
  BY AppendProperties
<1>2. /\ Len(s) \in Nat
      /\ DOMAIN s = 1 .. Len(s)
      /\ DOMAIN Append(s, r) = 1 .. Len(s) + 1
  BY <1>1, LenProperties
<1>3. Range(Append(s, r)) = Range(s) \cup {r}
  BY <1>1, <1>2 DEF Range
<1>4. IsInjective(s) /\ r \notin Range(s) => IsInjective(Append(s, r))
  BY <1>1, <1>2 DEF Range, IsInjective
<1> QED BY <1>3, <1>4

\* The members of a list after its head was unlinked.
LEMMA TailRange ==
  ASSUME NEW S, NEW s \in Seq(S), s # <<>>
  PROVE  /\ Head(s) = s[1]
         /\ Head(s) \in Range(s)
         /\ IsInjective(s) => /\ Range(Tail(s)) = Range(s) \ {Head(s)}
                              /\ IsInjective(Tail(s))
<1>1. /\ Len(s) \in Nat \ {0}
      /\ DOMAIN s = 1 .. Len(s)
      /\ Head(s) = s[1]
  BY LenProperties, EmptySeq
<1>2. /\ Tail(s) \in Seq(S)
      /\ Len(Tail(s)) = Len(s) - 1
      /\ \A i \in 1 .. Len(s) - 1 : Tail(s)[i] = s[i + 1]
  BY HeadTailProperties
<1>3. DOMAIN Tail(s) = 1 .. Len(s) - 1
  BY <1>2, LenProperties
<1>4. ASSUME IsInjective(s)
      PROVE  Range(Tail(s)) = Range(s) \ {Head(s)}
  <2>1. ASSUME NEW i \in 1 .. Len(s) - 1
        PROVE  s[i + 1] \in Range(s) /\ s[i + 1] # Head(s)
    BY <1>1, <1>4 DEF Range, IsInjective
  <2>2. ASSUME NEW j \in 1 .. Len(s), s[j] # Head(s)
        PROVE  \E i \in 1 .. Len(s) - 1 : s[j] = s[i + 1]
    <3>1. j - 1 \in 1 .. Len(s) - 1 /\ (j - 1) + 1 = j
      BY <1>1, <2>2
    <3> QED BY <3>1
  <2>3. Range(Tail(s)) = {s[i + 1] : i \in 1 .. Len(s) - 1}
    BY <1>2, <1>3 DEF Range
  <2>4. Range(s) = {s[j] : j \in 1 .. Len(s)}
    BY <1>1 DEF Range
  <2> QED BY <2>1, <2>2, <2>3, <2>4
<1>5. IsInjective(s) => IsInjective(Tail(s))
  BY <1>1, <1>2, <1>3 DEF IsInjective
<1>6. Head(s) \in Range(s)
  BY <1>1 DEF Range
<1> QED BY <1>1, <1>4, <1>5, <1>6

\* A reversal is a sequence of the same length and of the same members.
LEMMA ReverseProperties ==
  ASSUME NEW S, NEW s \in Seq(S)
  PROVE  /\ Reverse(s) \in Seq(S)
         /\ Len(Reverse(s)) = Len(s)
         /\ DOMAIN Reverse(s) = 1 .. Len(s)
         /\ \A i \in 1 .. Len(s) : Reverse(s)[i] = s[(Len(s) - i) + 1]
         /\ Range(Reverse(s)) = Range(s)
<1>1. /\ Len(s) \in Nat
      /\ DOMAIN s = 1 .. Len(s)
      /\ \A i \in 1 .. Len(s) : s[i] \in S
  BY LenProperties
<1>2. \A i \in 1 .. Len(s) : (Len(s) - i) + 1 \in 1 .. Len(s)
  BY <1>1
<1>3. Reverse(s) \in [1 .. Len(s) -> S]
  BY <1>1, <1>2 DEF Reverse
<1>4. Reverse(s) \in Seq(S) /\ Len(Reverse(s)) = Len(s)
  BY <1>1, <1>3
<1>5. \A i \in 1 .. Len(s) : Reverse(s)[i] = s[(Len(s) - i) + 1]
  BY <1>1 DEF Reverse
<1>6. Range(Reverse(s)) = Range(s)
  <2>1. ASSUME NEW i \in 1 .. Len(s)
        PROVE  \E j \in 1 .. Len(s) : s[i] = Reverse(s)[j]
    <3>1. (Len(s) - i) + 1 \in 1 .. Len(s) /\ (Len(s) - ((Len(s) - i) + 1)) + 1 = i
      BY <1>1
    <3> QED BY <3>1, <1>5
  <2>2. Range(Reverse(s)) = {s[(Len(s) - i) + 1] : i \in 1 .. Len(s)}
    BY <1>3, <1>5 DEF Range
  <2>3. Range(s) = {s[i] : i \in 1 .. Len(s)}
    BY <1>1 DEF Range
  <2>4. \A i \in 1 .. Len(s) : \E j \in 1 .. Len(s) : s[i] = s[(Len(s) - j) + 1]
    BY <2>1, <1>5
  <2> QED BY <1>2, <2>2, <2>3, <2>4
<1> QED BY <1>3, <1>4, <1>5, <1>6

\* hash_add at the head of a chain and list_add_tail keep the one the
\* reversal of the other.
LEMMA ReverseAppend ==
  ASSUME NEW S, NEW s \in Seq(S), NEW r \in S
  PROVE  <<r>> \o Reverse(s) = Reverse(Append(s, r))
<1> DEFINE a == Append(s, r)
           c == <<r>> \o Reverse(s)
           n == Len(s) + 1
<1>1. /\ a \in Seq(S)
      /\ Len(a) = n
      /\ \A i \in 1 .. Len(s) : a[i] = s[i]
      /\ a[n] = r
      /\ Len(s) \in Nat
  BY AppendProperties, LenProperties
<1>2. /\ Reverse(s) \in Seq(S)
      /\ Len(Reverse(s)) = Len(s)
      /\ \A i \in 1 .. Len(s) : Reverse(s)[i] = s[(Len(s) - i) + 1]
  BY ReverseProperties
<1>3. <<r>> \in Seq(S) /\ Len(<<r>>) = 1 /\ <<r>>[1] = r
  OBVIOUS
<1>4. /\ c \in Seq(S)
      /\ Len(c) = n
      /\ c[1] = r
      /\ \A i \in 2 .. n : c[i] = Reverse(s)[i - 1]
  BY <1>1, <1>2, <1>3, ConcatProperties
<1>5. /\ Reverse(a) \in Seq(S)
      /\ Len(Reverse(a)) = n
      /\ \A i \in 1 .. n : Reverse(a)[i] = a[(n - i) + 1]
  <2> HIDE DEF a, n
  <2> QED BY <1>1, ReverseProperties
<1>6. ASSUME NEW i \in 1 .. n
      PROVE  c[i] = Reverse(a)[i]
  <2>1. CASE i = 1
    BY <1>1, <1>4, <1>5, <2>1
  <2>2. CASE i # 1
    <3>1. i - 1 \in 1 .. Len(s) /\ (Len(s) - (i - 1)) + 1 = (n - i) + 1
      BY <1>1, <2>2
    <3>2. (n - i) + 1 \in 1 .. Len(s) /\ i \in 2 .. n
      BY <1>1, <2>2
    <3> QED BY <1>1, <1>2, <1>4, <1>5, <3>1, <3>2
  <2> QED BY <2>1, <2>2
<1> HIDE DEF a, c, n
<1>7. c = Reverse(a)
  BY <1>4, <1>5, <1>6, SeqEqual
<1> QED BY <1>7 DEF a, c

\* What is last in the chain is first in the list, and both go together.
LEMMA ReverseTail ==
  ASSUME NEW S, NEW s \in Seq(S), s # <<>>, IsInjective(s)
  PROVE  RemoveAt(Reverse(s), CHOOSE i \in DOMAIN Reverse(s) : Reverse(s)[i] = Head(s))
           = Reverse(Tail(s))
<1> DEFINE n == Len(s)
           c == Reverse(s)
           t == Tail(s)
           k == CHOOSE i \in DOMAIN c : c[i] = Head(s)
<1>1. n \in Nat \ {0} /\ Head(s) = s[1] /\ DOMAIN s = 1 .. n
  BY EmptySeq, LenProperties
<1>2. /\ c \in Seq(S)
      /\ Len(c) = n
      /\ DOMAIN c = 1 .. n
      /\ \A i \in 1 .. n : c[i] = s[(n - i) + 1]
  BY ReverseProperties
<1>3. n \in DOMAIN c /\ c[n] = Head(s)
  BY <1>1, <1>2
<1>4. k \in DOMAIN c /\ c[k] = Head(s)
  BY <1>3
<1>5. k = n
  <2>1. (n - k) + 1 \in 1 .. n /\ s[(n - k) + 1] = s[1]
    BY <1>1, <1>2, <1>4
  <2>2. (n - k) + 1 = 1
    BY <1>1, <2>1 DEF IsInjective
  <2> QED BY <1>1, <1>2, <1>4, <2>2
<1> DEFINE f == SubSeq(c, 1, n - 1)
           e == SubSeq(c, n + 1, n)
<1>6. RemoveAt(c, k) = f \o e
  BY <1>2, <1>5 DEF RemoveAt
<1>7. e = <<>>
  BY <1>1, SubSeqEmpty
<1>8. /\ f \in Seq(S)
      /\ Len(f) = n - 1
      /\ \A i \in 1 .. n - 1 : f[i] = c[i]
  <2>1. \A i \in 1 .. n - 1 : c[i] \in S
    BY <1>1, <1>2, LenProperties
  <2> HIDE DEF n, c
  <2>2. /\ f \in Seq(S)
        /\ Len(f) = IF 1 <= n - 1 THEN (n - 1) - 1 + 1 ELSE 0
        /\ \A i \in 1 .. (n - 1) - 1 + 1 : f[i] = c[1 + i - 1]
    BY <1>1, <2>1, SubSeqProperties
  <2> QED BY <1>1, <2>2
<1>9. f \o e = f
  BY <1>7, <1>8, ConcatEmptySeq
<1>10. /\ t \in Seq(S)
       /\ Len(t) = n - 1
       /\ \A i \in 1 .. n - 1 : t[i] = s[i + 1]
  BY HeadTailProperties
<1>11. /\ Reverse(t) \in Seq(S)
       /\ Len(Reverse(t)) = n - 1
       /\ \A i \in 1 .. n - 1 : Reverse(t)[i] = t[((n - 1) - i) + 1]
  <2> HIDE DEF t, n
  <2>1. /\ Reverse(t) \in Seq(S) /\ Len(Reverse(t)) = Len(t)
        /\ \A i \in 1 .. Len(t) : Reverse(t)[i] = t[(Len(t) - i) + 1]
    BY <1>10, ReverseProperties
  <2> QED BY <1>10, <2>1
<1>12. ASSUME NEW i \in 1 .. n - 1
       PROVE  f[i] = Reverse(t)[i]
  <2>1. /\ ((n - 1) - i) + 1 \in 1 .. n - 1
        /\ (((n - 1) - i) + 1) + 1 = (n - i) + 1
        /\ i \in 1 .. n
    BY <1>1
  <2> QED BY <1>2, <1>8, <1>10, <1>11, <2>1
<1> HIDE DEF f, e, t, n, c, k
<1>13. f = Reverse(t)
  BY <1>8, <1>11, <1>12, SeqEqual
<1> QED BY <1>6, <1>9, <1>13 DEF c, k, t

-----------------------------------------------------------------------------
(* A list of pointers, and the list of what they point to.                 *)

Mapped(s, f) == [i \in DOMAIN s |-> f[s[i]]]

\* What a list of pointers points to is a list of the same length.
LEMMA MappedPlaces ==
  ASSUME NEW S, NEW s \in Seq(S), NEW f
  PROVE  /\ Len(Mapped(s, f)) = Len(s)
         /\ DOMAIN Mapped(s, f) = 1 .. Len(s)
         /\ \A i \in 1 .. Len(s) : s[i] \in Range(s) /\ Mapped(s, f)[i] = f[s[i]]
<1>1. Len(s) \in Nat /\ DOMAIN s = 1 .. Len(s)
  BY LenProperties
<1>2. \A i \in 1 .. Len(s) : s[i] \in Range(s)
  BY <1>1 DEF Range
<1>3. /\ DOMAIN Mapped(s, f) = 1 .. Len(s)
      /\ \A i \in 1 .. Len(s) : Mapped(s, f)[i] = f[s[i]]
  BY <1>1 DEF Mapped
<1>4. Mapped(s, f) \in Seq({f[x] : x \in Range(s)})
  BY <1>1, <1>2 DEF Mapped
<1>5. Len(Mapped(s, f)) = Len(s)
  BY <1>1, <1>3, <1>4, LenProperties
<1> QED BY <1>2, <1>3, <1>5

\* Its members are of the type of what is pointed to.
LEMMA MappedType ==
  ASSUME NEW S, NEW T, NEW s \in Seq(S), NEW f, \A x \in Range(s) : f[x] \in T
  PROVE  Mapped(s, f) \in Seq(T)
<1>1. Len(s) \in Nat /\ DOMAIN s = 1 .. Len(s)
  BY LenProperties
<1>2. \A i \in 1 .. Len(s) : s[i] \in Range(s)
  BY <1>1 DEF Range
<1>3. Mapped(s, f) \in [1 .. Len(s) -> T]
  BY <1>1, <1>2 DEF Mapped
<1> QED BY <1>1, <1>3

\* It stays when the pointed-to values of the list stay.
LEMMA MappedFrame ==
  ASSUME NEW s, NEW f, NEW g, \A x \in Range(s) : f[x] = g[x]
  PROVE  Mapped(s, f) = Mapped(s, g)
<1>1. \A i \in DOMAIN s : s[i] \in Range(s)
  BY DEF Range
<1> QED BY <1>1 DEF Mapped

\* list_add_tail adds what the new pointer points to.
LEMMA MappedAppend ==
  ASSUME NEW S, NEW s \in Seq(S), NEW f, NEW r \in S
  PROVE  Mapped(Append(s, r), f) = Append(Mapped(s, f), f[r])
<1> DEFINE T == {f[x] : x \in Range(s) \cup {r}}
<1>1. f[r] \in T /\ \A x \in Range(s) : f[x] \in T
  OBVIOUS
<1> HIDE DEF T
<1> DEFINE a == Append(s, r)
           m == Mapped(s, f)
           n == Len(s) + 1
<1>2. /\ a \in Seq(S) /\ Len(a) = n
      /\ \A i \in 1 .. Len(s) : a[i] = s[i]
      /\ a[n] = r
      /\ Len(s) \in Nat
  BY AppendProperties, LenProperties
<1>3. /\ m \in Seq(T) /\ Len(m) = Len(s)
      /\ \A i \in 1 .. Len(s) : s[i] \in Range(s) /\ m[i] = f[s[i]]
  BY <1>1, MappedPlaces, MappedType
<1>4. /\ Append(m, f[r]) \in Seq(T)
      /\ Len(Append(m, f[r])) = n
      /\ \A i \in 1 .. Len(s) : Append(m, f[r])[i] = m[i]
      /\ Append(m, f[r])[n] = f[r]
  <2> HIDE DEF m
  <2> QED BY <1>1, <1>3, AppendProperties
<1>5. \A x \in Range(a) : f[x] \in T
  BY <1>1, AppendRange
<1>6. /\ Mapped(a, f) \in Seq(T) /\ Len(Mapped(a, f)) = n
      /\ \A i \in 1 .. n : Mapped(a, f)[i] = f[a[i]]
  <2> HIDE DEF a
  <2> QED BY <1>2, <1>5, MappedPlaces, MappedType
<1>7. \A i \in 1 .. n : Mapped(a, f)[i] = Append(m, f[r])[i]
  <2> SUFFICES ASSUME NEW i \in 1 .. n
               PROVE  Mapped(a, f)[i] = Append(m, f[r])[i]
    OBVIOUS
  <2> HIDE DEF a, m
  <2>1. CASE i = n
    BY <1>2, <1>4, <1>6, <2>1
  <2>2. CASE i # n
    <3>1. i \in 1 .. Len(s)
      BY <1>2, <2>2
    <3> QED BY <1>2, <1>3, <1>4, <1>6, <3>1
  <2> QED BY <2>1, <2>2
<1> HIDE DEF a, m, n
<1>8. Mapped(a, f) = Append(m, f[r])
  BY <1>4, <1>6, <1>7, SeqEqual
<1> QED BY <1>8 DEF a, m

\* Unlinking the head takes away what it points to.
LEMMA MappedTail ==
  ASSUME NEW S, NEW s \in Seq(S), NEW f, s # <<>>
  PROVE  Mapped(Tail(s), f) = Tail(Mapped(s, f))
<1> DEFINE T == {f[x] : x \in Range(s)}
<1>1. \A x \in Range(s) : f[x] \in T
  OBVIOUS
<1> HIDE DEF T
<1> DEFINE t == Tail(s)
           m == Mapped(s, f)
           n == Len(s) - 1
<1>2. /\ t \in Seq(S) /\ Len(t) = n
      /\ \A i \in 1 .. n : t[i] = s[i + 1]
      /\ n \in Nat /\ Len(s) = n + 1
  BY HeadTailProperties, EmptySeq
<1>3. /\ m \in Seq(T) /\ Len(m) = n + 1 /\ m # <<>>
      /\ \A i \in 1 .. n + 1 : s[i] \in Range(s) /\ m[i] = f[s[i]]
  <2>1. /\ m \in Seq(T) /\ Len(m) = Len(s)
        /\ \A i \in 1 .. Len(s) : s[i] \in Range(s) /\ m[i] = f[s[i]]
    BY <1>1, MappedPlaces, MappedType
  <2> HIDE DEF m
  <2> QED BY <1>2, <2>1
<1>4. /\ Tail(m) \in Seq(T) /\ Len(Tail(m)) = n
      /\ \A i \in 1 .. n : Tail(m)[i] = m[i + 1]
  <2> HIDE DEF m
  <2> QED BY <1>2, <1>3, HeadTailProperties
<1>5. \A i \in 1 .. n : i + 1 \in 1 .. n + 1
  BY <1>2
<1>6. DOMAIN t = 1 .. n
  BY <1>2, LenProperties
<1>7. \A x \in Range(t) : f[x] \in T
  BY <1>1, <1>2, <1>3, <1>5, <1>6 DEF Range
<1>8. /\ Mapped(t, f) \in Seq(T) /\ Len(Mapped(t, f)) = n
      /\ \A i \in 1 .. n : Mapped(t, f)[i] = f[t[i]]
  <2> HIDE DEF t
  <2> QED BY <1>2, <1>7, MappedPlaces, MappedType
<1> HIDE DEF t, m, n
<1>9. \A i \in 1 .. n : Mapped(t, f)[i] = Tail(m)[i]
  <2> SUFFICES ASSUME NEW i \in 1 .. n PROVE Mapped(t, f)[i] = Tail(m)[i]
    OBVIOUS
  <2>1. Mapped(t, f)[i] = f[s[i + 1]]
    BY <1>2, <1>8
  <2>2. Tail(m)[i] = f[s[i + 1]]
    BY <1>3, <1>4, <1>5
  <2> QED BY <2>1, <2>2
<1>10. Mapped(t, f) = Tail(m)
  BY <1>4, <1>8, <1>9, SeqEqual
<1> QED BY <1>10 DEF t, m

-----------------------------------------------------------------------------
(* How many places of a list hold a member of G.                           *)

Places(s, G) == {i \in DOMAIN s : s[i] \in G}

\* They can be counted.
LEMMA PlacesFinite ==
  ASSUME NEW S, NEW s \in Seq(S), NEW G
  PROVE  IsFiniteSet(Places(s, G)) /\ Cardinality(Places(s, G)) \in Nat
<1>1. Len(s) \in Nat /\ DOMAIN s = 1 .. Len(s)
  BY LenProperties
<1>2. IsFiniteSet(1 .. Len(s))
  BY <1>1, FS_Interval
<1>3. Places(s, G) \in SUBSET (1 .. Len(s))
  BY <1>1 DEF Places
<1>4. IsFiniteSet(Places(s, G))
  BY <1>2, <1>3, FS_Subset
<1> QED BY <1>4, FS_CardinalityType

\* An element more at the end.
LEMMA PlacesAppend ==
  ASSUME NEW S, NEW s \in Seq(S), NEW r \in S, NEW G
  PROVE  Cardinality(Places(Append(s, r), G))
           = Cardinality(Places(s, G)) + (IF r \in G THEN 1 ELSE 0)
<1> DEFINE a == Append(s, r)
           n == Len(s) + 1
           P == Places(s, G)
<1>1. /\ DOMAIN a = 1 .. n
      /\ \A i \in 1 .. Len(s) : a[i] = s[i]
      /\ a[n] = r
      /\ Len(s) \in Nat /\ DOMAIN s = 1 .. Len(s)
  BY AppendProperties, LenProperties
<1>2. IsFiniteSet(P) /\ Cardinality(P) \in Nat
  BY PlacesFinite
<1>3. n \notin P
  BY <1>1 DEF Places
<1> HIDE DEF a
<1>4. Places(a, G) = IF r \in G THEN P \cup {n} ELSE P
  BY <1>1 DEF Places
<1> HIDE DEF P, n
<1>5. Cardinality(P \cup {n}) = Cardinality(P) + 1
  BY <1>2, <1>3, FS_AddElement
<1> QED BY <1>2, <1>4, <1>5 DEF a, P

\* A list without its head holds no more of them.
LEMMA PlacesTail ==
  ASSUME NEW S, NEW s \in Seq(S), s # <<>>, NEW G
  PROVE  Cardinality(Places(Tail(s), G)) <= Cardinality(Places(s, G))
<1> DEFINE t == Tail(s)
           n == Len(s) - 1
           shift == [i \in Places(t, G) |-> i + 1]
<1>1. /\ t \in Seq(S) /\ Len(t) = n /\ DOMAIN t = 1 .. n
      /\ \A i \in 1 .. n : t[i] = s[i + 1]
      /\ n \in Nat /\ DOMAIN s = 1 .. n + 1
  BY HeadTailProperties, EmptySeq, LenProperties
<1> HIDE DEF t
<1>2. \A i \in Places(t, G) : i \in 1 .. n /\ i + 1 \in Places(s, G)
  BY <1>1 DEF Places
<1>3. shift \in Injection(Places(t, G), Places(s, G))
  BY <1>1, <1>2 DEF Injection, IsInjective
<1>4. IsFiniteSet(Places(s, G))
  BY PlacesFinite
<1> HIDE DEF shift
<1> QED BY <1>3, <1>4, FS_Injection DEF t

\* An element replaced where it stands.
LEMMA PlacesReplace ==
  ASSUME NEW S, NEW s \in Seq(S), NEW i \in DOMAIN s, NEW e \in S, NEW G
  PROVE  Cardinality(Places([s EXCEPT ![i] = e], G))
           = Cardinality(Places(s, G)) + (IF e \in G THEN 1 ELSE 0)
                                       - (IF s[i] \in G THEN 1 ELSE 0)
<1> DEFINE u == [s EXCEPT ![i] = e]
           P == Places(s, G)
           Q == P \ {i}
<1>1. /\ DOMAIN u = DOMAIN s
      /\ u[i] = e
      /\ \A j \in DOMAIN s : j # i => u[j] = s[j]
  OBVIOUS
<1>2. IsFiniteSet(P) /\ Cardinality(P) \in Nat
  BY PlacesFinite
<1>3. i \in P <=> s[i] \in G
  BY DEF Places
<1> HIDE DEF u
<1>4. Places(u, G) = IF e \in G THEN Q \cup {i} ELSE Q
  BY <1>1 DEF Places
<1> HIDE DEF P
<1>5. /\ IsFiniteSet(Q)
      /\ Cardinality(Q) = IF i \in P THEN Cardinality(P) - 1 ELSE Cardinality(P)
  BY <1>2, FS_RemoveElement
<1>6. i \notin Q
  OBVIOUS
<1> HIDE DEF Q
<1>7. Cardinality(Q \cup {i}) = Cardinality(Q) + 1
  BY <1>5, <1>6, FS_AddElement
<1> QED BY <1>2, <1>3, <1>4, <1>5, <1>7 DEF P, u

-----------------------------------------------------------------------------
(* A member that enters a sequence in its middle, or leaves it there.      *)

\* What an insertion into a sequence puts at each of its places.
LEMMA InsertAtProperties ==
  ASSUME NEW S, NEW s \in Seq(S), NEW e \in S, NEW n \in 1 .. Len(s) + 1
  PROVE  /\ InsertAt(s, n, e) \in Seq(S)
         /\ Len(InsertAt(s, n, e)) = Len(s) + 1
         /\ \A i \in 1 .. Len(s) + 1 :
              InsertAt(s, n, e)[i] = IF i < n THEN s[i] ELSE IF i = n THEN e ELSE s[i - 1]
<1> DEFINE front == SubSeq(s, 1, n - 1)
           back  == SubSeq(s, n, Len(s))
           begin == front \o <<e>>
<1>1. Len(s) \in Nat /\ n \in Nat /\ \A i \in 1 .. Len(s) : s[i] \in S
  BY LenProperties
<1>2. /\ front \in Seq(S) /\ Len(front) = n - 1
      /\ \A i \in 1 .. n - 1 : front[i] = s[i]
  <2>1. \A i \in 1 .. n - 1 : s[i] \in S
    BY <1>1
  <2>2. /\ front \in Seq(S)
        /\ Len(front) = IF 1 <= n - 1 THEN (n - 1) - 1 + 1 ELSE 0
        /\ \A i \in 1 .. (n - 1) - 1 + 1 : front[i] = s[1 + i - 1]
    BY <1>1, <2>1, SubSeqProperties
  <2> QED BY <1>1, <2>2
<1>3. /\ back \in Seq(S) /\ Len(back) = Len(s) - n + 1
      /\ \A i \in 1 .. Len(s) - n + 1 : back[i] = s[n + i - 1]
  <2>1. \A i \in n .. Len(s) : s[i] \in S
    BY <1>1
  <2>2. /\ back \in Seq(S)
        /\ Len(back) = IF n <= Len(s) THEN Len(s) - n + 1 ELSE 0
        /\ \A i \in 1 .. Len(s) - n + 1 : back[i] = s[n + i - 1]
    BY <1>1, <2>1, SubSeqProperties
  <2> QED BY <1>1, <2>2
<1> HIDE DEF front, back
<1>4. <<e>> \in Seq(S) /\ Len(<<e>>) = 1 /\ <<e>>[1] = e
  OBVIOUS
<1>5. /\ begin \in Seq(S) /\ Len(begin) = n
      /\ \A i \in 1 .. n : begin[i] = IF i < n THEN s[i] ELSE e
  <2>1. /\ begin \in Seq(S) /\ Len(begin) = Len(front) + 1
        /\ \A i \in 1 .. Len(front) + 1 :
             begin[i] = IF i <= Len(front) THEN front[i] ELSE <<e>>[i - Len(front)]
    BY <1>2, <1>4, ConcatProperties
  <2> QED BY <1>1, <1>2, <1>4, <2>1
<1> HIDE DEF begin
<1>6. /\ begin \o back \in Seq(S) /\ Len(begin \o back) = Len(s) + 1
      /\ \A i \in 1 .. Len(s) + 1 :
           (begin \o back)[i] = IF i <= n THEN begin[i] ELSE back[i - n]
  <2>1. /\ begin \o back \in Seq(S) /\ Len(begin \o back) = Len(begin) + Len(back)
        /\ \A i \in 1 .. Len(begin) + Len(back) :
             (begin \o back)[i] = IF i <= Len(begin) THEN begin[i] ELSE back[i - Len(begin)]
    BY <1>3, <1>5, ConcatProperties
  <2> QED BY <1>1, <1>3, <1>5, <2>1
<1>7. InsertAt(s, n, e) = begin \o back
  BY DEF InsertAt, begin, front, back
<1>8. ASSUME NEW i \in 1 .. Len(s) + 1
      PROVE  (begin \o back)[i] = IF i < n THEN s[i] ELSE IF i = n THEN e ELSE s[i - 1]
  <2>1. CASE i <= n
    BY <1>1, <1>5, <1>6, <2>1
  <2>2. CASE ~(i <= n)
    <3>1. i - n \in 1 .. Len(s) - n + 1 /\ n + (i - n) - 1 = i - 1
      BY <1>1, <2>2
    <3>2. back[i - n] = s[i - 1]
      BY <1>3, <3>1
    <3> QED BY <1>1, <1>6, <2>2, <3>2
  <2> QED BY <2>1, <2>2
<1> QED BY <1>6, <1>7, <1>8

\* What is left at each place when a member of a sequence is taken out.
LEMMA RemoveFirstProperties ==
  ASSUME NEW S, NEW s \in Seq(S), IsInjective(s), NEW n \in 1 .. Len(s)
  PROVE  /\ RemoveFirst(s, s[n]) \in Seq(S)
         /\ Len(RemoveFirst(s, s[n])) = Len(s) - 1
         /\ \A i \in 1 .. Len(s) - 1 :
              RemoveFirst(s, s[n])[i] = IF i < n THEN s[i] ELSE s[i + 1]
<1> DEFINE front == SubSeq(s, 1, n - 1)
           back  == SubSeq(s, n + 1, Len(s))
<1>1. Len(s) \in Nat /\ n \in Nat /\ \A i \in 1 .. Len(s) : s[i] \in S
  BY LenProperties
<1>2. RemoveFirst(s, s[n]) = front \o back
  <2>1. DOMAIN s = 1 .. Len(s)
    BY LenProperties
  <2>2. {i \in 1 .. Len(s) : s[i] = s[n]} = {n}
    BY <2>1 DEF IsInjective
  <2>3. Min({n}) = n
    BY <1>1 DEF Min
  <2>4. SelectInSeq(s, LAMBDA v : v = s[n]) = n
    BY <2>2, <2>3 DEF SelectInSeq
  <2>5. RemoveFirst(s, s[n]) = RemoveAt(s, SelectInSeq(s, LAMBDA v : v = s[n]))
    BY DEF RemoveFirst
  <2> QED BY <2>4, <2>5 DEF RemoveAt
<1>3. /\ front \in Seq(S) /\ Len(front) = n - 1
      /\ \A i \in 1 .. n - 1 : front[i] = s[i]
  <2>1. \A i \in 1 .. n - 1 : s[i] \in S
    BY <1>1
  <2>2. /\ front \in Seq(S)
        /\ Len(front) = IF 1 <= n - 1 THEN (n - 1) - 1 + 1 ELSE 0
        /\ \A i \in 1 .. (n - 1) - 1 + 1 : front[i] = s[1 + i - 1]
    BY <1>1, <2>1, SubSeqProperties
  <2> QED BY <1>1, <2>2
<1>4. /\ back \in Seq(S) /\ Len(back) = Len(s) - n
      /\ \A i \in 1 .. Len(s) - n : back[i] = s[n + i]
  <2>1. \A i \in n + 1 .. Len(s) : s[i] \in S
    BY <1>1
  <2>2. /\ back \in Seq(S)
        /\ Len(back) = IF n + 1 <= Len(s) THEN Len(s) - (n + 1) + 1 ELSE 0
        /\ \A i \in 1 .. Len(s) - (n + 1) + 1 : back[i] = s[(n + 1) + i - 1]
    BY <1>1, <2>1, SubSeqProperties
  <2> QED BY <1>1, <2>2
<1> HIDE DEF front, back
<1>5. /\ front \o back \in Seq(S) /\ Len(front \o back) = Len(s) - 1
      /\ \A i \in 1 .. Len(s) - 1 :
           (front \o back)[i] = IF i <= n - 1 THEN front[i] ELSE back[i - (n - 1)]
  <2>1. /\ front \o back \in Seq(S) /\ Len(front \o back) = Len(front) + Len(back)
        /\ \A i \in 1 .. Len(front) + Len(back) :
             (front \o back)[i] = IF i <= Len(front) THEN front[i] ELSE back[i - Len(front)]
    BY <1>3, <1>4, ConcatProperties
  <2> QED BY <1>1, <1>3, <1>4, <2>1
<1>6. ASSUME NEW i \in 1 .. Len(s) - 1
      PROVE  (front \o back)[i] = IF i < n THEN s[i] ELSE s[i + 1]
  <2>1. CASE i < n
    BY <1>1, <1>3, <1>5, <2>1
  <2>2. CASE ~(i < n)
    <3>1. i - (n - 1) \in 1 .. Len(s) - n /\ n + (i - (n - 1)) = i + 1
      BY <1>1, <2>2
    <3>2. back[i - (n - 1)] = s[i + 1]
      BY <1>4, <3>1
    <3> QED BY <1>1, <1>5, <2>2, <3>2
  <2> QED BY <2>1, <2>2
<1> QED BY <1>2, <1>5, <1>6

\* The members of a list after list_del of one of them.
LEMMA RemoveFirstRange ==
  ASSUME NEW S, NEW s \in Seq(S), IsInjective(s), NEW k \in 1 .. Len(s)
  PROVE  /\ Range(RemoveFirst(s, s[k])) = Range(s) \ {s[k]}
         /\ IsInjective(RemoveFirst(s, s[k]))
<1> DEFINE t == RemoveFirst(s, s[k])
           at(i) == IF i < k THEN i ELSE i + 1
<1>1. /\ Len(s) \in Nat /\ DOMAIN s = 1 .. Len(s)
      /\ \A i, j \in 1 .. Len(s) : s[i] = s[j] => i = j
  BY LenProperties DEF IsInjective
<1>2. /\ t \in Seq(S) /\ Len(t) = Len(s) - 1
      /\ \A i \in 1 .. Len(s) - 1 : t[i] = IF i < k THEN s[i] ELSE s[i + 1]
  BY RemoveFirstProperties
<1>3. DOMAIN t = 1 .. Len(s) - 1
  BY <1>2, LenProperties
<1>4. \A i \in 1 .. Len(s) - 1 : /\ at(i) \in 1 .. Len(s) /\ at(i) # k
                                 /\ t[i] = s[at(i)]
  <2> SUFFICES ASSUME NEW i \in 1 .. Len(s) - 1
               PROVE  at(i) \in 1 .. Len(s) /\ at(i) # k /\ t[i] = s[at(i)]
    OBVIOUS
  <2>1. at(i) \in 1 .. Len(s) /\ at(i) # k
    BY <1>1
  <2> QED BY <1>2, <2>1
<1>5. \A i, j \in 1 .. Len(s) - 1 : at(i) = at(j) => i = j
  BY <1>1
<1>6. \A j \in 1 .. Len(s) : j # k => \E i \in 1 .. Len(s) - 1 : at(i) = j
  <2> SUFFICES ASSUME NEW j \in 1 .. Len(s), j # k
               PROVE  \E i \in 1 .. Len(s) - 1 : at(i) = j
    OBVIOUS
  <2>1. CASE j < k
    <3>1. j \in 1 .. Len(s) - 1 /\ at(j) = j
      BY <1>1, <2>1
    <3> QED BY <3>1
  <2>2. CASE j > k
    <3>1. j - 1 \in 1 .. Len(s) - 1 /\ at(j - 1) = j
      BY <1>1, <2>2
    <3> QED BY <3>1
  <2> QED BY <1>1, <2>1, <2>2
<1> HIDE DEF t, at
<1>7. IsInjective(t)
  BY <1>1, <1>3, <1>4, <1>5 DEF IsInjective
<1>8. Range(t) = Range(s) \ {s[k]}
  <2>1. ASSUME NEW x \in Range(t) PROVE x \in Range(s) \ {s[k]}
    <3>1. PICK i \in 1 .. Len(s) - 1 : t[i] = x
      BY <1>3 DEF Range
    <3> QED BY <1>1, <1>4, <3>1 DEF Range
  <2>2. ASSUME NEW x \in Range(s) \ {s[k]} PROVE x \in Range(t)
    <3>1. PICK j \in 1 .. Len(s) : s[j] = x /\ j # k
      BY <1>1 DEF Range
    <3>2. PICK i \in 1 .. Len(s) - 1 : at(i) = j
      BY <1>6, <3>1
    <3> QED BY <1>3, <1>4, <3>1, <3>2 DEF Range
  <2> QED BY <2>1, <2>2
<1> QED BY <1>7, <1>8 DEF t

=============================================================================
