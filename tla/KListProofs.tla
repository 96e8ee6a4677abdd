---------------------------- MODULE KListProofs ----------------------------
(***************************************************************************)
(* What the list operations do to a bank of lists in which every entry is  *)
(* linked at most once.                                                    *)
(***************************************************************************)
EXTENDS KList, SequenceTheorems, TLAPS

(* A list without repetitions, membership, and a bank without repetitions. *)
Inj(s) == \A k, l \in DOMAIN s : s[k] = s[l] => k = l
In(s, e) == \E k \in DOMAIN s : s[k] = e
Apart(b) ==
    /\ \A i \in DOMAIN b : Inj(b[i])
    /\ \A i, j \in DOMAIN b : \A e : In(b[i], e) /\ In(b[j], e) => i = j
Absent(b, e) == \A i \in DOMAIN b : ~In(b[i], e)

LEMMA WithoutElements ==
    ASSUME NEW T, NEW s \in Seq(T), NEW k \in DOMAIN s
    PROVE  /\ Without(s, k) \in Seq(T)
           /\ Len(Without(s, k)) = Len(s) - 1
           /\ \A j \in 1 .. Len(s) - 1 :
                  Without(s, k)[j] = IF j < k THEN s[j] ELSE s[j + 1]
<1> DEFINE a == SubSeq(s, 1, k - 1)
           c == SubSeq(s, k + 1, Len(s))
<1>1. k \in 1 .. Len(s) /\ Len(s) \in Nat
  OBVIOUS
<1>2. a \in Seq(T) /\ Len(a) = k - 1 /\ \A j \in 1 .. k - 1 : a[j] = s[j]
  BY <1>1
<1>3. c \in Seq(T) /\ Len(c) = Len(s) - k /\ \A j \in 1 .. Len(s) - k : c[j] = s[k + j]
  BY <1>1
<1>4. Without(s, k) = a \o c
  BY DEF Without
<1> HIDE DEF a, c
<1>5. a \o c \in Seq(T) /\ Len(a \o c) = Len(s) - 1
  BY <1>1, <1>2, <1>3
<1>6. ASSUME NEW j \in 1 .. Len(s) - 1
      PROVE  (a \o c)[j] = IF j < k THEN s[j] ELSE s[j + 1]
  <2>1. CASE j < k
    BY <1>1, <1>2, <1>3, <2>1
  <2>2. CASE ~(j < k)
    <3>1. (a \o c)[j] = c[j - (k - 1)]
      <4>1. j \in 1 .. Len(a) + Len(c) /\ ~(j <= Len(a)) /\ Len(a) = k - 1
        BY <1>1, <1>2, <1>3, <2>2
      <4>2. (a \o c)[j] = c[j - Len(a)]
        BY ConcatProperties, <1>2, <1>3, <4>1
      <4> QED BY <4>1, <4>2
    <3>2. c[j - (k - 1)] = s[j + 1]
      BY <1>1, <1>3, <2>2
    <3> QED BY <3>1, <3>2, <2>2
  <2> QED BY <2>1, <2>2, Zenon
<1> QED BY <1>4, <1>5, <1>6

LEMMA UnlinkElements ==
    ASSUME NEW T, NEW s \in Seq(T), Inj(s), NEW e
    PROVE  /\ Unlink(s, e) \in Seq(T)
           /\ Inj(Unlink(s, e))
           /\ \A x : In(Unlink(s, e), x) <=> In(s, x) /\ x # e
<1>1. CASE At(s, e) = {}
  BY <1>1 DEF Unlink, At, In
<1>2. CASE At(s, e) # {}
  <2> DEFINE k == CHOOSE k \in At(s, e) : TRUE
             u == Without(s, k)
             n == Len(s)
  <2>1. k \in At(s, e)
    BY <1>2
  <2>2. k \in DOMAIN s /\ s[k] = e /\ n \in Nat /\ DOMAIN s = 1 .. n /\ k \in 1 .. n
    BY <2>1 DEF At
  <2>3. Unlink(s, e) = u
    BY <1>2 DEF Unlink
  <2> HIDE DEF k
  <2>4. /\ u \in Seq(T) /\ Len(u) = n - 1
        /\ \A j \in 1 .. n - 1 : u[j] = IF j < k THEN s[j] ELSE s[j + 1]
    BY <2>2, WithoutElements, Zenon
  <2> HIDE DEF u, n
  <2>5. DOMAIN u = 1 .. n - 1
    BY <2>4
  <2>6. Inj(u)
    <3> SUFFICES ASSUME NEW i \in 1 .. n - 1, NEW j \in 1 .. n - 1, u[i] = u[j]
                 PROVE  i = j
      BY <2>5 DEF Inj
    <3> DEFINE f(m) == IF m < k THEN m ELSE m + 1
    <3>1. f(i) \in 1 .. n /\ f(j) \in 1 .. n /\ u[i] = s[f(i)] /\ u[j] = s[f(j)]
      BY <2>2, <2>4
    <3>2. f(i) = f(j)
      BY <3>1, <2>2, Zenon DEF Inj
    <3> QED BY <3>2, <2>2
  <2>7. ASSUME NEW x, In(u, x) PROVE In(s, x) /\ x # e
    <3>1. PICK j \in 1 .. n - 1 : u[j] = x
      BY <2>5, <2>7 DEF In
    <3>2. CASE j < k
      <4>1. j \in 1 .. n /\ j # k /\ s[j] = x
        BY <2>2, <2>4, <3>1, <3>2
      <4> QED BY <4>1, <2>2 DEF In, Inj
    <3>3. CASE ~(j < k)
      <4>1. j + 1 \in 1 .. n /\ j + 1 # k /\ s[j + 1] = x
        BY <2>2, <2>4, <3>1, <3>3
      <4> QED BY <4>1, <2>2 DEF In, Inj
    <3> QED BY <3>2, <3>3
  <2>8. ASSUME NEW x, In(s, x), x # e PROVE In(u, x)
    <3>1. PICK j \in 1 .. n : s[j] = x
      BY <2>2, <2>8 DEF In
    <3>2. j # k
      BY <2>2, <2>8, <3>1
    <3>3. CASE j < k
      <4>1. j \in 1 .. n - 1 /\ u[j] = x
        BY <2>2, <2>4, <3>1, <3>3
      <4> QED BY <4>1, <2>5 DEF In
    <3>4. CASE j > k
      <4>1. j - 1 \in 1 .. n - 1 /\ u[j - 1] = x
        BY <2>2, <2>4, <3>1, <3>4
      <4> QED BY <4>1, <2>5 DEF In
    <3> QED BY <3>2, <3>3, <3>4, <2>2
  <2> QED BY <2>3, <2>4, <2>6, <2>7, <2>8
<1> QED BY <1>1, <1>2

LEMMA AppendElements ==
    ASSUME NEW T, NEW s \in Seq(T), NEW e \in T
    PROVE  /\ Append(s, e) \in Seq(T)
           /\ Inj(s) /\ ~In(s, e) => Inj(Append(s, e))
           /\ \A x : In(Append(s, e), x) <=> In(s, x) \/ x = e
<1> DEFINE n == Len(s)
           a == Append(s, e)
<1>1. /\ a \in Seq(T) /\ n \in Nat /\ DOMAIN s = 1 .. n /\ DOMAIN a = 1 .. n + 1
      /\ a[n + 1] = e /\ \A j \in 1 .. n : a[j] = s[j]
  BY AppendProperties
<1> HIDE DEF n, a
<1>2. Inj(s) /\ ~In(s, e) => Inj(a)
  <2> SUFFICES ASSUME Inj(s), ~In(s, e), NEW i \in 1 .. n + 1, NEW j \in 1 .. n + 1,
                      a[i] = a[j]
               PROVE  i = j
    BY <1>1 DEF Inj
  <2>1. CASE i \in 1 .. n /\ j \in 1 .. n
    BY <1>1, <2>1 DEF Inj
  <2>2. CASE i = n + 1 /\ j \in 1 .. n
    BY <1>1, <2>2 DEF In
  <2>3. CASE j = n + 1 /\ i \in 1 .. n
    BY <1>1, <2>3 DEF In
  <2> QED BY <1>1, <2>1, <2>2, <2>3
<1>3. ASSUME NEW x, In(a, x) PROVE In(s, x) \/ x = e
  <2>1. PICK j \in 1 .. n + 1 : a[j] = x
    BY <1>1, <1>3 DEF In
  <2>2. j \in 1 .. n \/ j = n + 1
    BY <1>1
  <2> QED BY <1>1, <2>1, <2>2 DEF In
<1>4. ASSUME NEW x, In(s, x) PROVE In(a, x)
  <2>1. PICK j \in 1 .. n : s[j] = x
    BY <1>1, <1>4 DEF In
  <2>2. j \in 1 .. n + 1 /\ a[j] = x
    BY <1>1, <2>1
  <2> QED BY <1>1, <2>2 DEF In
<1>5. In(a, e)
  <2>1. n + 1 \in 1 .. n + 1
    BY <1>1
  <2> QED BY <1>1, <2>1 DEF In
<1> QED BY <1>1, <1>2, <1>3, <1>4, <1>5 DEF a

LEMMA PrependElements ==
    ASSUME NEW T, NEW s \in Seq(T), NEW e \in T
    PROVE  /\ <<e>> \o s \in Seq(T)
           /\ Inj(s) /\ ~In(s, e) => Inj(<<e>> \o s)
           /\ \A x : In(<<e>> \o s, x) <=> In(s, x) \/ x = e
<1> DEFINE n == Len(s)
           a == <<e>> \o s
<1>1. /\ a \in Seq(T) /\ n \in Nat /\ DOMAIN s = 1 .. n /\ DOMAIN a = 1 .. n + 1
      /\ a[1] = e /\ \A j \in 2 .. n + 1 : a[j] = s[j - 1]
  <2>1. <<e>> \in Seq(T) /\ Len(<<e>>) = 1 /\ <<e>>[1] = e
    OBVIOUS
  <2>2. /\ a \in Seq(T) /\ Len(a) = 1 + n
        /\ \A i \in 1 .. 1 + n : a[i] = IF i <= 1 THEN <<e>>[i] ELSE s[i - 1]
    BY <2>1, ConcatProperties
  <2> HIDE DEF a
  <2> QED BY <2>1, <2>2
<1> HIDE DEF n, a
<1>2. Inj(s) /\ ~In(s, e) => Inj(a)
  <2> SUFFICES ASSUME Inj(s), ~In(s, e), NEW i \in 1 .. n + 1, NEW j \in 1 .. n + 1,
                      a[i] = a[j]
               PROVE  i = j
    BY <1>1 DEF Inj
  <2>1. CASE i # 1 /\ j # 1
    <3>1. i - 1 \in 1 .. n /\ j - 1 \in 1 .. n /\ s[i - 1] = s[j - 1]
      BY <1>1, <2>1
    <3>2. i - 1 = j - 1
      BY <1>1, <3>1, Zenon DEF Inj
    <3> QED BY <3>2
  <2>2. CASE i = 1 /\ j # 1
    <3>1. j - 1 \in 1 .. n /\ s[j - 1] = e
      BY <1>1, <2>2
    <3> QED BY <1>1, <3>1 DEF In
  <2>3. CASE j = 1 /\ i # 1
    <3>1. i - 1 \in 1 .. n /\ s[i - 1] = e
      BY <1>1, <2>3
    <3> QED BY <1>1, <3>1, Zenon DEF In
  <2> QED BY <2>1, <2>2, <2>3
<1>3. ASSUME NEW x, In(a, x) PROVE In(s, x) \/ x = e
  <2>1. PICK j \in 1 .. n + 1 : a[j] = x
    BY <1>1, <1>3 DEF In
  <2>2. CASE j # 1
    <3>1. j - 1 \in 1 .. n /\ s[j - 1] = x
      BY <1>1, <2>1, <2>2
    <3> QED BY <1>1, <3>1 DEF In
  <2> QED BY <1>1, <2>1, <2>2
<1>4. ASSUME NEW x, In(s, x) PROVE In(a, x)
  <2>1. PICK j \in 1 .. n : s[j] = x
    BY <1>1, <1>4 DEF In
  <2>2. j + 1 \in 1 .. n + 1 /\ a[j + 1] = x
    BY <1>1, <2>1
  <2> QED BY <1>1, <2>2 DEF In
<1>5. In(a, e)
  <2>1. 1 \in 1 .. n + 1
    BY <1>1
  <2> QED BY <1>1, <2>1 DEF In
<1> QED BY <1>1, <1>2, <1>3, <1>4, <1>5 DEF a

(* Unlinking from a bank: the entry is gone, nothing else moves. *)
LEMMA ListDel ==
    ASSUME NEW D, NEW T, NEW b \in [D -> Seq(T)], Apart(b), NEW e
    PROVE  /\ list_del(b, e) \in [D -> Seq(T)]
           /\ Apart(list_del(b, e))
           /\ \A i \in D : \A x : In(list_del(b, e)[i], x) <=> In(b[i], x) /\ x # e
<1> DEFINE d == list_del(b, e)
<1>1. DOMAIN b = D /\ d = [i \in D |-> Unlink(b[i], e)]
  BY DEF list_del
<1>2. ASSUME NEW i \in D
      PROVE  /\ d[i] \in Seq(T) /\ Inj(d[i])
             /\ \A x : In(d[i], x) <=> In(b[i], x) /\ x # e
  <2>1. b[i] \in Seq(T) /\ Inj(b[i])
    BY <1>1 DEF Apart
  <2>2. d[i] = Unlink(b[i], e)
    BY <1>1
  <2> QED BY <2>1, <2>2, UnlinkElements
<1> HIDE DEF d
<1>3. d \in [D -> Seq(T)] /\ DOMAIN d = D
  BY <1>1, <1>2
<1>4. Apart(d)
  BY <1>1, <1>2, <1>3 DEF Apart
<1> QED BY <1>2, <1>3, <1>4 DEF d

(* Linking an entry that is nowhere in the bank, at either end of a list.  *)
LEMMA ListAdd ==
    ASSUME NEW D, NEW T, NEW b \in [D -> Seq(T)], Apart(b), NEW e \in T,
           NEW i0 \in D, Absent(b, e),
           NEW d, d \in {list_add(b, i0, e), list_add_tail(b, i0, e)}
    PROVE  /\ d \in [D -> Seq(T)]
           /\ Apart(d)
           /\ \A i \in D : \A x : In(d[i], x) <=> In(b[i], x) \/ (i = i0 /\ x = e)
<1>1. DOMAIN b = D
  OBVIOUS
<1>2. /\ \A i \in D : i # i0 => d[i] = b[i]
      /\ d[i0] \in {<<e>> \o b[i0], Append(b[i0], e)}
      /\ DOMAIN d = D /\ d = [i \in D |-> d[i]]
  BY <1>1 DEF list_add, list_add_tail
<1>3. ASSUME NEW i \in D
      PROVE  /\ d[i] \in Seq(T) /\ Inj(d[i])
             /\ \A x : In(d[i], x) <=> In(b[i], x) \/ (i = i0 /\ x = e)
  <2>1. b[i] \in Seq(T) /\ Inj(b[i]) /\ ~In(b[i], e)
    BY <1>1 DEF Apart, Absent
  <2>2. CASE i = i0
    <3>1. CASE d[i] = <<e>> \o b[i]
      BY <2>1, <2>2, <3>1, PrependElements
    <3>2. CASE d[i] = Append(b[i], e)
      BY <2>1, <2>2, <3>2, AppendElements
    <3> QED BY <1>2, <2>2, <3>1, <3>2
  <2>3. CASE i # i0
    BY <1>2, <2>1, <2>3
  <2> QED BY <2>2, <2>3
<1>4. d \in [D -> Seq(T)]
  BY <1>2, <1>3
<1>5. Apart(d)
  <2>1. ASSUME NEW i \in D, NEW j \in D, NEW x, In(d[i], x), In(d[j], x)
        PROVE  i = j
    <3>1. In(b[i], x) \/ (i = i0 /\ x = e)
      BY <1>3, <2>1
    <3>2. In(b[j], x) \/ (j = i0 /\ x = e)
      BY <1>3, <2>1
    <3>3. CASE x = e
      BY <1>1, <3>1, <3>2, <3>3 DEF Absent
    <3>4. CASE x # e
      BY <1>1, <3>1, <3>2, <3>4 DEF Apart
    <3> QED BY <3>3, <3>4
  <2> QED BY <1>2, <1>3, <2>1 DEF Apart
<1> QED BY <1>3, <1>4, <1>5

LEMMA ListAddHead ==
    ASSUME NEW D, NEW T, NEW b \in [D -> Seq(T)], Apart(b), NEW e \in T,
           NEW i0 \in D, Absent(b, e)
    PROVE  /\ list_add(b, i0, e) \in [D -> Seq(T)]
           /\ Apart(list_add(b, i0, e))
           /\ \A i \in D : \A x :
                  In(list_add(b, i0, e)[i], x) <=> In(b[i], x) \/ (i = i0 /\ x = e)
<1>1. list_add(b, i0, e) \in {list_add(b, i0, e), list_add_tail(b, i0, e)}
  OBVIOUS
<1> QED BY <1>1, ListAdd, Zenon

LEMMA ListAddTail ==
    ASSUME NEW D, NEW T, NEW b \in [D -> Seq(T)], Apart(b), NEW e \in T,
           NEW i0 \in D, Absent(b, e)
    PROVE  /\ list_add_tail(b, i0, e) \in [D -> Seq(T)]
           /\ Apart(list_add_tail(b, i0, e))
           /\ \A i \in D : \A x :
                  In(list_add_tail(b, i0, e)[i], x) <=> In(b[i], x) \/ (i = i0 /\ x = e)
<1>1. list_add_tail(b, i0, e) \in {list_add(b, i0, e), list_add_tail(b, i0, e)}
  OBVIOUS
<1> QED BY <1>1, ListAdd, Zenon
=============================================================================
