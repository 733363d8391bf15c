------------------------------ MODULE Recursion ------------------------------
(***************************************************************************)
(* Induction and recursion over the first naturals and over sequences,     *)
(* with sets and functions in place of operators, so that every prover can *)
(* use them.                                                               *)
(***************************************************************************)
EXTENDS Integers, SequencesExt, WellFoundedInduction, SequenceTheorems, TLAPS

(* A set of naturals has a least element.                                  *)
LEMMA LeastNumber == ASSUME NEW T, T \subseteq Nat, T # {} PROVE \E m \in T : \A k \in T : m <= k
<1>1. PICK R : IsWellFoundedOn(R, Nat) /\ \A x, y \in Nat : <<y, x>> \in R <=> y < x
  <2>1. IsWellFoundedOn(OpToRel(<, Nat), Nat)
    BY NatLessThanWellFounded
  <2>2. \A x, y \in Nat : <<y, x>> \in OpToRel(<, Nat) <=> y < x
    BY DEF OpToRel
  <2> QED
    BY <2>1, <2>2
<1>2. PICK m \in T : \A y \in T : ~ (<<y, m>> \in R)
  BY <1>1, WFMin
<1>3. \A k \in T : ~ (k < m)
  BY <1>1, <1>2
<1>4. \A k \in T : m <= k
  BY <1>3
<1> QED
  BY <1>4

(* Induction up to N.                                                      *)
LEMMA IntervalInduction ==
    ASSUME NEW N \in Nat, NEW S, 0 \in S, \A n \in 0 .. N - 1 : n \in S => n + 1 \in S
    PROVE  \A n \in 0 .. N : n \in S
<1> DEFINE T == (0 .. N) \ S
<1> SUFFICES ASSUME T # {} PROVE FALSE
  OBVIOUS
<1>1. PICK m \in T : \A k \in T : m <= k
  <2>1. T \subseteq Nat
    OBVIOUS
  <2> HIDE DEF T
  <2> QED
    BY <2>1, LeastNumber
<1>2. m # 0 /\ m - 1 \in 0 .. N - 1 /\ m - 1 \notin T
  BY <1>1
<1> QED
  BY <1>1, <1>2

(* A function that a recursion describes, and that there is one.           *)
Follows(f, N, base, step) == f[0] = base /\ \A n \in 1 .. N : f[n] = step[n][f[n - 1]]

LEMMA RecursionExists ==
    ASSUME NEW V, NEW N \in Nat, NEW base \in V, NEW step \in [1 .. N -> [V -> V]]
    PROVE  \E f \in [0 .. N -> V] : Follows(f, N, base, step)
<1> DEFINE S == {k \in Nat : \E f \in [0 .. N -> V] : Follows(f, k, base, step)}
<1>1. 0 \in S
  <2>1. [n \in 0 .. N |-> base] \in [0 .. N -> V]
    OBVIOUS
  <2>2. Follows([n \in 0 .. N |-> base], 0, base, step)
    BY DEF Follows
  <2> QED
    BY <2>1, <2>2
<1>2. ASSUME NEW k \in 0 .. N - 1, k \in S PROVE k + 1 \in S
  <2>1. PICK f \in [0 .. N -> V] : Follows(f, k, base, step)
    BY <1>2
  <2>2. PICK v : v = step[k + 1][f[k]]
    OBVIOUS
  <2>3. v \in V
    BY <2>2
  <2>4. PICK g : g = [f EXCEPT ![k + 1] = v]
    OBVIOUS
  <2>5. g \in [0 .. N -> V] /\ g[k + 1] = v /\ \A n \in 0 .. k : g[n] = f[n]
    BY <2>3, <2>4
  <2>6. Follows(g, k + 1, base, step)
    <3>1. g[0] = base
      BY <2>1, <2>5 DEF Follows
    <3>2. ASSUME NEW n \in 1 .. k + 1 PROVE g[n] = step[n][g[n - 1]]
      <4>1. CASE n = k + 1
        BY <2>2, <2>5, <4>1
      <4>2. CASE n # k + 1
        <5>1. n \in 1 .. k /\ n \in 0 .. k /\ n - 1 \in 0 .. k
          BY <4>2
        <5>2. f[n] = step[n][f[n - 1]]
          BY <2>1, <5>1 DEF Follows
        <5> QED
          BY <2>5, <5>1, <5>2
      <4> QED
        BY <4>1, <4>2
    <3> QED
      BY <3>1, <3>2 DEF Follows
  <2> QED
    BY <2>5, <2>6
<1>3. \A k \in 0 .. N : k \in S
  <2> HIDE DEF S
  <2>1. \A k \in 0 .. N - 1 : k \in S => k + 1 \in S
    BY <1>2
  <2> QED
    BY <1>1, <2>1, IntervalInduction
<1> QED
  BY <1>3

-----------------------------------------------------------------------------
(* Sequences, from their end.                                              *)

LEMMA SequenceInduction ==
    ASSUME NEW A, NEW S, <<>> \in S, \A s \in Seq(A) : \A a \in A : s \in S => Append(s, a) \in S
    PROVE  \A s \in Seq(A) : s \in S
<1> SUFFICES ASSUME NEW whole \in Seq(A) PROVE whole \in S
  OBVIOUS
<1>1. PICK N \in Nat : N = Len(whole)
  OBVIOUS
<1> DEFINE T == {n \in 0 .. N : \A s \in Seq(A) : Len(s) = n => s \in S}
<1>2. 0 \in T
  <2>1. ASSUME NEW s \in Seq(A), Len(s) = 0 PROVE s \in S
    <3>1. s = <<>>
      BY <2>1, EmptySeq
    <3> QED
      BY <3>1
  <2> QED
    BY <2>1
<1>3. \A n \in 0 .. N - 1 : n \in T => n + 1 \in T
  <2> TAKE n \in 0 .. N - 1
  <2> HAVE n \in T
  <2>1. ASSUME NEW s \in Seq(A), Len(s) = n + 1 PROVE s \in S
    <3>1. s # <<>>
      <4>1. Len(<<>>) = 0 /\ n + 1 # 0
        OBVIOUS
      <4> QED
        BY <2>1, <4>1
    <3>2. PICK t \in Seq(A), a \in A : s = Append(t, a)
      BY <3>1, SequenceEmptyOrAppend
    <3>3. Len(s) = Len(t) + 1 /\ Len(t) \in Nat
      BY <3>2, AppendProperties
    <3>4. Len(t) = n
      BY <2>1, <3>3
    <3>5. t \in S
      BY <3>4
    <3> QED
      BY <3>2, <3>5
  <2>2. n + 1 \in 0 .. N
    OBVIOUS
  <2> QED
    BY <2>1, <2>2
<1>4. N \in T
  <2> HIDE DEF T
  <2>1. \A n \in 0 .. N : n \in T
    BY <1>2, <1>3, IntervalInduction
  <2> QED
    BY <2>1
<1> QED
  BY <1>1, <1>4

LEMMA FrontLast ==
    ASSUME NEW A, NEW s \in Seq(A), NEW a \in A
    PROVE  /\ Append(s, a) \in Seq(A) /\ Append(s, a) # <<>> /\ Len(Append(s, a)) = Len(s) + 1
           /\ Front(Append(s, a)) = s /\ Last(Append(s, a)) = a
<1>1. PICK n \in Nat, w \in Seq(A) :
          /\ n = Len(s) /\ w = Append(s, a) /\ Len(w) = n + 1 /\ w # <<>> /\ w[n + 1] = a
          /\ \A i \in 1 .. n : w[i] = s[i]
  <2>0. PICK n \in Nat : n = Len(s)
    OBVIOUS
  <2>1. /\ Append(s, a) \in Seq(A) /\ Append(s, a) # <<>> /\ Len(Append(s, a)) = Len(s) + 1
        /\ \A i \in 1 .. Len(s) : Append(s, a)[i] = s[i]
        /\ Append(s, a)[Len(s) + 1] = a
    BY AppendProperties
  <2>2. /\ Append(s, a) \in Seq(A) /\ Append(s, a) # <<>> /\ Len(Append(s, a)) = n + 1
        /\ \A i \in 1 .. n : Append(s, a)[i] = s[i]
        /\ Append(s, a)[n + 1] = a
    BY <2>0, <2>1
  <2> QED
    BY <2>0, <2>2
<1>2. Last(w) = a
  BY <1>1 DEF Last
<1>3. Front(w) = SubSeq(w, 1, n)
  <2>1. Len(w) - 1 = n
    BY <1>1
  <2> QED
    BY <2>1 DEF Front
<1>4. SubSeq(w, 1, n) = s
  <2>1. 1 \in Int /\ n \in Int /\ \A i \in 1 .. n : w[i] \in A
    BY <1>1, ElementOfSeq
  <2>2. /\ SubSeq(w, 1, n) \in Seq(A)
        /\ Len(SubSeq(w, 1, n)) = IF 1 <= n THEN n - 1 + 1 ELSE 0
        /\ \A i \in 1 .. n - 1 + 1 : SubSeq(w, 1, n)[i] = w[1 + i - 1]
    BY <2>1, SubSeqProperties
  <2>3. (IF 1 <= n THEN n - 1 + 1 ELSE 0) = n /\ n - 1 + 1 = n /\ \A i \in 1 .. n : 1 + i - 1 = i
    BY <1>1
  <2>4. PICK v \in Seq(A) : v = SubSeq(w, 1, n) /\ Len(v) = n /\ \A i \in 1 .. n : v[i] = s[i]
    BY <1>1, <2>2, <2>3
  <2>5. v = s
    BY <1>1, <2>4, SeqEqual
  <2> QED
    BY <2>4, <2>5
<1> QED
  BY <1>1, <1>2, <1>3, <1>4

LEMMA ConcatAppend ==
    ASSUME NEW A, NEW s \in Seq(A), NEW t \in Seq(A), NEW a \in A
    PROVE  s \o Append(t, a) = Append(s \o t, a) /\ s \o t \in Seq(A)
<1>1. Append(t, a) = t \o <<a>> /\ <<a>> \in Seq(A)
  BY AppendIsConcat
<1>2. s \o t \in Seq(A)
  BY ConcatProperties
<1>3. Append(s \o t, a) = (s \o t) \o <<a>>
  BY <1>2, AppendIsConcat
<1>4. (s \o t) \o <<a>> = s \o (t \o <<a>>)
  BY <1>1, ConcatAssociative
<1> QED
  BY <1>1, <1>2, <1>3, <1>4

(* Two that recur alike are the same.                                      *)
LEMMA Alike ==
    ASSUME NEW N \in Nat, NEW f, NEW g, f[0] = g[0], \A n \in 1 .. N : f[n - 1] = g[n - 1] => f[n] = g[n]
    PROVE  f[N] = g[N]
<1> DEFINE S == {n \in 0 .. N : f[n] = g[n]}
<1>1. 0 \in S
  OBVIOUS
<1>2. \A n \in 0 .. N - 1 : n \in S => n + 1 \in S
  <2> TAKE n \in 0 .. N - 1
  <2> HAVE n \in S
  <2>1. n + 1 \in 1 .. N /\ n + 1 \in 0 .. N /\ (n + 1) - 1 = n /\ f[n] = g[n]
    OBVIOUS
  <2>2. f[(n + 1) - 1] = g[(n + 1) - 1]
    BY <2>1
  <2>3. f[n + 1] = g[n + 1]
    BY <2>1, <2>2
  <2> QED
    BY <2>1, <2>3
<1>3. N \in S
  <2> HIDE DEF S
  <2>1. \A n \in 0 .. N : n \in S
    BY <1>1, <1>2, IntervalInduction
  <2> QED
    BY <2>1
<1> QED
  BY <1>3

(* A set that a function does not leave.                                   *)
LEMMA StaysIn ==
    ASSUME NEW N \in Nat, NEW V, NEW f, f[0] \in V, \A n \in 1 .. N : f[n - 1] \in V => f[n] \in V
    PROVE  \A n \in 0 .. N : f[n] \in V
<1> DEFINE S == {n \in 0 .. N : f[n] \in V}
<1>1. 0 \in S
  OBVIOUS
<1>2. \A n \in 0 .. N - 1 : n \in S => n + 1 \in S
  <2> TAKE n \in 0 .. N - 1
  <2> HAVE n \in S
  <2>1. n + 1 \in 1 .. N /\ n + 1 \in 0 .. N /\ (n + 1) - 1 = n /\ f[n] \in V
    OBVIOUS
  <2>2. f[n + 1] \in V
    BY <2>1
  <2> QED
    BY <2>1, <2>2
<1> HIDE DEF S
<1>3. \A n \in 0 .. N : n \in S
  BY <1>1, <1>2, IntervalInduction
<1> QED
  BY <1>3 DEF S

(* The concatenation of texts, one after the other.                        *)
LEMMA FlattenFacts ==
    ASSUME NEW A, NEW ws \in Seq(Seq(A))
    PROVE  \E g \in [0 .. Len(ws) -> Seq(A)] :
               /\ g[0] = <<>> /\ g[Len(ws)] = FlattenSeq(ws)
               /\ \A i \in 1 .. Len(ws) : g[i] = g[i - 1] \o ws[i]
<1>1. PICK N \in Nat : N = Len(ws) /\ \A i \in 1 .. N : ws[i] \in Seq(A)
  BY ElementOfSeq
<1>2. <<>> \in Seq(A)
  OBVIOUS
<1>3. PICK step : step = [i \in 1 .. N |-> [t \in Seq(A) |-> t \o ws[i]]]
  OBVIOUS
<1>4. step \in [1 .. N -> [Seq(A) -> Seq(A)]]
  BY <1>1, <1>3, ConcatProperties
<1>5. PICK g \in [0 .. N -> Seq(A)] : Follows(g, N, <<>>, step)
  BY <1>2, <1>4, RecursionExists
<1>6. g[0] = <<>> /\ \A i \in 1 .. N : g[i] = g[i - 1] \o ws[i]
  <2>1. ASSUME NEW i \in 1 .. N PROVE g[i] = g[i - 1] \o ws[i]
    <3>1. g[i] = step[i][g[i - 1]] /\ g[i - 1] \in Seq(A)
      BY <1>5 DEF Follows
    <3> QED
      BY <1>3, <3>1
  <2> QED
    BY <1>5, <2>1 DEF Follows
<1>7. g[N] = FlattenSeq(ws)
  <2>1. CASE N = 0
    <3>1. FlattenSeq(ws) = ws
      BY <1>1, <2>1 DEF FlattenSeq
    <3>2. ws = <<>>
      BY <1>1, <2>1, EmptySeq
    <3> QED
      BY <1>6, <2>1, <3>1, <3>2
  <2>2. CASE N > 0
    <3>1. PICK k : k = [i \in 1 .. N |-> g[i]]
      OBVIOUS
    <3>2. ASSUME NEW i \in 1 .. N PROVE k[i] = IF i = 1 THEN ws[i] ELSE k[i - 1] \o ws[i]
      <4>1. CASE i = 1
        <5>0. 1 \in 1 .. N /\ 1 - 1 = 0
          BY <2>2
        <5>1. g[1] = g[0] \o ws[1] /\ ws[1] \in Seq(A) /\ g[0] = <<>>
          BY <1>1, <1>6, <5>0
        <5>2. <<>> \o ws[1] = ws[1]
          BY <5>1, ConcatEmptySeq
        <5> QED
          BY <3>1, <4>1, <5>1, <5>2
      <4>2. CASE i # 1
        <5>1. i - 1 \in 1 .. N
          BY <4>2
        <5> QED
          BY <1>6, <3>1, <4>2, <5>1
      <4> QED
        BY <4>1, <4>2
    <3>3. k = [i \in 1 .. N |-> IF i = 1 THEN ws[i] ELSE k[i - 1] \o ws[i]]
      BY <3>1, <3>2
    <3>4. PICK h : /\ FlattenSeq(ws) = h[N]
                   /\ h = [i \in 1 .. N |-> IF i = 1 THEN ws[i] ELSE h[i - 1] \o ws[i]]
      <4>1. FlattenSeq(ws) = (CHOOSE h : h = [i \in 1 .. N |-> IF i = 1 THEN ws[i] ELSE h[i - 1] \o ws[i]])[N]
        BY <1>1, <2>2 DEF FlattenSeq
      <4>2. \E h : h = [i \in 1 .. N |-> IF i = 1 THEN ws[i] ELSE h[i - 1] \o ws[i]]
        BY <3>3
      <4> QED
        BY <4>1, <4>2
    <3>5. \A i \in 1 .. N : h[i] = IF i = 1 THEN ws[i] ELSE h[i - 1] \o ws[i]
      BY <3>4
    <3> DEFINE S == {i \in 0 .. N : i = 0 \/ h[i] = k[i]}
    <3>6. 0 \in S
      OBVIOUS
    <3>7. \A i \in 0 .. N - 1 : i \in S => i + 1 \in S
      <4> TAKE i \in 0 .. N - 1
      <4> HAVE i \in S
      <4>1. i + 1 \in 1 .. N /\ i + 1 \in 0 .. N /\ (i + 1) - 1 = i /\ (i + 1 = 1 <=> i = 0)
            /\ (i = 0 \/ h[i] = k[i])
        OBVIOUS
      <4>2. h[i + 1] = k[i + 1]
        BY <3>2, <3>5, <4>1
      <4> QED
        BY <4>1, <4>2
    <3>8. N \in S
      <4> HIDE DEF S
      <4>1. \A i \in 0 .. N : i \in S
        BY <3>6, <3>7, IntervalInduction
      <4> QED
        BY <4>1
    <3>9. h[N] = k[N]
      BY <2>2, <3>8 DEF S
    <3>10. k[N] = g[N]
      BY <2>2, <3>1
    <3> QED
      BY <3>4, <3>9, <3>10
  <2> QED
    BY <2>1, <2>2
<1> QED
  BY <1>1, <1>5, <1>6, <1>7

(* A function on the naturals whose value at d is a first part and, if     *)
(* there is more, the value at a place nearer to the end.                  *)
Descends(f, more, first, nxt) == f = [d \in Nat |-> IF d \in more THEN first[d] \o f[nxt[d]] ELSE first[d]]

(* It comes to an end.                                                     *)
LinksDown(A, more, first, nxt) ==
    /\ more \subseteq Nat /\ first \in [Nat -> Seq(A)] /\ nxt \in [Nat -> Nat]
    /\ \E bound \in Nat : \E far \in [Nat -> 0 .. bound] : \A d \in more : far[nxt[d]] < far[d]

IsDescent(f, A, more, first, nxt) == LinksDown(A, more, first, nxt) /\ Descends(f, more, first, nxt)

LEMMA DescentExists ==
    ASSUME NEW A, NEW more, NEW first, NEW nxt, LinksDown(A, more, first, nxt)
    PROVE  \E f : Descends(f, more, first, nxt)
<1> more \subseteq Nat /\ first \in [Nat -> Seq(A)] /\ nxt \in [Nat -> Nat]
  BY DEF LinksDown
<1>a. PICK bound \in Nat : \E far \in [Nat -> 0 .. bound] : \A d \in more : far[nxt[d]] < far[d]
  BY DEF LinksDown
<1> PICK far \in [Nat -> 0 .. bound] : \A d \in more : far[nxt[d]] < far[d]
  BY <1>a
<1>0. PICK V : V = [Nat -> Seq(A)]
  OBVIOUS
<1>1. PICK turn : turn = [f \in V |-> [d \in Nat |-> IF d \in more THEN first[d] \o f[nxt[d]] ELSE first[d]]]
  OBVIOUS
<1>2. turn \in [V -> V] /\ first \in V
  <2>1. ASSUME NEW f \in V, NEW d \in Nat PROVE first[d] \o f[nxt[d]] \in Seq(A) /\ first[d] \in Seq(A)
    <3>1. first[d] \in Seq(A) /\ f[nxt[d]] \in Seq(A)
      BY <1>0
    <3> QED
      BY <3>1, ConcatProperties
  <2>2. ASSUME NEW f \in V
        PROVE  [d \in Nat |-> IF d \in more THEN first[d] \o f[nxt[d]] ELSE first[d]] \in [Nat -> Seq(A)]
    BY <2>1
  <2> QED
    BY <1>0, <1>1, <2>2
<1>3. PICK N \in Nat : N = bound + 2
  OBVIOUS
<1>4. PICK g \in [0 .. N -> V] : g[0] = first /\ \A n \in 1 .. N : g[n] = turn[g[n - 1]]
  <2>1. PICK step : step = [n \in 1 .. N |-> turn]
    OBVIOUS
  <2>2. step \in [1 .. N -> [V -> V]]
    BY <1>2, <2>1
  <2>3. PICK g \in [0 .. N -> V] : Follows(g, N, first, step)
    BY <1>2, <2>2, RecursionExists
  <2> QED
    BY <2>1, <2>3 DEF Follows
<1>5. ASSUME NEW n \in 0 .. N - 1, NEW d \in Nat
      PROVE  g[n + 1][d] = IF d \in more THEN first[d] \o g[n][nxt[d]] ELSE first[d]
  <2>1. n + 1 \in 1 .. N /\ (n + 1) - 1 = n /\ g[n] \in V
    BY <1>3
  <2>2. g[n + 1] = turn[g[n]]
    BY <1>4, <2>1
  <2> QED
    BY <1>1, <2>1, <2>2
<1>6. PICK S : S = {n \in 0 .. bound + 1 : \A d \in Nat : far[d] < n => g[n + 1][d] = g[n][d]}
  OBVIOUS
<1>7. 0 \in S
  <2>1. ASSUME NEW d \in Nat PROVE ~ (far[d] < 0)
    <3>1. far[d] \in 0 .. bound
      OBVIOUS
    <3> QED
      BY <3>1
  <2> QED
    BY <1>6, <2>1
<1>8. \A n \in 0 .. (bound + 1) - 1 : n \in S => n + 1 \in S
  <2>0. (bound + 1) - 1 = bound /\ \A n \in 0 .. bound : n + 1 \in 0 .. bound + 1
    OBVIOUS
  <2> SUFFICES ASSUME NEW n \in 0 .. bound, n \in S, NEW d \in Nat, far[d] < n + 1
               PROVE  g[(n + 1) + 1][d] = g[n + 1][d]
    BY <1>6, <2>0
  <2>1. n \in 0 .. N - 1 /\ n + 1 \in 0 .. N - 1
    BY <1>3
  <2>2. CASE d \in more
    <3>1. nxt[d] \in Nat /\ far[nxt[d]] < far[d] /\ far[nxt[d]] \in 0 .. bound /\ far[d] \in 0 .. bound
      BY <2>2
    <3>2. far[nxt[d]] < n
      BY <3>1
    <3>3. g[n + 1][nxt[d]] = g[n][nxt[d]]
      BY <1>6, <3>1, <3>2
    <3> QED
      BY <1>5, <2>1, <2>2, <3>3
  <2>3. CASE d \notin more
    BY <1>5, <2>1, <2>3
  <2> QED
    BY <2>2, <2>3
<1>9. bound + 1 \in S
  <2>1. bound + 1 \in Nat
    OBVIOUS
  <2>2. \A n \in 0 .. bound + 1 : n \in S
    BY <1>7, <1>8, <2>1, IntervalInduction
  <2> QED
    BY <2>1, <2>2
<1>10. PICK f \in V : f = g[bound + 1]
  <2>1. bound + 1 \in 0 .. N
    BY <1>3
  <2> QED
    BY <2>1
<1>11. ASSUME NEW d \in Nat PROVE f[d] = IF d \in more THEN first[d] \o f[nxt[d]] ELSE first[d]
  <2>1. far[d] < bound + 1
    <3>1. far[d] \in 0 .. bound
      OBVIOUS
    <3> QED
      BY <3>1
  <2>2. g[(bound + 1) + 1][d] = g[bound + 1][d]
    BY <1>6, <1>9, <2>1
  <2>3. bound + 1 \in 0 .. N - 1
    BY <1>3
  <2> QED
    BY <1>5, <1>10, <2>2, <2>3
<1>12. f = [d \in Nat |-> f[d]]
  BY <1>0, <1>10
<1>13. f = [d \in Nat |-> IF d \in more THEN first[d] \o f[nxt[d]] ELSE first[d]]
  BY <1>11, <1>12
<1> QED
  BY <1>13 DEF Descends

(* Every such function has sequences as values.                            *)
Unfolds(f, A, more, first, nxt) ==
    \A c \in Nat : f[c] \in Seq(A) /\ f[c] = IF c \in more THEN first[c] \o f[nxt[c]] ELSE first[c]

LEMMA DescentFacts ==
    ASSUME NEW A, NEW more, NEW first, NEW nxt, NEW f, IsDescent(f, A, more, first, nxt)
    PROVE  Unfolds(f, A, more, first, nxt)
<1> SUFFICES \A c \in Nat : f[c] \in Seq(A) /\ f[c] = IF c \in more THEN first[c] \o f[nxt[c]] ELSE first[c]
  BY DEF Unfolds
<1> LinksDown(A, more, first, nxt) /\ Descends(f, more, first, nxt)
  BY DEF IsDescent
<1> more \subseteq Nat /\ first \in [Nat -> Seq(A)] /\ nxt \in [Nat -> Nat]
  BY DEF LinksDown
<1>a. PICK bound \in Nat : \E far \in [Nat -> 0 .. bound] : \A d \in more : far[nxt[d]] < far[d]
  BY DEF LinksDown
<1> PICK far \in [Nat -> 0 .. bound] : \A d \in more : far[nxt[d]] < far[d]
  BY <1>a
<1> TAKE c \in Nat
<1>1. \A d \in Nat : f[d] = IF d \in more THEN first[d] \o f[nxt[d]] ELSE first[d]
  BY DEF Descends
<1>2. PICK S : S = {n \in 0 .. bound + 1 : \A d \in Nat : far[d] < n => f[d] \in Seq(A)}
  OBVIOUS
<1>3. 0 \in S
  <2>1. ASSUME NEW d \in Nat PROVE ~ (far[d] < 0)
    <3>1. far[d] \in 0 .. bound
      OBVIOUS
    <3> QED
      BY <3>1
  <2> QED
    BY <1>2, <2>1
<1>4. \A n \in 0 .. (bound + 1) - 1 : n \in S => n + 1 \in S
  <2>0. (bound + 1) - 1 = bound /\ \A n \in 0 .. bound : n + 1 \in 0 .. bound + 1
    OBVIOUS
  <2> SUFFICES ASSUME NEW n \in 0 .. bound, n \in S, NEW d \in Nat, far[d] < n + 1 PROVE f[d] \in Seq(A)
    BY <1>2, <2>0
  <2>1. first[d] \in Seq(A)
    OBVIOUS
  <2>2. CASE d \in more
    <3>1. nxt[d] \in Nat /\ far[nxt[d]] < far[d] /\ far[nxt[d]] \in 0 .. bound /\ far[d] \in 0 .. bound
      BY <2>2
    <3>2. far[nxt[d]] < n
      BY <3>1
    <3>3. f[nxt[d]] \in Seq(A)
      BY <1>2, <3>1, <3>2
    <3>4. first[d] \o f[nxt[d]] \in Seq(A)
      BY <2>1, <3>3, ConcatProperties
    <3> QED
      BY <1>1, <2>2, <3>4
  <2>3. CASE d \notin more
    BY <1>1, <2>1, <2>3
  <2> QED
    BY <2>2, <2>3
<1>5. bound + 1 \in S
  <2>1. bound + 1 \in Nat
    OBVIOUS
  <2>2. \A n \in 0 .. bound + 1 : n \in S
    BY <1>3, <1>4, <2>1, IntervalInduction
  <2> QED
    BY <2>1, <2>2
<1>6. far[c] \in 0 .. bound
  OBVIOUS
<1>7. f[c] \in Seq(A)
  BY <1>2, <1>5, <1>6
<1> QED
  BY <1>1, <1>7

=============================================================================
