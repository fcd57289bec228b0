------------------------------ MODULE LogProofs ------------------------------
(***************************************************************************)
(* The log keeps every message it accepted, once and in order: for any      *)
(* number of threads, messages, buffers and files, and every policy.        *)
(***************************************************************************)
EXTENDS AsyncLog, FiniteSetTheorems, SequenceTheorems, TLAPS

-----------------------------------------------------------------------------
(* Induction over the numbers and over sequences, as facts about sets: a set *)
(* that holds the first and with each its next holds all.  Both follow from  *)
(* the order of the finite sets being well-founded.                          *)

LEMMA NatSet == ASSUME NEW S, 0 \in S, \A n \in Nat : n \in S => n + 1 \in S PROVE Nat \subseteq S
<1> DEFINE T == Nat \ S
           U == {1 .. n : n \in T}
           R == StrictSubsetOrdering(Nat)
<1>1. SUFFICES ASSUME T # {} PROVE FALSE
  OBVIOUS
<1>2. U \subseteq FiniteSubsetsOf(Nat) /\ U # {}
  <2>1. \A n \in Nat : IsFiniteSet(1 .. n)
    BY FS_Interval
  <2>2. QED
    BY <1>1, <2>1 DEF FiniteSubsetsOf
<1>3. IsWellFoundedOn(R, FiniteSubsetsOf(Nat))
  BY FS_StrictSubsetOrderingWellFounded
<1> HIDE DEF U, R
<1>4. PICK u \in U : \A v \in U : ~(<<v, u>> \in R)
  BY <1>2, <1>3, WFMin
<1>5. PICK x \in T : u = 1 .. x
  BY DEF U
<1>6. x - 1 \in T
  BY <1>5
<1>7. 1 .. x - 1 \in U
  BY <1>6 DEF U
<1>8. 1 .. x - 1 \subseteq 1 .. x /\ 1 .. x - 1 # 1 .. x
  BY <1>5
<1>9. <<1 .. x - 1, 1 .. x>> \in R
  BY <1>8, <1>5 DEF R, StrictSubsetOrdering
<1>10. QED
  BY <1>4, <1>5, <1>7, <1>9


LEMMA FrontAndLast == ASSUME NEW S, NEW s \in Seq(S), s # <<>>
                      PROVE \E f \in Seq(S), e \in S : s = Append(f, e) /\ Len(f) = Len(s) - 1
<1> DEFINE n == Len(s)
           f == [i \in 1 .. n - 1 |-> s[i]]
<1>1. n \in Nat \ {0} /\ s[n] \in S
  BY EmptySeq, LenProperties, ElementOfSeq
<1>2. f \in Seq(S) /\ Len(f) = n - 1
  BY <1>1, LenProperties, ElementOfSeq
<1>3. s = Append(f, s[n])
  <2>1. Append(f, s[n]) \in Seq(S) /\ Len(Append(f, s[n])) = n
    BY <1>1, <1>2
  <2>2. \A i \in 1 .. n : Append(f, s[n])[i] = s[i]
    BY <1>1, <1>2
  <2>3. QED
    BY <2>1, <2>2, SeqEqual
<1>4. QED
  BY <1>1, <1>2, <1>3

LEMMA SeqSet == ASSUME NEW S, NEW T, <<>> \in T, \A s \in Seq(S) : s \in T => \A e \in S : Append(s, e) \in T
                PROVE Seq(S) \subseteq T
<1> DEFINE U == {n \in Nat : \A s \in Seq(S) : Len(s) = n => s \in T}
<1>1. 0 \in U
  <2>1. \A s \in Seq(S) : Len(s) = 0 => s = <<>>
    BY EmptySeq
  <2>2. QED
    BY <2>1
<1>2. ASSUME NEW n \in Nat, n \in U PROVE n + 1 \in U
  <2>1. ASSUME NEW s \in Seq(S), Len(s) = n + 1 PROVE s \in T
    <3>1. s # <<>>
      BY <2>1, EmptySeq
    <3>2. PICK f \in Seq(S), e \in S : s = Append(f, e) /\ Len(f) = Len(s) - 1
      BY <3>1, FrontAndLast
    <3>3. f \in T
      BY <1>2, <2>1, <3>2
    <3>4. QED
      BY <3>2, <3>3
  <2>2. QED
    BY <2>1
<1>3. Nat \subseteq U
  <2> HIDE DEF U
  <2>1. QED
    BY <1>1, <1>2, NatSet
<1>4. QED
  BY <1>3, LenProperties

-----------------------------------------------------------------------------
(* Without(s, D) exists, and is what its recursion says.                     *)

RestAt(f, s, D, i) == IF i = 0 THEN <<>> ELSE IF s[i] \in D THEN f[i - 1] ELSE Append(f[i - 1], s[i])
IsRest(f, n, s, D) == \A i \in 0 .. n : f[i] = RestAt(f, s, D, i)

LEMMA RestExists == ASSUME NEW s, NEW D, NEW m \in Nat
                    PROVE \E f : f = [i \in 0 .. m |-> f[i]] /\ IsRest(f, m, s, D)
<1> DEFINE T == {n \in Nat : \E f : f = [i \in 0 .. n |-> f[i]] /\ IsRest(f, n, s, D)}
<1>1. 0 \in T
  <2> DEFINE g == [i \in 0 .. 0 |-> <<>>]
  <2>1. g = [i \in 0 .. 0 |-> g[i]] /\ IsRest(g, 0, s, D)
    BY DEF IsRest, RestAt
  <2>2. QED
    BY <2>1
<1>2. ASSUME NEW n \in Nat, n \in T PROVE n + 1 \in T
  <2>1. PICK f : f = [i \in 0 .. n |-> f[i]] /\ IsRest(f, n, s, D)
    BY <1>2
  <2> DEFINE g == [i \in 0 .. n + 1 |-> IF i <= n THEN f[i] ELSE RestAt(f, s, D, i)]
  <2>2. \A i \in 0 .. n : g[i] = f[i]
    OBVIOUS
  <2>3. ASSUME NEW i \in 0 .. n + 1 PROVE g[i] = RestAt(g, s, D, i)
    <3>1. g[i] = RestAt(f, s, D, i)
      BY <2>1 DEF IsRest
    <3>2. RestAt(f, s, D, i) = RestAt(g, s, D, i)
      BY <2>2 DEF RestAt
    <3>3. QED
      BY <3>1, <3>2
  <2>4. IsRest(g, n + 1, s, D) /\ g = [i \in 0 .. n + 1 |-> g[i]]
    BY <2>3 DEF IsRest
  <2>5. QED
    BY <2>4
<1>3. QED
  <2>1. Nat \subseteq T
    BY <1>1, <1>2, NatSet
  <2>2. QED
    BY <2>1

LEMMA WithoutDef == ASSUME NEW s, NEW D, Len(s) \in Nat
                    PROVE \E f : IsRest(f, Len(s), s, D) /\ Without(s, D) = f[Len(s)]
<1> DEFINE n == Len(s)
           E(f, i) == IF i = 0 THEN <<>> ELSE IF s[i] \in D THEN f[i - 1] ELSE Append(f[i - 1], s[i])
           r == CHOOSE f : f = [i \in 0 .. n |-> E(f, i)]
<1>1. PICK g : g = [i \in 0 .. n |-> g[i]] /\ IsRest(g, n, s, D)
  BY RestExists
<1>2. \A i \in 0 .. n : g[i] = E(g, i)
  BY <1>1 DEF IsRest, RestAt
<1>3. g = [i \in 0 .. n |-> E(g, i)]
  BY <1>1, <1>2
<1>4. r = [i \in 0 .. n |-> E(r, i)]
  BY <1>3
<1>5. IsRest(r, n, s, D)
  <2> HIDE DEF r, n
  <2>1. \A i \in 0 .. n : r[i] = E(r, i)
    <3> HIDE DEF E
    <3>1. QED
      BY <1>4
  <2>2. QED
    BY <2>1 DEF IsRest, RestAt
<1>6. Without(s, D) = r[n]
  BY DEF Without
<1>7. QED
  BY <1>5, <1>6

LEMMA RestUnique ==
    ASSUME NEW f, NEW g, NEW n \in Nat, NEW m \in Nat, m <= n, NEW s, NEW t, NEW D, IsRest(f, n, s, D), IsRest(g, m, t, D),
           \A i \in 1 .. m : s[i] = t[i]
    PROVE  f[m] = g[m]
<1> DEFINE T == {k \in Nat : k <= m => f[k] = g[k]}
<1>1. 0 \in T
  BY DEF IsRest, RestAt
<1>2. ASSUME NEW k \in Nat, k \in T PROVE k + 1 \in T
  <2>1. SUFFICES ASSUME k + 1 <= m PROVE f[k + 1] = g[k + 1]
    OBVIOUS
  <2>2. f[k] = g[k] /\ s[k + 1] = t[k + 1]
    BY <1>2, <2>1
  <2>3. f[k + 1] = RestAt(f, s, D, k + 1) /\ g[k + 1] = RestAt(g, t, D, k + 1)
    BY <2>1 DEF IsRest
  <2>4. QED
    BY <2>2, <2>3 DEF RestAt
<1>3. Nat \subseteq T
  <2> HIDE DEF T
  <2>1. QED
    BY <1>1, <1>2, NatSet
<1>4. QED
  BY <1>3

LEMMA WithoutEmpty == ASSUME NEW D PROVE Without(<<>>, D) = <<>>
<1>1. PICK f : IsRest(f, Len(<<>>), <<>>, D) /\ Without(<<>>, D) = f[Len(<<>>)]
  BY WithoutDef
<1>2. QED
  BY <1>1 DEF IsRest, RestAt

LEMMA WithoutAppend ==
    ASSUME NEW S, NEW s \in Seq(S), NEW e \in S, NEW D
    PROVE  Without(Append(s, e), D) = IF e \in D THEN Without(s, D) ELSE Append(Without(s, D), e)
<1> DEFINE t == Append(s, e)
           n == Len(s)
<1>1. t \in Seq(S) /\ n \in Nat /\ Len(t) = n + 1 /\ t[n + 1] = e /\ \A i \in 1 .. n : t[i] = s[i]
  OBVIOUS
<1> HIDE DEF t
<1>2. PICK g : IsRest(g, n, s, D) /\ Without(s, D) = g[n]
  BY <1>1, WithoutDef
<1>3. PICK f : IsRest(f, n + 1, t, D) /\ Without(t, D) = f[n + 1]
  BY <1>1, WithoutDef
<1>4. f[n] = g[n]
  BY <1>1, <1>2, <1>3, RestUnique
<1>5. f[n + 1] = IF e \in D THEN f[n] ELSE Append(f[n], e)
  BY <1>1, <1>3 DEF IsRest, RestAt
<1>6. QED
  BY <1>2, <1>3, <1>4, <1>5 DEF t

-----------------------------------------------------------------------------
(* The members of a sequence, and what Without leaves of them.               *)

LEMMA MembersEmpty == ToSet(<<>>) = {}
BY DEF ToSet

LEMMA MembersOf == ASSUME NEW S, NEW s \in Seq(S) PROVE ToSet(s) \subseteq S
BY DEF ToSet

LEMMA MembersOne == ASSUME NEW e PROVE ToSet(<<e>>) = {e}
BY DEF ToSet

LEMMA MembersAppend ==
    ASSUME NEW S, NEW s \in Seq(S), NEW e \in S
    PROVE  ToSet(Append(s, e)) = ToSet(s) \cup {e}
<1> DEFINE u == Append(s, e)
<1>1. Len(s) \in Nat /\ DOMAIN u = 1 .. Len(s) + 1 /\ DOMAIN s = 1 .. Len(s) /\ u[Len(s) + 1] = e
  OBVIOUS
<1>2. \A i \in 1 .. Len(s) : u[i] = s[i]
  OBVIOUS
<1> HIDE DEF u
<1>3. \A i \in DOMAIN u : i \in 1 .. Len(s) \/ i = Len(s) + 1
  BY <1>1
<1>4. QED
  BY <1>1, <1>2, <1>3 DEF ToSet, u

LEMMA MembersConcat ==
    ASSUME NEW S, NEW s \in Seq(S), NEW t \in Seq(S)
    PROVE  ToSet(s \o t) = ToSet(s) \cup ToSet(t)
<1> DEFINE u == s \o t
<1>1. u \in Seq(S) /\ Len(u) = Len(s) + Len(t) /\ Len(s) \in Nat /\ Len(t) \in Nat
  OBVIOUS
<1>2. \A i \in 1 .. Len(s) : u[i] = s[i]
  BY ConcatProperties
<1>3. \A i \in 1 .. Len(t) : u[i + Len(s)] = t[i]
  BY ConcatProperties
<1>4. DOMAIN u = 1 .. Len(s) + Len(t) /\ DOMAIN s = 1 .. Len(s) /\ DOMAIN t = 1 .. Len(t)
  BY <1>1
<1> HIDE DEF u
<1>5. ToSet(s) \subseteq ToSet(u)
  BY <1>1, <1>2, <1>4 DEF ToSet
<1>6. ASSUME NEW i \in DOMAIN t PROVE t[i] \in ToSet(u)
  <2>1. i + Len(s) \in DOMAIN u /\ u[i + Len(s)] = t[i]
    BY <1>1, <1>3, <1>4
  <2>2. QED
    BY <2>1 DEF ToSet
<1>7. ASSUME NEW i \in DOMAIN u PROVE u[i] \in ToSet(s) \cup ToSet(t)
  <2>1. CASE i <= Len(s)
    BY <1>1, <1>2, <1>4, <2>1 DEF ToSet
  <2>2. CASE i > Len(s)
    <3>1. i - Len(s) \in 1 .. Len(t) /\ (i - Len(s)) + Len(s) = i
      BY <1>1, <1>4, <2>2
    <3>2. u[i] = t[i - Len(s)]
      BY <1>3, <3>1
    <3>3. QED
      BY <3>1, <3>2, <1>4 DEF ToSet
  <2>3. QED
    BY <1>1, <1>4, <2>1, <2>2
<1>8. ToSet(t) \subseteq ToSet(u)
  BY <1>6 DEF ToSet
<1>9. ToSet(u) \subseteq ToSet(s) \cup ToSet(t)
  BY <1>7 DEF ToSet
<1>10. QED
  BY <1>5, <1>8, <1>9 DEF u

LEMMA OnceInBoth ==
    ASSUME NEW S, NEW s \in Seq(S), NEW t \in Seq(S)
    PROVE  IsInjective(s \o t) <=> IsInjective(s) /\ IsInjective(t) /\ ToSet(s) \cap ToSet(t) = {}
<1> DEFINE u == s \o t
<1>1. u \in Seq(S) /\ Len(u) = Len(s) + Len(t) /\ Len(s) \in Nat /\ Len(t) \in Nat
  OBVIOUS
<1>2. \A i \in 1 .. Len(s) : u[i] = s[i]
  BY ConcatProperties
<1>3. \A i \in 1 .. Len(t) : u[i + Len(s)] = t[i]
  BY ConcatProperties
<1>4. DOMAIN u = 1 .. Len(s) + Len(t) /\ DOMAIN s = 1 .. Len(s) /\ DOMAIN t = 1 .. Len(t)
  BY <1>1
<1> HIDE DEF u
<1>5. \A i \in 1 .. Len(t) : i + Len(s) \in DOMAIN u /\ i + Len(s) \notin DOMAIN s
  BY <1>1, <1>4
<1>6. DOMAIN s \subseteq DOMAIN u
  BY <1>1, <1>4
<1>7. ASSUME IsInjective(u) PROVE IsInjective(s) /\ IsInjective(t) /\ ToSet(s) \cap ToSet(t) = {}
  <2>1. IsInjective(s)
    BY <1>7, <1>2, <1>4, <1>6 DEF IsInjective
  <2>2. IsInjective(t)
    <3>1. ASSUME NEW i \in DOMAIN t, NEW j \in DOMAIN t, t[i] = t[j] PROVE i = j
      <4>1. u[i + Len(s)] = u[j + Len(s)]
        BY <1>3, <1>4, <3>1
      <4>2. i + Len(s) = j + Len(s)
        BY <1>4, <1>5, <1>7, <4>1 DEF IsInjective
      <4>3. QED
        BY <1>1, <1>4, <4>2
    <3>2. QED
      BY <3>1 DEF IsInjective
  <2>3. ASSUME NEW i \in DOMAIN s, NEW j \in DOMAIN t, s[i] = t[j] PROVE FALSE
    <3>1. u[i] = u[j + Len(s)]
      BY <1>2, <1>3, <1>4, <2>3
    <3>2. QED
      BY <1>4, <1>5, <1>6, <1>7, <3>1 DEF IsInjective
  <2>4. QED
    BY <2>1, <2>2, <2>3 DEF ToSet
<1>8. ASSUME IsInjective(s), IsInjective(t), ToSet(s) \cap ToSet(t) = {} PROVE IsInjective(u)
  <2>1. \A i \in DOMAIN s, j \in DOMAIN t : s[i] # t[j]
    BY <1>8 DEF ToSet
  <2>2. \A i \in DOMAIN u : i \in DOMAIN s \/ (i - Len(s) \in DOMAIN t /\ u[i] = t[i - Len(s)])
    <3> TAKE i \in DOMAIN u
    <3>1. CASE i <= Len(s)
      BY <1>1, <1>4, <3>1
    <3>2. CASE i > Len(s)
      <4>1. i - Len(s) \in 1 .. Len(t) /\ (i - Len(s)) + Len(s) = i
        BY <1>1, <1>4, <3>2
      <4>2. QED
        BY <1>3, <1>4, <4>1
    <3>3. QED
      BY <1>1, <1>4, <3>1, <3>2
  <2>3. ASSUME NEW i \in DOMAIN u, NEW j \in DOMAIN u, u[i] = u[j] PROVE i = j
    <3>1. CASE i \in DOMAIN s /\ j \in DOMAIN s
      BY <1>2, <1>4, <1>8, <2>3, <3>1 DEF IsInjective
    <3>2. CASE i \notin DOMAIN s /\ j \notin DOMAIN s
      <4>1. i - Len(s) = j - Len(s)
        BY <2>2, <2>3, <3>2, <1>8 DEF IsInjective
      <4>2. QED
        BY <4>1, <1>1, <1>4
    <3>3. CASE i \in DOMAIN s /\ j \notin DOMAIN s
      BY <1>2, <1>4, <2>1, <2>2, <2>3, <3>3
    <3>4. CASE i \notin DOMAIN s /\ j \in DOMAIN s
      BY <1>2, <1>4, <2>1, <2>2, <2>3, <3>4
    <3>5. QED
      BY <3>1, <3>2, <3>3, <3>4
  <2>4. QED
    BY <2>3 DEF IsInjective
<1>9. QED
  BY <1>7, <1>8 DEF u

LEMMA WithoutMembers ==
    ASSUME NEW S, NEW s \in Seq(S), NEW D
    PROVE  Without(s, D) \in Seq(S) /\ ToSet(Without(s, D)) = ToSet(s) \ D
<1> DEFINE T == {x \in Seq(S) : Without(x, D) \in Seq(S) /\ ToSet(Without(x, D)) = ToSet(x) \ D}
<1>1. <<>> \in T
  <2>1. Without(<<>>, D) = <<>> /\ ToSet(<<>>) = {} /\ <<>> \in Seq(S)
    BY WithoutEmpty, MembersEmpty, EmptySeq
  <2>2. QED
    BY <2>1
<1>2. ASSUME NEW x \in Seq(S), x \in T, NEW e \in S PROVE Append(x, e) \in T
  <2>1. Append(x, e) \in Seq(S) /\ ToSet(Append(x, e)) = ToSet(x) \cup {e}
    BY MembersAppend
  <2>2. ToSet(Append(Without(x, D), e)) = ToSet(Without(x, D)) \cup {e}
    BY <1>2, MembersAppend
  <2>3. Without(Append(x, e), D) = IF e \in D THEN Without(x, D) ELSE Append(Without(x, D), e)
    BY WithoutAppend
  <2>4. Without(Append(x, e), D) \in Seq(S)
    BY <1>2, <2>3
  <2>5. ToSet(Without(Append(x, e), D)) = ToSet(Append(x, e)) \ D
    <3>1. ToSet(Without(x, D)) = ToSet(x) \ D
      BY <1>2
    <3>2. CASE e \in D
      BY <3>1, <3>2, <2>1, <2>3
    <3>3. CASE e \notin D
      BY <3>1, <3>3, <2>1, <2>2, <2>3
    <3>4. QED
      BY <3>2, <3>3
  <2>6. QED
    BY <2>1, <2>4, <2>5
<1>3. Seq(S) \subseteq T
  <2> HIDE DEF T
  <2>1. QED
    BY <1>1, <1>2, SeqSet
<1>4. QED
  BY <1>3

LEMMA WithoutConcat ==
    ASSUME NEW S, NEW s \in Seq(S), NEW t \in Seq(S), NEW D
    PROVE  Without(s \o t, D) = Without(s, D) \o Without(t, D)
<1> DEFINE T == {x \in Seq(S) : Without(s \o x, D) = Without(s, D) \o Without(x, D)}
           W == Without(s, D)
<1>1. <<>> \in T
  <2>1. s \o <<>> = s /\ W \o <<>> = W
    BY WithoutMembers, ConcatEmptySeq
  <2>2. QED
    BY <2>1, WithoutEmpty, EmptySeq
<1>2. ASSUME NEW x \in Seq(S), x \in T, NEW e \in S PROVE Append(x, e) \in T
  <2>1. s \o Append(x, e) = Append(s \o x, e) /\ s \o x \in Seq(S)
    OBVIOUS
  <2>2. Without(Append(s \o x, e), D) = IF e \in D THEN Without(s \o x, D) ELSE Append(Without(s \o x, D), e)
    BY <2>1, WithoutAppend
  <2>3. Without(Append(x, e), D) = IF e \in D THEN Without(x, D) ELSE Append(Without(x, D), e)
    BY WithoutAppend
  <2>4. W \in Seq(S) /\ Without(x, D) \in Seq(S)
    BY WithoutMembers
  <2>5. W \o Append(Without(x, D), e) = Append(W \o Without(x, D), e)
    BY <2>4
  <2>6. Append(x, e) \in Seq(S)
    OBVIOUS
  <2>7. QED
    BY <1>2, <2>1, <2>2, <2>3, <2>5, <2>6
<1>3. Seq(S) \subseteq T
  <2> HIDE DEF T
  <2>1. QED
    BY <1>1, <1>2, SeqSet
<1>4. QED
  BY <1>3

\* Sets that agree on the members of s leave the same of it.
LEMMA WithoutSame ==
    ASSUME NEW S, NEW s \in Seq(S), NEW D, NEW E, ToSet(s) \cap D = ToSet(s) \cap E
    PROVE  Without(s, D) = Without(s, E)
<1> DEFINE T == {x \in Seq(S) : ToSet(x) \cap D = ToSet(x) \cap E => Without(x, D) = Without(x, E)}
<1>1. <<>> \in T
  BY WithoutEmpty
<1>2. ASSUME NEW x \in Seq(S), x \in T, NEW e \in S PROVE Append(x, e) \in T
  <2>1. Append(x, e) \in Seq(S) /\ ToSet(Append(x, e)) = ToSet(x) \cup {e}
    BY MembersAppend
  <2>2. SUFFICES ASSUME ToSet(Append(x, e)) \cap D = ToSet(Append(x, e)) \cap E
                 PROVE  Without(Append(x, e), D) = Without(Append(x, e), E)
    BY <2>1
  <2>3. Without(x, D) = Without(x, E) /\ (e \in D <=> e \in E)
    BY <1>2, <2>1, <2>2
  <2>4. /\ Without(Append(x, e), D) = IF e \in D THEN Without(x, D) ELSE Append(Without(x, D), e)
        /\ Without(Append(x, e), E) = IF e \in E THEN Without(x, E) ELSE Append(Without(x, E), e)
    BY WithoutAppend
  <2>5. QED
    BY <2>3, <2>4
<1>3. Seq(S) \subseteq T
  <2> HIDE DEF T
  <2>1. QED
    BY <1>1, <1>2, SeqSet
<1>4. QED
  BY <1>3

LEMMA WithoutAll ==
    ASSUME NEW S, NEW s \in Seq(S), NEW D, ToSet(s) \subseteq D
    PROVE  Without(s, D) = <<>>
<1> DEFINE w == Without(s, D)
<1>1. w \in Seq(S) /\ ToSet(w) = {}
  BY WithoutMembers
<1> HIDE DEF w
<1>2. DOMAIN w = {}
  BY <1>1 DEF ToSet
<1>3. DOMAIN w = 1 .. Len(w) /\ Len(w) \in Nat
  BY <1>1
<1>4. Len(w) = 0
  BY <1>2, <1>3
<1>5. QED
  BY <1>1, <1>4, EmptySeq DEF w

LEMMA WithoutNone ==
    ASSUME NEW S, NEW s \in Seq(S), NEW D, ToSet(s) \cap D = {}
    PROVE  Without(s, D) = s
<1> DEFINE T == {x \in Seq(S) : Without(x, {}) = x}
<1>1. <<>> \in T
  BY WithoutEmpty
<1>2. ASSUME NEW x \in Seq(S), x \in T, NEW e \in S PROVE Append(x, e) \in T
  BY <1>2, WithoutAppend
<1>3. Seq(S) \subseteq T
  <2> HIDE DEF T
  <2>1. QED
    BY <1>1, <1>2, SeqSet
<1>4. Without(s, {}) = s
  BY <1>3
<1>5. QED
  BY <1>4, WithoutSame

LEMMA WithoutTwice ==
    ASSUME NEW S, NEW s \in Seq(S), NEW D, NEW E
    PROVE  Without(Without(s, D), E) = Without(s, D \cup E)
<1> DEFINE T == {x \in Seq(S) : Without(Without(x, D), E) = Without(x, D \cup E)}
<1>1. <<>> \in T
  BY WithoutEmpty
<1>2. ASSUME NEW x \in Seq(S), x \in T, NEW e \in S PROVE Append(x, e) \in T
  <2>1. Without(x, D) \in Seq(S)
    BY WithoutMembers
  <2>2. Without(Append(x, e), D) = IF e \in D THEN Without(x, D) ELSE Append(Without(x, D), e)
    BY WithoutAppend
  <2>3. Without(Append(Without(x, D), e), E)
          = IF e \in E THEN Without(Without(x, D), E) ELSE Append(Without(Without(x, D), E), e)
    BY <2>1, WithoutAppend
  <2>4. Without(Append(x, e), D \cup E) = IF e \in D \cup E THEN Without(x, D \cup E) ELSE Append(Without(x, D \cup E), e)
    BY WithoutAppend
  <2>5. Append(x, e) \in Seq(S)
    OBVIOUS
  <2>6. QED
    BY <1>2, <2>2, <2>3, <2>4, <2>5
<1>3. Seq(S) \subseteq T
  <2> HIDE DEF T
  <2>1. QED
    BY <1>1, <1>2, SeqSet
<1>4. QED
  BY <1>3

-----------------------------------------------------------------------------
(* FlattenSeq(s) exists, and is what its recursion says.                     *)

\* f collects the parts of s one after the other.
CollectsAt(f, s, i) == IF i = 1 THEN s[i] ELSE f[i - 1] \o s[i]
Collects(f, s, n) == \A i \in 1 .. n : f[i] = CollectsAt(f, s, i)

LEMMA CollectsExists == ASSUME NEW s, NEW m \in Nat
                        PROVE \E f : f = [i \in 1 .. m |-> f[i]] /\ Collects(f, s, m)
<1> DEFINE T == {n \in Nat : \E f : f = [i \in 1 .. n |-> f[i]] /\ Collects(f, s, n)}
<1>1. 0 \in T
  <2> DEFINE g == [i \in 1 .. 0 |-> <<>>]
  <2>1. g = [i \in 1 .. 0 |-> g[i]] /\ Collects(g, s, 0)
    BY DEF Collects
  <2>2. QED
    BY <2>1
<1>2. ASSUME NEW n \in Nat, n \in T PROVE n + 1 \in T
  <2>1. PICK f : f = [i \in 1 .. n |-> f[i]] /\ Collects(f, s, n)
    BY <1>2
  <2> DEFINE g == [i \in 1 .. n + 1 |-> IF i <= n THEN f[i] ELSE CollectsAt(f, s, i)]
  <2>2. \A i \in 1 .. n : g[i] = f[i]
    OBVIOUS
  <2>3. ASSUME NEW i \in 1 .. n + 1 PROVE g[i] = CollectsAt(g, s, i)
    <3>1. g[i] = CollectsAt(f, s, i)
      BY <2>1 DEF Collects
    <3>2. CollectsAt(f, s, i) = CollectsAt(g, s, i)
      BY <2>2 DEF CollectsAt
    <3>3. QED
      BY <3>1, <3>2
  <2>4. Collects(g, s, n + 1) /\ g = [i \in 1 .. n + 1 |-> g[i]]
    BY <2>3 DEF Collects
  <2>5. QED
    BY <2>4
<1>3. QED
  <2>1. Nat \subseteq T
    BY <1>1, <1>2, NatSet
  <2>2. QED
    BY <2>1

LEMMA FlattenDef == ASSUME NEW s, Len(s) \in Nat, Len(s) # 0
                    PROVE \E f : Collects(f, s, Len(s)) /\ FlattenSeq(s) = f[Len(s)]
<1> DEFINE n == Len(s)
           E(f, i) == IF i = 1 THEN s[i] ELSE f[i - 1] \o s[i]
           r == CHOOSE f : f = [i \in 1 .. n |-> E(f, i)]
<1>1. PICK g : g = [i \in 1 .. n |-> g[i]] /\ Collects(g, s, n)
  BY CollectsExists
<1>2. \A i \in 1 .. n : g[i] = E(g, i)
  BY <1>1 DEF Collects, CollectsAt
<1>3. g = [i \in 1 .. n |-> E(g, i)]
  BY <1>1, <1>2
<1>4. r = [i \in 1 .. n |-> E(r, i)]
  BY <1>3
<1>5. Collects(r, s, n)
  <2> HIDE DEF r, n
  <2>1. \A i \in 1 .. n : r[i] = E(r, i)
    <3> HIDE DEF E
    <3>1. QED
      BY <1>4
  <2>2. QED
    BY <2>1 DEF Collects, CollectsAt
<1>6. FlattenSeq(s) = r[n]
  BY DEF FlattenSeq
<1>7. QED
  BY <1>5, <1>6

LEMMA CollectsUnique ==
    ASSUME NEW f, NEW g, NEW n \in Nat, NEW m \in Nat, m <= n, NEW s, NEW t, Collects(f, s, n), Collects(g, t, m),
           \A i \in 1 .. m : s[i] = t[i], m # 0
    PROVE  f[m] = g[m]
<1> DEFINE T == {k \in Nat : k + 1 <= m => f[k + 1] = g[k + 1]}
<1>1. 0 \in T
  BY DEF Collects, CollectsAt
<1>2. ASSUME NEW k \in Nat, k \in T PROVE k + 1 \in T
  <2>1. SUFFICES ASSUME k + 2 <= m PROVE f[k + 2] = g[k + 2]
    OBVIOUS
  <2>2. f[k + 1] = g[k + 1] /\ s[k + 2] = t[k + 2]
    BY <1>2, <2>1
  <2>3. f[k + 2] = f[k + 1] \o s[k + 2] /\ g[k + 2] = g[k + 1] \o t[k + 2]
    <3>1. f[k + 2] = CollectsAt(f, s, k + 2) /\ g[k + 2] = CollectsAt(g, t, k + 2)
      BY <2>1 DEF Collects
    <3>2. k + 2 # 1 /\ (k + 2) - 1 = k + 1
      OBVIOUS
    <3>3. QED
      BY <3>1, <3>2 DEF CollectsAt
  <2>4. QED
    BY <2>2, <2>3
<1>3. Nat \subseteq T
  <2> HIDE DEF T
  <2>1. QED
    BY <1>1, <1>2, NatSet
<1>4. m - 1 \in T
  BY <1>3
<1>5. QED
  BY <1>4

LEMMA FlattenEmpty == FlattenSeq(<<>>) = <<>>
BY DEF FlattenSeq

LEMMA FlattenOne == ASSUME NEW S, NEW x \in Seq(S) PROVE FlattenSeq(<<x>>) = x
<1>1. Len(<<x>>) = 1 /\ <<x>>[1] = x
  OBVIOUS
<1> DEFINE s == <<x>>
<1> HIDE DEF s
<1>2. Len(s) = 1 /\ s[1] = x /\ Len(s) \in Nat /\ Len(s) # 0
  BY <1>1 DEF s
<1>3. PICK f : Collects(f, s, Len(s)) /\ FlattenSeq(s) = f[Len(s)]
  BY <1>2, FlattenDef
<1>4. QED
  BY <1>2, <1>3 DEF Collects, CollectsAt, s

LEMMA FlattenAppend ==
    ASSUME NEW S, NEW s \in Seq(Seq(S)), NEW x \in Seq(S)
    PROVE  FlattenSeq(Append(s, x)) = FlattenSeq(s) \o x
<1> DEFINE t == Append(s, x)
           n == Len(s)
<1>1. t \in Seq(Seq(S)) /\ n \in Nat /\ Len(t) = n + 1 /\ t[n + 1] = x /\ \A i \in 1 .. n : t[i] = s[i]
  OBVIOUS
<1>2. CASE s = <<>>
  <2>1. t = <<x>> /\ <<>> \o x = x
    BY <1>2, ConcatEmptySeq
  <2>2. QED
    BY <1>2, <2>1, FlattenEmpty, FlattenOne
<1>3. CASE s # <<>>
  <2>1. n # 0
    BY <1>3, EmptySeq
  <2> HIDE DEF t
  <2>2. PICK g : Collects(g, s, n) /\ FlattenSeq(s) = g[n]
    BY <1>1, <2>1, FlattenDef
  <2>3. PICK f : Collects(f, t, n + 1) /\ FlattenSeq(t) = f[n + 1]
    BY <1>1, FlattenDef
  <2>4. f[n] = g[n]
    <3>1. Collects(f, t, n + 1) /\ Collects(g, s, n) /\ n + 1 \in Nat /\ n <= n + 1 /\ n \in Nat
      BY <1>1, <2>2, <2>3
    <3> HIDE DEF n
    <3>2. QED
      BY <1>1, <2>1, <3>1, CollectsUnique
  <2>5. f[n + 1] = f[n] \o x
    <3>1. f[n + 1] = CollectsAt(f, t, n + 1)
      BY <1>1, <2>3 DEF Collects
    <3>2. n + 1 # 1 /\ (n + 1) - 1 = n
      BY <1>1, <2>1
    <3>3. QED
      BY <1>1, <3>1, <3>2 DEF CollectsAt
  <2>6. QED
    BY <2>2, <2>3, <2>4, <2>5 DEF t
<1>4. QED
  BY <1>2, <1>3

LEMMA FlattenType == ASSUME NEW S, NEW s \in Seq(Seq(S)) PROVE FlattenSeq(s) \in Seq(S)
<1> DEFINE T == {x \in Seq(Seq(S)) : FlattenSeq(x) \in Seq(S)}
<1>1. <<>> \in T
  <2>1. <<>> \in Seq(S) /\ <<>> \in Seq(Seq(S))
    BY EmptySeq
  <2>2. QED
    BY <2>1, FlattenEmpty
<1>2. ASSUME NEW x \in Seq(Seq(S)), x \in T, NEW e \in Seq(S) PROVE Append(x, e) \in T
  <2>1. FlattenSeq(x) \o e \in Seq(S)
    BY <1>2, ConcatProperties
  <2>2. FlattenSeq(Append(x, e)) = FlattenSeq(x) \o e /\ Append(x, e) \in Seq(Seq(S))
    BY FlattenAppend
  <2>3. QED
    BY <2>1, <2>2
<1>3. Seq(Seq(S)) \subseteq T
  <2> HIDE DEF T
  <2>1. QED
    BY <1>1, <1>2, SeqSet
<1>4. QED
  BY <1>3

LEMMA FlattenConcat ==
    ASSUME NEW S, NEW s \in Seq(Seq(S)), NEW t \in Seq(Seq(S))
    PROVE  FlattenSeq(s \o t) = FlattenSeq(s) \o FlattenSeq(t)
<1> DEFINE T == {x \in Seq(Seq(S)) : FlattenSeq(s \o x) = FlattenSeq(s) \o FlattenSeq(x)}
<1>1. <<>> \in T
  <2>1. s \o <<>> = s /\ FlattenSeq(s) \o <<>> = FlattenSeq(s)
    BY FlattenType, ConcatEmptySeq
  <2>2. <<>> \in Seq(Seq(S))
    BY EmptySeq
  <2>3. FlattenSeq(s \o <<>>) = FlattenSeq(s) \o FlattenSeq(<<>>)
    BY <2>1, FlattenEmpty
  <2>4. QED
    BY <2>2, <2>3
<1>2. ASSUME NEW x \in Seq(Seq(S)), x \in T, NEW e \in Seq(S) PROVE Append(x, e) \in T
  <2>1. s \o Append(x, e) = Append(s \o x, e) /\ s \o x \in Seq(Seq(S)) /\ Append(x, e) \in Seq(Seq(S))
    OBVIOUS
  <2>2. FlattenSeq(Append(s \o x, e)) = FlattenSeq(s \o x) \o e
    BY <2>1, FlattenAppend
  <2>3. FlattenSeq(Append(x, e)) = FlattenSeq(x) \o e
    BY FlattenAppend
  <2>4. FlattenSeq(s) \in Seq(S) /\ FlattenSeq(x) \in Seq(S)
    BY FlattenType
  <2>5. (FlattenSeq(s) \o FlattenSeq(x)) \o e = FlattenSeq(s) \o (FlattenSeq(x) \o e)
    BY <2>4, ConcatAssociative
  <2>6. QED
    BY <1>2, <2>1, <2>2, <2>3, <2>5
<1>3. Seq(Seq(S)) \subseteq T
  <2> HIDE DEF T
  <2>1. QED
    BY <1>1, <1>2, SeqSet
<1>4. QED
  BY <1>3

LEMMA FlattenHead ==
    ASSUME NEW S, NEW s \in Seq(Seq(S)), s # <<>>
    PROVE  FlattenSeq(s) = Head(s) \o FlattenSeq(Tail(s))
<1>1. Head(s) \in Seq(S) /\ Tail(s) \in Seq(Seq(S)) /\ <<Head(s)>> \in Seq(Seq(S))
  BY HeadTailProperties
<1>2. s = <<Head(s)>> \o Tail(s)
  OBVIOUS
<1>3. FlattenSeq(<<Head(s)>>) = Head(s)
  BY <1>1, FlattenOne
<1>4. QED
  BY <1>1, <1>2, <1>3, FlattenConcat

-----------------------------------------------------------------------------
(* Every sequence of the log holds messages.                                 *)

Records == Appenders \X Nat

LogTyped ==
    /\ running \in BOOLEAN /\ current \in Seq(Records) /\ written \in Seq(Records) /\ accepted \in Seq(Records)
    /\ buffers \in Seq(Seq(Records)) /\ toWrite \in Seq(Seq(Records)) /\ flusher \in Seq(Seq(Records))
    /\ given \in [dropped : SUBSET Records, direct : SUBSET Records, late : SUBSET Records]
    /\ appended \in [Appenders -> Nat] /\ files \in Seq(Nat) /\ newSecond \in BOOLEAN
    /\ LogTypeOK

LEMMA LogTypedInitially == ASSUME NEW seeds, LogInit(seeds) PROVE LogTyped
<1>1. MaxFiles \in Nat /\ MaxFiles >= 1 /\ BufferSize >= 0 /\ MaxBuffers >= 0 /\ BufferSize \in Nat /\ MaxBuffers \in Nat
  BY LogAssumption
<1>2. Len(<<0>>) = 1 /\ Len(<<>>) = 0 /\ <<0>> \in Seq(Nat)
  OBVIOUS
<1>3. \A S : <<>> \in Seq(S)
  BY EmptySeq
<1>4. LogTypeOK
  BY <1>1, <1>2 DEF LogInit, LogTypeOK
<1>5. QED
  BY <1>2, <1>3, <1>4 DEF LogInit, LogTyped, NotFlushing

\* Whatever is written, the files stay within their number.
LEMMA OutputTyped ==
    ASSUME LogTyped, NEW messages \in Seq(Records), Output(messages)
    PROVE  /\ written' = written \o messages /\ written' \in Seq(Records)
           /\ files' \in Seq(Nat) /\ Len(files') \in 1 .. MaxFiles /\ newSecond' \in BOOLEAN
<1> DEFINE n == Len(files)
           grown == [files EXCEPT ![n] = @ + Len(messages)]
           rolled == Append(grown, 0)
<1>1. files \in Seq(Nat) /\ n \in 1 .. MaxFiles /\ MaxFiles \in Nat /\ Len(messages) \in Nat
  BY LogAssumption DEF LogTyped, LogTypeOK
<1>2. files[n] + Len(messages) \in Nat
  BY <1>1, ElementOfSeq
<1>3. grown \in Seq(Nat) /\ Len(grown) = n
  BY <1>1, <1>2, ExceptSeq
<1> HIDE DEF grown
<1>4. rolled \in Seq(Nat) /\ Len(rolled) = n + 1 /\ rolled # <<>>
  <2>1. rolled \in Seq(Nat) /\ Len(rolled) = Len(grown) + 1
    BY <1>3
  <2> HIDE DEF rolled
  <2>2. rolled \in Seq(Nat) /\ Len(rolled) = n + 1
    BY <1>3, <2>1
  <2>3. QED
    BY <1>1, <2>2, EmptySeq
<1>5. Tail(rolled) \in Seq(Nat) /\ Len(Tail(rolled)) = n
  BY <1>1, <1>4, HeadTailProperties
<1>6. \/ newSecond' = FALSE /\ files' = (IF Len(rolled) > MaxFiles THEN Tail(rolled) ELSE rolled)
      \/ newSecond' = newSecond /\ files' = grown
  BY DEF Output, grown
<1>7. files' \in Seq(Nat) /\ Len(files') \in 1 .. MaxFiles
  <2> HIDE DEF rolled, n
  <2>1. CASE files' = grown
    BY <1>1, <1>3, <2>1
  <2>2. CASE files' = Tail(rolled)
    BY <1>1, <1>5, <2>2
  <2>3. CASE files' = rolled /\ Len(rolled) <= MaxFiles
    BY <1>1, <1>4, <2>3
  <2>4. QED
    BY <1>1, <1>4, <1>6, <2>1, <2>2, <2>3
<1>8. written' = written \o messages /\ written' \in Seq(Records)
  BY ConcatProperties DEF Output, LogTyped
<1>9. QED
  BY <1>6, <1>7, <1>8 DEF LogTyped

LEMMA CollectedTyped == ASSUME LogTyped PROVE Collected \in Seq(Seq(Records))
BY DEF LogTyped, Collected

LEMMA WakeTyped == ASSUME LogTyped, Wake PROVE appender' \in [Appenders -> {"idle", "blocked", "woken", "direct"}]
BY DEF LogTyped, LogTypeOK, Wake

LEMMA DoneTyped == ASSUME LogTyped, NEW a \in Appenders, Done(a)
                   PROVE  appender' \in [Appenders -> {"idle", "blocked", "woken", "direct"}]
BY DEF LogTyped, LogTypeOK, Done

\* A full buffer moves to the queue, is dropped with the oldest, or waits.
LEMMA OverflowTyped ==
    ASSUME LogTyped, NEW a \in Appenders, NEW m \in Records, Overflow(a, m), UNCHANGED running
    PROVE  /\ current' \in Seq(Records) /\ accepted' \in Seq(Records) /\ buffers' \in Seq(Seq(Records))
           /\ given' \in [dropped : SUBSET Records, direct : SUBSET Records, late : SUBSET Records]
           /\ appender' \in [Appenders -> {"idle", "blocked", "woken", "direct"}]
           /\ Len(current') <= BufferSize /\ (running' => Len(buffers') <= MaxBuffers)
<1> USE DEF LogTyped, LogTypeOK
<1>1. BufferSize \in Nat /\ BufferSize >= 1 /\ MaxBuffers \in Nat /\ MaxBuffers >= 1 /\ Len(<<m>>) = 1
      /\ <<m>> \in Seq(Records) /\ Append(accepted, m) \in Seq(Records) /\ Len(buffers) \in Nat
  BY LogAssumption
<1>2. CASE (Len(buffers) < MaxBuffers \/ ~running) /\ PutInNewBuffer(m, Append(buffers, current), Late(m)) /\ Done(a)
  <2>1. Append(buffers, current) \in Seq(Seq(Records)) /\ Len(Append(buffers, current)) = Len(buffers) + 1
    OBVIOUS
  <2>2. Late(m) \in [dropped : SUBSET Records, direct : SUBSET Records, late : SUBSET Records]
    BY DEF Late
  <2>3. current' = <<m>> /\ accepted' = Append(accepted, m) /\ buffers' = Append(buffers, current) /\ given' = Late(m)
    BY <1>2 DEF PutInNewBuffer
  <2>4. QED
    BY <1>1, <1>2, <2>1, <2>2, <2>3, DoneTyped
<1>3. CASE ~(Len(buffers) < MaxBuffers) /\ running /\ given' = [given EXCEPT !.dropped = @ \cup {m}] /\ Done(a) /\ UNCHANGED <<buffers, current, accepted>>
  BY <1>3, DoneTyped
<1>4. CASE /\ ~(Len(buffers) < MaxBuffers) /\ running /\ Done(a)
           /\ PutInNewBuffer(m, Append(Tail(buffers), current),
                             [given EXCEPT !.dropped = @ \cup ToSet(Head(buffers))])
  <2>1. buffers # <<>>
    BY <1>1, <1>4
  <2>2. Head(buffers) \in Seq(Records) /\ Tail(buffers) \in Seq(Seq(Records)) /\ Len(Tail(buffers)) = Len(buffers) - 1
    BY <2>1, HeadTailProperties
  <2>3. Append(Tail(buffers), current) \in Seq(Seq(Records)) /\ Len(Append(Tail(buffers), current)) = Len(buffers)
    BY <2>2
  <2>4. [given EXCEPT !.dropped = @ \cup ToSet(Head(buffers))] \in [dropped : SUBSET Records, direct : SUBSET Records, late : SUBSET Records]
    BY <2>2, MembersOf
  <2>5. current' = <<m>> /\ accepted' = Append(accepted, m) /\ buffers' = Append(Tail(buffers), current)
        /\ given' = [given EXCEPT !.dropped = @ \cup ToSet(Head(buffers))]
    BY <1>4 DEF PutInNewBuffer
  <2>6. QED
    BY <1>1, <1>4, <2>3, <2>4, <2>5, DoneTyped
<1>5. CASE appender' = [appender EXCEPT ![a] = "blocked"] /\ UNCHANGED <<buffers, current, accepted, given>>
  BY <1>5
<1>6. QED
  BY <1>2, <1>3, <1>4, <1>5 DEF Overflow

LEMMA LogStaysTyped == ASSUME LogTyped, [LogNext]_logVars PROVE LogTyped'
<1> USE DEF LogTyped, LogTypeOK
<1>1. CASE UNCHANGED logVars
  BY <1>1 DEF logVars
<1>2. ASSUME NEW a \in Appenders, AppendMessage(a) PROVE LogTyped'
  <2> DEFINE m == <<a, appended[a] + 1>>
  <2>1. m \in Records
    BY DEF Records
  <2> HIDE DEF m
  <2>2. /\ UNCHANGED <<logging, running, writer, toWrite, flusher, written, files, newSecond>>
        /\ appended' = [appended EXCEPT ![a] = @ + 1]
    BY <1>2 DEF AppendMessage, outputVars
  <2>3. appended' \in [Appenders -> Nat]
    BY <2>2
  <2>4. CASE appender' = [appender EXCEPT ![a] = "direct"] /\ UNCHANGED <<current, buffers, accepted, given>>
    BY <2>2, <2>3, <2>4
  <2>5. CASE Len(current) < BufferSize /\ Put(m) /\ UNCHANGED appender
    <3>1. Append(current, m) \in Seq(Records) /\ Append(accepted, m) \in Seq(Records)
          /\ Len(Append(current, m)) = Len(current) + 1 /\ Len(current) \in Nat /\ BufferSize \in Nat
      BY <2>1, LogAssumption
    <3>2. current' = Append(current, m) /\ accepted' = Append(accepted, m) /\ UNCHANGED <<buffers, given, appender>>
      BY <2>5 DEF Put
    <3>3. Len(current') <= BufferSize
      BY <2>5, <3>1, <3>2
    <3>4. QED
      BY <2>2, <2>3, <3>1, <3>2, <3>3
  <2>6. CASE Overflow(a, m)
    BY <2>1, <2>2, <2>3, <2>6, OverflowTyped
  <2>7. QED
    BY <1>2, <2>4, <2>5, <2>6 DEF AppendMessage, m
<1>3. ASSUME NEW a \in Appenders, ContinueBlocked(a) PROVE LogTyped'
  <2> DEFINE m == <<a, appended[a]>>
  <2>1. m \in Records
    BY DEF Records
  <2> HIDE DEF m
  <2>2. UNCHANGED <<logging, running, writer, toWrite, flusher, appended, written, files, newSecond>> /\ Overflow(a, m)
    BY <1>3 DEF ContinueBlocked, outputVars, m
  <2>3. QED
    BY <2>1, <2>2, OverflowTyped
<1>4. ASSUME NEW a \in Appenders, WriteDirectly(a) PROVE LogTyped'
  <2> DEFINE m == <<a, appended[a]>>
  <2>1. m \in Records /\ <<m>> \in Seq(Records)
    BY DEF Records
  <2> HIDE DEF m
  <2>2. /\ UNCHANGED <<logging, running, current, buffers, writer, toWrite, flusher, appended, accepted>>
        /\ Output(<<m>>) /\ Done(a) /\ given' = [given EXCEPT !.direct = @ \cup {m}]
    BY <1>4 DEF WriteDirectly, m
  <2>3. QED
    BY <2>1, <2>2, OutputTyped, DoneTyped
<1>5. CASE TakeBuffers
  <2>1. \A S : <<>> \in Seq(S)
    BY EmptySeq
  <2>2. Len(<<>>) = 0 /\ BufferSize >= 0 /\ MaxBuffers >= 0
    BY LogAssumption
  <2>3. QED
    BY <1>5, <2>1, <2>2, CollectedTyped, WakeTyped DEF TakeBuffers, outputVars
<1>6. CASE WriteBuffers
  <2>1. FlattenSeq(toWrite) \in Seq(Records)
    BY FlattenType
  <2>2. <<>> \in Seq(Seq(Records))
    BY EmptySeq
  <2>3. /\ UNCHANGED <<logging, running, current, buffers, flusher, appender, appended, accepted, given>>
        /\ Output(FlattenSeq(toWrite)) /\ toWrite' = <<>> /\ writer' \in {"waiting", "ended"}
    BY <1>6 DEF WriteBuffers
  <2>4. QED
    BY <2>1, <2>2, <2>3, OutputTyped
<1>7. CASE StartFlush
  <2>1. \A S : <<>> \in Seq(S)
    BY EmptySeq
  <2>2. Len(<<>>) = 0 /\ BufferSize >= 0 /\ MaxBuffers >= 0
    BY LogAssumption
  <2>3. QED
    BY <1>7, <2>1, <2>2, CollectedTyped, WakeTyped DEF StartFlush, outputVars
<1>8. CASE WriteFlushed
  <2>1. FlattenSeq(flusher) \in Seq(Records)
    BY FlattenType
  <2>2. <<>> \in Seq(Seq(Records))
    BY EmptySeq
  <2>3. /\ UNCHANGED <<logging, running, current, buffers, writer, toWrite, appender, appended, accepted, given>>
        /\ Output(FlattenSeq(flusher)) /\ flusher' = <<>>
    BY <1>8 DEF WriteFlushed, NotFlushing
  <2>4. QED
    BY <2>1, <2>2, <2>3, OutputTyped
<1>9. CASE StopLogging
  BY <1>9, WakeTyped DEF StopLogging, outputVars
<1>10. CASE SecondPasses
  BY <1>10 DEF SecondPasses
<1>11. QED
  BY <1>1, <1>2, <1>3, <1>4, <1>5, <1>6, <1>7, <1>8, <1>9, <1>10 DEF LogNext

-----------------------------------------------------------------------------
(* The inductive invariant, and a message accepted or dropped.               *)

MaySettle(m) == m[2] <= appended[m[1]] /\ (appender[m[1]] # "idle" => m[2] < appended[m[1]])

\* A message is accepted, dropped or written without a buffer by the thread
\* that began it, and no more than once.
Settled == \A m \in ToSet(accepted) \cup given.dropped \cup given.direct : MaySettle(m)

DirectApart == given.direct \cap ToSet(accepted) = {}

\* Between rounds the worker holds nothing.
RoundsInOrder ==
    /\ writer # "writing" => toWrite = <<>>
    /\ "flush" \notin logging.calls => flusher = NotFlushing

\* A round with nothing to write began after stop.
LastRound ==
    (writer = "ended" \/ (writer = "writing" /\ toWrite = <<>>)) => ~running /\ ToSet(Buffered) \subseteq given.late

\* What was written, what is buffered and what is being flushed have no
\* message in common, and together are what was accepted and not dropped.
KeptApart ==
    LET t == ToSet(Through)
        b == ToSet(Buffered)
        f == ToSet(FlattenSeq(flusher))
    IN /\ IsInjective(Through) /\ IsInjective(Buffered) /\ IsInjective(FlattenSeq(flusher))
       /\ t \cap b = {} /\ t \cap f = {} /\ b \cap f = {}
       /\ t \cup b \cup f = ToSet(accepted) \ given.dropped

LogIInv ==
    LogTyped /\ Settled /\ DirectApart /\ RoundsInOrder /\ LastRound /\ KeptInOrder /\ KeptApart

-----------------------------------------------------------------------------
LEMMA LogSequences ==
    ASSUME LogTyped
    PROVE  /\ Through \in Seq(Records) /\ Buffered \in Seq(Records) /\ FlattenSeq(toWrite) \in Seq(Records)
           /\ FlattenSeq(buffers) \in Seq(Records) /\ FlattenSeq(flusher) \in Seq(Records)
<1>1. FlattenSeq(toWrite) \in Seq(Records) /\ FlattenSeq(buffers) \in Seq(Records) /\ FlattenSeq(flusher) \in Seq(Records)
  BY FlattenType DEF LogTyped
<1>2. Through \in Seq(Records)
  BY WithoutMembers DEF Through, LogTyped
<1>3. FlattenSeq(toWrite) \o FlattenSeq(buffers) \in Seq(Records)
  BY <1>1, ConcatProperties
<1>4. Buffered \in Seq(Records)
  BY <1>3, ConcatProperties DEF Buffered, LogTyped
<1>5. QED
  BY <1>1, <1>2, <1>4

LEMMA OnceAppend ==
    ASSUME NEW S, NEW s \in Seq(S), NEW e \in S
    PROVE  IsInjective(Append(s, e)) <=> IsInjective(s) /\ e \notin ToSet(s)
<1>1. <<e>> \in Seq(S) /\ Append(s, e) = s \o <<e>>
  OBVIOUS
<1>2. IsInjective(<<e>>)
  BY DEF IsInjective
<1>3. ToSet(<<e>>) = {e}
  BY MembersOne
<1>4. IsInjective(s \o <<e>>) <=> IsInjective(s) /\ IsInjective(<<e>>) /\ ToSet(s) \cap ToSet(<<e>>) = {}
  BY <1>1, OnceInBoth
<1>5. QED
  BY <1>1, <1>2, <1>3, <1>4

\* The facts about \o in quantified form.
LEMMA Joined == ASSUME NEW S PROVE \A s, t \in Seq(S) : s \o t \in Seq(S)
BY ConcatProperties

LEMMA JoinedThree == ASSUME NEW S PROVE \A s, t, u \in Seq(S) : (s \o t) \o u = s \o (t \o u)
BY ConcatAssociative

LEMMA JoinedAppend ==
    ASSUME NEW S
    PROVE  \A s, t \in Seq(S) : \A e \in S : s \o Append(t, e) = Append(s \o t, e) /\ t \o <<e>> = Append(t, e)
OBVIOUS

LEMMA JoinedMembers == ASSUME NEW S PROVE \A s, t \in Seq(S) : ToSet(s \o t) = ToSet(s) \cup ToSet(t)
BY MembersConcat

LEMMA JoinedWithout ==
    ASSUME NEW S PROVE \A D : \A s, t \in Seq(S) : Without(s \o t, D) = Without(s, D) \o Without(t, D)
BY WithoutConcat

LEMMA MembersOfThree ==
    ASSUME NEW S, NEW s \in Seq(S), NEW t \in Seq(S), NEW u \in Seq(S)
    PROVE  ToSet(s \o t \o u) = ToSet(s) \cup ToSet(t) \cup ToSet(u)
<1>1. s \o t \in Seq(S) /\ ToSet(s \o t) = ToSet(s) \cup ToSet(t)
  BY ConcatProperties, MembersConcat
<1> DEFINE st == s \o t
<1> HIDE DEF st
<1>2. ToSet(st \o u) = ToSet(st) \cup ToSet(u)
  <2>1. st \in Seq(S) /\ u \in Seq(S)
    BY <1>1 DEF st
  <2>2. QED
    BY ONLY <2>1, MembersConcat
<1>3. QED
  BY <1>1, <1>2 DEF st

LEMMA OnceInThree ==
    ASSUME NEW S, NEW s \in Seq(S), NEW t \in Seq(S), NEW u \in Seq(S)
    PROVE  IsInjective(s \o t \o u) <=>
               /\ IsInjective(s) /\ IsInjective(t) /\ IsInjective(u)
               /\ ToSet(s) \cap ToSet(t) = {} /\ ToSet(s) \cap ToSet(u) = {} /\ ToSet(t) \cap ToSet(u) = {}
<1>1. s \o t \in Seq(S) /\ ToSet(s \o t) = ToSet(s) \cup ToSet(t)
  BY ConcatProperties, MembersConcat
<1>2. IsInjective(s \o t) <=> IsInjective(s) /\ IsInjective(t) /\ ToSet(s) \cap ToSet(t) = {}
  BY OnceInBoth
<1> DEFINE st == s \o t
<1> HIDE DEF st
<1>3. IsInjective(st \o u) <=> IsInjective(st) /\ IsInjective(u) /\ ToSet(st) \cap ToSet(u) = {}
  BY <1>1, OnceInBoth DEF st
<1>4. ToSet(st) \cap ToSet(u) = {} <=> ToSet(s) \cap ToSet(u) = {} /\ ToSet(t) \cap ToSet(u) = {}
  BY <1>1 DEF st
<1>5. QED
  BY <1>2, <1>3, <1>4 DEF st

\* A part h taken out of a sequence without repetitions.
LEMMA CutOut ==
    ASSUME NEW S, NEW w \in Seq(S), NEW h \in Seq(S), NEW r \in Seq(S), NEW c \in Seq(S),
           IsInjective(w \o (h \o r) \o c)
    PROVE  /\ ToSet(w \o (h \o r) \o c) = ToSet(h) \cup ToSet(w \o r \o c)
           /\ ToSet(h) \cap ToSet(w \o r \o c) = {}
           /\ IsInjective(w \o r \o c)
           /\ Without(w \o (h \o r) \o c, ToSet(h)) = w \o r \o c
<1>1. h \o r \in Seq(S) /\ ToSet(h \o r) = ToSet(h) \cup ToSet(r)
  BY ConcatProperties, MembersConcat
<1>2. IsInjective(h \o r) <=> IsInjective(h) /\ IsInjective(r) /\ ToSet(h) \cap ToSet(r) = {}
  BY OnceInBoth
<1> DEFINE q == h \o r
<1> HIDE DEF q
<1>3. q \in Seq(S)
  BY <1>1 DEF q
<1>4. /\ IsInjective(w) /\ IsInjective(q) /\ IsInjective(c)
      /\ ToSet(w) \cap ToSet(q) = {} /\ ToSet(w) \cap ToSet(c) = {} /\ ToSet(q) \cap ToSet(c) = {}
  BY <1>3, OnceInThree DEF q
<1>5. /\ IsInjective(r) /\ ToSet(h) \cap ToSet(r) = {} /\ ToSet(h) \cap ToSet(w) = {} /\ ToSet(h) \cap ToSet(c) = {}
      /\ ToSet(w) \cap ToSet(r) = {} /\ ToSet(r) \cap ToSet(c) = {}
  BY <1>1, <1>2, <1>4 DEF q
<1>6. IsInjective(w \o r \o c)
  BY <1>4, <1>5, OnceInThree
<1>7. ToSet(w \o q \o c) = ToSet(w) \cup ToSet(q) \cup ToSet(c)
  BY <1>3, MembersOfThree
<1>8. ToSet(w \o r \o c) = ToSet(w) \cup ToSet(r) \cup ToSet(c)
  BY MembersOfThree
<1>9. Without(w, ToSet(h)) = w
  BY <1>5, WithoutNone
<1>10. Without(r, ToSet(h)) = r
  BY <1>5, WithoutNone
<1>11. Without(c, ToSet(h)) = c
  BY <1>5, WithoutNone
<1>12. Without(q, ToSet(h)) = r
  <2>1. Without(h, ToSet(h)) = <<>>
    BY WithoutAll
  <2>2. Without(h \o r, ToSet(h)) = Without(h, ToSet(h)) \o Without(r, ToSet(h))
    BY WithoutConcat
  <2>3. <<>> \o r = r
    BY ConcatEmptySeq
  <2>4. QED
    BY <1>10, <2>1, <2>2, <2>3 DEF q
<1>13. Without(w \o q \o c, ToSet(h)) = w \o r \o c
  <2> DEFINE wq == w \o q
  <2>1. wq \in Seq(S)
    BY <1>3, ConcatProperties
  <2>2. Without(wq, ToSet(h)) = Without(w, ToSet(h)) \o Without(q, ToSet(h))
    BY <1>3, JoinedWithout, Zenon
  <2> HIDE DEF wq
  <2>3. Without(wq \o c, ToSet(h)) = Without(wq, ToSet(h)) \o Without(c, ToSet(h))
    BY <2>1, JoinedWithout, Zenon
  <2>4. QED
    BY <1>9, <1>11, <1>12, <2>2, <2>3 DEF wq
<1>14. ToSet(w \o q \o c) = ToSet(h) \cup ToSet(w \o r \o c)
  BY <1>1, <1>7, <1>8 DEF q
<1>15. ToSet(h) \cap ToSet(w \o r \o c) = {}
  BY <1>5, <1>8
<1>16. QED
  BY <1>6, <1>13, <1>14, <1>15 DEF q

LEMMA KeptOnceFromApart == ASSUME LogTyped, KeptApart PROVE KeptOnce
<1> DEFINE t == Through
           b == Buffered
           f == FlattenSeq(flusher)
<1>1. t \in Seq(Records) /\ b \in Seq(Records) /\ f \in Seq(Records)
  BY LogSequences
<1>2. /\ IsInjective(t) /\ IsInjective(b) /\ IsInjective(f)
      /\ ToSet(t) \cap ToSet(b) = {} /\ ToSet(t) \cap ToSet(f) = {} /\ ToSet(b) \cap ToSet(f) = {}
      /\ ToSet(t) \cup ToSet(b) \cup ToSet(f) = ToSet(accepted) \ given.dropped
  BY DEF KeptApart
<1> HIDE DEF t, b, f
<1>3. IsInjective(t \o b \o f)
  BY <1>1, <1>2, OnceInThree
<1>4. ToSet(t \o b \o f) = ToSet(accepted) \ given.dropped
  BY <1>1, <1>2, MembersOfThree
<1>5. QED
  BY <1>3, <1>4 DEF KeptOnce, t, b, f

LEMMA LogInOrderFromIInv == ASSUME LogIInv PROVE LogInOrder
<1>1. NothingLeft
  BY DEF LogIInv, LastRound, NothingLeft
<1>2. QED
  BY <1>1, KeptOnceFromApart DEF LogIInv, LogInOrder

-----------------------------------------------------------------------------
(* A message that no thread has settled yet.                               *)
Fresh(m) == m \in Records /\ m \notin ToSet(accepted) \cup given.dropped \cup given.direct

LEMMA AcceptKeeps ==
    ASSUME LogTyped, KeptInOrder, KeptApart, DirectApart, NEW m, Fresh(m), UNCHANGED <<logging, flusher, written>>,
           given'.dropped = given.dropped, given'.direct = given.direct, accepted' = Append(accepted, m),
           Buffered' = Append(Buffered, m)
    PROVE  KeptInOrder' /\ KeptApart' /\ DirectApart'
<1> DEFINE t == Through
           b == Buffered
           f == FlattenSeq(flusher)
           d == given.dropped
<1>1. t \in Seq(Records) /\ b \in Seq(Records) /\ f \in Seq(Records) /\ accepted \in Seq(Records) /\ m \in Records
  BY LogSequences DEF Fresh, LogTyped
<1>2. Through' = t /\ FlattenSeq(flusher') = f
  BY DEF Through
<1>3. ToSet(accepted') = ToSet(accepted) \cup {m} /\ ToSet(Append(b, m)) = ToSet(b) \cup {m}
  BY <1>1, MembersAppend
<1>4. m \notin d /\ m \notin ToSet(accepted) /\ m \notin given.direct
  BY DEF Fresh
<1>5. KeptInOrder'
  <2>1. SUFFICES ASSUME "flush" \notin logging.calls PROVE t \o Append(b, m) = Without(Append(accepted, m), d)
    BY <1>2 DEF KeptInOrder
  <2>2. t \o b = Without(accepted, d)
    BY <2>1 DEF KeptInOrder
  <2>3. Without(Append(accepted, m), d) = Append(Without(accepted, d), m)
    <3> HIDE DEF d
    <3>1. Without(Append(accepted, m), d) = IF m \in d THEN Without(accepted, d) ELSE Append(Without(accepted, d), m)
      BY <1>1, WithoutAppend
    <3>2. QED
      BY <1>4, <3>1
  <2>4. t \o Append(b, m) = Append(t \o b, m)
    BY <1>1
  <2>5. QED
    BY <2>2, <2>3, <2>4
<1>6. KeptApart'
  <2>1. /\ IsInjective(t) /\ IsInjective(b) /\ IsInjective(f)
        /\ ToSet(t) \cap ToSet(b) = {} /\ ToSet(t) \cap ToSet(f) = {} /\ ToSet(b) \cap ToSet(f) = {}
        /\ ToSet(t) \cup ToSet(b) \cup ToSet(f) = ToSet(accepted) \ d
    BY DEF KeptApart
  <2>2. m \notin ToSet(t) /\ m \notin ToSet(b) /\ m \notin ToSet(f)
    BY <1>4, <2>1
  <2>3. IsInjective(Append(b, m))
    BY <1>1, <2>1, <2>2, OnceAppend
  <2>4. Through' = t /\ Buffered' = Append(b, m) /\ FlattenSeq(flusher') = f /\ given'.dropped = d
    BY <1>2
  <2> HIDE DEF t, b, f, d
  <2>5. QED
    BY <1>3, <1>4, <2>1, <2>2, <2>3, <2>4 DEF KeptApart
<1>7. DirectApart'
  BY <1>3, <1>4 DEF DirectApart
<1>8. QED
  BY <1>5, <1>6, <1>7

LEMMA DropNewestKeeps ==
    ASSUME LogTyped, KeptInOrder, KeptApart, DirectApart, NEW m, Fresh(m),
           UNCHANGED <<logging, flusher, written, toWrite, buffers, current, accepted>>,
           given'.dropped = given.dropped \cup {m}, given'.direct = given.direct
    PROVE  KeptInOrder' /\ KeptApart' /\ DirectApart'
<1>1. Through' = Through /\ Buffered' = Buffered /\ FlattenSeq(flusher') = FlattenSeq(flusher)
  BY DEF Through, Buffered
<1>2. m \notin ToSet(accepted) /\ accepted \in Seq(Records)
  BY DEF Fresh, LogTyped
<1>3. ToSet(accepted) \cap given.dropped = ToSet(accepted) \cap given'.dropped
  BY <1>2
<1>4. Without(accepted, given.dropped) = Without(accepted, given'.dropped)
  BY <1>2, <1>3, WithoutSame
<1>5. KeptInOrder'
  BY <1>1, <1>4 DEF KeptInOrder
<1>6. ToSet(accepted) \ given.dropped = ToSet(accepted) \ given'.dropped
  BY <1>2
<1>7. KeptApart'
  BY <1>1, <1>6 DEF KeptApart
<1>8. QED
  BY <1>5, <1>7 DEF DirectApart

\* The oldest full buffer is dropped: it leaves what is buffered and what is
\* kept of the accepted messages at the same place.
LEMMA DropOldestKeeps ==
    ASSUME LogTyped, KeptInOrder, KeptApart, DirectApart, NEW m, Fresh(m), UNCHANGED <<logging, flusher, written, toWrite>>,
           buffers # <<>>, buffers' = Append(Tail(buffers), current), current' = <<m>>, accepted' = Append(accepted, m),
           given'.dropped = given.dropped \cup ToSet(Head(buffers)), given'.direct = given.direct
    PROVE  KeptInOrder' /\ KeptApart' /\ DirectApart' /\ ToSet(Head(buffers)) \subseteq ToSet(accepted)
<1> DEFINE t == Through
           w == FlattenSeq(toWrite)
           h == Head(buffers)
           r == FlattenSeq(Tail(buffers))
           c == current
           f == FlattenSeq(flusher)
           d == given.dropped
           b == w \o r \o c
           A == accepted
<1>1. /\ t \in Seq(Records) /\ w \in Seq(Records) /\ h \in Seq(Records) /\ r \in Seq(Records) /\ c \in Seq(Records)
      /\ f \in Seq(Records) /\ A \in Seq(Records) /\ m \in Records /\ Tail(buffers) \in Seq(Seq(Records))
  <2>1. h \in Seq(Records) /\ Tail(buffers) \in Seq(Seq(Records))
    BY HeadTailProperties DEF LogTyped
  <2>2. QED
    BY <2>1, LogSequences, FlattenType DEF Fresh, LogTyped
<1>2. Through' = t /\ FlattenSeq(flusher') = f /\ given'.dropped = d \cup ToSet(h) /\ accepted' = Append(A, m)
  BY DEF Through
<1>3. Buffered = w \o (h \o r) \o c
  BY FlattenHead DEF Buffered, LogTyped
<1>4. FlattenSeq(buffers') = r \o c
  BY <1>1, FlattenAppend
<1>5. Buffered' = w \o (r \o c) \o <<m>>
  BY <1>4 DEF Buffered
<1>6. m \notin d /\ m \notin ToSet(A) /\ m \notin given.direct
  BY DEF Fresh
<1>7. /\ IsInjective(t) /\ IsInjective(Buffered) /\ IsInjective(f)
      /\ ToSet(t) \cap ToSet(Buffered) = {} /\ ToSet(t) \cap ToSet(f) = {} /\ ToSet(Buffered) \cap ToSet(f) = {}
      /\ ToSet(t) \cup ToSet(Buffered) \cup ToSet(f) = ToSet(A) \ d
  BY DEF KeptApart
<1>8. "flush" \notin logging.calls => t \o Buffered = Without(A, d)
  BY DEF KeptInOrder
<1> HIDE DEF t, w, h, r, c, f, d, A
<1>9. b \in Seq(Records) /\ w \o (h \o r) \o c \in Seq(Records)
  <2>1. h \o r \in Seq(Records) /\ w \o r \in Seq(Records)
    BY <1>1, ConcatProperties
  <2>2. w \o (h \o r) \in Seq(Records)
    BY <1>1, <2>1, ConcatProperties
  <2>3. QED
    BY <1>1, <2>1, <2>2, ConcatProperties
<1>10. Buffered' = Append(b, m)
  <2>1. w \o (r \o c) = (w \o r) \o c
    <3>1. w \in Seq(Records) /\ r \in Seq(Records) /\ c \in Seq(Records)
      BY <1>1
    <3>2. QED
      BY ONLY <3>1, ConcatAssociative
  <2> HIDE DEF b
  <2>2. b \o <<m>> = Append(b, m)
    <3>1. m \in Records /\ b \in Seq(Records)
      BY <1>1, <1>9
    <3>2. QED
      BY ONLY <3>1, JoinedAppend
  <2>3. QED
    BY <1>5, <2>1, <2>2, Zenon DEF b
<1>11. /\ ToSet(Buffered) = ToSet(h) \cup ToSet(b) /\ ToSet(h) \cap ToSet(b) = {}
       /\ IsInjective(b) /\ Without(Buffered, ToSet(h)) = b
  <2>1. IsInjective(w \o (h \o r) \o c)
    BY <1>3, <1>7, Zenon
  <2>2. /\ ToSet(w \o (h \o r) \o c) = ToSet(h) \cup ToSet(w \o r \o c) /\ ToSet(h) \cap ToSet(w \o r \o c) = {}
        /\ IsInjective(w \o r \o c) /\ Without(w \o (h \o r) \o c, ToSet(h)) = w \o r \o c
    <3>1. w \in Seq(Records) /\ h \in Seq(Records) /\ r \in Seq(Records) /\ c \in Seq(Records)
      BY <1>1
    <3>2. QED
      BY ONLY <2>1, <3>1, CutOut
  <2>3. QED
    BY <1>3, <2>2, Zenon
<1> HIDE DEF b
<1>12. ToSet(Append(b, m)) = ToSet(b) \cup {m}
  BY <1>1, <1>9, MembersAppend
<1>13. ToSet(Append(A, m)) = ToSet(A) \cup {m}
  BY <1>1, MembersAppend
<1>14. m \notin ToSet(t) /\ m \notin ToSet(b) /\ m \notin ToSet(f) /\ ToSet(h) \subseteq ToSet(A)
  BY <1>6, <1>7, <1>11
<1>15. ToSet(h) \cap ToSet(t) = {} /\ ToSet(h) \cap ToSet(f) = {}
  BY <1>7, <1>11
<1>16. KeptInOrder'
  <2>1. SUFFICES ASSUME "flush" \notin logging.calls
                 PROVE  t \o Append(b, m) = Without(Append(A, m), d \cup ToSet(h))
    BY <1>2, <1>10 DEF KeptInOrder
  <2> DEFINE D == d \cup ToSet(h)
  <2>2. Without(A, D) = Without(t \o Buffered, ToSet(h))
    <3>1. \A s \in Seq(Records) : \A E, F : Without(Without(s, E), F) = Without(s, E \cup F)
      BY WithoutTwice, Zenon
    <3>2. Without(Without(A, d), ToSet(h)) = Without(A, D)
      <4>1. A \in Seq(Records)
        BY <1>1
      <4>2. QED
        BY ONLY <4>1, <3>1
    <3>3. QED
      BY <1>8, <2>1, <3>2, Zenon
  <2>3. Without(t \o Buffered, ToSet(h)) = Without(t, ToSet(h)) \o Without(Buffered, ToSet(h))
    BY <1>1, <1>3, <1>9, JoinedWithout, Zenon
  <2>4. Without(t, ToSet(h)) = t
    BY <1>1, <1>15, WithoutNone
  <2>5. Without(A, D) = t \o b
    BY <1>11, <2>2, <2>3, <2>4
  <2>6. m \notin D
    BY <1>6, <1>14
  <2> HIDE DEF D
  <2>7. Without(Append(A, m), D) = IF m \in D THEN Without(A, D) ELSE Append(Without(A, D), m)
    BY <1>1, WithoutAppend
  <2>8. t \o Append(b, m) = Append(t \o b, m)
    <3>1. t \in Seq(Records) /\ b \in Seq(Records) /\ m \in Records
      BY <1>1, <1>9
    <3>2. QED
      BY ONLY <3>1, JoinedAppend
  <2>9. QED
    BY <2>5, <2>6, <2>7, <2>8 DEF D
<1>17. KeptApart'
  <2>1. IsInjective(Append(b, m))
    BY <1>1, <1>9, <1>11, <1>14, OnceAppend
  <2> DEFINE tt == ToSet(t)
             bb == ToSet(Append(b, m))
             ff == ToSet(f)
  <2>2. tt \cap bb = {} /\ tt \cap ff = {} /\ bb \cap ff = {}
    BY <1>7, <1>11, <1>12, <1>14
  <2>3. tt \cup bb \cup ff = ToSet(Append(A, m)) \ (d \cup ToSet(h))
    BY <1>6, <1>7, <1>11, <1>12, <1>13, <1>14, <1>15
  <2>4. QED
    BY <1>2, <1>7, <1>10, <2>1, <2>2, <2>3 DEF KeptApart
<1>18. DirectApart'
  BY <1>2, <1>6, <1>13 DEF DirectApart, A
<1>19. QED
  BY <1>14, <1>16, <1>17, <1>18 DEF h, A

-----------------------------------------------------------------------------
(* Messages move on: into a buffer, to the output.                           *)

LEMMA BufferedGrows ==
    ASSUME LogTyped, NEW m \in Records, UNCHANGED toWrite,
           \/ UNCHANGED buffers /\ current' = Append(current, m)
           \/ buffers' = Append(buffers, current) /\ current' = <<m>>
    PROVE  Buffered' = Append(Buffered, m)
<1> DEFINE w == FlattenSeq(toWrite)
           b == FlattenSeq(buffers)
           c == current
<1>1. w \in Seq(Records) /\ b \in Seq(Records) /\ c \in Seq(Records) /\ m \in Records
  BY LogSequences DEF LogTyped
<1>2. CASE UNCHANGED buffers /\ current' = Append(current, m)
  <2>1. Buffered' = w \o b \o Append(c, m)
    BY <1>2 DEF Buffered
  <2> HIDE DEF w, b, c
  <2>2. w \o b \in Seq(Records)
    BY ONLY <1>1, ConcatProperties
  <2>3. w \o b \o Append(c, m) = Append(w \o b \o c, m)
    BY ONLY <1>1, <2>2, JoinedAppend
  <2>4. QED
    BY <2>1, <2>3 DEF w, b, c, Buffered
<1>3. CASE buffers' = Append(buffers, current) /\ current' = <<m>>
  <2>1. FlattenSeq(buffers') = b \o c
    BY <1>1, <1>3, FlattenAppend DEF LogTyped
  <2>2. Buffered' = w \o (b \o c) \o <<m>>
    BY <1>3, <2>1 DEF Buffered
  <2> HIDE DEF w, b, c
  <2>3. w \o (b \o c) = w \o b \o c
    <3>1. w \in Seq(Records) /\ b \in Seq(Records) /\ c \in Seq(Records)
      BY <1>1
    <3>2. QED
      BY ONLY <3>1, ConcatAssociative
  <2>4. w \o b \o c \in Seq(Records)
    BY ONLY <1>1, ConcatProperties
  <2>5. (w \o b \o c) \o <<m>> = Append(w \o b \o c, m)
    BY ONLY <1>1, <2>4, JoinedAppend
  <2>6. QED
    BY <2>2, <2>3, <2>5 DEF w, b, c, Buffered
<1>4. QED
  BY <1>2, <1>3

\* A message that overflows is accepted, dropped, or still to be settled.
LEMMA OverflowKeeps ==
    ASSUME LogTyped, KeptInOrder, KeptApart, DirectApart, LastRound, NEW a \in Appenders, NEW m, Fresh(m), Overflow(a, m),
           UNCHANGED <<logging, running, writer, toWrite, flusher, written>>
    PROVE  /\ KeptInOrder' /\ KeptApart' /\ DirectApart' /\ LastRound'
           /\ \/ /\ Done(a)
                 /\ ToSet(accepted') \cup given'.dropped \cup given'.direct
                      \subseteq ToSet(accepted) \cup given.dropped \cup given.direct \cup {m}
              \/ appender' = [appender EXCEPT ![a] = "blocked"] /\ UNCHANGED <<accepted, given>>
<1>1. accepted \in Seq(Records) /\ m \in Records /\ Buffered \in Seq(Records)
      /\ given \in [dropped : SUBSET Records, direct : SUBSET Records, late : SUBSET Records]
  BY LogSequences DEF Fresh, LogTyped
<1>2. ToSet(Append(accepted, m)) = ToSet(accepted) \cup {m} /\ ToSet(Append(Buffered, m)) = ToSet(Buffered) \cup {m}
  BY <1>1, MembersAppend
<1>3. CASE (Len(buffers) < MaxBuffers \/ ~running) /\ PutInNewBuffer(m, Append(buffers, current), Late(m)) /\ Done(a)
  <2>1. buffers' = Append(buffers, current) /\ current' = <<m>> /\ accepted' = Append(accepted, m) /\ given' = Late(m)
    BY <1>3 DEF PutInNewBuffer
  <2>2. Buffered' = Append(Buffered, m)
    BY <1>1, <2>1, BufferedGrows
  <2>3. given'.dropped = given.dropped /\ given'.direct = given.direct
        /\ given.late \subseteq given'.late /\ (~running => m \in given'.late)
    BY <1>1, <2>1 DEF Late
  <2>4. KeptInOrder' /\ KeptApart' /\ DirectApart'
    BY <2>1, <2>2, <2>3, AcceptKeeps
  <2>5. LastRound'
    BY <1>2, <2>2, <2>3 DEF LastRound
  <2>6. QED
    BY <1>2, <1>3, <2>1, <2>3, <2>4, <2>5
<1>4. CASE ~(Len(buffers) < MaxBuffers \/ ~running) /\ given' = [given EXCEPT !.dropped = @ \cup {m}] /\ Done(a)
           /\ UNCHANGED <<buffers, current, accepted>>
  <2>1. given'.dropped = given.dropped \cup {m} /\ given'.direct = given.direct
    BY <1>1, <1>4
  <2>2. KeptInOrder' /\ KeptApart' /\ DirectApart'
    BY <1>4, <2>1, DropNewestKeeps
  <2>3. LastRound'
    BY <1>4 DEF LastRound
  <2>4. QED
    BY <1>4, <2>1, <2>2, <2>3
<1>5. CASE /\ ~(Len(buffers) < MaxBuffers \/ ~running) /\ Done(a)
           /\ PutInNewBuffer(m, Append(Tail(buffers), current),
                             [given EXCEPT !.dropped = @ \cup ToSet(Head(buffers))])
  <2>1. /\ buffers' = Append(Tail(buffers), current) /\ current' = <<m>> /\ accepted' = Append(accepted, m)
        /\ given' = [given EXCEPT !.dropped = @ \cup ToSet(Head(buffers))]
    BY <1>5 DEF PutInNewBuffer
  <2>2. given'.dropped = given.dropped \cup ToSet(Head(buffers)) /\ given'.direct = given.direct
    BY <1>1, <2>1
  <2>3. buffers # <<>>
    <3>1. ~(Len(buffers) < 1)
      BY <1>5, LogAssumption DEF LogTyped
    <3>2. QED
      BY <3>1
  <2>4. KeptInOrder' /\ KeptApart' /\ DirectApart' /\ ToSet(Head(buffers)) \subseteq ToSet(accepted)
    BY <2>1, <2>2, <2>3, DropOldestKeeps
  <2>5. LastRound'
    BY <1>5 DEF LastRound
  <2>6. QED
    BY <1>2, <1>5, <2>1, <2>2, <2>4, <2>5
<1>6. CASE ~(Len(buffers) < MaxBuffers \/ ~running) /\ appender' = [appender EXCEPT ![a] = "blocked"]
           /\ UNCHANGED <<buffers, current, accepted, given>>
  <2>1. Through' = Through /\ Buffered' = Buffered
    BY <1>6 DEF Through, Buffered
  <2>2. KeptInOrder' /\ KeptApart' /\ DirectApart' /\ LastRound'
    BY <1>6, <2>1 DEF KeptInOrder, KeptApart, DirectApart, LastRound
  <2>3. QED
    BY <1>6, <2>2
<1>7. QED
  BY <1>3, <1>4, <1>5, <1>6 DEF Overflow

\* What the buffers held is written: it is added to what went through.
LEMMA ThroughGrows ==
    ASSUME LogTyped, KeptApart, DirectApart, NEW s \in Seq(Records), written' = written \o s, given' = given,
           ToSet(s) \subseteq ToSet(Buffered) \cup ToSet(FlattenSeq(flusher))
    PROVE  Through' = Through \o s
<1>1. ToSet(s) \cap given.direct = {}
  BY DEF KeptApart, DirectApart
<1>2. Without(s, given.direct) = s
  BY ONLY <1>1, WithoutNone, s \in Seq(Records)
<1>3. written \in Seq(Records)
  BY DEF LogTyped
<1>4. Without(written \o s, given.direct) = Without(written, given.direct) \o Without(s, given.direct)
  BY ONLY <1>3, WithoutConcat, s \in Seq(Records)
<1>5. QED
  BY <1>2, <1>4 DEF Through

\* What is written without a buffer is not.
LEMMA ThroughStays ==
    ASSUME LogTyped, KeptApart, NEW m, Fresh(m), written' = written \o <<m>>, given'.direct = given.direct \cup {m}
    PROVE  Through' = Through
<1> DEFINE D == given.direct \cup {m}
<1>1. written \in Seq(Records) /\ m \in Records
  BY DEF LogTyped, Fresh
<1>2. ToSet(Through) = ToSet(written) \ given.direct
  BY <1>1, WithoutMembers DEF Through
<1>3. ToSet(Through) \subseteq ToSet(accepted)
  BY DEF KeptApart
<1>4. m \notin ToSet(written)
  BY <1>2, <1>3 DEF Fresh
<1>5. ToSet(written) \cap given.direct = ToSet(written) \cap D
  BY <1>4
<1>6. Without(written, given.direct) = Without(written, D)
  BY <1>1, <1>5, WithoutSame
<1>7. Append(written, m) = written \o <<m>>
  BY <1>1
<1>8. m \in D
  OBVIOUS
<1> HIDE DEF D
<1>9. Without(Append(written, m), D) = IF m \in D THEN Without(written, D) ELSE Append(Without(written, D), m)
  BY ONLY <1>1, WithoutAppend
<1>10. QED
  BY <1>6, <1>7, <1>8, <1>9 DEF D, Through

LEMMA CollectedFlat == ASSUME LogTyped PROVE FlattenSeq(Collected) = FlattenSeq(buffers) \o current
<1>1. FlattenSeq(buffers) \in Seq(Records) /\ current \in Seq(Records) /\ buffers \in Seq(Seq(Records))
  BY LogSequences DEF LogTyped
<1>2. CASE current = <<>>
  BY <1>1, <1>2, ConcatEmptySeq DEF Collected
<1>3. CASE current # <<>>
  BY <1>1, <1>3, FlattenAppend DEF Collected
<1>4. QED
  BY <1>2, <1>3

-----------------------------------------------------------------------------
LEMMA WakeSettles == ASSUME LogTyped, Wake, UNCHANGED <<appended, accepted, given>>, Settled PROVE Settled'
<1>1. ASSUME NEW m \in Records, MaySettle(m) PROVE MaySettle(m)'
  <2>1. m[1] \in Appenders
    BY DEF Records
  <2>2. appender'[m[1]] # "idle" => appender[m[1]] # "idle"
    BY <2>1 DEF Wake
  <2>3. QED
    BY <1>1, <2>2 DEF MaySettle
<1>2. ToSet(accepted) \cup given.dropped \cup given.direct \subseteq Records
  BY MembersOf DEF LogTyped
<1>3. QED
  BY <1>1, <1>2 DEF Settled

\* A thread that is done has settled its message, and those before it.
LEMMA DoneSettles ==
    ASSUME LogTyped, LogTyped', Settled, NEW a \in Appenders, NEW m \in Records, m[1] = a, Done(a), appended'[a] = m[2],
           \A x \in Appenders : x # a => appended'[x] = appended[x], appended[a] <= appended'[a],
           ToSet(accepted') \cup given'.dropped \cup given'.direct
             \subseteq ToSet(accepted) \cup given.dropped \cup given.direct \cup {m}
    PROVE  Settled'
<1>1. appender'[a] = "idle" /\ \A x \in Appenders : x # a => appender'[x] = appender[x]
  BY DEF Done, LogTyped, LogTypeOK
<1>2. m[2] \in Nat
  BY DEF Records
<1>3. (MaySettle(m))'
  BY <1>1, <1>2 DEF MaySettle
<1>4. ASSUME NEW q \in Records, MaySettle(q) PROVE (MaySettle(q))'
  <2>1. q[1] \in Appenders /\ q[2] \in Nat
    BY DEF Records
  <2>2. CASE q[1] = a
    <3>1. q[2] <= appended[a] /\ appended[a] \in Nat /\ appended'[a] \in Nat
      BY <1>4, <2>2 DEF MaySettle, LogTyped
    <3>2. q[2] <= appended'[a]
      BY <3>1, <2>1
    <3>3. QED
      BY <1>1, <2>2, <3>2 DEF MaySettle
  <2>3. CASE q[1] # a
    BY <1>1, <1>4, <2>1, <2>3 DEF MaySettle
  <2>4. QED
    BY <2>2, <2>3
<1>5. ToSet(accepted) \cup given.dropped \cup given.direct \subseteq Records
  BY MembersOf DEF LogTyped
<1>6. ASSUME NEW q \in (ToSet(accepted) \cup given.dropped \cup given.direct)' PROVE (MaySettle(q))'
  <2>1. q \in ToSet(accepted) \cup given.dropped \cup given.direct \cup {m}
    OBVIOUS
  <2>2. QED
    BY <1>3, <1>4, <1>5, <2>1 DEF Settled
<1>7. QED
  BY <1>6 DEF Settled

-----------------------------------------------------------------------------
(* The first state, and the steps of the threads that append.                *)

LEMMA LogIInvInitially == ASSUME NEW seeds, LogInit(seeds) PROVE LogIInv
<1>1. LogTyped
  BY LogTypedInitially
<1>2. FlattenSeq(<<>>) = <<>> /\ \A D : Without(<<>>, D) = <<>>
  BY FlattenEmpty, WithoutEmpty
<1>3. ToSet(<<>>) = {} /\ <<>> \o <<>> = <<>> /\ IsInjective(<<>>)
  BY MembersEmpty DEF IsInjective
<1>4. Through = <<>> /\ FlattenSeq(flusher) = <<>> /\ FlattenSeq(toWrite) = <<>> /\ FlattenSeq(buffers) = <<>>
  BY <1>2 DEF LogInit, Through, NotFlushing
<1>5. Buffered = <<>>
  BY <1>3, <1>4 DEF Buffered, LogInit
<1>6. KeptInOrder /\ KeptApart
  <2>1. accepted = <<>> /\ given.dropped = {}
    BY DEF LogInit
  <2>2. KeptInOrder
    BY <1>2, <1>3, <1>4, <1>5, <2>1 DEF KeptInOrder
  <2>3. KeptApart
    BY <1>3, <1>4, <1>5, <2>1 DEF KeptApart
  <2>4. QED
    BY <2>2, <2>3
<1>7. Settled /\ DirectApart
  BY <1>3 DEF LogInit, Settled, DirectApart
<1>8. RoundsInOrder /\ LastRound
  BY DEF LogInit, RoundsInOrder, LastRound
<1>9. QED
  BY <1>1, <1>6, <1>7, <1>8 DEF LogIInv

LEMMA AppendMessageKeeps == ASSUME LogIInv, LogTyped', NEW a \in Appenders, AppendMessage(a) PROVE LogIInv'
<1> DEFINE m == <<a, appended[a] + 1>>
<1>1. LogTyped /\ Settled /\ DirectApart /\ RoundsInOrder /\ LastRound /\ KeptInOrder /\ KeptApart
  BY DEF LogIInv
<1>2. m \in Records /\ m[1] = a /\ m[2] = appended[a] + 1 /\ appended[a] \in Nat
  BY <1>1 DEF Records, LogTyped
<1> HIDE DEF m
<1>3. ~MaySettle(m)
  BY <1>2 DEF MaySettle
<1>4. Fresh(m)
  BY <1>1, <1>2, <1>3 DEF Fresh, Settled
<1>5. /\ UNCHANGED <<logging, running, writer, toWrite, flusher, written>>
      /\ appended' = [appended EXCEPT ![a] = @ + 1] /\ appender[a] = "idle"
  BY DEF AppendMessage, outputVars
<1>6. appended'[a] = m[2] /\ appended[a] <= appended'[a] /\ \A x \in Appenders : x # a => appended'[x] = appended[x]
  BY <1>1, <1>2, <1>5 DEF LogTyped
<1>7. RoundsInOrder'
  BY <1>1, <1>5 DEF RoundsInOrder
\* A message whose thread is not done leaves the settled ones as they are.
<1>8. ASSUME UNCHANGED <<accepted, given>>, \A x \in Appenders : x # a => appender'[x] = appender[x]
      PROVE  Settled'
  <2>1. ASSUME NEW q \in Records, MaySettle(q) PROVE (MaySettle(q))'
    <3>1. q[1] \in Appenders /\ q[2] \in Nat
      BY DEF Records
    <3>2. CASE q[1] = a
      <4>1. q[2] <= appended[a] /\ appended'[a] = appended[a] + 1
        BY <1>2, <1>6, <2>1, <3>2 DEF MaySettle
      <4>2. q[2] < appended'[a]
        BY <1>2, <3>1, <4>1
      <4>3. QED
        BY <1>2, <3>1, <3>2, <4>1, <4>2 DEF MaySettle
    <3>3. CASE q[1] # a
      BY <1>6, <1>8, <2>1, <3>1, <3>3 DEF MaySettle
    <3>4. QED
      BY <3>2, <3>3
  <2>2. ToSet(accepted) \cup given.dropped \cup given.direct \subseteq Records
    BY <1>1, MembersOf DEF LogTyped
  <2>3. QED
    BY <1>1, <1>8, <2>1, <2>2 DEF Settled
<1>9. CASE appender' = [appender EXCEPT ![a] = "direct"] /\ UNCHANGED <<current, buffers, accepted, given>>
  <2>1. Through' = Through /\ Buffered' = Buffered
    BY <1>5, <1>9 DEF Through, Buffered
  <2>2. KeptInOrder' /\ KeptApart' /\ DirectApart' /\ LastRound'
    BY <1>1, <1>5, <1>9, <2>1 DEF KeptInOrder, KeptApart, DirectApart, LastRound
  <2>3. \A x \in Appenders : x # a => appender'[x] = appender[x]
    BY <1>1, <1>9 DEF LogTyped, LogTypeOK
  <2>4. Settled'
    BY <1>8, <1>9, <2>3
  <2>5. QED
    BY <1>7, <2>2, <2>4 DEF LogIInv
<1>10. CASE running /\ Put(m) /\ UNCHANGED appender
  <2>1. current' = Append(current, m) /\ accepted' = Append(accepted, m) /\ UNCHANGED <<buffers, given>>
    BY <1>10 DEF Put
  <2>2. Buffered' = Append(Buffered, m)
    BY <1>1, <1>2, <1>5, <2>1, BufferedGrows
  <2>3. KeptInOrder' /\ KeptApart' /\ DirectApart'
    BY <1>1, <1>4, <1>5, <2>1, <2>2, AcceptKeeps
  <2>4. LastRound'
    BY <1>1, <1>5, <1>10 DEF LastRound
  <2>5. accepted \in Seq(Records)
    BY <1>1 DEF LogTyped
  <2>6. ToSet(accepted') = ToSet(accepted) \cup {m}
    BY <1>2, <2>1, <2>5, MembersAppend
  <2>7. Done(a)
    BY <1>1, <1>5, <1>10 DEF Done, LogTyped, LogTypeOK
  <2>8. Settled'
    BY <1>1, <1>2, <1>6, <2>1, <2>6, <2>7, DoneSettles
  <2>9. QED
    BY <1>7, <2>3, <2>4, <2>8 DEF LogIInv
<1>11. CASE Overflow(a, m)
  <2>1. /\ KeptInOrder' /\ KeptApart' /\ DirectApart' /\ LastRound'
        /\ \/ /\ Done(a)
              /\ ToSet(accepted') \cup given'.dropped \cup given'.direct
                   \subseteq ToSet(accepted) \cup given.dropped \cup given.direct \cup {m}
           \/ appender' = [appender EXCEPT ![a] = "blocked"] /\ UNCHANGED <<accepted, given>>
    BY <1>1, <1>4, <1>5, <1>11, OverflowKeeps
  <2>2. Settled'
    <3>1. CASE /\ Done(a)
               /\ ToSet(accepted') \cup given'.dropped \cup given'.direct
                    \subseteq ToSet(accepted) \cup given.dropped \cup given.direct \cup {m}
      BY <1>1, <1>2, <1>6, <3>1, DoneSettles
    <3>2. CASE appender' = [appender EXCEPT ![a] = "blocked"] /\ UNCHANGED <<accepted, given>>
      <4>1. \A x \in Appenders : x # a => appender'[x] = appender[x]
        BY <1>1, <3>2 DEF LogTyped, LogTypeOK
      <4>2. QED
        BY <1>8, <3>2, <4>1
    <3>3. QED
      BY <2>1, <3>1, <3>2
  <2>3. QED
    BY <1>7, <2>1, <2>2 DEF LogIInv
<1>12. QED
  BY <1>9, <1>10, <1>11 DEF AppendMessage, m

LEMMA ContinueBlockedKeeps == ASSUME LogIInv, LogTyped', NEW a \in Appenders, ContinueBlocked(a) PROVE LogIInv'
<1> DEFINE m == <<a, appended[a]>>
<1>1. LogTyped /\ Settled /\ DirectApart /\ RoundsInOrder /\ LastRound /\ KeptInOrder /\ KeptApart
  BY DEF LogIInv
<1>2. m \in Records /\ m[1] = a /\ m[2] = appended[a] /\ appended[a] \in Nat
  BY <1>1 DEF Records, LogTyped
<1>3. Overflow(a, m) /\ UNCHANGED <<logging, running, writer, toWrite, flusher, appended, written>> /\ appender[a] = "woken"
  BY DEF ContinueBlocked, outputVars
<1> HIDE DEF m
<1>4. ~MaySettle(m)
  BY <1>2, <1>3 DEF MaySettle
<1>5. Fresh(m)
  BY <1>1, <1>2, <1>4 DEF Fresh, Settled
<1>6. RoundsInOrder'
  BY <1>1, <1>3 DEF RoundsInOrder
<1>7. /\ KeptInOrder' /\ KeptApart' /\ DirectApart' /\ LastRound'
      /\ \/ /\ Done(a)
            /\ ToSet(accepted') \cup given'.dropped \cup given'.direct
                 \subseteq ToSet(accepted) \cup given.dropped \cup given.direct \cup {m}
         \/ appender' = [appender EXCEPT ![a] = "blocked"] /\ UNCHANGED <<accepted, given>>
  BY <1>1, <1>3, <1>5, OverflowKeeps
<1>8. CASE /\ Done(a)
           /\ ToSet(accepted') \cup given'.dropped \cup given'.direct
                \subseteq ToSet(accepted) \cup given.dropped \cup given.direct \cup {m}
  <2>1. appended'[a] = m[2] /\ appended[a] <= appended'[a] /\ \A x \in Appenders : x # a => appended'[x] = appended[x]
    BY <1>2, <1>3
  <2>2. Settled'
    BY <1>1, <1>2, <1>8, <2>1, DoneSettles
  <2>3. QED
    BY <1>6, <1>7, <2>2 DEF LogIInv
<1>9. CASE appender' = [appender EXCEPT ![a] = "blocked"] /\ UNCHANGED <<accepted, given>>
  <2>1. \A x \in Appenders : appender'[x] # "idle" => appender[x] # "idle"
    BY <1>1, <1>3, <1>9 DEF LogTyped, LogTypeOK
  <2>2. ASSUME NEW q \in Records, MaySettle(q) PROVE (MaySettle(q))'
    <3>1. q[1] \in Appenders
      BY DEF Records
    <3>2. QED
      BY <1>3, <2>1, <2>2, <3>1 DEF MaySettle
  <2>3. ToSet(accepted) \cup given.dropped \cup given.direct \subseteq Records
    BY <1>1, MembersOf DEF LogTyped
  <2>4. Settled'
    BY <1>1, <1>9, <2>2, <2>3 DEF Settled
  <2>5. QED
    BY <1>6, <1>7, <2>4 DEF LogIInv
<1>10. QED
  BY <1>7, <1>8, <1>9

LEMMA WriteDirectlyKeeps == ASSUME LogIInv, LogTyped', NEW a \in Appenders, WriteDirectly(a) PROVE LogIInv'
<1> DEFINE m == <<a, appended[a]>>
<1>1. LogTyped /\ Settled /\ DirectApart /\ RoundsInOrder /\ LastRound /\ KeptInOrder /\ KeptApart
  BY DEF LogIInv
<1>2. m \in Records /\ m[1] = a /\ m[2] = appended[a] /\ appended[a] \in Nat
  BY <1>1 DEF Records, LogTyped
<1>3. /\ UNCHANGED <<logging, running, current, buffers, writer, toWrite, flusher, appended, accepted>>
      /\ written' = written \o <<m>> /\ Done(a) /\ given' = [given EXCEPT !.direct = @ \cup {m}] /\ appender[a] = "direct"
  BY DEF WriteDirectly, Output
<1> HIDE DEF m
<1>4. ~MaySettle(m)
  BY <1>2, <1>3 DEF MaySettle
<1>5. Fresh(m)
  BY <1>1, <1>2, <1>4 DEF Fresh, Settled
<1>6. given'.direct = given.direct \cup {m} /\ given'.dropped = given.dropped /\ given'.late = given.late
  BY <1>1, <1>3 DEF LogTyped
<1>7. Through' = Through /\ Buffered' = Buffered
  BY <1>1, <1>3, <1>5, <1>6, ThroughStays DEF Buffered
<1>8. KeptInOrder' /\ KeptApart' /\ LastRound' /\ RoundsInOrder'
  BY <1>1, <1>3, <1>6, <1>7 DEF KeptInOrder, KeptApart, LastRound, RoundsInOrder
<1>9. DirectApart'
  BY <1>1, <1>3, <1>5, <1>6 DEF DirectApart, Fresh
<1>10. appended'[a] = m[2] /\ appended[a] <= appended'[a] /\ \A x \in Appenders : x # a => appended'[x] = appended[x]
  BY <1>2, <1>3
<1>11. Settled'
  BY <1>1, <1>2, <1>3, <1>6, <1>10, DoneSettles
<1>12. QED
  BY <1>8, <1>9, <1>11 DEF LogIInv

-----------------------------------------------------------------------------
(* The steps of the worker and of a flush.                                   *)

LEMMA TakeBuffersKeeps == ASSUME LogIInv, LogTyped', TakeBuffers PROVE LogIInv'
<1>1. LogTyped /\ Settled /\ DirectApart /\ RoundsInOrder /\ LastRound /\ KeptInOrder /\ KeptApart
  BY DEF LogIInv
<1>2. /\ UNCHANGED <<logging, running, flusher, appended, accepted, given, written>> /\ Wake /\ writer = "waiting"
      /\ toWrite' = Collected /\ buffers' = <<>> /\ current' = <<>> /\ writer' = "writing"
      /\ (~running \/ Collected # <<>>)
  BY DEF TakeBuffers, outputVars
<1> DEFINE b == FlattenSeq(buffers)
           c == current
<1>3. b \in Seq(Records) /\ c \in Seq(Records)
  BY <1>1, LogSequences DEF LogTyped
<1>4. FlattenSeq(toWrite) = <<>> /\ FlattenSeq(buffers') = <<>>
  BY <1>1, <1>2, FlattenEmpty DEF RoundsInOrder
<1>5. Buffered = <<>> \o b \o c /\ Buffered' = (b \o c) \o <<>> \o <<>>
  BY <1>1, <1>2, <1>4, CollectedFlat DEF Buffered
<1> HIDE DEF b, c
<1>6. <<>> \o b = b /\ b \o c \in Seq(Records)
  BY ONLY <1>3, ConcatEmptySeq, ConcatProperties
<1>7. (b \o c) \o <<>> = b \o c
  BY ONLY <1>6, ConcatEmptySeq
<1>8. Buffered' = Buffered /\ Through' = Through
  BY <1>2, <1>5, <1>6, <1>7 DEF Through
<1>9. KeptInOrder' /\ KeptApart' /\ DirectApart' /\ RoundsInOrder'
  BY <1>1, <1>2, <1>8 DEF KeptInOrder, KeptApart, DirectApart, RoundsInOrder
<1>10. LastRound'
  <2>1. SUFFICES ASSUME toWrite' = <<>> PROVE ~running' /\ ToSet(Buffered') \subseteq given'.late
    BY <1>2 DEF LastRound
  <2>2. ~running'
    BY <1>2, <2>1
  <2>3. Buffered' = <<>>
    <3>1. FlattenSeq(toWrite') = <<>>
      BY <2>1, FlattenEmpty
    <3>2. Buffered' = <<>> \o <<>> \o <<>>
      BY <1>2, <1>4, <3>1 DEF Buffered
    <3>3. QED
      BY <3>2
  <2>4. QED
    BY <2>2, <2>3, MembersEmpty
<1>11. Settled'
  BY <1>1, <1>2, WakeSettles
<1>12. QED
  BY <1>9, <1>10, <1>11 DEF LogIInv

LEMMA WriteBuffersKeeps == ASSUME LogIInv, LogTyped', WriteBuffers PROVE LogIInv'
<1> DEFINE t == Through
           w == FlattenSeq(toWrite)
           b == FlattenSeq(buffers)
           c == current
           f == FlattenSeq(flusher)
<1>1. LogTyped /\ Settled /\ DirectApart /\ RoundsInOrder /\ LastRound /\ KeptInOrder /\ KeptApart
  BY DEF LogIInv
<1>2. /\ UNCHANGED <<logging, running, current, buffers, flusher, appender, appended, accepted, given>>
      /\ written' = written \o w /\ toWrite' = <<>> /\ writer = "writing"
      /\ writer' = IF ~running /\ toWrite = <<>> THEN "ended" ELSE "waiting"
  BY DEF WriteBuffers, Output
<1>3. t \in Seq(Records) /\ w \in Seq(Records) /\ b \in Seq(Records) /\ c \in Seq(Records) /\ f \in Seq(Records)
  BY <1>1, LogSequences DEF LogTyped
<1>4. Buffered = w \o b \o c /\ Buffered' = <<>> \o b \o c
  BY <1>2, FlattenEmpty DEF Buffered
<1>5. /\ IsInjective(t) /\ IsInjective(Buffered) /\ IsInjective(f)
      /\ ToSet(t) \cap ToSet(Buffered) = {} /\ ToSet(t) \cap ToSet(f) = {} /\ ToSet(Buffered) \cap ToSet(f) = {}
      /\ ToSet(t) \cup ToSet(Buffered) \cup ToSet(f) = ToSet(accepted) \ given.dropped
  BY <1>1 DEF KeptApart
<1>6. "flush" \notin logging.calls => t \o Buffered = Without(accepted, given.dropped)
  BY <1>1 DEF KeptInOrder
<1>7. FlattenSeq(flusher') = f
  BY <1>2
<1> DEFINE q == b \o c
<1>8. Buffered = w \o q /\ Buffered' = q /\ q \in Seq(Records)
  <2> HIDE DEF w, b, c
  <2>1. w \o b \o c = w \o (b \o c)
    <3>1. w \in Seq(Records) /\ b \in Seq(Records) /\ c \in Seq(Records)
      BY <1>3
    <3>2. QED
      BY ONLY <3>1, ConcatAssociative
  <2>2. <<>> \o b = b
    <3>1. b \in Seq(Records)
      BY <1>3
    <3>2. QED
      BY ONLY <3>1, ConcatEmptySeq
  <2>3. b \o c \in Seq(Records)
    <3>1. b \in Seq(Records) /\ c \in Seq(Records)
      BY <1>3
    <3>2. QED
      BY ONLY <3>1, ConcatProperties
  <2>4. QED
    BY <1>4, <2>1, <2>2, <2>3
<1> HIDE DEF q
<1>9. ToSet(w \o q) = ToSet(w) \cup ToSet(q)
  BY ONLY <1>3, <1>8, MembersConcat
<1>10. Through' = t \o w
  <2>1. ToSet(w) \subseteq ToSet(Buffered)
    BY <1>8, <1>9
  <2> HIDE DEF w
  <2>2. QED
    BY <1>1, <1>2, <1>3, <2>1, ThroughGrows
<1> HIDE DEF t, w, b, c, f
<1>11. (t \o w) \o q = t \o (w \o q)
  <2>1. t \in Seq(Records) /\ w \in Seq(Records) /\ q \in Seq(Records)
    BY <1>3, <1>8
  <2>2. QED
    BY ONLY <2>1, ConcatAssociative
<1>12. KeptInOrder'
  BY <1>2, <1>6, <1>8, <1>10, <1>11 DEF KeptInOrder
<1>13. ToSet(t \o w) = ToSet(t) \cup ToSet(w)
  BY ONLY <1>3, MembersConcat
<1>14. IsInjective(w) /\ IsInjective(q) /\ ToSet(w) \cap ToSet(q) = {}
  <2>1. IsInjective(w \o q) /\ w \in Seq(Records) /\ q \in Seq(Records)
    BY <1>3, <1>5, <1>8
  <2>2. QED
    BY ONLY <2>1, OnceInBoth
<1>15. ToSet(t) \cap ToSet(w) = {}
  BY <1>5, <1>8, <1>9
<1>16. IsInjective(t \o w)
  BY ONLY <1>3, <1>5, <1>14, <1>15, OnceInBoth
<1>17. KeptApart'
  <2> DEFINE tt == ToSet(t \o w)
             bb == ToSet(q)
             ff == ToSet(f)
  <2>1. tt \cap bb = {} /\ tt \cap ff = {} /\ bb \cap ff = {} /\ tt \cup bb \cup ff = ToSet(accepted) \ given.dropped
    BY <1>5, <1>8, <1>9, <1>13, <1>14
  <2>2. QED
    BY <1>2, <1>5, <1>7, <1>8, <1>10, <1>14, <1>16, <2>1 DEF KeptApart
<1>18. DirectApart' /\ RoundsInOrder'
  BY <1>1, <1>2 DEF DirectApart, RoundsInOrder
<1>19. LastRound'
  <2>1. SUFFICES ASSUME writer' = "ended" PROVE ~running' /\ ToSet(Buffered') \subseteq given'.late
    BY <1>2 DEF LastRound
  <2>2. ~running /\ ToSet(Buffered) \subseteq given.late
    BY <1>1, <1>2, <2>1 DEF LastRound
  <2>3. ToSet(Buffered') \subseteq ToSet(Buffered)
    BY <1>8, <1>9
  <2>4. QED
    BY <1>2, <2>2, <2>3
<1>20. Settled'
  BY <1>1, <1>2 DEF Settled, MaySettle
<1>21. QED
  BY <1>12, <1>17, <1>18, <1>19, <1>20 DEF LogIInv

LEMMA StartFlushKeeps == ASSUME LogIInv, LogTyped', StartFlush PROVE LogIInv'
<1> DEFINE t == Through
           w == FlattenSeq(toWrite)
           b == FlattenSeq(buffers)
           c == current
           q == b \o c
<1>1. LogTyped /\ Settled /\ DirectApart /\ RoundsInOrder /\ LastRound /\ KeptInOrder /\ KeptApart
  BY DEF LogIInv
<1>2. /\ UNCHANGED <<logging, running, writer, toWrite, appended, accepted, given, written>> /\ Wake
      /\ flusher' = Collected /\ buffers' = <<>> /\ current' = <<>> /\ flusher = <<>> /\ "flush" \in logging.calls
  BY DEF StartFlush, outputVars, NotFlushing
<1>3. t \in Seq(Records) /\ w \in Seq(Records) /\ b \in Seq(Records) /\ c \in Seq(Records)
  BY <1>1, LogSequences DEF LogTyped
<1>4. Buffered = w \o b \o c /\ Buffered' = w \o <<>> \o <<>> /\ FlattenSeq(flusher) = <<>> /\ FlattenSeq(flusher') = q
      /\ Through' = t
  BY <1>1, <1>2, CollectedFlat, FlattenEmpty DEF Buffered, Through
<1>5. /\ IsInjective(t) /\ IsInjective(Buffered) /\ ToSet(t) \cap ToSet(Buffered) = {}
      /\ ToSet(t) \cup ToSet(Buffered) = ToSet(accepted) \ given.dropped
  BY <1>1, <1>4, MembersEmpty DEF KeptApart
<1> HIDE DEF t, w, b, c
<1>6. Buffered = w \o q /\ Buffered' = w /\ q \in Seq(Records)
  <2>1. w \o b \o c = w \o (b \o c)
    <3>1. w \in Seq(Records) /\ b \in Seq(Records) /\ c \in Seq(Records)
      BY <1>3
    <3>2. QED
      BY ONLY <3>1, ConcatAssociative
  <2>2. w \o <<>> = w /\ b \o c \in Seq(Records)
    BY ONLY <1>3, ConcatEmptySeq, ConcatProperties
  <2>3. QED
    BY <1>4, <2>1, <2>2
<1> HIDE DEF q
<1>7. ToSet(w \o q) = ToSet(w) \cup ToSet(q)
  BY ONLY <1>3, <1>6, MembersConcat
<1>8. IsInjective(w) /\ IsInjective(q) /\ ToSet(w) \cap ToSet(q) = {}
  BY <1>3, <1>5, <1>6, OnceInBoth
<1>9. KeptApart'
  <2> DEFINE tt == ToSet(t)
             bb == ToSet(w)
             ff == ToSet(q)
  <2>1. tt \cap bb = {} /\ tt \cap ff = {} /\ bb \cap ff = {} /\ tt \cup bb \cup ff = ToSet(accepted) \ given.dropped
    BY <1>5, <1>6, <1>7, <1>8
  <2>2. QED
    BY <1>2, <1>4, <1>5, <1>6, <1>8, <2>1 DEF KeptApart
<1>10. KeptInOrder' /\ DirectApart' /\ RoundsInOrder'
  BY <1>1, <1>2 DEF KeptInOrder, DirectApart, RoundsInOrder
<1>11. LastRound'
  <2>1. ToSet(Buffered') \subseteq ToSet(Buffered)
    BY <1>6, <1>7
  <2>2. QED
    BY <1>1, <1>2, <2>1 DEF LastRound
<1>12. Settled'
  BY <1>1, <1>2, WakeSettles
<1>13. QED
  BY <1>9, <1>10, <1>11, <1>12 DEF LogIInv

LEMMA WriteFlushedKeeps == ASSUME LogIInv, LogTyped', WriteFlushed PROVE LogIInv'
<1> DEFINE t == Through
           f == FlattenSeq(flusher)
<1>1. LogTyped /\ Settled /\ DirectApart /\ RoundsInOrder /\ LastRound /\ KeptInOrder /\ KeptApart
  BY DEF LogIInv
<1>2. /\ UNCHANGED <<logging, running, current, buffers, writer, toWrite, appender, appended, accepted, given>>
      /\ written' = written \o f /\ flusher # NotFlushing /\ flusher' = <<>>
  BY DEF WriteFlushed, Output, NotFlushing
<1>3. t \in Seq(Records) /\ f \in Seq(Records)
  BY <1>1, LogSequences
<1>4. Buffered' = Buffered /\ FlattenSeq(flusher') = <<>> /\ ToSet(<<>>) = {} /\ IsInjective(<<>>)
  BY <1>2, FlattenEmpty, MembersEmpty DEF Buffered, IsInjective
<1>5. /\ IsInjective(t) /\ IsInjective(Buffered) /\ IsInjective(f)
      /\ ToSet(t) \cap ToSet(Buffered) = {} /\ ToSet(t) \cap ToSet(f) = {} /\ ToSet(Buffered) \cap ToSet(f) = {}
      /\ ToSet(t) \cup ToSet(Buffered) \cup ToSet(f) = ToSet(accepted) \ given.dropped
  BY <1>1 DEF KeptApart
<1>6. Through' = t \o f
  <2>1. ToSet(f) \subseteq ToSet(FlattenSeq(flusher))
    OBVIOUS
  <2> HIDE DEF f
  <2>2. QED
    BY <1>1, <1>2, <1>3, <2>1, ThroughGrows
<1> HIDE DEF t, f
<1>7. ToSet(t \o f) = ToSet(t) \cup ToSet(f)
  BY ONLY <1>3, MembersConcat
<1>8. IsInjective(t \o f)
  BY <1>3, <1>5, OnceInBoth
<1>9. KeptApart'
  <2> DEFINE tt == ToSet(t \o f)
             bb == ToSet(Buffered)
  <2>1. tt \cap bb = {} /\ tt \cup bb = ToSet(accepted) \ given.dropped
    BY <1>5, <1>7
  <2>2. QED
    BY <1>2, <1>4, <1>5, <1>6, <1>8, <2>1 DEF KeptApart
<1>10. KeptInOrder' /\ DirectApart' /\ RoundsInOrder'
  BY <1>1, <1>2 DEF KeptInOrder, DirectApart, RoundsInOrder, NotFlushing
<1>11. LastRound' /\ Settled'
  BY <1>1, <1>2, <1>4 DEF LastRound, Settled, MaySettle
<1>12. QED
  BY <1>9, <1>10, <1>11 DEF LogIInv

LEMMA LogIInvStep == ASSUME LogIInv, [LogNext]_logVars PROVE LogIInv'
<1>1. LogTyped'
  BY LogStaysTyped DEF LogIInv
<1>2. CASE UNCHANGED logVars
  <2>1. Through' = Through /\ Buffered' = Buffered
    BY <1>2 DEF logVars, Through, Buffered
  <2>2. QED
    BY <1>1, <1>2, <2>1
       DEF LogIInv, logVars, Settled, MaySettle, DirectApart, RoundsInOrder, LastRound, KeptInOrder, KeptApart
<1>3. ASSUME NEW a \in Appenders, AppendMessage(a) PROVE LogIInv'
  BY <1>1, <1>3, AppendMessageKeeps
<1>4. ASSUME NEW a \in Appenders, ContinueBlocked(a) PROVE LogIInv'
  BY <1>1, <1>4, ContinueBlockedKeeps
<1>5. ASSUME NEW a \in Appenders, WriteDirectly(a) PROVE LogIInv'
  BY <1>1, <1>5, WriteDirectlyKeeps
<1>6. CASE TakeBuffers
  BY <1>1, <1>6, TakeBuffersKeeps
<1>7. CASE WriteBuffers
  BY <1>1, <1>7, WriteBuffersKeeps
<1>8. CASE StartFlush
  BY <1>1, <1>8, StartFlushKeeps
<1>9. CASE WriteFlushed
  BY <1>1, <1>9, WriteFlushedKeeps
<1>10. CASE StopLogging
  <2>1. /\ UNCHANGED <<logging, current, buffers, writer, toWrite, flusher, appended, accepted, given, written>>
        /\ running' = FALSE /\ Wake
    BY <1>10 DEF StopLogging, outputVars
  <2>2. Through' = Through /\ Buffered' = Buffered
    BY <2>1 DEF Through, Buffered
  <2>3. Settled'
    BY <2>1, WakeSettles DEF LogIInv
  <2>4. QED
    BY <1>1, <2>1, <2>2, <2>3 DEF LogIInv, DirectApart, RoundsInOrder, LastRound, KeptInOrder, KeptApart
<1>11. CASE SecondPasses
  <2>1. UNCHANGED <<logging, running, current, buffers, writer, toWrite, flusher, appender, appended, written, accepted, given>>
    BY <1>11 DEF SecondPasses
  <2>2. Through' = Through /\ Buffered' = Buffered
    BY <2>1 DEF Through, Buffered
  <2>3. QED
    BY <1>1, <2>1, <2>2
       DEF LogIInv, Settled, MaySettle, DirectApart, RoundsInOrder, LastRound, KeptInOrder, KeptApart
<1>12. QED
  BY <1>2, <1>3, <1>4, <1>5, <1>6, <1>7, <1>8, <1>9, <1>10, <1>11 DEF LogNext

-----------------------------------------------------------------------------
LogSpec == LogInit(LogSeeds) /\ [][LogNext]_logVars

LEMMA LogIInvImpliesTyped == LogIInv => LogTyped
BY DEF LogIInv

LEMMA LogInvariant == LogSpec => []LogIInv
<1>1. LogInit(LogSeeds) => LogIInv
  BY LogIInvInitially
<1>2. LogIInv /\ [LogNext]_logVars => LogIInv'
  BY LogIInvStep
<1>3. QED
  BY <1>1, <1>2, PTL DEF LogSpec

\* The current buffer never holds more than its size, the queue, while the log
\* runs, no more than maxBuffers_, and there are never more than maxFiles files.
THEOREM LogTypeCorrect == LogSpec => []LogTypeOK
<1>1. LogIInv => LogTypeOK
  BY DEF LogIInv, LogTyped
<1>2. QED
  BY <1>1, LogInvariant, PTL

\* What the threads append comes out in order unless flush() writes at the same
\* time; no message is written twice and none is lost but by the policy of the
\* queue; and stop() leaves only what was appended while it stopped.
THEOREM LogKeepsMessages == LogSpec => []LogInOrder
<1>1. LogIInv => LogInOrder
  BY LogInOrderFromIInv
<1>2. QED
  BY <1>1, LogInvariant, PTL
=============================================================================
